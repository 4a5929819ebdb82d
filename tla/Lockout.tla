------------------------------ MODULE Lockout ------------------------------
(***************************************************************************)
(* Password sign-in, repeated failures and administration: the failure     *)
(* counter and the lock of one users row, the velocity counters of the     *)
(* store, AdminService.LockUser and UnlockUser and the credential change   *)
(* that clears a lock.                                                     *)
(*                                                                         *)
(* Login reads the store's counters, then the users row (the snapshot of   *)
(* its transaction), decides, and updates the row: an UPDATE acts on the   *)
(* row as committed by then and holds it until the end of the transaction. *)
(* The store's counters are atomic but not part of the transaction.        *)
(***************************************************************************)
EXTENDS Naturals, FiniteSets

CONSTANTS
  Requests,
  None,
  MaxLoginAttempts,
  LoginPerAccountMax,
  LoginCaptchaAfterFails,
  MaxLockoutMultiplier,
  MaxGuesses       \* bound on the wrong passwords tried

ASSUME LockoutAssumption ==
  /\ IsFiniteSet(Requests) /\ None \notin Requests
  /\ MaxLoginAttempts \in Nat \ {0, 1}
  /\ {LoginPerAccountMax, LoginCaptchaAfterFails, MaxLockoutMultiplier} \subseteq Nat \ {0}
  /\ MaxGuesses \in Nat

VARIABLES
  row,             \* the users row: failed_login_attempts and locked_until
  acct,            \* login:acct:<email>, failures of this account
  ipfail,          \* loginfail:<ip>, failures from the clients' address
  lockouts,        \* lockouts:<uid>, lockouts of the last 24 hours
  req,
  guesses,         \* wrong passwords compared, up to MaxGuesses
  answered,        \* "wrong password" answers since the counter was cleared
  lost,            \* of these, the ones whose UPDATE failed
  bare             \* failures counted without a CAPTCHA in this window

vars == <<row, acct, ipfail, lockouts, req, guesses, answered, lost, bare>>
store == <<acct, ipfail, lockouts>>
ghosts == <<guesses, answered, lost, bare>>

Inputs == {"right", "wrong", "unknown"}

\* clear: UnlockUser, or a credential change, which clears the lock as well.
Kinds == Inputs \cup {"lockUser", "clear"}

\* locked_until is unset, or was set by failures or an administrator; level is
\* the multiple of LoginLockoutDuration, over says that it lies in the past.
Row == [attempts : 0 .. MaxGuesses, lock : {"none", "fail", "admin"},
        level : 0 .. MaxLockoutMultiplier, over : BOOLEAN]

Request == [kind : Kinds \cup {None},
            pc : {"idle", "throttle", "captcha", "find", "escalate", "update", "count", "commit"},
            snap : Row, proved : BOOLEAN, level : 0 .. MaxLockoutMultiplier,
            upd : {"none", "inc", "incLock", "clear", "lock"}]

Unlocked == [attempts |-> 0, lock |-> "none", level |-> 0, over |-> FALSE]
NoRequest == [kind |-> None, pc |-> "idle", snap |-> Unlocked, proved |-> FALSE,
              level |-> 0, upd |-> "none"]

TypeOK ==
  /\ row \in Row
  /\ acct \in 0 .. MaxGuesses /\ ipfail \in 0 .. MaxGuesses /\ lockouts \in 0 .. MaxGuesses
  /\ req \in [Requests -> Request]
  /\ guesses \in 0 .. MaxGuesses /\ answered \in 0 .. MaxGuesses
  /\ lost \in 0 .. MaxGuesses /\ bare \in 0 .. MaxGuesses

Init ==
  /\ row = Unlocked
  /\ acct = 0 /\ ipfail = 0 /\ lockouts = 0
  /\ req = [p \in Requests |-> NoRequest]
  /\ guesses = 0 /\ answered = 0 /\ lost = 0 /\ bare = 0

-----------------------------------------------------------------------------

isLocked(r) == r.lock # "none" /\ ~r.over

\* The row is locked from an UPDATE to the end of its transaction.
Waits(p) == \E q \in Requests \ {p} : req[q].upd # "none"

Go(p, pc) == req' = [req EXCEPT ![p].pc = pc]
End(p) == req' = [req EXCEPT ![p] = NoRequest]

\* A request arrives.  A wrong password is counted as a guess of this run.
Begin(p, kind) ==
  /\ req[p].pc = "idle"
  /\ kind \in {"wrong", "unknown"} => guesses < MaxGuesses
  /\ guesses' = guesses + (IF kind \in {"wrong", "unknown"} THEN 1 ELSE 0)
  /\ req' = [req EXCEPT ![p] = [NoRequest EXCEPT !.kind = kind,
               !.pc = IF kind \in Inputs THEN "throttle" ELSE "find"]]
  /\ UNCHANGED <<row, store, answered, lost, bare>>

\* Per-account velocity: the counter is read, not incremented.  At the limit:
\* ErrRateLimited, which leaves no trace.  An unknown address has its own key.
Throttle(p) ==
  /\ req[p].pc = "throttle"
  /\ IF req[p].kind # "unknown" /\ acct >= LoginPerAccountMax
       THEN End(p)
       ELSE Go(p, "captcha")
  /\ UNCHANGED <<row, store, ghosts>>

\* After enough failures from the address a CAPTCHA must be solved.
Captcha(p) ==
  /\ req[p].pc = "captcha"
  /\ IF ipfail < LoginCaptchaAfterFails
       THEN Go(p, "find")
       ELSE \/ req' = [req EXCEPT ![p].pc = "find", ![p].proved = TRUE]
            \/ End(p)
  /\ UNCHANGED <<row, store, ghosts>>

\* Mutant: a locked account is not refused.
FindByEmailLocked(p) ==
  /\ req[p].pc = "find" /\ req[p].kind \in Inputs
  /\ \/ req[p].kind = "unknown" /\ Go(p, "count")
     \/ /\ req[p].kind = "wrong"
        /\ req' = [req EXCEPT ![p].snap = row, ![p].pc =
             IF row.attempts + 1 >= MaxLoginAttempts THEN "escalate" ELSE "update"]
     \/ /\ req[p].kind = "right"
        /\ req' = [req EXCEPT ![p].snap = row, ![p].pc = "update"]
  /\ UNCHANGED <<row, store, ghosts>>

\* FindByEmail, the state of the account and the password comparison.  An
\* unknown address is counted like a wrong password; a locked account is
\* answered ErrAccountLocked before the password is looked at.
FindByEmail(p) ==
  /\ req[p].pc = "find" /\ req[p].kind \in Inputs
  /\ \/ req[p].kind # "unknown" /\ isLocked(row) /\ End(p)
     \/ req[p].kind = "unknown" /\ Go(p, "count")
     \/ /\ req[p].kind = "wrong" /\ ~isLocked(row)
        /\ req' = [req EXCEPT ![p].snap = row, ![p].pc =
             IF row.attempts + 1 >= MaxLoginAttempts THEN "escalate" ELSE "update"]
     \/ /\ req[p].kind = "right" /\ ~isLocked(row)
        /\ req' = [req EXCEPT ![p].snap = row, ![p].pc = "update"]
  /\ UNCHANGED <<row, store, ghosts>>

\* FindByID of LockUser, UnlockUser and the credential change: the state of the
\* lock is not looked at.
FindByID(p) ==
  /\ req[p].pc = "find" /\ req[p].kind \notin Inputs
  /\ Go(p, "update")
  /\ UNCHANGED <<row, store, ghosts>>

\* Mutant: the lockouts of the window are not counted.
EscalateFlat(p) ==
  /\ req[p].pc = "escalate"
  /\ req' = [req EXCEPT ![p].pc = "update", ![p].level = 1]
  /\ UNCHANGED <<row, store, ghosts>>

\* recordFailedLogin, the threshold seen in the snapshot: the lockout counter
\* of the store gives the multiple of the base duration.
Escalate(p) ==
  LET n == lockouts + 1 IN
  /\ req[p].pc = "escalate"
  /\ lockouts' = n
  /\ req' = [req EXCEPT ![p].pc = "update",
       ![p].level = IF n > MaxLockoutMultiplier THEN MaxLockoutMultiplier ELSE n]
  /\ UNCHANGED <<row, acct, ipfail, ghosts>>

\* IncrementFailedAttempts, ResetFailedAttempts, SetLock or CredentialChangeTx.
Update(p) ==
  /\ req[p].pc = "update" /\ ~Waits(p)
  /\ req' = [req EXCEPT ![p].pc = "count", ![p].upd =
       CASE req[p].kind = "wrong"    -> IF req[p].level > 0 THEN "incLock" ELSE "inc"
         [] req[p].kind = "lockUser" -> "lock"
         [] OTHER                    -> "clear"]
  /\ UNCHANGED <<row, store, ghosts>>

\* The increment fails: the error is logged and the answer is given.
UpdateFails(p) ==
  /\ req[p].pc = "update" /\ req[p].kind = "wrong"
  /\ Go(p, "count")
  /\ UNCHANGED <<row, store, ghosts>>

\* recordLoginFailIP and recordLoginFailAccount; a right password deletes the
\* account's key.
Count(p) ==
  /\ req[p].pc = "count"
  /\ ipfail' = ipfail + (IF req[p].kind \in {"wrong", "unknown"} THEN 1 ELSE 0)
  /\ acct' = CASE req[p].kind = "wrong" -> acct + 1
               [] req[p].kind = "right" -> 0
               [] OTHER                 -> acct
  /\ bare' = bare + (IF req[p].kind \in {"wrong", "unknown"} /\ ~req[p].proved THEN 1 ELSE 0)
  /\ Go(p, "commit")
  /\ UNCHANGED <<row, lockouts, guesses, answered, lost>>

\* Mutant: the counter is computed from the row the request has read.
AppliedStale(r, upd, level, snap) ==
  CASE upd \in {"inc", "incLock"} -> [r EXCEPT !.attempts = snap.attempts + 1]
    [] upd = "clear" -> Unlocked
    [] upd = "lock"  -> [r EXCEPT !.lock = "admin", !.level = 0, !.over = FALSE]
    [] OTHER         -> r

\* Mutant: the counter is bumped and the lock forgotten.
AppliedUnlocked(r, upd, level, snap) ==
  CASE upd \in {"inc", "incLock"} -> [r EXCEPT !.attempts = @ + 1]
    [] upd = "clear" -> Unlocked
    [] upd = "lock"  -> [r EXCEPT !.lock = "admin", !.level = 0, !.over = FALSE]
    [] OTHER         -> r

\* The row after the UPDATE: failed_login_attempts + 1 in SQL, with or without
\* locked_until; both cleared; or locked_until alone.
Applied(r, upd, level, snap) ==
  CASE upd = "inc"     -> [r EXCEPT !.attempts = @ + 1]
    [] upd = "incLock" -> [attempts |-> r.attempts + 1, lock |-> "fail",
                           level |-> level, over |-> FALSE]
    [] upd = "clear"   -> Unlocked
    [] upd = "lock"    -> [r EXCEPT !.lock = "admin", !.level = 0, !.over = FALSE]
    [] OTHER           -> r

\* The evidence is admitted, the transaction commits and the answer is sent;
\* the refusal of a wrong password commits as a denial.
Commit(p) ==
  LET r == req[p] IN
  /\ r.pc = "commit"
  /\ row' = Applied(row, r.upd, r.level, r.snap)
  /\ IF r.upd = "clear"
       THEN answered' = 0 /\ lost' = 0
       ELSE /\ answered' = answered + (IF r.kind = "wrong" THEN 1 ELSE 0)
            /\ lost' = lost + (IF r.kind = "wrong" /\ r.upd = "none" THEN 1 ELSE 0)
  /\ End(p)
  /\ UNCHANGED <<store, guesses, bare>>

\* The admission or the commit fails, or the token pair of a right password
\* cannot be issued: rolled back, and answered with an error that says nothing
\* of the password.
Abort(p) ==
  /\ req[p].pc \notin {"idle", "throttle", "captcha"}
  /\ End(p)
  /\ UNCHANGED <<row, store, ghosts>>

-----------------------------------------------------------------------------
(* Time.  A behaviour lies within one 24-hour window of lockouts:<uid>. *)

LockOver ==
  /\ isLocked(row)
  /\ row' = [row EXCEPT !.over = TRUE]
  /\ UNCHANGED <<store, req, ghosts>>

AccountWindowOver ==
  /\ acct > 0
  /\ acct' = 0
  /\ UNCHANGED <<row, ipfail, lockouts, req, ghosts>>

AddressWindowOver ==
  /\ ipfail > 0
  /\ ipfail' = 0 /\ bare' = 0
  /\ UNCHANGED <<row, acct, lockouts, req, guesses, answered, lost>>

Step(p) ==
  \/ \E kind \in Kinds : Begin(p, kind)
  \/ Throttle(p) \/ Captcha(p) \/ FindByEmail(p) \/ FindByID(p) \/ Escalate(p)
  \/ Update(p) \/ UpdateFails(p) \/ Count(p) \/ Commit(p) \/ Abort(p)

Next ==
  \/ \E p \in Requests : Step(p)
  \/ LockOver \/ AccountWindowOver \/ AddressWindowOver

Spec == Init /\ [][Next]_vars

-----------------------------------------------------------------------------

N == Cardinality(Requests)

\* "Parallel failures from stale snapshots must all persist or the lockout
\* threshold can be evaded" (IncrementFailedAttempts): every wrong password
\* that was answered as such is in failed_login_attempts, unless the UPDATE
\* itself failed, whatever requests overlap.
AnsweredCounted == row.attempts = answered - lost

\* The lock is decided from a snapshot, and the velocity limits are read before
\* and counted after the comparison: N overlapping requests can pass a threshold
\* unseen, but never more.  An account that was not locked since its counter was
\* cleared has counted at most MaxLoginAttempts - 2 + N failures; the limits of
\* the account, and of the passwords compared before a CAPTCHA is asked for, are
\* exceeded by at most the requests in flight.
LimitsHold ==
  /\ row.lock = "none" => row.attempts <= MaxLoginAttempts - 2 + N
  /\ acct <= LoginPerAccountMax - 1 + N
  /\ bare <= LoginCaptchaAfterFails - 1 + N

LockStep ==
  \A p \in Requests :
    Commit(p) /\ req[p].kind \in Inputs /\ isLocked(row) /\ row' # row =>
      ~isLocked(req[p].snap)

\* A lock in force is lifted, replaced or shortened only by an administrator, a
\* credential change, or a sign-in that had read the row before the lock was
\* set; never by a sign-in that began after it.
LockHeld == [][LockStep]_vars

EscalationStep ==
  \A p \in Requests : Commit(p) /\ req[p].upd = "incLock" /\ req[p].snap.lock = "fail" =>
    req[p].level > req[p].snap.level \/ req[p].level = MaxLockoutMultiplier

\* "Repeat offenders get progressively longer lockouts" (recordFailedLogin): a
\* request that has seen an earlier lockout sets a longer one, up to the cap,
\* also when other requests lock the account at the same time.
LocksGrow == [][EscalationStep]_vars
=============================================================================
