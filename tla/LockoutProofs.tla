--------------------------- MODULE LockoutProofs ----------------------------
(***************************************************************************)
(* Proofs about Lockout, for every number of requests and guesses and all  *)
(* thresholds.                                                             *)
(*                                                                         *)
(* AnsweredCounted needs that an UPDATE in flight is the one its kind of   *)
(* request issues.  LockHeld needs that no request goes on after it has    *)
(* read a lock in force, and LocksGrow that no level in a row, a snapshot  *)
(* or a request is ahead of the store's count of lockouts.  LimitsHold     *)
(* needs that a count and the requests let through and not yet counted     *)
(* stay within the limit together (Limited).                               *)
(***************************************************************************)
EXTENDS Lockout, FiniteSetTheorems, TLAPS

\* A leaf is for Zenon unless it names another prover: SMT, where there is
\* arithmetic or Zenon does not find the proof.
USE Zenon

Pcs == {"idle", "throttle", "captcha", "find", "escalate", "update", "count", "commit"}
Updates == {"none", "inc", "incLock", "clear", "lock"}

\* The types, without the bounds.
AnyRow == [attempts : Nat, lock : {"none", "fail", "admin"}, level : Nat, over : BOOLEAN]
AnyRequest == [kind : Kinds \cup {None}, pc : Pcs, snap : AnyRow, proved : BOOLEAN,
               level : Nat, upd : Updates]

\* What holds of a request at any time, n being the lockouts counted so far.
Honest(r, n) ==
  /\ ~isLocked(r.snap)
  /\ r.kind = "unknown" => r.pc \notin {"escalate", "update"} /\ r.upd = "none"
  /\ r.kind = "wrong" => r.upd \in {"none", "inc", "incLock"}
  /\ r.upd \in {"inc", "incLock"} => r.kind = "wrong"
  /\ r.upd = "incLock" => r.level > 0
  /\ r.pc \in {"throttle", "captcha", "find"} => r.level = 0
  /\ r.snap.level <= n /\ r.level <= n
  /\ r.level > 0 => r.level > r.snap.level \/ r.level = MaxLockoutMultiplier

\* The counter of the row and the levels that were given out.
Tallied ==
  /\ row \in AnyRow /\ lockouts \in Nat /\ answered \in Nat /\ lost \in Nat
  /\ row.attempts = answered - lost
  /\ row.level <= lockouts

LockoutInv ==
  /\ Tallied
  /\ req \in [Requests -> AnyRequest]
  /\ \A p \in Requests : Honest(req[p], lockouts)

-----------------------------------------------------------------------------

\* The multiplier is a positive number.
LEMMA Multiplier == MaxLockoutMultiplier \in Nat /\ MaxLockoutMultiplier > 0
BY LockoutAssumption, SMT

\* A request that ended, or was never there.
LEMMA Nobody ==
  /\ NoRequest \in AnyRequest
  /\ \A n \in Nat : Honest(NoRequest, n)
BY SMT DEF NoRequest, AnyRequest, AnyRow, Unlocked, Honest, isLocked, Kinds, Inputs, Pcs, Updates

\* What a request is when it goes to another place.
LEMMA Placed ==
  ASSUME NEW r \in AnyRequest, NEW c \in Pcs
  PROVE  LET e == [r EXCEPT !.pc = c]
         IN  /\ e \in AnyRequest /\ e.pc = c /\ e.kind = r.kind
             /\ e.snap = r.snap /\ e.level = r.level /\ e.upd = r.upd
             /\ e.proved = r.proved
BY DEF AnyRequest

\* When it has solved a CAPTCHA.
LEMMA Proved ==
  ASSUME NEW r \in AnyRequest, NEW c \in Pcs
  PROVE  LET e == [r EXCEPT !.pc = c, !.proved = TRUE]
         IN  /\ e \in AnyRequest /\ e.pc = c /\ e.kind = r.kind
             /\ e.snap = r.snap /\ e.level = r.level /\ e.upd = r.upd
             /\ e.proved
BY DEF AnyRequest

\* A step of one request, which leaves a lawful request behind.
LEMMA OneRequest ==
  ASSUME LockoutInv, NEW p \in Requests, NEW r \in AnyRequest,
         req' = [req EXCEPT ![p] = r],
         Tallied', lockouts' >= lockouts, Honest(r, lockouts')
  PROVE  LockoutInv'
<1>1. req' \in [Requests -> AnyRequest]
  BY DEF LockoutInv
<1>2. ASSUME NEW q \in Requests PROVE Honest(req'[q], lockouts')
  <2>1. CASE q = p
    BY <2>1 DEF LockoutInv
  <2>2. CASE q # p
    <3>1. req'[q] = req[q] /\ Honest(req[q], lockouts) /\ req[q] \in AnyRequest
      BY <2>2 DEF LockoutInv
    <3>2. req[q].level \in Nat /\ req[q].snap.level \in Nat
      BY <3>1 DEF AnyRequest, AnyRow
    <3>3. lockouts \in Nat /\ lockouts' \in Nat
      BY DEF LockoutInv, Tallied
    <3> QED
      BY <3>1, <3>2, <3>3, SMT DEF Honest
  <2> QED
    BY <2>1, <2>2
<1> QED
  BY <1>1, <1>2 DEF LockoutInv

\* A request that begins.
LEMMA Begun ==
  ASSUME NEW kind \in Kinds, NEW c \in {"throttle", "find"}, NEW n \in Nat
  PROVE  LET r == [NoRequest EXCEPT !.kind = kind, !.pc = c]
         IN  r \in AnyRequest /\ Honest(r, n)
<1> DEFINE r == [NoRequest EXCEPT !.kind = kind, !.pc = c]
<1>1. /\ NoRequest.snap = Unlocked /\ NoRequest.level = 0 /\ NoRequest.upd = "none"
      /\ ~isLocked(Unlocked) /\ Unlocked.level = 0 /\ c \in Pcs
  BY DEF NoRequest, Unlocked, isLocked, Pcs
<1>2. /\ r \in AnyRequest /\ r.pc = c /\ r.kind = kind
      /\ r.snap = NoRequest.snap /\ r.level = NoRequest.level /\ r.upd = NoRequest.upd
  <2>1. NoRequest \in AnyRequest
    BY Nobody
  <2> QED
    BY <1>1, <2>1 DEF AnyRequest
<1> HIDE DEF r
<1>3. Honest(r, n)
  BY <1>1, <1>2, SMT DEF Honest
<1> QED
  BY <1>2, <1>3 DEF r

\* What the invariant says of one request.
LEMMA Lawful ==
  ASSUME LockoutInv, NEW p \in Requests
  PROVE  req[p] \in AnyRequest /\ Honest(req[p], lockouts) /\ lockouts \in Nat /\ row \in AnyRow
BY DEF LockoutInv, Tallied

\* Nothing is tallied.
LEMMA TallyFrame ==
  ASSUME Tallied, UNCHANGED <<row, lockouts, answered, lost>>
  PROVE  Tallied' /\ lockouts' >= lockouts
BY SMT DEF Tallied

\* The request ends, in whatever way, and nothing is tallied.
LEMMA Ended ==
  ASSUME LockoutInv, NEW p \in Requests, End(p), UNCHANGED <<row, lockouts, answered, lost>>
  PROVE  LockoutInv'
BY OneRequest, TallyFrame, Nobody, Lawful DEF End, LockoutInv

\* It goes on elsewhere, and nothing is tallied.
LEMMA WentOn ==
  ASSUME LockoutInv, NEW p \in Requests, NEW c \in Pcs \ {"throttle", "find"}, Go(p, c),
         UNCHANGED <<row, lockouts, answered, lost>>,
         c \in {"escalate", "update"} => req[p].kind # "unknown",
         c = "captcha" => req[p].level = 0
  PROVE  LockoutInv'
<1> DEFINE r == [req[p] EXCEPT !.pc = c]
<1>1. /\ r \in AnyRequest /\ r.pc = c /\ r.kind = req[p].kind /\ r.snap = req[p].snap
      /\ r.level = req[p].level /\ r.upd = req[p].upd
  BY Lawful, Placed
<1>2. Honest(r, lockouts)
  <2> HIDE DEF r
  <2> QED
    BY <1>1, Lawful DEF Honest
<1>3. req' = [req EXCEPT ![p] = r]
  BY DEF Go, LockoutInv
<1> HIDE DEF r
<1> QED
  BY <1>1, <1>2, <1>3, OneRequest, TallyFrame DEF LockoutInv

\* The row after an UPDATE: one more failure, none, or as many as before.
LEMMA AppliedRow ==
  ASSUME NEW r \in AnyRow, NEW u \in Updates, NEW n \in Nat, NEW s
  PROVE  LET a == Applied(r, u, n, s)
         IN  /\ a \in AnyRow
             /\ a.attempts = IF u \in {"inc", "incLock"} THEN r.attempts + 1
                             ELSE IF u = "clear" THEN 0 ELSE r.attempts
             /\ a.level <= r.level \/ a.level <= n
             /\ u = "none" => a = r
<1>0. r.attempts \in Nat /\ r.level \in Nat
  BY DEF AnyRow
<1>1. CASE u = "inc"
  <2> DEFINE e == [r EXCEPT !.attempts = @ + 1]
  <2>1. Applied(r, u, n, s) = e
    BY <1>1 DEF Applied
  <2>2. e \in AnyRow
    BY SMT DEF AnyRow
  <2>3. e.attempts = r.attempts + 1 /\ e.level = r.level
    BY DEF AnyRow
  <2> HIDE DEF e
  <2> QED
    BY <1>0, <1>1, <2>1, <2>2, <2>3, SMT
<1>2. CASE u = "incLock"
  <2> DEFINE e == [attempts |-> r.attempts + 1, lock |-> "fail", level |-> n, over |-> FALSE]
  <2>1. Applied(r, u, n, s) = e
    BY <1>2 DEF Applied
  <2>2. e \in AnyRow
    BY SMT DEF AnyRow
  <2>3. e.attempts = r.attempts + 1 /\ e.level = n
    BY DEF AnyRow
  <2> HIDE DEF e
  <2> QED
    BY <1>0, <1>2, <2>1, <2>2, <2>3, SMT
<1>3. CASE u = "clear"
  <2>1. Applied(r, u, n, s) = Unlocked
    BY <1>3 DEF Applied
  <2>2. Unlocked \in AnyRow
    BY DEF AnyRow, Unlocked
  <2>3. Unlocked.attempts = 0 /\ Unlocked.level = 0
    BY DEF AnyRow, Unlocked
  <2> QED
    BY <1>0, <1>3, <2>1, <2>2, <2>3, SMT
<1>4. CASE u = "lock"
  <2> DEFINE e == [r EXCEPT !.lock = "admin", !.level = 0, !.over = FALSE]
  <2>1. Applied(r, u, n, s) = e
    BY <1>4 DEF Applied
  <2>2. e \in AnyRow
    BY DEF AnyRow
  <2>3. e.attempts = r.attempts /\ e.level = 0
    BY DEF AnyRow
  <2> HIDE DEF e
  <2> QED
    BY <1>0, <1>4, <2>1, <2>2, <2>3, SMT
<1>5. CASE u = "none"
  <2>1. Applied(r, u, n, s) = r
    BY <1>5 DEF Applied
  <2> QED
    BY <1>0, <1>5, <2>1, SMT
<1> QED
  BY <1>1, <1>2, <1>3, <1>4, <1>5 DEF Updates

\* Begin, Throttle, Captcha and Abort.
LEMMA FirstSteps ==
  ASSUME LockoutInv, NEW p \in Requests,
         (\E kind \in Kinds : Begin(p, kind)) \/ Throttle(p) \/ Captcha(p) \/ Abort(p)
  PROVE  LockoutInv'
<1>0. /\ req[p] \in AnyRequest /\ Honest(req[p], lockouts) /\ lockouts \in Nat
      /\ Tallied /\ req \in [Requests -> AnyRequest]
  BY Lawful DEF LockoutInv
<1>1. UNCHANGED <<row, lockouts, answered, lost>>
  BY DEF Begin, Throttle, Captcha, Abort, store, ghosts
<1>2. ASSUME NEW kind \in Kinds, Begin(p, kind) PROVE LockoutInv'
  <2> DEFINE c == IF kind \in Inputs THEN "throttle" ELSE "find"
             r == [NoRequest EXCEPT !.kind = kind, !.pc = c]
  <2>1. c \in {"throttle", "find"}
    OBVIOUS
  <2>2. req' = [req EXCEPT ![p] = r]
    BY <1>2 DEF Begin
  <2> HIDE DEF c
  <2>3. r \in AnyRequest /\ Honest(r, lockouts)
    BY <1>0, <2>1, Begun
  <2> HIDE DEF r
  <2> QED
    BY <1>0, <1>1, <2>2, <2>3, OneRequest, TallyFrame
<1>3. CASE End(p)
  BY <1>1, <1>3, Ended
<1>4. ASSUME NEW c \in {"captcha", "find"}, Go(p, c), req[p].level = 0 PROVE LockoutInv'
  <2> DEFINE r == [req[p] EXCEPT !.pc = c]
  <2>1. c \in Pcs
    BY DEF Pcs
  <2>2. /\ r \in AnyRequest /\ r.pc = c /\ r.kind = req[p].kind
        /\ r.snap = req[p].snap /\ r.level = req[p].level /\ r.upd = req[p].upd
    BY <1>0, <2>1, Placed
  <2>3. req' = [req EXCEPT ![p] = r]
    BY <1>0, <1>4 DEF Go
  <2> HIDE DEF r
  <2>4. Honest(r, lockouts)
    BY <1>0, <1>4, <2>2 DEF Honest
  <2> QED
    BY <1>0, <1>1, <2>2, <2>3, <2>4, OneRequest, TallyFrame
<1>5. CASE Captcha(p) /\ req' = [req EXCEPT ![p].pc = "find", ![p].proved = TRUE]
  <2> DEFINE c == "find"
             r == [req[p] EXCEPT !.pc = c, !.proved = TRUE]
  <2>1. c \in Pcs /\ req[p].level = 0
    BY <1>0, <1>5 DEF Captcha, Honest, Pcs
  <2>2. /\ r \in AnyRequest /\ r.pc = c /\ r.kind = req[p].kind
        /\ r.snap = req[p].snap /\ r.level = req[p].level /\ r.upd = req[p].upd
    BY <1>0, <2>1, Proved
  <2>3. req' = [req EXCEPT ![p] = r]
    BY <1>0, <1>5
  <2> HIDE DEF r
  <2>4. Honest(r, lockouts)
    BY <1>0, <2>1, <2>2 DEF Honest
  <2> QED
    BY <1>0, <1>1, <2>2, <2>3, <2>4, OneRequest, TallyFrame
<1>6. CASE Throttle(p)
  <2>1. req[p].level = 0 /\ (End(p) \/ Go(p, "captcha"))
    BY <1>0, <1>6 DEF Throttle, Honest
  <2> QED
    BY <1>3, <1>4, <2>1
<1>7. CASE Captcha(p)
  <2>1. req[p].level = 0
    BY <1>0, <1>7 DEF Captcha, Honest
  <2>2. \/ End(p) \/ Go(p, "find")
        \/ req' = [req EXCEPT ![p].pc = "find", ![p].proved = TRUE]
    BY <1>7 DEF Captcha
  <2>3. CASE Go(p, "find")
    BY <1>4, <2>1, <2>3
  <2> QED
    BY <1>3, <1>5, <1>7, <2>2, <2>3
<1>8. CASE Abort(p)
  BY <1>3, <1>8 DEF Abort
<1> QED
  BY <1>2, <1>6, <1>7, <1>8

\* The snapshot, Escalate, the UPDATE and Count.
LEMMA MiddleSteps ==
  ASSUME LockoutInv, NEW p \in Requests,
         \/ FindByEmail(p) \/ FindByID(p) \/ Escalate(p) \/ Update(p) \/ UpdateFails(p) \/ Count(p)
  PROVE  LockoutInv'
<1>0. /\ req[p] \in AnyRequest /\ Honest(req[p], lockouts) /\ lockouts \in Nat
      /\ Tallied /\ req \in [Requests -> AnyRequest] /\ row \in AnyRow
      /\ row.level \in Nat /\ row.level <= lockouts
  BY Lawful DEF LockoutInv, Tallied, AnyRow
<1>1. CASE FindByEmail(p)
  <2>0. UNCHANGED <<row, lockouts, answered, lost>> /\ req[p].level = 0
    BY <1>0, <1>1 DEF FindByEmail, store, ghosts, Honest
  <2>1. CASE End(p)
    BY <2>0, <2>1, Ended
  <2>2. CASE Go(p, "count")
    BY <2>0, <2>2, WentOn DEF Pcs
  <2>3. ASSUME NEW c \in {"escalate", "update"}, req[p].kind \in {"wrong", "right"},
               ~isLocked(row), req' = [req EXCEPT ![p].snap = row, ![p].pc = c]
        PROVE  LockoutInv'
    <3> DEFINE r == [req[p] EXCEPT !.snap = row, !.pc = c]
    <3>1. /\ r \in AnyRequest /\ r.pc = c /\ r.kind = req[p].kind
          /\ r.snap = row /\ r.level = req[p].level /\ r.upd = req[p].upd
      <4>1. c \in Pcs /\ req[p] \in AnyRequest /\ row \in AnyRow
        BY <1>0 DEF Pcs
      <4> QED
        BY <4>1 DEF AnyRequest
    <3>2. req' = [req EXCEPT ![p] = r]
      BY <1>0, <2>3
    <3> HIDE DEF r
    <3>3. Honest(r, lockouts)
      BY <1>0, <2>0, <2>3, <3>1, SMT DEF Honest
    <3> QED
      BY <1>0, <2>0, <3>1, <3>2, <3>3, OneRequest, TallyFrame
  <2>4. \/ End(p) \/ Go(p, "count")
        \/ /\ req[p].kind \in {"wrong", "right"} /\ ~isLocked(row)
           /\ \E c \in {"escalate", "update"} : req' = [req EXCEPT ![p].snap = row, ![p].pc = c]
    BY <1>1 DEF FindByEmail
  <2> QED
    BY <2>1, <2>2, <2>3, <2>4
<1>2. CASE FindByID(p) \/ UpdateFails(p)
  <2>1. UNCHANGED <<row, lockouts, answered, lost>>
    BY <1>2 DEF FindByID, UpdateFails, store, ghosts
  <2>2. (Go(p, "update") /\ req[p].kind # "unknown") \/ Go(p, "count")
    BY <1>2 DEF FindByID, UpdateFails, Inputs
  <2> QED
    BY <2>1, <2>2, WentOn DEF Pcs
<1>3. CASE Count(p)
  <2>1. UNCHANGED <<row, lockouts, answered, lost>> /\ Go(p, "commit")
    BY <1>3 DEF Count
  <2> QED
    BY <2>1, WentOn DEF Pcs
<1>4. CASE Escalate(p)
  <2> DEFINE n == lockouts + 1
             top == IF n > MaxLockoutMultiplier THEN MaxLockoutMultiplier ELSE n
  <2>1. top \in Nat /\ 0 < top /\ top <= n /\ (top > lockouts \/ top = MaxLockoutMultiplier)
    BY <1>0, Multiplier, SMT
  <2>2. req' = [req EXCEPT ![p].pc = "update", ![p].level = top]
    BY <1>4 DEF Escalate
  <2>3. /\ lockouts' = n /\ UNCHANGED <<row, answered, lost>>
        /\ req[p].kind # "unknown"
    BY <1>0, <1>4 DEF Escalate, ghosts, Honest
  <2> HIDE DEF top
  <2>4. PICK m \in Nat : /\ 0 < m /\ m <= n /\ (m > lockouts \/ m = MaxLockoutMultiplier)
                         /\ req' = [req EXCEPT ![p].pc = "update", ![p].level = m]
    BY <2>1, <2>2
  <2> DEFINE r == [req[p] EXCEPT !.pc = "update", !.level = m]
  <2>5. /\ r \in AnyRequest /\ r.pc = "update" /\ r.kind = req[p].kind
        /\ r.snap = req[p].snap /\ r.level = m /\ r.upd = req[p].upd
    BY <1>0 DEF AnyRequest, Pcs
  <2>6. req' = [req EXCEPT ![p] = r]
    BY <1>0, <2>4
  <2> HIDE DEF r
  <2>7. r.snap.level \in Nat /\ r.snap.level <= lockouts
    BY <1>0, <2>5 DEF Honest, AnyRequest, AnyRow
  <2>8. Honest(r, n)
    BY <1>0, <2>3, <2>4, <2>5, <2>7, SMT DEF Honest
  <2>9. Tallied' /\ lockouts' >= lockouts
    BY <1>0, <2>3, SMT DEF Tallied
  <2> QED
    BY <2>3, <2>5, <2>6, <2>8, <2>9, OneRequest
<1>5. CASE Update(p)
  <2> DEFINE u == CASE req[p].kind = "wrong"    -> IF req[p].level > 0 THEN "incLock" ELSE "inc"
                    [] req[p].kind = "lockUser" -> "lock"
                    [] OTHER                    -> "clear"
             r == [req[p] EXCEPT !.pc = "count", !.upd = u]
  <2>0. UNCHANGED <<row, lockouts, answered, lost>>
    BY <1>5 DEF Update, store, ghosts
  <2>1. /\ u \in Updates \ {"none"}
        /\ u \in {"inc", "incLock"} <=> req[p].kind = "wrong"
        /\ u = "incLock" => req[p].level > 0
    BY DEF Updates
  <2>2. req' = [req EXCEPT ![p] = r]
    BY <1>0, <1>5 DEF Update
  <2>3. req[p].kind # "unknown"
    BY <1>0, <1>5 DEF Update, Honest
  <2> HIDE DEF u
  <2>4. /\ r \in AnyRequest /\ r.pc = "count" /\ r.kind = req[p].kind
        /\ r.snap = req[p].snap /\ r.level = req[p].level /\ r.upd = u
    <3>1. req[p] \in AnyRequest /\ "count" \in Pcs /\ u \in Updates
      BY <1>0, <2>1 DEF Pcs
    <3> QED BY <3>1 DEF AnyRequest
  <2> HIDE DEF r
  <2>5. Honest(r, lockouts)
    BY <1>0, <2>1, <2>3, <2>4 DEF Honest
  <2> QED
    BY <1>0, <2>0, <2>2, <2>4, <2>5, OneRequest, TallyFrame
<1> QED
  BY <1>1, <1>2, <1>3, <1>4, <1>5

\* Commit: the counter moves with the answers.
LEMMA CommitStep ==
  ASSUME LockoutInv, NEW p \in Requests, Commit(p)
  PROVE  LockoutInv'
<1>0. /\ req[p] \in AnyRequest /\ Honest(req[p], lockouts) /\ Tallied
      /\ row \in AnyRow /\ row.attempts \in Nat /\ row.level \in Nat /\ row.level <= lockouts
      /\ req[p].level \in Nat /\ req[p].level <= lockouts /\ req[p].upd \in Updates
  BY Lawful DEF LockoutInv, Tallied, AnyRequest, AnyRow, Honest
<1>1. lockouts' = lockouts /\ End(p) /\ row' = Applied(row, req[p].upd, req[p].level, req[p].snap)
  BY DEF Commit, store
<1>2. /\ row' \in AnyRow
      /\ row'.attempts = IF req[p].upd \in {"inc", "incLock"} THEN row.attempts + 1
                         ELSE IF req[p].upd = "clear" THEN 0 ELSE row.attempts
      /\ row'.level <= row.level \/ row'.level <= req[p].level
  BY <1>0, <1>1, AppliedRow, SMT
<1>3. row'.level \in Nat
  BY <1>2 DEF AnyRow
<1>4. req[p].upd \in {"inc", "incLock"} \/ req[p].upd = "clear" \/ req[p].upd = "none"
      \/ req[p].upd = "lock"
  BY <1>0 DEF Updates
<1>5. /\ answered' \in Nat /\ lost' \in Nat
      /\ row'.attempts = answered' - lost'
  <2>1. CASE req[p].upd = "clear"
    BY <1>2, <2>1, SMT DEF Commit
  <2>2. CASE req[p].upd \in {"inc", "incLock"}
    <3>1. answered' = answered + 1 /\ lost' = lost
      BY <1>0, <2>2, SMT DEF Commit, Honest, Tallied
    <3> QED
      BY <1>0, <1>2, <2>2, <3>1, SMT DEF Tallied
  <2>3. CASE req[p].upd = "lock"
    <3>1. answered' = answered /\ lost' = lost
      BY <1>0, <2>3, SMT DEF Commit, Honest, Tallied
    <3> QED
      BY <1>0, <1>2, <2>3, <3>1 DEF Tallied
  <2>4. CASE req[p].upd = "none"
    <3>1. \/ answered' = answered /\ lost' = lost
          \/ answered' = answered + 1 /\ lost' = lost + 1
      BY <1>0, <2>4, SMT DEF Commit, Tallied
    <3> QED
      BY <1>0, <1>2, <2>4, <3>1, SMT DEF Tallied
  <2> QED
    BY <1>4, <2>1, <2>2, <2>3, <2>4
<1>6. lockouts \in Nat /\ row'.level <= lockouts
  <2>1. lockouts \in Nat
    BY <1>0 DEF Tallied
  <2> QED
    BY <1>0, <1>2, <1>3, <2>1, SMT
<1>7. lockouts' \in Nat /\ lockouts' >= lockouts /\ row'.level <= lockouts'
  BY <1>1, <1>6, SMT
<1>8. Tallied'
  BY <1>2, <1>5, <1>7 DEF Tallied
<1> QED
  BY <1>1, <1>7, <1>8, OneRequest, Nobody DEF End

\* Time passes.
LEMMA TimeSteps ==
  ASSUME LockoutInv, LockOver \/ AccountWindowOver \/ AddressWindowOver \/ UNCHANGED vars
  PROVE  LockoutInv'
<1>1. UNCHANGED <<req, lockouts, answered, lost>>
  BY DEF LockOver, AccountWindowOver, AddressWindowOver, vars, store, ghosts
<1>2. row' = row \/ row' = [row EXCEPT !.over = TRUE]
  BY DEF LockOver, AccountWindowOver, AddressWindowOver, vars
<1>3. row' \in AnyRow /\ row'.attempts = row.attempts /\ row'.level = row.level
  BY <1>2 DEF LockoutInv, Tallied, AnyRow
<1> QED
  BY <1>1, <1>3 DEF LockoutInv, Tallied

\* The invariant holds at first.
LEMMA LockoutInit == Init => LockoutInv
<1> SUFFICES ASSUME Init PROVE LockoutInv
  OBVIOUS
<1>1. Unlocked \in AnyRow /\ Unlocked.attempts = 0 /\ Unlocked.level = 0
  BY DEF Unlocked, AnyRow
<1>2. Tallied
  BY <1>1, SMT DEF Init, Tallied
<1> QED
  BY <1>2, Nobody DEF Init, LockoutInv

\* And after every step.
LEMMA LockoutNext == LockoutInv /\ [Next]_vars => LockoutInv'
BY FirstSteps, MiddleSteps, CommitStep, TimeSteps DEF Next, Step

\* The failure counter of the row is the number of wrong passwords answered
\* since it was cleared, less those whose UPDATE failed, for any number of
\* overlapping sign-ins (IncrementFailedAttempts adds in SQL).
THEOREM NoFailureForgotten == Spec => []AnsweredCounted
<1>1. LockoutInv => AnsweredCounted
  BY DEF LockoutInv, Tallied, AnsweredCounted
<1> QED
  BY LockoutInit, LockoutNext, <1>1, PTL DEF Spec

\* A sign-in that began after a lock was set never lifts, replaces or shortens
\* it (loginAudited refuses a locked account before it writes).
THEOREM LocksOutlastSignIns == Spec => LockHeld
<1>1. LockoutInv /\ [Next]_vars => [LockStep]_vars
  BY DEF LockoutInv, Honest, LockStep
<1> QED
  BY LockoutInit, LockoutNext, <1>1, PTL DEF Spec, LockHeld

\* A sign-in that has seen a lockout sets a longer one, up to the cap, whatever
\* other sign-ins do (recordFailedLogin).
THEOREM LocksEscalate == Spec => LocksGrow
<1>1. LockoutInv /\ [Next]_vars => [EscalationStep]_vars
  BY DEF LockoutInv, Honest, EscalationStep
<1> QED
  BY LockoutInit, LockoutNext, <1>1, PTL DEF Spec, LocksGrow

-----------------------------------------------------------------------------
(* The limits.  A threshold is read at one step and what it limits is       *)
(* counted at a later one; between them the request is one of those that    *)
(* may still pass it.                                                       *)

\* Past the velocity limit of the account, its failure not counted yet.
Tested(r) == r.kind = "wrong" /\ r.pc \in {"captcha", "find", "escalate", "update", "count"}

\* Past the CAPTCHA without one, its failure not counted yet.
Unproved(r) ==
  r.kind \in {"wrong", "unknown"} /\ ~r.proved /\ r.pc \in {"find", "escalate", "update", "count"}

\* Decided, from its snapshot, not to lock the account.
Below(r) == r.kind = "wrong" /\ r.level = 0 /\ r.pc \in {"update", "count", "commit"}

Testing == {p \in Requests : Tested(req[p])}
Proving == {p \in Requests : Unproved(req[p])}
Sparing == {p \in Requests : Below(req[p])}

\* A count and those that may still be counted stay within a limit.
Within(count, S, limit) == count + Cardinality(S) <= limit - 1 + N

\* An UPDATE is issued before the failure is counted, and bumps the counter
\* without a lock only if no lock was decided.
Issued(r) == /\ r.upd # "none" => r.pc \in {"count", "commit"}
             /\ r.upd = "inc" => r.level = 0

Limited ==
  /\ acct \in Nat /\ ipfail \in Nat /\ bare \in Nat /\ bare <= ipfail
  /\ Within(acct, Testing, LoginPerAccountMax)
  /\ Within(bare, Proving, LoginCaptchaAfterFails)
  /\ row.lock = "none" => Within(row.attempts, Sparing, MaxLoginAttempts - 1)
  /\ \A p \in Requests : Issued(req[p])

\* What a step of one request may do to a count x under a limit: count what was
\* let through, once; let through when the count is below the limit; or neither.
Paid(x, y, limit, was, is) ==
  \/ y <= x /\ (is => was)
  \/ y = x + 1 /\ was /\ ~is
  \/ y < limit

\* Such a step keeps the count within the limit.
LEMMA PaidKeeps ==
  ASSUME NEW A \in SUBSET Requests, NEW B \in SUBSET Requests, NEW p \in Requests,
         A \ {p} = B \ {p}, NEW x \in Nat, NEW y \in Nat, NEW limit \in Nat,
         Within(x, A, limit) \/ y < limit, Paid(x, y, limit, p \in A, p \in B)
  PROVE  Within(y, B, limit)
<1> DEFINE a == Cardinality(A)
           b == Cardinality(B)
<1>1. IsFiniteSet(A) /\ IsFiniteSet(B) /\ b <= N
  BY LockoutAssumption, FS_Subset DEF N
<1>2. a \in Nat /\ b \in Nat /\ N \in Nat
  BY <1>1, LockoutAssumption, FS_CardinalityType DEF N
<1>3. ASSUME p \in B => p \in A PROVE b <= a
  <2>1. B \subseteq A
    BY <1>3
  <2> QED BY <1>1, <2>1, FS_Subset
<1>4. ASSUME p \in A, p \notin B PROVE b = a - 1
  <2>1. B = A \ {p}
    BY <1>4
  <2> QED BY <1>1, <1>4, <2>1, FS_RemoveElement
<1> HIDE DEF a, b
<1>5. Within(x, A, limit) <=> x + a <= limit - 1 + N
  BY DEF Within, a
<1>6. y + b <= limit - 1 + N
  <2>1. CASE y < limit
    BY <1>1, <1>2, <2>1, SMT
  <2>2. CASE ~(y < limit) /\ y <= x /\ (p \in B => p \in A)
    BY <1>2, <1>3, <1>5, <2>2, SMT
  <2>3. CASE ~(y < limit) /\ y = x + 1 /\ p \in A /\ p \notin B
    BY <1>2, <1>4, <1>5, <2>3, SMT
  <2> QED BY <2>1, <2>2, <2>3 DEF Paid
<1> QED BY <1>6 DEF Within, b

\* The limits are numbers.
LEMMA Limits ==
  /\ LoginPerAccountMax \in Nat /\ LoginPerAccountMax > 0
  /\ LoginCaptchaAfterFails \in Nat /\ LoginCaptchaAfterFails > 0
  /\ MaxLoginAttempts \in Nat /\ MaxLoginAttempts - 1 \in Nat /\ MaxLoginAttempts - 1 > 0
BY LockoutAssumption, SMT

\* A step of one request, which becomes n.
LEMMA LimitedStep ==
  ASSUME LockoutInv, LockoutInv', Limited, NEW p \in Requests, NEW n,
         req' = [req EXCEPT ![p] = n],
         acct' \in Nat, ipfail' \in Nat, bare' \in Nat, bare' <= ipfail', Issued(n),
         Paid(acct, acct', LoginPerAccountMax, Tested(req[p]), Tested(n)),
         Paid(bare, bare', LoginCaptchaAfterFails, Unproved(req[p]), Unproved(n)),
         row'.lock = "none" =>
           \/ row'.attempts < MaxLoginAttempts - 1
           \/ /\ row.lock = "none"
              /\ Paid(row.attempts, row'.attempts, MaxLoginAttempts - 1, Below(req[p]), Below(n))
  PROVE  Limited'
<1>1. \A q \in Requests : req'[q] = IF q = p THEN n ELSE req[q]
  BY DEF LockoutInv
<1>2. /\ Testing \in SUBSET Requests /\ Testing' \in SUBSET Requests
      /\ Testing \ {p} = Testing' \ {p}
      /\ p \in Testing <=> Tested(req[p])
      /\ p \in Testing' <=> Tested(n)
  BY <1>1 DEF Testing, Tested
<1>3. /\ Proving \in SUBSET Requests /\ Proving' \in SUBSET Requests
      /\ Proving \ {p} = Proving' \ {p}
      /\ p \in Proving <=> Unproved(req[p])
      /\ p \in Proving' <=> Unproved(n)
  BY <1>1 DEF Proving, Unproved
<1>4. /\ Sparing \in SUBSET Requests /\ Sparing' \in SUBSET Requests
      /\ Sparing \ {p} = Sparing' \ {p}
      /\ p \in Sparing <=> Below(req[p])
      /\ p \in Sparing' <=> Below(n)
  BY <1>1 DEF Sparing, Below
<1>5. row.attempts \in Nat /\ row'.attempts \in Nat
  BY DEF LockoutInv, Tallied, AnyRow
<1>6. Within(acct', Testing', LoginPerAccountMax)
  <2>1. Paid(acct, acct', LoginPerAccountMax, p \in Testing, p \in Testing')
    BY <1>2 DEF Paid
  <2> QED BY <1>2, <2>1, Limits, PaidKeeps DEF Limited
<1>7. Within(bare', Proving', LoginCaptchaAfterFails)
  <2>1. Paid(bare, bare', LoginCaptchaAfterFails, p \in Proving, p \in Proving')
    BY <1>3 DEF Paid
  <2> QED BY <1>3, <2>1, Limits, PaidKeeps DEF Limited
<1>8. ASSUME row'.lock = "none" PROVE Within(row'.attempts, Sparing', MaxLoginAttempts - 1)
  <2>1. Paid(row.attempts, row'.attempts, MaxLoginAttempts - 1, p \in Sparing, p \in Sparing')
    BY <1>4, <1>8 DEF Paid
  <2>2. Within(row.attempts, Sparing, MaxLoginAttempts - 1) \/ row'.attempts < MaxLoginAttempts - 1
    BY <1>8 DEF Limited
  <2> QED BY <1>4, <1>5, <2>1, <2>2, Limits, PaidKeeps
<1>9. \A q \in Requests : Issued(req'[q])
  BY <1>1 DEF Limited
<1> QED BY <1>6, <1>7, <1>8, <1>9 DEF Limited, Within, N

\* A step that counts nothing: it lets a request through below a limit, or not.
LEMMA LimitedMove ==
  ASSUME LockoutInv, LockoutInv', Limited, NEW p \in Requests, NEW n,
         req' = [req EXCEPT ![p] = n], UNCHANGED <<row, acct, ipfail, bare>>, Issued(n),
         Tested(n) => Tested(req[p]) \/ acct < LoginPerAccountMax,
         Unproved(n) => Unproved(req[p]) \/ bare < LoginCaptchaAfterFails,
         Below(n) => Below(req[p]) \/ row.attempts < MaxLoginAttempts - 1
  PROVE  Limited'
<1>1. acct \in Nat /\ ipfail \in Nat /\ bare \in Nat /\ bare <= ipfail /\ row.attempts \in Nat
  BY DEF Limited, LockoutInv, Tallied, AnyRow
<1>2. acct' <= acct /\ bare' <= bare /\ row'.attempts <= row.attempts
  BY <1>1, SMT
<1>3. /\ Paid(acct, acct', LoginPerAccountMax, Tested(req[p]), Tested(n))
      /\ Paid(bare, bare', LoginCaptchaAfterFails, Unproved(req[p]), Unproved(n))
      /\ Paid(row.attempts, row'.attempts, MaxLoginAttempts - 1, Below(req[p]), Below(n))
  BY <1>2 DEF Paid
<1> QED BY <1>1, <1>3, LimitedStep

\* A request that ended lets nothing through.
LEMMA NotWaiting ==
  ~Tested(NoRequest) /\ ~Unproved(NoRequest) /\ ~Below(NoRequest) /\ Issued(NoRequest)
<1>1. NoRequest.pc = "idle" /\ NoRequest.upd = "none"
  BY DEF NoRequest
<1> QED BY <1>1 DEF Tested, Unproved, Below, Issued

\* A request that goes on as it is.
LEMMA LimitedGo ==
  ASSUME LockoutInv, LockoutInv', Limited, NEW p \in Requests, NEW c \in Pcs, Go(p, c),
         UNCHANGED <<row, acct, ipfail, bare>>, req[p].upd = "none",
         c \in {"captcha", "find", "count"},
         c = "captcha" => req[p].kind # "wrong" \/ acct < LoginPerAccountMax,
         c = "find" => req[p].pc = "captcha" /\ bare < LoginCaptchaAfterFails,
         c = "count" => req[p].pc = "update" \/ (req[p].pc = "find" /\ req[p].kind = "unknown")
  PROVE  Limited'
<1> DEFINE r == req[p]
           n == [r EXCEPT !.pc = c]
<1>1. /\ n.pc = c /\ n.kind = r.kind /\ n.level = r.level /\ n.upd = r.upd /\ n.proved = r.proved
      /\ req' = [req EXCEPT ![p] = n]
  BY Lawful, Placed DEF Go
<1> HIDE DEF n
<1>2. Issued(n)
  BY <1>1 DEF Issued
<1>3. Tested(n) => Tested(r) \/ acct < LoginPerAccountMax
  BY <1>1 DEF Tested
<1>4. Unproved(n) => Unproved(r) \/ bare < LoginCaptchaAfterFails
  BY <1>1 DEF Unproved
<1>5. Below(n) => Below(r)
  BY <1>1 DEF Below
<1> QED BY <1>1, <1>2, <1>3, <1>4, <1>5, LimitedMove

\* The steps before the comparison, and the ends.
LEMMA LimitedFirst ==
  ASSUME LockoutInv, LockoutInv', Limited, NEW p \in Requests,
         \/ \E kind \in Kinds : Begin(p, kind)
         \/ Throttle(p) \/ Captcha(p) \/ FindByID(p) \/ UpdateFails(p) \/ Abort(p)
  PROVE  Limited'
<1> DEFINE r == req[p]
<1>1. /\ r \in AnyRequest /\ Issued(r) /\ acct \in Nat /\ ipfail \in Nat /\ bare \in Nat /\ bare <= ipfail
  BY Lawful DEF Limited
<1>2. UNCHANGED <<row, acct, ipfail, bare>>
  BY DEF Begin, Throttle, Captcha, FindByID, UpdateFails, Abort, store, ghosts
<1>3. CASE End(p)
  BY <1>2, <1>3, NotWaiting, LimitedMove DEF End
<1>4. ASSUME NEW kind \in Kinds, Begin(p, kind) PROVE Limited'
  <2> DEFINE c == IF kind \in Inputs THEN "throttle" ELSE "find"
             n == [NoRequest EXCEPT !.kind = kind, !.pc = c]
  <2>1. req' = [req EXCEPT ![p] = n]
    BY <1>4 DEF Begin
  <2>2. c \in {"throttle", "find"} /\ (c = "find" => kind \notin {"wrong", "unknown"})
    BY DEF Inputs
  <2> HIDE DEF c
  <2>3. n.kind = kind /\ n.pc = c /\ n.upd = "none"
    BY DEF NoRequest
  <2> HIDE DEF n
  <2>4. ~Tested(n) /\ ~Unproved(n) /\ ~Below(n) /\ Issued(n)
    BY <2>2, <2>3 DEF Tested, Unproved, Below, Issued
  <2> QED BY <1>2, <2>1, <2>4, LimitedMove
<1>5. CASE Throttle(p)
  <2>1. CASE Go(p, "captcha") /\ ~(r.kind # "unknown" /\ acct >= LoginPerAccountMax)
    <3>1. r.kind # "wrong" \/ acct < LoginPerAccountMax
      BY <1>1, <2>1, Limits, SMT
    <3>2. r.upd = "none"
      BY <1>1, <1>5 DEF Throttle, Issued
    <3> QED BY <1>2, <2>1, <3>1, <3>2, LimitedGo DEF Pcs
  <2> QED BY <1>3, <1>5, <2>1 DEF Throttle
<1>6. CASE Captcha(p)
  <2>0. r.pc = "captcha" /\ r.upd = "none"
    BY <1>1, <1>6 DEF Captcha, Issued
  <2>1. CASE Go(p, "find") /\ ipfail < LoginCaptchaAfterFails
    <3>1. bare < LoginCaptchaAfterFails
      BY <1>1, <2>1, Limits, SMT
    <3> QED BY <1>2, <2>0, <2>1, <3>1, LimitedGo DEF Pcs
  <2>2. CASE req' = [req EXCEPT ![p].pc = "find", ![p].proved = TRUE]
    <3> DEFINE n == [r EXCEPT !.pc = "find", !.proved = TRUE]
    <3>1. /\ n.pc = "find" /\ n.kind = r.kind /\ n.upd = r.upd /\ n.proved
          /\ req' = [req EXCEPT ![p] = n]
      <4>1. "find" \in Pcs
        BY DEF Pcs
      <4> QED BY <1>1, <2>2, <4>1, Proved
    <3> HIDE DEF n
    <3>2. (Tested(n) => Tested(r)) /\ ~Unproved(n) /\ ~Below(n) /\ Issued(n)
      BY <2>0, <3>1 DEF Tested, Unproved, Below, Issued
    <3> QED BY <1>2, <3>1, <3>2, LimitedMove
  <2> QED BY <1>3, <1>6, <2>1, <2>2 DEF Captcha
<1>7. CASE FindByID(p)
  <2> DEFINE n == [r EXCEPT !.pc = "update"]
  <2>1. /\ n.pc = "update" /\ n.kind = r.kind /\ n.upd = r.upd /\ req' = [req EXCEPT ![p] = n]
    BY <1>1, <1>7, Placed DEF FindByID, Go, Pcs
  <2>2. r.kind \notin {"wrong", "unknown"} /\ r.upd = "none"
    BY <1>1, <1>7 DEF FindByID, Inputs, Issued
  <2> HIDE DEF n
  <2>3. ~Tested(n) /\ ~Unproved(n) /\ ~Below(n) /\ Issued(n)
    BY <2>1, <2>2 DEF Tested, Unproved, Below, Issued
  <2> QED BY <1>2, <2>1, <2>3, LimitedMove
<1>8. CASE UpdateFails(p)
  <2>1. r.pc = "update" /\ r.upd = "none" /\ Go(p, "count")
    BY <1>1, <1>8 DEF UpdateFails, Issued
  <2> QED BY <1>2, <2>1, LimitedGo DEF Pcs
<1> QED BY <1>3, <1>4, <1>5, <1>6, <1>7, <1>8 DEF Abort

\* The snapshot, the escalation and the UPDATE.
LEMMA LimitedMiddle ==
  ASSUME LockoutInv, LockoutInv', Limited, NEW p \in Requests,
         FindByEmail(p) \/ Escalate(p) \/ Update(p)
  PROVE  Limited'
<1> DEFINE r == req[p]
<1>1. /\ r \in AnyRequest /\ Issued(r) /\ Honest(r, lockouts) /\ row \in AnyRow /\ lockouts \in Nat
  BY Lawful DEF Limited
<1>2. UNCHANGED <<row, acct, ipfail, bare>>
  BY DEF FindByEmail, Escalate, Update, store, ghosts
<1>3. CASE FindByEmail(p)
  <2>0. r.pc = "find" /\ r.upd = "none"
    BY <1>1, <1>3 DEF FindByEmail, Issued
  <2>1. CASE End(p)
    BY <1>2, <2>1, NotWaiting, LimitedMove DEF End
  <2>2. CASE r.kind = "unknown" /\ Go(p, "count")
    BY <1>2, <2>0, <2>2, LimitedGo DEF Pcs
  <2>3. ASSUME NEW c \in {"escalate", "update"}, req' = [req EXCEPT ![p].snap = row, ![p].pc = c],
               c = "update" => r.kind = "right" \/ ~(row.attempts + 1 >= MaxLoginAttempts)
        PROVE  Limited'
    <3> DEFINE n == [r EXCEPT !.snap = row, !.pc = c]
    <3>1. /\ n.pc = c /\ n.kind = r.kind /\ n.upd = r.upd /\ n.proved = r.proved
          /\ req' = [req EXCEPT ![p] = n]
      BY <1>1, <2>3 DEF AnyRequest
    <3> HIDE DEF n
    <3>2. row.attempts \in Nat
      BY <1>1 DEF AnyRow
    <3>3. c = "update" => r.kind = "right" \/ row.attempts < MaxLoginAttempts - 1
      BY <2>3, <3>2, Limits, SMT
    <3>4. /\ (Tested(n) => Tested(r)) /\ (Unproved(n) => Unproved(r)) /\ Issued(n)
          /\ Below(n) => row.attempts < MaxLoginAttempts - 1
      BY <2>0, <3>1, <3>3 DEF Tested, Unproved, Below, Issued
    <3> QED BY <1>2, <3>1, <3>4, LimitedMove
  <2>4. CASE \/ r.kind = "wrong" /\ req' = [req EXCEPT ![p].snap = row, ![p].pc =
                  IF row.attempts + 1 >= MaxLoginAttempts THEN "escalate" ELSE "update"]
             \/ r.kind = "right" /\ req' = [req EXCEPT ![p].snap = row, ![p].pc = "update"]
    BY <2>3, <2>4
  <2> QED BY <1>3, <2>1, <2>2, <2>4 DEF FindByEmail
<1>4. CASE Escalate(p)
  <2> DEFINE m == IF lockouts + 1 > MaxLockoutMultiplier THEN MaxLockoutMultiplier ELSE lockouts + 1
             n == [r EXCEPT !.pc = "update", !.level = m]
  <2>1. m > 0
    BY <1>1, Multiplier, SMT
  <2>2. r.pc = "escalate" /\ r.upd = "none" /\ req' = [req EXCEPT ![p] = n]
    BY <1>1, <1>4 DEF Escalate, Issued
  <2>3. m # 0
    BY <2>1, SMT
  <2> HIDE DEF m
  <2>4. n.pc = "update" /\ n.kind = r.kind /\ n.upd = r.upd /\ n.proved = r.proved /\ n.level = m
    BY <1>1 DEF AnyRequest
  <2> HIDE DEF n
  <2>5. (Tested(n) => Tested(r)) /\ (Unproved(n) => Unproved(r)) /\ ~Below(n) /\ Issued(n)
    BY <2>2, <2>3, <2>4 DEF Tested, Unproved, Below, Issued
  <2> QED BY <1>2, <2>2, <2>5, LimitedMove
<1>5. CASE Update(p)
  <2> DEFINE u == CASE r.kind = "wrong"    -> IF r.level > 0 THEN "incLock" ELSE "inc"
                    [] r.kind = "lockUser" -> "lock"
                    [] OTHER               -> "clear"
             n == [r EXCEPT !.pc = "count", !.upd = u]
  <2>1. u \in Updates /\ (u = "inc" => ~(r.level > 0))
    BY DEF Updates
  <2>2. r.pc = "update" /\ req' = [req EXCEPT ![p] = n]
    BY <1>1, <1>5 DEF Update
  <2> HIDE DEF u
  <2>3. /\ n.pc = "count" /\ n.kind = r.kind /\ n.level = r.level /\ n.upd = u /\ n.proved = r.proved
    <3>1. "count" \in Pcs
      BY DEF Pcs
    <3> QED BY <1>1, <2>1, <3>1 DEF AnyRequest
  <2>4. r.level \in Nat
    BY <1>1 DEF AnyRequest
  <2>5. u = "inc" => r.level = 0
    BY <2>1, <2>4, SMT
  <2> HIDE DEF n
  <2>6. (Tested(n) => Tested(r)) /\ (Unproved(n) => Unproved(r)) /\ (Below(n) => Below(r)) /\ Issued(n)
    BY <2>2, <2>3, <2>5 DEF Tested, Unproved, Below, Issued
  <2> QED BY <1>2, <2>2, <2>6, LimitedMove
<1> QED BY <1>3, <1>4, <1>5

\* Count: what was let through is counted, once.
LEMMA LimitedCount ==
  ASSUME LockoutInv, LockoutInv', Limited, NEW p \in Requests, Count(p)
  PROVE  Limited'
<1> DEFINE r == req[p]
           n == [r EXCEPT !.pc = "commit"]
           fail == r.kind \in {"wrong", "unknown"}
<1>1. /\ r \in AnyRequest /\ Issued(r) /\ acct \in Nat /\ ipfail \in Nat /\ bare \in Nat /\ bare <= ipfail
      /\ row.attempts \in Nat
  BY Lawful DEF Limited, AnyRow
<1>2. r.pc = "count" /\ row' = row /\ req' = [req EXCEPT ![p] = n]
  BY <1>1 DEF Count, Go
<1>3. n.pc = "commit" /\ n.kind = r.kind /\ n.level = r.level /\ n.upd = r.upd
  <2>1. "commit" \in Pcs
    BY DEF Pcs
  <2> QED BY <1>1, <2>1, Placed
<1> HIDE DEF n
<1>4. /\ ~Tested(n) /\ ~Unproved(n) /\ (Below(n) => Below(r)) /\ Issued(n)
      /\ r.kind = "wrong" => Tested(r)
      /\ fail /\ ~r.proved => Unproved(r)
  BY <1>1, <1>2, <1>3 DEF Tested, Unproved, Below, Issued
<1>5. acct' \in Nat /\ Paid(acct, acct', LoginPerAccountMax, Tested(r), Tested(n))
  <2>1. CASE r.kind = "wrong"
    <3>1. acct' = acct + 1
      BY <2>1 DEF Count
    <3> QED BY <1>1, <1>4, <2>1, <3>1, SMT DEF Paid
  <2>2. CASE r.kind = "right"
    <3>1. acct' = 0
      BY <2>2 DEF Count
    <3> QED BY <3>1, Limits, SMT DEF Paid
  <2>3. CASE r.kind \notin {"wrong", "right"}
    <3>1. acct' = acct
      BY <2>3 DEF Count
    <3> QED BY <1>1, <1>4, <3>1, SMT DEF Paid
  <2> QED BY <2>1, <2>2, <2>3
<1>6. /\ ipfail' = ipfail + (IF fail THEN 1 ELSE 0)
      /\ bare' = bare + (IF fail /\ ~r.proved THEN 1 ELSE 0)
  BY DEF Count
<1> HIDE DEF fail
<1>7. bare' \in Nat /\ ipfail' \in Nat /\ bare' <= ipfail'
  BY <1>1, <1>6, SMT
<1>8. Paid(bare, bare', LoginCaptchaAfterFails, Unproved(r), Unproved(n))
  BY <1>1, <1>4, <1>6, SMT DEF Paid
<1>9. Paid(row.attempts, row'.attempts, MaxLoginAttempts - 1, Below(r), Below(n))
  <2>1. row'.attempts <= row.attempts
    BY <1>1, <1>2, SMT
  <2> QED BY <1>4, <2>1 DEF Paid
<1> QED BY <1>2, <1>4, <1>5, <1>7, <1>8, <1>9, LimitedStep

\* Commit: a failure that locks nothing is one of those let through below the
\* threshold.
LEMMA LimitedCommit ==
  ASSUME LockoutInv, LockoutInv', Limited, NEW p \in Requests, Commit(p)
  PROVE  Limited'
<1> DEFINE r == req[p]
<1>1. /\ r \in AnyRequest /\ Issued(r) /\ Honest(r, lockouts) /\ row \in AnyRow /\ r.level \in Nat
      /\ acct \in Nat /\ ipfail \in Nat /\ bare \in Nat /\ bare <= ipfail
      /\ r.upd \in Updates /\ row.attempts \in Nat
  BY Lawful DEF Limited, AnyRequest, AnyRow
<1>2. /\ r.pc = "commit" /\ req' = [req EXCEPT ![p] = NoRequest] /\ UNCHANGED <<acct, ipfail, bare>>
      /\ row' = Applied(row, r.upd, r.level, r.snap)
  BY DEF Commit, End, store
<1>3. /\ Paid(acct, acct', LoginPerAccountMax, Tested(r), Tested(NoRequest))
      /\ Paid(bare, bare', LoginCaptchaAfterFails, Unproved(r), Unproved(NoRequest))
  <2>1. acct' <= acct /\ bare' <= bare
    BY <1>1, <1>2, SMT
  <2> QED BY <2>1, NotWaiting DEF Paid
<1>4. ASSUME row'.lock = "none"
      PROVE  \/ row'.attempts < MaxLoginAttempts - 1
             \/ /\ row.lock = "none"
                /\ Paid(row.attempts, row'.attempts, MaxLoginAttempts - 1, Below(r), Below(NoRequest))
  <2>0. row'.attempts = IF r.upd \in {"inc", "incLock"} THEN row.attempts + 1
                        ELSE IF r.upd = "clear" THEN 0 ELSE row.attempts
    BY <1>1, <1>2, AppliedRow, SMT
  <2>1. CASE r.upd = "inc"
    <3>1. row'.lock = row.lock
      BY <1>1, <1>2, <2>1 DEF Applied, AnyRow
    <3>2. Below(r)
      BY <1>1, <1>2, <2>1 DEF Issued, Honest, Below
    <3>3. row'.attempts = row.attempts + 1
      BY <2>0, <2>1
    <3> QED BY <1>4, <3>1, <3>2, <3>3, NotWaiting DEF Paid
  <2>2. CASE r.upd = "incLock"
    <3>1. row'.lock = "fail"
      BY <1>2, <2>2 DEF Applied
    <3> QED BY <1>4, <3>1
  <2>3. CASE r.upd = "clear"
    BY <2>0, <2>3, Limits
  <2>4. CASE r.upd = "lock"
    <3>1. row'.lock = "admin"
      BY <1>1, <1>2, <2>4 DEF Applied, AnyRow
    <3> QED BY <1>4, <3>1
  <2>5. CASE r.upd = "none"
    <3>1. row' = row
      BY <1>2, <2>5 DEF Applied
    <3>2. row'.attempts <= row.attempts
      BY <1>1, <3>1, SMT
    <3> QED BY <1>4, <3>1, <3>2, NotWaiting DEF Paid
  <2> QED BY <1>1, <2>1, <2>2, <2>3, <2>4, <2>5 DEF Updates
<1> QED BY <1>1, <1>2, <1>3, <1>4, NotWaiting, LimitedStep

\* Time: a lock or a window is over.
LEMMA LimitedTime ==
  ASSUME LockoutInv, Limited, LockOver \/ AccountWindowOver \/ AddressWindowOver \/ UNCHANGED vars
  PROVE  Limited'
<1> DEFINE a == Cardinality(Testing)
           b == Cardinality(Proving)
           c == Cardinality(Sparing)
<1>1. req' = req
  BY DEF LockOver, AccountWindowOver, AddressWindowOver, vars
<1>2. Testing' = Testing /\ Proving' = Proving /\ Sparing' = Sparing
  BY <1>1 DEF Testing, Proving, Sparing, Tested, Unproved, Below
<1>3. a \in Nat /\ b \in Nat /\ a <= N /\ b <= N /\ N \in Nat
  <2>1. Testing \subseteq Requests /\ Proving \subseteq Requests /\ IsFiniteSet(Requests)
    BY LockoutAssumption DEF Testing, Proving
  <2> QED BY <2>1, FS_Subset, FS_CardinalityType DEF N
<1>4. row'.attempts = row.attempts /\ row'.lock = row.lock
  BY DEF LockOver, AccountWindowOver, AddressWindowOver, vars, LockoutInv, Tallied, AnyRow
<1>5. (acct' = acct \/ acct' = 0) /\ ((bare' = bare /\ ipfail' = ipfail) \/ (bare' = 0 /\ ipfail' = 0))
  BY DEF LockOver, AccountWindowOver, AddressWindowOver, vars, store, ghosts
<1>6. /\ acct \in Nat /\ ipfail \in Nat /\ bare \in Nat /\ bare <= ipfail
      /\ acct + a <= LoginPerAccountMax - 1 + N /\ bare + b <= LoginCaptchaAfterFails - 1 + N
  BY DEF Limited, Within
<1> HIDE DEF a, b, c
<1>7. /\ acct' \in Nat /\ ipfail' \in Nat /\ bare' \in Nat /\ bare' <= ipfail'
      /\ acct' + a <= LoginPerAccountMax - 1 + N /\ bare' + b <= LoginCaptchaAfterFails - 1 + N
  BY <1>3, <1>5, <1>6, Limits, SMT
<1>8. Within(acct', Testing', LoginPerAccountMax) /\ Within(bare', Proving', LoginCaptchaAfterFails)
  BY <1>2, <1>7 DEF Within, a, b
<1>9. row'.lock = "none" => Within(row'.attempts, Sparing', MaxLoginAttempts - 1)
  BY <1>2, <1>4 DEF Limited
<1> QED BY <1>1, <1>7, <1>8, <1>9 DEF Limited, Within, N

LEMMA LimitedInit == Init => Limited
<1> SUFFICES ASSUME Init PROVE Limited
  OBVIOUS
<1>1. Testing = {} /\ Proving = {} /\ Sparing = {}
  BY NotWaiting DEF Init, Testing, Proving, Sparing
<1>2. Cardinality({}) = 0 /\ N \in Nat
  BY LockoutAssumption, FS_EmptySet, FS_CardinalityType DEF N
<1>3. acct = 0 /\ ipfail = 0 /\ bare = 0 /\ row.attempts = 0
  BY DEF Init, Unlocked
<1>4. \A limit \in Nat : limit > 0 => Within(0, {}, limit)
  BY <1>2, SMT DEF Within
<1>5. /\ Within(acct, Testing, LoginPerAccountMax) /\ Within(bare, Proving, LoginCaptchaAfterFails)
      /\ Within(row.attempts, Sparing, MaxLoginAttempts - 1)
  BY <1>1, <1>3, <1>4, Limits
<1>6. acct \in Nat /\ ipfail \in Nat /\ bare \in Nat /\ bare <= ipfail
  BY <1>3, SMT
<1> QED BY <1>5, <1>6, NotWaiting DEF Init, Limited

\* The thresholds of the lock (recordFailedLogin), of the account's failures and
\* of the CAPTCHA (loginAudited) are read before what they limit is counted: N
\* sign-ins at once pass each by less than N, for every N and all thresholds.
THEOREM LimitsPassedByLessThanN == Spec => []LimitsHold
<1>1. LockoutInv /\ Limited /\ [Next]_vars => Limited'
  <2> SUFFICES ASSUME LockoutInv, Limited, [Next]_vars PROVE Limited'
    OBVIOUS
  <2>1. LockoutInv'
    BY LockoutNext
  <2>2. ASSUME NEW p \in Requests, Step(p) PROVE Limited'
    BY <2>1, <2>2, LimitedFirst, LimitedMiddle, LimitedCount, LimitedCommit DEF Step
  <2> QED BY <2>2, LimitedTime DEF Next
<1>2. LockoutInv /\ Limited => LimitsHold
  <2> SUFFICES ASSUME LockoutInv, Limited PROVE LimitsHold
    OBVIOUS
  <2> DEFINE a == Cardinality(Testing)
             b == Cardinality(Proving)
             c == Cardinality(Sparing)
  <2>1. a \in Nat /\ b \in Nat /\ c \in Nat /\ N \in Nat
    <3>1. Testing \subseteq Requests /\ Proving \subseteq Requests /\ Sparing \subseteq Requests
      BY DEF Testing, Proving, Sparing
    <3> QED BY <3>1, LockoutAssumption, FS_Subset, FS_CardinalityType DEF N
  <2>2. /\ acct \in Nat /\ bare \in Nat /\ row.attempts \in Nat
        /\ acct + a <= LoginPerAccountMax - 1 + N /\ bare + b <= LoginCaptchaAfterFails - 1 + N
        /\ row.lock = "none" => row.attempts + c <= MaxLoginAttempts - 1 - 1 + N
    BY DEF Limited, Within, LockoutInv, Tallied, AnyRow
  <2> HIDE DEF a, b, c
  <2>3. /\ acct <= LoginPerAccountMax - 1 + N /\ bare <= LoginCaptchaAfterFails - 1 + N
        /\ row.lock = "none" => row.attempts <= MaxLoginAttempts - 2 + N
    BY <2>1, <2>2, Limits, SMT
  <2> QED BY <2>3 DEF LimitsHold
<1> QED BY <1>1, <1>2, LockoutInit, LockoutNext, LimitedInit, PTL DEF Spec
=============================================================================
