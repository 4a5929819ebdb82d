---------------------------- MODULE SecondFactor ----------------------------
(***************************************************************************)
(* TOTPService for one user: enrolment and rotation of the shared secret,  *)
(* validation of codes, recovery codes, disabling.                         *)
(*                                                                         *)
(* Every entry runs in one SQL transaction (AuditOperation).  Its plain    *)
(* reads see the snapshot of its first read; its writes act on the rows as *)
(* committed by then and lock them until the transaction ends.  The        *)
(* rotation lock, the failure counter and the replay keys live in the      *)
(* store, outside the transaction: the rotation lock is given back when    *)
(* the service returns, before the transaction commits.                    *)
(*                                                                         *)
(* Time is counted in TOTP periods of 30 s.  The code <<s, w>> is what an  *)
(* authenticator with secret s shows in period w.                          *)
(***************************************************************************)
EXTENDS Naturals, FiniteSets

CONSTANTS
  Requests,
  None,
  TOTPMaxAttempts,
  TOTPReplayPeriods,  \* totpReplayTTL, in periods
  MaxRequests,        \* bound on the requests of a behaviour
  MaxPeriods,         \* bound on its length
  Scenes              \* [kinds, enrolled, requests, periods]: what it consists of

ASSUME SecondFactorAssumption ==
  /\ IsFiniteSet(Requests) /\ None \notin Requests
  /\ {TOTPMaxAttempts, TOTPReplayPeriods, MaxRequests} \subseteq Nat \ {0}
  /\ MaxPeriods \in Nat

TOTPSkew == 1

\* A code is valid over 2 * TOTPSkew + 1 periods, and its key is set at most one
\* period after the comparison.
ASSUME ReplayAssumption == TOTPReplayPeriods >= 2 * TOTPSkew + 2

\* A request generates one secret or one batch at most; one of each is there
\* from the start of an enrolled user.
Secrets == 1 .. MaxRequests + 1
Batches == 1 .. MaxRequests + 1
Kinds == {"enable", "verifyEnable", "validate", "viewRecoveryCodes", "regenerate", "disable"}

Periods == 0 .. MaxPeriods + TOTPSkew
Codes == (Secrets \cup {None}) \X Periods

VARIABLES
  device,     \* the totp_devices row
  codes,      \* the unused recovery codes; a batch has one code, its number
  now,        \* the current period
  replay,     \* totp:replay:<uid>:<code>, with the period it was set in
  fails,      \* totp:fail:<uid>
  lock,       \* totp:rotatelock:<uid> exists
  req,
  secret,     \* secrets generated so far
  batch,      \* batches generated so far
  confirmed,  \* secrets of which a code was presented to VerifyEnable
  accepted,   \* codes accepted by Validate or ViewRecoveryCodes
  spent,      \* recovery codes spent by a committed request
  tried,      \* wrong codes compared since the counter was cleared
  begun,      \* requests begun so far
  scene

rows == <<device, codes>>
store == <<replay, fails, lock>>
ghosts == <<confirmed, accepted, spent, tried>>
bounds == <<begun, scene>>
vars == <<rows, now, store, req, secret, batch, ghosts, bounds>>

Device == [enabled : BOOLEAN, secret : Secrets \cup {None}, pending : Secrets \cup {None}]
NoDevice == [enabled |-> FALSE, secret |-> None, pending |-> None]

ASSUME NoneAssumption == None \notin Device \cup Kinds

\* upd and set are the writes of the transaction: the device row as it will be,
\* and the recovery codes replaced (by a batch, or by none) or marked used.
Request == [kind : Kinds \cup {None},
            pc : {"idle", "guard", "lock", "find", "compare", "replay", "mark",
                  "upsert", "codes", "undo", "release", "commit"},
            snap : Device \cup {None}, seen : SUBSET Batches,
            code : Codes \cup {None}, at : Periods,
            upd : Device \cup {None},
            set : {None} \cup [op : {"replace"}, with : SUBSET Batches]
                         \cup [op : {"mark"}, with : SUBSET Batches]]

NoRequest == [kind |-> None, pc |-> "idle", snap |-> None, seen |-> {}, code |-> None,
              at |-> 0, upd |-> None, set |-> None]

TypeOK ==
  /\ device \in Device \cup {None}
  /\ codes \subseteq Batches
  /\ now \in Periods
  /\ replay \subseteq Codes \X Periods
  /\ fails \in 0 .. MaxRequests /\ lock \in BOOLEAN
  /\ req \in [Requests -> Request]
  /\ secret \in Secrets \cup {0} /\ batch \in Batches \cup {0}
  /\ confirmed \subseteq Secrets \cup {None} /\ accepted \subseteq Codes /\ spent \subseteq Batches
  /\ tried \in 0 .. MaxRequests /\ begun \in 0 .. MaxRequests

\* A user without a device, or one who has confirmed secret 1 and holds batch 1.
Init ==
  /\ scene \in Scenes
  /\ device = IF scene.enrolled THEN [NoDevice EXCEPT !.enabled = TRUE, !.secret = 1] ELSE None
  /\ codes = IF scene.enrolled THEN {1} ELSE {}
  /\ secret = IF scene.enrolled THEN 1 ELSE 0
  /\ batch = IF scene.enrolled THEN 1 ELSE 0
  /\ confirmed = IF scene.enrolled THEN {1} ELSE {}
  /\ now = 0 /\ replay = {} /\ fails = 0 /\ lock = FALSE
  /\ req = [p \in Requests |-> NoRequest]
  /\ accepted = {} /\ spent = {} /\ tried = 0 /\ begun = 0

-----------------------------------------------------------------------------

Go(p, pc) == req' = [req EXCEPT ![p].pc = pc]
End(p) == req' = [req EXCEPT ![p] = NoRequest]

\* Enable and VerifyEnable hold the rotation lock until they return.
Rotates(p) == req[p].kind \in {"enable", "verifyEnable"}
Return(p) == IF Rotates(p) THEN Go(p, "release") ELSE End(p)

\* Another transaction holds the device row, or the user's recovery codes.
DeviceHeld(p) == \E q \in Requests \ {p} : req[q].upd # None
CodesHeld(p) == \E q \in Requests \ {p} : req[q].set # None

\* recordFailure, of a wrong code that was compared.
Failure == fails' = fails + 1 /\ tried' = tried + 1

\* recordSuccess clears the counter.
Success == fails' = 0 /\ tried' = 0

Begin(p, kind) ==
  /\ req[p].pc = "idle" /\ kind \in scene.kinds /\ begun < scene.requests
  /\ begun' = begun + 1
  /\ req' = [req EXCEPT ![p] = [NoRequest EXCEPT !.kind = kind, !.pc =
       CASE kind = "enable"                  -> "lock"
         [] kind \in {"regenerate", "disable"} -> "find"
         [] OTHER                            -> "guard"]]
  /\ UNCHANGED <<rows, now, store, secret, batch, ghosts, scene>>

\* Mutant: the cap is off by one, and the refusal is not counted.
guardBruteForceLate(p) ==
  /\ req[p].pc = "guard"
  /\ IF fails > TOTPMaxAttempts
       THEN End(p)
       ELSE Go(p, CASE req[p].kind = "verifyEnable" -> "lock"
                    [] req[p].kind = "disable"      -> "compare"
                    [] OTHER                        -> "find")
  /\ UNCHANGED <<rows, now, store, secret, batch, ghosts, bounds>>

\* guardBruteForce: at the cap the attempt itself is counted and refused.
guardBruteForce(p) ==
  /\ req[p].pc = "guard"
  /\ IF fails >= TOTPMaxAttempts
       THEN End(p) /\ fails' = fails + 1
       ELSE /\ UNCHANGED fails
            /\ Go(p, CASE req[p].kind = "verifyEnable" -> "lock"
                       [] req[p].kind = "disable"      -> "compare"
                       [] OTHER                        -> "find")
  /\ UNCHANGED <<rows, now, replay, lock, secret, batch, ghosts, bounds>>

\* acquireRotationLock: SetNX; ErrRateLimited when the key exists.
acquireRotationLock(p) ==
  /\ req[p].pc = "lock"
  /\ IF lock THEN End(p) ELSE Go(p, "find")
  /\ lock' = TRUE
  /\ UNCHANGED <<rows, now, replay, fails, secret, batch, ghosts, bounds>>

-----------------------------------------------------------------------------
(* FindByUserID, the first read of the transaction, and the decision on it. *)

\* An active device is rotated only with a sudo token.
FindEnable(p) ==
  /\ req[p].pc = "find" /\ req[p].kind = "enable"
  /\ \/ req' = [req EXCEPT ![p].snap = device, ![p].pc = "upsert"]
     \/ device # None /\ device.enabled /\ Go(p, "release")
  /\ UNCHANGED <<rows, now, store, secret, batch, ghosts, bounds>>

FindVerifyEnable(p) ==
  /\ req[p].pc = "find" /\ req[p].kind = "verifyEnable"
  /\ IF device = None
       THEN Go(p, "release") /\ fails' = fails + 1
       ELSE /\ req' = [req EXCEPT ![p].snap = device, ![p].pc =
                 IF device.enabled /\ device.pending = None THEN "release" ELSE "compare"]
            /\ UNCHANGED fails
  /\ UNCHANGED <<rows, now, replay, lock, secret, batch, ghosts, bounds>>

\* Validate, ViewRecoveryCodes and RegenerateRecoveryCodes need an active
\* device; the recovery codes are read from the same snapshot.
FindActive(p) ==
  /\ req[p].pc = "find" /\ req[p].kind \in {"validate", "viewRecoveryCodes", "regenerate"}
  /\ IF device = None \/ ~device.enabled
       THEN End(p) /\ fails' = fails + 1
       ELSE /\ req' = [req EXCEPT ![p].snap = device, ![p].seen = codes, ![p].pc =
                 IF req[p].kind = "regenerate" THEN "codes" ELSE "compare"]
            /\ UNCHANGED fails
  /\ UNCHANGED <<rows, now, replay, lock, secret, batch, ghosts, bounds>>

\* disableAudited: nothing to do; a sudo token; or the password and a code,
\* validated in the same transaction.
FindDisable(p) ==
  /\ req[p].pc = "find" /\ req[p].kind = "disable"
  /\ IF device = None \/ ~device.enabled
       THEN End(p)
       ELSE \E pc \in {"upsert", "guard"} :
              req' = [req EXCEPT ![p].snap = device, ![p].seen = codes, ![p].pc = pc]
  /\ UNCHANGED <<rows, now, store, secret, batch, ghosts, bounds>>

-----------------------------------------------------------------------------
(* The code. *)

\* totpValid: the current period or a neighbour of it.
totpValid(w) == w \in Periods /\ w <= now + TOTPSkew /\ now <= w + TOTPSkew

\* The secret a code is compared with: the staged one in VerifyEnable.  A device
\* that Disable has cleared holds the empty secret, None, and has codes of it.
Target(p) ==
  IF req[p].kind = "verifyEnable" /\ req[p].snap.pending # None THEN req[p].snap.pending
                                                              ELSE req[p].snap.secret

CompareWrong(p) ==
  /\ req[p].pc = "compare"
  /\ Failure
  /\ Return(p)
  /\ UNCHANGED <<rows, now, replay, lock, secret, batch, confirmed, accepted, spent, bounds>>

CompareTOTP(p, w) ==
  /\ req[p].pc = "compare" /\ totpValid(w)
  /\ req' = [req EXCEPT ![p].code = <<Target(p), w>>, ![p].at = now, ![p].pc =
       IF req[p].kind = "verifyEnable" THEN "upsert" ELSE "replay"]
  /\ UNCHANGED <<rows, now, store, secret, batch, ghosts, bounds>>

\* MatchRecoveryCode among the codes of the snapshot.
CompareRecovery(p, c) ==
  /\ req[p].pc = "compare" /\ req[p].kind \in {"validate", "disable"} /\ c \in req[p].seen
  /\ req' = [req EXCEPT ![p].seen = {c}, ![p].pc = "mark"]
  /\ UNCHANGED <<rows, now, store, secret, batch, ghosts, bounds>>

\* replayGuard: SetNX of the code; a code seen before is a failure.
replayGuard(p) ==
  /\ req[p].pc = "replay"
  /\ IF \E e \in replay : e[1] = req[p].code
       THEN Failure /\ End(p) /\ UNCHANGED <<replay, accepted>>
       ELSE /\ replay' = replay \cup {<<req[p].code, now>>}
            /\ accepted' = accepted \cup {req[p].code}
            /\ Success
            /\ Go(p, IF req[p].kind = "disable" THEN "upsert" ELSE "commit")
  /\ UNCHANGED <<rows, now, lock, secret, batch, confirmed, spent, bounds>>

\* MarkRecoveryCodeUsed: compare-and-set on the row as committed by now.
MarkRecoveryCodeUsed(p) ==
  /\ req[p].pc = "mark" /\ ~CodesHeld(p)
  /\ IF req[p].seen \subseteq codes
       THEN /\ req' = [req EXCEPT ![p].set = [op |-> "mark", with |-> req[p].seen],
                         ![p].pc = IF req[p].kind = "disable" THEN "upsert" ELSE "commit"]
            /\ Success
       ELSE Failure /\ End(p)
  /\ UNCHANGED <<rows, now, replay, lock, secret, batch, confirmed, accepted, spent, bounds>>

-----------------------------------------------------------------------------
(* The writes. *)

\* Mutant: the new secret of an active device is put in place at once.
StagedAtOnce(d, new) == [NoDevice EXCEPT !.secret = new, !.enabled = d # None /\ d.enabled]

\* enableAudited: a first enrolment, a rotation staged beside the active secret,
\* or an abandoned enrolment started again.
Staged(d, new) ==
  IF d # None /\ d.enabled THEN [d EXCEPT !.pending = new]
                           ELSE [NoDevice EXCEPT !.secret = new]

\* verifyEnableAudited: the staged secret, if any, becomes the active one.
Promoted(d) ==
  [enabled |-> TRUE, pending |-> None,
   secret  |-> IF d.pending # None THEN d.pending ELSE d.secret]

\* Upsert writes every column of the struct that was read; a first enrolment
\* inserts, and collides with one that was committed since.
Upsert(p) ==
  /\ req[p].pc = "upsert" /\ req[p].kind \in {"enable", "verifyEnable"} /\ ~DeviceHeld(p)
  /\ secret' = secret + (IF req[p].kind = "enable" THEN 1 ELSE 0)
  /\ IF req[p].snap = None /\ device # None
       THEN Go(p, "release")
       ELSE req' = [req EXCEPT
              ![p].upd = IF req[p].kind = "enable" THEN Staged(req[p].snap, secret')
                                                   ELSE Promoted(req[p].snap),
              ![p].pc  = IF req[p].kind = "enable" THEN "release" ELSE "codes"]
  /\ UNCHANGED <<rows, now, store, batch, ghosts, bounds>>

\* TOTPRepository.Disable: the secrets are cleared.
Disable(p) ==
  /\ req[p].pc = "upsert" /\ req[p].kind = "disable" /\ ~DeviceHeld(p)
  /\ req' = [req EXCEPT ![p].upd = NoDevice, ![p].pc = "codes"]
  /\ UNCHANGED <<rows, now, store, secret, batch, ghosts, bounds>>

\* ReplaceRecoveryCodes and recordSuccess: the rows present are deleted, whoever
\* wrote them, and a fresh batch (none when disabling) is inserted.
ReplaceRecoveryCodes(p) ==
  /\ req[p].pc = "codes" /\ ~CodesHeld(p)
  /\ batch' = batch + (IF req[p].kind = "disable" THEN 0 ELSE 1)
  /\ req' = [req EXCEPT
       ![p].set = [op |-> "replace", with |-> IF req[p].kind = "disable" THEN {} ELSE {batch'}],
       ![p].pc = IF Rotates(p) THEN "release" ELSE "commit"]
  /\ Success
  /\ UNCHANGED <<rows, now, replay, lock, secret, confirmed, accepted, spent, bounds>>

\* ReplaceRecoveryCodes fails in VerifyEnable because InnoDB broke a deadlock:
\* Upsert is rolled back with the rest of the transaction, its lock released.
LoseTransaction(p) ==
  /\ req[p].pc = "codes" /\ req[p].kind = "verifyEnable"
  /\ req' = [req EXCEPT ![p].upd = None, ![p].pc = "undo"]
  /\ UNCHANGED <<rows, now, store, secret, batch, ghosts, bounds>>

\* The row that was read: staged again, or not active.
Restored(d) == [d EXCEPT !.enabled = d.pending # None]

\* The Upsert that makes up for it commits on its own, whoever wrote since.
Undo(p) ==
  /\ req[p].pc = "undo" /\ ~DeviceHeld(p)
  /\ device' = Restored(req[p].snap)
  /\ Go(p, "release")
  /\ UNCHANGED <<codes, now, store, secret, batch, ghosts, bounds>>

\* releaseRotationLock: the key is deleted, whoever holds it by now.
releaseRotationLock(p) ==
  /\ req[p].pc = "release"
  /\ lock' = FALSE
  /\ Go(p, "commit")
  /\ UNCHANGED <<rows, now, replay, fails, secret, batch, ghosts, bounds>>

-----------------------------------------------------------------------------

\* Mutant: only the codes that were read are deleted.
CodesAfterSeen(p) ==
  IF req[p].set = None THEN codes
  ELSE IF req[p].set.op = "mark" THEN codes \ req[p].set.with
                                 ELSE (codes \ req[p].seen) \cup req[p].set.with

CodesAfter(p) ==
  IF req[p].set = None THEN codes
  ELSE IF req[p].set.op = "mark" THEN codes \ req[p].set.with
                                 ELSE req[p].set.with

\* The transaction commits and the answer is sent; without writes this is a
\* refusal.  CompleteMFALogin issues its token pair in the same transaction.
Commit(p) ==
  /\ req[p].pc = "commit"
  /\ device' = IF req[p].upd = None THEN device ELSE req[p].upd
  /\ codes' = CodesAfter(p)
  /\ spent' = spent \cup (IF req[p].set # None /\ req[p].kind = "validate"
                            THEN req[p].set.with ELSE {})
  /\ confirmed' = confirmed \cup (IF req[p].kind = "verifyEnable" /\ req[p].upd # None
                                    THEN {req[p].code[1]} ELSE {})
  /\ End(p)
  /\ UNCHANGED <<now, store, secret, batch, accepted, tried, bounds>>

\* A statement fails or the commit does: rolled back, with the Upsert by which
\* VerifyEnable makes up for codes it could not replace, where the transaction
\* still stands; Enable and VerifyEnable give the lock back first.
Fail(p) ==
  /\ req[p].pc \in {"find", "mark", "upsert", "codes", "undo", "commit"}
  /\ IF Rotates(p) /\ req[p].pc # "commit"
       THEN req' = [req EXCEPT ![p] = [NoRequest EXCEPT !.kind = req[p].kind, !.pc = "release"]]
       ELSE End(p)
  /\ UNCHANGED <<rows, now, store, secret, batch, ghosts, bounds>>

\* The process dies: the rotation lock stays until it expires.
Crash(p) ==
  /\ req[p].pc \notin {"idle", "guard", "lock"} /\ Rotates(p)
  /\ End(p)
  /\ UNCHANGED <<rows, now, store, secret, batch, ghosts, bounds>>

\* rotationLockTTL is over, its holder still at work or not.
LockExpires ==
  /\ lock
  /\ lock' = FALSE
  /\ UNCHANGED <<rows, now, replay, fails, req, secret, batch, ghosts, bounds>>

\* TOTPAttemptWindow is over.
WindowOver ==
  /\ fails > 0
  /\ fails' = 0 /\ tried' = 0
  /\ UNCHANGED <<rows, now, replay, lock, req, secret, batch, confirmed, accepted, spent, bounds>>

\* A period passes.  A request does not stay between totpValid and SetNX for
\* more than the rest of a period and one more.
Tick ==
  /\ now < scene.periods
  /\ \A p \in Requests : req[p].pc = "replay" => req[p].at = now
  /\ now' = now + 1
  /\ UNCHANGED <<rows, store, req, secret, batch, ghosts, bounds>>

\* Mutant: the margin of one period is left out.
ReplayExpiresEarly(e) ==
  /\ now + 1 >= e[2] + TOTPReplayPeriods
  /\ replay' = replay \ {e}
  /\ UNCHANGED <<rows, now, fails, lock, req, secret, batch, ghosts, bounds>>

\* A replay key expires totpReplayTTL after it was set.
ReplayExpires(e) ==
  /\ now >= e[2] + TOTPReplayPeriods
  /\ replay' = replay \ {e}
  /\ UNCHANGED <<rows, now, fails, lock, req, secret, batch, ghosts, bounds>>

Step(p) ==
  \/ \E kind \in Kinds : Begin(p, kind)
  \/ guardBruteForce(p) \/ acquireRotationLock(p)
  \/ FindEnable(p) \/ FindVerifyEnable(p) \/ FindActive(p) \/ FindDisable(p)
  \/ CompareWrong(p)
  \/ \E w \in Periods : CompareTOTP(p, w)
  \/ \E c \in Batches : CompareRecovery(p, c)
  \/ replayGuard(p) \/ MarkRecoveryCodeUsed(p)
  \/ Upsert(p) \/ Disable(p) \/ ReplaceRecoveryCodes(p)
  \/ LoseTransaction(p) \/ Undo(p) \/ releaseRotationLock(p)
  \/ Commit(p) \/ Fail(p) \/ Crash(p)

Next ==
  \/ \E p \in Requests : Step(p)
  \/ LockExpires \/ WindowOver \/ Tick
  \/ \E e \in replay : ReplayExpires(e)

Spec == Init /\ [][Next]_vars

-----------------------------------------------------------------------------

FactorStep == \A p \in Requests :
  /\ replayGuard(p) /\ req'[p].pc # "idle" => req[p].code \notin accepted
  /\ Commit(p) /\ req[p].kind = "validate" /\ req[p].set # None =>
       req[p].set.with \cap spent = {} /\ req[p].set.with \subseteq codes

\* "A code may only be used once within its validity window" (validateAudited):
\* a 6-digit code is accepted once, although its replay key expires and time
\* passes between the comparison and the key.  "Concurrent submissions of one
\* code yield exactly one winner" (MarkRecoveryCodeUsed): no two sign-ins are
\* completed with one recovery code, also when the set is replaced in between.
FactorOnce == [][FactorStep]_vars

\* "The device STAYS enabled on its old secret until VerifyEnable confirms the
\* new one" (C6): whatever rotations, confirmations and removals overlap, an
\* active device holds a secret (which is the empty one where VerifyEnable follows
\* Disable) of which a code was shown.
SecretConfirmed == device # None /\ device.enabled => device.secret \in confirmed

\* "A regenerate can never leave a mixed old/new set" (ReplaceRecoveryCodes):
\* the unused codes belong to one batch.
OneBatch == Cardinality(codes) <= 1

\* The failure counter is read before and counted after the comparison: the cap
\* on wrong codes is exceeded by at most the requests in flight.
TriesBound == tried <= TOTPMaxAttempts - 1 + Cardinality(Requests)

\* "Re-enrollment never disables MFA" (TOTPDevice): an active device becomes
\* inactive by Disable alone.
ReenrolNeverDisables == [][device # None /\ device.enabled /\ ~device'.enabled =>
  \E p \in Requests : Commit(p) /\ req[p].kind = "disable"]_vars
=============================================================================
