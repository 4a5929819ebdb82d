------------------------- MODULE SecondFactorProofs -------------------------
(***************************************************************************)
(* Proofs about SecondFactor, for every number of concurrent requests,     *)
(* every cap on failures and every bound.                                  *)
(***************************************************************************)
EXTENDS SecondFactor, FiniteSetTheorems, TLAPS

\* A leaf is for Zenon unless it names another prover: SMT, where there is
\* arithmetic or Zenon does not find the proof.
USE Zenon

-----------------------------------------------------------------------------
(* The inductive invariant *)

\* A secret, or the empty one.
Sec == {None} \cup Nat

\* A secret is staged beside an active one only.
Dev == {d \in [enabled : BOOLEAN, secret : Sec, pending : Sec] : d.pending # None => d.enabled}

Shape == [kind : {None} \cup Kinds,
          pc : {"idle", "guard", "lock", "find", "compare", "replay", "mark",
                "upsert", "codes", "undo", "release", "commit"},
          snap : {None} \cup Dev, seen : SUBSET Nat,
          code : {None} \cup (Sec \X Nat), at : Nat,
          upd : {None} \cup Dev,
          set : {None} \cup [op : {"replace", "mark"}, with : SUBSET Nat]]

\* A code is compared with a device that was read, and it is that one to restore.
Read(r) ==
  \/ r.pc \in {"compare", "undo"}
  \/ r.pc = "guard" /\ r.kind = "disable"
  \/ r.pc = "codes" /\ r.kind = "verifyEnable"
  => r.snap # None

\* An active device that was read, or will be written, holds a confirmed secret,
\* or the one that this request confirms.
Confirms(r, C) ==
  /\ r.snap # None /\ r.snap.enabled => r.snap.secret \in C
  /\ r.kind = "verifyEnable" /\ r.pc = "upsert" =>
       r.snap # None /\ r.code[1] = Promoted(r.snap).secret
  /\ r.upd # None => r.pc \in {"codes", "release", "commit"}
  /\ r.upd # None /\ r.upd.enabled =>
       \/ r.upd.secret \in C
       \/ r.kind = "verifyEnable" /\ r.upd.secret = r.code[1]

\* A code marked used is among the unused codes K until the commit; a batch that
\* replaces them is new.
Recovers(r, K, S, b) ==
  /\ r.pc = "codes" => r.kind # "validate"
  /\ r.set # None =>
       /\ r.set.with \subseteq 1 .. b
       /\ r.set.op = "mark" => r.set.with \subseteq K
       /\ r.set.op = "replace" => r.kind # "validate" /\ r.set.with \cap S = {} /\ \A x, y \in r.set.with : x = y

\* Between the comparison and its key a code ages by one period at most.
InTime(r, n) ==
  r.pc = "replay" =>
    /\ r.code \in Sec \X Nat
    /\ r.at <= n /\ n <= r.at + 1
    /\ r.code[2] <= r.at + TOTPSkew /\ r.at <= r.code[2] + TOTPSkew

Lawful(r) ==
  r \in Shape /\ Read(r) /\ Confirms(r, confirmed) /\ Recovers(r, codes, spent, batch) /\ InTime(r, now)

Types ==
  /\ device \in {None} \cup Dev /\ codes \in SUBSET Nat /\ now \in Nat
  /\ replay \in SUBSET ((Sec \X Nat) \X Nat) /\ fails \in Nat
  /\ req \in [Requests -> Shape]
  /\ secret \in Nat /\ batch \in Nat
  /\ accepted \in SUBSET (Sec \X Nat) /\ spent \in SUBSET Nat /\ tried \in Nat

\* An unused code is not spent, and there is one batch of them.
Unspent ==
  /\ codes \subseteq 1 .. batch /\ spent \subseteq 1 .. batch /\ codes \cap spent = {}
  /\ \A x, y \in codes : x = y

\* An accepted code has its replay key, or is too old to be compared.
Remembered ==
  /\ \A c \in accepted : (\E e \in replay : e[1] = c) \/ now > c[2] + TOTPSkew + 1
  /\ \A e \in replay : e[1][2] <= e[2] + TOTPSkew /\ e[2] <= now

Inv ==
  /\ Types /\ Unspent /\ Remembered /\ SecretConfirmed
  /\ \A p \in Requests : Lawful(req[p])
  /\ \A p, q \in Requests : p # q => req[p].set = None \/ req[q].set = None

\* Requests that guardBruteForce has let through and that may still fail.
Pending(r) ==
  \/ r.pc \in {"compare", "replay", "mark"}
  \/ r.kind \in {"validate", "viewRecoveryCodes", "verifyEnable"} /\ r.pc \in {"lock", "find"}
Waiting == {p \in Requests : Pending(req[p])}

\* Each of them adds one failure at most.
Counted ==
  /\ tried <= fails
  /\ tried + Cardinality(Waiting) <= TOTPMaxAttempts - 1 + Cardinality(Requests)

-----------------------------------------------------------------------------
(* Steps of one request *)

LEMMA NothingAsked ==
  /\ NoRequest \in Shape /\ NoRequest.kind = None /\ NoRequest.pc = "idle"
  /\ NoRequest.snap = None /\ NoRequest.upd = None /\ NoRequest.set = None
  /\ None \notin Kinds
  BY NoneAssumption DEF NoRequest, Shape

\* One request moves on to n and the rows stay, or the device is restored.
LEMMA Moves ==
  ASSUME Inv, NEW p \in Requests, NEW n, req' = [req EXCEPT ![p] = n],
         UNCHANGED <<codes, now, confirmed, spent>>,
         device' = device \/ (device' \in Dev /\ (device'.enabled => device'.secret \in confirmed)),
         replay' \in SUBSET ((Sec \X Nat) \X Nat), accepted' \in SUBSET (Sec \X Nat), Remembered',
         fails' \in Nat, tried' \in Nat, secret' \in Nat, batch' \in Nat, batch <= batch',
         n \in Shape, Read(n), Confirms(n, confirmed), Recovers(n, codes, spent, batch'), InTime(n, now),
         \A q \in Requests \ {p} : n.set = None \/ req[q].set = None
  PROVE  Inv'
  <1>1. \A q \in Requests : req'[q] = IF q = p THEN n ELSE req[q]
    BY DEF Inv, Types
  <1>2. Types'
    <2>1. req' \in [Requests -> Shape] /\ device' \in {None} \cup Dev
      BY DEF Inv, Types
    <2> QED BY <2>1 DEF Inv, Types
  <1>3. Unspent'
    BY SMT DEF Inv, Types, Unspent
  <1>4. SecretConfirmed'
    BY DEF Inv, SecretConfirmed
  <1>5. ASSUME NEW q \in Requests PROVE Lawful(req[q])'
    <2> DEFINE o == req'[q]
    <2>1. /\ o \in Shape /\ Read(o) /\ Confirms(o, confirmed)
          /\ Recovers(o, codes, spent, batch') /\ InTime(o, now)
      <3>1. CASE q = p
        BY <1>1, <3>1
      <3>2. CASE q # p
        <4>1. o = req[q] /\ Lawful(req[q])
          BY <1>1, <3>2 DEF Inv
        <4>2. Recovers(req[q], codes, spent, batch')
          BY <4>1, SMT DEF Lawful, Recovers, Inv, Types
        <4> QED BY <4>1, <4>2 DEF Lawful
      <3> QED BY <3>1, <3>2
    <2> QED BY <2>1 DEF Lawful, Read, Confirms, Recovers, InTime, Promoted
  <1>6. \A a, b \in Requests : a # b => req'[a].set = None \/ req'[b].set = None
    BY <1>1, SMT DEF Inv
  <1> QED BY <1>2, <1>3, <1>4, <1>5, <1>6 DEF Inv

\* The same of a step that leaves the codes to be written, and the store's keys.
LEMMA Quiet ==
  ASSUME Inv, NEW p \in Requests, NEW n, req' = [req EXCEPT ![p] = n],
         UNCHANGED <<device, codes, now, replay, confirmed, accepted, spent, batch>>,
         fails' \in Nat, tried' \in Nat, secret' \in Nat,
         n \in Shape, Read(n), Confirms(n, confirmed), InTime(n, now),
         n.set = None \/ (n.set = req[p].set /\ n.kind = req[p].kind),
         n.pc = "codes" => n.kind # "validate"
  PROVE  Inv'
  <1>1. Lawful(req[p]) /\ batch \in Nat /\ Types /\ Remembered
    BY DEF Inv, Types
  <1>2. Recovers(n, codes, spent, batch')
    BY <1>1 DEF Lawful, Recovers
  <1>3. Remembered'
    BY <1>1 DEF Remembered
  <1>4. \A q \in Requests \ {p} : n.set = None \/ req[q].set = None
    BY DEF Inv
  <1>5. /\ replay' \in SUBSET ((Sec \X Nat) \X Nat) /\ accepted' \in SUBSET (Sec \X Nat)
        /\ batch' \in Nat /\ batch <= batch'
    BY <1>1, SMT DEF Types
  <1> QED BY <1>2, <1>3, <1>4, <1>5, Moves

\* A request ends without a commit, or goes back to give the lock back.
LEMMA Ends ==
  ASSUME Inv, NEW p \in Requests, End(p),
         UNCHANGED <<device, codes, now, replay, confirmed, accepted, spent, batch>>,
         fails' \in Nat, tried' \in Nat, secret' \in Nat
  PROVE  Inv'
  <1>1. Read(NoRequest) /\ Confirms(NoRequest, confirmed) /\ InTime(NoRequest, now)
    BY NothingAsked DEF Read, Confirms, InTime
  <1> QED BY <1>1, NothingAsked, Quiet DEF End

\* A request goes on to another point without having learnt anything.
LEMMA Goes ==
  ASSUME Inv, NEW p \in Requests, NEW pc, Go(p, pc),
         pc \in {"lock", "find", "compare", "release", "commit"},
         pc = "compare" => req[p].snap # None,
         pc \in {"lock", "find", "compare"} => req[p].pc \in {"guard", "lock"},
         UNCHANGED <<device, codes, now, replay, confirmed, accepted, spent, batch>>,
         fails' \in Nat, tried' \in Nat, secret' \in Nat
  PROVE  Inv'
  <1> DEFINE r == req[p]
             n == [r EXCEPT !.pc = pc]
  <1>1. Lawful(r) /\ r \in Shape
    BY DEF Inv, Lawful
  <1>2. req' = [req EXCEPT ![p] = n]
    BY DEF Go
  <1>3. /\ n \in Shape /\ n.pc = pc /\ n.kind = r.kind /\ n.snap = r.snap /\ n.upd = r.upd
        /\ n.code = r.code /\ n.set = r.set
    BY <1>1 DEF Shape
  <1> HIDE DEF n
  <1>4. Read(n) /\ Confirms(n, confirmed) /\ InTime(n, now)
    BY <1>1, <1>3 DEF Lawful, Read, Confirms, InTime
  <1> QED BY <1>2, <1>3, <1>4, Quiet

LEMMA Counters ==
  ASSUME Inv
  PROVE  /\ fails \in Nat /\ tried \in Nat /\ secret \in Nat /\ batch \in Nat /\ now \in Nat
         /\ fails + 1 \in Nat /\ tried + 1 \in Nat /\ secret + 1 \in Nat /\ 0 \in Nat
  BY SMT DEF Inv, Types

LEMMA BeginKeeps ==
  ASSUME Inv, NEW p \in Requests, NEW kind \in Kinds, Begin(p, kind) PROVE Inv'
  <1> DEFINE first == CASE kind = "enable"                    -> "lock"
                        [] kind \in {"regenerate", "disable"} -> "find"
                        [] OTHER                              -> "guard"
             n == [NoRequest EXCEPT !.kind = kind, !.pc = first]
  <1>1. first \in {"lock", "find", "guard"} /\ (kind = "disable" => first = "find")
    <2>1. CASE kind = "enable"
      BY <2>1
    <2>2. CASE kind \in {"regenerate", "disable"}
      BY <2>2
    <2>3. CASE kind \notin {"enable", "regenerate", "disable"}
      BY <2>3
    <2> QED BY <2>1, <2>2, <2>3
  <1>2. /\ req' = [req EXCEPT ![p] = n]
        /\ UNCHANGED <<device, codes, now, replay, confirmed, accepted, spent, batch, fails, tried, secret>>
    BY DEF Begin, rows, store, ghosts
  <1> HIDE DEF first
  <1>3. /\ n \in Shape /\ n.pc = first /\ n.kind = kind /\ n.snap = None /\ n.upd = None /\ n.set = None
    BY <1>1 DEF NoRequest, Shape
  <1> HIDE DEF n
  <1>4. Read(n) /\ Confirms(n, confirmed) /\ InTime(n, now)
    BY <1>1, <1>3 DEF Read, Confirms, InTime
  <1> QED BY <1>1, <1>2, <1>3, <1>4, Counters, Quiet

LEMMA GuardKeeps ==
  ASSUME Inv, NEW p \in Requests, guardBruteForce(p) PROVE Inv'
  <1> DEFINE next == CASE req[p].kind = "verifyEnable" -> "lock"
                       [] req[p].kind = "disable"      -> "compare"
                       [] OTHER                        -> "find"
  <1>1. /\ req[p].pc = "guard"
        /\ UNCHANGED <<device, codes, now, replay, confirmed, accepted, spent, batch, tried, secret>>
    BY DEF guardBruteForce, rows, ghosts
  <1>2. next \in {"lock", "compare", "find"} /\ (next = "compare" => req[p].kind = "disable")
    <2>1. CASE req[p].kind = "verifyEnable"
      BY <2>1
    <2>2. CASE req[p].kind = "disable"
      BY <2>2
    <2>3. CASE req[p].kind \notin {"verifyEnable", "disable"}
      BY <2>3
    <2> QED BY <2>1, <2>2, <2>3
  <1>3. req[p].kind = "disable" => req[p].snap # None
    BY <1>1 DEF Inv, Lawful, Read
  <1>4. CASE End(p) /\ fails' = fails + 1
    BY <1>1, <1>4, Counters, Ends
  <1>5. CASE Go(p, next) /\ UNCHANGED fails
    <2> HIDE DEF next
    <2> QED BY <1>1, <1>2, <1>3, <1>5, Counters, Goes
  <1> QED BY <1>4, <1>5 DEF guardBruteForce

LEMMA LockKeeps ==
  ASSUME Inv, NEW p \in Requests, acquireRotationLock(p) \/ releaseRotationLock(p) PROVE Inv'
  <1>1. UNCHANGED <<device, codes, now, replay, confirmed, accepted, spent, batch, fails, tried, secret>>
    BY DEF acquireRotationLock, releaseRotationLock, rows, ghosts
  <1>2. End(p) \/ (req[p].pc = "lock" /\ Go(p, "find")) \/ Go(p, "commit")
    BY DEF acquireRotationLock, releaseRotationLock
  <1> QED BY <1>1, <1>2, Counters, Ends, Goes

\* The device is read, at most with the codes.
LEMMA Finds ==
  ASSUME Inv, NEW p \in Requests, NEW n, req[p].pc = "find",
         req' = [req EXCEPT ![p] = n], n \in Shape, n.snap = device,
         n.kind = req[p].kind, n.set = req[p].set, n.upd = req[p].upd, n.code = req[p].code,
         n.pc \in {"upsert", "compare", "release", "codes", "guard"},
         n.pc \in {"compare", "guard", "codes"} => device # None,
         n.pc = "upsert" => n.kind # "verifyEnable",
         n.pc = "codes" => n.kind # "validate",
         UNCHANGED <<device, codes, now, replay, confirmed, accepted, spent, batch, fails, tried, secret>>
  PROVE  Inv'
  <1>1. Lawful(req[p]) /\ SecretConfirmed
    BY DEF Inv
  <1>2. Read(n) /\ Confirms(n, confirmed) /\ InTime(n, now)
    BY <1>1 DEF Lawful, Read, Confirms, InTime, SecretConfirmed
  <1> QED BY <1>2, Counters, Quiet

LEMMA FindKeeps ==
  ASSUME Inv, NEW p \in Requests,
         FindEnable(p) \/ FindVerifyEnable(p) \/ FindActive(p) \/ FindDisable(p)
  PROVE  Inv'
  <1> DEFINE r == req[p]
  <1>1. /\ UNCHANGED <<device, codes, now, replay, confirmed, accepted, spent, batch, tried, secret>>
        /\ r.pc = "find"
    BY DEF FindEnable, FindVerifyEnable, FindActive, FindDisable, rows, store, ghosts
  <1>2. fails' = fails \/ fails' = fails + 1
    BY DEF FindEnable, FindVerifyEnable, FindActive, FindDisable, store
  <1>3. CASE End(p) \/ Go(p, "release")
    BY <1>1, <1>2, <1>3, Counters, Ends, Goes
  <1>4. Lawful(r) /\ r \in Shape /\ device \in {None} \cup Dev /\ codes \in SUBSET Nat
    BY DEF Inv, Lawful, Types
  <1>5. ASSUME NEW pc \in {"upsert", "release", "compare"},
               req' = [req EXCEPT ![p].snap = device, ![p].pc = pc], UNCHANGED fails,
               pc = "compare" => device # None, pc = "upsert" => r.kind # "verifyEnable"
        PROVE  Inv'
    <2> DEFINE n == [r EXCEPT !.snap = device, !.pc = pc]
    <2>1. req' = [req EXCEPT ![p] = n]
      BY <1>5
    <2>2. /\ n \in Shape /\ n.snap = device /\ n.pc = pc
          /\ n.kind = r.kind /\ n.set = r.set /\ n.upd = r.upd /\ n.code = r.code
      BY <1>4 DEF Shape
    <2> HIDE DEF n
    <2> QED BY <1>1, <1>5, <2>1, <2>2, Finds
  <1>6. ASSUME NEW pc \in {"upsert", "guard", "codes", "compare"},
               req' = [req EXCEPT ![p].snap = device, ![p].seen = codes, ![p].pc = pc], UNCHANGED fails,
               device # None, pc = "upsert" => r.kind # "verifyEnable", pc = "codes" => r.kind # "validate"
        PROVE  Inv'
    <2> DEFINE n == [r EXCEPT !.snap = device, !.seen = codes, !.pc = pc]
    <2>1. req' = [req EXCEPT ![p] = n]
      BY <1>6
    <2>2. /\ n \in Shape /\ n.snap = device /\ n.pc = pc
          /\ n.kind = r.kind /\ n.set = r.set /\ n.upd = r.upd /\ n.code = r.code
      BY <1>4 DEF Shape
    <2> HIDE DEF n
    <2> QED BY <1>1, <1>6, <2>1, <2>2, Finds
  <1>7. CASE FindEnable(p)
    BY <1>3, <1>5, <1>7 DEF FindEnable, store
  <1>8. CASE FindVerifyEnable(p)
    BY <1>3, <1>5, <1>8 DEF FindVerifyEnable
  <1>9. CASE FindActive(p)
    BY <1>3, <1>6, <1>9 DEF FindActive
  <1>10. CASE FindDisable(p)
    BY <1>3, <1>6, <1>10 DEF FindDisable, store
  <1> QED BY <1>7, <1>8, <1>9, <1>10

LEMMA CompareWrongKeeps ==
  ASSUME Inv, NEW p \in Requests, CompareWrong(p) PROVE Inv'
  <1>1. /\ UNCHANGED <<device, codes, now, replay, confirmed, accepted, spent, batch, secret>>
        /\ fails' = fails + 1 /\ tried' = tried + 1 /\ (End(p) \/ Go(p, "release"))
    BY DEF CompareWrong, Failure, Return, rows
  <1> QED BY <1>1, Counters, Ends, Goes

LEMMA CompareTOTPKeeps ==
  ASSUME Inv, NEW p \in Requests, NEW w \in Periods, CompareTOTP(p, w) PROVE Inv'
  <1> DEFINE r == req[p]
             verify == r.kind = "verifyEnable"
             pc == IF verify THEN "upsert" ELSE "replay"
             c == <<Target(p), w>>
             n == [r EXCEPT !.code = c, !.at = now, !.pc = pc]
  <1>1. /\ UNCHANGED <<device, codes, now, replay, confirmed, accepted, spent, batch, fails, tried, secret>>
        /\ r.pc = "compare" /\ totpValid(w)
        /\ req' = [req EXCEPT ![p] = n]
    BY DEF CompareTOTP, rows, store, ghosts
  <1>2. Lawful(r) /\ r \in Shape /\ now \in Nat
    BY DEF Inv, Lawful, Types
  <1>3. r.snap # None /\ r.snap \in Dev
    BY <1>1, <1>2 DEF Lawful, Read, Shape
  <1>4. Target(p) \in Sec /\ (verify => Target(p) = Promoted(r.snap).secret)
    BY <1>1, <1>3 DEF Target, Promoted, Dev
  <1>5. w \in Nat /\ w <= now + TOTPSkew /\ now <= w + TOTPSkew
    BY <1>1, SecondFactorAssumption, SMT DEF totpValid, Periods, TOTPSkew
  <1>6. /\ n \in Shape /\ n.code = c /\ n.at = now /\ n.pc = pc
        /\ n.kind = r.kind /\ n.snap = r.snap /\ n.upd = r.upd /\ n.set = r.set
    <2>1. c \in Sec \X Nat /\ pc \in {"upsert", "replay"}
      BY <1>4, <1>5
    <2> HIDE DEF c, pc
    <2> QED BY <1>2, <2>1 DEF Shape
  <1>7. n.code \in Sec \X Nat /\ n.code[1] = Target(p) /\ n.code[2] = w
    BY <1>4, <1>5, <1>6, SMT
  <1> HIDE DEF n
  <1>8. Read(n) /\ InTime(n, now)
    BY <1>2, <1>5, <1>6, <1>7, SMT DEF Read, InTime
  <1>9. Confirms(n, confirmed)
    BY <1>1, <1>2, <1>3, <1>4, <1>6, <1>7 DEF Lawful, Confirms
  <1> QED BY <1>1, <1>6, <1>8, <1>9, Counters, Quiet

LEMMA CompareRecoveryKeeps ==
  ASSUME Inv, NEW p \in Requests, NEW c \in Batches, CompareRecovery(p, c) PROVE Inv'
  <1> DEFINE r == req[p]
             n == [r EXCEPT !.seen = {c}, !.pc = "mark"]
  <1>1. /\ UNCHANGED <<device, codes, now, replay, confirmed, accepted, spent, batch, fails, tried, secret>>
        /\ r.pc = "compare" /\ req' = [req EXCEPT ![p] = n]
    BY DEF CompareRecovery, rows, store, ghosts
  <1>2. Lawful(r) /\ r \in Shape /\ {c} \in SUBSET Nat
    BY SecondFactorAssumption, SMT DEF Inv, Lawful, Batches
  <1>3. /\ n \in Shape /\ n.pc = "mark" /\ n.code = r.code
        /\ n.kind = r.kind /\ n.snap = r.snap /\ n.upd = r.upd /\ n.set = r.set
    BY <1>2 DEF Shape
  <1> HIDE DEF n
  <1>4. Read(n) /\ InTime(n, now) /\ Confirms(n, confirmed)
    BY <1>1, <1>2, <1>3 DEF Lawful, Read, InTime, Confirms
  <1> QED BY <1>1, <1>3, <1>4, Counters, Quiet

\* A code whose key is set is remembered from then on.
LEMMA ReplayKeeps ==
  ASSUME Inv, NEW p \in Requests, replayGuard(p) PROVE Inv'
  <1> DEFINE r == req[p]
             pc == IF r.kind = "disable" THEN "upsert" ELSE "commit"
             n == [r EXCEPT !.pc = pc]
  <1>1. /\ UNCHANGED <<device, codes, now, confirmed, spent, batch, secret>>
        /\ r.pc = "replay" /\ fails' \in Nat /\ tried' \in Nat
    BY Counters DEF replayGuard, rows, Failure, Success
  <1>2. Lawful(r) /\ r \in Shape /\ Types /\ Remembered
    BY DEF Inv, Lawful
  <1>3. CASE End(p) /\ UNCHANGED <<replay, accepted>>
    BY <1>1, <1>3, Counters, Ends
  <1>4. CASE /\ replay' = replay \cup {<<r.code, now>>} /\ accepted' = accepted \cup {r.code}
             /\ Go(p, pc)
    <2>1. r.code \in Sec \X Nat /\ r.code[2] <= now + TOTPSkew /\ now \in Nat
      <3>1. r.code \in Sec \X Nat /\ r.at \in Nat /\ r.at <= now /\ r.code[2] <= r.at + TOTPSkew /\ now \in Nat
        BY <1>1, <1>2 DEF Lawful, InTime, Shape, Types
      <3> QED BY <3>1, SMT DEF TOTPSkew
    <2>2. replay' \in SUBSET ((Sec \X Nat) \X Nat) /\ accepted' \in SUBSET (Sec \X Nat)
      BY <1>2, <1>4, <2>1, SMT DEF Types
    <2>3. Remembered'
      <3>1. \A e \in replay' : e[1][2] <= e[2] + TOTPSkew /\ e[2] <= now'
        BY <1>1, <1>2, <1>4, <2>1, SMT DEF Remembered, TOTPSkew
      <3>2. ASSUME NEW c \in accepted' PROVE (\E e \in replay' : e[1] = c) \/ now' > c[2] + TOTPSkew + 1
        <4>1. CASE c = r.code
          <5>1. <<r.code, now>> \in replay' /\ <<r.code, now>>[1] = r.code
            BY <1>4
          <5> QED BY <4>1, <5>1
        <4>2. CASE c \in accepted
          BY <1>1, <1>2, <1>4, <4>2 DEF Remembered
        <4> QED BY <1>4, <4>1, <4>2
      <3> QED BY <3>1, <3>2 DEF Remembered
    <2>4. req' = [req EXCEPT ![p] = n]
      BY <1>4 DEF Go
    <2>5. /\ n \in Shape /\ n.pc = pc /\ n.code = r.code
          /\ n.kind = r.kind /\ n.snap = r.snap /\ n.upd = r.upd /\ n.set = r.set
      BY <1>2, SMT DEF Shape
    <2> HIDE DEF n
    <2>6. Read(n) /\ InTime(n, now) /\ Confirms(n, confirmed)
      BY <1>1, <1>2, <2>5 DEF Lawful, Read, InTime, Confirms
    <2>7. Recovers(n, codes, spent, batch') /\ batch' \in Nat /\ batch <= batch' /\ secret' \in Nat
      BY <1>1, <1>2, <2>5, SMT DEF Lawful, Recovers, Types
    <2>8. \A q \in Requests \ {p} : n.set = None \/ req[q].set = None
      BY <2>5 DEF Inv
    <2> QED BY <1>1, <2>2, <2>3, <2>4, <2>5, <2>6, <2>7, <2>8, Moves
  <1> QED BY <1>3, <1>4 DEF replayGuard

LEMMA MarkKeeps ==
  ASSUME Inv, NEW p \in Requests, MarkRecoveryCodeUsed(p) PROVE Inv'
  <1> DEFINE r == req[p]
             pc == IF r.kind = "disable" THEN "upsert" ELSE "commit"
             new == [op |-> "mark", with |-> r.seen]
             n == [r EXCEPT !.set = new, !.pc = pc]
  <1>1. /\ UNCHANGED <<device, codes, now, replay, confirmed, accepted, spent, batch, secret>>
        /\ r.pc = "mark" /\ ~CodesHeld(p) /\ fails' \in Nat /\ tried' \in Nat
    BY Counters DEF MarkRecoveryCodeUsed, rows, Failure, Success
  <1>2. Lawful(r) /\ r \in Shape /\ Types /\ Remembered /\ Unspent
    BY DEF Inv, Lawful
  <1>3. CASE End(p)
    BY <1>1, <1>3, Counters, Ends
  <1>4. CASE r.seen \subseteq codes /\ req' = [req EXCEPT ![p].set = new, ![p].pc = pc]
    <2>1. req' = [req EXCEPT ![p] = n]
      BY <1>4
    <2>2. r.seen \in SUBSET Nat /\ new \in [op : {"replace", "mark"}, with : SUBSET Nat]
      BY <1>2 DEF Shape
    <2>3. /\ n \in Shape /\ n.pc = pc /\ n.code = r.code /\ n.kind = r.kind /\ n.snap = r.snap
          /\ n.upd = r.upd /\ n.set = new
      <3>1. pc \in {"upsert", "commit"}
        OBVIOUS
      <3> HIDE DEF new, pc
      <3> QED BY <1>2, <2>2, <3>1 DEF Shape
    <2>8. new.op = "mark" /\ new.with = r.seen
      OBVIOUS
    <2> HIDE DEF n, new
    <2>4. Read(n) /\ InTime(n, now) /\ Confirms(n, confirmed)
      BY <1>1, <1>2, <2>3 DEF Lawful, Read, InTime, Confirms
    <2>5. Recovers(n, codes, spent, batch')
      BY <1>1, <1>2, <1>4, <2>3, <2>8 DEF Recovers, Unspent
    <2>6. \A q \in Requests \ {p} : n.set = None \/ req[q].set = None
      BY <1>1 DEF CodesHeld
    <2>7. /\ replay' \in SUBSET ((Sec \X Nat) \X Nat) /\ accepted' \in SUBSET (Sec \X Nat)
          /\ secret' \in Nat /\ batch' \in Nat /\ batch <= batch' /\ Remembered'
      BY <1>1, <1>2, SMT DEF Types, Remembered
    <2> QED BY <1>1, <2>1, <2>3, <2>4, <2>5, <2>6, <2>7, Moves
  <1> QED BY <1>3, <1>4 DEF MarkRecoveryCodeUsed

-----------------------------------------------------------------------------
(* The writes *)

\* What Enable stages leaves an active device on the secret that was read.
LEMMA StagedIs ==
  ASSUME NEW d \in {None} \cup Dev, NEW new \in Nat
  PROVE  /\ Staged(d, new) \in Dev
         /\ Staged(d, new).enabled => d # None /\ d.enabled /\ Staged(d, new).secret = d.secret
  <1>1. CASE d # None /\ d.enabled
    <2>1. Staged(d, new) = [d EXCEPT !.pending = new] /\ d \in Dev
      BY <1>1 DEF Staged
    <2>2. /\ Staged(d, new).enabled /\ Staged(d, new).secret = d.secret
          /\ Staged(d, new) \in [enabled : BOOLEAN, secret : Sec, pending : Sec]
      BY <1>1, <2>1 DEF Dev, Sec
    <2> QED BY <1>1, <2>2 DEF Dev
  <1>2. CASE ~(d # None /\ d.enabled)
    <2>1. Staged(d, new) = [NoDevice EXCEPT !.secret = new]
      BY <1>2 DEF Staged
    <2>2. /\ ~Staged(d, new).enabled /\ Staged(d, new).pending = None
          /\ Staged(d, new) \in [enabled : BOOLEAN, secret : Sec, pending : Sec]
      BY <2>1 DEF Sec, NoDevice
    <2> QED BY <2>2 DEF Dev
  <1> QED BY <1>1, <1>2

LEMMA PromotedIs ==
  ASSUME NEW d \in Dev
  PROVE  Promoted(d) \in Dev /\ Promoted(d).enabled
  BY DEF Promoted, Dev, Sec

\* What VerifyEnable restores is active only if it was when it was read.
LEMMA RestoredIs ==
  ASSUME NEW d \in Dev
  PROVE  /\ Restored(d) \in Dev
         /\ Restored(d).enabled => d.enabled /\ Restored(d).secret = d.secret
  <1>1. /\ Restored(d).enabled = (d.pending # None) /\ Restored(d).secret = d.secret
        /\ Restored(d).pending = d.pending
        /\ Restored(d) \in [enabled : BOOLEAN, secret : Sec, pending : Sec]
    BY DEF Restored, Dev
  <1> QED BY <1>1 DEF Dev

LEMMA UpsertKeeps ==
  ASSUME Inv, NEW p \in Requests, Upsert(p) PROVE Inv'
  <1> DEFINE r == req[p]
             first == r.kind = "enable"
             d == IF first THEN Staged(r.snap, secret') ELSE Promoted(r.snap)
             pc == IF first THEN "release" ELSE "codes"
             n == [r EXCEPT !.upd = d, !.pc = pc]
  <1>1. /\ UNCHANGED <<device, codes, now, replay, confirmed, accepted, spent, batch, fails, tried>>
        /\ r.pc = "upsert" /\ r.kind \in {"enable", "verifyEnable"} /\ secret' \in Nat
    BY Counters, SMT DEF Upsert, rows, store, ghosts
  <1>2. Lawful(r) /\ r \in Shape
    BY DEF Inv, Lawful
  <1>3. CASE Go(p, "release")
    BY <1>1, <1>3, Counters, Goes
  <1>4. CASE req' = [req EXCEPT ![p].upd = d, ![p].pc = pc]
    <2>1. req' = [req EXCEPT ![p] = n]
      BY <1>4
    <2>2. d \in Dev /\ pc \in {"release", "codes"} /\ (pc = "codes" => r.kind # "validate")
      <3>1. CASE first
        <4>1. d = Staged(r.snap, secret') /\ r.snap \in {None} \cup Dev
          BY <1>2, <3>1 DEF Shape
        <4> QED BY <1>1, <3>1, <4>1, StagedIs
      <3>2. CASE ~first
        <4>1. r.snap \in Dev /\ d = Promoted(r.snap)
          BY <1>1, <1>2, <3>2 DEF Lawful, Confirms, Shape
        <4> QED BY <1>1, <3>2, <4>1, PromotedIs
      <3> QED BY <3>1, <3>2
    <2>3. d.enabled => d.secret \in confirmed \/ (r.kind = "verifyEnable" /\ d.secret = r.code[1])
      <3>1. CASE first
        <4>1. d = Staged(r.snap, secret') /\ r.snap \in {None} \cup Dev
          BY <1>2, <3>1 DEF Shape
        <4>2. secret' \in Nat
          BY <1>1
        <4>3. LET e == Staged(r.snap, secret')
              IN  e.enabled => r.snap # None /\ r.snap.enabled /\ e.secret = r.snap.secret
          <5> HIDE DEF d
          <5> QED BY <4>1, <4>2, StagedIs
        <4> QED BY <1>2, <4>1, <4>3 DEF Lawful, Confirms
      <3>2. CASE ~first
        BY <1>1, <1>2, <3>2 DEF Lawful, Confirms
      <3> QED BY <3>1, <3>2
    <2> HIDE DEF d, pc
    <2>4. /\ n \in Shape /\ n.pc = pc /\ n.code = r.code /\ n.kind = r.kind /\ n.snap = r.snap
          /\ n.upd = d /\ n.set = r.set
      BY <1>2, <2>2 DEF Shape
    <2> HIDE DEF n
    <2>5. Read(n) /\ InTime(n, now) /\ Confirms(n, confirmed)
      BY <1>1, <1>2, <2>2, <2>3, <2>4 DEF Lawful, Read, InTime, Confirms
    <2> QED BY <1>1, <2>1, <2>2, <2>4, <2>5, Counters, Quiet
  <1> QED BY <1>3, <1>4 DEF Upsert

LEMMA DisableKeeps ==
  ASSUME Inv, NEW p \in Requests, Disable(p) PROVE Inv'
  <1> DEFINE r == req[p]
             n == [r EXCEPT !.upd = NoDevice, !.pc = "codes"]
  <1>1. /\ UNCHANGED <<device, codes, now, replay, confirmed, accepted, spent, batch, fails, tried, secret>>
        /\ r.kind = "disable" /\ req' = [req EXCEPT ![p] = n]
    BY DEF Disable, rows, store, ghosts
  <1>2. Lawful(r) /\ r \in Shape /\ NoDevice \in Dev /\ ~NoDevice.enabled
    BY DEF Inv, Lawful, NoDevice, Dev, Sec
  <1>3. /\ n \in Shape /\ n.pc = "codes" /\ n.code = r.code /\ n.kind = r.kind /\ n.snap = r.snap
        /\ n.upd = NoDevice /\ n.set = r.set
    BY <1>2 DEF Shape
  <1> HIDE DEF n
  <1>4. Read(n) /\ InTime(n, now) /\ Confirms(n, confirmed)
    BY <1>1, <1>2, <1>3 DEF Lawful, Read, InTime, Confirms
  <1> QED BY <1>1, <1>3, <1>4, Counters, Quiet

LEMMA ReplaceKeeps ==
  ASSUME Inv, NEW p \in Requests, ReplaceRecoveryCodes(p) PROVE Inv'
  <1> DEFINE r == req[p]
             off == r.kind = "disable"
             pc == IF Rotates(p) THEN "release" ELSE "commit"
             fresh == IF off THEN {} ELSE {batch'}
             new == [op |-> "replace", with |-> fresh]
             n == [r EXCEPT !.set = new, !.pc = pc]
  <1>1. /\ UNCHANGED <<device, codes, now, replay, confirmed, accepted, spent, secret>>
        /\ r.pc = "codes" /\ ~CodesHeld(p) /\ fails' \in Nat /\ tried' \in Nat
        /\ batch' = batch + (IF off THEN 0 ELSE 1) /\ req' = [req EXCEPT ![p] = n]
    BY Counters DEF ReplaceRecoveryCodes, rows, Success
  <1>2. Lawful(r) /\ r \in Shape /\ Types /\ Remembered /\ Unspent
    BY DEF Inv, Lawful
  <1>3. /\ batch' \in Nat /\ batch <= batch' /\ fresh \in SUBSET Nat /\ fresh \subseteq 1 .. batch'
        /\ fresh \cap (1 .. batch) = {} /\ \A x, y \in fresh : x = y
    <2>1. batch \in Nat
      BY <1>2 DEF Types
    <2>2. CASE off
      BY <1>1, <2>1, <2>2, SMT
    <2>3. CASE ~off
      BY <1>1, <2>1, <2>3, SMT
    <2> QED BY <2>2, <2>3
  <1>4. fresh \cap spent = {}
    BY <1>2, <1>3 DEF Unspent
  <1>5. pc \in {"release", "commit"}
    OBVIOUS
  <1> HIDE DEF fresh, pc
  <1>6. new \in [op : {"replace", "mark"}, with : SUBSET Nat] /\ new.op = "replace" /\ new.with = fresh
    BY <1>3
  <1> HIDE DEF new
  <1>7. /\ n \in Shape /\ n.pc = pc /\ n.code = r.code /\ n.kind = r.kind /\ n.snap = r.snap
        /\ n.upd = r.upd /\ n.set = new
    BY <1>2, <1>5, <1>6 DEF Shape
  <1> HIDE DEF n
  <1>8. Read(n) /\ InTime(n, now) /\ Confirms(n, confirmed)
    BY <1>1, <1>2, <1>5, <1>7 DEF Lawful, Read, InTime, Confirms
  <1>9. Recovers(n, codes, spent, batch')
    BY <1>1, <1>2, <1>3, <1>4, <1>5, <1>6, <1>7 DEF Lawful, Recovers
  <1>10. \A q \in Requests \ {p} : n.set = None \/ req[q].set = None
    BY <1>1 DEF CodesHeld
  <1>11. /\ replay' \in SUBSET ((Sec \X Nat) \X Nat) /\ accepted' \in SUBSET (Sec \X Nat)
         /\ secret' \in Nat /\ Remembered'
    BY <1>1, <1>2 DEF Types, Remembered
  <1> QED BY <1>1, <1>3, <1>7, <1>8, <1>9, <1>10, <1>11, Moves

\* The transaction is lost, and what VerifyEnable read is put back.
LEMMA UndoKeeps ==
  ASSUME Inv, NEW p \in Requests, LoseTransaction(p) \/ Undo(p) PROVE Inv'
  <1> DEFINE r == req[p]
  <1>1. Lawful(r) /\ r \in Shape /\ Types /\ Remembered
    BY DEF Inv, Lawful
  <1>2. CASE LoseTransaction(p)
    <2> DEFINE n == [r EXCEPT !.upd = None, !.pc = "undo"]
    <2>1. /\ UNCHANGED <<device, codes, now, replay, confirmed, accepted, spent, batch, fails, tried, secret>>
          /\ r.pc = "codes" /\ r.kind = "verifyEnable" /\ req' = [req EXCEPT ![p] = n]
      BY <1>2 DEF LoseTransaction, rows, store, ghosts
    <2>2. /\ n \in Shape /\ n.pc = "undo" /\ n.code = r.code /\ n.kind = r.kind /\ n.snap = r.snap
          /\ n.upd = None /\ n.set = r.set
      BY <1>1 DEF Shape
    <2> HIDE DEF n
    <2>3. Read(n) /\ InTime(n, now) /\ Confirms(n, confirmed)
      BY <1>1, <2>1, <2>2 DEF Lawful, Read, InTime, Confirms
    <2> QED BY <2>1, <2>2, <2>3, Counters, Quiet
  <1>3. CASE Undo(p)
    <2> DEFINE n == [r EXCEPT !.pc = "release"]
    <2>1. /\ UNCHANGED <<codes, now, replay, confirmed, accepted, spent, batch, fails, tried, secret>>
          /\ r.pc = "undo" /\ device' = Restored(r.snap) /\ req' = [req EXCEPT ![p] = n]
      BY <1>3 DEF Undo, Go, store, ghosts
    <2>2. r.snap \in Dev
      BY <1>1, <2>1 DEF Lawful, Read, Shape
    <2>3. device' \in Dev /\ (device'.enabled => device'.secret \in confirmed)
      <3>1. /\ Restored(r.snap) \in Dev
            /\ Restored(r.snap).enabled => r.snap.enabled /\ Restored(r.snap).secret = r.snap.secret
        BY <2>2, RestoredIs
      <3>2. r.snap.enabled => r.snap.secret \in confirmed
        BY <1>1, <2>1 DEF Lawful, Confirms, Read
      <3> QED BY <2>1, <3>1, <3>2
    <2>4. /\ n \in Shape /\ n.pc = "release" /\ n.code = r.code /\ n.kind = r.kind /\ n.snap = r.snap
          /\ n.upd = r.upd /\ n.set = r.set
      BY <1>1 DEF Shape
    <2> HIDE DEF n
    <2>5. Read(n) /\ InTime(n, now) /\ Confirms(n, confirmed)
      BY <1>1, <2>1, <2>4 DEF Lawful, Read, InTime, Confirms
    <2>6. Recovers(n, codes, spent, batch') /\ batch' \in Nat /\ batch <= batch'
      BY <1>1, <2>1, <2>4, SMT DEF Lawful, Recovers, Types
    <2>7. \A q \in Requests \ {p} : n.set = None \/ req[q].set = None
      BY <2>4 DEF Inv
    <2>8. /\ replay' \in SUBSET ((Sec \X Nat) \X Nat) /\ accepted' \in SUBSET (Sec \X Nat) /\ Remembered'
          /\ fails' \in Nat /\ tried' \in Nat /\ secret' \in Nat
      BY <1>1, <2>1 DEF Types, Remembered
    <2> QED BY <2>1, <2>3, <2>4, <2>5, <2>6, <2>7, <2>8, Moves
  <1> QED BY <1>2, <1>3

LEMMA FailKeeps ==
  ASSUME Inv, NEW p \in Requests, Fail(p) \/ Crash(p) PROVE Inv'
  <1> DEFINE n == [NoRequest EXCEPT !.kind = req[p].kind, !.pc = "release"]
  <1>1. UNCHANGED <<device, codes, now, replay, confirmed, accepted, spent, batch, fails, tried, secret>>
    BY DEF Fail, Crash, rows, store, ghosts
  <1>2. CASE End(p)
    BY <1>1, <1>2, Counters, Ends
  <1>3. CASE req' = [req EXCEPT ![p] = n]
    <2>1. req[p] \in Shape
      BY DEF Inv, Lawful
    <2>2. /\ n \in Shape /\ n.pc = "release" /\ n.snap = None /\ n.upd = None /\ n.set = None
      BY <2>1 DEF Shape, NoRequest
    <2> HIDE DEF n
    <2>3. Read(n) /\ InTime(n, now) /\ Confirms(n, confirmed)
      BY <2>2 DEF Read, InTime, Confirms
    <2> QED BY <1>1, <1>3, <2>2, <2>3, Counters, Quiet
  <1> QED BY <1>2, <1>3 DEF Fail, Crash

\* No other request has written codes, so what the others have decided stands.
LEMMA CommitKeeps ==
  ASSUME Inv, NEW p \in Requests, Commit(p) PROVE Inv'
  <1> DEFINE r == req[p]
  <1>1. /\ UNCHANGED <<now, replay, fails, secret, batch, accepted, tried>>
        /\ req' = [req EXCEPT ![p] = NoRequest]
        /\ device' = (IF r.upd = None THEN device ELSE r.upd)
        /\ codes' = (IF r.set = None THEN codes
                     ELSE IF r.set.op = "mark" THEN codes \ r.set.with ELSE r.set.with)
        /\ spent' = spent \cup (IF r.set # None /\ r.kind = "validate" THEN r.set.with ELSE {})
        /\ confirmed' = confirmed \cup (IF r.kind = "verifyEnable" /\ r.upd # None THEN {r.code[1]} ELSE {})
    BY DEF Commit, End, CodesAfter, store
  <1>2. Lawful(r) /\ r \in Shape /\ Types /\ Unspent /\ Remembered /\ SecretConfirmed
    BY DEF Inv, Lawful
  <1>3. \A q \in Requests : req'[q] = IF q = p THEN NoRequest ELSE req[q]
    BY <1>1 DEF Inv, Types
  <1>4. r.set # None => r.set \in [op : {"replace", "mark"}, with : SUBSET Nat]
    BY <1>2 DEF Shape
  <1>5. Unspent' /\ codes' \in SUBSET Nat /\ spent' \in SUBSET Nat
    <2>1. CASE r.set = None
      BY <1>1, <1>2, <2>1 DEF Unspent, Types
    <2>2. CASE r.set # None /\ r.set.op = "mark"
      <3>1. r.set.with \subseteq codes
        BY <1>2, <2>2 DEF Lawful, Recovers
      <3>2. codes' = codes \ r.set.with /\ (spent' = spent \/ spent' = spent \cup r.set.with)
        BY <1>1, <2>2
      <3> QED BY <1>1, <1>2, <3>1, <3>2 DEF Unspent, Types
    <2>3. CASE r.set # None /\ r.set.op = "replace"
      <3>1. /\ r.kind # "validate" /\ r.set.with \subseteq 1 .. batch /\ r.set.with \cap spent = {}
            /\ \A x, y \in r.set.with : x = y
        BY <1>2, <2>3 DEF Lawful, Recovers
      <3>2. codes' = r.set.with /\ spent' = spent
        BY <1>1, <2>3, <3>1
      <3> QED BY <1>1, <1>2, <1>4, <2>3, <3>1, <3>2 DEF Unspent, Types
    <2> QED BY <1>4, <2>1, <2>2, <2>3
  <1>6. SecretConfirmed'
    <2>1. CASE r.upd = None
      BY <1>1, <1>2, <2>1 DEF SecretConfirmed
    <2>2. CASE r.upd # None
      BY <1>1, <1>2, <2>2 DEF SecretConfirmed, Lawful, Confirms
    <2> QED BY <2>1, <2>2
  <1>7. Types'
    <2>1. req' \in [Requests -> Shape]
      BY <1>1, <1>2, NothingAsked DEF Types
    <2>2. device' \in {None} \cup Dev
      BY <1>1, <1>2 DEF Types, Shape
    <2> QED BY <1>1, <1>2, <1>5, <2>1, <2>2 DEF Types
  <1>8. Remembered'
    BY <1>1, <1>2 DEF Remembered
  <1>9. ASSUME NEW q \in Requests PROVE Lawful(req[q])'
    <2> DEFINE o == req'[q]
    <2>1. CASE q = p
      <3>1. o = NoRequest
        BY <1>3, <2>1
      <3> QED BY <3>1, NothingAsked DEF Lawful, Read, Confirms, Recovers, InTime
    <2>2. CASE q # p
      <3>1. o = req[q] /\ Lawful(req[q]) /\ (req[q].set = None \/ r.set = None)
        BY <1>3, <2>2 DEF Inv
      <3>2. Confirms(o, confirmed') /\ InTime(o, now') /\ Read(o) /\ o \in Shape
        BY <1>1, <3>1, SMT DEF Lawful, Confirms
      <3>3. Recovers(o, codes', spent', batch')
        BY <1>1, <3>1 DEF Lawful, Recovers
      <3> QED BY <3>2, <3>3 DEF Lawful, Read, Confirms, Recovers, InTime, Promoted
    <2> QED BY <2>1, <2>2
  <1>10. \A a, b \in Requests : a # b => req'[a].set = None \/ req'[b].set = None
    BY <1>3, NothingAsked DEF Inv
  <1> QED BY <1>5, <1>6, <1>7, <1>8, <1>9, <1>10 DEF Inv

-----------------------------------------------------------------------------
(* Time and the store *)

LEMMA StutterKeeps ==
  ASSUME Inv, UNCHANGED <<device, codes, now, replay, req, secret, batch, confirmed, accepted, spent>>,
         fails' \in Nat, tried' \in Nat
  PROVE  Inv'
  <1>1. Types' /\ Unspent' /\ Remembered' /\ SecretConfirmed'
    BY DEF Inv, Types, Unspent, Remembered, SecretConfirmed
  <1>2. ASSUME NEW q \in Requests PROVE Lawful(req[q])'
    <2>1. Lawful(req[q]) /\ UNCHANGED <<codes, now, req, batch, confirmed, spent>>
      BY DEF Inv
    <2> QED BY <2>1, SMT DEF Lawful, Read, Confirms, Recovers, InTime, Promoted
  <1> QED BY <1>1, <1>2 DEF Inv

\* A code ages, and with it the request that has compared it.
LEMMA TickKeeps ==
  ASSUME Inv, Tick PROVE Inv'
  <1>1. /\ UNCHANGED <<device, codes, replay, fails, req, secret, batch, confirmed, accepted, spent, tried>>
        /\ now' = now + 1 /\ \A p \in Requests : req[p].pc = "replay" => req[p].at = now
    BY DEF Tick, rows, store, ghosts
  <1>2. Types /\ Unspent /\ Remembered /\ SecretConfirmed /\ now \in Nat
    BY DEF Inv, Types
  <1>3. Types' /\ Unspent' /\ SecretConfirmed'
    BY <1>1, <1>2, SMT DEF Types, Unspent, SecretConfirmed
  <1>4. Remembered'
    <2>1. \A c \in accepted : c[2] \in Nat
      BY <1>2 DEF Types
    <2>2. \A e \in replay : e[2] \in Nat
      BY <1>2 DEF Types
    <2> QED BY <1>1, <1>2, <2>1, <2>2, SMT DEF Remembered, TOTPSkew
  <1>5. ASSUME NEW q \in Requests PROVE Lawful(req[q])'
    <2>1. Lawful(req[q]) /\ req[q] \in Shape /\ UNCHANGED <<codes, req, batch, confirmed, spent>>
      BY <1>1 DEF Inv, Lawful
    <2>2. InTime(req[q], now')
      BY <1>1, <1>2, <2>1, SMT DEF Lawful, InTime, TOTPSkew
    <2> QED BY <2>1, <2>2, SMT DEF Lawful, Read, Confirms, Recovers, InTime, Promoted
  <1> QED BY <1>1, <1>3, <1>4, <1>5 DEF Inv

\* When a key expires its code is no longer valid, nor is it in a request.
LEMMA ReplayExpiresKeeps ==
  ASSUME Inv, NEW e \in replay, ReplayExpires(e) PROVE Inv'
  <1>1. /\ UNCHANGED <<device, codes, now, fails, req, secret, batch, confirmed, accepted, spent, tried>>
        /\ now >= e[2] + TOTPReplayPeriods /\ replay' = replay \ {e}
    BY DEF ReplayExpires, rows, ghosts
  <1>2. Types /\ Unspent /\ Remembered /\ SecretConfirmed /\ now \in Nat
    BY DEF Inv, Types
  <1>3. Types' /\ Unspent' /\ SecretConfirmed'
    BY <1>1, <1>2 DEF Types, Unspent, SecretConfirmed
  <1>4. Remembered'
    <2>1. \A x \in replay' : x[1][2] <= x[2] + TOTPSkew /\ x[2] <= now'
      BY <1>1, <1>2 DEF Remembered
    <2>2. e[1][2] \in Nat /\ e[2] \in Nat /\ e[1][2] <= e[2] + TOTPSkew
      BY <1>2 DEF Types, Remembered
    <2>3. now > e[1][2] + TOTPSkew + 1
      BY <1>1, <1>2, <2>2, ReplayAssumption, SecondFactorAssumption, SMT DEF TOTPSkew
    <2>4. ASSUME NEW c \in accepted PROVE (\E x \in replay' : x[1] = c) \/ now' > c[2] + TOTPSkew + 1
      <3>1. CASE \E x \in replay : x[1] = c
        <4>1. PICK x \in replay : x[1] = c
          BY <3>1
        <4> QED BY <1>1, <2>3, <4>1
      <3>2. CASE now > c[2] + TOTPSkew + 1
        BY <1>1, <3>2
      <3> QED BY <1>2, <3>1, <3>2 DEF Remembered
    <2> QED BY <1>1, <2>1, <2>4 DEF Remembered
  <1>5. ASSUME NEW q \in Requests PROVE Lawful(req[q])'
    <2>1. Lawful(req[q]) /\ UNCHANGED <<codes, now, req, batch, confirmed, spent>>
      BY <1>1 DEF Inv
    <2> QED BY <2>1, SMT DEF Lawful, Read, Confirms, Recovers, InTime, Promoted
  <1> QED BY <1>1, <1>3, <1>4, <1>5 DEF Inv

-----------------------------------------------------------------------------
(* Confirmed secrets, one batch, codes used once *)

LEMMA InitInv == Init => Inv
  <1> SUFFICES ASSUME Init PROVE Inv
    OBVIOUS
  <1>1. \A p \in Requests : req[p] = NoRequest
    BY DEF Init
  <1>2. ASSUME NEW p \in Requests PROVE Lawful(req[p])
    BY <1>1, NothingAsked DEF Lawful, Read, Confirms, Recovers, InTime
  <1>3. device = None \/ device = [enabled |-> TRUE, secret |-> 1, pending |-> None]
    BY DEF Init, NoDevice
  <1>4. device # None => scene.enrolled
    BY DEF Init
  <1>5. Types
    <2>1. req \in [Requests -> Shape]
      BY NothingAsked DEF Init
    <2>2. device \in {None} \cup Dev
      <3>1. [enabled |-> TRUE, secret |-> 1, pending |-> None] \in Dev
        BY DEF Dev, Sec
      <3> QED BY <1>3, <3>1
    <2> QED BY <2>1, <2>2, SMT DEF Init, Types
  <1>6. SecretConfirmed
    BY <1>3, <1>4 DEF SecretConfirmed, Init
  <1>7. Unspent /\ Remembered
    BY SMT DEF Init, Unspent, Remembered
  <1> QED BY <1>1, <1>2, <1>5, <1>6, <1>7, NothingAsked DEF Inv

LEMMA NextInv == Inv /\ [Next]_vars => Inv'
  <1> SUFFICES ASSUME Inv, [Next]_vars PROVE Inv'
    OBVIOUS
  <1>1. ASSUME NEW p \in Requests, Step(p) PROVE Inv'
    BY <1>1, BeginKeeps, GuardKeeps, LockKeeps, FindKeeps, CompareWrongKeeps, CompareTOTPKeeps,
       CompareRecoveryKeeps, ReplayKeeps, MarkKeeps, UpsertKeeps, DisableKeeps, ReplaceKeeps,
       UndoKeeps, CommitKeeps, FailKeeps DEF Step
  <1>2. CASE LockExpires \/ WindowOver
    BY <1>2, Counters, StutterKeeps DEF LockExpires, WindowOver, rows, ghosts
  <1>3. CASE UNCHANGED vars
    BY <1>3, Counters, StutterKeeps DEF vars, rows, store, ghosts
  <1> QED BY <1>1, <1>2, <1>3, TickKeeps, ReplayExpiresKeeps DEF Next

LEMMA SpecInv == Spec => []Inv
  BY InitInv, NextInv, PTL DEF Spec

\* Whatever calls of Enable, VerifyEnable and Disable overlap, and wherever they
\* fail, an active device holds a secret that VerifyEnable has seen a code of.
THEOREM ActiveSecretConfirmed == Spec => []SecretConfirmed
  <1>1. Inv => SecretConfirmed
    BY DEF Inv
  <1> QED BY <1>1, SpecInv, PTL

\* The unused recovery codes are of one batch: ReplaceRecoveryCodes waits for
\* the rows, deletes them all and inserts a batch nobody else has.
THEOREM CodesOfOneBatch == Spec => []OneBatch
  <1>1. Inv => OneBatch
    <2> SUFFICES ASSUME Inv PROVE Cardinality(codes) <= 1
      BY DEF OneBatch
    <2>1. \A x, y \in codes : x = y
      BY DEF Inv, Unspent
    <2>2. CASE codes = {}
      BY <2>2, FS_EmptySet, SMT
    <2>3. ASSUME NEW x \in codes PROVE Cardinality(codes) <= 1
      <3>1. codes = {x}
        BY <2>1
      <3>2. Cardinality({x}) = 1
        BY FS_Singleton
      <3> QED BY <3>1, <3>2, SMT
    <2> QED BY <2>2, <2>3
  <1> QED BY <1>1, SpecInv, PTL

\* A 6-digit code passes replayGuard once, although its key expires; a recovery
\* code completes one sign-in, whoever marks, replaces or clears the codes at the
\* same time.
THEOREM FactorsUsedOnce == Spec => FactorOnce
  <1>1. Inv => FactorStep
    <2> SUFFICES ASSUME Inv, NEW p \in Requests
                 PROVE  /\ replayGuard(p) /\ req'[p].pc # "idle" => req[p].code \notin accepted
                        /\ Commit(p) /\ req[p].kind = "validate" /\ req[p].set # None =>
                             req[p].set.with \cap spent = {} /\ req[p].set.with \subseteq codes
      BY DEF FactorStep
    <2> DEFINE r == req[p]
    <2>1. Lawful(r) /\ r \in Shape /\ Types /\ Remembered /\ Unspent
      BY DEF Inv, Lawful
    <2>2. ASSUME replayGuard(p), req'[p].pc # "idle" PROVE r.code \notin accepted
      <3>1. r.pc = "replay" /\ ~\E e \in replay : e[1] = r.code
        <4>1. ~End(p)
          BY <2>1, <2>2, NothingAsked DEF End, Types
        <4> QED BY <2>2, <4>1 DEF replayGuard
      <3>2. ~(now > r.code[2] + TOTPSkew + 1)
        <4>1. /\ r.code[2] \in Nat /\ r.at \in Nat /\ now \in Nat
              /\ now <= r.at + 1 /\ r.at <= r.code[2] + TOTPSkew
          BY <2>1, <3>1 DEF Lawful, InTime, Shape, Types
        <4> QED BY <4>1, SMT DEF TOTPSkew
      <3> QED BY <2>1, <3>1, <3>2 DEF Remembered
    <2>3. ASSUME r.kind = "validate", r.set # None
          PROVE  r.set.with \cap spent = {} /\ r.set.with \subseteq codes
      <3>1. r.set.op = "mark"
        BY <2>1, <2>3 DEF Lawful, Recovers, Shape
      <3> QED BY <2>1, <2>3, <3>1 DEF Lawful, Recovers, Unspent
    <2> QED BY <2>2, <2>3
  <1>2. Inv /\ [Next]_vars => [FactorStep]_vars
    BY <1>1
  <1> QED BY <1>2, SpecInv, PTL DEF Spec, FactorOnce

-----------------------------------------------------------------------------
(* The cap on wrong codes *)

LEMMA WaitingIs ==
  /\ IsFiniteSet(Waiting) /\ Cardinality(Waiting) \in Nat /\ Cardinality(Requests) \in Nat
  /\ Cardinality(Waiting) <= Cardinality(Requests) /\ TOTPMaxAttempts \in Nat \ {0}
  /\ Waiting \subseteq Requests
  BY SecondFactorAssumption, FS_Subset, FS_CardinalityType DEF Waiting

\* A request moves on to n: those that may fail are the others and perhaps it.
LEMMA WaitingMoves ==
  ASSUME Inv, NEW p \in Requests, NEW n, req' = [req EXCEPT ![p] = n]
  PROVE  /\ Cardinality(Waiting') \in Nat /\ Cardinality(Waiting') <= Cardinality(Requests)
         /\ (Pending(n) => Pending(req[p])) => Cardinality(Waiting') <= Cardinality(Waiting)
         /\ ~Pending(n) /\ Pending(req[p]) => Cardinality(Waiting') = Cardinality(Waiting) - 1
  <1>1. \A q \in Requests : req'[q] = IF q = p THEN n ELSE req[q]
    BY DEF Inv, Types
  <1>2. Waiting' = IF Pending(n) THEN Waiting \cup {p} ELSE Waiting \ {p}
    BY <1>1, SMT DEF Waiting, Pending
  <1>3. Waiting' \subseteq Requests
    BY <1>2, WaitingIs
  <1>4. Cardinality(Waiting') \in Nat /\ Cardinality(Waiting') <= Cardinality(Requests)
    BY <1>3, SecondFactorAssumption, FS_Subset, FS_CardinalityType
  <1>5. ASSUME Pending(n) => Pending(req[p]) PROVE Cardinality(Waiting') <= Cardinality(Waiting)
    <2>1. Waiting' \subseteq Waiting
      BY <1>2, <1>5 DEF Waiting
    <2> QED BY <2>1, WaitingIs, FS_Subset
  <1>6. ASSUME ~Pending(n), Pending(req[p]) PROVE Cardinality(Waiting') = Cardinality(Waiting) - 1
    <2>1. Waiting' = Waiting \ {p} /\ p \in Waiting
      BY <1>2, <1>6 DEF Waiting
    <2> QED BY <2>1, WaitingIs, FS_RemoveElement
  <1> QED BY <1>4, <1>5, <1>6

\* A request goes on without a failure being counted.
LEMMA CountQuiet ==
  ASSUME Inv, Counted, NEW p \in Requests, NEW n, req' = [req EXCEPT ![p] = n],
         tried' = tried, fails' = fails \/ fails' = fails + 1, Pending(n) => Pending(req[p])
  PROVE  Counted'
  <1> DEFINE c == Cardinality(Waiting)
             d == Cardinality(Waiting')
             m == Cardinality(Requests)
  <1>1. /\ c \in Nat /\ m \in Nat /\ TOTPMaxAttempts \in Nat \ {0} /\ d \in Nat /\ d <= m
        /\ d <= c
    BY WaitingMoves, WaitingIs
  <1>2. tried \in Nat /\ fails \in Nat
    BY Counters
  <1> HIDE DEF c, d, m
  <1>3. tried' <= fails' /\ tried' + d <= TOTPMaxAttempts - 1 + m
    BY <1>1, <1>2, SMT DEF Counted, c, m
  <1> QED BY <1>3 DEF Counted, d, m

\* A wrong code is counted, once.
LEMMA CountFailure ==
  ASSUME Inv, Counted, NEW p \in Requests, NEW n, req' = [req EXCEPT ![p] = n],
         Failure, ~Pending(n), Pending(req[p])
  PROVE  Counted'
  <1> DEFINE c == Cardinality(Waiting)
             d == Cardinality(Waiting')
             m == Cardinality(Requests)
  <1>1. /\ c \in Nat /\ m \in Nat /\ TOTPMaxAttempts \in Nat \ {0} /\ d \in Nat /\ d <= m
        /\ d = c - 1
    BY WaitingMoves, WaitingIs
  <1>2. tried \in Nat /\ fails \in Nat
    BY Counters
  <1> HIDE DEF c, d, m
  <1>3. tried' <= fails' /\ tried' + d <= TOTPMaxAttempts - 1 + m
    BY <1>1, <1>2, SMT DEF Counted, Failure, c, m
  <1> QED BY <1>3 DEF Counted, d, m

\* The counter is cleared, or was below the cap.
LEMMA CountBelow ==
  ASSUME Inv, NEW p \in Requests, NEW n, req' = [req EXCEPT ![p] = n],
         tried' \in Nat, fails' \in Nat, tried' <= fails', fails' < TOTPMaxAttempts
  PROVE  Counted'
  <1> DEFINE c == Cardinality(Waiting)
             d == Cardinality(Waiting')
             m == Cardinality(Requests)
  <1>1. /\ c \in Nat /\ m \in Nat /\ TOTPMaxAttempts \in Nat \ {0} /\ d \in Nat /\ d <= m
    BY WaitingMoves, WaitingIs
  <1>2. tried \in Nat /\ fails \in Nat
    BY Counters
  <1> HIDE DEF c, d, m
  <1>3. tried' <= fails' /\ tried' + d <= TOTPMaxAttempts - 1 + m
    BY <1>1, <1>2, SMT DEF m
  <1> QED BY <1>3 DEF Counted, d, m

\* What the steps make of a request, as far as Pending goes.
LEMMA PendingAfter ==
  ASSUME Inv, NEW p \in Requests
  PROVE  /\ End(p) => req' = [req EXCEPT ![p] = NoRequest] /\ ~Pending(NoRequest)
         /\ \A pc : Go(p, pc) => \E n : req' = [req EXCEPT ![p] = n] /\ n.pc = pc /\ n.kind = req[p].kind
  <1>1. req[p] \in Shape
    BY DEF Inv, Lawful
  <1>2. ~Pending(NoRequest)
    BY NothingAsked DEF Pending
  <1>3. ASSUME NEW pc, Go(p, pc) PROVE \E n : req' = [req EXCEPT ![p] = n] /\ n.pc = pc /\ n.kind = req[p].kind
    <2> DEFINE n == [req[p] EXCEPT !.pc = pc]
    <2>1. req' = [req EXCEPT ![p] = n]
      BY <1>3 DEF Go
    <2>2. n.pc = pc /\ n.kind = req[p].kind
      BY <1>1 DEF Shape
    <2> HIDE DEF n
    <2> QED BY <2>1, <2>2
  <1> QED BY <1>2, <1>3 DEF End

\* guardBruteForce lets a request through only below the cap.
LEMMA CountGuard ==
  ASSUME Inv, Counted, NEW p \in Requests, guardBruteForce(p) PROVE Counted'
  <1>1. tried' = tried /\ tried \in Nat /\ fails \in Nat /\ tried <= fails
    BY Counters DEF guardBruteForce, ghosts, Counted
  <1>2. CASE End(p) /\ fails' = fails + 1
    BY <1>1, <1>2, PendingAfter, CountQuiet
  <1>3. ASSUME NEW pc, Go(p, pc), fails' = fails, ~(fails >= TOTPMaxAttempts) PROVE Counted'
    <2>1. PICK n : req' = [req EXCEPT ![p] = n]
      BY <1>3, PendingAfter
    <2>2. fails' < TOTPMaxAttempts
      BY <1>1, <1>3, SecondFactorAssumption, SMT
    <2> QED BY <1>1, <1>3, <2>1, <2>2, CountBelow
  <1> QED BY <1>2, <1>3 DEF guardBruteForce

\* Steps of a request that compare nothing.
LEMMA CountOthers ==
  ASSUME Inv, Counted, NEW p \in Requests,
         \/ \E kind \in Kinds : Begin(p, kind)
         \/ acquireRotationLock(p) \/ releaseRotationLock(p)
         \/ FindEnable(p) \/ FindVerifyEnable(p) \/ FindActive(p) \/ FindDisable(p)
         \/ \E w \in Periods : CompareTOTP(p, w)
         \/ \E c \in Batches : CompareRecovery(p, c)
         \/ Upsert(p) \/ Disable(p) \/ LoseTransaction(p) \/ Undo(p) \/ Commit(p) \/ Fail(p) \/ Crash(p)
  PROVE  Counted'
  <1> DEFINE r == req[p]
  <1>1. r \in Shape
    BY DEF Inv, Lawful
  <1>2. tried' = tried /\ (fails' = fails \/ fails' = fails + 1)
    BY DEF Begin, acquireRotationLock, releaseRotationLock, FindEnable, FindVerifyEnable, FindActive,
           FindDisable, CompareTOTP, CompareRecovery, Upsert, Disable, LoseTransaction,
           Undo, Commit, Fail, Crash, store, ghosts
  <1>3. CASE End(p)
    BY <1>2, <1>3, PendingAfter, CountQuiet
  <1>4. ASSUME NEW pc \in {"find", "release", "commit"}, Go(p, pc), pc = "find" => r.pc = "lock"
        PROVE  Counted'
    <2>1. PICK n : req' = [req EXCEPT ![p] = n] /\ n.pc = pc /\ n.kind = r.kind
      BY <1>4, PendingAfter
    <2>2. Pending(n) => Pending(r)
      BY <1>4, <2>1 DEF Pending
    <2> QED BY <1>2, <2>1, <2>2, CountQuiet
  <1>5. ASSUME NEW kind \in Kinds, Begin(p, kind) PROVE Counted'
    <2> DEFINE first == CASE kind = "enable"                    -> "lock"
                          [] kind \in {"regenerate", "disable"} -> "find"
                          [] OTHER                              -> "guard"
               n == [NoRequest EXCEPT !.kind = kind, !.pc = first]
    <2>1. /\ kind = "enable" => first = "lock"
          /\ kind \in {"regenerate", "disable"} => first = "find"
          /\ kind \notin {"enable", "regenerate", "disable"} => first = "guard"
      <3>1. CASE kind = "enable"
        BY <3>1
      <3>2. CASE kind \in {"regenerate", "disable"}
        BY <3>2
      <3>3. CASE kind \notin {"enable", "regenerate", "disable"}
        BY <3>3
      <3> QED BY <3>1, <3>2, <3>3
    <2>2. req' = [req EXCEPT ![p] = n]
      BY <1>5 DEF Begin
    <2> HIDE DEF first
    <2>3. n.kind = kind /\ n.pc = first
      BY DEF NoRequest
    <2> HIDE DEF n
    <2>4. ~Pending(n)
      BY <2>1, <2>3 DEF Pending
    <2> QED BY <1>2, <2>2, <2>4, CountQuiet
  <1>6. ASSUME NEW n, req' = [req EXCEPT ![p] = n], n.kind = r.kind,
               \/ n.pc \in {"upsert", "release", "codes", "undo", "guard"}
               \/ n.pc = "compare" /\ r.pc = "find" /\ r.kind \in {"validate", "viewRecoveryCodes", "verifyEnable"}
               \/ n.pc \in {"replay", "mark"} /\ r.pc = "compare"
        PROVE  Counted'
    <2>1. Pending(n) => Pending(r)
      BY <1>6 DEF Pending
    <2> QED BY <1>2, <1>6, <2>1, CountQuiet
  <1>7. CASE acquireRotationLock(p) \/ releaseRotationLock(p)
    BY <1>3, <1>4, <1>7 DEF acquireRotationLock, releaseRotationLock
  <1>8. CASE FindEnable(p)
    <2> DEFINE n == [r EXCEPT !.snap = device, !.pc = "upsert"]
    <2>1. CASE req' = [req EXCEPT ![p] = n]
      <3>1. n.kind = r.kind /\ n.pc = "upsert"
        BY <1>1 DEF Shape
      <3> QED BY <1>6, <2>1, <3>1
    <2> QED BY <1>4, <1>8, <2>1 DEF FindEnable
  <1>9. CASE FindVerifyEnable(p)
    <2> DEFINE n(pc) == [r EXCEPT !.snap = device, !.pc = pc]
    <2>1. ASSUME NEW pc \in {"release", "compare"}, req' = [req EXCEPT ![p] = n(pc)] PROVE Counted'
      <3>1. n(pc).kind = r.kind /\ n(pc).pc = pc
        BY <1>1 DEF Shape
      <3> QED BY <1>6, <1>9, <2>1, <3>1 DEF FindVerifyEnable
    <2> QED BY <1>4, <1>9, <2>1 DEF FindVerifyEnable
  <1>10. CASE FindActive(p)
    <2> DEFINE n(pc) == [r EXCEPT !.snap = device, !.seen = codes, !.pc = pc]
    <2>1. ASSUME NEW pc \in {"codes", "compare"}, pc = "compare" => r.kind # "regenerate",
                 req' = [req EXCEPT ![p] = n(pc)]
          PROVE  Counted'
      <3>1. n(pc).kind = r.kind /\ n(pc).pc = pc
        BY <1>1 DEF Shape
      <3> QED BY <1>6, <1>10, <2>1, <3>1 DEF FindActive
    <2> QED BY <1>3, <1>10, <2>1 DEF FindActive
  <1>11. CASE FindDisable(p)
    <2> DEFINE n(pc) == [r EXCEPT !.snap = device, !.seen = codes, !.pc = pc]
    <2>1. ASSUME NEW pc \in {"upsert", "guard"}, req' = [req EXCEPT ![p] = n(pc)] PROVE Counted'
      <3>1. n(pc).kind = r.kind /\ n(pc).pc = pc
        BY <1>1 DEF Shape
      <3> QED BY <1>6, <2>1, <3>1
    <2> QED BY <1>3, <1>11, <2>1 DEF FindDisable
  <1>12. ASSUME NEW w \in Periods, CompareTOTP(p, w) PROVE Counted'
    <2> DEFINE pc == IF r.kind = "verifyEnable" THEN "upsert" ELSE "replay"
               c == <<Target(p), w>>
               n == [r EXCEPT !.code = c, !.at = now, !.pc = pc]
    <2>1. r.pc = "compare" /\ req' = [req EXCEPT ![p] = n] /\ pc \in {"upsert", "replay"}
      BY <1>12 DEF CompareTOTP
    <2> HIDE DEF c, pc
    <2>2. n.kind = r.kind /\ n.pc = pc
      BY <1>1 DEF Shape
    <2> HIDE DEF n
    <2> QED BY <1>6, <2>1, <2>2
  <1>13. ASSUME NEW c \in Batches, CompareRecovery(p, c) PROVE Counted'
    <2> DEFINE n == [r EXCEPT !.seen = {c}, !.pc = "mark"]
    <2>1. r.pc = "compare" /\ req' = [req EXCEPT ![p] = n]
      BY <1>13 DEF CompareRecovery
    <2>2. n.kind = r.kind /\ n.pc = "mark"
      BY <1>1 DEF Shape
    <2> HIDE DEF n
    <2> QED BY <1>6, <2>1, <2>2
  <1>14. CASE Upsert(p) \/ Disable(p) \/ LoseTransaction(p) \/ Undo(p)
    <2> DEFINE n(d, pc) == [r EXCEPT !.upd = d, !.pc = pc]
    <2>1. ASSUME NEW d, NEW pc \in {"release", "codes", "undo"}, req' = [req EXCEPT ![p] = n(d, pc)] PROVE Counted'
      <3>1. n(d, pc).kind = r.kind /\ n(d, pc).pc = pc
        BY <1>1 DEF Shape
      <3> QED BY <1>6, <2>1, <3>1
    <2>2. CASE Disable(p)
      BY <2>1, <2>2 DEF Disable
    <2>3. CASE Upsert(p)
      <3> DEFINE d == IF r.kind = "enable" THEN Staged(r.snap, secret') ELSE Promoted(r.snap)
                 pc == IF r.kind = "enable" THEN "release" ELSE "codes"
      <3>1. Go(p, "release") \/ req' = [req EXCEPT ![p] = n(d, pc)]
        BY <2>3 DEF Upsert
      <3>2. pc \in {"release", "codes"}
        OBVIOUS
      <3> HIDE DEF d, pc
      <3> QED BY <1>4, <2>1, <3>1, <3>2
    <2>4. CASE LoseTransaction(p)
      BY <2>1, <2>4 DEF LoseTransaction
    <2>5. CASE Undo(p)
      BY <1>4, <2>5 DEF Undo
    <2> QED BY <1>14, <2>2, <2>3, <2>4, <2>5
  <1>15. CASE Commit(p) \/ Fail(p) \/ Crash(p)
    <2> DEFINE n == [NoRequest EXCEPT !.kind = r.kind, !.pc = "release"]
    <2>1. CASE req' = [req EXCEPT ![p] = n]
      <3>1. n.kind = r.kind /\ n.pc = "release"
        BY DEF NoRequest
      <3> QED BY <1>6, <2>1, <3>1
    <2> QED BY <1>3, <1>15, <2>1 DEF Commit, Fail, Crash
  <1> QED BY <1>5, <1>7, <1>8, <1>9, <1>10, <1>11, <1>12, <1>13, <1>14, <1>15

\* Steps that compare: one failure, or the counter cleared.
LEMMA CountCompares ==
  ASSUME Inv, Counted, NEW p \in Requests,
         CompareWrong(p) \/ replayGuard(p) \/ MarkRecoveryCodeUsed(p) \/ ReplaceRecoveryCodes(p)
  PROVE  Counted'
  <1> DEFINE r == req[p]
  <1>1. CASE Failure /\ Pending(r) /\ (End(p) \/ Go(p, "release"))
    <2>1. PICK n : req' = [req EXCEPT ![p] = n] /\ ~Pending(n)
      <3>1. CASE End(p)
        BY <3>1, PendingAfter
      <3>2. CASE Go(p, "release")
        <4>1. PICK n : req' = [req EXCEPT ![p] = n] /\ n.pc = "release"
          BY <3>2, PendingAfter, SMT
        <4> QED BY <4>1 DEF Pending
      <3> QED BY <1>1, <3>1, <3>2
    <2> QED BY <1>1, <2>1, CountFailure
  <1>2. ASSUME Success, NEW n, req' = [req EXCEPT ![p] = n] PROVE Counted'
    <2>1. tried' = 0 /\ fails' = 0
      BY <1>2 DEF Success
    <2>2. tried' \in Nat /\ fails' \in Nat /\ tried' <= fails' /\ fails' < TOTPMaxAttempts
      BY <2>1, SecondFactorAssumption, SMT
    <2> QED BY <1>2, <2>2, CountBelow
  <1>3. CASE CompareWrong(p)
    BY <1>1, <1>3 DEF CompareWrong, Return, Pending
  <1>4. CASE replayGuard(p)
    <2>1. CASE Success
      <3>1. PICK n : req' = [req EXCEPT ![p] = n]
        BY <1>4, PendingAfter DEF replayGuard
      <3> QED BY <1>2, <2>1, <3>1
    <2> QED BY <1>1, <1>4, <2>1 DEF replayGuard, Pending
  <1>5. CASE MarkRecoveryCodeUsed(p)
    <2> DEFINE n == [r EXCEPT !.set = [op |-> "mark", with |-> r.seen],
                       !.pc = IF r.kind = "disable" THEN "upsert" ELSE "commit"]
    <2>1. (Success /\ req' = [req EXCEPT ![p] = n]) \/ (Failure /\ End(p))
      BY <1>5 DEF MarkRecoveryCodeUsed
    <2> HIDE DEF n
    <2>2. Pending(r)
      BY <1>5 DEF MarkRecoveryCodeUsed, Pending
    <2> QED BY <1>1, <1>2, <2>1, <2>2
  <1>6. CASE ReplaceRecoveryCodes(p)
    <2> DEFINE n == [r EXCEPT !.set = [op |-> "replace", with |-> IF r.kind = "disable" THEN {} ELSE {batch'}],
                       !.pc = IF Rotates(p) THEN "release" ELSE "commit"]
    <2>1. Success /\ req' = [req EXCEPT ![p] = n]
      BY <1>6 DEF ReplaceRecoveryCodes
    <2> HIDE DEF n
    <2> QED BY <1>2, <2>1
  <1> QED BY <1>3, <1>4, <1>5, <1>6

LEMMA CountStays ==
  ASSUME Inv, Counted, req' = req, \/ UNCHANGED <<fails, tried>>
                                   \/ fails' = 0 /\ tried' = 0
  PROVE  Counted'
  <1>1. Waiting' = Waiting
    BY DEF Waiting, Pending
  <1> DEFINE c == Cardinality(Waiting)
             m == Cardinality(Requests)
  <1>2. c \in Nat /\ m \in Nat /\ c <= m /\ TOTPMaxAttempts \in Nat \ {0} /\ Cardinality(Waiting') = c
    BY <1>1, WaitingIs
  <1> HIDE DEF c, m
  <1>3. tried' <= fails' /\ tried' + c <= TOTPMaxAttempts - 1 + m
    BY <1>2, Counters, SMT DEF Counted, c, m
  <1> QED BY <1>2, <1>3 DEF Counted, m

LEMMA SpecCounted == Spec => [](Inv /\ Counted)
  <1>1. Init => Counted
    <2> SUFFICES ASSUME Init PROVE Counted
      OBVIOUS
    <2>1. tried = 0 /\ fails = 0
      BY DEF Init
    <2> DEFINE c == Cardinality(Waiting)
               m == Cardinality(Requests)
    <2>2. c \in Nat /\ m \in Nat /\ c <= m /\ TOTPMaxAttempts \in Nat \ {0}
      BY WaitingIs
    <2> HIDE DEF c, m
    <2>3. tried + c <= TOTPMaxAttempts - 1 + m
      BY <2>1, <2>2, SMT
    <2> QED BY <2>1, <2>3, SMT DEF Counted, c, m
  <1>2. Inv /\ Counted /\ [Next]_vars => Counted'
    <2> SUFFICES ASSUME Inv, Counted, [Next]_vars PROVE Counted'
      OBVIOUS
    <2>1. ASSUME NEW p \in Requests, Step(p) PROVE Counted'
      BY <2>1, CountGuard, CountOthers, CountCompares DEF Step
    <2>2. CASE LockExpires \/ WindowOver \/ Tick \/ UNCHANGED vars
      BY <2>2, CountStays DEF LockExpires, WindowOver, Tick, vars, store, ghosts
    <2>3. ASSUME NEW e \in replay, ReplayExpires(e) PROVE Counted'
      BY <2>3, CountStays DEF ReplayExpires, ghosts
    <2> QED BY <2>1, <2>2, <2>3 DEF Next
  <1> QED BY <1>1, <1>2, InitInv, NextInv, PTL DEF Spec

\* guardBruteForce reads the counter before a code is compared and recordFailure
\* counts it after: however many requests are in flight, the wrong codes compared
\* in one window stay below the cap plus their number.
THEOREM WrongCodesBounded == Spec => []TriesBound
  <1>1. Counted /\ Inv => TriesBound
    <2> SUFFICES ASSUME Counted, Inv PROVE TriesBound
      OBVIOUS
    <2> DEFINE c == Cardinality(Waiting)
               m == Cardinality(Requests)
    <2>1. c \in Nat /\ m \in Nat /\ TOTPMaxAttempts \in Nat \ {0} /\ tried \in Nat
      BY WaitingIs, Counters
    <2>2. tried + c <= TOTPMaxAttempts - 1 + m
      BY DEF Counted
    <2> HIDE DEF c, m
    <2>3. tried <= TOTPMaxAttempts - 1 + m
      BY <2>1, <2>2, SMT
    <2> QED BY <2>3 DEF TriesBound, m
  <1> QED BY <1>1, SpecCounted, PTL
=============================================================================
