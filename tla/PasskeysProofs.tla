--------------------------- MODULE PasskeysProofs ---------------------------
(***************************************************************************)
(* Proofs about Passkeys, for every number of credentials, authenticators, *)
(* requests and challenges.                                                *)
(*                                                                         *)
(* A challenge number is in one place: staged, with one request that has   *)
(* taken it, or done.  A row is written by one request at a time, so what  *)
(* a request has read of it holds until it commits, and a login that       *)
(* overlaps no other one has read the count it overwrites.                 *)
(***************************************************************************)
EXTENDS Passkeys, TLAPS

\* A leaf is for Zenon unless it names another prover: SMT, where there is
\* arithmetic or Zenon does not find the proof.
USE Zenon

-----------------------------------------------------------------------------
(* The inductive invariant *)

Ks == {"register", "login"}

Shape == [kind : {None, "register", "login", "revoke", "erase"},
          pc : {"idle", "take", "find", "write", "commit"},
          answer : {None} \cup Answer, cred : {None} \cup Creds, seen : {None} \cup Row,
          gone : SUBSET Creds, warning : BOOLEAN, wrote : BOOLEAN]

\* The ceremonies that have taken a challenge, and the logins that have been verified.
Busy(r) == r.kind \in Ks /\ r.pc \in {"find", "write", "commit"}
Verified(r) == r.kind = "login" /\ r.pc \in {"write", "commit"}

\* The request has written credential c.
Touches(r, c) == r.wrote /\ (r.cred = c \/ r.kind = "erase")

\* Credentials whose counts say something.
Counted == Creds \ (uncounted \cup lost \cup overlapped)

Revoked(c) == row[c] # None /\ row[c].revoked

\* The answer is one that was signed, and its challenge is of this request alone.
Answers(r) ==
  /\ r.pc \in {"take", "find"} => r.kind \in Ks
  /\ r.kind \in Ks /\ r.pc # "idle" => r.answer \in answers /\ r.cred = r.answer.cred /\ r.cred \in Creds
  /\ Busy(r) =>
       /\ r.answer.challenge <= issued /\ done[r.answer.challenge] = 0
       /\ \A k \in Ks : staged[k] # None => staged[k].challenge # r.answer.challenge

\* What had been revoked at the start still is when the rows are read.
Refuses(r) ==
  /\ r.pc \in {"take", "find"} => \A c \in r.gone : ~active \/ Revoked(c)
  /\ Verified(r) => r.cred \notin r.gone /\ row[r.cred] # None

\* What is written, and under which lock.
Writes(r) ==
  /\ r.wrote => r.pc = "commit"
  /\ r.wrote /\ r.kind = "register" => row[r.cred] = None
  /\ r.kind = "revoke" /\ r.pc \in {"write", "commit"} => r.cred \in Creds /\ row[r.cred] # None
  /\ r.warning => Verified(r)
  /\ Verified(r) /\ r.pc = "commit" /\ ~r.wrote => r.cred \in lost
  /\ Verified(r) /\ ~r.warning /\ r.cred \in Counted => r.answer.count > row[r.cred].count

Lawful(r) == r \in Shape /\ Answers(r) /\ Refuses(r) /\ Writes(r)

Apart(r, o) ==
  /\ Busy(r) /\ Busy(o) => r.answer.challenge # o.answer.challenge
  /\ \A c \in Creds : ~(Touches(r, c) /\ Touches(o, c))
  /\ Verified(r) /\ Verified(o) /\ r.cred = o.cred => r.cred \in overlapped

Types ==
  /\ row \in [Creds -> Row \cup {None}] /\ active \in BOOLEAN
  /\ staged \in [Ks -> [challenge : Challenges, allowed : SUBSET Creds] \cup {None}]
  /\ issued \in Nat /\ answers \in SUBSET Answer /\ req \in [Requests -> Shape]
  /\ device \in [Creds -> [Copies -> Counts \cup {None}]]
  /\ done \in [Challenges -> Nat] /\ accepted \in [Creds -> [Counts -> Nat]]
  /\ flagged \in SUBSET Creds

\* A challenge is staged for one ceremony, and before it is done.
Staged ==
  /\ \A k \in Ks : staged[k] # None => staged[k].challenge <= issued /\ done[staged[k].challenge] = 0
  /\ staged["register"] # None /\ staged["login"] # None =>
       staged["register"].challenge # staged["login"].challenge
  /\ \A n \in Challenges : done[n] <= 1 /\ (done[n] > 0 => n <= issued)

\* A count that completed a login is not above the row's.
Kept ==
  /\ \A a \in answers : a.cred \in uncounted \/ a.count > 0
  /\ \A c \in Counted, n \in Counts :
       accepted[c][n] <= 1 /\ (accepted[c][n] > 0 => row[c] # None /\ n <= row[c].count)
  /\ \A c \in flagged \ lost : Revoked(c)

Inv ==
  /\ Types /\ Staged /\ Kept
  /\ \A p \in Requests : Lawful(req[p])
  /\ \A p, q \in Requests : p # q => Apart(req[p], req[q])

-----------------------------------------------------------------------------
(* Steps that write no row *)

LEMMA NothingAsked ==
  /\ NoRequest \in Shape /\ NoRequest.pc = "idle" /\ NoRequest.wrote = FALSE
  /\ NoRequest.warning = FALSE /\ ~Busy(NoRequest) /\ ~Verified(NoRequest) /\ Lawful(NoRequest)
  /\ \A o : Apart(NoRequest, o) /\ Apart(o, NoRequest)
  <1>1. /\ NoRequest \in Shape /\ NoRequest.pc = "idle" /\ NoRequest.wrote = FALSE
        /\ NoRequest.warning = FALSE
    BY DEF NoRequest, Shape
  <1>2. ~Busy(NoRequest) /\ ~Verified(NoRequest)
    BY <1>1 DEF Busy, Verified
  <1>3. Answers(NoRequest) /\ Refuses(NoRequest) /\ Writes(NoRequest)
    BY <1>1, <1>2 DEF Answers, Refuses, Writes
  <1> QED BY <1>1, <1>2, <1>3 DEF Lawful, Apart, Touches

\* What the rows, the store and the other ceremonies may do to a request that
\* does not move.
Calm ==
  /\ UNCHANGED <<row, active, done, accepted, flagged, uncounted>>
  /\ answers \subseteq answers' /\ issued <= issued' /\ issued' \in Nat
  /\ lost \subseteq lost' /\ overlapped \subseteq overlapped'
  /\ \A k \in Ks : staged'[k] # None => staged'[k] = staged[k] \/ staged'[k].challenge > issued

LEMMA OtherKeeps ==
  ASSUME Inv, Calm, NEW q \in Requests, req'[q] = req[q]
  PROVE  Lawful(req[q])'
  <1> DEFINE o == req[q]
  <1>1. Lawful(o) /\ o \in Shape /\ issued \in Nat
    BY DEF Inv, Lawful, Types
  <1>2. o' = o
    OBVIOUS
  <1> HIDE DEF o
  <1>3. Busy(o) => o.answer.challenge \in Nat
    <2>1. Challenges \subseteq Nat /\ answers \subseteq Answer
      BY PasskeysAssumption, SMT DEF Challenges, Inv, Types
    <2> QED BY <1>1, <2>1 DEF Lawful, Answers, Busy, Answer
  <1>4. Answers(o)'
    BY <1>1, <1>2, <1>3, SMT DEF Lawful, Answers, Calm, Busy
  <1>5. Refuses(o)' /\ Writes(o)'
    BY <1>1, <1>2 DEF Lawful, Refuses, Writes, Calm, Verified, Revoked, Counted
  <1> QED BY <1>1, <1>2, <1>4, <1>5 DEF Lawful, o

\* What the tables and the store must satisfy after a step that writes no row.
LEMMA CalmKeeps ==
  ASSUME Inv, Calm,
         staged' \in [Ks -> [challenge : Challenges, allowed : SUBSET Creds] \cup {None}],
         answers' \in SUBSET Answer, req' \in [Requests -> Shape],
         device' \in [Creds -> [Copies -> Counts \cup {None}]],
         \A k \in Ks : staged'[k] # None => staged'[k].challenge <= issued',
         staged'["register"] # None /\ staged'["login"] # None =>
           staged'["register"].challenge # staged'["login"].challenge,
         \A a \in answers' : a.cred \in uncounted \/ a.count > 0,
         \A p \in Requests : Lawful(req[p])',
         \A p, q \in Requests : p # q => Apart(req[p], req[q])'
  PROVE  Inv'
  <1>1. Types /\ Staged /\ Kept /\ issued \in Nat
    BY DEF Inv, Types
  <1>2. Types'
    BY <1>1 DEF Types, Calm
  <1>3. Challenges \subseteq Nat
    BY PasskeysAssumption, SMT DEF Challenges
  <1>4. Staged'
    <2>1. ASSUME NEW k \in Ks, staged'[k] # None PROVE done'[staged'[k].challenge] = 0
      <3>1. CASE staged'[k] = staged[k]
        BY <1>1, <2>1, <3>1 DEF Staged, Calm
      <3>2. CASE staged'[k].challenge > issued
        <4>1. staged'[k].challenge \in Challenges /\ staged'[k].challenge \in Nat
          BY <1>3, <2>1
        <4>2. ~(done[staged'[k].challenge] > 0) /\ done[staged'[k].challenge] \in Nat
          BY <1>1, <3>2, <4>1, SMT DEF Staged, Types
        <4> QED BY <4>2, SMT DEF Calm
      <3> QED BY <2>1, <3>1, <3>2 DEF Calm
    <2>2. \A n \in Challenges : done'[n] <= 1 /\ (done'[n] > 0 => n <= issued')
      BY <1>1, <1>3, SMT DEF Staged, Calm
    <2> QED BY <2>1, <2>2 DEF Staged
  <1>5. Kept'
    BY <1>1 DEF Kept, Calm, Counted, Revoked
  <1> QED BY <1>2, <1>4, <1>5 DEF Inv

\* The store and the authenticators move, the requests do not.
LEMMA OutsideKeeps ==
  ASSUME Inv, Calm, req' = req,
         staged' \in [Ks -> [challenge : Challenges, allowed : SUBSET Creds] \cup {None}],
         answers' \in SUBSET Answer,
         device' \in [Creds -> [Copies -> Counts \cup {None}]],
         \A k \in Ks : staged'[k] # None => staged'[k].challenge <= issued',
         staged'["register"] # None /\ staged'["login"] # None =>
           staged'["register"].challenge # staged'["login"].challenge,
         \A a \in answers' : a.cred \in uncounted \/ a.count > 0
  PROVE  Inv'
  <1>1. \A p \in Requests : Lawful(req[p])'
    BY OtherKeeps
  <1>2. ASSUME NEW p \in Requests, NEW q \in Requests, p # q PROVE Apart(req[p], req[q])'
    <2>1. Apart(req[p], req[q]) /\ overlapped \subseteq overlapped'
      BY <1>2 DEF Inv, Calm
    <2> QED BY <2>1 DEF Apart, Busy, Verified, Touches
  <1>3. req' \in [Requests -> Shape]
    BY DEF Inv, Types
  <1> QED BY <1>1, <1>2, <1>3, CalmKeeps

\* One request moves on to n, and the store does not gain a challenge.
LEMMA Moves ==
  ASSUME Inv, Calm, NEW p \in Requests, NEW n, req' = [req EXCEPT ![p] = n],
         UNCHANGED <<issued, device, answers>>,
         staged' = staged \/ \E k \in Ks : staged' = [staged EXCEPT ![k] = None],
         n \in Shape, Lawful(req[p])',
         \A q \in Requests \ {p} :
           /\ Busy(n) /\ Busy(req[q]) => n.answer.challenge # req[q].answer.challenge
           /\ \A c \in Creds : ~(Touches(n, c) /\ Touches(req[q], c))
           /\ Verified(n) /\ Verified(req[q]) /\ n.cred = req[q].cred => n.cred \in overlapped'
  PROVE  Inv'
  <1>1. req' \in [Requests -> Shape] /\ \A q \in Requests : req'[q] = IF q = p THEN n ELSE req[q]
    BY DEF Inv, Types
  <1>2. \A q \in Requests : Lawful(req[q])'
    BY <1>1, OtherKeeps
  <1>3. ASSUME NEW a \in Requests, NEW b \in Requests, a # b PROVE Apart(req[a], req[b])'
    <2> DEFINE x == req'[a]
               y == req'[b]
    <2>1. /\ Busy(x) /\ Busy(y) => x.answer.challenge # y.answer.challenge
          /\ \A c \in Creds : ~(Touches(x, c) /\ Touches(y, c))
          /\ Verified(x) /\ Verified(y) /\ x.cred = y.cred => x.cred \in overlapped'
      <3>1. CASE a = p
        BY <1>1, <1>3, <3>1
      <3>2. CASE b = p
        BY <1>1, <1>3, <3>2
      <3>3. CASE a # p /\ b # p
        <4>1. x = req[a] /\ y = req[b] /\ Apart(req[a], req[b]) /\ overlapped \subseteq overlapped'
          BY <1>1, <1>3, <3>3 DEF Inv, Calm
        <4> HIDE DEF x, y
        <4> QED BY <4>1 DEF Apart
      <3> QED BY <3>1, <3>2, <3>3
    <2> QED BY <2>1 DEF Apart, Busy, Verified, Touches
  <1>4. Types /\ Staged /\ Kept
    BY DEF Inv
  <1>5. /\ staged' \in [Ks -> [challenge : Challenges, allowed : SUBSET Creds] \cup {None}]
        /\ \A k \in Ks : staged'[k] # None => staged'[k] = staged[k]
    BY <1>4 DEF Types
  <1>6. /\ \A k \in Ks : staged'[k] # None => staged'[k].challenge <= issued'
        /\ staged'["register"] # None /\ staged'["login"] # None =>
             staged'["register"].challenge # staged'["login"].challenge
    BY <1>4, <1>5 DEF Staged, Ks
  <1>7. /\ answers' \in SUBSET Answer /\ device' \in [Creds -> [Copies -> Counts \cup {None}]]
        /\ \A a \in answers' : a.cred \in uncounted \/ a.count > 0
    BY <1>4 DEF Types, Kept
  <1> QED BY <1>1, <1>2, <1>3, <1>5, <1>6, <1>7, CalmKeeps

LEMMA Ends ==
  ASSUME Inv, Calm, NEW p \in Requests, End(p), UNCHANGED <<issued, device, answers>>,
         staged' = staged \/ \E k \in Ks : staged' = [staged EXCEPT ![k] = None]
  PROVE  Inv'
  <1> DEFINE n == NoRequest
  <1>1. /\ n \in Shape /\ n.pc = "idle" /\ n.wrote = FALSE /\ n.warning = FALSE
        /\ ~Busy(n) /\ ~Verified(n)
    BY NothingAsked
  <1>2. req' = [req EXCEPT ![p] = n]
    BY DEF End
  <1> HIDE DEF n
  <1>3. req'[p] = n
    BY <1>2 DEF Inv, Types
  <1>4. Lawful(req[p])'
    BY <1>1, <1>3 DEF Lawful, Answers, Refuses, Writes, Busy, Verified
  <1>5. \A c \in Creds : ~Touches(n, c)
    BY <1>1 DEF Touches
  <1> QED BY <1>1, <1>2, <1>4, <1>5, Moves

\* A step that touches nothing but the requests.
Still == UNCHANGED <<row, active, ceremony, ghosts, uncounted>>

LEMMA StillCalm ==
  ASSUME Inv, Still
  PROVE  Calm /\ UNCHANGED <<issued, device, answers, staged>>
  BY SMT DEF Inv, Types, Still, ceremony, ghosts, Calm

LEMMA GoneIsRevoked == \A c \in Gone : c \in Creds /\ (~active \/ Revoked(c))
  BY DEF Gone, Revoked, Exists

LEMMA ArriveKeeps ==
  ASSUME Inv, NEW p \in Requests,
         FinishRegistration(p) \/ FinishAuthentication(p) \/ Revoke(p) \/ EraseAccount(p)
  PROVE  Inv'
  <1>1. CASE FinishRegistration(p) \/ FinishAuthentication(p)
    <2>1. PICK a \in answers, k \in Ks :
            Arrive(p, [NoRequest EXCEPT !.kind = k, !.pc = "take", !.answer = a,
                                        !.cred = a.cred, !.gone = Gone])
      BY <1>1 DEF FinishRegistration, FinishAuthentication, Ks
    <2> DEFINE n == [NoRequest EXCEPT !.kind = k, !.pc = "take", !.answer = a,
                                      !.cred = a.cred, !.gone = Gone]
    <2>2. a \in Answer /\ a.cred \in Creds
      BY DEF Inv, Types, Answer
    <2>3. Gone \in SUBSET Creds
      BY DEF Gone
    <2>4. /\ n \in Shape /\ n.kind = k /\ n.pc = "take" /\ n.answer = a /\ n.cred = a.cred
          /\ n.gone = Gone /\ n.wrote = FALSE /\ n.warning = FALSE
      BY <2>2, <2>3 DEF NoRequest, Shape, Ks
    <2>5. req' = [req EXCEPT ![p] = n] /\ Still
      BY <2>1 DEF Arrive, Still
    <2> HIDE DEF n
    <2>6. req'[p] = n
      BY <2>5 DEF Inv, Types
    <2>7. Calm /\ UNCHANGED <<issued, device, answers, staged>> /\ UNCHANGED <<row, active>>
      BY <2>5, StillCalm DEF Calm
    <2>8. ~Busy(n) /\ ~Verified(n) /\ \A c \in Creds : ~Touches(n, c)
      BY <2>4 DEF Busy, Verified, Touches
    <2>9. Answers(req[p])' /\ Refuses(req[p])' /\ Writes(req[p])'
      <3>1. Answers(req[p])'
        BY <2>2, <2>4, <2>6, <2>7 DEF Answers, Busy
      <3>2. Refuses(req[p])'
        BY <2>4, <2>6, <2>7, GoneIsRevoked DEF Refuses, Verified, Revoked
      <3>3. Writes(req[p])'
        BY <2>4, <2>6, <2>7 DEF Writes, Verified
      <3> QED BY <3>1, <3>2, <3>3
    <2>10. Lawful(req[p])'
      BY <2>4, <2>6, <2>9 DEF Lawful
    <2> QED BY <2>4, <2>5, <2>7, <2>8, <2>10, Moves
  <1>2. CASE Revoke(p) \/ EraseAccount(p)
    <2>1. PICK n \in Shape :
            /\ Arrive(p, n) /\ n.kind \in {"revoke", "erase"} /\ n.pc = "write"
            /\ n.wrote = FALSE /\ n.warning = FALSE
            /\ n.kind = "revoke" => n.cred \in Creds /\ row[n.cred] # None
      <3>1. CASE Revoke(p)
        <4>1. PICK c \in Creds :
                /\ Arrive(p, [NoRequest EXCEPT !.kind = "revoke", !.pc = "write", !.cred = c])
                /\ row[c] # None
          BY <3>1 DEF Revoke, ListByUser, Exists
        <4> DEFINE x == [NoRequest EXCEPT !.kind = "revoke", !.pc = "write", !.cred = c]
        <4>2. /\ x \in Shape /\ x.kind = "revoke" /\ x.pc = "write" /\ x.cred = c
              /\ x.wrote = FALSE /\ x.warning = FALSE
          BY DEF NoRequest, Shape
        <4>3. Arrive(p, x)
          BY <4>1
        <4> HIDE DEF x
        <4> QED BY <4>1, <4>2, <4>3
      <3>2. CASE EraseAccount(p)
        <4> DEFINE x == [NoRequest EXCEPT !.kind = "erase", !.pc = "write"]
        <4>2. /\ x \in Shape /\ x.kind = "erase" /\ x.pc = "write"
              /\ x.wrote = FALSE /\ x.warning = FALSE
          BY DEF NoRequest, Shape
        <4>3. Arrive(p, x)
          BY <3>2 DEF EraseAccount
        <4> HIDE DEF x
        <4> QED BY <4>2, <4>3
      <3> QED BY <1>2, <3>1, <3>2
    <2>5. req' = [req EXCEPT ![p] = n] /\ Still
      BY <2>1 DEF Arrive, Still
    <2>6. req'[p] = n
      BY <2>5 DEF Inv, Types
    <2>7. Calm /\ UNCHANGED <<issued, device, answers, staged>> /\ UNCHANGED <<row, active>>
      BY <2>5, StillCalm DEF Calm
    <2>8. ~Busy(n) /\ ~Verified(n) /\ \A d \in Creds : ~Touches(n, d)
      BY <2>1 DEF Busy, Verified, Touches, Ks
    <2>9. Answers(req[p])' /\ Refuses(req[p])' /\ Writes(req[p])'
      BY <2>1, <2>6, <2>7 DEF Answers, Busy, Refuses, Verified, Writes, Ks
    <2>10. Lawful(req[p])'
      BY <2>1, <2>6, <2>9 DEF Lawful
    <2> QED BY <2>1, <2>5, <2>7, <2>8, <2>10, Moves
  <1> QED BY <1>1, <1>2

\* A challenge passes from the store to one request.
LEMMA TakeKeeps ==
  ASSUME Inv, NEW p \in Requests, Take(p)
  PROVE  Inv'
  <1> DEFINE r == req[p]
  <1>1. Lawful(r) /\ r \in Shape /\ r.pc = "take" /\ Types /\ Staged
    BY DEF Inv, Lawful, Take
  <1> DEFINE k == r.kind
  <1>2. k \in Ks /\ r.answer \in answers /\ r.answer \in Answer /\ r.cred = r.answer.cred
        /\ r.cred \in Creds
    BY <1>1 DEF Lawful, Answers, Types
  <1>3. /\ staged' = [staged EXCEPT ![k] = None]
        /\ UNCHANGED <<row, active, issued, device, answers, ghosts, bounds>>
    BY DEF Take, takeJSON
  <1>4. Calm /\ UNCHANGED <<issued, device, answers, row, active, done>>
    BY <1>1, <1>3, SMT DEF Calm, Types, ghosts, bounds
  <1>5. CASE End(p)
    BY <1>2, <1>3, <1>4, <1>5, Ends
  <1>6. CASE Go(p, "find") /\ staged[k] # None /\ staged[k].challenge = r.answer.challenge
    <2> DEFINE n == [r EXCEPT !.pc = "find"]
    <2>1. req' = [req EXCEPT ![p] = n]
      BY <1>6 DEF Go
    <2>2. /\ n \in Shape /\ n.pc = "find" /\ n.kind = k /\ n.answer = r.answer /\ n.cred = r.cred
          /\ n.gone = r.gone /\ n.wrote = r.wrote /\ n.warning = r.warning
      BY <1>1 DEF Shape
    <2>3. r.wrote = FALSE /\ r.warning = FALSE
      <3>1. ~r.wrote /\ ~r.warning
        BY <1>1 DEF Lawful, Writes, Verified
      <3>2. r.wrote \in BOOLEAN /\ r.warning \in BOOLEAN
        BY <1>1 DEF Shape
      <3> QED BY <3>1, <3>2
    <2> HIDE DEF n
    <2>4. req'[p] = n
      BY <2>1 DEF Inv, Types
    <2>5. ~Verified(n) /\ (\A c \in Creds : ~Touches(n, c)) /\ Busy(n)
      BY <1>2, <2>2, <2>3 DEF Verified, Touches, Busy
    <2>6. /\ r.answer.challenge <= issued /\ done[r.answer.challenge] = 0
          /\ \A j \in Ks : staged'[j] # None => staged'[j].challenge # r.answer.challenge
      BY <1>1, <1>2, <1>3, <1>6 DEF Staged, Types, Ks
    <2>7. Answers(req[p])'
      BY <1>2, <1>4, <2>2, <2>4, <2>6 DEF Answers
    <2>8. Refuses(req[p])' /\ Writes(req[p])'
      BY <1>1, <1>2, <1>4, <2>2, <2>3, <2>4 DEF Lawful, Refuses, Writes, Verified, Revoked, Ks
    <2>9. Lawful(req[p])'
      BY <2>2, <2>4, <2>7, <2>8 DEF Lawful
    <2>10. ASSUME NEW q \in Requests \ {p}, Busy(req[q])
           PROVE  n.answer.challenge # req[q].answer.challenge
      <3>1. Lawful(req[q])
        BY DEF Inv
      <3> QED BY <1>2, <1>6, <2>2, <2>10, <3>1 DEF Lawful, Answers
    <2> QED BY <1>2, <1>3, <1>4, <2>1, <2>2, <2>5, <2>9, <2>10, Moves
  <1> QED BY <1>5, <1>6 DEF Take

\* A login is checked against one snapshot: the credential was not revoked, and
\* without a clone warning a counting authenticator is ahead of the row.
LEMMA FindLoginKeeps ==
  ASSUME Inv, NEW p \in Requests, FindLogin(p)
  PROVE  Inv'
  <1> DEFINE r == req[p]
             c == r.cred
  <1>1. Lawful(r) /\ r \in Shape /\ r.pc = "find" /\ r.kind = "login" /\ Types /\ Kept
    BY DEF Inv, Lawful, FindLogin
  <1>2. /\ Busy(r) /\ r.answer \in answers /\ r.answer \in Answer /\ c = r.answer.cred /\ c \in Creds
        /\ r.wrote = FALSE
    <2>1. ~r.wrote /\ r.wrote \in BOOLEAN
      BY <1>1 DEF Lawful, Writes, Shape
    <2> QED BY <1>1, <2>1 DEF Lawful, Answers, Types, Busy, Ks
  <1>3. /\ UNCHANGED <<row, active, ceremony, done, accepted, flagged, lost, bounds>>
        /\ overlapped \subseteq overlapped'
        /\ \A q \in Requests \ {p} : Verified(req[q]) /\ req[q].cred = c => c \in overlapped'
    BY DEF FindLogin, Verified
  <1>4. Calm /\ UNCHANGED <<issued, device, answers, staged, row, active, done, uncounted, lost>>
    BY <1>1, <1>3, SMT DEF Calm, Types, ceremony, bounds
  <1>5. CASE End(p)
    BY <1>4, <1>5, Ends
  <1>6. CASE ~End(p)
    <2> DEFINE w == CloneWarning(row[c].count, r.answer.count)
               s == row[c]
               n == [r EXCEPT !.seen = s, !.pc = "write", !.warning = w]
    <2>1. active /\ c \in ListByUser /\ req' = [req EXCEPT ![p] = n]
      BY <1>6 DEF FindLogin
    <2>2. s \in Row /\ s # None /\ ~s.revoked /\ w \in BOOLEAN
      BY <1>1, <2>1 DEF Types, ListByUser, Exists, CloneWarning
    <2>3. ~w /\ c \notin uncounted => r.answer.count > s.count
      <3>1. r.answer.count \in Nat /\ s.count \in Nat
        BY <1>2, <2>2, PasskeysAssumption, SMT DEF Answer, Row, Counts
      <3>2. c \notin uncounted => r.answer.count > 0
        BY <1>1, <1>2 DEF Kept
      <3> QED BY <3>1, <3>2, SMT DEF CloneWarning
    <2> HIDE DEF w, s
    <2>4. /\ n \in Shape /\ n.pc = "write" /\ n.kind = "login" /\ n.answer = r.answer /\ n.cred = c
          /\ n.gone = r.gone /\ n.wrote = FALSE /\ n.warning = w
      BY <1>1, <1>2, <2>2 DEF Shape
    <2> HIDE DEF n
    <2>5. req'[p] = n
      BY <2>1 DEF Inv, Types
    <2>6. Busy(n) /\ Verified(n) /\ \A d \in Creds : ~Touches(n, d)
      BY <2>4 DEF Busy, Verified, Touches, Ks
    <2>7. Answers(req[p])'
      BY <1>1, <1>2, <1>4, <2>4, <2>5 DEF Lawful, Answers, Busy
    <2>8. c \notin r.gone
      BY <1>1, <2>1, <2>2 DEF Lawful, Refuses, Revoked, s
    <2>9. Refuses(req[p])'
      BY <1>4, <2>2, <2>4, <2>5, <2>8 DEF Refuses, Verified, s
    <2>10. Writes(req[p])'
      BY <1>4, <2>2, <2>3, <2>4, <2>5 DEF Writes, Verified, Counted, s
    <2>11. Lawful(req[p])'
      BY <2>4, <2>5, <2>7, <2>9, <2>10 DEF Lawful
    <2>12. ASSUME NEW q \in Requests \ {p}
           PROVE  /\ Busy(n) /\ Busy(req[q]) => n.answer.challenge # req[q].answer.challenge
                  /\ \A d \in Creds : ~(Touches(n, d) /\ Touches(req[q], d))
                  /\ Verified(n) /\ Verified(req[q]) /\ n.cred = req[q].cred => n.cred \in overlapped'
      <3>1. Apart(r, req[q])
        BY DEF Inv
      <3> QED BY <1>2, <1>3, <2>4, <2>6, <3>1 DEF Apart
    <2> QED BY <1>4, <2>1, <2>4, <2>11, <2>12, Moves
  <1> QED BY <1>5, <1>6

\* A request that goes on, and has written nothing before.
LEMMA GoesOn ==
  ASSUME Inv, Calm, NEW p \in Requests, NEW n \in Shape, req' = [req EXCEPT ![p] = n],
         n.pc \in {"write", "commit"}, n.kind = req[p].kind, n.answer = req[p].answer,
         n.cred = req[p].cred, n.gone = req[p].gone, n.warning = req[p].warning,
         UNCHANGED <<issued, device, answers, staged, row, active, done>>,
         \/ req[p].pc = "find" /\ n.pc = "write" /\ n.kind = "register"
         \/ req[p].pc = "write" /\ n.pc = "commit",
         n.wrote => n.pc = "commit" /\ (n.kind = "register" => row[n.cred] = None),
         n.wrote => \A c \in Creds : n.cred = c \/ n.kind = "erase" => ~Waits(p, c),
         ~n.wrote /\ n.pc = "commit" /\ n.kind = "login" => n.cred \in lost'
  PROVE  Inv'
  <1> DEFINE r == req[p]
  <1>1. Lawful(r) /\ r \in Shape /\ r.pc \in {"find", "write"} /\ Types
    BY DEF Inv, Lawful
  <1>2. n.kind = r.kind /\ n.answer = r.answer /\ n.cred = r.cred /\ n.gone = r.gone /\ n.warning = r.warning
    OBVIOUS
  <1>4. req'[p] = n
    BY DEF Inv, Types
  <1>5. (Busy(n) => Busy(r)) /\ (Verified(n) => Verified(r))
    BY <1>1, <1>2 DEF Busy, Verified, Ks
  <1>6. Answers(req[p])'
    BY <1>1, <1>2, <1>4, <1>5, SMT DEF Lawful, Answers, Busy
  <1>7. Refuses(req[p])'
    BY <1>1, <1>2, <1>4, <1>5 DEF Lawful, Refuses, Verified
  <1>8. Writes(req[p])'
    <2>1. (r.warning => Verified(r)) /\ (Verified(r) => Verified(n))
      BY <1>1, <1>2 DEF Lawful, Writes, Verified
    <2>2. Counted' \subseteq Counted
      BY DEF Calm, Counted
    <2>3. /\ n.kind = "revoke" /\ n.pc \in {"write", "commit"} => n.cred \in Creds /\ row[n.cred] # None
          /\ Verified(n) /\ ~n.warning /\ n.cred \in Counted' => n.answer.count > row[n.cred].count
          /\ n.warning => Verified(n)
      BY <1>1, <1>2, <1>5, <2>1, <2>2 DEF Lawful, Writes
    <2>4. /\ n.wrote => n.pc = "commit"
          /\ n.wrote /\ n.kind = "register" => row[n.cred] = None
          /\ Verified(n) /\ n.pc = "commit" /\ ~n.wrote => n.cred \in lost'
      BY <1>2 DEF Verified
    <2> QED BY <1>4, <2>3, <2>4 DEF Writes, Verified
  <1>9. Lawful(req[p])'
    BY <1>2, <1>4, <1>6, <1>7, <1>8 DEF Lawful
  <1>10. ASSUME NEW q \in Requests \ {p}
         PROVE  /\ Busy(n) /\ Busy(req[q]) => n.answer.challenge # req[q].answer.challenge
                /\ \A d \in Creds : ~(Touches(n, d) /\ Touches(req[q], d))
                /\ Verified(n) /\ Verified(req[q]) /\ n.cred = req[q].cred => n.cred \in overlapped'
    <2>1. Apart(r, req[q]) /\ overlapped \subseteq overlapped'
      BY DEF Inv, Calm
    <2>2. ASSUME NEW d \in Creds, Touches(n, d), Touches(req[q], d) PROVE FALSE
      BY <1>2, <2>2 DEF Touches, Waits
    <2> QED BY <1>2, <1>5, <2>1, <2>2 DEF Apart
  <1> QED BY <1>9, <1>10, Moves

\* What Go and Wrote make of a request.
LEMMA GoFields ==
  ASSUME Inv, NEW p \in Requests, NEW pc \in {"write", "commit"}, req[p].pc \in {"find", "write"}
  PROVE  /\ Go(p, pc) => \E n \in Shape :
              /\ req' = [req EXCEPT ![p] = n] /\ n.pc = pc /\ n.kind = req[p].kind
              /\ n.answer = req[p].answer /\ n.cred = req[p].cred /\ n.gone = req[p].gone
              /\ n.warning = req[p].warning /\ ~n.wrote
         /\ Wrote(p) => \E n \in Shape :
              /\ req' = [req EXCEPT ![p] = n] /\ n.pc = "commit" /\ n.kind = req[p].kind
              /\ n.answer = req[p].answer /\ n.cred = req[p].cred /\ n.gone = req[p].gone
              /\ n.warning = req[p].warning
  <1> DEFINE r == req[p]
  <1>1. r \in Shape /\ ~r.wrote
    BY DEF Inv, Lawful, Writes
  <1>2. ASSUME Go(p, pc)
        PROVE  \E n \in Shape :
              /\ req' = [req EXCEPT ![p] = n] /\ n.pc = pc /\ n.kind = req[p].kind
              /\ n.answer = req[p].answer /\ n.cred = req[p].cred /\ n.gone = req[p].gone
              /\ n.warning = req[p].warning /\ ~n.wrote
    <2> DEFINE n == [r EXCEPT !.pc = pc]
    <2>1. /\ n \in Shape /\ n.pc = pc /\ n.kind = r.kind /\ n.answer = r.answer /\ n.cred = r.cred
          /\ n.gone = r.gone /\ n.warning = r.warning /\ ~n.wrote
      BY <1>1 DEF Shape
    <2>2. req' = [req EXCEPT ![p] = n]
      BY <1>2 DEF Go
    <2> HIDE DEF n
    <2> QED BY <2>1, <2>2
  <1>3. ASSUME Wrote(p)
        PROVE  \E n \in Shape :
              /\ req' = [req EXCEPT ![p] = n] /\ n.pc = "commit" /\ n.kind = req[p].kind
              /\ n.answer = req[p].answer /\ n.cred = req[p].cred /\ n.gone = req[p].gone
              /\ n.warning = req[p].warning
    <2> DEFINE n == [r EXCEPT !.wrote = TRUE, !.pc = "commit"]
    <2>1. /\ n \in Shape /\ n.pc = "commit" /\ n.kind = r.kind /\ n.answer = r.answer /\ n.cred = r.cred
          /\ n.gone = r.gone /\ n.warning = r.warning
      BY <1>1 DEF Shape
    <2>2. req' = [req EXCEPT ![p] = n]
      BY <1>3 DEF Wrote
    <2> HIDE DEF n
    <2> QED BY <2>1, <2>2
  <1> QED BY <1>2, <1>3

LEMMA FindRegistrationKeeps ==
  ASSUME Inv, NEW p \in Requests, FindRegistration(p)
  PROVE  Inv'
  <1>1. Still /\ req[p].pc = "find" /\ req[p].kind = "register"
    BY DEF FindRegistration, Still, bounds
  <1>2. Calm /\ UNCHANGED <<issued, device, answers, staged, row, active, done>>
    BY <1>1, StillCalm DEF Calm
  <1>3. CASE End(p)
    BY <1>2, <1>3, Ends
  <1>4. CASE Go(p, "write")
    BY <1>1, <1>2, <1>4, GoFields, GoesOn, SMT
  <1> QED BY <1>3, <1>4 DEF FindRegistration

\* A row is written by one request at a time.
LEMMA WriteKeeps ==
  ASSUME Inv, NEW p \in Requests,
         Create(p) \/ RevokeByID(p) \/ RevokeAllForUser(p) \/ completeAuthentication(p)
  PROVE  Inv'
  <1>1. Still /\ req[p].pc = "write"
    BY DEF Create, RevokeByID, RevokeAllForUser, completeAuthentication, Still, bounds
  <1>2. Calm /\ UNCHANGED <<issued, device, answers, staged, row, active, done>>
    BY <1>1, StillCalm DEF Calm
  <1>3. CASE End(p)
    BY <1>2, <1>3, Ends
  <1>4. CASE ~End(p)
    <2>1. /\ Wrote(p)
          /\ req[p].kind = "register" => row[req[p].cred] = None
          /\ \A c \in Creds : req[p].cred = c \/ req[p].kind = "erase" => ~Waits(p, c)
      BY <1>4 DEF Create, RevokeByID, RevokeAllForUser, completeAuthentication, Exists
    <2>2. PICK n \in Shape :
            /\ req' = [req EXCEPT ![p] = n] /\ n.pc = "commit" /\ n.kind = req[p].kind
            /\ n.answer = req[p].answer /\ n.cred = req[p].cred /\ n.gone = req[p].gone
            /\ n.warning = req[p].warning
      BY <1>1, <2>1, GoFields
    <2>3. n.wrote
      <3>1. req'[p].wrote
        BY <2>1 DEF Wrote, Inv, Types, Shape
      <3> QED BY <2>2, <3>1 DEF Inv, Types
    <2> QED BY <1>1, <1>2, <2>1, <2>2, <2>3, GoesOn
  <1> QED BY <1>3, <1>4

LEMMA WriteLostKeeps ==
  ASSUME Inv, NEW p \in Requests, WriteLost(p)
  PROVE  Inv'
  <1>1. /\ req[p].pc = "write" /\ Go(p, "commit") /\ lost' = lost \cup ({req[p].cred} \ {None})
        /\ UNCHANGED <<row, active, ceremony, done, accepted, flagged, overlapped, bounds>>
    BY DEF WriteLost
  <1>2. Calm /\ UNCHANGED <<issued, device, answers, staged, row, active, done>>
    BY <1>1, SMT DEF Calm, ceremony, bounds, Inv, Types
  <1>3. req[p].kind = "login" => req[p].cred \in lost'
    <2>1. req[p].kind = "login" => req[p].cred \in Creds
      BY <1>1 DEF Inv, Lawful, Answers, Ks
    <2> QED BY <1>1, <2>1, NoneAssumption
  <1> QED BY <1>1, <1>2, <1>3, GoFields, GoesOn, SMT

LEMMA AbortKeeps ==
  ASSUME Inv, NEW p \in Requests, Abort(p)
  PROVE  Inv'
  <1>1. Still /\ End(p)
    BY DEF Abort, Still, bounds
  <1> QED BY <1>1, StillCalm, Ends

-----------------------------------------------------------------------------
(* The store and the authenticators *)

\* A challenge is staged under a number nobody has seen.
LEMMA StageKeeps ==
  ASSUME Inv, NEW k \in Ks, stageJSON(k)
  PROVE  Inv'
  <1> DEFINE s == [challenge |-> issued + 1, allowed |-> ListByUser]
  <1>1. Types /\ Staged /\ Kept /\ issued \in Nat /\ MaxChallenges \in Nat
    BY PasskeysAssumption DEF Inv, Types
  <1>2. issued + 1 \in Challenges /\ ListByUser \in SUBSET Creds
    BY <1>1, SMT DEF stageJSON, Challenges, ListByUser
  <1>3. s \in [challenge : Challenges, allowed : SUBSET Creds] /\ s.challenge = issued + 1
    BY <1>2
  <1>4. /\ issued' = issued + 1 /\ staged' = [staged EXCEPT ![k] = s]
        /\ UNCHANGED <<row, active, device, answers, req, ghosts, bounds>>
    BY DEF stageJSON
  <1> HIDE DEF s
  <1>5. /\ staged' \in [Ks -> [challenge : Challenges, allowed : SUBSET Creds] \cup {None}]
        /\ \A j \in Ks : staged'[j] = IF j = k THEN s ELSE staged[j]
    BY <1>1, <1>3, <1>4 DEF Types
  <1>6. \A j \in Ks : staged[j] # None => staged[j].challenge \in Nat /\ staged[j].challenge <= issued
    <2>1. Challenges \subseteq Nat
      BY <1>1, SMT DEF Challenges
    <2> QED BY <1>1, <2>1 DEF Types, Staged
  <1>7. \A j \in Ks : staged'[j] # None =>
          /\ staged'[j].challenge <= issued'
          /\ staged'[j] = staged[j] \/ staged'[j].challenge > issued
    BY <1>1, <1>3, <1>4, <1>5, <1>6, SMT
  <1>8. staged'["register"] # None /\ staged'["login"] # None =>
          staged'["register"].challenge # staged'["login"].challenge
    BY <1>1, <1>3, <1>5, <1>6, SMT DEF Ks
  <1>9. Calm
    BY <1>1, <1>4, <1>7, SMT DEF Calm, ghosts, bounds
  <1>10. /\ answers' \in SUBSET Answer /\ device' \in [Creds -> [Copies -> Counts \cup {None}]]
         /\ \A a \in answers' : a.cred \in uncounted \/ a.count > 0
    BY <1>1, <1>4 DEF Types, Kept
  <1> QED BY <1>4, <1>5, <1>7, <1>8, <1>9, <1>10, OutsideKeeps

LEMMA ExpireKeeps ==
  ASSUME Inv, NEW k \in Ks, ChallengeExpires(k)
  PROVE  Inv'
  <1>1. /\ staged' = [staged EXCEPT ![k] = None]
        /\ UNCHANGED <<row, active, issued, device, answers, req, ghosts, bounds>>
    BY DEF ChallengeExpires
  <1>2. Types /\ Staged /\ Kept
    BY DEF Inv
  <1>3. /\ staged' \in [Ks -> [challenge : Challenges, allowed : SUBSET Creds] \cup {None}]
        /\ \A j \in Ks : staged'[j] # None => staged'[j] = staged[j]
    BY <1>1, <1>2 DEF Types
  <1>4. Calm
    BY <1>1, <1>2, <1>3, SMT DEF Calm, Types, ghosts, bounds
  <1>5. /\ \A j \in Ks : staged'[j] # None => staged'[j].challenge <= issued'
        /\ staged'["register"] # None /\ staged'["login"] # None =>
             staged'["register"].challenge # staged'["login"].challenge
    BY <1>1, <1>2, <1>3 DEF Staged, Ks
  <1>6. /\ answers' \in SUBSET Answer /\ device' \in [Creds -> [Copies -> Counts \cup {None}]]
        /\ \A a \in answers' : a.cred \in uncounted \/ a.count > 0
    BY <1>1, <1>2 DEF Types, Kept
  <1> QED BY <1>1, <1>3, <1>4, <1>5, <1>6, OutsideKeeps

LEMMA AuthenticatorKeeps ==
  ASSUME Inv,
         UNCHANGED <<row, active, staged, issued, req, ghosts, bounds>>,
         answers \subseteq answers', answers' \in SUBSET Answer,
         device' \in [Creds -> [Copies -> Counts \cup {None}]],
         \A a \in answers' : a.cred \in uncounted \/ a.count > 0
  PROVE  Inv'
  <1>1. Types /\ Staged
    BY DEF Inv
  <1>2. Calm
    BY <1>1, SMT DEF Calm, Types, ghosts, bounds
  <1>3. /\ staged' \in [Ks -> [challenge : Challenges, allowed : SUBSET Creds] \cup {None}]
        /\ \A j \in Ks : staged'[j] # None => staged'[j].challenge <= issued'
        /\ staged'["register"] # None /\ staged'["login"] # None =>
             staged'["register"].challenge # staged'["login"].challenge
    BY <1>1 DEF Types, Staged
  <1> QED BY <1>2, <1>3, OutsideKeeps

\* An authenticator that counts never signs with 0.
LEMMA SignKeeps ==
  ASSUME Inv, NEW k \in Ks, NEW c \in Creds, NEW h \in Copies,
         Sign(k, c, h) \/ Copied(c)
  PROVE  Inv'
  <1>1. Types /\ Kept
    BY DEF Inv
  <1>2. CASE Sign(k, c, h)
    <2> DEFINE n == IF c \in uncounted THEN 0 ELSE device[c][h] + 1
               a == [kind |-> k, challenge |-> staged[k].challenge, cred |-> c, count |-> n]
    <2>1. /\ n \in Counts /\ staged[k] # None /\ device[c][h] # None
          /\ device' = [device EXCEPT ![c][h] = n] /\ answers' = answers \cup {a}
          /\ UNCHANGED <<row, active, staged, issued, req, ghosts, bounds>>
      BY <1>2 DEF Sign
    <2>2. device[c][h] \in Nat
      BY <1>1, <2>1, PasskeysAssumption, SMT DEF Types, Counts
    <2>3. c \in uncounted \/ n > 0
      BY <2>2, SMT
    <2> HIDE DEF n
    <2>4. a \in Answer /\ a.cred = c /\ a.count = n
      BY <1>1, <2>1 DEF Types, Answer, Ks
    <2> HIDE DEF a
    <2>5. device' \in [Creds -> [Copies -> Counts \cup {None}]]
      BY <1>1, <2>1 DEF Types
    <2>6. answers' \in SUBSET Answer /\ \A x \in answers' : x.cred \in uncounted \/ x.count > 0
      BY <1>1, <2>1, <2>3, <2>4 DEF Types, Kept
    <2> QED BY <2>1, <2>5, <2>6, AuthenticatorKeeps
  <1>3. CASE Copied(c)
    <2>1. /\ device' = [device EXCEPT ![c]["copy"] = device[c]["own"]]
          /\ UNCHANGED <<row, active, staged, issued, answers, req, ghosts, bounds>>
      BY <1>3 DEF Copied
    <2>2. device' \in [Creds -> [Copies -> Counts \cup {None}]]
      BY <1>1, <2>1, SMT DEF Types, Copies
    <2>3. answers' \in SUBSET Answer /\ \A x \in answers' : x.cred \in uncounted \/ x.count > 0
      BY <1>1, <2>1 DEF Types, Kept
    <2> QED BY <2>1, <2>2, <2>3, AuthenticatorKeeps
  <1> QED BY <1>2, <1>3

-----------------------------------------------------------------------------
(* Commits *)

\* What a commit does to a row: it is not removed, a revocation is not undone,
\* and only a login without a warning moves the count.
LEMMA Rows ==
  ASSUME Inv, NEW p \in Requests, req[p].pc = "commit", NEW c \in Creds
  PROVE  /\ Written(p, c) \in Row \cup {None}
         /\ ~Touches(req[p], c) => Written(p, c) = row[c]
         /\ row[c] # None => Written(p, c) # None
         /\ Revoked(c) => Written(p, c).revoked
         /\ req[p].kind = "login" /\ ~req[p].warning /\ req[p].wrote /\ c = req[p].cred =>
              Written(p, c).count = req[p].answer.count
         /\ row[c] # None /\ ~(req[p].kind = "login" /\ ~req[p].warning /\ c = req[p].cred) =>
              Written(p, c).count = row[c].count
         /\ req[p].warning /\ req[p].wrote /\ c = req[p].cred => Written(p, c).revoked
  <1> DEFINE r == req[p]
             w == Written(p, c)
  <1> SUFFICES
         /\ w \in Row \cup {None}
         /\ ~Touches(r, c) => w = row[c]
         /\ row[c] # None => w # None
         /\ Revoked(c) => w.revoked
         /\ r.kind = "login" /\ ~r.warning /\ r.wrote /\ c = r.cred => w.count = r.answer.count
         /\ row[c] # None /\ ~(r.kind = "login" /\ ~r.warning /\ c = r.cred) => w.count = row[c].count
         /\ r.warning /\ r.wrote /\ c = r.cred => w.revoked
    OBVIOUS
  <1>1. Lawful(r) /\ r \in Shape /\ r.pc = "commit" /\ row[c] \in Row \cup {None}
    BY DEF Inv, Lawful, Types
  <1>2. /\ r.kind \in Ks => r.answer \in Answer /\ r.answer.count \in Counts
        /\ r.kind = "login" => row[r.cred] # None
        /\ r.kind = "register" /\ r.wrote => row[r.cred] = None
        /\ r.kind = "revoke" => row[r.cred] # None
        /\ r.warning => r.kind = "login"
    <2>1. answers \subseteq Answer
      BY DEF Inv, Types
    <2> QED BY <1>1, <2>1 DEF Lawful, Answers, Refuses, Writes, Verified, Answer
  <1>3. CASE ~r.wrote \/ (r.kind # "erase" /\ c # r.cred)
    <2>1. w = row[c]
      BY <1>3 DEF Written
    <2> HIDE DEF w
    <2> QED BY <1>1, <1>3, <2>1 DEF Revoked
  <1>4. CASE r.wrote /\ (r.kind = "erase" \/ c = r.cred)
    <2>1. Touches(r, c)
      BY <1>4 DEF Touches
    <2>2. CASE r.kind = "register"
      <3>1. w = [count |-> r.answer.count, revoked |-> FALSE]
        BY <1>4, <2>2 DEF Written
      <3>2. w \in Row
        BY <1>2, <2>2, <3>1, SMT DEF Row, Ks
      <3> HIDE DEF w
      <3> QED BY <1>2, <1>4, <2>1, <2>2, <3>2, NoneAssumption DEF Revoked
    <2>3. CASE r.kind = "login" /\ ~r.warning
      <3>1. w = [row[c] EXCEPT !.count = r.answer.count]
        BY <1>4, <2>3 DEF Written, Touched
      <3>2. row[c] \in Row /\ row[c] # None
        BY <1>1, <1>2, <1>4, <2>3
      <3>3. w \in Row /\ w.count = r.answer.count /\ w.revoked = row[c].revoked
        BY <1>2, <2>3, <3>1, <3>2 DEF Row, Ks
      <3> HIDE DEF w
      <3> QED BY <1>4, <2>1, <2>3, <3>3, NoneAssumption DEF Revoked
    <2>4. CASE r.kind # "register" /\ ~(r.kind = "login" /\ ~r.warning)
      <3>1. w = IF row[c] # None THEN [row[c] EXCEPT !.revoked = TRUE] ELSE None
        BY <1>4, <2>4 DEF Written, Exists
      <3>2. CASE row[c] # None
        <4>1. w \in Row /\ w.revoked = TRUE /\ w.count = row[c].count
          BY <1>1, <3>1, <3>2 DEF Row
        <4> HIDE DEF w
        <4> QED BY <2>1, <2>4, <4>1, NoneAssumption
      <3>3. CASE row[c] = None
        <4>1. w = None
          BY <3>1, <3>3
        <4> HIDE DEF w
        <4> QED BY <1>2, <1>4, <2>1, <3>3, <4>1 DEF Revoked
      <3> QED BY <3>2, <3>3
    <2> QED BY <2>2, <2>3, <2>4
  <1> QED BY <1>3, <1>4

LEMMA CommitKeeps ==
  ASSUME Inv, NEW p \in Requests, Commit(p)
  PROVE  Inv'
  <1> DEFINE r == req[p]
             login == r.kind = "login" /\ ~r.warning
             ch == r.answer.challenge
             m == r.answer.count
  <1>1. /\ Lawful(r) /\ r \in Shape /\ r.pc = "commit" /\ Types /\ Staged /\ Kept
        /\ Challenges \subseteq Nat /\ Counts \subseteq Nat
    BY PasskeysAssumption, SMT DEF Inv, Lawful, Commit, Challenges, Counts
  <1>2. r.kind \in Ks => /\ r.answer \in Answer /\ ch \in Challenges /\ m \in Counts
                         /\ r.cred \in Creds /\ Busy(r)
    BY <1>1 DEF Lawful, Answers, Types, Answer, Busy
  <1>3. /\ row' = [c \in Creds |-> Written(p, c)]
        /\ active' = (active /\ r.kind # "erase")
        /\ done' = IF r.kind \in Ks THEN [done EXCEPT ![ch] = @ + 1] ELSE done
        /\ accepted' = IF login THEN [accepted EXCEPT ![r.cred][m] = @ + 1] ELSE accepted
        /\ flagged' = flagged \cup (IF r.warning THEN {r.cred} ELSE {})
        /\ End(p)
        /\ UNCHANGED <<staged, issued, device, answers, lost, overlapped, uncounted>>
    BY DEF Commit, ceremony, bounds, Ks
  <1>4. \A c \in Creds :
         /\ row'[c] \in Row \cup {None}
         /\ ~Touches(r, c) => row'[c] = row[c]
         /\ row[c] # None => row'[c] # None
         /\ Revoked(c) => row'[c] # None /\ row'[c].revoked
         /\ login /\ r.wrote /\ c = r.cred => row'[c].count = m
         /\ row[c] # None /\ ~(login /\ c = r.cred) => row'[c].count = row[c].count
         /\ r.warning /\ r.wrote /\ c = r.cred => row'[c].revoked
    <2> SUFFICES ASSUME NEW c \in Creds
                 PROVE  /\ row'[c] \in Row \cup {None}
                        /\ ~Touches(r, c) => row'[c] = row[c]
                        /\ row[c] # None => row'[c] # None
                        /\ Revoked(c) => row'[c] # None /\ row'[c].revoked
                        /\ login /\ r.wrote /\ c = r.cred => row'[c].count = m
                        /\ row[c] # None /\ ~(login /\ c = r.cred) => row'[c].count = row[c].count
                        /\ r.warning /\ r.wrote /\ c = r.cred => row'[c].revoked
      OBVIOUS
    <2>1. row'[c] = Written(p, c)
      BY <1>3
    <2> QED BY <1>1, <2>1, Rows, SMT DEF Revoked
  <1>5. /\ req' = [req EXCEPT ![p] = NoRequest] /\ req' \in [Requests -> Shape]
        /\ req'[p] = NoRequest /\ \A q \in Requests \ {p} : req'[q] = req[q]
    BY <1>1, <1>3, NothingAsked DEF End, Types
  <1>6. r.kind \in Ks => /\ ch <= issued /\ done[ch] = 0
                         /\ \A k \in Ks : staged[k] # None => staged[k].challenge # ch
    BY <1>1, <1>2 DEF Lawful, Answers
  <1>7. (r.warning \/ login) => Verified(r) /\ r.kind \in Ks /\ r.cred \in Creds /\ row[r.cred] # None
    BY <1>1, <1>2 DEF Lawful, Writes, Refuses, Verified, Ks
  <1>8. Types'
    <2>1. row' \in [Creds -> Row \cup {None}]
      BY <1>3, <1>4
    <2>2. done' \in [Challenges -> Nat]
      <3>1. CASE r.kind \in Ks
        <4>1. done \in [Challenges -> Nat] /\ ch \in Challenges
          BY <1>1, <1>2, <3>1 DEF Types
        <4> HIDE DEF ch, r
        <4>2. done[ch] + 1 \in Nat
          BY <4>1, SMT
        <4> QED BY <1>3, <3>1, <4>1, <4>2
      <3>2. CASE r.kind \notin Ks
        BY <1>1, <1>3, <3>2 DEF Types
      <3> QED BY <3>1, <3>2
    <2>3. accepted' \in [Creds -> [Counts -> Nat]]
      <3>1. CASE login
        <4>1. accepted[r.cred] \in [Counts -> Nat] /\ m \in Counts
          BY <1>1, <1>2, <1>7, <3>1 DEF Types
        <4>2. accepted[r.cred][m] + 1 \in Nat
          BY <4>1, SMT
        <4> QED BY <1>1, <1>3, <1>7, <3>1, <4>1, <4>2 DEF Types
      <3>2. CASE ~login
        BY <1>1, <1>3, <3>2 DEF Types
      <3> QED BY <3>1, <3>2
    <2>4. flagged' \in SUBSET Creds /\ active' \in BOOLEAN
      BY <1>1, <1>3, <1>7 DEF Types
    <2> QED BY <1>1, <1>3, <1>5, <2>1, <2>2, <2>3, <2>4 DEF Types
  <1>9. \A n \in Challenges : done'[n] = IF r.kind \in Ks /\ n = ch THEN 1 ELSE done[n]
    BY <1>1, <1>2, <1>3, <1>6, SMT DEF Types
  <1>10. Staged'
    <2>1. \A n \in Challenges : done'[n] <= 1 /\ (done'[n] > 0 => n <= issued)
      <3> SUFFICES ASSUME NEW n \in Challenges PROVE done'[n] <= 1 /\ (done'[n] > 0 => n <= issued)
        OBVIOUS
      <3>1. done[n] <= 1 /\ (done[n] > 0 => n <= issued)
        BY <1>1 DEF Staged
      <3>2. CASE r.kind \in Ks /\ n = ch
        <4>1. done'[n] = 1 /\ n <= issued
          BY <1>6, <1>9, <3>2
        <4> QED BY <4>1, SMT
      <3>3. CASE ~(r.kind \in Ks /\ n = ch)
        BY <1>9, <3>1, <3>3
      <3> QED BY <3>2, <3>3
    <2>2. \A k \in Ks : staged[k] # None => staged[k].challenge <= issued /\ done'[staged[k].challenge] = 0
      BY <1>1, <1>6, <1>9 DEF Staged, Types
    <2> QED BY <1>1, <1>3, <2>1, <2>2 DEF Staged
  <1>11. Kept'
    <2>1. ASSUME NEW c \in Counted, NEW n \in Counts
          PROVE  accepted'[c][n] <= 1 /\ (accepted'[c][n] > 0 => row'[c] # None /\ n <= row'[c].count)
      <3>1. /\ c \in Creds /\ accepted[c][n] \in Nat /\ accepted[c][n] <= 1 /\ n \in Nat
            /\ accepted[c][n] > 0 => row[c] # None /\ n <= row[c].count
        BY <1>1, <2>1, SMT DEF Kept, Counted, Types
      <3>2. CASE login /\ c = r.cred
        <4>1. r.wrote /\ m > row[c].count /\ m \in Nat
          BY <1>1, <1>2, <1>7, <2>1, <3>2 DEF Lawful, Writes, Counted
        <4>2. row'[c].count = m /\ row'[c] # None
          BY <1>4, <1>7, <3>1, <3>2, <4>1
        <4>3. row[c].count \in Nat
          BY <1>1, <1>7, <3>1, <3>2 DEF Types, Row
        <4>4. accepted'[c][n] = IF n = m THEN accepted[c][n] + 1 ELSE accepted[c][n]
          BY <1>1, <1>2, <1>3, <1>7, <3>1, <3>2 DEF Types
        <4>5. n = m => accepted[c][n] = 0
          BY <3>1, <4>1, <4>3, SMT
        <4> QED BY <3>1, <4>1, <4>2, <4>3, <4>4, <4>5, SMT
      <3>3. CASE ~(login /\ c = r.cred)
        <4>1. accepted'[c][n] = accepted[c][n]
          BY <1>1, <1>2, <1>3, <1>7, <3>1, <3>3 DEF Types
        <4> QED BY <1>4, <3>1, <3>3, <4>1
      <3> QED BY <3>2, <3>3
    <2>2. ASSUME NEW c \in flagged' \ lost PROVE row'[c] # None /\ row'[c].revoked
      <3>1. CASE c \in flagged
        <4>1. c \in Creds /\ Revoked(c)
          BY <1>1, <2>2, <3>1 DEF Kept, Types
        <4> QED BY <1>4, <4>1
      <3>2. CASE r.warning /\ c = r.cred
        <4>1. r.wrote /\ c \in Creds /\ row[c] # None
          BY <1>1, <1>7, <2>2, <3>2 DEF Lawful, Writes
        <4> QED BY <1>4, <3>2, <4>1
      <3> QED BY <1>3, <2>2, <3>1, <3>2
    <2>3. Counted' = Counted
      BY <1>3 DEF Counted
    <2> QED BY <1>1, <1>3, <2>1, <2>2, <2>3 DEF Kept, Revoked
  <1>12. Lawful(req[p])'
    <2> DEFINE n == NoRequest
    <2>1. n \in Shape /\ n.pc = "idle" /\ n.wrote = FALSE /\ n.warning = FALSE
      BY NothingAsked
    <2>2. req'[p] = n
      BY <1>5
    <2> HIDE DEF n
    <2> QED BY <2>1, <2>2 DEF Lawful, Answers, Refuses, Writes, Busy, Verified
  <1>13. ASSUME NEW q \in Requests \ {p} PROVE Lawful(req[q])'
    <2> DEFINE o == req[q]
    <2>1. Lawful(o) /\ o \in Shape /\ Apart(r, o) /\ req'[q] = o
      BY <1>5 DEF Inv, Lawful
    <2> HIDE DEF o, r
    <2>2. Busy(o) => o.answer.challenge \in Challenges /\ done'[o.answer.challenge] = done[o.answer.challenge]
      <3>1. Busy(o) => o.answer.challenge \in Challenges
        BY <1>1, <2>1 DEF Lawful, Answers, Busy, Types, Answer
      <3> QED BY <1>2, <1>9, <2>1, <3>1 DEF Apart
    <2>3. Answers(req[q])'
      BY <1>3, <2>1, <2>2 DEF Lawful, Answers, Busy
    <2>4. o.gone \subseteq Creds /\ (Verified(o) => o.cred \in Creds)
      BY <2>1 DEF Lawful, Shape, Answers, Verified, Ks
    <2>5. Refuses(req[q])'
      <3>1. \A c \in Creds : ~active \/ Revoked(c) => ~active' \/ (row'[c] # None /\ row'[c].revoked)
        BY <1>3, <1>4
      <3>2. o.pc \in {"take", "find"} => \A c \in o.gone : ~active' \/ (row'[c] # None /\ row'[c].revoked)
        BY <2>1, <2>4, <3>1 DEF Lawful, Refuses
      <3>3. Verified(o) => o.cred \notin o.gone /\ row'[o.cred] # None
        BY <1>4, <2>1, <2>4 DEF Lawful, Refuses
      <3> QED BY <2>1, <3>2, <3>3 DEF Refuses, Revoked, Verified
    <2>6. Writes(req[q])'
      <3>1. ASSUME o.wrote, o.kind = "register" PROVE row'[o.cred] = None
        <4>1. o.cred \in Creds /\ row[o.cred] = None /\ Touches(o, o.cred)
          BY <2>1, <3>1 DEF Lawful, Writes, Answers, Touches, Ks
        <4> QED BY <1>4, <2>1, <4>1 DEF Apart
      <3>2. o.kind = "revoke" /\ o.pc \in {"write", "commit"} => o.cred \in Creds /\ row'[o.cred] # None
        BY <1>4, <2>1 DEF Lawful, Writes
      <3>3. ASSUME Verified(o), ~o.warning, o.cred \in Counted PROVE o.answer.count > row'[o.cred].count
        <4>1. o.answer.count > row[o.cred].count /\ o.cred \in Creds /\ row[o.cred] # None
          BY <2>1, <2>4, <3>3 DEF Lawful, Writes, Refuses
        <4>2. ~(login /\ o.cred = r.cred)
          BY <1>7, <2>1, <3>3 DEF Apart, Counted
        <4> QED BY <1>4, <4>1, <4>2
      <3>4. Counted' = Counted
        BY <1>3 DEF Counted
      <3>5. /\ o.wrote => o.pc = "commit"
            /\ o.warning => Verified(o)
            /\ Verified(o) /\ o.pc = "commit" /\ ~o.wrote => o.cred \in lost'
        BY <1>3, <2>1 DEF Lawful, Writes
      <3> QED BY <2>1, <3>1, <3>2, <3>3, <3>4, <3>5 DEF Writes, Verified
    <2> QED BY <2>1, <2>3, <2>5, <2>6 DEF Lawful
  <1>14. ASSUME NEW a \in Requests, NEW b \in Requests, a # b PROVE Apart(req[a], req[b])'
    <2> DEFINE x == req'[a]
               y == req'[b]
    <2>1. Apart(x, y)
      BY <1>5, <1>14, NothingAsked DEF Inv
    <2> QED BY <1>3, <2>1 DEF Apart, Busy, Verified, Touches
  <1> QED BY <1>8, <1>10, <1>11, <1>12, <1>13, <1>14 DEF Inv

-----------------------------------------------------------------------------
(* Theorems *)

LEMMA InitInv == Init => Inv
  <1> SUFFICES ASSUME Init PROVE Inv
    OBVIOUS
  <1>1. /\ \A p \in Requests : req[p] = NoRequest
        /\ req = [p \in Requests |-> NoRequest]
    BY DEF Init
  <1>2. Counts \subseteq Nat /\ 0 \in Counts
    BY PasskeysAssumption, SMT DEF Counts
  <1>3. Types
    <2>1. device \in [Creds -> [Copies -> Counts \cup {None}]]
      BY <1>2 DEF Init
    <2> QED BY <1>1, <2>1, NothingAsked DEF Init, Types, Ks
  <1>4. Staged /\ Kept
    BY PasskeysAssumption, SMT DEF Init, Staged, Kept, Ks, Counted, Challenges
  <1>5. \A p, q \in Requests : Lawful(req[p]) /\ Apart(req[p], req[q])
    BY <1>1, NothingAsked
  <1> QED BY <1>3, <1>4, <1>5 DEF Inv

LEMMA NextInv == Inv /\ [Next]_vars => Inv'
  <1> SUFFICES ASSUME Inv, [Next]_vars PROVE Inv'
    OBVIOUS
  <1>1. ASSUME NEW p \in Requests, Step(p) PROVE Inv'
    BY <1>1, ArriveKeeps, TakeKeeps, FindLoginKeeps, FindRegistrationKeeps, WriteKeeps,
       WriteLostKeeps, CommitKeeps, AbortKeeps DEF Step
  <1>2. CASE BeginRegistration \/ BeginAuthentication
    BY <1>2, StageKeeps DEF BeginRegistration, BeginAuthentication, Ks
  <1>3. ASSUME NEW k \in Ks, ChallengeExpires(k) PROVE Inv'
    BY <1>3, ExpireKeeps
  <1>4. ASSUME NEW k \in Ks, NEW c \in Creds, NEW h \in Copies, Sign(k, c, h) PROVE Inv'
    BY <1>4, SignKeeps
  <1>5. ASSUME NEW c \in Creds, Copied(c) PROVE Inv'
    <2>1. "login" \in Ks /\ "own" \in Copies
      BY DEF Ks, Copies
    <2> QED BY <1>5, <2>1, SignKeeps
  <1>6. CASE UNCHANGED vars
    <2>1. UNCHANGED <<row, active, staged, issued, req, ghosts, bounds>> /\ UNCHANGED <<device, answers>>
      BY <1>6 DEF vars, ceremony
    <2>2. Types /\ Kept
      BY DEF Inv
    <2> QED BY <2>1, <2>2, AuthenticatorKeeps DEF Types, Kept
  <1> QED BY <1>1, <1>2, <1>3, <1>4, <1>5, <1>6 DEF Next, Ks

LEMMA SpecInv == Spec => []Inv
  BY InitInv, NextInv, PTL DEF Spec

\* takeJSON: a challenge completes one ceremony at most, however often its
\* answer is sent and however its requests interleave, abort or lose writes.
THEOREM ChallengesCompleteOnce == Spec => []ChallengeOnce
  <1>1. Inv => ChallengeOnce
    BY DEF Inv, Staged, ChallengeOnce
  <1> QED BY <1>1, SpecInv, PTL

\* completeAuthentication: a count completes one login at most, and a credential
\* reported as copied stays revoked, with the exceptions that CopyNoticed names.
THEOREM CopiesNoticed == Spec => []CopyNoticed
  <1>1. Inv => CopyNoticed
    BY DEF Inv, Kept, Counted, Revoked, CopyNoticed
  <1> QED BY <1>1, SpecInv, PTL

\* loadUser: no login completes with a credential that was revoked, or for an
\* account that was closed, when its finishing request arrived.
THEOREM RevokedNeverLogsIn == Spec => RevokedRefused
  <1> DEFINE Refused == \A p \in Requests :
               Commit(p) /\ req[p].kind = "login" /\ ~req[p].warning => req[p].cred \notin req[p].gone
  <1>1. Inv => Refused
    BY DEF Inv, Lawful, Refuses, Verified, Commit
  <1>2. Inv /\ [Next]_vars => [Refused]_vars
    BY <1>1
  <1> QED BY <1>2, SpecInv, PTL DEF Spec, RevokedRefused
=============================================================================
