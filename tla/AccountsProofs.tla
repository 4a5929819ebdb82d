--------------------------- MODULE AccountsProofs ---------------------------
(***************************************************************************)
(* Proofs about Accounts, for any number of requests, accounts, addresses  *)
(* and Google accounts, and with all kinds of requests in one behaviour.   *)
(*                                                                         *)
(* VerifiedProven needs that whoever may still verify an account (a mail,  *)
(* the request of one who follows it, a resend about to mail) was given    *)
(* the address the account had then, and that the address has changed only *)
(* to a proven one since (Addressed); also for an account that is being    *)
(* inserted, whose mail leaves before the commit.  That the account is the *)
(* same one rests on AUTO_INCREMENT, which uses no ID twice.  LinkProven   *)
(* needs that a link in flight was decided for an account that had proven  *)
(* its address, FirstPasswordOnce that the row stays locked between the    *)
(* conditional UPDATE and the commit.  MailBound needs Budget: the mails   *)
(* sent and the requests that have passed and may still mail are together  *)
(* no more than what was counted, nor than the limit.                      *)
(***************************************************************************)
EXTENDS Accounts, FiniteSetTheorems, TLAPS

\* A leaf is for Zenon unless it names another prover: SMT, where there is
\* arithmetic or Zenon does not find the proof.
USE Zenon

Pcs == {"idle", "count", "take", "admit", "find", "write", "stage", "mail", "alert", "commit"}

Shape == [kind : Kinds \cup {None}, pc : Pcs, uid : Ids \cup {None}, email : Emails \cup {None},
          old : Emails \cup {None}, sub : Subs \cup {None}, wrote : SUBSET (Ids \cup Emails \cup Subs)]

Row(i) == user[i] \in User

\* A transaction that has inserted an account.
Creating(r) == r.kind \in {"register", "google"} /\ r.wrote # {} /\ user[r.uid] = None

\* A first password that was written.
Sets(r) == r.kind = "setPassword" /\ r.pc = "commit"

\* Requests that have found their account.
Targets(r) ==
  \/ r.kind \in {"requestChange", "setPassword", "unlink", "erase"}
  \/ r.kind \in {"verifyEmail", "confirmChange"} /\ r.pc \in {"write", "commit"}

\* Account i may be verified by the holder of mailbox e.
Addressed(i, e) ==
  /\ i \in Ids /\ e \in Emails
  /\ Exists(i) => user[i].email \in {e, None} \cup proven[i]
  /\ \A q \in Requests :
       Creating(req[q]) /\ req[q].uid = i => req[q].kind = "register" /\ req[q].email = e

\* A request that leads to a verification of its address.
Vouches(r) == r.kind = "verifyEmail" \/ (r.kind = "resend" /\ r.pc = "mail")

Writers == {"register", "google", "verifyEmail", "confirmChange", "setPassword", "unlink", "erase"}

Regular(r) ==
  /\ r \in Shape
  /\ r.wrote # {} => r.pc \in {"mail", "commit"} /\ r.uid \in Ids /\ r.kind \in Writers
  /\ r.pc = "mail" => r.kind \in {"register", "resend", "requestChange"}
  /\ r.pc = "admit" => r.kind \in {"resend", "requestChange"}
  /\ r.pc \in {"stage", "alert"} => r.kind = "requestChange"
  /\ r.kind \in {"register", "resend", "requestChange", "google", "confirmChange"} => r.email \in Emails
  /\ r.kind \in {"requestChange", "confirmChange"} => r.uid \in Ids
  /\ r.kind = "register" => (r.wrote # {} => Creating(r)) /\ (r.pc = "mail" => r.wrote # {})
  /\ r.kind = "google" =>
       /\ r.sub \in Subs /\ (r.pc \in {"take", "find"} => r.uid = None)
       /\ r.uid # None /\ (r.pc = "write" \/ r.wrote # {}) =>
            Creating(r) \/ (Row(r.uid) /\ proven[r.uid] # {})
  /\ Targets(r) => r.uid \in Ids /\ Row(r.uid)
  /\ Sets(r) => r.uid \in r.wrote /\ ~user[r.uid].password

Lawful(r) ==
  /\ Regular(r)
  /\ r.uid # None => r.uid < next
  /\ Vouches(r) => Addressed(r.uid, r.email)

\* Two requests insert no account both, and give a first password to none both.
Apart(r, s) == r.uid = s.uid => ~(Creating(r) /\ Creating(s)) /\ ~(Sets(r) /\ Sets(s))

Types ==
  /\ user \in [Ids -> User \cup {None}] /\ link \in [Subs -> Ids \cup {None}] /\ next \in Nat
  /\ mail \in SUBSET Mail /\ gmail \in [Subs -> Emails] /\ proven \in [Ids -> SUBSET Emails]
  /\ last \in [Subs -> Ids \cup {None}] /\ req \in [Requests -> Shape]

Mailed(m) == m.uid < next /\ (m.kind = "verify" => Addressed(m.uid, m.to))

Inv ==
  /\ Types
  /\ \A i \in Ids : Exists(i) => i < next
  /\ \A g \in Subs : link[g] # None => link[g] < next
  /\ \A m \in mail : Mailed(m)
  /\ \A g \in Subs : last[g] # None => link[g] = last[g]
  /\ \A q \in Requests : Lawful(req[q])
  /\ \A p, q \in Requests : p # q => Apart(req[p], req[q])
  /\ VerifiedProven /\ LinkProven

\* A request that has passed the limits on mails of sort k and may still send its own.
Pending(r, k) ==
  \/ k = "register" /\ r.kind = "register" /\ r.pc \in {"find", "write", "mail"}
  \/ k = "resend" /\ r.kind = "resend" /\ r.pc \in {"admit", "find", "mail"}
  \/ k = "change" /\ r.kind = "requestChange" /\ r.pc \in {"find", "stage", "admit", "mail"}
  \/ k = "alert" /\ r.kind = "requestChange" /\ r.pc \in {"find", "stage", "admit", "mail", "alert"}

\* Its mail counts for address a; for None, all of them do.
To(r, k) == IF k = "alert" THEN r.old ELSE r.email
Waits(r, k, a) == Pending(r, k) /\ (a = None \/ To(r, k) = a)
Waiting(k, a) == {q \in Requests : Waits(req[q], k, a)}

\* The counter that limits the mails of sort k.
Counter(k) == IF k = "alert" THEN "change" ELSE k

\* The layers of the limits that count what is mailed: all the mails of k, and
\* those to an address (a change is mailed to another address than it counts, its
\* alert to the one it counts).
Layer(k, a) == k \in Mails /\ (a = None \/ (k \in {"resend", "dup", "alert"} /\ a \in Emails))
Top(k, a) == IF a = None THEN Limit(k) ELSE ResendPerEmailMax

Within(k, a) ==
  /\ sent[k][a] + Cardinality(Waiting(k, a)) <= count[Counter(k)][a]
  /\ sent[k][a] + Cardinality(Waiting(k, a)) <= Top(k, a)

Counters(K) == [K -> [Emails \cup {None} -> Nat]]

Budget ==
  /\ count \in Counters(Counted) /\ sent \in Counters(Mails)
  /\ \A k \in Mails, a \in Emails \cup {None} : Layer(k, a) => Within(k, a)

-----------------------------------------------------------------------------
(* One request moves and the tables stay. *)

LEMMA NoneApart == Ids \subseteq Nat /\ None \notin Ids /\ None \notin User /\ None \notin Kinds
<1>1. Ids \subseteq Nat
  BY SMT DEF Ids
<1> QED BY <1>1, NoneAssumption

LEMMA NothingAsked == Lawful(NoRequest) /\ ~Creating(NoRequest) /\ ~Sets(NoRequest) /\ ~Vouches(NoRequest)
<1>1. /\ NoRequest.kind = None /\ NoRequest.pc = "idle" /\ NoRequest.uid = None
      /\ NoRequest.wrote = {} /\ NoRequest \in Shape
  BY DEF NoRequest, Shape, Pcs
<1>2. None \notin {"register", "google", "setPassword", "unlink", "erase", "verifyEmail", "confirmChange",
                   "resend", "requestChange"}
  BY NoneApart DEF Kinds
<1>3. ~Creating(NoRequest) /\ ~Sets(NoRequest) /\ ~Vouches(NoRequest) /\ ~Targets(NoRequest)
  BY <1>1, <1>2 DEF Creating, Sets, Vouches, Targets
<1> QED BY <1>1, <1>2, <1>3 DEF Lawful, Regular

\* Who was given an address keeps it when a request becomes n.
LEMMA AddressedKeeps ==
  ASSUME Inv, NEW p \in Requests, NEW n, req' = [req EXCEPT ![p] = n], UNCHANGED <<user, proven>>,
         NEW i, NEW e, Addressed(i, e),
         Creating(n) /\ n.uid = i => n.kind = "register" /\ n.email = e
  PROVE  Addressed(i, e)'
<1>1. \A q \in Requests : req'[q] = IF q = p THEN n ELSE req[q]
  BY DEF Inv, Types
<1>2. \A q \in Requests : Creating(req[q])' /\ req'[q].uid = i => req'[q].kind = "register" /\ req'[q].email = e
  BY <1>1 DEF Addressed, Creating
<1> QED BY <1>2 DEF Addressed, Exists

\* A request becomes n: it inserts an account under the next ID, or inserts what
\* it did before, or nothing.
Fresh(p, n) ==
  Creating(n) =>
    \/ n.uid = next /\ next < next'
    \/ Creating(req[p]) /\ n.uid = req[p].uid /\ n.kind = req[p].kind /\ n.email = req[p].email

LEMMA Moved ==
  ASSUME Inv, NEW p \in Requests, NEW n, req' = [req EXCEPT ![p] = n],
         UNCHANGED <<user, link, proven, last>>, next' \in Nat, next' >= next,
         gmail' \in [Subs -> Emails], Fresh(p, n), Regular(n), n.uid # None => n.uid < next',
         Vouches(n) => Addressed(n.uid, n.email) /\ n.uid < next,
         Sets(n) => \A q \in Requests \ {p} : Sets(req[q]) => req[q].uid # n.uid,
         mail' \in SUBSET Mail,
         \A m \in mail' \ mail : m.uid < next /\ (m.kind = "verify" => Addressed(m.uid, m.to))
  PROVE  Inv'
<1> USE NoneApart
<1>1. \A q \in Requests : req'[q] = IF q = p THEN n ELSE req[q]
  BY DEF Inv, Types
<1>2. Types'
  BY <1>1 DEF Inv, Types, Regular
<1>3. \A i \in Nat : i < next => i < next'
  BY SMT DEF Inv, Types
<1>4. \A i, e : Addressed(i, e) /\ i < next => Addressed(i, e)'
  <2> SUFFICES ASSUME NEW i, NEW e, Addressed(i, e), i < next PROVE Addressed(i, e)'
    OBVIOUS
  <2>1. i \in Nat /\ i # next
    BY SMT DEF Addressed, Inv, Types, Ids
  <2>2. Creating(n) /\ n.uid = i => n.kind = "register" /\ n.email = e
    BY <2>1 DEF Fresh, Addressed
  <2> QED BY <2>2, AddressedKeeps
<1>5. /\ \A i \in Ids : Exists(i)' => i < next'
      /\ \A g \in Subs : link'[g] # None => link'[g] < next'
  <2>1. \A g \in Subs : link[g] # None => link[g] \in Nat
    BY DEF Inv, Types
  <2> QED BY <1>3, <2>1 DEF Inv, Exists
<1>6. \A m \in mail' : Mailed(m)'
  <2> SUFFICES ASSUME NEW m \in mail' PROVE m.uid < next' /\ (m.kind = "verify" => Addressed(m.uid, m.to)')
    BY DEF Mailed
  <2>1. m.uid \in Nat
    BY DEF Mail
  <2>2. m.uid < next /\ (m.kind = "verify" => Addressed(m.uid, m.to))
    BY DEF Inv, Mailed
  <2> QED BY <1>3, <1>4, <2>1, <2>2
<1>7. \A r : Regular(r) => Regular(r)'
  <2> SUFFICES ASSUME NEW r, Regular(r) PROVE Regular(r)'
    OBVIOUS
  <2>1. (Creating(r) <=> Creating(r)') /\ (Row(r.uid) <=> Row(r.uid)')
    BY DEF Creating, Row
  <2>2. (Targets(r) <=> Targets(r)') /\ (Sets(r) <=> Sets(r)')
    BY DEF Targets, Sets
  <2> QED BY <2>1, <2>2 DEF Regular
<1>8. ASSUME NEW q \in Requests PROVE Lawful(req[q])'
  <2>1. CASE q = p
    <3>1. req'[q] = n /\ Regular(n)' /\ (Vouches(n) => Addressed(n.uid, n.email)')
      BY <1>1, <1>4, <1>7, <2>1
    <3> QED BY <3>1 DEF Lawful, Vouches
  <2>2. CASE q # p
    <3>1. req'[q] = req[q] /\ Lawful(req[q])
      BY <1>1, <2>2 DEF Inv
    <3>2. req[q].uid # None => req[q].uid \in Nat /\ req[q].uid < next
      BY <3>1 DEF Lawful, Regular, Shape
    <3>3. Vouches(req[q]) => req[q].uid # None /\ Addressed(req[q].uid, req[q].email)
      BY <3>1 DEF Lawful, Addressed
    <3>4. Regular(req[q])'
      BY <1>7, <3>1 DEF Lawful
    <3>5. Vouches(req[q])' => Addressed(req[q].uid, req[q].email)'
      BY <1>4, <3>1, <3>2, <3>3 DEF Vouches
    <3> QED BY <1>3, <3>1, <3>2, <3>4, <3>5 DEF Lawful
  <2> QED BY <2>1, <2>2
<1>9. ASSUME NEW a \in Requests, NEW b \in Requests, a # b PROVE Apart(req[a], req[b])'
  <2>1. ASSUME NEW q \in Requests \ {p} PROVE req[q].uid = n.uid => ~(Creating(req[q]) /\ Creating(n)) /\ ~(Sets(req[q]) /\ Sets(n))
    <3>1. Apart(req[p], req[q]) /\ Lawful(req[q])
      BY <2>1 DEF Inv
    <3>2. Creating(req[q]) => req[q].uid # next
      <4>1. Creating(req[q]) => req[q].uid \in Nat /\ req[q].uid < next
        BY <3>1 DEF Lawful, Regular, Creating
      <4>2. next \in Nat
        BY DEF Inv, Types
      <4> QED BY <4>1, <4>2, SMT
    <3> QED BY <3>1, <3>2 DEF Apart, Fresh
  <2>2. CASE a # p /\ b # p
    <3>1. Apart(req[a], req[b]) /\ req'[a] = req[a] /\ req'[b] = req[b]
      BY <1>1, <1>9, <2>2 DEF Inv
    <3> QED BY <3>1 DEF Apart, Creating, Sets
  <2>3. CASE a = p
    BY <1>1, <1>9, <2>1, <2>3 DEF Apart, Creating, Sets
  <2>4. CASE b = p
    BY <1>1, <1>9, <2>1, <2>4 DEF Apart, Creating, Sets
  <2> QED BY <2>2, <2>3, <2>4
<1>10. VerifiedProven' /\ LinkProven' /\ \A g \in Subs : last'[g] # None => link'[g] = last'[g]
  BY DEF Inv, VerifiedProven, LinkProven, Exists
<1> QED BY <1>2, <1>5, <1>6, <1>8, <1>9, <1>10 DEF Inv

\* No request moves.
LEMMA Stays ==
  ASSUME Inv, UNCHANGED <<user, link, proven, last, next, mail, req>>, gmail' \in [Subs -> Emails]
  PROVE  Inv'
<1>1. CASE \E p \in Requests : TRUE
  <2>1. PICK p \in Requests : TRUE
    BY <1>1
  <2>2. Lawful(req[p]) /\ req' = [req EXCEPT ![p] = req[p]]
    BY DEF Inv, Types
  <2>3. Fresh(p, req[p]) /\ Regular(req[p]) /\ (Vouches(req[p]) => Addressed(req[p].uid, req[p].email))
    BY <2>2 DEF Fresh, Lawful
  <2>4. Vouches(req[p]) => req[p].uid < next
    BY <2>2, <2>3, NoneApart DEF Lawful, Addressed
  <2>5. Sets(req[p]) => \A q \in Requests \ {p} : Sets(req[q]) => req[q].uid # req[p].uid
    BY DEF Inv, Apart
  <2>6. next' \in Nat /\ next' >= next /\ mail' \in SUBSET Mail /\ mail' \ mail = {}
    BY SMT DEF Inv, Types
  <2> QED BY <2>2, <2>3, <2>4, <2>5, <2>6, Moved DEF Lawful
<1>2. CASE Requests = {}
  BY <1>2 DEF Inv, Types, Mailed, Addressed, Exists, VerifiedProven, LinkProven
<1> QED BY <1>1, <1>2

\* The request ends.
LEMMA Ended ==
  ASSUME Inv, NEW p \in Requests, End(p), UNCHANGED <<user, link, proven, last, mail, gmail>>,
         next' = next \/ next' = next + 1
  PROVE  Inv'
<1>1. next' \in Nat /\ next' >= next
  BY SMT DEF Inv, Types
<1>2. mail' \in SUBSET Mail /\ mail' \ mail = {} /\ gmail' \in [Subs -> Emails]
  BY DEF Inv, Types
<1>3. Fresh(p, NoRequest) /\ Regular(NoRequest) /\ NoRequest.uid = None
  BY NothingAsked DEF Fresh, Lawful, NoRequest
<1> QED BY <1>1, <1>2, <1>3, NothingAsked, Moved DEF End

\* A request that has written nothing goes on.
LEMMA Went ==
  ASSUME Inv, NEW p \in Requests, NEW c \in {"find", "admit", "mail", "stage", "write", "commit"}, Go(p, c),
         UNCHANGED <<user, link, proven, last, mail, gmail>>, next' = next \/ next' = next + 1,
         req[p].pc \notin {"mail", "commit"},
         c = "find" /\ req[p].kind = "google" => req[p].pc = "take",
         c = "admit" => req[p].kind \in {"resend", "requestChange"},
         c \in {"mail", "stage"} => req[p].kind = "requestChange",
         c = "write" /\ req[p].kind = "google" => req[p].uid = None,
         c = "write" /\ req[p].kind \in {"verifyEmail", "confirmChange"} => Row(req[p].uid),
         c = "commit" => req[p].kind = "register"
  PROVE  Inv'
<1> DEFINE r == req[p]
           n == [r EXCEPT !.pc = c]
<1>1. Lawful(r) /\ r \in Shape /\ c \in Pcs
  BY DEF Inv, Lawful, Regular, Pcs
<1>2. /\ n \in Shape /\ n.pc = c /\ n.kind = r.kind /\ n.uid = r.uid /\ n.email = r.email /\ n.sub = r.sub
      /\ n.wrote = r.wrote
  BY <1>1 DEF Shape
<1>3. req' = [req EXCEPT ![p] = n]
  BY DEF Go
<1> HIDE DEF n
<1>4. r.wrote = {} /\ ~Creating(n) /\ ~Creating(r) /\ ~Sets(n)
  BY <1>1, <1>2 DEF Lawful, Regular, Creating, Sets
<1>5. Targets(n) => r.uid \in Ids /\ Row(r.uid)
  <2>1. r.kind = "verifyEmail" => r.uid \in Ids
    BY <1>1 DEF Lawful, Vouches, Addressed
  <2> QED BY <1>1, <1>2, <2>1 DEF Targets, Lawful, Regular
<1>6. Regular(n)
  <2>1. /\ n.kind = "google" => n.sub \in Subs /\ (n.pc \in {"take", "find"} => n.uid = None)
        /\ n.kind = "google" /\ n.pc = "write" => n.uid = None
    BY <1>1, <1>2 DEF Lawful, Regular
  <2>2. /\ n.kind \in {"register", "resend", "requestChange", "google", "confirmChange"} => n.email \in Emails
        /\ n.kind \in {"requestChange", "confirmChange"} => n.uid \in Ids
    BY <1>1, <1>2 DEF Lawful, Regular
  <2> QED BY <1>2, <1>4, <1>5, <2>1, <2>2 DEF Regular
<1>7. Vouches(n) => Vouches(r)
  BY <1>2 DEF Vouches
<1>8. Vouches(n) => Addressed(n.uid, n.email) /\ n.uid < next
  BY <1>1, <1>2, <1>7, NoneApart DEF Lawful, Addressed
<1>9. next' \in Nat /\ next' >= next /\ (n.uid # None => n.uid < next')
  <2>1. n.uid # None => n.uid \in Nat /\ n.uid < next
    BY <1>1, <1>2, NoneApart DEF Lawful, Shape
  <2>2. next \in Nat
    BY DEF Inv, Types
  <2> QED BY <2>1, <2>2, SMT
<1>10. mail' \in SUBSET Mail /\ mail' \ mail = {} /\ gmail' \in [Subs -> Emails]
  BY DEF Inv, Types
<1> QED BY <1>3, <1>4, <1>6, <1>8, <1>9, <1>10, Moved DEF Fresh

\* A request becomes n, which inserts nothing, and nothing else changes.
LEMMA Turned ==
  ASSUME Inv, NEW p \in Requests, NEW n, req' = [req EXCEPT ![p] = n],
         UNCHANGED <<user, link, proven, last, mail, gmail, next>>, Regular(n), ~Creating(n),
         n.uid # None => n.uid < next, Vouches(n) => Addressed(n.uid, n.email),
         Sets(n) => \A q \in Requests \ {p} : Sets(req[q]) => req[q].uid # n.uid
  PROVE  Inv'
<1>1. Vouches(n) => Addressed(n.uid, n.email) /\ n.uid < next
  BY NoneApart DEF Addressed
<1>2. next' \in Nat /\ next' >= next /\ mail' \in SUBSET Mail /\ mail' \ mail = {}
  BY SMT DEF Inv, Types
<1>3. gmail' \in [Subs -> Emails]
  BY DEF Inv, Types
<1> QED BY <1>1, <1>2, <1>3, Moved DEF Fresh

\* A request arrives.
LEMMA Arrived ==
  ASSUME Inv, NEW p \in Requests, NEW k \in Kinds, NEW c \in {"count", "take", "find"},
         NEW u \in Ids \cup {None}, NEW e \in Emails \cup {None}, NEW g \in Subs \cup {None},
         Arrive(p, k, c, u, e, g),
         u # None => u < next,
         k = "verifyEmail" => Addressed(u, e),
         k \in {"register", "resend", "requestChange", "google", "confirmChange"} => e \in Emails,
         k \in {"requestChange", "confirmChange"} => u \in Ids,
         k = "google" => g \in Subs /\ u = None,
         k \in {"requestChange", "setPassword", "unlink", "erase"} => u \in Ids /\ Row(u)
  PROVE  Inv'
<1> DEFINE n == [kind |-> k, pc |-> c, uid |-> u, email |-> e, old |-> None, sub |-> g, wrote |-> {}]
<1>1. /\ n \in Shape /\ n.pc = c /\ n.kind = k /\ n.uid = u /\ n.email = e /\ n.sub = g
      /\ n.wrote = {}
  BY DEF Shape, Pcs
<1>2. req' = [req EXCEPT ![p] = n] /\ UNCHANGED <<user, link, proven, last, mail, gmail, next>>
  BY DEF Arrive, tables, world, ghosts
<1> HIDE DEF n
<1>3. ~Creating(n) /\ ~Sets(n)
  BY <1>1 DEF Creating, Sets
<1>4. Regular(n)
  BY <1>1, <1>3 DEF Regular, Targets
<1>5. Vouches(n) => Addressed(n.uid, n.email) /\ n.uid < next
  BY <1>1, NoneApart DEF Vouches, Addressed
<1>6. next' \in Nat /\ next' >= next /\ mail' \in SUBSET Mail /\ mail' \ mail = {}
  BY <1>2, SMT DEF Inv, Types
<1>7. gmail' \in [Subs -> Emails]
  BY <1>2 DEF Inv, Types
<1> QED BY <1>1, <1>2, <1>3, <1>4, <1>5, <1>6, <1>7, Moved DEF Fresh

-----------------------------------------------------------------------------
(* The actions. *)

LEMMA BeginKeeps == ASSUME Inv, NEW p \in Requests, Begin(p) PROVE Inv'
<1> USE NoneApart
<1>1. ASSUME NEW k \in {"register", "resend"}, NEW e \in Emails, Arrive(p, k, "count", None, e, None)
      PROVE  Inv'
  <2>1. k \in Kinds
    BY DEF Kinds
  <2> QED BY <1>1, <2>1, Arrived
<1>2. ASSUME NEW m \in mail, m.kind = "verify", Arrive(p, "verifyEmail", "find", m.uid, m.to, None)
      PROVE  Inv'
  <2>1. Addressed(m.uid, m.to) /\ m.uid < next
    BY <1>2 DEF Inv, Mailed
  <2>2. "verifyEmail" \in Kinds /\ m.uid \in Ids /\ m.to \in Emails
    BY <2>1 DEF Kinds, Addressed
  <2> QED BY <1>2, <2>1, <2>2, Arrived
<1>3. ASSUME NEW m \in mail, Arrive(p, "confirmChange", "take", m.uid, m.to, None)
      PROVE  Inv'
  <2>1. m \in Mail /\ m.uid < next
    BY DEF Inv, Types, Mailed
  <2>2. "confirmChange" \in Kinds /\ m.uid \in Ids /\ m.to \in Emails
    BY <2>1 DEF Kinds, Mail
  <2> QED BY <1>3, <2>1, <2>2, Arrived
<1>4. ASSUME NEW i \in Ids, Exists(i), NEW e \in Emails, Arrive(p, "requestChange", "count", i, e, None)
      PROVE  Inv'
  <2>1. i < next /\ "requestChange" \in Kinds /\ Row(i)
    BY <1>4 DEF Inv, Types, Kinds, Row, Exists
  <2> QED BY <1>4, <2>1, Arrived
<1>5. ASSUME NEW i \in Ids, Exists(i), NEW k \in {"setPassword", "unlink", "erase"},
             Arrive(p, k, "find", i, None, None)
      PROVE  Inv'
  <2>1. i < next /\ k \in Kinds /\ Row(i)
    BY <1>5 DEF Inv, Types, Kinds, Row, Exists
  <2> QED BY <1>5, <2>1, Arrived
<1>6. ASSUME NEW g \in Subs, Arrive(p, "google", "take", None, gmail[g], g)
      PROVE  Inv'
  <2>1. gmail[g] \in Emails /\ "google" \in Kinds
    BY DEF Inv, Types, Kinds
  <2> QED BY <1>6, <2>1, Arrived
<1> QED BY <1>1, <1>2, <1>3, <1>4, <1>5, <1>6 DEF Begin

\* A change of the address has passed: the present one is kept.
LEMMA AsksKeeps ==
  ASSUME Inv, NEW p \in Requests, req[p].pc = "count", req[p].kind = "requestChange",
         req' = [req EXCEPT ![p].pc = "find", ![p].old = user[req[p].uid].email],
         UNCHANGED <<user, link, proven, last, mail, gmail, next>>
  PROVE  Inv'
<1> DEFINE r == req[p]
           e == user[r.uid].email
           n == [r EXCEPT !.pc = "find", !.old = e]
<1>1. Lawful(r) /\ Regular(r) /\ r \in Shape /\ "find" \in Pcs
  BY DEF Inv, Lawful, Regular, Pcs
<1>2. r.uid \in Ids /\ Row(r.uid) /\ r.wrote = {} /\ r.email \in Emails
  BY <1>1 DEF Regular, Targets
<1>3. e \in Emails \cup {None}
  BY <1>2 DEF Row, User
<1>4. req' = [req EXCEPT ![p] = n]
  OBVIOUS
<1> HIDE DEF e
<1>5. n \in Shape /\ n.pc = "find" /\ n.kind = r.kind /\ n.uid = r.uid /\ n.email = r.email /\ n.wrote = {}
  BY <1>1, <1>2, <1>3 DEF Shape
<1> HIDE DEF n
<1>6. ~Creating(n) /\ ~Sets(n) /\ ~Vouches(n)
  BY <1>5 DEF Creating, Sets, Vouches
<1>7. Regular(n)
  BY <1>2, <1>5, <1>6 DEF Regular
<1>8. n.uid < next
  BY <1>1, <1>2, <1>5, NoneApart DEF Lawful
<1> QED BY <1>4, <1>6, <1>7, <1>8, Turned

LEMMA CountKeeps ==
  ASSUME Inv, NEW p \in Requests,
         \/ CountRegister(p) \/ CountResend(p) \/ CountChange(p) \/ Admit(p) \/ Take(p) \/ Stage(p) \/ Abort(p)
  PROVE  Inv'
<1> DEFINE r == req[p]
<1>1. UNCHANGED <<user, link, proven, last, mail, gmail, next>>
  BY DEF CountRegister, CountResend, CountChange, Admit, Take, Stage, Abort, tables, world, ghosts
<1>2. CASE End(p)
  BY <1>1, <1>2, Ended
<1>3. ASSUME NEW c \in {"find", "admit", "mail"}, Go(p, c), r.pc \notin {"mail", "commit"},
             c = "find" /\ r.kind = "google" => r.pc = "take",
             c = "admit" => r.kind \in {"resend", "requestChange"},
             c = "mail" => r.kind = "requestChange"
      PROVE  Inv'
  BY <1>1, <1>3, Went
<1>4. CASE CountRegister(p)
  BY <1>2, <1>3, <1>4 DEF CountRegister
<1>5. CASE CountResend(p)
  BY <1>2, <1>3, <1>5 DEF CountResend
<1>6. CASE CountChange(p)
  BY <1>1, <1>2, <1>6, AsksKeeps DEF CountChange
<1>7. CASE Admit(p)
  <2>1. r.kind \in {"resend", "requestChange"}
    BY <1>7 DEF Admit, Inv, Lawful, Regular
  <2> QED BY <1>2, <1>3, <1>7, <2>1 DEF Admit
<1>8. CASE Take(p)
  BY <1>2, <1>3, <1>8 DEF Take
<1>9. CASE Stage(p)
  <2>1. r.kind = "requestChange"
    BY <1>9 DEF Stage, Inv, Lawful, Regular
  <2> QED BY <1>3, <1>9, <2>1 DEF Stage
<1> QED BY <1>2, <1>4, <1>5, <1>6, <1>7, <1>8, <1>9 DEF Abort

LEMMA FindKeeps ==
  ASSUME Inv, NEW p \in Requests,
         \/ FindRegister(p) \/ FindChange(p) \/ FindVerify(p) \/ FindConfirm(p) \/ FindSetPassword(p)
         \/ FindUnlink(p) \/ FindErase(p)
  PROVE  Inv'
<1> DEFINE r == req[p]
<1>1. UNCHANGED <<user, link, proven, last, mail, gmail, next>> /\ r.pc = "find"
  BY DEF FindRegister, FindChange, FindVerify, FindConfirm, FindSetPassword, FindUnlink, FindErase,
         tables, world, ghosts
<1>2. CASE End(p)
  BY <1>1, <1>2, Ended
<1>3. ASSUME NEW c \in {"stage", "write", "commit"}, Go(p, c),
             c = "stage" => r.kind = "requestChange", c = "commit" => r.kind = "register",
             c = "write" => r.kind # "google",
             r.kind \in {"verifyEmail", "confirmChange"} => Row(r.uid)
      PROVE  Inv'
  BY <1>1, <1>3, Went
<1>4. CASE FindRegister(p)
  BY <1>3, <1>4 DEF FindRegister, Duplicate
<1>5. CASE FindChange(p)
  BY <1>2, <1>3, <1>5 DEF FindChange
<1>6. ASSUME r.kind \in {"verifyEmail", "confirmChange"}, Exists(r.uid) PROVE Row(r.uid)
  <2>1. r.uid \in Ids
    BY <1>6 DEF Inv, Lawful, Regular, Vouches, Addressed
  <2> QED BY <1>6, <2>1 DEF Inv, Types, Exists, Row
<1>7. CASE FindVerify(p) \/ FindConfirm(p)
  BY <1>2, <1>3, <1>6, <1>7 DEF FindVerify, FindConfirm
<1>8. CASE FindSetPassword(p) \/ FindErase(p)
  BY <1>2, <1>3, <1>8 DEF FindSetPassword, FindErase
<1>9. CASE FindUnlink(p)
  BY <1>2, <1>3, <1>9 DEF FindUnlink
<1> QED BY <1>4, <1>5, <1>7, <1>8, <1>9

LEMMA FindResendKeeps == ASSUME Inv, NEW p \in Requests, FindResend(p) PROVE Inv'
<1> DEFINE r == req[p]
<1>1. /\ UNCHANGED <<user, link, proven, last, mail, gmail, next>>
      /\ r.pc = "find" /\ r.kind = "resend" /\ Lawful(r)
  BY DEF FindResend, tables, world, ghosts, Inv
<1>2. CASE End(p)
  BY <1>1, <1>2, Ended
<1>3. ASSUME NEW i \in Owner(r.email), req' = [req EXCEPT ![p].uid = i, ![p].pc = "mail"] PROVE Inv'
  <2> DEFINE n == [r EXCEPT !.uid = i, !.pc = "mail"]
  <2>1. i \in Ids /\ Exists(i) /\ user[i].email = r.email /\ r.email \in Emails /\ r.wrote = {} /\ r \in Shape
    BY <1>1 DEF Owner, Lawful, Regular
  <2>2. req' = [req EXCEPT ![p] = n]
    BY <1>3
  <2>3. /\ n \in Shape /\ n.pc = "mail" /\ n.kind = "resend" /\ n.uid = i /\ n.email = r.email /\ n.wrote = {}
    <3>1. "mail" \in Pcs
      BY DEF Pcs
    <3> QED BY <1>1, <2>1, <3>1 DEF Shape
  <2> HIDE DEF n
  <2>4. ~Creating(n) /\ ~Sets(n) /\ ~Targets(n)
    BY <2>3 DEF Creating, Sets, Targets
  <2>5. Regular(n)
    BY <2>1, <2>3, <2>4 DEF Regular
  <2>6. Addressed(n.uid, n.email)
    <3>1. \A q \in Requests : Creating(req[q]) => req[q].uid # i
      BY <2>1 DEF Creating, Exists
    <3> QED BY <2>1, <2>3, <3>1 DEF Addressed
  <2>7. n.uid < next
    BY <2>1, <2>3 DEF Inv
  <2> QED BY <1>1, <2>2, <2>4, <2>5, <2>6, <2>7, Turned
<1> QED BY <1>2, <1>3 DEF FindResend

LEMMA FindGoogleKeeps == ASSUME Inv, NEW p \in Requests, FindGoogle(p) PROVE Inv'
<1> DEFINE r == req[p]
           g == r.sub
           to == Resolved(g, r.email)
<1>1. /\ UNCHANGED <<user, link, proven, last, mail, gmail, next>>
      /\ r.pc = "find" /\ r.kind = "google" /\ Lawful(r)
  BY DEF FindGoogle, tables, world, ghosts, Inv
<1>2. r.uid = None /\ r.email \in Emails /\ g \in Subs /\ r.wrote = {} /\ r \in Shape
  BY <1>1 DEF Lawful, Regular
<1>3. CASE End(p)
  BY <1>1, <1>3, Ended
<1>4. CASE Go(p, "write")
  BY <1>1, <1>2, <1>4, Went
<1>5. ASSUME NEW i \in to, ~(~user[i].active \/ (link[g] = None /\ ~Linkable(i))),
             req' = [req EXCEPT ![p].uid = i, ![p].pc = IF link[g] = None THEN "write" ELSE "commit"]
      PROVE  Inv'
  <2> DEFINE c == IF link[g] = None THEN "write" ELSE "commit"
             n == [r EXCEPT !.uid = i, !.pc = c]
  <2>1. c \in {"write", "commit"} /\ (c = "write" => link[g] = None)
    OBVIOUS
  <2>2. req' = [req EXCEPT ![p] = n]
    BY <1>5
  <2>3. i \in Ids /\ i < next
    <3>1. CASE link[g] # None
      BY <1>2, <3>1 DEF Resolved, Inv, Types
    <3>2. CASE link[g] = None
      <4>1. i \in Owner(r.email)
        BY <3>2 DEF Resolved
      <4> QED BY <4>1 DEF Owner, Inv
    <3> QED BY <3>1, <3>2
  <2> HIDE DEF c
  <2>4. /\ n \in Shape /\ n.pc = c /\ n.kind = "google" /\ n.uid = i /\ n.email = r.email /\ n.wrote = {}
        /\ n.sub = g
    <3>1. c \in Pcs
      BY <2>1 DEF Pcs
    <3> QED BY <1>1, <1>2, <2>3, <3>1 DEF Shape
  <2> HIDE DEF n
  <2>5. ~Creating(n) /\ ~Sets(n) /\ ~Targets(n) /\ ~Vouches(n)
    BY <2>4 DEF Creating, Sets, Targets, Vouches
  <2>6. c = "write" => Row(i) /\ proven[i] # {}
    <3> SUFFICES ASSUME c = "write" PROVE Row(i) /\ proven[i] # {}
      OBVIOUS
    <3>1. i \in Owner(r.email) /\ user[i].verified
      BY <1>5, <2>1 DEF Resolved, Linkable
    <3>2. Exists(i) /\ user[i].email = r.email /\ Row(i)
      BY <2>3, <3>1 DEF Owner, Inv, Types, Row, Exists
    <3>3. user[i].email # None
      BY <1>2, <3>2, AccountsAssumption
    <3> QED BY <2>3, <3>1, <3>2, <3>3 DEF Inv, VerifiedProven
  <2>7. Regular(n)
    BY <1>2, <2>1, <2>4, <2>5, <2>6 DEF Regular
  <2> QED BY <1>1, <2>2, <2>3, <2>4, <2>5, <2>7, Turned
<1> QED BY <1>3, <1>4, <1>5 DEF FindGoogle

\* An account is inserted under the next ID.
LEMMA Inserted ==
  ASSUME Inv, NEW p \in Requests, req[p].pc = "write", req[p].kind \in {"register", "google"}, next \in Ids,
         NEW c \in {"mail", "commit"}, c = "mail" <=> req[p].kind = "register",
         NEW keys \in SUBSET (Ids \cup Emails \cup Subs), keys # {},
         req' = [req EXCEPT ![p].uid = next, ![p].wrote = keys, ![p].pc = c],
         UNCHANGED <<user, link, proven, last, mail, gmail>>, next' = next + 1
  PROVE  Inv'
<1> DEFINE r == req[p]
           n == [r EXCEPT !.uid = next, !.wrote = keys, !.pc = c]
<1>1. Lawful(r) /\ r \in Shape /\ r.email \in Emails /\ (r.kind = "google" => r.sub \in Subs)
  BY DEF Inv, Lawful, Regular
<1>2. /\ n \in Shape /\ n.pc = c /\ n.kind = r.kind /\ n.uid = next /\ n.email = r.email
      /\ n.wrote = keys /\ n.sub = r.sub
  <2>1. c \in Pcs
    BY DEF Pcs
  <2> QED BY <1>1, <2>1 DEF Shape
<1>3. req' = [req EXCEPT ![p] = n]
  OBVIOUS
<1> HIDE DEF n
<1>4. user[next] = None
  <2>1. next \in Nat /\ ~(next < next)
    BY SMT DEF Inv, Types
  <2> QED BY <2>1 DEF Inv, Exists
<1>5. Creating(n) /\ ~Sets(n) /\ ~Targets(n) /\ ~Vouches(n)
  BY <1>2, <1>4 DEF Creating, Sets, Targets, Vouches
<1>6. Regular(n)
  BY <1>1, <1>2, <1>5 DEF Regular, Writers
<1>7. next' \in Nat /\ next' >= next /\ next < next' /\ mail' \in SUBSET Mail /\ mail' \ mail = {}
  BY SMT DEF Inv, Types
<1>8. gmail' \in [Subs -> Emails]
  BY DEF Inv, Types
<1> QED BY <1>2, <1>3, <1>5, <1>6, <1>7, <1>8, Moved DEF Fresh

LEMMA CreateKeeps ==
  ASSUME Inv, NEW p \in Requests, CreateUser(p) \/ CreateGoogleUser(p) PROVE Inv'
<1> DEFINE r == req[p]
<1>1. /\ UNCHANGED <<user, link, proven, last, mail, gmail>> /\ next' = next + 1 /\ next \in Ids
      /\ r.pc = "write" /\ r.kind \in {"register", "google"}
  BY DEF CreateUser, CreateGoogleUser, world, ghosts
<1>2. r.email \in Emails /\ (r.kind = "google" => r.sub \in Subs)
  BY <1>1 DEF Inv, Lawful, Regular
<1>3. CASE End(p)
  BY <1>1, <1>3, Ended
<1>4. CASE CreateUser(p)
  <2>1. CASE Duplicate(p)
    BY <1>1, <1>4, <2>1, Went DEF Duplicate, CreateUser
  <2>2. CASE req' = [req EXCEPT ![p].uid = next, ![p].wrote = {next, r.email}, ![p].pc = "mail"]
    <3> DEFINE keys == {next, r.email}
    <3>1. keys \in SUBSET (Ids \cup Emails \cup Subs) /\ keys # {} /\ r.kind = "register"
      BY <1>1, <1>2, <1>4 DEF CreateUser
    <3>2. req' = [req EXCEPT ![p].uid = next, ![p].wrote = keys, ![p].pc = "mail"]
      BY <2>2
    <3> HIDE DEF keys
    <3> QED BY <1>1, <3>1, <3>2, Inserted
  <2> QED BY <1>4, <2>1, <2>2 DEF CreateUser
<1>5. CASE CreateGoogleUser(p)
  <2>1. CASE req' = [req EXCEPT ![p].uid = next, ![p].wrote = {next, r.email, r.sub}, ![p].pc = "commit"]
    <3> DEFINE keys == {next, r.email, r.sub}
    <3>1. keys \in SUBSET (Ids \cup Emails \cup Subs) /\ keys # {} /\ r.kind = "google"
      BY <1>1, <1>2, <1>5 DEF CreateGoogleUser
    <3>2. req' = [req EXCEPT ![p].uid = next, ![p].wrote = keys, ![p].pc = "commit"]
      BY <2>1
    <3> HIDE DEF keys
    <3> QED BY <1>1, <3>1, <3>2, Inserted
  <2> QED BY <1>3, <1>5, <2>1 DEF CreateGoogleUser
<1> QED BY <1>4, <1>5

\* A row is written that was there.
LEMMA Written ==
  ASSUME Inv, NEW p \in Requests, req[p].pc = "write",
         req[p].kind \in Kinds \ {"register", "resend", "requestChange"},
         NEW keys \in SUBSET (Ids \cup Emails \cup Subs), req[p].uid \in keys,
         Wrote(p, keys), UNCHANGED <<user, link, proven, last, mail, gmail, next>>,
         req[p].uid # None,
         req[p].kind = "setPassword" => ~user[req[p].uid].password /\ req[p].uid \notin Held(p)
  PROVE  Inv'
<1> DEFINE r == req[p]
           n == [r EXCEPT !.wrote = keys, !.pc = "commit"]
<1>1. Lawful(r) /\ Regular(r) /\ r \in Shape /\ r.wrote = {}
  BY DEF Inv, Lawful, Regular
<1>2. /\ n \in Shape /\ n.pc = "commit" /\ n.kind = r.kind /\ n.uid = r.uid /\ n.email = r.email
      /\ n.wrote = keys /\ n.sub = r.sub
  <2>1. "commit" \in Pcs
    BY DEF Pcs
  <2> QED BY <1>1, <2>1 DEF Shape
<1>3. req' = [req EXCEPT ![p] = n]
  BY DEF Wrote
<1> HIDE DEF n
<1>4. r.uid \in Ids /\ Row(r.uid) /\ (r.kind = "google" => proven[r.uid] # {} /\ r.sub \in Subs)
  <2>1. CASE r.kind = "google"
    BY <1>1, <2>1 DEF Regular, Shape, Creating
  <2>2. CASE r.kind # "google"
    <3>1. Targets(r)
      BY <2>2 DEF Targets, Kinds
    <3> QED BY <1>1, <2>2, <3>1 DEF Regular
  <2> QED BY <2>1, <2>2
<1>5. ~Creating(n)
  BY <1>2, <1>4, NoneApart DEF Creating, Row
<1>6. Regular(n)
  <2>1. r.kind \in {"google", "confirmChange"} => r.email \in Emails
    BY <1>1 DEF Regular
  <2>2. Sets(n) => n.uid \in n.wrote /\ ~user[n.uid].password
    BY <1>2 DEF Sets
  <2>3. n.kind \in Writers /\ n.kind \notin {"register", "resend", "requestChange"}
    BY <1>2 DEF Writers, Kinds
  <2> QED BY <1>2, <1>4, <2>1, <2>2, <2>3 DEF Regular
<1>7. Vouches(n) => Addressed(n.uid, n.email)
  BY <1>1, <1>2 DEF Vouches, Lawful
<1>8. ASSUME Sets(n), NEW q \in Requests \ {p}, Sets(req[q]) PROVE req[q].uid # n.uid
  <2>1. r.uid \notin req[q].wrote
    BY <1>2, <1>8 DEF Held, Sets
  <2>2. req[q].uid \in req[q].wrote
    BY <1>8 DEF Inv, Lawful, Regular
  <2> QED BY <1>2, <2>1, <2>2
<1>9. n.uid < next
  BY <1>1, <1>2 DEF Lawful
<1> QED BY <1>3, <1>5, <1>6, <1>7, <1>8, <1>9, Turned

LEMMA WriteKeeps ==
  ASSUME Inv, NEW p \in Requests, LinkIdentity(p) \/ UpdateEmail(p) \/ SetFirstPassword(p) \/ WriteRow(p)
  PROVE  Inv'
<1> DEFINE r == req[p]
<1>1. /\ UNCHANGED <<user, link, proven, last, mail, gmail, next>> /\ r.pc = "write"
      /\ r.kind \in {"google", "confirmChange", "setPassword", "verifyEmail", "unlink", "erase"}
  BY DEF LinkIdentity, UpdateEmail, SetFirstPassword, WriteRow, tables, world, ghosts
<1>2. CASE End(p)
  BY <1>1, <1>2, Ended
<1>3. r.kind \in Kinds \ {"register", "resend", "requestChange"}
  BY <1>1 DEF Kinds
<1>4. Lawful(r) /\ r \in Shape
  BY DEF Inv, Lawful, Regular
<1>5. r.kind # "google" => r.uid \in Ids
  BY <1>1, <1>4 DEF Lawful, Regular, Targets
<1>6. CASE LinkIdentity(p)
  <2> DEFINE keys == {r.uid, r.sub}
  <2>1. r.uid # None /\ r.kind = "google" /\ (End(p) \/ Wrote(p, keys))
    BY <1>6 DEF LinkIdentity
  <2>2. keys \in SUBSET (Ids \cup Emails \cup Subs) /\ r.uid \in keys
    BY <1>4, <2>1 DEF Lawful, Regular, Shape
  <2> HIDE DEF keys
  <2> QED BY <1>1, <1>2, <1>3, <2>1, <2>2, Written
<1>7. CASE UpdateEmail(p)
  <2> DEFINE keys == {r.uid, r.email}
  <2>1. r.kind = "confirmChange" /\ (End(p) \/ Wrote(p, keys))
    BY <1>7 DEF UpdateEmail
  <2>2. keys \in SUBSET (Ids \cup Emails \cup Subs) /\ r.uid \in keys /\ r.uid # None
    BY <1>4, <1>5, <2>1, NoneApart DEF Lawful, Regular
  <2> HIDE DEF keys
  <2> QED BY <1>1, <1>2, <1>3, <2>1, <2>2, Written
<1>8. CASE SetFirstPassword(p) \/ WriteRow(p)
  <2> DEFINE keys == {r.uid}
  <2>1. /\ End(p) \/ Wrote(p, keys)
        /\ r.kind # "google"
        /\ r.kind = "setPassword" => r.uid \notin Held(p) /\ (End(p) \/ ~user[r.uid].password)
    BY <1>8 DEF SetFirstPassword, WriteRow
  <2>2. keys \in SUBSET (Ids \cup Emails \cup Subs) /\ r.uid \in keys /\ r.uid # None
    BY <1>5, <2>1, NoneApart
  <2> HIDE DEF keys
  <2> QED BY <1>1, <1>2, <1>3, <2>1, <2>2, Written
<1> QED BY <1>6, <1>7, <1>8

\* The mail of a registration leaves before its commit.
LEMMA SendMailKeeps == ASSUME Inv, NEW p \in Requests, SendMail(p) PROVE Inv'
<1> DEFINE r == req[p]
           k == IF r.kind = "requestChange" THEN "change" ELSE r.kind
           m == [kind |-> IF k = "change" THEN "change" ELSE "verify", uid |-> r.uid, to |-> r.email]
<1>1. /\ UNCHANGED <<user, link, proven, last, gmail, next>> /\ r.pc = "mail"
      /\ mail' = mail \cup {m} \/ mail' = mail
      /\ IF k = "resend" THEN End(p) ELSE Go(p, IF k = "register" THEN "commit" ELSE "alert")
  BY DEF SendMail, tables, ghosts
<1>2. Lawful(r) /\ Regular(r) /\ r \in Shape
  BY DEF Inv, Lawful, Regular
<1>3. r.kind \in {"register", "resend", "requestChange"}
  BY <1>1, <1>2 DEF Regular
<1>4. r.uid \in Ids /\ r.email \in Emails
  <2>1. CASE r.kind = "resend"
    BY <1>1, <1>2, <2>1 DEF Lawful, Vouches, Addressed
  <2>2. CASE r.kind # "resend"
    BY <1>1, <1>2, <1>3, <2>2 DEF Regular
  <2> QED BY <2>1, <2>2
<1>5. r.uid < next
  BY <1>2, <1>4, NoneApart DEF Lawful
<1>6. m \in Mail /\ m.uid = r.uid /\ m.to = r.email /\ (m.kind = "verify" => r.kind \in {"register", "resend"})
  BY <1>3, <1>4 DEF Mail
<1> HIDE DEF m
<1>7. r.kind \in {"register", "resend"} => Addressed(r.uid, r.email)
  <2>1. CASE r.kind = "register"
    <3>1. Creating(r)
      BY <1>1, <1>2, <2>1 DEF Regular
    <3>2. ASSUME NEW q \in Requests, Creating(req[q]), req[q].uid = r.uid PROVE q = p
      BY <3>1, <3>2 DEF Inv, Apart
    <3> QED BY <1>4, <2>1, <3>1, <3>2 DEF Addressed, Creating, Exists
  <2>2. CASE r.kind = "resend"
    BY <1>1, <1>2, <2>2 DEF Lawful, Vouches
  <2> QED BY <2>1, <2>2
<1>8. /\ mail' \in SUBSET Mail
      /\ \A x \in mail' \ mail : x.uid < next /\ (x.kind = "verify" => Addressed(x.uid, x.to))
  <2>1. mail \in SUBSET Mail
    BY DEF Inv, Types
  <2>2. \A x \in mail' \ mail : x = m
    BY <1>1
  <2> QED BY <1>1, <1>5, <1>6, <1>7, <2>1, <2>2
<1>9. next' \in Nat /\ next' >= next
  BY <1>1, SMT DEF Inv, Types
<1>10. gmail' \in [Subs -> Emails]
  BY <1>1 DEF Inv, Types
<1>11. CASE End(p)
  <2>1. Fresh(p, NoRequest) /\ Regular(NoRequest) /\ NoRequest.uid = None
    BY NothingAsked DEF Fresh, Lawful, NoRequest
  <2> QED BY <1>1, <1>8, <1>9, <1>10, <1>11, <2>1, NothingAsked, Moved DEF End
<1>12. CASE r.kind = "register" /\ Go(p, "commit")
  <2> DEFINE n == [r EXCEPT !.pc = "commit"]
  <2>1. /\ n \in Shape /\ n.pc = "commit" /\ n.kind = r.kind /\ n.uid = r.uid /\ n.email = r.email
        /\ n.wrote = r.wrote
    <3>1. "commit" \in Pcs
      BY DEF Pcs
    <3> QED BY <1>2, <3>1 DEF Shape
  <2>2. req' = [req EXCEPT ![p] = n]
    BY <1>12 DEF Go
  <2> HIDE DEF n
  <2>3. r.wrote # {} /\ Creating(r)
    BY <1>1, <1>2, <1>12 DEF Regular
  <2>4. Creating(n) /\ ~Sets(n) /\ ~Targets(n) /\ ~Vouches(n)
    BY <1>12, <2>1, <2>3 DEF Creating, Sets, Targets, Vouches
  <2>5. Regular(n)
    BY <1>4, <1>12, <2>1, <2>3, <2>4 DEF Regular, Writers
  <2> QED BY <1>1, <1>5, <1>8, <1>9, <1>10, <2>1, <2>2, <2>3, <2>4, <2>5, Moved DEF Fresh
<1>13. CASE r.kind = "requestChange" /\ Go(p, "alert")
  <2> DEFINE n == [r EXCEPT !.pc = "alert"]
  <2>1. /\ n \in Shape /\ n.pc = "alert" /\ n.kind = r.kind /\ n.uid = r.uid /\ n.email = r.email
        /\ n.wrote = r.wrote
    <3>1. "alert" \in Pcs
      BY DEF Pcs
    <3> QED BY <1>2, <3>1 DEF Shape
  <2>2. req' = [req EXCEPT ![p] = n]
    BY <1>13 DEF Go
  <2> HIDE DEF n
  <2>3. r.wrote = {} /\ Row(r.uid)
    BY <1>2, <1>13 DEF Regular, Writers, Targets
  <2>4. ~Creating(n) /\ ~Sets(n) /\ ~Vouches(n)
    BY <1>13, <2>1 DEF Creating, Sets, Vouches
  <2>5. Regular(n)
    BY <1>4, <1>13, <2>1, <2>3, <2>4 DEF Regular
  <2> QED BY <1>1, <1>5, <1>8, <1>9, <1>10, <2>1, <2>2, <2>4, <2>5, Moved DEF Fresh
<1> QED BY <1>1, <1>3, <1>11, <1>12, <1>13

LEMMA SendAlertKeeps == ASSUME Inv, NEW p \in Requests, SendAlert(p) PROVE Inv'
BY Ended DEF SendAlert, tables, world

-----------------------------------------------------------------------------
(* The commit. *)

\* What a write makes of a row.
LEMMA AppliedIs ==
  ASSUME NEW row \in User \cup {None}, NEW kind, NEW e \in Emails \cup {None},
         row # None \/ kind \in {"register", "google"}
  PROVE  LET a == Applied(row, kind, e)
         IN  /\ a \in User
             /\ kind = "register" => a.email = e /\ ~a.verified
             /\ kind = "google" => IF row # None THEN a = row ELSE a.email = e
             /\ kind = "verifyEmail" => a.email = row.email
             /\ kind = "confirmChange" => a.email = e
             /\ kind = "setPassword" => a.email = row.email /\ a.verified = row.verified
             /\ kind = "erase" => a.email = None
             /\ row # None /\ kind \notin {"register", "setPassword"} /\ ~row.password => ~a.password
             /\ kind \notin {"register", "google", "verifyEmail", "confirmChange", "setPassword", "erase"} => a = row
<1> DEFINE a == Applied(row, kind, e)
<1>1. CASE kind = "register"
  <2>1. a = [email |-> e, verified |-> FALSE, password |-> TRUE, active |-> TRUE]
    BY <1>1 DEF Applied
  <2>2. a \in User /\ a.email = e /\ ~a.verified
    BY <2>1, SMT DEF User
  <2> HIDE DEF a
  <2> QED BY <1>1, <2>2 DEF a
<1>2. CASE kind = "google"
  <2>1. CASE row # None
    BY <1>2, <2>1 DEF Applied
  <2>2. CASE row = None
    <3>1. a = [email |-> e, verified |-> TRUE, password |-> FALSE, active |-> TRUE]
      BY <1>2, <2>2 DEF Applied
    <3>2. a \in User /\ a.email = e
      BY <3>1, SMT DEF User
    <3> HIDE DEF a
    <3> QED BY <1>2, <2>2, <3>2 DEF a
  <2> QED BY <2>1, <2>2
<1>3. CASE kind = "verifyEmail"
  <2>1. a = [row EXCEPT !.verified = TRUE] /\ row \in User
    BY <1>3 DEF Applied
  <2>2. a \in User /\ a.email = row.email /\ a.password = row.password
    BY <2>1 DEF User
  <2> HIDE DEF a
  <2> QED BY <1>3, <2>2 DEF a
<1>4. CASE kind = "confirmChange"
  <2>1. a = [row EXCEPT !.email = e, !.verified = TRUE] /\ row \in User
    BY <1>4 DEF Applied
  <2>2. a \in User /\ a.email = e /\ a.password = row.password
    BY <2>1 DEF User
  <2> HIDE DEF a
  <2> QED BY <1>4, <2>2 DEF a
<1>5. CASE kind = "setPassword"
  <2>1. a = [row EXCEPT !.password = TRUE] /\ row \in User
    BY <1>5 DEF Applied
  <2>2. a \in User /\ a.email = row.email /\ a.verified = row.verified
    BY <2>1 DEF User
  <2> HIDE DEF a
  <2> QED BY <1>5, <2>2 DEF a
<1>6. CASE kind = "erase"
  <2>1. a = [email |-> None, verified |-> FALSE, password |-> FALSE, active |-> FALSE]
    BY <1>6 DEF Applied
  <2>2. a \in User /\ a.email = None /\ ~a.password
    BY <2>1, SMT DEF User
  <2> HIDE DEF a
  <2> QED BY <1>6, <2>2 DEF a
<1>7. CASE kind \notin {"register", "google", "verifyEmail", "confirmChange", "setPassword", "erase"}
  <2>1. a = row /\ row \in User
    BY <1>7 DEF Applied
  <2> HIDE DEF a
  <2> QED BY <1>7, <2>1 DEF a
<1> QED BY <1>1, <1>2, <1>3, <1>4, <1>5, <1>6, <1>7

\* What a commit does to the tables.
LEMMA CommitIs ==
  ASSUME Inv, NEW p \in Requests, Commit(p)
  PROVE  LET r == req[p]
         IN  /\ req' = [req EXCEPT ![p] = NoRequest] /\ UNCHANGED <<next, mail, gmail>>
             /\ r.pc = "commit" /\ Regular(r) /\ Lawful(r)
             /\ r.wrote = {} => user' = user /\ proven' = proven
             /\ r.wrote # {} =>
                  /\ r.uid \in Ids /\ (Creating(r) \/ Row(r.uid))
                  /\ user' = [user EXCEPT ![r.uid] = Applied(user[r.uid], r.kind, r.email)]
             /\ r.wrote # {} /\ (r.kind \in {"verifyEmail", "confirmChange"} \/ (r.kind = "google" /\ user[r.uid] = None)) =>
                  r.email \in proven'[r.uid]
             /\ proven' \in [Ids -> SUBSET Emails] /\ \A j \in Ids : proven[j] \subseteq proven'[j]
<1> DEFINE r == req[p]
           shows == r.wrote # {} /\ (r.kind \in {"verifyEmail", "confirmChange"} \/ (r.kind = "google" /\ user[r.uid] = None))
<1>1. req' = [req EXCEPT ![p] = NoRequest] /\ UNCHANGED <<next, mail, gmail>> /\ r.pc = "commit"
  BY DEF Commit, End, world
<1>2. Lawful(r) /\ Regular(r) /\ r \in Shape
  BY DEF Inv, Lawful, Regular
<1>3. r.wrote # {} => r.uid \in Ids /\ (Creating(r) \/ Row(r.uid))
  <2> SUFFICES ASSUME r.wrote # {} PROVE r.uid \in Ids /\ (Creating(r) \/ Row(r.uid))
    OBVIOUS
  <2>1. r.uid \in Ids /\ r.kind \in Writers /\ r.uid # None
    BY <1>2, NoneApart DEF Regular
  <2>2. CASE r.kind \in {"register", "google"}
    BY <1>2, <2>1, <2>2 DEF Regular
  <2>3. CASE r.kind \notin {"register", "google"}
    BY <1>1, <1>2, <2>1, <2>3 DEF Regular, Targets, Writers
  <2> QED BY <2>2, <2>3
<1>4. /\ r.wrote = {} => user' = user /\ proven' = proven
      /\ r.wrote # {} => user' = [user EXCEPT ![r.uid] = Applied(user[r.uid], r.kind, r.email)]
      /\ proven' = IF shows THEN [proven EXCEPT ![r.uid] = proven[r.uid] \cup {r.email}] ELSE proven
  BY DEF Commit
<1>5. shows => r.email \in Emails /\ r.uid \in Ids
  <2>1. r.kind = "verifyEmail" => r.email \in Emails
    BY <1>2 DEF Lawful, Vouches, Addressed
  <2> QED BY <1>2, <1>3, <2>1 DEF Regular
<1>6. proven \in [Ids -> SUBSET Emails]
  BY DEF Inv, Types
<1> HIDE DEF shows
<1>7. /\ proven' \in [Ids -> SUBSET Emails] /\ \A j \in Ids : proven[j] \subseteq proven'[j]
      /\ shows => r.email \in proven'[r.uid]
  <2>1. CASE ~shows
    BY <1>4, <1>6, <2>1
  <2>2. CASE shows
    BY <1>4, <1>5, <1>6, <2>2
  <2> QED BY <2>1, <2>2
<1> QED BY <1>1, <1>2, <1>3, <1>4, <1>7 DEF shows

\* The rows after it.
LEMMA CommitRows ==
  ASSUME Inv, NEW p \in Requests, Commit(p)
  PROVE  LET r == req[p]
         IN  /\ user' \in [Ids -> User \cup {None}]
             /\ \A j \in Ids : user'[j] = user[j] \/ (j = r.uid /\ r.wrote # {} /\ user'[j] \in User)
             /\ \A j \in Ids : Row(j) => Row(j)'
             /\ \A j \in Ids : user'[j] = None => user[j] = None
             /\ r.wrote # {} =>
                  /\ r.uid \in Ids /\ user'[r.uid] = Applied(user[r.uid], r.kind, r.email) /\ r.uid < next
                  /\ user[r.uid] # None \/ r.kind \in {"register", "google"}
                  /\ r.email \in Emails \cup {None} /\ user[r.uid] \in User \cup {None}
<1> DEFINE r == req[p]
<1>1. user \in [Ids -> User \cup {None}]
  BY DEF Inv, Types
<1>2. Lawful(r) /\ r \in Shape
  BY CommitIs DEF Regular
<1>3. CASE r.wrote = {}
  <2>1. user' = user
    BY <1>3, CommitIs
  <2> QED BY <1>1, <1>3, <2>1 DEF Row
<1>4. CASE r.wrote # {}
  <2> DEFINE i == r.uid
             a == Applied(user[i], r.kind, r.email)
  <2>1. i \in Ids /\ (Creating(r) \/ Row(i)) /\ user' = [user EXCEPT ![i] = a]
    BY <1>4, CommitIs
  <2>2. user[i] # None \/ r.kind \in {"register", "google"}
    BY <2>1, NoneApart DEF Creating, Row
  <2>3. r.email \in Emails \cup {None} /\ user[i] \in User \cup {None} /\ i < next
    BY <1>1, <1>2, <2>1, NoneApart DEF Shape, Lawful
  <2>4. a \in User
    BY <2>2, <2>3, AppliedIs
  <2> HIDE DEF a
  <2>5. user'[i] = a /\ \A j \in Ids \ {i} : user'[j] = user[j]
    BY <1>1, <2>1
  <2>6. \A j \in Ids : user'[j] = user[j] \/ (j = i /\ user'[j] \in User)
    BY <2>4, <2>5
  <2>7. user' \in [Ids -> User \cup {None}]
    BY <1>1, <2>1, <2>4
  <2>8. \A j \in Ids : (Row(j) => Row(j)') /\ (user'[j] = None => user[j] = None)
    BY <2>6, NoneApart DEF Row
  <2> QED BY <1>4, <2>1, <2>2, <2>3, <2>5, <2>6, <2>7, <2>8 DEF a
<1> QED BY <1>3, <1>4

\* The row that was written.
LEMMA CommitRow ==
  ASSUME Inv, NEW p \in Requests, Commit(p), req[p].wrote # {}
  PROVE  LET r == req[p]
             row == user[r.uid]
             a == user'[r.uid]
         IN  /\ a \in User /\ r.uid \in Ids /\ r.kind \in Writers
             /\ row # None \/ r.kind \in {"register", "google"}
             /\ r.kind = "register" => a.email = r.email /\ ~a.verified
             /\ r.kind = "google" => IF row # None THEN a = row ELSE a.email = r.email
             /\ r.kind = "verifyEmail" => a.email = row.email
             /\ r.kind = "confirmChange" => a.email = r.email
             /\ r.kind = "setPassword" => a.email = row.email /\ a.verified = row.verified
             /\ r.kind = "erase" => a.email = None
             /\ r.kind = "unlink" => a = row
             /\ row # None /\ r.kind \notin {"register", "setPassword"} /\ ~row.password => ~a.password
<1> DEFINE r == req[p]
           k == r.kind
           e == r.email
           row == user[r.uid]
           a == user'[r.uid]
<1>1. /\ row \in User \cup {None} /\ e \in Emails \cup {None} /\ (row # None \/ k \in {"register", "google"})
      /\ a = Applied(row, k, e) /\ r.uid \in Ids /\ k \in Writers
  BY CommitRows, CommitIs DEF Regular
<1> HIDE DEF k, e, row, a
<1>2. /\ a \in User
      /\ k = "register" => a.email = e /\ ~a.verified
      /\ k = "google" => IF row # None THEN a = row ELSE a.email = e
      /\ k = "verifyEmail" => a.email = row.email
      /\ k = "confirmChange" => a.email = e
      /\ k = "setPassword" => a.email = row.email /\ a.verified = row.verified
      /\ k = "erase" => a.email = None
      /\ row # None /\ k \notin {"register", "setPassword"} /\ ~row.password => ~a.password
      /\ k \notin {"register", "google", "verifyEmail", "confirmChange", "setPassword", "erase"} => a = row
  BY <1>1, AppliedIs, SMT
<1> QED BY <1>1, <1>2 DEF k, e, row, a

\* Nobody inserts an account after it who did not before.
LEMMA CommitCreates ==
  ASSUME Inv, NEW p \in Requests, Commit(p), NEW q \in Requests
  PROVE  /\ q # p => req'[q] = req[q] /\ (Creating(req[q]) <=> Creating(req[q])')
         /\ Creating(req[q])' => q # p
<1>1. req' = [req EXCEPT ![p] = NoRequest] /\ req \in [Requests -> Shape]
  BY CommitIs DEF Inv, Types
<1>2. CASE q = p
  <2>1. req'[q] = NoRequest
    BY <1>1, <1>2
  <2>2. NoRequest.wrote = {}
    BY DEF NoRequest
  <2>3. ~Creating(req[q])'
    BY <2>1, <2>2 DEF Creating
  <2> QED BY <1>2, <2>3
<1>3. CASE q # p
  <2>1. req'[q] = req[q] /\ Lawful(req[q]) /\ Apart(req[p], req[q])
    BY <1>1, <1>3 DEF Inv
  <2>2. req[q].wrote # {} => req[q].uid \in Ids
    BY <2>1 DEF Lawful, Regular
  <2>3. ASSUME Creating(req[q]) PROVE user'[req[q].uid] = None
    <3>1. req[q].uid \in Ids /\ user[req[q].uid] = None
      BY <2>2, <2>3 DEF Creating
    <3>2. ASSUME req[p].uid = req[q].uid, req[p].wrote # {} PROVE FALSE
      <4>1. Creating(req[p]) \/ Row(req[p].uid)
        BY <3>2, CommitIs
      <4> QED BY <2>1, <2>3, <3>1, <3>2, <4>1, NoneApart DEF Apart, Row
    <3> QED BY <3>1, <3>2, CommitRows
  <2> QED BY <1>3, <2>1, <2>2, <2>3, CommitRows DEF Creating
<1> QED BY <1>2, <1>3

\* Who was given an address keeps it.
LEMMA CommitAddressed ==
  ASSUME Inv, NEW p \in Requests, Commit(p), NEW j, NEW e, Addressed(j, e)
  PROVE  Addressed(j, e)'
<1> DEFINE r == req[p]
<1>1. j \in Ids /\ e \in Emails
  BY DEF Addressed
<1>2. \A q \in Requests : Creating(req[q])' /\ req'[q].uid = j => req'[q].kind = "register" /\ req'[q].email = e
  BY CommitCreates DEF Addressed
<1>3. ASSUME Exists(j)' PROVE user'[j].email \in {e, None} \cup proven'[j]
  <2>1. proven[j] \subseteq proven'[j]
    BY <1>1, CommitIs
  <2>2. CASE user'[j] = user[j]
    BY <1>3, <2>1, <2>2 DEF Addressed, Exists
  <2>3. CASE j = r.uid /\ r.wrote # {}
    <3> DEFINE a == user'[j]
    <3>1. r.kind \in Writers
      BY <2>3, CommitRow
    <3>2. CASE Creating(r)
      <4>1. r.kind = "register" /\ r.email = e
        BY <2>3, <3>2 DEF Addressed
      <4>2. a.email = e
        BY <2>3, <4>1, CommitRow
      <4> QED BY <3>1, <4>2
    <3>3. CASE ~Creating(r)
      <4>1. user[j] # None /\ r.kind # "register"
        <5>1. user[j] \in User
          BY <2>3, <3>3, CommitIs DEF Row
        <5> QED BY <2>3, <3>3, <5>1, CommitIs, NoneApart DEF Regular
      <4>2. user[j].email \in {e, None} \cup proven[j]
        BY <4>1 DEF Addressed, Exists
      <4>3. CASE r.kind = "confirmChange"
        <5>1. r.email \in proven'[j]
          BY <2>3, <4>3, CommitIs
        <5>2. a.email = r.email
          BY <2>3, <4>3, CommitRow
        <5> QED BY <3>1, <5>1, <5>2
      <4>4. CASE r.kind = "erase"
        <5>1. a.email = None
          BY <2>3, <4>4, CommitRow
        <5> QED BY <3>1, <5>1
      <4>5. CASE r.kind \in {"google", "verifyEmail", "setPassword", "unlink"}
        <5>1. a.email = user[j].email
          BY <2>3, <4>1, <4>5, CommitRow
        <5> QED BY <2>1, <3>1, <4>2, <5>1
      <4> QED BY <3>1, <4>1, <4>3, <4>4, <4>5 DEF Writers
    <3> QED BY <3>2, <3>3
  <2> QED BY <1>1, <2>2, <2>3, CommitRows
<1> QED BY <1>1, <1>2, <1>3 DEF Addressed

\* The address of a row that becomes verified is proven.
LEMMA CommitVerifies ==
  ASSUME Inv, NEW p \in Requests, Commit(p) PROVE VerifiedProven'
<1> DEFINE r == req[p]
<1> SUFFICES ASSUME NEW j \in Ids, Exists(j)', user'[j].verified, user'[j].email # None
             PROVE  user'[j].email \in proven'[j]
  BY DEF VerifiedProven
<1>1. proven[j] \subseteq proven'[j]
  BY CommitIs
<1>2. CASE user'[j] = user[j]
  BY <1>1, <1>2 DEF Inv, VerifiedProven, Exists
<1>3. CASE j = r.uid /\ r.wrote # {}
  <2> DEFINE a == user'[j]
  <2>1. r.kind \in Writers /\ (user[j] # None \/ r.kind \in {"register", "google"})
    BY <1>3, CommitRow
  <2>2. CASE r.kind = "register"
    <3>1. ~a.verified
      BY <1>3, <2>2, CommitRow
    <3> QED BY <2>1, <3>1
  <2>3. CASE r.kind = "google" /\ user[j] = None
    <3>1. a.email = r.email /\ r.email \in proven'[j]
      BY <1>3, <2>3, CommitRow, CommitIs
    <3> QED BY <2>1, <3>1
  <2>4. CASE r.kind \in {"google", "unlink"} /\ user[j] # None
    <3>1. a = user[j]
      BY <1>3, <2>4, CommitRow
    <3> QED BY <1>2, <2>1, <3>1
  <2>5. CASE r.kind = "verifyEmail"
    <3>1. a.email = user[j].email /\ r.email \in proven'[j]
      BY <1>3, <2>5, CommitRow, CommitIs
    <3>2. Addressed(j, r.email)
      BY <1>3, <2>5, CommitIs DEF Lawful, Vouches
    <3>3. user[j].email \in {r.email, None} \cup proven[j]
      BY <2>1, <2>5, <3>2 DEF Addressed, Exists
    <3> QED BY <1>1, <2>1, <3>1, <3>3
  <2>6. CASE r.kind = "confirmChange"
    <3>1. a.email = r.email /\ r.email \in proven'[j]
      BY <1>3, <2>6, CommitRow, CommitIs
    <3> QED BY <2>1, <3>1
  <2>7. CASE r.kind = "setPassword"
    <3>1. a.email = user[j].email /\ a.verified = user[j].verified /\ user[j] # None
      BY <1>3, <2>1, <2>7, CommitRow
    <3> QED BY <1>1, <2>1, <3>1 DEF Inv, VerifiedProven, Exists
  <2>8. CASE r.kind = "erase"
    <3>1. a.email = None
      BY <1>3, <2>8, CommitRow
    <3> QED BY <2>1, <3>1
  <2> QED BY <2>1, <2>2, <2>3, <2>4, <2>5, <2>6, <2>7, <2>8 DEF Writers
<1> QED BY <1>2, <1>3, CommitRows

\* The links after it, and the last sign-ins.
LEMMA CommitLinks ==
  ASSUME Inv, NEW p \in Requests, Commit(p)
  PROVE  /\ link' \in [Subs -> Ids \cup {None}] /\ last' \in [Subs -> Ids \cup {None}]
         /\ \A g \in Subs : link'[g] # None => link'[g] < next /\ proven'[link'[g]] # {}
         /\ \A g \in Subs : last'[g] # None => link'[g] = last'[g]
<1> USE NoneApart
<1> DEFINE r == req[p]
           made(g) == r.kind = "google" /\ r.wrote # {} /\ g = r.sub
<1>1. PICK unlinks \in {r.kind = "unlink", r.kind \in {"unlink", "erase"}} :
        /\ link' = [g \in Subs |-> IF made(g) THEN r.uid
                                   ELSE IF unlinks /\ link[g] = r.uid THEN None ELSE link[g]]
        /\ last' = [g \in Subs |-> IF r.kind = "google" /\ g = r.sub /\ link'[g] = r.uid THEN r.uid
                                   ELSE IF r.kind \in {"unlink", "erase"} /\ last[g] = r.uid THEN None
                                   ELSE last[g]]
  BY DEF Commit
<1>2. unlinks => r.kind \in {"unlink", "erase"}
  OBVIOUS
<1>3. /\ link \in [Subs -> Ids \cup {None}] /\ last \in [Subs -> Ids \cup {None}]
      /\ \A g \in Subs : link[g] # None => link[g] < next /\ proven[link[g]] # {}
      /\ \A g \in Subs : last[g] # None => link[g] = last[g]
  BY DEF Inv, Types, LinkProven
<1>4. r.uid \in Ids \cup {None} /\ (r.wrote # {} => r.uid \in Ids /\ r.uid < next)
  BY CommitIs, CommitRows DEF Regular, Shape
<1>5. ASSUME r.kind = "google", r.wrote # {} PROVE proven'[r.uid] # {}
  <2>1. r.uid # None /\ (Creating(r) \/ proven[r.uid] # {})
    BY <1>4, <1>5, CommitIs DEF Regular
  <2>2. Creating(r) => r.email \in proven'[r.uid]
    BY <1>5, CommitIs DEF Creating
  <2>3. proven[r.uid] \subseteq proven'[r.uid]
    BY <1>4, <1>5, CommitIs
  <2> QED BY <2>1, <2>2, <2>3
<1> HIDE DEF made
<1>6. ASSUME NEW g \in Subs
      PROVE  /\ link'[g] \in Ids \cup {None} /\ last'[g] \in Ids \cup {None}
             /\ link'[g] # None => link'[g] < next /\ proven'[link'[g]] # {}
             /\ last'[g] # None => link'[g] = last'[g]
  <2>1. link'[g] = IF made(g) THEN r.uid ELSE IF unlinks /\ link[g] = r.uid THEN None ELSE link[g]
    BY <1>1
  <2>2. last'[g] = IF r.kind = "google" /\ g = r.sub /\ link'[g] = r.uid THEN r.uid
                   ELSE IF r.kind \in {"unlink", "erase"} /\ last[g] = r.uid THEN None ELSE last[g]
    BY <1>1
  <2>3. CASE made(g)
    <3>1. r.kind = "google" /\ r.wrote # {} /\ g = r.sub /\ link'[g] = r.uid
      BY <2>1, <2>3 DEF made
    <3> QED BY <1>4, <1>5, <2>2, <3>1
  <2>4. CASE ~made(g)
    <3>1. link'[g] = None \/ (link'[g] = link[g] /\ ~(unlinks /\ link[g] = r.uid))
      BY <2>1, <2>4
    <3>2. link[g] # None => proven'[link[g]] # {}
      <4> SUFFICES ASSUME link[g] # None PROVE proven'[link[g]] # {}
        OBVIOUS
      <4>1. link[g] \in Ids /\ proven[link[g]] # {}
        BY <1>3
      <4>2. proven[link[g]] \subseteq proven'[link[g]]
        BY <4>1, CommitIs
      <4> QED BY <4>1, <4>2
    <3>3. link'[g] \in Ids \cup {None} /\ (link'[g] # None => link'[g] < next /\ proven'[link'[g]] # {})
      BY <1>3, <3>1, <3>2
    <3>4. ASSUME last'[g] # None PROVE link'[g] = last'[g]
      <4>1. last'[g] = link'[g] \/ (last'[g] = last[g] /\ ~(r.kind \in {"unlink", "erase"} /\ last[g] = r.uid))
        BY <2>2, <3>4
      <4> QED BY <1>2, <1>3, <2>1, <2>4, <3>4, <4>1
    <3>5. last'[g] \in Ids \cup {None}
      BY <1>3, <1>4, <2>2
    <3> QED BY <3>3, <3>4, <3>5
  <2> QED BY <2>3, <2>4
<1>7. link' \in [Subs -> Ids \cup {None}]
  BY <1>1, <1>6
<1>8. last' \in [Subs -> Ids \cup {None}]
  BY <1>1, <1>6
<1> QED BY <1>6, <1>7, <1>8

\* The other requests stay lawful.
LEMMA CommitOthers ==
  ASSUME Inv, NEW p \in Requests, Commit(p), NEW q \in Requests, q # p
  PROVE  Lawful(req[q])'
<1> USE NoneApart
<1> DEFINE r == req[p]
           s == req[q]
<1>1. req'[q] = s /\ (Creating(s) <=> Creating(req[q])') /\ next' = next
  BY CommitCreates, CommitIs
<1>2. Lawful(s) /\ Regular(s) /\ s \in Shape /\ Apart(r, s)
  BY DEF Inv, Lawful, Regular
<1>3. ASSUME Sets(s) PROVE ~user'[s.uid].password
  <2>1. s.uid \in Ids /\ ~user[s.uid].password /\ user[s.uid] \in User
    BY <1>2, <1>3 DEF Regular, Sets, Targets, Row
  <2>2. CASE user'[s.uid] = user[s.uid]
    BY <2>1, <2>2
  <2>3. CASE s.uid = r.uid /\ r.wrote # {}
    <3>1. r.kind # "register"
      BY <2>1, <2>3, CommitIs DEF Regular, Creating
    <3>2. r.kind # "setPassword"
      BY <1>2, <1>3, <2>3, CommitIs DEF Apart, Sets
    <3>3. user[r.uid] # None /\ ~user[r.uid].password => ~user'[r.uid].password
      BY <2>3, <3>1, <3>2, CommitRow
    <3> QED BY <2>1, <2>3, <3>3
  <2> QED BY <2>1, <2>2, <2>3, CommitRows
<1>4. \A j \in Ids : Row(j) => Row(j)' /\ (proven[j] # {} => proven'[j] # {})
  <2>1. \A j \in Ids : proven[j] \subseteq proven'[j]
    BY CommitIs
  <2> QED BY <2>1, CommitRows
<1>5. s.uid # None => s.uid \in Ids
  BY <1>2 DEF Shape
<1>6. Regular(req[q])'
  <2>1. s.kind = "google" /\ s.uid # None /\ (s.pc = "write" \/ s.wrote # {}) =>
          Creating(req[q])' \/ (Row(s.uid)' /\ proven'[s.uid] # {})
    BY <1>1, <1>2, <1>4, <1>5 DEF Regular
  <2>2. Targets(s) => s.uid \in Ids /\ Row(s.uid)'
    <3>1. Targets(s) => s.uid \in Ids /\ Row(s.uid)
      BY <1>2 DEF Regular
    <3> QED BY <1>1, <1>4, <3>1
  <2>3. Sets(s) => s.uid \in s.wrote /\ ~user'[s.uid].password
    BY <1>2, <1>3 DEF Regular
  <2>4. s.kind = "register" => (s.wrote # {} => Creating(req[q])') /\ (s.pc = "mail" => s.wrote # {})
    BY <1>1, <1>2 DEF Regular
  <2>5. (Targets(req[q])' <=> Targets(s)) /\ (Sets(req[q])' <=> Sets(s))
    BY <1>1 DEF Targets, Sets
  <2> QED BY <1>1, <1>2, <2>1, <2>2, <2>3, <2>4, <2>5 DEF Regular
<1>7. Vouches(req[q])' => Addressed(req[q].uid, req[q].email)'
  BY <1>1, <1>2, CommitAddressed DEF Lawful, Vouches
<1> QED BY <1>1, <1>2, <1>6, <1>7 DEF Lawful

LEMMA CommitKeeps == ASSUME Inv, NEW p \in Requests, Commit(p) PROVE Inv'
<1> USE NoneApart
<1>1. /\ req' = [req EXCEPT ![p] = NoRequest] /\ next' = next /\ mail' = mail /\ gmail' = gmail
      /\ proven' \in [Ids -> SUBSET Emails]
  BY CommitIs
<1>2. Types'
  <2>1. NoRequest \in Shape
    BY NothingAsked DEF Lawful, Regular
  <2>2. req' \in [Requests -> Shape]
    BY <1>1, <2>1 DEF Inv, Types
  <2>3. next' \in Nat /\ mail' \in SUBSET Mail /\ gmail' \in [Subs -> Emails]
    BY <1>1 DEF Inv, Types
  <2> QED BY <1>1, <2>2, <2>3, CommitRows, CommitLinks DEF Types
<1>3. \A i \in Ids : Exists(i)' => i < next'
  BY <1>1, CommitRows DEF Inv, Exists
<1>4. (\A g \in Subs : link[g] # None => link[g] < next)' /\ LinkProven'
      /\ (\A g \in Subs : last[g] # None => link[g] = last[g])'
  BY <1>1, CommitLinks DEF LinkProven
<1>5. \A m \in mail' : Mailed(m)'
  BY <1>1, CommitAddressed DEF Inv, Mailed
<1>6. \A q \in Requests : Lawful(req[q])'
  <2> SUFFICES ASSUME NEW q \in Requests PROVE Lawful(req[q])'
    OBVIOUS
  <2>1. CASE q # p
    BY <2>1, CommitOthers
  <2>2. CASE q = p
    <3>1. req'[q] = NoRequest
      BY <1>1, <2>2 DEF Inv, Types
    <3>2. /\ NoRequest.kind = None /\ NoRequest.pc = "idle" /\ NoRequest.uid = None
          /\ NoRequest.wrote = {} /\ NoRequest \in Shape
      BY DEF NoRequest, Shape, Pcs
    <3>3. None \notin {"register", "google", "setPassword", "unlink", "erase", "verifyEmail", "confirmChange",
                       "resend", "requestChange"}
      BY DEF Kinds
    <3>4. ~Vouches(req[q])' /\ ~Targets(req[q])' /\ ~Sets(req[q])'
      BY <3>1, <3>2, <3>3 DEF Vouches, Targets, Sets
    <3>5. Regular(req[q])'
      BY <3>1, <3>2, <3>3, <3>4 DEF Regular
    <3> QED BY <3>1, <3>2, <3>4, <3>5 DEF Lawful
  <2> QED BY <2>1, <2>2
<1>7. \A q, s \in Requests : q # s => Apart(req[q], req[s])'
  <2> SUFFICES ASSUME NEW q \in Requests, NEW s \in Requests, q # s PROVE Apart(req[q], req[s])'
    OBVIOUS
  <2>1. \A t \in Requests : Sets(req[t])' => t # p
    <3>1. NoRequest.kind # "setPassword"
      BY NothingAsked DEF NoRequest, Kinds
    <3> QED BY <1>1, <3>1 DEF Sets, Inv, Types
  <2>2. \A t \in Requests \ {p} : req'[t] = req[t] /\ (Creating(req[t]) <=> Creating(req[t])') /\ (Sets(req[t]) <=> Sets(req[t])')
    BY CommitCreates DEF Sets
  <2>3. \A t \in Requests : Creating(req[t])' => t # p
    BY CommitCreates
  <2>4. Apart(req[q], req[s])
    BY DEF Inv
  <2> QED BY <2>1, <2>2, <2>3, <2>4 DEF Apart
<1> QED BY <1>2, <1>3, <1>4, <1>5, <1>6, <1>7, CommitVerifies DEF Inv

-----------------------------------------------------------------------------
(* The behaviours. *)

LEMMA InitInv == Init => Inv
<1> SUFFICES ASSUME Init PROVE Inv
  OBVIOUS
<1> USE NoneApart
<1>1. /\ user = [i \in Ids |-> None] /\ link = [g \in Subs |-> None] /\ next = 1 /\ mail = {}
      /\ gmail \in [Subs -> Emails] /\ req = [p \in Requests |-> NoRequest]
      /\ proven = [i \in Ids |-> {}] /\ last = [g \in Subs |-> None]
  BY DEF Init
<1>2. 1 \in Nat
  BY SMT
<1>3. NoRequest \in Shape /\ Lawful(NoRequest)
  BY NothingAsked DEF Lawful, Regular
<1>4. Types
  BY <1>1, <1>2, <1>3 DEF Types
<1>5. \A i \in Ids : ~Exists(i)
  BY <1>1 DEF Exists
<1>6. \A g \in Subs : link[g] = None /\ last[g] = None
  BY <1>1
<1>7. \A q \in Requests : req[q] = NoRequest
  BY <1>1
<1>8. VerifiedProven /\ LinkProven
  BY <1>5, <1>6 DEF VerifiedProven, LinkProven
<1> QED BY <1>1, <1>3, <1>4, <1>5, <1>6, <1>7, <1>8, NothingAsked DEF Inv, Apart

LEMMA StepInv == ASSUME Inv, NEW p \in Requests, Step(p) PROVE Inv'
<1>1. CASE Begin(p)
  BY <1>1, BeginKeeps
<1>2. CASE \/ CountRegister(p) \/ CountResend(p) \/ CountChange(p) \/ Admit(p) \/ Take(p) \/ Stage(p) \/ Abort(p)
  BY <1>2, CountKeeps
<1>3. CASE \/ FindRegister(p) \/ FindChange(p) \/ FindVerify(p) \/ FindConfirm(p) \/ FindSetPassword(p)
           \/ FindUnlink(p) \/ FindErase(p)
  BY <1>3, FindKeeps
<1>4. CASE FindResend(p)
  BY <1>4, FindResendKeeps
<1>5. CASE FindGoogle(p)
  BY <1>5, FindGoogleKeeps
<1>6. CASE CreateUser(p) \/ CreateGoogleUser(p)
  BY <1>6, CreateKeeps
<1>7. CASE LinkIdentity(p) \/ UpdateEmail(p) \/ SetFirstPassword(p) \/ WriteRow(p)
  BY <1>7, WriteKeeps
<1>8. CASE SendMail(p) \/ SendAlert(p)
  BY <1>8, SendMailKeeps, SendAlertKeeps
<1>9. CASE Commit(p)
  BY <1>9, CommitKeeps
<1> QED BY <1>1, <1>2, <1>3, <1>4, <1>5, <1>6, <1>7, <1>8, <1>9 DEF Step

LEMMA NextInv == Inv /\ [Next]_vars => Inv'
<1> SUFFICES ASSUME Inv, [Next]_vars PROVE Inv'
  OBVIOUS
<1>1. gmail \in [Subs -> Emails]
  BY DEF Inv, Types
<1>2. ASSUME NEW p \in Requests, Step(p) PROVE Inv'
  BY <1>2, StepInv
<1>3. CASE BeginLogin
  <2>1. UNCHANGED <<user, link, proven, last, next, mail, req>> /\ gmail' = gmail
    BY <1>3 DEF BeginLogin, tables, world, ghosts
  <2> QED BY <1>1, <2>1, Stays
<1>4. ASSUME NEW g \in Subs, NEW e \in Emails, GmailChanges(g, e) PROVE Inv'
  <2>1. UNCHANGED <<user, link, proven, last, next, mail, req>> /\ gmail' = [gmail EXCEPT ![g] = e]
    BY <1>4 DEF GmailChanges, tables, ghosts
  <2>2. gmail' \in [Subs -> Emails]
    BY <1>1, <1>4, <2>1
  <2> QED BY <2>1, <2>2, Stays
<1>5. CASE UNCHANGED vars
  <2>1. UNCHANGED <<user, link, proven, last, next, mail, req>> /\ gmail' = gmail
    BY <1>5 DEF vars, tables, world, ghosts
  <2> QED BY <1>1, <2>1, Stays
<1> QED BY <1>2, <1>3, <1>4, <1>5 DEF Next

LEMMA SpecInv == Spec => []Inv
BY InitInv, NextInv, PTL DEF Spec

\* is_email_verified is set only for an address whose mailbox answered for this
\* account or that Google vouched for: SetEmailVerified, the commit of a change
\* and createGoogleUser are the writes that set it, and the token each of them
\* is given names the account and was mailed to the address.
THEOREM VerifiedAddressesProven == Spec => []VerifiedProven
BY SpecInv, PTL DEF Inv

\* findOrCreateUser links a Google account to no account that has never shown
\* control of an address, whatever happens between the look-up and the commit.
THEOREM LinksProven == Spec => []LinkProven
BY SpecInv, PTL DEF Inv

\* findOrCreateUser sends a linked Google account to the account of its last
\* sign-in, whatever address it has by then: the link is looked up first, and
\* only unlinking or an erasure takes it away.
THEOREM GoogleSameAccount == Spec => SameAccount
<1> DEFINE Same == \A p \in Requests :
             FindGoogle(p) /\ req'[p].pc # "idle" /\ last[req[p].sub] # None =>
               req'[p].uid = last[req[p].sub]
<1>1. Inv /\ [Next]_vars => [Same]_vars
  <2> SUFFICES ASSUME Inv, NEW p \in Requests, FindGoogle(p), req'[p].pc # "idle", last[req[p].sub] # None
               PROVE  req'[p].uid = last[req[p].sub]
    OBVIOUS
  <2> DEFINE r == req[p]
             g == r.sub
  <2>1. r \in Shape /\ r.kind = "google" /\ g \in Subs /\ req \in [Requests -> Shape]
    BY DEF Inv, Types, Lawful, Regular, FindGoogle
  <2>2. link[g] = last[g] /\ link[g] # None
    BY <2>1 DEF Inv
  <2>3. Resolved(g, r.email) = {link[g]}
    BY <2>2 DEF Resolved
  <2>4. End(p) \/ req' = [req EXCEPT ![p].uid = link[g], ![p].pc = "commit"]
    BY <2>2, <2>3 DEF FindGoogle
  <2>5. ~End(p)
    <3>1. NoRequest.pc = "idle"
      BY DEF NoRequest
    <3> QED BY <2>1, <3>1 DEF End
  <2>6. req'[p] = [r EXCEPT !.uid = link[g], !.pc = "commit"]
    BY <2>1, <2>4, <2>5
  <2> QED BY <2>1, <2>2, <2>6 DEF Shape
<1> QED BY <1>1, SpecInv, PTL DEF Spec, SameAccount

\* SetPassword: a first password is only given to an account that has none when
\* it is committed, however many requests give one at once; the row stays locked
\* from the conditional UPDATE to the commit.
THEOREM FirstPasswordGivenOnce == Spec => FirstPasswordOnce
<1> DEFINE Once == \A p \in Requests :
             Commit(p) /\ req[p].kind = "setPassword" => ~user[req[p].uid].password
<1>1. Inv /\ [Next]_vars => [Once]_vars
  <2> SUFFICES ASSUME Inv, NEW p \in Requests, Commit(p), req[p].kind = "setPassword"
               PROVE  ~user[req[p].uid].password
    OBVIOUS
  <2> QED BY CommitIs DEF Regular, Sets
<1> QED BY <1>1, SpecInv, PTL DEF Spec, FirstPasswordOnce

-----------------------------------------------------------------------------
(* The limits on mails *)

LEMMA Amounts ==
  /\ IsFiniteSet(Requests) /\ RegisterPerIPMax \in Nat /\ ResendMax \in Nat /\ ResendPerEmailMax \in Nat
  /\ None \notin Emails
BY AccountsAssumption, NoneAssumption

LEMMA Tops == ASSUME NEW k, NEW a PROVE Top(k, a) \in Nat
BY Amounts DEF Top, Limit

LEMMA Incremented ==
  ASSUME NEW K, NEW c \in Counters(K), NEW k \in K, NEW keys, NEW d, d = IncrBy(c, k, keys)
  PROVE  /\ d \in Counters(K)
         /\ \A a \in Emails \cup {None} : d[k][a] = IF a \in keys THEN c[k][a] + 1 ELSE c[k][a]
         /\ \A h \in K \ {k} : d[h] = c[h]
<1>1. PICK r : r = [a \in Emails \cup {None} |-> IF a \in keys THEN c[k][a] + 1 ELSE c[k][a]]
  OBVIOUS
<1>2. r \in [Emails \cup {None} -> Nat]
  BY <1>1, SMT DEF Counters
<1>3. d = [c EXCEPT ![k] = r]
  BY <1>1 DEF IncrBy
<1> QED BY <1>1, <1>2, <1>3 DEF Counters

LEMMA WaitingIs ==
  ASSUME NEW k, NEW a
  PROVE  IsFiniteSet(Waiting(k, a)) /\ Cardinality(Waiting(k, a)) \in Nat /\ Waiting(k, a) \subseteq Requests
<1>1. Waiting(k, a) \subseteq Requests
  BY DEF Waiting
<1> QED BY <1>1, Amounts, FS_Subset, FS_CardinalityType

LEMMA CounterIs == ASSUME NEW k \in Mails PROVE Counter(k) \in Counted
BY DEF Counter, Mails, Counted

\* A request becomes n: those that wait are the others and perhaps it.
LEMMA WaitingMoves ==
  ASSUME Inv, NEW p \in Requests, NEW n, req' = [req EXCEPT ![p] = n], NEW k, NEW a
  PROVE  /\ Cardinality(Waiting(k, a)') \in Nat
         /\ Cardinality(Waiting(k, a)') <= Cardinality(Waiting(k, a)) + 1
         /\ (Waits(n, k, a) => Waits(req[p], k, a)) =>
              Cardinality(Waiting(k, a)') <= Cardinality(Waiting(k, a))
         /\ ~Waits(n, k, a) /\ Waits(req[p], k, a) =>
              Cardinality(Waiting(k, a)') = Cardinality(Waiting(k, a)) - 1
<1> DEFINE w == Waiting(k, a)
<1>1. \A q \in Requests : req'[q] = IF q = p THEN n ELSE req[q]
  BY DEF Inv, Types
<1>2. PICK v : v = Waiting(k, a)'
  OBVIOUS
<1>3. v = IF Waits(n, k, a) THEN w \cup {p} ELSE w \ {p}
  <2>1. \A q : q \in v <=> q \in Requests /\ Waits(req'[q], k, a)
    BY <1>2 DEF Waiting, Waits, Pending, To
  <2> QED BY <1>1, <2>1 DEF Waiting
<1>4. p \in w <=> Waits(req[p], k, a)
  BY DEF Waiting
<1>5. IsFiniteSet(w) /\ Cardinality(w) \in Nat
  BY WaitingIs
<1> HIDE DEF w
<1>6. /\ Cardinality(w \cup {p}) = IF p \in w THEN Cardinality(w) ELSE Cardinality(w) + 1
      /\ Cardinality(w \ {p}) = IF p \in w THEN Cardinality(w) - 1 ELSE Cardinality(w)
      /\ IsFiniteSet(w \cup {p}) /\ IsFiniteSet(w \ {p})
  BY <1>5, FS_AddElement, FS_RemoveElement
<1>7. Cardinality(v) \in Nat
  BY <1>3, <1>6, FS_CardinalityType
<1>8. /\ Cardinality(v) <= Cardinality(w) + 1
      /\ (Waits(n, k, a) => Waits(req[p], k, a)) => Cardinality(v) <= Cardinality(w)
      /\ ~Waits(n, k, a) /\ Waits(req[p], k, a) => Cardinality(v) = Cardinality(w) - 1
  BY <1>3, <1>4, <1>5, <1>6, SMT
<1> QED BY <1>2, <1>7, <1>8 DEF w

\* What a request that becomes n may do to a layer: nothing; pass the limit; send
\* its mail; pass the limit and mail at once.
Kept(p, n, k, a) ==
  /\ sent'[k][a] = sent[k][a] /\ count'[Counter(k)][a] >= count[Counter(k)][a]
  /\ Waits(n, k, a) => Waits(req[p], k, a)
Passed(k, a) ==
  /\ sent'[k][a] = sent[k][a] /\ count'[Counter(k)][a] = count[Counter(k)][a] + 1
  /\ count[Counter(k)][a] < Top(k, a)
Sent(p, n, k, a) ==
  /\ sent'[k][a] = sent[k][a] + 1 /\ count'[Counter(k)][a] = count[Counter(k)][a]
  /\ ~Waits(n, k, a) /\ Waits(req[p], k, a)
Alerted(p, n, k, a) ==
  /\ sent'[k][a] = sent[k][a] + 1 /\ count'[Counter(k)][a] = count[Counter(k)][a] + 1
  /\ count[Counter(k)][a] < Top(k, a)
  /\ Waits(n, k, a) => Waits(req[p], k, a)
Spends(p, n, k, a) == Kept(p, n, k, a) \/ Passed(k, a) \/ Sent(p, n, k, a) \/ Alerted(p, n, k, a)

LEMMA LayerKeeps ==
  ASSUME Inv, Budget, NEW p \in Requests, NEW n, req' = [req EXCEPT ![p] = n],
         count' \in Counters(Counted), sent' \in Counters(Mails),
         NEW k \in Mails, NEW a \in Emails \cup {None}, Layer(k, a), Spends(p, n, k, a)
  PROVE  Within(k, a)'
<1>1. PICK s, t, c, d, w, v, m :
        /\ s = sent[k][a] /\ t = sent'[k][a] /\ c = count[Counter(k)][a] /\ d = count'[Counter(k)][a]
        /\ w = Cardinality(Waiting(k, a)) /\ v = Cardinality(Waiting(k, a)') /\ m = Top(k, a)
  OBVIOUS
<1>2. s \in Nat /\ t \in Nat /\ c \in Nat /\ d \in Nat /\ m \in Nat
  BY <1>1, CounterIs, Tops DEF Budget, Counters
<1>3. w \in Nat /\ v \in Nat /\ v <= w + 1
  BY <1>1, WaitingIs, WaitingMoves
<1>4. s + w <= c /\ s + w <= m
  BY <1>1 DEF Budget, Within
<1>5. CASE Kept(p, n, k, a)
  <2>1. t = s /\ d >= c /\ v <= w
    BY <1>1, <1>5, WaitingMoves DEF Kept
  <2>2. t + v <= d /\ t + v <= m
    BY <1>2, <1>3, <1>4, <2>1, SMT
  <2> QED BY <1>1, <2>2 DEF Within, Top, Limit, Counter
<1>6. CASE Passed(k, a)
  <2>1. t = s /\ d = c + 1 /\ c < m
    BY <1>1, <1>6 DEF Passed
  <2>2. t + v <= d /\ t + v <= m
    BY <1>2, <1>3, <1>4, <2>1, SMT
  <2> QED BY <1>1, <2>2 DEF Within, Top, Limit, Counter
<1>7. CASE Sent(p, n, k, a)
  <2>1. t = s + 1 /\ d = c
    BY <1>1, <1>7 DEF Sent
  <2>2. v = w - 1
    <3>1. ~Waits(n, k, a) /\ Waits(req[p], k, a)
      BY <1>7 DEF Sent
    <3>2. Cardinality(Waiting(k, a)') = Cardinality(Waiting(k, a)) - 1
      BY <3>1, WaitingMoves
    <3> QED BY <1>1, <3>2
  <2>3. t + v <= d /\ t + v <= m
    BY <1>2, <1>3, <1>4, <2>1, <2>2, SMT
  <2> QED BY <1>1, <2>3 DEF Within, Top, Limit, Counter
<1>8. CASE Alerted(p, n, k, a)
  <2>1. t = s + 1 /\ d = c + 1 /\ c < m /\ v <= w
    BY <1>1, <1>8, WaitingMoves DEF Alerted
  <2>2. t + v <= d /\ t + v <= m
    BY <1>2, <1>3, <1>4, <2>1, SMT
  <2> QED BY <1>1, <2>2 DEF Within, Top, Limit, Counter
<1> QED BY <1>5, <1>6, <1>7, <1>8 DEF Spends

LEMMA BudgetKeeps ==
  ASSUME Inv, Budget, NEW p \in Requests, NEW n, req' = [req EXCEPT ![p] = n],
         count' \in Counters(Counted), sent' \in Counters(Mails),
         \A k \in Mails, a \in Emails \cup {None} : Layer(k, a) => Spends(p, n, k, a)
  PROVE  Budget'
<1>1. \A k \in Mails, a \in Emails \cup {None} : Layer(k, a) => Within(k, a)'
  BY LayerKeeps
<1> QED BY <1>1 DEF Budget, Layer

LEMMA Same ==
  ASSUME Budget, NEW k \in Mails, NEW a \in Emails \cup {None}
  PROVE  count[Counter(k)][a] >= count[Counter(k)][a]
<1>1. count[Counter(k)][a] \in Nat
  BY CounterIs DEF Budget, Counters
<1> QED BY <1>1, SMT

\* A request goes on, and no limit is asked and nothing mailed.
LEMMA BudgetStays ==
  ASSUME Inv, Budget, NEW p \in Requests, NEW n, req' = [req EXCEPT ![p] = n], UNCHANGED <<count, sent>>,
         \A k \in Mails : Pending(n, k) => Pending(req[p], k) /\ To(n, k) = To(req[p], k)
  PROVE  Budget'
<1>1. count' \in Counters(Counted) /\ sent' \in Counters(Mails)
  BY DEF Budget
<1>2. ASSUME NEW k \in Mails, NEW a \in Emails \cup {None} PROVE Kept(p, n, k, a)
  BY <1>2, Same DEF Kept, Waits
<1> QED BY <1>1, <1>2, BudgetKeeps DEF Spends

LEMMA NothingPending == ASSUME NEW k PROVE ~Pending(NoRequest, k)
<1>1. NoRequest.pc = "idle"
  BY DEF NoRequest
<1> QED BY <1>1 DEF Pending

\* What the limits of k count for e: one more where a layer was asked, and every
\* layer was asked, and below its limit, when the request passes.
LEMMA CountsAre ==
  ASSUME Budget, NEW k \in Counted, NEW e, Counts(k, e)
  PROVE  /\ count' \in Counters(Counted)
         /\ \A h \in Counted, a \in Emails \cup {None} :
              /\ count'[h][a] >= count[h][a]
              /\ h = k /\ (a = None \/ (k # "register" /\ a = e)) /\ Passes(k, e) =>
                   count'[h][a] = count[h][a] + 1 /\ count[h][a] < Top(h, a)
<1>1. PICK keys : /\ keys = (IF k # "register" /\ count[k][None] < Limit(k) THEN {None, e} ELSE {None})
                  /\ count' = IncrBy(count, k, keys)
  BY DEF Counts
<1>2. count \in Counters(Counted)
  BY DEF Budget
<1>3. /\ count' \in Counters(Counted)
      /\ \A a \in Emails \cup {None} : count'[k][a] = IF a \in keys THEN count[k][a] + 1 ELSE count[k][a]
      /\ \A h \in Counted \ {k} : count'[h] = count[h]
  BY <1>1, <1>2, Incremented, SMTT(20)
<1>4. ASSUME NEW h \in Counted, NEW a \in Emails \cup {None} PROVE count'[h][a] >= count[h][a]
  <2>1. count[h][a] \in Nat
    BY <1>2, <1>4 DEF Counters
  <2>2. count'[h][a] = count[h][a] \/ count'[h][a] = count[h][a] + 1
    BY <1>3, <1>4
  <2> QED BY <2>1, <2>2, SMT
<1>5. ASSUME NEW a \in Emails \cup {None}, a = None \/ (k # "register" /\ a = e), Passes(k, e)
      PROVE  count'[k][a] = count[k][a] + 1 /\ count[k][a] < Top(k, a)
  <2>1. count[k][None] < Limit(k) /\ (k # "register" => count[k][e] < ResendPerEmailMax)
    BY <1>5 DEF Passes
  <2>2. a \in keys
    BY <1>1, <1>5, <2>1
  <2> QED BY <1>3, <1>5, <2>1, <2>2 DEF Top
<1> QED BY <1>3, <1>4, <1>5

\* A request is counted and perhaps passes.
LEMMA BudgetAsked ==
  ASSUME Inv, Budget, NEW p \in Requests, NEW n, req' = [req EXCEPT ![p] = n], sent' = sent,
         NEW k \in Counted, NEW e, Counts(k, e),
         \A h \in Mails :
           Pending(n, h) => Counter(h) = k /\ Passes(k, e) /\ (h \in {"resend", "alert"} => To(n, h) = e)
  PROVE  Budget'
<1>1. count' \in Counters(Counted) /\ sent' \in Counters(Mails)
  BY CountsAre DEF Budget
<1>2. ASSUME NEW h \in Mails, NEW a \in Emails \cup {None}, Layer(h, a) PROVE Spends(p, n, h, a)
  <2>1. CASE Waits(n, h, a)
    <3>1. Counter(h) = k /\ Passes(k, e) /\ Pending(n, h)
      BY <1>2, <2>1 DEF Waits
    <3>2. a # None => h \in {"resend", "alert"} /\ k # "register"
      BY <1>2, <3>1 DEF Layer, Pending, Counter
    <3>3. a # None => a = e
      BY <1>2, <2>1, <3>1, <3>2 DEF Waits
    <3>4. count'[k][a] = count[k][a] + 1 /\ count[k][a] < Top(k, a)
      BY <1>2, <3>1, <3>2, <3>3, CountsAre
    <3>5. Top(h, a) = Top(k, a)
      BY <3>1 DEF Top, Limit, Counter
    <3> QED BY <1>2, <3>1, <3>4, <3>5 DEF Spends, Passed
  <2>2. CASE ~Waits(n, h, a)
    BY <1>2, <2>2, CounterIs, CountsAre DEF Spends, Kept
  <2> QED BY <2>1, <2>2
<1> QED BY <1>1, <1>2, BudgetKeeps

\* The alert to the owner of the address.
LEMMA BudgetAlerted ==
  ASSUME Inv, Budget, NEW p \in Requests, req[p].kind = "register", Duplicate(p)
  PROVE  Budget'
<1> DEFINE r == req[p]
           e == r.email
           n == [r EXCEPT !.pc = "commit"]
<1>1. r \in Shape /\ e \in Emails
  BY DEF Inv, Lawful, Regular
<1>2. req' = [req EXCEPT ![p] = n] /\ n.pc = "commit"
  BY <1>1 DEF Duplicate, Go, Shape
<1>3. Counts("dup", e) /\ IF Passes("dup", e) THEN Sends("dup", e) ELSE UNCHANGED sent
  BY DEF Duplicate
<1> HIDE DEF n, e
<1>4. \A k \in Mails : ~Pending(n, k)
  BY <1>2 DEF Pending
<1>5. "dup" \in Counted /\ "dup" \in Mails /\ Counter("dup") = "dup" /\ sent \in Counters(Mails)
  BY DEF Budget, Counted, Mails, Counter
<1>6. CASE Passes("dup", e)
  <2>1. /\ sent' \in Counters(Mails)
        /\ \A a \in Emails \cup {None} :
             sent'["dup"][a] = IF a \in {None, e} THEN sent["dup"][a] + 1 ELSE sent["dup"][a]
        /\ \A h \in Mails \ {"dup"} : sent'[h] = sent[h]
    BY <1>3, <1>5, <1>6, Incremented, SMTT(20) DEF Sends
  <2>2. ASSUME NEW h \in Mails, NEW a \in Emails \cup {None}, Layer(h, a) PROVE Spends(p, n, h, a)
    <3>1. CASE h = "dup" /\ a \in {None, e}
      <4>1. count'[h][a] = count[h][a] + 1 /\ count[h][a] < Top(h, a)
        BY <1>3, <1>5, <1>6, <2>2, <3>1, CountsAre
      <4> QED BY <1>4, <1>5, <2>1, <2>2, <3>1, <4>1 DEF Spends, Alerted, Waits
    <3>2. CASE ~(h = "dup" /\ a \in {None, e})
      <4>1. sent'[h][a] = sent[h][a]
        BY <2>1, <2>2, <3>2
      <4>2. count'[Counter(h)][a] >= count[Counter(h)][a]
        BY <1>3, <1>5, <2>2, CounterIs, CountsAre
      <4> QED BY <1>4, <2>2, <4>1, <4>2 DEF Spends, Kept, Waits
    <3> QED BY <3>1, <3>2
  <2>3. count' \in Counters(Counted)
    BY <1>3, <1>5, CountsAre
  <2> QED BY <1>2, <2>1, <2>2, <2>3, BudgetKeeps
<1>7. CASE ~Passes("dup", e)
  <2>1. sent' = sent
    BY <1>3, <1>7
  <2> QED BY <1>2, <1>3, <1>4, <1>5, <2>1, BudgetAsked
<1> QED BY <1>6, <1>7

\* The notifier is called for a request that has passed.
LEMMA BudgetPosts ==
  ASSUME Inv, Budget, NEW p \in Requests, NEW k \in Mails, Pending(req[p], k), k # "dup",
         NEW n, req' = [req EXCEPT ![p] = n], ~Pending(n, k), count' = count,
         \A h \in Mails : Pending(n, h) => Pending(req[p], h) /\ To(n, h) = To(req[p], h),
         Sends(k, To(req[p], k)) \/ sent' = sent
  PROVE  Budget'
<1> DEFINE e == To(req[p], k)
<1>1. CASE Sends(k, e)
  <2>1. /\ sent' \in Counters(Mails)
        /\ \A a \in Emails \cup {None} : sent'[k][a] = IF a \in {None, e} THEN sent[k][a] + 1 ELSE sent[k][a]
        /\ \A h \in Mails \ {k} : sent'[h] = sent[h]
    <3> HIDE DEF e
    <3> QED BY <1>1, Incremented, SMTT(20) DEF Sends, Budget
  <2>2. ASSUME NEW h \in Mails, NEW a \in Emails \cup {None}, Layer(h, a) PROVE Spends(p, n, h, a)
    <3>1. CASE h = k /\ a \in {None, e}
      <4>1. Waits(req[p], k, a) /\ ~Waits(n, k, a)
        BY <3>1 DEF Waits
      <4> QED BY <2>1, <2>2, <3>1, <4>1 DEF Spends, Sent
    <3>2. CASE ~(h = k /\ a \in {None, e})
      <4>1. sent'[h][a] = sent[h][a]
        BY <2>1, <2>2, <3>2
      <4> QED BY <2>2, <4>1, Same DEF Spends, Kept, Waits
    <3> QED BY <3>1, <3>2
  <2>3. count' \in Counters(Counted)
    BY DEF Budget
  <2> QED BY <2>1, <2>2, <2>3, BudgetKeeps
<1>2. CASE sent' = sent
  BY <1>2, BudgetStays
<1> QED BY <1>1, <1>2

LEMMA BudgetMailed ==
  ASSUME Inv, Budget, NEW p \in Requests, SendMail(p)
  PROVE  Budget'
<1> DEFINE r == req[p]
           k == IF r.kind = "requestChange" THEN "change" ELSE r.kind
<1>1. r \in Shape /\ r.pc = "mail" /\ r.kind \in {"register", "resend", "requestChange"}
  BY DEF Inv, Lawful, Regular, SendMail
<1>2. k \in Mails /\ Pending(r, k) /\ k # "dup" /\ k # "alert"
  BY <1>1, SMT DEF Mails, Counted, Pending
<1>3. PICK n : /\ req' = [req EXCEPT ![p] = n]
               /\ n.pc \in {"idle", "commit"} \/ (n.pc = "alert" /\ n.kind = r.kind /\ n.old = r.old)
  <2>1. ASSUME NEW c PROVE [r EXCEPT !.pc = c].pc = c /\ [r EXCEPT !.pc = c].kind = r.kind /\ [r EXCEPT !.pc = c].old = r.old
    BY <1>1 DEF Shape
  <2>2. CASE \E c \in {"commit", "alert"} : Go(p, c)
    BY <2>1, <2>2 DEF Go
  <2>3. CASE End(p)
    <3>1. NoRequest.pc = "idle"
      BY DEF NoRequest
    <3> QED BY <2>3, <3>1 DEF End
  <2> QED BY <2>2, <2>3 DEF SendMail
<1>4. \A h \in Mails : Pending(n, h) => h = "alert" /\ Pending(r, h) /\ To(n, h) = To(r, h)
  BY <1>1, <1>3 DEF Pending, To
<1>5. To(r, k) = r.email
  BY <1>2 DEF To
<1>6. count' = count /\ (Sends(k, To(r, k)) \/ sent' = sent)
  BY <1>5 DEF SendMail, store
<1> HIDE DEF k
<1>7. ~Pending(n, k)
  BY <1>2, <1>4
<1> QED BY <1>2, <1>3, <1>4, <1>6, <1>7, BudgetPosts

\* The alert to the address that asked for a change.
LEMMA BudgetAnnounced ==
  ASSUME Inv, Budget, NEW p \in Requests, SendAlert(p)
  PROVE  Budget'
<1> DEFINE r == req[p]
<1>1. r.pc = "alert" /\ r.kind = "requestChange" /\ "alert" \in Mails
  BY DEF Inv, Lawful, Regular, SendAlert, Mails
<1>2. Pending(r, "alert") /\ To(r, "alert") = r.old
  BY <1>1 DEF Pending, To
<1>3. req' = [req EXCEPT ![p] = NoRequest] /\ count' = count /\ (Sends("alert", r.old) \/ sent' = sent)
  BY DEF SendAlert, End, store
<1> QED BY <1>1, <1>2, <1>3, NothingPending, BudgetPosts

Mailing == {"register", "resend", "requestChange"}

\* A request goes on that was past its limits, that is of a kind without limits,
\* or that is done with its mail.
LEMMA BudgetOn ==
  ASSUME Inv, Budget, NEW p \in Requests, NEW n, req' = [req EXCEPT ![p] = n], UNCHANGED <<count, sent>>,
         n.kind = req[p].kind, n.email = req[p].email, n.old = req[p].old,
         n.pc = "commit" \/ req[p].kind \notin Mailing
         \/ (n.pc # "alert" /\ \E k \in Counted : Pending(req[p], k))
  PROVE  Budget'
<1>1. \A k \in Mails : Pending(n, k) => Pending(req[p], k)
  BY DEF Pending, Mailing, Counted
<1>2. \A k \in Mails : To(n, k) = To(req[p], k)
  BY DEF To
<1> QED BY <1>1, <1>2, BudgetStays

LEMMA BudgetGoes ==
  ASSUME Inv, Budget, NEW p \in Requests, NEW c, Go(p, c), UNCHANGED <<count, sent>>,
         c = "commit" \/ req[p].kind \notin Mailing
         \/ (c # "alert" /\ \E k \in Counted : Pending(req[p], k))
  PROVE  Budget'
<1> DEFINE n == [req[p] EXCEPT !.pc = c]
<1>1. req[p] \in Shape
  BY DEF Inv, Types
<1>2. n.kind = req[p].kind /\ n.email = req[p].email /\ n.old = req[p].old /\ n.pc = c
  BY <1>1 DEF Shape
<1>3. req' = [req EXCEPT ![p] = n]
  BY DEF Go
<1> HIDE DEF n
<1> QED BY <1>2, <1>3, BudgetOn

LEMMA BudgetEnds ==
  ASSUME Inv, Budget, NEW p \in Requests, End(p), UNCHANGED <<count, sent>>
  PROVE  Budget'
BY NothingPending, BudgetStays DEF End

LEMMA BudgetBegins == ASSUME Inv, Budget, NEW p \in Requests, Begin(p) PROVE Budget'
<1>1. ASSUME NEW k, NEW c, NEW u, NEW e, NEW g, Arrive(p, k, c, u, e, g),
             c \in {"count", "take"} \/ k \notin Mailing
      PROVE  Budget'
  <2> DEFINE n == [kind |-> k, pc |-> c, uid |-> u, email |-> e, old |-> None, sub |-> g, wrote |-> {}]
  <2>1. req' = [req EXCEPT ![p] = n] /\ UNCHANGED <<count, sent>>
    BY <1>1 DEF Arrive, store, ghosts
  <2>2. n.kind = k /\ n.pc = c
    OBVIOUS
  <2> HIDE DEF n
  <2>3. \A h \in Mails : ~Pending(n, h)
    BY <1>1, <2>2 DEF Pending, Mailing
  <2> QED BY <2>1, <2>3, BudgetStays
<1>2. "verifyEmail" \notin Mailing /\ \A k \in {"setPassword", "unlink", "erase"} : k \notin Mailing
  BY DEF Mailing
<1> QED BY <1>1, <1>2 DEF Begin

\* The limits are asked.
LEMMA BudgetCounts ==
  ASSUME Inv, Budget, NEW p \in Requests, CountRegister(p) \/ CountResend(p) \/ CountChange(p)
  PROVE  Budget'
<1> DEFINE r == req[p]
<1>1. r \in Shape /\ sent' = sent
  BY DEF Inv, Types, CountRegister, CountResend, CountChange, ghosts
<1>2. ASSUME NEW k \in Counted, NEW e, NEW c \in {"find", "admit"}, Counts(k, e),
             IF Passes(k, e) THEN Go(p, c) ELSE End(p),
             \/ k = "register" /\ r.kind = "register"
             \/ k = "resend" /\ r.kind = "resend" /\ e = r.email
      PROVE  Budget'
  <2>1. CASE Passes(k, e) /\ Go(p, c)
    <3> DEFINE n == [r EXCEPT !.pc = c]
    <3>1. n.kind = r.kind /\ n.email = r.email
      BY <1>1 DEF Shape
    <3>2. req' = [req EXCEPT ![p] = n]
      BY <2>1 DEF Go
    <3> HIDE DEF n
    <3>3. ASSUME NEW h \in Mails, Pending(n, h) PROVE h = k /\ h # "alert" /\ (h = "resend" => n.email = e)
      BY <1>2, <3>1, <3>3 DEF Pending
    <3>4. \A h \in Mails :
            Pending(n, h) => Counter(h) = k /\ Passes(k, e) /\ (h \in {"resend", "alert"} => To(n, h) = e)
      BY <2>1, <3>3 DEF Counter, To
    <3>5. Counts(k, e) /\ sent' = sent
      BY <1>1, <1>2
    <3> QED BY <3>2, <3>4, <3>5, BudgetAsked
  <2>2. CASE End(p)
    BY <1>1, <1>2, <2>2, NothingPending, BudgetAsked DEF End
  <2> QED BY <1>2, <2>1, <2>2
<1>3. "register" \in Counted /\ "resend" \in Counted /\ "change" \in Counted
  BY DEF Counted
<1>4. CASE CountRegister(p)
  BY <1>2, <1>3, <1>4 DEF CountRegister
<1>5. CASE CountResend(p)
  BY <1>2, <1>3, <1>5 DEF CountResend
<1>6. CASE CountChange(p)
  <2>1. CASE End(p) /\ UNCHANGED count
    BY <1>1, <2>1, BudgetEnds
  <2>2. PICK e : e = user[r.uid].email
    OBVIOUS
  <2>3. CASE Counts("change", e) /\ End(p)
    BY <1>1, <1>3, <2>3, NothingPending, BudgetAsked DEF End
  <2>4. CASE Counts("change", e) /\ Passes("change", e) /\ req' = [req EXCEPT ![p].pc = "find", ![p].old = e]
    <3> DEFINE n == [r EXCEPT !.pc = "find", !.old = e]
    <3>1. req' = [req EXCEPT ![p] = n] /\ n.kind = "requestChange" /\ n.old = e
      BY <1>1, <1>6, <2>4 DEF Shape, CountChange
    <3> HIDE DEF n
    <3>2. \A h \in Mails : Pending(n, h) => Counter(h) = "change" /\ (h \in {"resend", "alert"} => To(n, h) = e)
      BY <3>1 DEF Pending, Counter, To
    <3>3. \A h \in Mails : Pending(n, h) =>
            Counter(h) = "change" /\ Passes("change", e) /\ (h \in {"resend", "alert"} => To(n, h) = e)
      BY <2>4, <3>2
    <3>4. Counts("change", e) /\ req' = [req EXCEPT ![p] = n]
      BY <2>4, <3>1
    <3> QED BY <1>1, <1>3, <3>3, <3>4, BudgetAsked
  <2> QED BY <1>6, <2>1, <2>2, <2>3, <2>4 DEF CountChange
<1> QED BY <1>4, <1>5, <1>6

\* Requests past their limits, until the mail.
LEMMA BudgetFinds ==
  ASSUME Inv, Budget, NEW p \in Requests,
         Admit(p) \/ Stage(p) \/ FindRegister(p) \/ FindResend(p) \/ FindChange(p) \/ CreateUser(p)
  PROVE  Budget'
<1> DEFINE r == req[p]
<1>1. r \in Shape /\ Regular(r)
  BY DEF Inv, Types, Lawful
<1>2. \E k \in Counted : Pending(r, k)
  <2>1. "register" \in Counted /\ "resend" \in Counted /\ "change" \in Counted
    BY DEF Counted
  <2>2. CASE FindRegister(p) \/ CreateUser(p)
    BY <2>1, <2>2 DEF FindRegister, CreateUser, Pending
  <2>3. CASE FindResend(p) \/ (r.pc = "admit" /\ r.kind = "resend")
    BY <2>1, <2>3 DEF FindResend, Pending
  <2>4. CASE FindChange(p) \/ Stage(p) \/ (r.pc = "admit" /\ r.kind = "requestChange")
    BY <1>1, <2>1, <2>4 DEF FindChange, Stage, Pending, Regular
  <2>5. Admit(p) => r.pc = "admit" /\ r.kind \in {"resend", "requestChange"}
    BY <1>1 DEF Admit, Regular
  <2> QED BY <2>2, <2>3, <2>4, <2>5
<1>3. ASSUME NEW c, c # "alert", Go(p, c), UNCHANGED <<count, sent>> PROVE Budget'
  BY <1>2, <1>3, BudgetGoes
<1>4. CASE Admit(p) \/ Stage(p) \/ FindChange(p)
  BY <1>3, <1>4, BudgetEnds DEF Admit, Stage, FindChange, store, ghosts
<1>5. CASE FindRegister(p)
  BY <1>3, <1>5, BudgetAlerted DEF FindRegister
<1>6. CASE FindResend(p)
  <2>1. ASSUME NEW i, req' = [req EXCEPT ![p].uid = i, ![p].pc = "mail"], UNCHANGED <<count, sent>> PROVE Budget'
    <3> DEFINE n == [r EXCEPT !.uid = i, !.pc = "mail"]
    <3>1. req' = [req EXCEPT ![p] = n] /\ n.kind = r.kind /\ n.email = r.email /\ n.old = r.old /\ n.pc = "mail"
      BY <1>1, <2>1 DEF Shape
    <3> HIDE DEF n
    <3> QED BY <1>2, <2>1, <3>1, BudgetOn
  <2> QED BY <1>6, <2>1, BudgetEnds DEF FindResend, store, ghosts
<1>7. CASE CreateUser(p)
  <2>1. ASSUME NEW i, NEW keys, UNCHANGED <<count, sent>>,
               req' = [req EXCEPT ![p].uid = i, ![p].wrote = keys, ![p].pc = "mail"]
        PROVE  Budget'
    <3> DEFINE n == [r EXCEPT !.uid = i, !.wrote = keys, !.pc = "mail"]
    <3>1. req' = [req EXCEPT ![p] = n] /\ n.kind = r.kind /\ n.email = r.email /\ n.old = r.old /\ n.pc = "mail"
      BY <1>1, <2>1 DEF Shape
    <3> HIDE DEF n
    <3> QED BY <1>2, <2>1, <3>1, BudgetOn
  <2> QED BY <1>7, <2>1, BudgetAlerted DEF CreateUser
<1> QED BY <1>4, <1>5, <1>6, <1>7

\* Requests of the kinds without limits, and the end of a request.
LEMMA BudgetOthers ==
  ASSUME Inv, Budget, NEW p \in Requests,
         \/ Take(p) \/ FindVerify(p) \/ FindConfirm(p) \/ FindSetPassword(p) \/ FindUnlink(p) \/ FindErase(p)
         \/ FindGoogle(p) \/ CreateGoogleUser(p) \/ LinkIdentity(p) \/ UpdateEmail(p) \/ SetFirstPassword(p)
         \/ WriteRow(p) \/ Commit(p) \/ Abort(p)
  PROVE  Budget'
<1> DEFINE r == req[p]
<1>1. r \in Shape
  BY DEF Inv, Types
<1>2. UNCHANGED <<count, sent>>
  BY DEF Take, FindVerify, FindConfirm, FindSetPassword, FindUnlink, FindErase, FindGoogle, CreateGoogleUser,
         LinkIdentity, UpdateEmail, SetFirstPassword, WriteRow, Commit, Abort, store, ghosts
<1>3. CASE End(p)
  BY <1>2, <1>3, BudgetEnds
<1>4. ASSUME NEW c, Go(p, c), r.kind \notin Mailing PROVE Budget'
  BY <1>2, <1>4, BudgetGoes
<1>5. ASSUME NEW keys, Wrote(p, keys) PROVE Budget'
  <2> DEFINE n == [r EXCEPT !.wrote = keys, !.pc = "commit"]
  <2>1. req' = [req EXCEPT ![p] = n] /\ n.kind = r.kind /\ n.email = r.email /\ n.old = r.old /\ n.pc = "commit"
    BY <1>1, <1>5 DEF Shape, Wrote
  <2> HIDE DEF n
  <2> QED BY <1>2, <2>1, BudgetOn
<1>6. CASE Take(p) \/ FindVerify(p) \/ FindConfirm(p) \/ FindSetPassword(p) \/ FindUnlink(p) \/ FindErase(p)
  <2>1. r.kind \in {"confirmChange", "google", "verifyEmail", "setPassword", "unlink", "erase"}
    BY <1>6 DEF Take, FindVerify, FindConfirm, FindSetPassword, FindUnlink, FindErase
  <2>2. r.kind \notin Mailing
    BY <2>1 DEF Mailing
  <2>3. End(p) \/ \E c \in {"find", "write"} : Go(p, c)
    BY <1>6 DEF Take, FindVerify, FindConfirm, FindSetPassword, FindUnlink, FindErase
  <2> QED BY <1>3, <1>4, <2>2, <2>3
<1>7. CASE FindGoogle(p)
  <2>1. r.kind \notin Mailing
    BY <1>7 DEF FindGoogle, Mailing
  <2>2. ASSUME NEW i, NEW c, req' = [req EXCEPT ![p].uid = i, ![p].pc = c] PROVE Budget'
    <3> DEFINE n == [r EXCEPT !.uid = i, !.pc = c]
    <3>1. req' = [req EXCEPT ![p] = n] /\ n.kind = r.kind /\ n.email = r.email /\ n.old = r.old
      BY <1>1, <2>2 DEF Shape
    <3> HIDE DEF n
    <3> QED BY <1>2, <2>1, <3>1, BudgetOn
  <2> QED BY <1>3, <1>4, <1>7, <2>1, <2>2 DEF FindGoogle
<1>8. CASE CreateGoogleUser(p)
  <2>1. ASSUME NEW i, NEW keys, req' = [req EXCEPT ![p].uid = i, ![p].wrote = keys, ![p].pc = "commit"]
        PROVE  Budget'
    <3> DEFINE n == [r EXCEPT !.uid = i, !.wrote = keys, !.pc = "commit"]
    <3>1. req' = [req EXCEPT ![p] = n] /\ n.kind = r.kind /\ n.email = r.email /\ n.old = r.old /\ n.pc = "commit"
      BY <1>1, <2>1 DEF Shape
    <3> HIDE DEF n
    <3> QED BY <1>2, <3>1, BudgetOn
  <2> QED BY <1>3, <1>8, <2>1 DEF CreateGoogleUser
<1>9. CASE LinkIdentity(p) \/ UpdateEmail(p) \/ SetFirstPassword(p) \/ WriteRow(p)
  BY <1>3, <1>5, <1>9 DEF LinkIdentity, UpdateEmail, SetFirstPassword, WriteRow
<1>10. CASE Commit(p) \/ Abort(p)
  BY <1>3, <1>10 DEF Commit, Abort
<1> QED BY <1>6, <1>7, <1>8, <1>9, <1>10

LEMMA InitBudget == Init => Budget
<1> SUFFICES ASSUME Init PROVE Budget
  OBVIOUS
<1>1. /\ count = [k \in Counted |-> [e \in Emails \cup {None} |-> 0]]
      /\ sent = [k \in Mails |-> [e \in Emails \cup {None} |-> 0]]
      /\ req = [p \in Requests |-> NoRequest]
  BY DEF Init
<1>2. \A k \in Mails, a \in Emails \cup {None} : count[Counter(k)][a] = 0 /\ sent[k][a] = 0
  BY <1>1, CounterIs
<1>3. count \in Counters(Counted) /\ sent \in Counters(Mails)
  BY <1>1, SMT DEF Counters
<1>4. ASSUME NEW k \in Mails, NEW a \in Emails \cup {None} PROVE Within(k, a)
  <2>1. Waiting(k, a) = {}
    BY <1>1, NothingPending DEF Waiting, Waits
  <2>2. Cardinality(Waiting(k, a)) = 0
    BY <2>1, FS_EmptySet
  <2>3. Top(k, a) \in Nat
    BY Tops
  <2> QED BY <1>2, <1>4, <2>2, <2>3, SMT DEF Within
<1> QED BY <1>3, <1>4 DEF Budget

LEMMA NextBudget == Inv /\ Budget /\ [Next]_vars => Budget'
<1> SUFFICES ASSUME Inv, Budget, [Next]_vars PROVE Budget'
  OBVIOUS
<1>1. ASSUME NEW p \in Requests, Step(p) PROVE Budget'
  BY <1>1, BudgetBegins, BudgetCounts, BudgetFinds, BudgetOthers, BudgetMailed, BudgetAnnounced
     DEF Step
<1>2. ASSUME UNCHANGED <<count, sent, req>> PROVE Budget'
  BY <1>2 DEF Budget, Within, Waiting, Waits, Layer
<1>3. CASE BeginLogin \/ (\E g \in Subs, e \in Emails : GmailChanges(g, e)) \/ UNCHANGED vars
  BY <1>2, <1>3 DEF BeginLogin, GmailChanges, vars, store, ghosts
<1> QED BY <1>1, <1>3 DEF Next

\* No limit on mails is exceeded in a window, however many requests run at once, as
\* long as the store counts them: the mails to new accounts of one client
\* (Register), the verification mails in all and per address (ResendVerifyEmail),
\* the changes in all and their alerts also per address (RequestChangeEmail), and
\* the alerts of handleDuplicateRegistration in all and per address are counted
\* before they are compared.
THEOREM MailsBounded == Spec => []MailBound
<1>1. ASSUME Budget, NEW k \in Mails, NEW a \in Emails \cup {None}, Layer(k, a)
      PROVE  sent[k][a] <= Top(k, a)
  <2>1. PICK s, w, m : s = sent[k][a] /\ w = Cardinality(Waiting(k, a)) /\ m = Top(k, a)
    OBVIOUS
  <2>2. s \in Nat /\ w \in Nat /\ m \in Nat
    BY <1>1, <2>1, WaitingIs, Tops DEF Budget, Counters
  <2>3. s + w <= m
    BY <1>1, <2>1 DEF Budget, Within
  <2>4. s <= m
    BY <2>2, <2>3, SMT
  <2> QED BY <2>1, <2>4
<1>2. Budget => MailBound
  <2> SUFFICES ASSUME Budget, NEW k \in Mails
               PROVE  /\ sent[k][None] <= Limit(k)
                      /\ k \in {"resend", "dup", "alert"} => \A e \in Emails : sent[k][e] <= ResendPerEmailMax
    BY DEF MailBound
  <2>1. sent[k][None] <= Limit(k)
    BY <1>1 DEF Layer, Top
  <2>2. ASSUME k \in {"resend", "dup", "alert"}, NEW e \in Emails PROVE sent[k][e] <= ResendPerEmailMax
    <3>1. e # None /\ Layer(k, e)
      BY <2>2, Amounts DEF Layer
    <3> QED BY <1>1, <2>2, <3>1 DEF Top
  <2> QED BY <2>1, <2>2
<1> QED BY <1>2, InitInv, NextInv, InitBudget, NextBudget, PTL DEF Spec
=============================================================================
