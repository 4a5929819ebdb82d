------------------------------ MODULE Passkeys ------------------------------
(***************************************************************************)
(* The WebAuthn ceremonies of one account: a challenge is staged in the    *)
(* store under the account's key, the authenticator answers it, and the    *)
(* finishing request takes the challenge, verifies the answer against the  *)
(* rows of its snapshot and writes the row.  A copied authenticator keeps  *)
(* a counter of its own; the sign count is there to notice it.             *)
(*                                                                         *)
(* The finishing requests are SQL transactions: they read one snapshot     *)
(* (Find), wait for the row they write (Write) and apply it at the commit. *)
(* Verification of signatures, origin and user presence is the library's.  *)
(***************************************************************************)
EXTENDS Naturals, FiniteSets

CONSTANTS
  Requests,
  None,
  Creds,          \* credentials
  MaxSign,        \* bound on sign counts
  MaxChallenges,  \* bound on challenges
  MaxRequests     \* bound on requests

ASSUME PasskeysAssumption ==
  /\ IsFiniteSet(Requests) /\ IsFiniteSet(Creds)
  /\ {MaxSign, MaxChallenges, MaxRequests} \subseteq Nat

Counts == 0 .. MaxSign
Challenges == 1 .. MaxChallenges
Copies == {"own", "copy"}

VARIABLES
  row,        \* passkey_credentials
  active,     \* the account's is_active
  staged,     \* passkey:reg:<uid> and passkey:auth:<uid> in the store
  issued,     \* challenges so far
  uncounted,  \* credentials of authenticators that always send 0
  device,     \* the counter of each authenticator and of its copy
  answers,    \* what authenticators signed; a client may send it late or twice
  req,
  done,       \* challenges of completed ceremonies, how often
  accepted,   \* sign counts of completed logins, how often
  flagged,    \* credentials reported as copied
  lost,       \* credentials with a write that was lost
  overlapped, \* credentials with two logins at once
  begun

ceremony == <<staged, issued, device, answers>>
ghosts == <<done, accepted, flagged, lost, overlapped>>
bounds == <<begun, uncounted>>
vars == <<row, active, ceremony, req, ghosts, bounds>>

Row == [count : Counts, revoked : BOOLEAN]

ASSUME NoneAssumption == None \notin Row \cup Creds

Answer == [kind : {"register", "login"}, challenge : Challenges, cred : Creds, count : Counts]
NoRequest == [kind |-> None, pc |-> "idle", answer |-> None, cred |-> None, seen |-> None,
              gone |-> {}, warning |-> FALSE, wrote |-> FALSE]

TypeOK ==
  /\ row \in [Creds -> Row \cup {None}] /\ active \in BOOLEAN
  /\ \A k \in {"register", "login"} :
       staged[k] \in [challenge : Challenges, allowed : SUBSET Creds] \cup {None}
  /\ issued \in 0 .. MaxChallenges /\ uncounted \subseteq Creds
  /\ device \in [Creds -> [Copies -> Counts \cup {None}]]
  /\ answers \subseteq Answer
  /\ \A p \in Requests :
       /\ req[p].kind \in {"register", "login", "revoke", "erase", None}
       /\ req[p].pc \in {"idle", "take", "find", "write", "commit"}
       /\ req[p].answer \in Answer \cup {None} /\ req[p].cred \in Creds \cup {None}
       /\ req[p].seen \in Row \cup {None} /\ req[p].gone \subseteq Creds
       /\ {req[p].warning, req[p].wrote} \subseteq BOOLEAN
  /\ done \in [Challenges -> Nat] /\ accepted \in [Creds -> [Counts -> Nat]]
  /\ (flagged \cup lost \cup overlapped) \subseteq Creds /\ begun \in 0 .. MaxRequests

Init ==
  /\ row = [c \in Creds |-> None] /\ active = TRUE
  /\ staged = [k \in {"register", "login"} |-> None] /\ issued = 0
  /\ uncounted \in SUBSET Creds
  /\ device = [c \in Creds |-> [h \in Copies |-> IF h = "own" THEN 0 ELSE None]]
  /\ answers = {} /\ req = [p \in Requests |-> NoRequest]
  /\ done = [n \in Challenges |-> 0] /\ accepted = [c \in Creds |-> [n \in Counts |-> 0]]
  /\ flagged = {} /\ lost = {} /\ overlapped = {} /\ begun = 0

-----------------------------------------------------------------------------
(* Challenges, and the authenticators that answer them *)

Exists(c) == row[c] # None

\* Mutant: revoked credentials are listed as well.
ListByUserAll == {c \in Creds : Exists(c)}

ListByUser == {c \in Creds : Exists(c) /\ ~row[c].revoked}

\* stageJSON: the new challenge takes the place of the last one.
stageJSON(k) ==
  /\ issued < MaxChallenges
  /\ issued' = issued + 1
  /\ staged' = [staged EXCEPT ![k] = [challenge |-> issued + 1, allowed |-> ListByUser]]
  /\ UNCHANGED <<row, active, device, answers, req, ghosts, bounds>>

\* loadUser refuses a disabled account, the library an account without credentials.
BeginRegistration == active /\ stageJSON("register")
BeginAuthentication == active /\ ListByUser # {} /\ stageJSON("login")

ChallengeExpires(k) ==
  /\ staged[k] # None
  /\ staged' = [staged EXCEPT ![k] = None]
  /\ UNCHANGED <<row, active, issued, device, answers, req, ghosts, bounds>>

\* An authenticator signs the challenge it is shown and counts.
Sign(k, c, h) ==
  /\ staged[k] # None /\ device[c][h] # None
  /\ IF k = "register" THEN h = "own" /\ ~Exists(c) ELSE c \in staged[k].allowed
  /\ LET n == IF c \in uncounted THEN 0 ELSE device[c][h] + 1 IN
       /\ n \in Counts
       /\ device' = [device EXCEPT ![c][h] = n]
       /\ answers' = answers \cup
            {[kind |-> k, challenge |-> staged[k].challenge, cred |-> c, count |-> n]}
  /\ UNCHANGED <<row, active, staged, issued, req, ghosts, bounds>>

\* The key and the counter of an authenticator end up on a second one.
Copied(c) ==
  /\ device[c]["copy"] = None /\ Exists(c)
  /\ device' = [device EXCEPT ![c]["copy"] = device[c]["own"]]
  /\ UNCHANGED <<row, active, staged, issued, answers, req, ghosts, bounds>>

-----------------------------------------------------------------------------
(* Requests *)

Go(p, pc) == req' = [req EXCEPT ![p].pc = pc]
End(p) == req' = [req EXCEPT ![p] = NoRequest]
Waits(p, c) == \E q \in Requests \ {p} : req[q].wrote /\ (req[q].cred = c \/ req[q].kind = "erase")

Arrive(p, r) ==
  /\ req[p].pc = "idle" /\ begun < MaxRequests
  /\ begun' = begun + 1
  /\ req' = [req EXCEPT ![p] = r]
  /\ UNCHANGED <<row, active, ceremony, ghosts, uncounted>>

\* gone is what had been revoked before the request arrived.
Gone == {c \in Creds : ~active \/ (Exists(c) /\ row[c].revoked)}

FinishRegistration(p) == \E a \in answers :
  /\ a.kind = "register"
  /\ Arrive(p, [NoRequest EXCEPT !.kind = "register", !.pc = "take", !.answer = a,
                                 !.cred = a.cred, !.gone = Gone])

FinishAuthentication(p) == \E a \in answers :
  /\ a.kind = "login"
  /\ Arrive(p, [NoRequest EXCEPT !.kind = "login", !.pc = "take", !.answer = a,
                                 !.cred = a.cred, !.gone = Gone])

\* By the signed-in owner, with a sudo token.
Revoke(p) == \E c \in ListByUser :
  active /\ Arrive(p, [NoRequest EXCEPT !.kind = "revoke", !.pc = "write", !.cred = c])

EraseAccount(p) ==
  active /\ Arrive(p, [NoRequest EXCEPT !.kind = "erase", !.pc = "write"])

\* Mutant: Get, with the Delete left to the expiry.
takeJSONGet(k) == UNCHANGED staged

takeJSON(k) == staged' = [staged EXCEPT ![k] = None]

\* The staged challenge is spent, whether or not it is the one that was signed.
Take(p) ==
  LET k == req[p].kind IN
  /\ req[p].pc = "take"
  /\ IF staged[k] # None /\ staged[k].challenge = req[p].answer.challenge
       THEN Go(p, "find") ELSE End(p)
  /\ takeJSON(k)
  /\ UNCHANGED <<row, active, issued, device, answers, ghosts, bounds>>

\* Authenticator.UpdateCounter of the library.
CloneWarning(stored, presented) ==
  presented <= stored /\ (presented # 0 \/ stored # 0)

\* loadUser, then the library on what it loaded.
FindLogin(p) ==
  LET c == req[p].cred
      others == {q \in Requests \ {p} : req[q].kind = "login" /\ req[q].cred = c
                                         /\ req[q].pc \in {"write", "commit"}} IN
  /\ req[p].pc = "find" /\ req[p].kind = "login"
  /\ IF active /\ c \in ListByUser
       THEN req' = [req EXCEPT ![p].seen = row[c], ![p].pc = "write",
                               ![p].warning = CloneWarning(row[c].count, req[p].answer.count)]
       ELSE End(p)
  /\ overlapped' = overlapped \cup (IF others # {} THEN {c} ELSE {})
  /\ UNCHANGED <<row, active, ceremony, done, accepted, flagged, lost, bounds>>

FindRegistration(p) ==
  /\ req[p].pc = "find" /\ req[p].kind = "register"
  /\ IF active THEN Go(p, "write") ELSE End(p)
  /\ UNCHANGED <<row, active, ceremony, ghosts, bounds>>

-----------------------------------------------------------------------------
(* Writes.  completeAuthentication drops the errors of both of its writes. *)

Wrote(p) == req' = [req EXCEPT ![p].wrote = TRUE, ![p].pc = "commit"]

\* The unique index on credential_id.
Create(p) ==
  /\ req[p].pc = "write" /\ req[p].kind = "register" /\ ~Waits(p, req[p].cred)
  /\ IF Exists(req[p].cred) THEN End(p) ELSE Wrote(p)
  /\ UNCHANGED <<row, active, ceremony, ghosts, bounds>>

\* RevokeByID by the owner: no row left to revoke is an error.
RevokeByID(p) ==
  /\ req[p].pc = "write" /\ req[p].kind = "revoke" /\ ~Waits(p, req[p].cred)
  /\ IF row[req[p].cred].revoked THEN End(p) ELSE Wrote(p)
  /\ UNCHANGED <<row, active, ceremony, ghosts, bounds>>

RevokeAllForUser(p) ==
  /\ req[p].pc = "write" /\ req[p].kind = "erase" /\ \A c \in Creds : ~Waits(p, c)
  /\ Wrote(p)
  /\ UNCHANGED <<row, active, ceremony, ghosts, bounds>>

\* TouchUsage, or RevokeByID after a clone warning.
completeAuthentication(p) ==
  /\ req[p].pc = "write" /\ req[p].kind = "login" /\ ~Waits(p, req[p].cred)
  /\ Wrote(p)
  /\ UNCHANGED <<row, active, ceremony, ghosts, bounds>>

\* The write fails (a lock wait that times out, say); the request goes on, and
\* so does EraseAccount.
WriteLost(p) ==
  /\ req[p].pc = "write" /\ req[p].kind \in {"login", "erase"}
  /\ Go(p, "commit")
  /\ lost' = lost \cup ({req[p].cred} \ {None})
  /\ UNCHANGED <<row, active, ceremony, done, accepted, flagged, overlapped, bounds>>

\* Mutant: the row as read is saved, with the new count.
TouchedWhole(r, seen, n) == [seen EXCEPT !.count = n]

\* TouchUsage sets sign_count and last_used_at of the row as it is.
Touched(r, seen, n) == [r EXCEPT !.count = n]

Written(p, c) ==
  LET r == req[p] IN
  IF ~r.wrote \/ (r.kind # "erase" /\ c # r.cred) THEN row[c]
  ELSE CASE r.kind = "register" -> [count |-> r.answer.count, revoked |-> FALSE]
         [] r.kind = "login" /\ ~r.warning -> Touched(row[c], r.seen, r.answer.count)
         [] OTHER -> IF Exists(c) THEN [row[c] EXCEPT !.revoked = TRUE] ELSE None

\* A clone warning is a denial: it commits its evidence and the revocation.
Commit(p) ==
  LET r == req[p]
      login == r.kind = "login" /\ ~r.warning IN
  /\ r.pc = "commit"
  /\ row' = [c \in Creds |-> Written(p, c)]
  /\ active' = (active /\ r.kind # "erase")
  /\ done' = IF r.kind \in {"register", "login"}
               THEN [done EXCEPT ![r.answer.challenge] = @ + 1] ELSE done
  /\ accepted' = IF login THEN [accepted EXCEPT ![r.cred][r.answer.count] = @ + 1] ELSE accepted
  /\ flagged' = flagged \cup (IF r.warning THEN {r.cred} ELSE {})
  /\ End(p)
  /\ UNCHANGED <<ceremony, lost, overlapped, bounds>>

\* Another statement or the commit fails; the challenge stays spent.
Abort(p) ==
  /\ req[p].pc \in {"find", "write", "commit"}
  /\ End(p)
  /\ UNCHANGED <<row, active, ceremony, ghosts, bounds>>

Step(p) ==
  \/ FinishRegistration(p) \/ FinishAuthentication(p) \/ Revoke(p) \/ EraseAccount(p)
  \/ Take(p) \/ FindLogin(p) \/ FindRegistration(p)
  \/ Create(p) \/ RevokeByID(p) \/ RevokeAllForUser(p)
  \/ completeAuthentication(p) \/ WriteLost(p) \/ Commit(p) \/ Abort(p)

Next ==
  \/ \E p \in Requests : Step(p)
  \/ BeginRegistration \/ BeginAuthentication
  \/ \E k \in {"register", "login"} :
       \/ ChallengeExpires(k)
       \/ \E c \in Creds, h \in Copies : Sign(k, c, h)
  \/ \E c \in Creds : Copied(c)

Spec == Init /\ [][Next]_vars

-----------------------------------------------------------------------------

\* "Two concurrent Finish calls carrying the same assertion cannot ... both
\* complete the ceremony" (takeJSON), nor can a late or a repeated one.
ChallengeOnce == \A n \in Challenges : done[n] <= 1

\* A login is completed with no credential that had been revoked, and for no
\* account that had been closed, when the finishing request arrived.
RevokedRefused == [][\A p \in Requests :
  Commit(p) /\ req[p].kind = "login" /\ ~req[p].warning => req[p].cred \notin req[p].gone]_vars

\* Of two authenticators with the same key, one is noticed and the credential
\* ends: a sign count that completed a login completes no other, and a credential
\* reported as copied is revoked and stays so, although a login with it may be
\* under way and write its row afterwards.  The first needs logins with one
\* credential that do not overlap, both need writes whose errors are not dropped.
CopyNoticed ==
  /\ \A c \in Creds \ (uncounted \cup lost \cup overlapped), n \in Counts : accepted[c][n] <= 1
  /\ \A c \in flagged \ lost : row[c].revoked

\* "Enforces monotonic sign-count clone detection" (README.md): the same of all
\* logins.  TouchUsage does not compare the count it overwrites.
CountOnceAlways == \A c \in Creds \ uncounted, n \in Counts : accepted[c][n] <= 1
=============================================================================
