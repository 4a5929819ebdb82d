------------------------------ MODULE Sessions ------------------------------
(***************************************************************************)
(* Session families, refresh-token rotation and the operations that end    *)
(* them: AuthService (login, refresh, logout, credential change, ...),     *)
(* AdminService.ForceLogout, the refresh-token and session repositories,   *)
(* Authority.Check and the purge job, for one account.                     *)
(*                                                                         *)
(* Every service entry is one SQL transaction (AuditOperation).  Its plain *)
(* reads see the snapshot of its first read, so what the handler decides   *)
(* from them is decided when the request begins; each UPDATE or INSERT is  *)
(* a statement of its own that waits for the row locks of the others, acts *)
(* on the committed rows and is visible to others at the commit.  A        *)
(* request is therefore a program: the sequence of statements its handler  *)
(* issues.  The store (Redis) is outside the transaction: a denylist entry *)
(* survives a rollback.                                                    *)
(*                                                                         *)
(* A token pair is one refresh-token row and the access token minted with  *)
(* it; the access token carries the family (sid), the password version and *)
(* a jti of its own.                                                       *)
(***************************************************************************)
EXTENDS Naturals, Sequences, FiniteSets

CONSTANTS
  Sids,            \* session ids (uuid)
  Pairs,           \* token pairs
  Requests,        \* concurrent requests
  None,
  Scenes           \* what a behaviour may do, a set of:
                   \*   offered   the kinds of request clients make
                   \*   sids, pairs, version   bounds on families, pairs and pwd_version
                   \*   loses     what an error the handler ignores may cost: the
                   \*             "statement", or the "transaction" it was part of
                   \*   flush     the store may lose its keys

ASSUME SessionsAssumption ==
  /\ IsFiniteSet(Sids) /\ IsFiniteSet(Pairs)
  /\ None \notin Sids \cup Pairs
  /\ \A c \in Scenes : /\ {c.sids, c.pairs, c.version} \subseteq Nat
                       /\ c.loses \subseteq {"statement", "transaction"}

VARIABLES
  user,            \* the users row
  session,         \* the sessions table
  token,           \* the refresh_tokens table, with the access token's claims
  expired,         \* sessions whose expires_at has passed
  revokedJTI,      \* access_revocations: durable jti denials
  denied,          \* the store's denylist: pairs (jti) and sessions (sid)
  req,             \* the requests in flight and their last outcome
  ended,           \* families a completed request was asked to end
  torn,            \* families whose rotation lost its transaction on the way
  scene            \* of Scenes, chosen once

vars == <<user, session, token, expired, revokedJTI, denied, req, ended, torn, scene>>

Kinds == {"login", "factor", "refresh", "reuse", "logout", "revokeSession",
          "logoutAll", "changePassword", "changeEmail", "deactivate"}

ASSUME NoneAssumption == None \notin Kinds

(***************************************************************************)
(* The statements each handler issues, in order.  "factor" is the issuance *)
(* after a passkey or a completed second factor, which writes no users row *)
(* first; "reuse" is the containment of handleTokenReuse, which a refresh  *)
(* turns into; ForceLogout issues the statements of LogoutAll,             *)
(* ResetPassword those of ChangePassword and EraseAccount, as far as       *)
(* sessions go, those of DeactivateAccount.                                *)
(***************************************************************************)
Program(kind) ==
  CASE kind = "login"          -> <<"ResetFailedAttempts", "Issue">>
    [] kind = "factor"         -> <<"Issue">>
    [] kind = "refresh"        -> <<"Revoke", "Touch", "Issue">>
    [] kind = "reuse"          -> <<"RevokeByID", "RevokeBySession", "DenySession">>
    [] kind = "logout"         -> <<"Revoke", "RevokeByID", "RevokeBySession", "DenySession">>
    [] kind = "revokeSession"  -> <<"RevokeByID", "RevokeBySession", "DenySession">>
    [] kind = "logoutAll"      -> <<"RevokeTokens", "RevokeSessions", "BumpPwdVersion">>
    [] kind = "changePassword" -> <<"UpdatePassword", "RevokeTokens", "RevokeSessions">>
    [] kind = "changeEmail"    -> <<"UpdateEmail", "RevokeTokens", "RevokeSessions",
                                    "BumpPwdVersion">>
    [] kind = "deactivate"     -> <<"Deactivate", "RevokeTokens", "RevokeSessions",
                                    "BumpPwdVersion", "DenyAccess">>

Statements == UNION {{Program(k)[i] : i \in DOMAIN Program(k)} : k \in Kinds}

\* Statements whose error the handler discards before it goes on.
Ignored(kind) ==
  CASE kind = "refresh"                       -> {"Touch"}
    [] kind \in {"reuse", "logout"}           -> {"RevokeByID", "RevokeBySession"}
    [] kind \in {"changeEmail", "deactivate"} -> {"RevokeTokens", "RevokeSessions",
                                                  "BumpPwdVersion"}
    [] OTHER                                  -> {}

\* Rows a transaction can hold locked: the users row, the refresh-token rows
\* of a family, a sessions row.
Rows == {<<"user">>} \cup {<<"tokens", s>> : s \in Sids} \cup {<<"session", s>> : s \in Sids}
TokenRows(S) == {<<"tokens", s>> : s \in S}
SessionRows(S) == {<<"session", s>> : s \in S}

\* pwAt is the pwd_version of the last password change; a session remembers
\* the version its login proved.
User == [ver : 0 .. scene.version, pwAt : 0 .. scene.version, active : BOOLEAN]
Session == [state : {"none", "live", "revoked"}, ver : 0 .. scene.version]
Token == [state : {"none", "live", "revoked", "purged"}, sid : Sids \cup {None},
          ver : 0 .. scene.version]
NoToken == [state |-> "none", sid |-> None, ver |-> 0]

Request == [kind : Kinds \cup {None}, todo : Seq(Statements),
            tok : Pairs \cup {None},       \* the refresh token presented
            jti : Pairs \cup {None},       \* the caller's access token
            sid : Sids \cup {None},        \* the family it works in
            ver : 0 .. scene.version,         \* users row of the snapshot
            wrote : SUBSET {"user", "session"},  \* rows it sees as it wrote them
            held : SUBSET Rows,
            auto : BOOLEAN,                \* its transaction is gone: autocommit
            revTok : SUBSET Pairs, revSes : SUBSET Sids,
            minted : Pairs \cup {None},
            upd : SUBSET {"version", "password", "inactive"},
            scope : SUBSET Sids]           \* families that existed at its start

NoRequest == [kind |-> None, todo |-> <<>>, tok |-> None, jti |-> None, sid |-> None,
              ver |-> 0, wrote |-> {}, held |-> {}, auto |-> FALSE, revTok |-> {},
              revSes |-> {}, minted |-> None, upd |-> {}, scope |-> {}]

Running(p) == req[p].kind # None

TypeOK ==
  /\ user \in User
  /\ session \in [Sids -> Session]
  /\ token \in [Pairs -> Token]
  /\ expired \subseteq Sids
  /\ revokedJTI \subseteq Pairs
  /\ denied \subseteq Sids \cup Pairs
  /\ req \in [Requests -> Request]
  /\ ended \subseteq Sids /\ torn \subseteq Sids

Init ==
  /\ scene \in Scenes
  /\ user = [ver |-> 0, pwAt |-> 0, active |-> TRUE]
  /\ session = [s \in Sids |-> [state |-> "none", ver |-> 0]]
  /\ token = [t \in Pairs |-> NoToken]
  /\ expired = {} /\ revokedJTI = {} /\ denied = {}
  /\ req = [p \in Requests |-> NoRequest]
  /\ ended = {} /\ torn = {}

-----------------------------------------------------------------------------
(* What the tables say *)

Known(t) == token[t].state # "none"
Family(s) == {t \in Pairs : token[t].sid = s}
Live(s) == {t \in Family(s) : token[t].state = "live"}
Existing == {s \in Sids : session[s].state # "none"}

\* Authority.Check: the access token of pair t is accepted.
Check(t) ==
  /\ Known(t)
  /\ t \notin denied /\ token[t].sid \notin denied
  /\ user.active /\ user.ver = token[t].ver
  /\ session[token[t].sid].state = "live" /\ token[t].sid \notin expired
  /\ t \notin revokedJTI

-----------------------------------------------------------------------------
(* The life of a request *)

\* A request of the given kind begins: its snapshot of the users row is taken
\* and its program loaded.
Load(p, kind, t, a, s) ==
  /\ ~Running(p)
  /\ req' = [req EXCEPT ![p] =
       [NoRequest EXCEPT !.kind = kind, !.todo = Program(kind), !.tok = t, !.jti = a,
          !.sid = s, !.ver = user.ver, !.scope = Existing]]

tables == <<user, session, token>>

Enter(p, kind) ==
  /\ kind \in scene.offered /\ user.active
  /\ Load(p, kind, None, None, None)
  /\ UNCHANGED <<tables, expired, revokedJTI, denied, ended, torn, scene>>

\* The current password was given, and no second factor is due.
Login(p) == Enter(p, "login")

\* A second factor was given.
CompleteMFALogin(p) == Enter(p, "factor")

\* A passkey ceremony was completed.
IssuePasskeyTokenPair(p) == Enter(p, "factor")

\* A revoked token, or a live one of a revoked or expired session.
Reused(t) ==
  \/ token[t].state = "revoked"
  \/ /\ token[t].state = "live" /\ user.active
     /\ session[token[t].sid].state = "revoked" \/ token[t].sid \in expired

RefreshReused(p, t) ==
  /\ "refresh" \in scene.offered /\ Reused(t)
  /\ Load(p, "reuse", t, None, token[t].sid)
  /\ UNCHANGED <<tables, expired, revokedJTI, denied, ended, torn, scene>>

\* An unknown or purged token, one that has itself expired, or one of a disabled
\* account is refused without a trace: the handler revokes the expired row, but
\* a denial without evidence is rolled back.
Refresh(p, t) ==
  /\ "refresh" \in scene.offered
  /\ token[t].state = "live" /\ ~Reused(t) /\ user.active
  /\ Load(p, "refresh", t, None, token[t].sid)
  /\ UNCHANGED <<tables, expired, revokedJTI, denied, ended, torn, scene>>

\* Logout by the bearer of access token a, presenting refresh token t: the
\* jti is denied durably and in the store before t is even looked up.
Logout(p, t, a) ==
  /\ "logout" \in scene.offered /\ Check(a) /\ Known(t)
  /\ ~Running(p)
  /\ LET alive == token[t].state = "live"
     IN req' = [req EXCEPT ![p] =
          [NoRequest EXCEPT !.kind = "logout", !.tok = t, !.jti = a,
             !.todo = IF alive THEN Program("logout") ELSE <<>>,
             !.sid = IF alive THEN token[t].sid ELSE None,
             !.scope = IF alive THEN {token[t].sid} ELSE {}]]
  /\ denied' = denied \cup {a}
  /\ UNCHANGED <<tables, expired, revokedJTI, ended, torn, scene>>

\* "Your devices": the bearer of access token a ends session s.
RevokeSession(p, a, s) ==
  /\ "revokeSession" \in scene.offered /\ Check(a) /\ s \in Existing
  /\ Load(p, "revokeSession", None, None, s)
  /\ UNCHANGED <<tables, expired, revokedJTI, denied, ended, torn, scene>>

\* Operations on every session of the account.
EndAll(p, kind, a) ==
  /\ kind \in scene.offered
  /\ Load(p, kind, None, a, None)
  /\ UNCHANGED <<tables, expired, revokedJTI, denied, ended, torn, scene>>

\* By the bearer of access token a.
LogoutAll(p, a) == Check(a) /\ EndAll(p, "logoutAll", None)
ChangePassword(p, a) == Check(a) /\ EndAll(p, "changePassword", None)
DeactivateAccount(p, a) == Check(a) /\ EndAll(p, "deactivate", a)
EraseAccount(p, a) == Check(a) /\ EndAll(p, "deactivate", a)

\* By the holder of a mailed token, or an administrator.
ResetPassword(p) == EndAll(p, "changePassword", None)
ConfirmChangeEmail(p) == EndAll(p, "changeEmail", None)
ForceLogout(p) == EndAll(p, "logoutAll", None)

-----------------------------------------------------------------------------
(* Statements.  A statement waits until no other transaction holds a row it *)
(* locks.                                                                   *)

\* The rows that the next statement of p needs.
Needs(p) ==
  LET s == req[p].sid IN
  CASE Head(req[p].todo) \in {"ResetFailedAttempts", "BumpPwdVersion", "UpdatePassword",
                              "UpdateEmail", "Deactivate"}    -> {<<"user">>}
    [] Head(req[p].todo) \in {"Revoke", "RevokeBySession"}    -> TokenRows({s})
    [] Head(req[p].todo) \in {"Touch", "RevokeByID"}          -> SessionRows({s})
    [] Head(req[p].todo) = "RevokeTokens"                     -> TokenRows(Sids)
    [] Head(req[p].todo) = "RevokeSessions"                   -> SessionRows(Sids)
    [] Head(req[p].todo) = "Issue" /\ req[p].kind = "refresh" -> TokenRows({s})
    [] OTHER                                                  -> {}

Waits(p, q) ==
  /\ p # q /\ Running(p) /\ req[p].todo # <<>>
  /\ req[q].held \cap Needs(p) # {}

\* In autocommit a statement's own transaction ends before the next statement.
At(p, stmt) ==
  /\ Running(p) /\ req[p].todo # <<>> /\ Head(req[p].todo) = stmt
  /\ \A q \in Requests : ~Waits(p, q)
  /\ req[p].auto => req[p].held = {}

Step(p, r) == req' = [req EXCEPT ![p] = [r EXCEPT !.todo = Tail(@)]]

Holding(p, rows) == [req[p] EXCEPT !.held = @ \cup rows]

\* The UPDATE writes updated_at, so that it changes the row also when there are
\* no failures to clear: from now on the transaction sees the row as committed.
ResetFailedAttempts(p) ==
  /\ At(p, "ResetFailedAttempts")
  /\ Step(p, [Holding(p, {<<"user">>}) EXCEPT !.wrote = {"user"}])
  /\ UNCHANGED <<tables, expired, revokedJTI, denied, ended, torn, scene>>

\* UPDATE users: pwd_version + 1, a new password hash, is_active = false, or
\* the e-mail columns.
UserUpdate(p, stmt, effect) ==
  /\ At(p, stmt)
  /\ "version" \in effect => user.ver < scene.version
  /\ Step(p, [Holding(p, {<<"user">>}) EXCEPT !.upd = @ \cup effect])
  /\ UNCHANGED <<tables, expired, revokedJTI, denied, ended, torn, scene>>

BumpPwdVersion(p) == UserUpdate(p, "BumpPwdVersion", {"version"})
UpdatePassword(p) == UserUpdate(p, "UpdatePassword", {"version", "password"})
UpdateEmail(p) == UserUpdate(p, "UpdateEmail", {})
Deactivate(p) == UserUpdate(p, "Deactivate", {"inactive"})

\* Mutant: the UPDATE does not ask for revoked = false.
RevokeBlind(p) ==
  LET t == req[p].tok  rows == TokenRows({req[p].sid}) IN
  /\ At(p, "Revoke")
  /\ Step(p, [Holding(p, rows) EXCEPT !.revTok = @ \cup {t}])
  /\ UNCHANGED <<tables, expired, revokedJTI, denied, ended, torn, scene>>

\* RefreshTokenRepository.Revoke, a compare-and-set on revoked = false.  A
\* refresh that loses turns to containment, a logout goes on.
Revoke(p) ==
  LET t == req[p].tok
      rows == TokenRows({req[p].sid})
      won == token[t].state = "live"
      r == Holding(p, rows)
  IN
  /\ At(p, "Revoke")
  /\ \/ won /\ Step(p, [r EXCEPT !.revTok = @ \cup {t}])
     \/ ~won /\ req[p].kind = "logout" /\ Step(p, r)
     \/ /\ ~won /\ req[p].kind = "refresh"
        /\ req' = [req EXCEPT ![p] = [r EXCEPT !.kind = "reuse", !.todo = Program("reuse")]]
  /\ UNCHANGED <<tables, expired, revokedJTI, denied, ended, torn, scene>>

\* SessionRepository.Touch: the transaction now sees the row as committed.
Touch(p) ==
  LET rows == SessionRows({req[p].sid}) IN
  /\ At(p, "Touch")
  /\ Step(p, [Holding(p, rows) EXCEPT !.wrote = @ \cup {"session"}])
  /\ UNCHANGED <<tables, expired, revokedJTI, denied, ended, torn, scene>>

\* Mutant: the UPDATE matches no row (a wrong owner predicate).
RevokeByIDMissed(p) ==
  /\ At(p, "RevokeByID")
  /\ Step(p, Holding(p, SessionRows({req[p].sid})))
  /\ UNCHANGED <<tables, expired, revokedJTI, denied, ended, torn, scene>>

RevokeByID(p) ==
  LET rows == SessionRows({req[p].sid}) IN
  /\ At(p, "RevokeByID")
  /\ Step(p, [Holding(p, rows) EXCEPT !.revSes = @ \cup {req[p].sid}])
  /\ UNCHANGED <<tables, expired, revokedJTI, denied, ended, torn, scene>>

RevokeBySession(p) ==
  LET rows == TokenRows({req[p].sid}) IN
  /\ At(p, "RevokeBySession")
  /\ Step(p, [Holding(p, rows) EXCEPT !.revTok = @ \cup Live(req[p].sid)])
  /\ UNCHANGED <<tables, expired, revokedJTI, denied, ended, torn, scene>>

\* RevokeAllForUser of the token and of the session repository: they also
\* wait for rows another transaction has inserted and not committed.
RevokeTokens(p) ==
  /\ At(p, "RevokeTokens")
  /\ Step(p, [Holding(p, TokenRows(Existing)) EXCEPT
                !.revTok = UNION {Live(s) : s \in Sids}])
  /\ UNCHANGED <<tables, expired, revokedJTI, denied, ended, torn, scene>>

RevokeSessions(p) ==
  /\ At(p, "RevokeSessions")
  /\ Step(p, [Holding(p, SessionRows(Existing)) EXCEPT !.revSes = Existing])
  /\ UNCHANGED <<tables, expired, revokedJTI, denied, ended, torn, scene>>

\* The store's denylist, written before the transaction's outcome is known.
DenySession(p) ==
  /\ At(p, "DenySession")
  /\ Step(p, req[p])
  /\ denied' = denied \cup {req[p].sid}
  /\ UNCHANGED <<tables, expired, revokedJTI, ended, torn, scene>>

DenyAccess(p) ==
  /\ At(p, "DenyAccess")
  /\ Step(p, req[p])
  /\ denied' = denied \cup {req[p].jti}
  /\ UNCHANGED <<tables, expired, revokedJTI, ended, torn, scene>>

\* issueTokenPair's own Authority.Check, with the reads of this transaction:
\* a row it has not changed is read from its snapshot, where all was well.
Issuable(p) ==
  LET r == req[p] IN
  /\ "user" \in r.wrote => user.active /\ user.ver = r.ver
  /\ r.kind = "refresh" =>
       /\ r.sid \notin denied /\ r.sid \notin expired
       /\ "session" \in r.wrote => session[r.sid].state = "live"

\* Uncommitted rows are no one else's to choose.
Unused(S, Used(_), bound) ==
  LET used == {x \in S : Used(x)} IN IF Cardinality(used) < bound THEN S \ used ELSE {}

Fresh == Unused(Pairs, LAMBDA t : Known(t) \/ \E q \in Requests : req[q].minted = t, scene.pairs)
FreshSids == Unused(Sids, LAMBDA s : s \in Existing \/
                      \E q \in Requests : <<"session", s>> \in req[q].held, scene.sids)

\* Mint a pair, in the family of the rotated token or in a new one, whose
\* sessions row is inserted as well.
Issue(p) ==
  LET rotates == req[p].kind = "refresh" IN
  /\ At(p, "Issue")
  /\ Issuable(p)
  /\ \E t \in Fresh, s \in IF rotates THEN {req[p].sid} ELSE FreshSids :
       Step(p, [Holding(p, TokenRows({s}) \cup SessionRows(IF rotates THEN {} ELSE {s})) EXCEPT
                  !.minted = t, !.sid = s])
  /\ UNCHANGED <<tables, expired, revokedJTI, denied, ended, torn, scene>>

IssueDenied(p) ==
  /\ At(p, "Issue")
  /\ ~Issuable(p)
  /\ req' = [req EXCEPT ![p] = NoRequest]
  /\ UNCHANGED <<tables, expired, revokedJTI, denied, ended, torn, scene>>

\* The next statement is one whose error the handler drops.
Droppable(p) == Running(p) /\ req[p].todo # <<>> /\ Head(req[p].todo) \in Ignored(req[p].kind)

\* The statement fails alone (a lock wait times out).
Skip(p) ==
  /\ "statement" \in scene.loses /\ Droppable(p)
  /\ Step(p, req[p])
  /\ UNCHANGED <<tables, expired, revokedJTI, denied, ended, torn, scene>>

\* InnoDB breaks a circle of waiting transactions and rolls back all that p has
\* done.  The handler drops the error and goes on, on a connection that is in
\* autocommit now: it reads what is committed, and each statement is a transaction
\* of its own.
Deadlocked(p) ==
  /\ "transaction" \in scene.loses /\ Droppable(p)
  /\ \E S \in SUBSET Requests : p \in S /\ \A q \in S : \E o \in S : Waits(q, o)
  /\ Step(p, [req[p] EXCEPT !.auto = TRUE, !.wrote = {"user", "session"}, !.held = {},
                            !.revTok = {}, !.revSes = {}, !.upd = {}])
  /\ torn' = IF req[p].kind = "refresh" THEN torn \cup {req[p].sid} ELSE torn
  /\ UNCHANGED <<tables, expired, revokedJTI, denied, ended, scene>>

\* What r has written becomes visible.
Apply(r) ==
  /\ user' = [ver |-> user.ver + (IF "version" \in r.upd THEN 1 ELSE 0),
              pwAt |-> IF "password" \in r.upd THEN user.ver + 1 ELSE user.pwAt,
              active |-> user.active /\ "inactive" \notin r.upd]
  /\ session' = [s \in Sids |->
       IF s \in r.revSes THEN [session[s] EXCEPT !.state = "revoked"]
       ELSE IF r.minted # None /\ s = r.sid /\ r.kind # "refresh"
            THEN [state |-> "live", ver |-> r.ver]
            ELSE session[s]]
  /\ token' = [t \in Pairs |->
       IF t = r.minted THEN [state |-> "live", sid |-> r.sid, ver |-> r.ver]
       ELSE IF t \in r.revTok THEN [token[t] EXCEPT !.state = "revoked"]
            ELSE token[t]]

\* A statement in autocommit ends.
Autocommit(p) ==
  /\ req[p].auto /\ req[p].held # {}
  /\ Apply(req[p])
  /\ req' = [req EXCEPT ![p] = [req[p] EXCEPT !.held = {}, !.revTok = {}, !.revSes = {},
                                             !.minted = None, !.upd = {}]]
  /\ UNCHANGED <<expired, revokedJTI, denied, ended, torn, scene>>

\* The evidence is admitted and the transaction commits, with the jti that a
\* logout has denied first of all.  The reuse of a token is a denial that commits
\* its containment.
Commit(p) ==
  LET r == req[p] IN
  /\ Running(p) /\ r.todo = <<>>
  /\ Apply(r)
  /\ revokedJTI' = revokedJTI \cup (IF r.kind = "logout" /\ ~r.auto THEN {r.jti} ELSE {})
  /\ ended' = ended \cup
       CASE r.kind \in {"login", "factor", "refresh"} -> {}
         [] r.kind \in {"reuse", "revokeSession"} -> {r.sid}
         [] OTHER -> r.scope
  /\ req' = [req EXCEPT ![p] = NoRequest]
  /\ UNCHANGED <<expired, denied, torn, scene>>

\* A statement, the admission of the evidence or the commit fails, a deadlock
\* is broken, the deadline passes, the replica dies: everything that is not
\* committed is rolled back.
Abort(p) ==
  /\ Running(p)
  /\ req' = [req EXCEPT ![p] = NoRequest]
  /\ UNCHANGED <<tables, expired, revokedJTI, denied, ended, torn, scene>>

-----------------------------------------------------------------------------
(* Time, the purge job and the store *)

\* A session's lifetime is fixed at the login.  A token is created after its
\* session with the same TTL, so it expires at some time after its session.
Expire(s) ==
  /\ s \in Existing \ expired
  /\ expired' = expired \cup {s}
  /\ UNCHANGED <<tables, revokedJTI, denied, req, ended, torn, scene>>

PurgeExpired(t) ==
  /\ token[t].state = "revoked" \/ (token[t].state = "live" /\ token[t].sid \in expired)
  /\ \A p \in Requests : <<"tokens", token[t].sid>> \notin req[p].held
  /\ token' = [token EXCEPT ![t].state = "purged"]
  /\ UNCHANGED <<user, session, expired, revokedJTI, denied, req, ended, torn, scene>>

StoreLost ==
  /\ scene.flush /\ denied # {}
  /\ denied' = {}
  /\ UNCHANGED <<tables, expired, revokedJTI, req, ended, torn, scene>>

Begin(p) ==
  \/ Login(p) \/ CompleteMFALogin(p) \/ IssuePasskeyTokenPair(p)
  \/ ResetPassword(p) \/ ConfirmChangeEmail(p) \/ ForceLogout(p)
  \/ \E t \in Pairs : RefreshReused(p, t) \/ Refresh(p, t)
  \/ \E t, a \in Pairs : Logout(p, t, a)
  \/ \E a \in Pairs, s \in Sids : RevokeSession(p, a, s)
  \/ \E a \in Pairs : \/ LogoutAll(p, a) \/ ChangePassword(p, a)
                      \/ DeactivateAccount(p, a) \/ EraseAccount(p, a)

Execute(p) ==
  \/ ResetFailedAttempts(p) \/ BumpPwdVersion(p) \/ UpdatePassword(p)
  \/ UpdateEmail(p) \/ Deactivate(p) \/ Revoke(p) \/ Touch(p)
  \/ RevokeByID(p) \/ RevokeBySession(p) \/ RevokeTokens(p) \/ RevokeSessions(p)
  \/ DenySession(p) \/ DenyAccess(p) \/ Issue(p) \/ IssueDenied(p) \/ Skip(p)
  \/ Deadlocked(p) \/ Autocommit(p) \/ Commit(p) \/ Abort(p)

Next ==
  \/ \E p \in Requests : Begin(p) \/ Execute(p)
  \/ \E s \in Sids : Expire(s)
  \/ \E t \in Pairs : PurgeExpired(t)
  \/ StoreLost

Spec == Init /\ [][Next]_vars

-----------------------------------------------------------------------------
(* Properties *)

\* A family never has two live refresh tokens, whatever rotations, logouts,
\* containments and purges race and whatever errors are dropped: "of two
\* concurrent refreshes of the same token exactly one wins"
\* (RefreshTokenRepository.Revoke).  The one exception is a family whose rotation
\* was the victim of a deadlock at Touch and went on without its transaction.
OneLiveToken == \A s \in Sids \ torn : Cardinality(Live(s)) <= 1

\* Once a logout, a device revocation, a reuse containment or an operation on
\* all sessions has completed, no access token of a family it was to end is
\* accepted and no refresh token of it can be rotated, for good: also when the
\* store loses its denylist, and when a rotation of that family was in flight.
EndedStaysEnded ==
  \A t \in Pairs : Known(t) /\ token[t].sid \in ended =>
    /\ ~Check(t)
    /\ ~(/\ token[t].state = "live" /\ user.active
         /\ session[token[t].sid].state = "live" /\ token[t].sid \notin denied)

(***************************************************************************)
(* The last three state what the documentation and the comments say.  The  *)
(* code does not do it.                                                    *)
(***************************************************************************)

\* "If an already-consumed refresh token is presented, ... every active session
\* and refresh token for that user is immediately revoked" (ARCHITECTURE.md).
\* handleTokenReuse ends the family of the token.
TheftEndsAll ==
  [][\A p \in Requests :
       /\ Commit(p)
       /\ req[p].kind = "reuse" /\ token[req[p].tok].state = "revoked"
       => \A s \in req[p].scope : Live(s)' = {}]_vars

\* "Change password ...; revokes all sessions" (README.md): an accepted access
\* token belongs to a family whose sign-in saw the current password's version.  A
\* sign-in completed by a second factor or a passkey, which writes no users row,
\* checks the version in a snapshot from before the change and commits its family
\* after it.
PasswordEndsSessions ==
  \A t \in Pairs : Check(t) => session[token[t].sid].ver >= user.pwAt

\* "Of two concurrent refreshes of the same token exactly one wins": not when
\* Touch, whose error issueTokenPair drops, is the victim of a deadlock.  Revoke is
\* undone with the rest, and the new pair is inserted beside the old one.
OneWins == \A s \in Sids : Cardinality(Live(s)) <= 1
=============================================================================
