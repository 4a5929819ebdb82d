--------------------------- MODULE SessionsProofs ---------------------------
(***************************************************************************)
(* Proofs about Sessions, for every set of families, pairs and requests    *)
(* and every scene.                                                        *)
(*                                                                         *)
(* OneLiveToken is kept by the row locks: a rotation that has won Revoke   *)
(* holds the rows of its family, so the token it replaces is the live one  *)
(* until it commits, and a login mints into a family nobody else can see.  *)
(* EndedStaysEnded is kept by what a request has written by each point of  *)
(* its program.  Both are therefore stated, in the inductive invariant, of *)
(* the requests in flight.                                                 *)
(***************************************************************************)
EXTENDS Sessions, SequenceTheorems, FiniteSetTheorems, TLAPS

\* A leaf is for Zenon unless it names another prover: SMT, where there is
\* arithmetic or Zenon does not find the proof.
USE Zenon

-----------------------------------------------------------------------------
(* The inductive invariant *)

\* What is left of a program.
Left(r, stmt) == \E i \in 1 .. Len(r.todo) : r.todo[i] = stmt

\* A statement that occurs at one place only.
OnlyAt(r, stmt, n) == \A i \in 1 .. Len(r.todo) : r.todo[i] = stmt => i = n

HoldsTokens(r, s) == <<"tokens", s>> \in r.held
HoldsSession(r, s) == <<"session", s>> \in r.held

Stmts == {"ResetFailedAttempts", "Issue", "Revoke", "Touch", "RevokeByID", "RevokeBySession",
          "DenySession", "RevokeTokens", "RevokeSessions", "BumpPwdVersion", "UpdatePassword",
          "UpdateEmail", "Deactivate", "DenyAccess"}

Shape == [kind : Kinds \cup {None}, todo : Seq(Stmts), tok : Pairs \cup {None},
          jti : Pairs \cup {None}, sid : Sids \cup {None}, ver : Nat,
          wrote : SUBSET {"user", "session"}, held : SUBSET Rows, auto : BOOLEAN,
          revTok : SUBSET Pairs, revSes : SUBSET Sids, minted : Pairs \cup {None},
          upd : SUBSET {"version", "password", "inactive"}, scope : SUBSET Sids]

Minting == {"login", "factor", "refresh"}
EndsOne == {"reuse", "logout", "revokeSession"}
EndsAll == {"logoutAll", "changePassword", "changeEmail", "deactivate"}

\* Which handler is still to issue which statement, and in which order.
Orderly(r) ==
  /\ Left(r, "Revoke") => r.kind \in {"refresh", "logout"} /\ OnlyAt(r, "Revoke", 1)
  /\ Left(r, "Issue") => r.kind \in Minting /\ OnlyAt(r, "Issue", Len(r.todo))
  /\ Left(r, "Touch") => r.kind = "refresh"
  /\ \A x \in {"RevokeByID", "RevokeBySession", "DenySession"} : Left(r, x) => r.kind \in EndsOne
  /\ \A x \in {"RevokeTokens", "RevokeSessions"} : Left(r, x) => r.kind \in EndsAll

\* The family a request works in exists, and the token presented is of it.
InFamily(r) ==
  /\ r.kind \in {"refresh", "reuse"} => r.tok \in Pairs /\ r.sid \in Existing /\ token[r.tok].sid = r.sid
  /\ r.kind = "revokeSession" => r.sid \in Existing
  /\ r.kind = "logout" =>
       \/ r.todo = <<>> /\ r.scope = {}
       \/ r.tok \in Pairs /\ r.sid \in Existing /\ token[r.tok].sid = r.sid /\ r.scope = {r.sid}
  /\ r.scope \subseteq Existing

\* What a request revokes it holds locked.
HoldsRevoked(r) ==
  /\ \A t \in r.revTok : Known(t) /\ HoldsTokens(r, token[t].sid)
  /\ \A s \in r.revSes : s \in Existing /\ HoldsSession(r, s)

\* Token rows are locked in families that exist, or with the session inserted.
HoldsExisting(r) == \A s \in Sids : HoldsTokens(r, s) => s \in Existing \/ HoldsSession(r, s)

\* A rotation past its compare-and-set holds the family, and its token is live, as
\* long as it has its transaction.
Rotating(r) ==
  r.kind = "refresh" /\ ~r.auto /\ ~Left(r, "Revoke") =>
    HoldsTokens(r, r.sid) /\ r.tok \in r.revTok /\ token[r.tok].state = "live"

\* A pair is minted last, and into rows the request holds.
Mints(r) ==
  r.minted # None =>
    /\ r.todo = <<>> /\ r.kind \in Minting /\ r.sid \in Sids
    /\ ~Known(r.minted) /\ HoldsTokens(r, r.sid)
    /\ r.kind # "refresh" => HoldsSession(r, r.sid) /\ r.sid \notin Existing

\* Only a handler that drops errors goes on without its transaction, and T has the
\* families in which a rotation did.
Detached(r, T) ==
  r.auto =>
    /\ "transaction" \in scene.loses
    /\ r.kind \in {"refresh", "reuse", "logout", "changeEmail", "deactivate"}
    /\ r.kind = "refresh" => r.sid \in T

Lossy == scene.loses # {}

\* What has been written by this point against the families to be ended, with
\* denylist D.  An ignored error leaves the denylist or the account's state.
Ending(r, D) ==
  /\ r.kind \in EndsOne /\ (r.kind = "logout" => r.scope # {}) =>
       /\ Left(r, "RevokeByID") \/ r.sid \in r.revSes \/ (Lossy /\ r.kind # "revokeSession")
       /\ Left(r, "DenySession") \/ scene.flush \/ r.sid \in D
  /\ r.kind \in EndsAll =>
       Left(r, "RevokeSessions") \/ r.scope \subseteq r.revSes
         \/ (Lossy /\ r.kind \in {"changeEmail", "deactivate"})
  /\ r.kind = "changeEmail" => "changeEmail" \in scene.offered
  /\ r.kind = "deactivate" =>
       "deactivate" \in scene.offered /\ (Left(r, "Deactivate") \/ "inactive" \in r.upd \/ r.auto)

Lawful(r, D, T) ==
  /\ r \in Shape
  /\ r.kind = None => r = NoRequest
  /\ Orderly(r) /\ InFamily(r) /\ HoldsRevoked(r) /\ HoldsExisting(r)
  /\ Rotating(r) /\ Mints(r) /\ Ending(r, D) /\ Detached(r, T)

\* Two transactions lock no row both and mint no pair both.
Apart(r, q) ==
  /\ \A s \in Sids : ~(HoldsTokens(r, s) /\ HoldsTokens(q, s)) /\ ~(HoldsSession(r, s) /\ HoldsSession(q, s))
  /\ r.minted # None => r.minted # q.minted

Tables ==
  /\ user \in [ver : Nat, pwAt : Nat, active : BOOLEAN]
  /\ session \in [Sids -> [state : {"none", "live", "revoked"}, ver : Nat]]
  /\ token \in [Pairs -> [state : {"none", "live", "revoked", "purged"}, sid : Sids \cup {None}, ver : Nat]]
  /\ \A t \in Pairs : IF Known(t) THEN token[t].sid \in Existing ELSE token[t].sid = None

\* The live tokens of a family are one.
Single == \A t, u \in Pairs :
  /\ token[t].state = "live" /\ token[u].state = "live"
  /\ token[t].sid = token[u].sid /\ token[t].sid \notin torn
  => t = u

\* The behaviours in which EndedStaysEnded holds: when handlers drop errors the
\* denylist is kept, and the e-mail change, which writes neither the denylist nor
\* the account's state, is not made.  Nor is a deactivation, which has its effect on
\* the account undone, where a dropped error may cost the transaction.
Sound ==
  /\ Lossy => ~scene.flush /\ "changeEmail" \notin scene.offered
  /\ "transaction" \in scene.loses => "deactivate" \notin scene.offered

\* A family that was to be ended: its session is revoked, or denied for good, or
\* the account is not active.
Over(s) == session[s].state = "revoked" \/ (~scene.flush /\ s \in denied) \/ ~user.active

Inv ==
  /\ Tables /\ Single
  /\ req \in [Requests -> Shape]
  /\ \A p \in Requests : Lawful(req[p], denied, torn)
  /\ \A p, q \in Requests : p # q => Apart(req[p], req[q])
  /\ ended \subseteq Sids
  /\ Sound => \A s \in ended : Over(s)

-----------------------------------------------------------------------------
(* Rows, programs and what is left of them *)

LEMMA RowsApart ==
  ASSUME NEW S, NEW s
  PROVE  /\ <<"tokens", s>> \in TokenRows(S) <=> s \in S
         /\ <<"session", s>> \in SessionRows(S) <=> s \in S
         /\ <<"tokens", s>> \notin SessionRows(S) /\ <<"session", s>> \notin TokenRows(S)
         /\ <<"tokens", s>> \notin {<<"user">>} /\ <<"session", s>> \notin {<<"user">>}
  BY DEF TokenRows, SessionRows

LEMMA RowsAre ==
  ASSUME NEW S \in SUBSET Sids
  PROVE  /\ TokenRows(S) \in SUBSET Rows /\ SessionRows(S) \in SUBSET Rows
         /\ {<<"user">>} \in SUBSET Rows
  BY DEF TokenRows, SessionRows, Rows

\* A statement is done: what is left afterwards.
LEMMA Advance ==
  ASSUME NEW r, NEW n, r.todo \in Seq(Stmts), r.todo # <<>>, n.todo = Tail(r.todo)
  PROVE  /\ n.todo \in Seq(Stmts) /\ Head(r.todo) \in Stmts
         /\ Left(r, Head(r.todo))
         /\ \A x : Left(n, x) => Left(r, x)
         /\ \A x : Left(r, x) => x = Head(r.todo) \/ Left(n, x)
         /\ \A x : OnlyAt(r, x, 1) => ~Left(n, x)
         /\ \A x : OnlyAt(r, x, Len(r.todo)) => OnlyAt(n, x, Len(n.todo))
         /\ OnlyAt(r, Head(r.todo), Len(r.todo)) => n.todo = <<>> /\ \A x : Left(r, x) => x = Head(r.todo)
  <1> DEFINE t == r.todo
             u == n.todo
  <1>1. /\ u \in Seq(Stmts) /\ Head(t) \in Stmts /\ Len(u) = Len(t) - 1
        /\ Len(t) \in Nat \ {0} /\ Len(u) \in Nat /\ Head(t) = t[1]
        /\ \A i \in 1 .. Len(u) : u[i] = t[i + 1]
    BY HeadTailProperties, EmptySeq, LenProperties, SMT
  <1> HIDE DEF t, u
  <1>2. \A x : (\E i \in 1 .. Len(u) : u[i] = x) => (\E i \in 1 .. Len(t) : t[i] = x)
    BY <1>1, SMT
  <1>3. ASSUME NEW x, NEW i \in 1 .. Len(t), t[i] = x, x # Head(t)
        PROVE  \E j \in 1 .. Len(u) : u[j] = x
    <2>1. i - 1 \in 1 .. Len(u)
      BY <1>1, <1>3, SMT
    <2>2. u[i - 1] = t[(i - 1) + 1]
      BY <1>1, <2>1
    <2>3. t[(i - 1) + 1] = x
      BY <1>3, SMT
    <2> QED BY <2>1, <2>2, <2>3
  <1>4. (\A i \in 1 .. Len(t) : t[i] = Head(t) => i = Len(t)) => Len(t) = 1
    BY <1>1, SMT
  <1>5. Len(t) = 1 => u = <<>> /\ \A i \in 1 .. Len(t) : t[i] = Head(t)
    BY <1>1, EmptySeq, SMT
  <1> QED BY <1>1, <1>2, <1>3, <1>4, <1>5, SMT DEF Left, OnlyAt, t, u

\* The facts about whole programs that the invariant needs when one is loaded.
Loaded(r) ==
  /\ r.todo \in Seq(Stmts) /\ Orderly(r)
  /\ r.kind = "refresh" => Left(r, "Revoke")
  /\ r.kind \in EndsOne => Left(r, "RevokeByID") /\ Left(r, "DenySession")
  /\ r.kind \in EndsAll => Left(r, "RevokeSessions")
  /\ r.kind = "deactivate" => Left(r, "Deactivate")

LEMMA Programs ==
  ASSUME NEW r, r.kind \in Kinds, r.todo = Program(r.kind)
  PROVE  Loaded(r)
  <1> USE DEF Loaded, Orderly, Left, OnlyAt, Minting, EndsOne, EndsAll, Stmts
  <1>1. CASE r.kind = "login"
    <2>1. r.todo = <<"ResetFailedAttempts", "Issue">>
      BY <1>1 DEF Program
    <2>2. /\ r.todo \in Seq(Stmts) /\ Len(r.todo) = 2
          /\ r.todo[1] = "ResetFailedAttempts" /\ r.todo[2] = "Issue"
      BY <2>1, SMT
    <2>3. OnlyAt(r, "Issue", Len(r.todo)) /\ OnlyAt(r, "Revoke", 1)
      BY <2>2, SMT
    <2>4. r.kind \in Minting
      BY <1>1
    <2>5. /\ \A x \in {"RevokeByID", "RevokeBySession", "DenySession"} : ~Left(r, x)
          /\ \A x \in {"RevokeTokens", "RevokeSessions"} : ~Left(r, x)
      BY <2>2, SMT
    <2>6. /\ Left(r, "Revoke") => r.kind = "refresh"
          /\ Left(r, "Touch") => r.kind = "refresh"
          /\ r.kind = "refresh" => Left(r, "Revoke")
      BY <1>1, <2>2, SMT
    <2> HIDE DEF Left, OnlyAt, Minting
    <2> QED BY <1>1, <2>2, <2>3, <2>5, <2>6, <2>4
  <1>2. CASE r.kind = "factor"
    <2>1. r.todo = <<"Issue">>
      BY <1>2 DEF Program
    <2>2. /\ r.todo \in Seq(Stmts) /\ Len(r.todo) = 1
          /\ r.todo[1] = "Issue"
      BY <2>1, SMT
    <2>3. OnlyAt(r, "Issue", Len(r.todo)) /\ OnlyAt(r, "Revoke", 1)
      BY <2>2, SMT
    <2>4. r.kind \in Minting
      BY <1>2
    <2>5. /\ \A x \in {"RevokeByID", "RevokeBySession", "DenySession"} : ~Left(r, x)
          /\ \A x \in {"RevokeTokens", "RevokeSessions"} : ~Left(r, x)
      BY <2>2, SMT
    <2>6. /\ Left(r, "Revoke") => r.kind = "refresh"
          /\ Left(r, "Touch") => r.kind = "refresh"
          /\ r.kind = "refresh" => Left(r, "Revoke")
      BY <1>2, <2>2, SMT
    <2> HIDE DEF Left, OnlyAt, Minting
    <2> QED BY <1>2, <2>2, <2>3, <2>5, <2>6, <2>4
  <1>3. CASE r.kind = "refresh"
    <2>1. r.todo = <<"Revoke", "Touch", "Issue">>
      BY <1>3 DEF Program
    <2>2. /\ r.todo \in Seq(Stmts) /\ Len(r.todo) = 3
          /\ r.todo[1] = "Revoke" /\ r.todo[2] = "Touch" /\ r.todo[3] = "Issue"
      BY <2>1, SMT
    <2>3. OnlyAt(r, "Issue", Len(r.todo)) /\ OnlyAt(r, "Revoke", 1)
      BY <2>2, SMT
    <2>4. r.kind \in Minting
      BY <1>3
    <2>5. /\ \A x \in {"RevokeByID", "RevokeBySession", "DenySession"} : ~Left(r, x)
          /\ \A x \in {"RevokeTokens", "RevokeSessions"} : ~Left(r, x)
      BY <2>2, SMT
    <2>6. /\ Left(r, "Revoke") => r.kind = "refresh"
          /\ Left(r, "Touch") => r.kind = "refresh"
          /\ r.kind = "refresh" => Left(r, "Revoke")
      BY <1>3, <2>2, SMT
    <2> HIDE DEF Left, OnlyAt, Minting
    <2> QED BY <1>3, <2>2, <2>3, <2>5, <2>6, <2>4
  <1>4. CASE r.kind = "reuse"
    <2>1. r.todo = <<"RevokeByID", "RevokeBySession", "DenySession">>
      BY <1>4 DEF Program
    <2>2. /\ r.todo \in Seq(Stmts) /\ Len(r.todo) = 3
          /\ r.todo[1] = "RevokeByID" /\ r.todo[2] = "RevokeBySession" /\ r.todo[3] = "DenySession"
      BY <2>1, SMT
    <2> QED BY <1>4, <2>2, SMT
  <1>5. CASE r.kind = "logout"
    <2>1. r.todo = <<"Revoke", "RevokeByID", "RevokeBySession", "DenySession">>
      BY <1>5 DEF Program
    <2>2. /\ r.todo \in Seq(Stmts) /\ Len(r.todo) = 4
          /\ r.todo[1] = "Revoke" /\ r.todo[2] = "RevokeByID" /\ r.todo[3] = "RevokeBySession" /\ r.todo[4] = "DenySession"
      BY <2>1, SMT
    <2> QED BY <1>5, <2>2, SMT
  <1>6. CASE r.kind = "revokeSession"
    <2>1. r.todo = <<"RevokeByID", "RevokeBySession", "DenySession">>
      BY <1>6 DEF Program
    <2>2. /\ r.todo \in Seq(Stmts) /\ Len(r.todo) = 3
          /\ r.todo[1] = "RevokeByID" /\ r.todo[2] = "RevokeBySession" /\ r.todo[3] = "DenySession"
      BY <2>1, SMT
    <2> QED BY <1>6, <2>2, SMT
  <1>7. CASE r.kind = "logoutAll"
    <2>1. r.todo = <<"RevokeTokens", "RevokeSessions", "BumpPwdVersion">>
      BY <1>7 DEF Program
    <2>2. /\ r.todo \in Seq(Stmts) /\ Len(r.todo) = 3
          /\ r.todo[1] = "RevokeTokens" /\ r.todo[2] = "RevokeSessions" /\ r.todo[3] = "BumpPwdVersion"
      BY <2>1, SMT
    <2> QED BY <1>7, <2>2, SMT
  <1>8. CASE r.kind = "changePassword"
    <2>1. r.todo = <<"UpdatePassword", "RevokeTokens", "RevokeSessions">>
      BY <1>8 DEF Program
    <2>2. /\ r.todo \in Seq(Stmts) /\ Len(r.todo) = 3
          /\ r.todo[1] = "UpdatePassword" /\ r.todo[2] = "RevokeTokens" /\ r.todo[3] = "RevokeSessions"
      BY <2>1, SMT
    <2> QED BY <1>8, <2>2, SMT
  <1>9. CASE r.kind = "changeEmail"
    <2>1. r.todo = <<"UpdateEmail", "RevokeTokens", "RevokeSessions", "BumpPwdVersion">>
      BY <1>9 DEF Program
    <2>2. /\ r.todo \in Seq(Stmts) /\ Len(r.todo) = 4
          /\ r.todo[1] = "UpdateEmail" /\ r.todo[2] = "RevokeTokens" /\ r.todo[3] = "RevokeSessions" /\ r.todo[4] = "BumpPwdVersion"
      BY <2>1, SMT
    <2> QED BY <1>9, <2>2, SMT
  <1>10. CASE r.kind = "deactivate"
    <2>1. r.todo = <<"Deactivate", "RevokeTokens", "RevokeSessions", "BumpPwdVersion", "DenyAccess">>
      BY <1>10 DEF Program
    <2>2. /\ r.todo \in Seq(Stmts) /\ Len(r.todo) = 5
          /\ r.todo[1] = "Deactivate" /\ r.todo[2] = "RevokeTokens" /\ r.todo[3] = "RevokeSessions" /\ r.todo[4] = "BumpPwdVersion" /\ r.todo[5] = "DenyAccess"
      BY <2>1, SMT
    <2> QED BY <1>10, <2>2, SMT
  <1> QED BY <1>1, <1>2, <1>3, <1>4, <1>5, <1>6, <1>7, <1>8, <1>9, <1>10 DEF Kinds

-----------------------------------------------------------------------------
(* Steps of one request *)

LEMMA NothingHeld ==
  /\ Lawful(NoRequest, denied, torn) /\ NoRequest.kind = None /\ NoRequest.minted = None
  /\ \A q : Apart(NoRequest, q)
  <1>1. NoRequest \in Shape /\ NoRequest.todo = <<>> /\ NoRequest.kind = None /\ NoRequest.minted = None
        /\ NoRequest.held = {} /\ NoRequest.revTok = {} /\ NoRequest.revSes = {} /\ NoRequest.scope = {}
        /\ NoRequest.auto = FALSE
    BY EmptySeq DEF NoRequest, Shape
  <1>2. \A x : ~Left(NoRequest, x)
    BY <1>1, SMT DEF Left
  <1>3. Orderly(NoRequest)
    BY <1>2 DEF Orderly
  <1>4. None \notin Kinds
    BY NoneAssumption
  <1>5. /\ None \notin {"refresh", "reuse"} /\ None # "revokeSession" /\ None # "logout"
        /\ None \notin EndsOne /\ None \notin EndsAll /\ None # "changeEmail" /\ None # "deactivate"
        /\ None # "refresh"
    BY <1>4 DEF Kinds, EndsOne, EndsAll
  <1>6. InFamily(NoRequest) /\ Rotating(NoRequest) /\ Ending(NoRequest, denied) /\ Detached(NoRequest, torn)
    BY <1>1, <1>5 DEF InFamily, Rotating, Ending, Detached
  <1> QED BY <1>1, <1>3, <1>6 DEF Lawful, HoldsRevoked, HoldsExisting, Mints, Apart,
                                 HoldsTokens, HoldsSession

\* One request moves on to n, the tables stay, the denylist does not shrink.
LEMMA OneRequest ==
  ASSUME Inv, NEW p \in Requests, NEW n, req' = [req EXCEPT ![p] = n],
         UNCHANGED <<user, session, token, ended, scene>>,
         denied \subseteq denied', torn \subseteq torn',
         Lawful(n, denied', torn'), \A q \in Requests \ {p} : Apart(n, req[q])
  PROVE  Inv'
  <1>1. \A q \in Requests : req'[q] = IF q = p THEN n ELSE req[q]
    BY DEF Inv
  <1>2. n \in Shape /\ req' \in [Requests -> Shape]
    BY DEF Inv, Lawful
  <1>3. \A q \in Requests : Lawful(req'[q], denied', torn')
    BY <1>1 DEF Inv, Lawful, Ending, Detached
  <1>4. ASSUME NEW q \in Requests PROVE Lawful(req[q], denied, torn)'
    <2>1. /\ req'[q] \in Shape /\ (req'[q].kind = None => req'[q] = NoRequest)
          /\ Orderly(req'[q])
      BY <1>3, <1>4 DEF Lawful
    <2>2. InFamily(req[q])'
      BY <1>3, <1>4 DEF Lawful, InFamily, Existing
    <2>3. HoldsRevoked(req[q])' /\ HoldsExisting(req[q])'
      BY <1>3, <1>4 DEF Lawful, HoldsRevoked, HoldsExisting, Known, Existing, HoldsTokens, HoldsSession
    <2>4. Rotating(req[q])' /\ Mints(req[q])'
      BY <1>3, <1>4 DEF Lawful, Rotating, Mints, Known, Existing, HoldsTokens, HoldsSession, Left
    <2>5. Ending(req[q], denied)' /\ Detached(req[q], torn)'
      BY <1>3, <1>4 DEF Lawful, Ending, Left, Lossy, Detached
    <2>6. Orderly(req[q])'
      BY <2>1 DEF Orderly, Left, OnlyAt
    <2> QED BY <2>1, <2>2, <2>3, <2>4, <2>5, <2>6 DEF Lawful
  <1>5. ASSUME NEW a \in Requests, NEW b \in Requests, a # b PROVE Apart(req[a], req[b])'
    <2>1. Apart(req'[a], req'[b])
      BY <1>1, <1>5 DEF Inv, Apart
    <2> QED BY <2>1 DEF Apart, HoldsTokens, HoldsSession
  <1>6. Tables' /\ Single'
    BY DEF Inv, Tables, Single, Known, Existing
  <1>7. ended' \subseteq Sids /\ (Sound' => \A s \in ended' : Over(s)')
    BY DEF Inv, Sound, Lossy, Over
  <1> QED BY <1>2, <1>4, <1>5, <1>6, <1>7 DEF Inv

\* A statement is done, and what it wrote, waited for or left out is in n.
LEMMA Statement ==
  ASSUME NEW r, NEW n, NEW D, NEW T, Lawful(r, denied, torn), denied \subseteq D, torn \subseteq T,
         r.kind # None, r.todo # <<>>, n \in Shape, n.todo = Tail(r.todo),
         n.kind = r.kind, n.tok = r.tok, n.sid = r.sid, n.scope = r.scope, n.minted = r.minted,
         n.auto = r.auto,
         \A s : HoldsTokens(r, s) => HoldsTokens(n, s),
         r.kind = "refresh" => r.revTok \subseteq n.revTok,
         r.revSes \subseteq n.revSes, r.upd \subseteq n.upd,
         HoldsRevoked(n), HoldsExisting(n),
         r.kind = "refresh" /\ Head(r.todo) = "Revoke" => Rotating(n),
         Head(r.todo) = "RevokeByID" =>
           r.sid \in n.revSes \/ (Lossy /\ r.kind # "revokeSession"),
         Head(r.todo) = "DenySession" => r.sid \in D,
         Head(r.todo) = "RevokeSessions" =>
           r.scope \subseteq n.revSes \/ (Lossy /\ r.kind \in {"changeEmail", "deactivate"}),
         Head(r.todo) = "Deactivate" => "inactive" \in n.upd
  PROVE  Lawful(n, D, T)
  <1>1. /\ n.todo \in Seq(Stmts) /\ Head(r.todo) \in Stmts
        /\ Left(r, Head(r.todo))
        /\ \A x : Left(n, x) => Left(r, x)
        /\ \A x : Left(r, x) => x = Head(r.todo) \/ Left(n, x)
        /\ \A x : OnlyAt(r, x, 1) => ~Left(n, x)
        /\ \A x : OnlyAt(r, x, Len(r.todo)) => OnlyAt(n, x, Len(n.todo))
    <2>1. r.todo \in Seq(Stmts)
      BY DEF Lawful, Shape
    <2> QED BY <2>1, Advance
  <1>2. Orderly(n)
    <2>1. ~Left(n, "Revoke")
      BY <1>1 DEF Lawful, Orderly
    <2>2. Left(n, "Issue") => n.kind \in Minting /\ OnlyAt(n, "Issue", Len(n.todo))
      BY <1>1 DEF Lawful, Orderly
    <2> QED BY <1>1, <2>1, <2>2 DEF Lawful, Orderly
  <1>3. InFamily(n)
    BY DEF Lawful, InFamily
  <1>4. Rotating(n)
    BY <1>1 DEF Lawful, Rotating
  <1>5. Mints(n)
    BY DEF Lawful, Mints
  <1>6. Ending(n, D)
    <2>1. r.kind \in EndsOne /\ (r.kind = "logout" => r.scope # {}) =>
            /\ Left(n, "RevokeByID") \/ n.sid \in n.revSes \/ (Lossy /\ n.kind # "revokeSession")
            /\ Left(n, "DenySession") \/ scene.flush \/ n.sid \in D
      BY <1>1 DEF Lawful, Ending
    <2>2. r.kind \in EndsAll =>
            Left(n, "RevokeSessions") \/ n.scope \subseteq n.revSes
              \/ (Lossy /\ n.kind \in {"changeEmail", "deactivate"})
      BY <1>1 DEF Lawful, Ending
    <2>3. r.kind = "deactivate" => Left(n, "Deactivate") \/ "inactive" \in n.upd \/ n.auto
      BY <1>1 DEF Lawful, Ending
    <2> QED BY <2>1, <2>2, <2>3 DEF Lawful, Ending
  <1>7. Detached(n, T)
    BY DEF Lawful, Detached
  <1> QED BY <1>2, <1>3, <1>4, <1>5, <1>6, <1>7 DEF Lawful

\* Rows that nobody else holds are locked.
LEMMA Locked ==
  ASSUME Inv, NEW p \in Requests, NEW n, NEW rows, n.held = req[p].held \cup rows,
         n.minted = req[p].minted, \A q \in Requests \ {p} : req[q].held \cap rows = {}
  PROVE  \A q \in Requests \ {p} : Apart(n, req[q])
  BY DEF Inv, Apart, HoldsTokens, HoldsSession

\* The same of a statement that keeps the family, the token and the scope.
Same(n, r) ==
  /\ n.todo = Tail(r.todo) /\ n.kind = r.kind /\ n.tok = r.tok /\ n.sid = r.sid
  /\ n.scope = r.scope /\ n.minted = r.minted /\ n.auto = r.auto

LEMMA Executed ==
  ASSUME Inv, NEW p \in Requests, NEW n, NEW rows, req[p].kind # None, req[p].todo # <<>>,
         req' = [req EXCEPT ![p] = n],
         UNCHANGED <<user, session, token, ended, torn, scene>>, denied \subseteq denied',
         n \in Shape, Same(n, req[p]), n.held = req[p].held \cup rows,
         \A q \in Requests \ {p} : req[q].held \cap rows = {},
         req[p].kind = "refresh" => req[p].revTok \subseteq n.revTok,
         req[p].revSes \subseteq n.revSes, req[p].upd \subseteq n.upd,
         HoldsRevoked(n), HoldsExisting(n),
         req[p].kind = "refresh" /\ Head(req[p].todo) = "Revoke" => Rotating(n),
         Head(req[p].todo) = "RevokeByID" =>
           req[p].sid \in n.revSes \/ (Lossy /\ req[p].kind # "revokeSession"),
         Head(req[p].todo) = "DenySession" => req[p].sid \in denied',
         Head(req[p].todo) = "RevokeSessions" =>
           req[p].scope \subseteq n.revSes \/ (Lossy /\ req[p].kind \in {"changeEmail", "deactivate"}),
         Head(req[p].todo) = "Deactivate" => "inactive" \in n.upd
  PROVE  Inv'
  <1>1. Lawful(req[p], denied, torn)
    BY DEF Inv
  <1>2. \A s : HoldsTokens(req[p], s) => HoldsTokens(n, s)
    BY DEF HoldsTokens
  <1>3. Lawful(n, denied', torn')
    BY <1>1, <1>2, Statement DEF Same
  <1>4. \A q \in Requests \ {p} : Apart(n, req[q])
    BY Locked DEF Same
  <1> QED BY <1>3, <1>4, OneRequest

\* The rows a statement waits for.
LEMMA NeedsAre ==
  ASSUME NEW p, NEW stmt, Head(req[p].todo) = stmt
  PROVE  /\ stmt \in {"ResetFailedAttempts", "BumpPwdVersion", "UpdatePassword", "UpdateEmail", "Deactivate"} =>
              Needs(p) = {<<"user">>}
         /\ stmt \in {"Revoke", "RevokeBySession"} => Needs(p) = TokenRows({req[p].sid})
         /\ stmt \in {"Touch", "RevokeByID"} => Needs(p) = SessionRows({req[p].sid})
         /\ stmt = "RevokeTokens" => Needs(p) = TokenRows(Sids)
         /\ stmt = "RevokeSessions" => Needs(p) = SessionRows(Sids)
         /\ stmt = "Issue" /\ req[p].kind = "refresh" => Needs(p) = TokenRows({req[p].sid})
  BY SMT DEF Needs

\* What a request at a statement is known to be.
LEMMA AtStatement ==
  ASSUME Inv, NEW p \in Requests, NEW stmt, NEW rows, At(p, stmt), Needs(p) = rows
  PROVE  /\ Lawful(req[p], denied, torn) /\ req[p] \in Shape /\ req[p].kind # None
         /\ req[p].todo # <<>> /\ Head(req[p].todo) = stmt /\ Tail(req[p].todo) \in Seq(Stmts)
         /\ Left(req[p], stmt)
         /\ \A q \in Requests \ {p} : req[q].held \cap rows = {}
  <1>1. Lawful(req[p], denied, torn) /\ req[p].kind # None /\ req[p].todo # <<>> /\ Head(req[p].todo) = stmt
    BY DEF Inv, At, Running
  <1>2. req[p] \in Shape /\ req[p].todo \in Seq(Stmts)
    BY <1>1 DEF Lawful, Shape
  <1>3. Tail(req[p].todo) \in Seq(Stmts)
    BY <1>1, <1>2, HeadTailProperties
  <1>4. Left(req[p], stmt)
    <2> DEFINE m == [todo |-> Tail(req[p].todo)]
    <2>1. m.todo = Tail(req[p].todo)
      OBVIOUS
    <2> HIDE DEF m
    <2> QED BY <1>1, <1>2, <2>1, Advance
  <1> QED BY <1>1, <1>2, <1>3, <1>4 DEF At, Waits, Running

\* Locks that do not disturb what a request has revoked.
LEMMA MoreLocks ==
  ASSUME NEW r, NEW n, Lawful(r, denied, torn), n.held = r.held \cup {<<"user">>},
         n.revTok = r.revTok, n.revSes = r.revSes
  PROVE  HoldsRevoked(n) /\ HoldsExisting(n)
  BY RowsApart DEF Lawful, HoldsRevoked, HoldsExisting, HoldsTokens, HoldsSession

LEMMA ResetKeeps ==
  ASSUME Inv, NEW p \in Requests, ResetFailedAttempts(p) PROVE Inv'
  <1> DEFINE r == req[p]
             rows == {<<"user">>}
             n == [[[r EXCEPT !.held = @ \cup rows] EXCEPT !.wrote = {"user"}] EXCEPT !.todo = Tail(@)]
  <1>2. req' = [req EXCEPT ![p] = n] /\ UNCHANGED <<user, session, token, denied, ended, torn, scene>>
    BY DEF ResetFailedAttempts, Step, Holding, tables
  <1>0. At(p, "ResetFailedAttempts") /\ Needs(p) = {<<"user">>}
    BY NeedsAre DEF ResetFailedAttempts, At
  <1>3. /\ Lawful(r, denied, torn) /\ r \in Shape /\ r.kind # None
        /\ r.todo # <<>> /\ Head(r.todo) = "ResetFailedAttempts" /\ Tail(r.todo) \in Seq(Stmts)
        /\ \A q \in Requests \ {p} : req[q].held \cap rows = {}
    BY <1>0, AtStatement
  <1>4. rows \in SUBSET Rows
    BY RowsAre
  <1>5. /\ n \in Shape /\ Same(n, r) /\ n.held = r.held \cup rows
        /\ n.revTok = r.revTok /\ n.revSes = r.revSes /\ n.upd = r.upd
    BY <1>3, <1>4 DEF Shape, Same
  <1> HIDE DEF n
  <1>6. HoldsRevoked(n) /\ HoldsExisting(n)
    BY <1>3, <1>5, MoreLocks
  <1> QED BY <1>2, <1>3, <1>5, <1>6, Executed

LEMMA UserUpdateKeeps ==
  ASSUME Inv, NEW p \in Requests, NEW stmt \in {"BumpPwdVersion", "UpdatePassword", "UpdateEmail", "Deactivate"},
         NEW effect \in SUBSET {"version", "password", "inactive"},
         stmt = "Deactivate" => "inactive" \in effect, UserUpdate(p, stmt, effect)
  PROVE  Inv'
  <1> DEFINE r == req[p]
             rows == {<<"user">>}
             n == [[[r EXCEPT !.held = @ \cup rows] EXCEPT !.upd = @ \cup effect] EXCEPT !.todo = Tail(@)]
  <1>1. req' = [req EXCEPT ![p] = n] /\ UNCHANGED <<user, session, token, denied, ended, torn, scene>>
    BY DEF UserUpdate, Step, Holding, tables
  <1>0. At(p, stmt) /\ Needs(p) = {<<"user">>}
    BY NeedsAre DEF UserUpdate, At
  <1>2. /\ Lawful(r, denied, torn) /\ r \in Shape /\ r.kind # None
        /\ r.todo # <<>> /\ Head(r.todo) = stmt /\ Tail(r.todo) \in Seq(Stmts)
        /\ \A q \in Requests \ {p} : req[q].held \cap rows = {}
    BY <1>0, AtStatement
  <1>3. rows \in SUBSET Rows
    BY RowsAre
  <1>4. /\ n \in Shape /\ Same(n, r) /\ n.held = r.held \cup rows
        /\ n.revTok = r.revTok /\ n.revSes = r.revSes /\ n.upd = r.upd \cup effect
    BY <1>2, <1>3 DEF Shape, Same
  <1> HIDE DEF n
  <1>5. HoldsRevoked(n) /\ HoldsExisting(n)
    BY <1>2, <1>4, MoreLocks
  <1>6. stmt \notin {"Revoke", "RevokeByID", "DenySession", "RevokeSessions"}
    OBVIOUS
  <1> QED BY <1>1, <1>2, <1>4, <1>5, <1>6, Executed

LEMMA SessionLocks ==
  ASSUME NEW r, NEW n, Lawful(r, denied, torn), NEW S \in SUBSET Existing,
         n.held = r.held \cup SessionRows(S), n.revTok = r.revTok, n.revSes \subseteq r.revSes \cup S
  PROVE  HoldsRevoked(n) /\ HoldsExisting(n)
  BY RowsApart DEF Lawful, HoldsRevoked, HoldsExisting, HoldsTokens, HoldsSession

LEMMA TokenLocks ==
  ASSUME NEW r, NEW n, Lawful(r, denied, torn), NEW S \in SUBSET Existing,
         n.held = r.held \cup TokenRows(S), n.revSes = r.revSes,
         \A t \in n.revTok : t \in r.revTok \/ (Known(t) /\ token[t].sid \in S)
  PROVE  HoldsRevoked(n) /\ HoldsExisting(n)
  BY RowsApart DEF Lawful, HoldsRevoked, HoldsExisting, HoldsTokens, HoldsSession

\* A statement on one family is one on a family that exists.
LEMMA FamilyExists ==
  ASSUME NEW r, Lawful(r, denied, torn), r.kind # None, r.todo # <<>>,
         Left(r, "Revoke") \/ Left(r, "Touch") \/ Left(r, "RevokeByID")
           \/ Left(r, "RevokeBySession") \/ Left(r, "DenySession")
  PROVE  r.sid \in Existing /\ {r.sid} \in SUBSET Existing /\ {r.sid} \in SUBSET Sids
  <1>1. r.kind \in {"refresh", "logout"} \/ r.kind = "refresh" \/ r.kind \in EndsOne
    BY DEF Lawful, Orderly
  <1>2. r.sid \in Existing
    BY <1>1 DEF Lawful, InFamily, EndsOne
  <1> QED BY <1>2 DEF Existing

LEMMA TouchKeeps ==
  ASSUME Inv, NEW p \in Requests, Touch(p) PROVE Inv'
  <1> DEFINE r == req[p]
             rows == SessionRows({r.sid})
             n == [[[r EXCEPT !.held = @ \cup rows] EXCEPT !.wrote = @ \cup {"session"}] EXCEPT !.todo = Tail(@)]
  <1>1. req' = [req EXCEPT ![p] = n] /\ UNCHANGED <<user, session, token, denied, ended, torn, scene>>
    BY DEF Touch, Step, Holding, tables
  <1>0. At(p, "Touch") /\ Needs(p) = SessionRows({r.sid})
    BY NeedsAre DEF Touch, At
  <1>2. /\ Lawful(r, denied, torn) /\ r \in Shape /\ r.kind # None
        /\ r.todo # <<>> /\ Head(r.todo) = "Touch" /\ Tail(r.todo) \in Seq(Stmts) /\ Left(r, "Touch")
        /\ \A q \in Requests \ {p} : req[q].held \cap rows = {}
    BY <1>0, AtStatement, SMT
  <1>3. {r.sid} \in SUBSET Existing /\ rows \in SUBSET Rows
    BY <1>2, FamilyExists, RowsAre
  <1>4. /\ n \in Shape /\ Same(n, r) /\ n.held = r.held \cup rows
        /\ n.revTok = r.revTok /\ n.revSes = r.revSes /\ n.upd = r.upd
    BY <1>2, <1>3 DEF Shape, Same
  <1> HIDE DEF n
  <1>5. HoldsRevoked(n) /\ HoldsExisting(n)
    BY <1>2, <1>3, <1>4, SessionLocks
  <1> QED BY <1>1, <1>2, <1>4, <1>5, Executed

LEMMA RevokeByIDKeeps ==
  ASSUME Inv, NEW p \in Requests, RevokeByID(p) PROVE Inv'
  <1> DEFINE r == req[p]
             rows == SessionRows({r.sid})
             n == [[[r EXCEPT !.held = @ \cup rows] EXCEPT !.revSes = @ \cup {r.sid}] EXCEPT !.todo = Tail(@)]
  <1>1. req' = [req EXCEPT ![p] = n] /\ UNCHANGED <<user, session, token, denied, ended, torn, scene>>
    BY DEF RevokeByID, Step, Holding, tables
  <1>0. At(p, "RevokeByID") /\ Needs(p) = SessionRows({r.sid})
    BY NeedsAre DEF RevokeByID, At
  <1>2. /\ Lawful(r, denied, torn) /\ r \in Shape /\ r.kind # None
        /\ r.todo # <<>> /\ Head(r.todo) = "RevokeByID" /\ Tail(r.todo) \in Seq(Stmts) /\ Left(r, "RevokeByID")
        /\ \A q \in Requests \ {p} : req[q].held \cap rows = {}
    BY <1>0, AtStatement, SMT
  <1>3. {r.sid} \in SUBSET Existing /\ {r.sid} \in SUBSET Sids /\ rows \in SUBSET Rows
    BY <1>2, FamilyExists, RowsAre
  <1>4. /\ n \in Shape /\ Same(n, r) /\ n.held = r.held \cup rows
        /\ n.revTok = r.revTok /\ n.revSes = r.revSes \cup {r.sid} /\ n.upd = r.upd
    BY <1>2, <1>3 DEF Shape, Same
  <1> HIDE DEF n
  <1>5. HoldsRevoked(n) /\ HoldsExisting(n)
    BY <1>2, <1>3, <1>4, SessionLocks
  <1> QED BY <1>1, <1>2, <1>4, <1>5, Executed

LEMMA RevokeBySessionKeeps ==
  ASSUME Inv, NEW p \in Requests, RevokeBySession(p) PROVE Inv'
  <1> DEFINE r == req[p]
             rows == TokenRows({r.sid})
             n == [[[r EXCEPT !.held = @ \cup rows] EXCEPT !.revTok = @ \cup Live(r.sid)] EXCEPT !.todo = Tail(@)]
  <1>1. req' = [req EXCEPT ![p] = n] /\ UNCHANGED <<user, session, token, denied, ended, torn, scene>>
    BY DEF RevokeBySession, Step, Holding, tables
  <1>0. At(p, "RevokeBySession") /\ Needs(p) = TokenRows({r.sid})
    BY NeedsAre DEF RevokeBySession, At
  <1>2. /\ Lawful(r, denied, torn) /\ r \in Shape /\ r.kind # None
        /\ r.todo # <<>> /\ Head(r.todo) = "RevokeBySession" /\ Tail(r.todo) \in Seq(Stmts)
        /\ Left(r, "RevokeBySession")
        /\ \A q \in Requests \ {p} : req[q].held \cap rows = {}
    BY <1>0, AtStatement, SMT
  <1>3. {r.sid} \in SUBSET Existing /\ {r.sid} \in SUBSET Sids /\ rows \in SUBSET Rows
    BY <1>2, FamilyExists, RowsAre
  <1>4. /\ Live(r.sid) \in SUBSET Pairs
        /\ \A t \in Live(r.sid) : Known(t) /\ token[t].sid \in {r.sid}
    BY DEF Live, Family, Known
  <1>5. /\ n \in Shape /\ Same(n, r) /\ n.held = r.held \cup rows
        /\ n.revTok = r.revTok \cup Live(r.sid) /\ n.revSes = r.revSes /\ n.upd = r.upd
    BY <1>2, <1>3, <1>4 DEF Shape, Same
  <1> HIDE DEF n
  <1>6. HoldsRevoked(n) /\ HoldsExisting(n)
    BY <1>2, <1>3, <1>4, <1>5, TokenLocks
  <1> QED BY <1>1, <1>2, <1>5, <1>6, Executed

LEMMA RevokeTokensKeeps ==
  ASSUME Inv, NEW p \in Requests, RevokeTokens(p) PROVE Inv'
  <1> DEFINE r == req[p]
             rows == TokenRows(Existing)
             all == UNION {Live(s) : s \in Sids}
             n == [[[r EXCEPT !.held = @ \cup rows] EXCEPT !.revTok = all] EXCEPT !.todo = Tail(@)]
  <1>1. req' = [req EXCEPT ![p] = n] /\ UNCHANGED <<user, session, token, denied, ended, torn, scene>>
    BY DEF RevokeTokens, Step, Holding, tables
  <1>0. At(p, "RevokeTokens") /\ Needs(p) = TokenRows(Sids)
    BY NeedsAre DEF RevokeTokens, At
  <1>2. /\ Lawful(r, denied, torn) /\ r \in Shape /\ r.kind # None
        /\ r.todo # <<>> /\ Head(r.todo) = "RevokeTokens" /\ Tail(r.todo) \in Seq(Stmts)
        /\ Left(r, "RevokeTokens")
        /\ \A q \in Requests \ {p} : req[q].held \cap TokenRows(Sids) = {}
    BY <1>0, AtStatement
  <1>3. Existing \in SUBSET Sids /\ rows \in SUBSET Rows /\ rows \subseteq TokenRows(Sids)
    BY RowsAre DEF Existing, TokenRows
  <1>4. all \in SUBSET Pairs /\ \A t \in all : Known(t) /\ token[t].sid \in Existing
    BY SMT DEF Live, Family, Known, Inv, Tables
  <1>5. /\ n \in Shape /\ Same(n, r) /\ n.held = r.held \cup rows
        /\ n.revTok = all /\ n.revSes = r.revSes /\ n.upd = r.upd
    BY <1>2, <1>3, <1>4 DEF Shape, Same
  <1> HIDE DEF n, all
  <1>6. HoldsRevoked(n) /\ HoldsExisting(n)
    BY <1>2, <1>3, <1>4, <1>5, TokenLocks
  <1>7. r.kind # "refresh"
    BY <1>2 DEF Lawful, Orderly, EndsAll
  <1>8. \A q \in Requests \ {p} : req[q].held \cap rows = {}
    BY <1>2, <1>3
  <1> QED BY <1>1, <1>2, <1>5, <1>6, <1>7, <1>8, Executed

LEMMA RevokeSessionsKeeps ==
  ASSUME Inv, NEW p \in Requests, RevokeSessions(p) PROVE Inv'
  <1> DEFINE r == req[p]
             rows == SessionRows(Existing)
             n == [[[r EXCEPT !.held = @ \cup rows] EXCEPT !.revSes = Existing] EXCEPT !.todo = Tail(@)]
  <1>1. req' = [req EXCEPT ![p] = n] /\ UNCHANGED <<user, session, token, denied, ended, torn, scene>>
    BY DEF RevokeSessions, Step, Holding, tables
  <1>0. At(p, "RevokeSessions") /\ Needs(p) = SessionRows(Sids)
    BY NeedsAre DEF RevokeSessions, At
  <1>2. /\ Lawful(r, denied, torn) /\ r \in Shape /\ r.kind # None
        /\ r.todo # <<>> /\ Head(r.todo) = "RevokeSessions" /\ Tail(r.todo) \in Seq(Stmts)
        /\ \A q \in Requests \ {p} : req[q].held \cap SessionRows(Sids) = {}
    BY <1>0, AtStatement
  <1>3. Existing \in SUBSET Sids /\ rows \in SUBSET Rows /\ rows \subseteq SessionRows(Sids)
    BY RowsAre DEF Existing, SessionRows
  <1>4. /\ n \in Shape /\ Same(n, r) /\ n.held = r.held \cup rows
        /\ n.revTok = r.revTok /\ n.revSes = Existing /\ n.upd = r.upd
    BY <1>2, <1>3 DEF Shape, Same
  <1> HIDE DEF n
  <1>5. HoldsRevoked(n) /\ HoldsExisting(n)
    BY <1>2, <1>3, <1>4, SessionLocks
  <1>6. r.revSes \subseteq Existing /\ r.scope \subseteq Existing
    BY <1>2 DEF Lawful, HoldsRevoked, InFamily
  <1>7. \A q \in Requests \ {p} : req[q].held \cap rows = {}
    BY <1>2, <1>3
  <1> QED BY <1>1, <1>2, <1>4, <1>5, <1>6, <1>7, Executed

\* A statement that locks and writes no row: the denylist, or an ignored error.
LEMMA NoRowKeeps ==
  ASSUME Inv, NEW p \in Requests, req[p].kind # None, req[p].todo # <<>>, Step(p, req[p]),
         UNCHANGED <<user, session, token, ended, torn, scene>>, denied \subseteq denied',
         Head(req[p].todo) \notin {"Revoke", "Deactivate"},
         Head(req[p].todo) = "RevokeByID" => Lossy /\ req[p].kind # "revokeSession",
         Head(req[p].todo) = "DenySession" => req[p].sid \in denied',
         Head(req[p].todo) = "RevokeSessions" =>
           Lossy /\ req[p].kind \in {"changeEmail", "deactivate"}
  PROVE  Inv'
  <1> DEFINE r == req[p]
             n == [r EXCEPT !.todo = Tail(@)]
  <1>1. req' = [req EXCEPT ![p] = n]
    BY DEF Step
  <1>2. Lawful(r, denied, torn) /\ r \in Shape /\ Tail(r.todo) \in Seq(Stmts)
    BY HeadTailProperties DEF Inv, Lawful, Shape
  <1>3. /\ n \in Shape /\ Same(n, r) /\ n.held = r.held \cup {}
        /\ n.revTok = r.revTok /\ n.revSes = r.revSes /\ n.upd = r.upd
    BY <1>2 DEF Shape, Same
  <1> HIDE DEF n
  <1>4. HoldsRevoked(n) /\ HoldsExisting(n)
    BY <1>2, <1>3 DEF Lawful, HoldsRevoked, HoldsExisting, HoldsTokens, HoldsSession
  <1>5. \A q \in Requests \ {p} : req[q].held \cap {} = {}
    OBVIOUS
  <1> QED BY <1>1, <1>2, <1>3, <1>4, <1>5, Executed

LEMMA DenyKeeps ==
  ASSUME Inv, NEW p \in Requests, DenySession(p) \/ DenyAccess(p) PROVE Inv'
  BY NoRowKeeps DEF DenySession, DenyAccess, At, Running, tables

\* The errors that are dropped are neither the compare-and-set's nor the store's.
LEMMA IgnoredAre ==
  ASSUME NEW kind, NEW stmt \in Ignored(kind)
  PROVE  /\ stmt \in {"Touch", "RevokeByID", "RevokeBySession", "RevokeTokens", "RevokeSessions",
                      "BumpPwdVersion"}
         /\ stmt = "RevokeByID" => kind # "revokeSession"
         /\ stmt = "RevokeSessions" => kind \in {"changeEmail", "deactivate"}
         /\ kind \in {"refresh", "reuse", "logout", "changeEmail", "deactivate"}
  <1>1. CASE kind = "refresh"
    BY <1>1 DEF Ignored
  <1>2. CASE kind \in {"reuse", "logout"}
    BY <1>2 DEF Ignored
  <1>3. CASE kind \in {"changeEmail", "deactivate"}
    BY <1>3 DEF Ignored
  <1>4. CASE kind \notin {"refresh", "reuse", "logout", "changeEmail", "deactivate"}
    <2>1. Ignored(kind) = {}
      BY <1>4 DEF Ignored
    <2> QED BY <2>1
  <1> QED BY <1>1, <1>2, <1>3, <1>4

LEMMA SkipKeeps ==
  ASSUME Inv, NEW p \in Requests, Skip(p) PROVE Inv'
  <1>1. /\ Lossy /\ req[p].kind # None /\ req[p].todo # <<>> /\ Step(p, req[p])
        /\ Head(req[p].todo) \in Ignored(req[p].kind)
        /\ UNCHANGED <<user, session, token, ended, torn, scene>> /\ denied \subseteq denied'
    BY DEF Skip, Droppable, Running, tables, Lossy
  <1>2. /\ Head(req[p].todo) \in {"Touch", "RevokeByID", "RevokeBySession", "RevokeTokens",
                                  "RevokeSessions", "BumpPwdVersion"}
        /\ Head(req[p].todo) = "RevokeByID" => req[p].kind # "revokeSession"
        /\ Head(req[p].todo) = "RevokeSessions" => req[p].kind \in {"changeEmail", "deactivate"}
    BY <1>1, IgnoredAre, SMT
  <1> QED BY <1>1, <1>2, NoRowKeeps

\* The victim of a deadlock has nothing left but the statements it still issues.
LEMMA DeadlockedKeeps ==
  ASSUME Inv, NEW p \in Requests, Deadlocked(p) PROVE Inv'
  <1> DEFINE r == req[p]
             n == [[r EXCEPT !.auto = TRUE, !.wrote = {"user", "session"}, !.held = {},
                             !.revTok = {}, !.revSes = {}, !.upd = {}] EXCEPT !.todo = Tail(@)]
  <1>1. /\ req' = [req EXCEPT ![p] = n] /\ UNCHANGED <<user, session, token, denied, ended, scene>>
        /\ "transaction" \in scene.loses /\ Lossy /\ r.kind # None /\ r.todo # <<>>
        /\ Head(r.todo) \in Ignored(r.kind)
        /\ torn' = IF r.kind = "refresh" THEN torn \cup {r.sid} ELSE torn
    BY DEF Deadlocked, Droppable, Running, Step, tables, Lossy
  <1>2. Lawful(r, denied, torn) /\ r \in Shape /\ r.todo \in Seq(Stmts) /\ Tail(r.todo) \in Seq(Stmts)
    BY <1>1, HeadTailProperties DEF Inv, Lawful, Shape
  <1>3. /\ n \in Shape /\ n.todo = Tail(r.todo) /\ n.kind = r.kind /\ n.tok = r.tok /\ n.sid = r.sid
        /\ n.scope = r.scope /\ n.minted = r.minted /\ n.auto = TRUE
        /\ n.held = {} /\ n.revTok = {} /\ n.revSes = {}
    BY <1>2 DEF Shape
  <1> HIDE DEF n, r
  <1>4. /\ Head(r.todo) \in {"Touch", "RevokeByID", "RevokeBySession", "RevokeTokens", "RevokeSessions",
                             "BumpPwdVersion"}
        /\ r.kind \in {"refresh", "reuse", "logout", "changeEmail", "deactivate"}
    BY <1>1, IgnoredAre
  <1>5. /\ \A x : Left(n, x) => Left(r, x)
        /\ \A x : Left(r, x) => x = Head(r.todo) \/ Left(n, x)
        /\ \A x : OnlyAt(r, x, 1) => ~Left(n, x)
        /\ \A x : OnlyAt(r, x, Len(r.todo)) => OnlyAt(n, x, Len(n.todo))
    BY <1>1, <1>2, <1>3, Advance
  <1>6. Orderly(n)
    <2>1. ~Left(n, "Revoke")
      BY <1>2, <1>5 DEF Lawful, Orderly
    <2>2. Left(n, "Issue") => n.kind \in Minting /\ OnlyAt(n, "Issue", Len(n.todo))
      BY <1>2, <1>3, <1>5 DEF Lawful, Orderly
    <2> QED BY <1>2, <1>3, <1>5, <2>1, <2>2 DEF Lawful, Orderly
  <1>7. InFamily(n)
    BY <1>1, <1>2, <1>3 DEF Lawful, InFamily
  <1>8. HoldsRevoked(n) /\ HoldsExisting(n) /\ Rotating(n) /\ Mints(n)
    BY <1>1, <1>2, <1>3 DEF HoldsRevoked, HoldsExisting, HoldsTokens, Rotating, Lawful, Mints
  <1>9. Ending(n, denied)
    <2>1. n.kind \in EndsOne => n.kind # "revokeSession"
      BY <1>3, <1>4
    <2>2. n.kind \in EndsOne /\ (n.kind = "logout" => n.scope # {}) =>
            Left(n, "DenySession") \/ scene.flush \/ n.sid \in denied
      BY <1>2, <1>3, <1>4, <1>5 DEF Lawful, Ending
    <2>3. n.kind \in EndsAll => n.kind \in {"changeEmail", "deactivate"}
      BY <1>3, <1>4 DEF EndsAll
    <2>4. /\ n.kind = "changeEmail" => "changeEmail" \in scene.offered
          /\ n.kind = "deactivate" => "deactivate" \in scene.offered
      BY <1>2, <1>3 DEF Lawful, Ending
    <2> QED BY <1>1, <1>3, <2>1, <2>2, <2>3, <2>4 DEF Ending
  <1>10. Detached(n, torn')
    BY <1>1, <1>3, <1>4 DEF Detached
  <1>11. Lawful(n, denied', torn')
    BY <1>1, <1>3, <1>6, <1>7, <1>8, <1>9, <1>10 DEF Lawful
  <1>12. \A q \in Requests \ {p} : Apart(n, req[q])
    <2>1. n.minted = None
      BY <1>1, <1>2, <1>3 DEF Lawful, Mints
    <2> QED BY <1>3, <2>1 DEF Apart, HoldsTokens, HoldsSession
  <1>13. torn \subseteq torn' /\ denied \subseteq denied'
    BY <1>1
  <1> QED BY <1>1, <1>11, <1>12, <1>13, OneRequest

\* The compare-and-set: won, lost by a logout, or lost by a rotation.
LEMMA RevokeKeeps ==
  ASSUME Inv, NEW p \in Requests, Revoke(p) PROVE Inv'
  <1> DEFINE r == req[p]
             rows == TokenRows({r.sid})
             m == [r EXCEPT !.held = @ \cup rows]
  <1>1. UNCHANGED <<user, session, token, denied, ended, torn, scene>>
    BY DEF Revoke, tables
  <1>0. At(p, "Revoke") /\ Needs(p) = TokenRows({r.sid})
    BY NeedsAre DEF Revoke, At
  <1>2. /\ Lawful(r, denied, torn) /\ r \in Shape /\ r.kind # None
        /\ r.todo # <<>> /\ Head(r.todo) = "Revoke" /\ Tail(r.todo) \in Seq(Stmts) /\ Left(r, "Revoke")
        /\ \A q \in Requests \ {p} : req[q].held \cap rows = {}
    BY <1>0, AtStatement, SMT
  <1>3. {r.sid} \in SUBSET Existing /\ {r.sid} \in SUBSET Sids /\ rows \in SUBSET Rows
    BY <1>2, FamilyExists, RowsAre
  <1>4. /\ r.kind \in {"refresh", "logout"} /\ r.tok \in Pairs /\ token[r.tok].sid = r.sid
        /\ r.minted = None
    BY <1>2 DEF Lawful, Orderly, InFamily, Mints
  <1>5. CASE token[r.tok].state = "live" /\ Step(p, [m EXCEPT !.revTok = @ \cup {r.tok}])
    <2> DEFINE n == [[m EXCEPT !.revTok = @ \cup {r.tok}] EXCEPT !.todo = Tail(@)]
    <2>1. req' = [req EXCEPT ![p] = n]
      BY <1>5 DEF Step
    <2>2. /\ n \in Shape /\ Same(n, r) /\ n.held = r.held \cup rows
          /\ n.revTok = r.revTok \cup {r.tok} /\ n.revSes = r.revSes /\ n.upd = r.upd
      BY <1>2, <1>3, <1>4 DEF Shape, Same
    <2> HIDE DEF n
    <2>3. HoldsRevoked(n) /\ HoldsExisting(n)
      <3>1. Known(r.tok)
        BY <1>5 DEF Known
      <3>2. \A t \in n.revTok : t \in r.revTok \/ (Known(t) /\ token[t].sid \in {r.sid})
        BY <1>4, <2>2, <3>1
      <3> QED BY <1>2, <1>3, <2>2, <3>2, TokenLocks
    <2>4. Rotating(n)
      <3>1. <<"tokens", r.sid>> \in rows
        BY RowsApart
      <3>2. n.tok = r.tok /\ n.sid = r.sid
        BY <2>2 DEF Same
      <3> HIDE DEF rows
      <3>3. HoldsTokens(n, n.sid) /\ n.tok \in n.revTok
        BY <2>2, <3>1, <3>2 DEF HoldsTokens
      <3> QED BY <1>5, <3>2, <3>3 DEF Rotating
    <2> QED BY <1>1, <1>2, <2>1, <2>2, <2>3, <2>4, Executed
  <1>6. CASE r.kind = "logout" /\ Step(p, m)
    <2> DEFINE n == [m EXCEPT !.todo = Tail(@)]
    <2>1. req' = [req EXCEPT ![p] = n]
      BY <1>6 DEF Step
    <2>2. /\ n \in Shape /\ Same(n, r) /\ n.held = r.held \cup rows
          /\ n.revTok = r.revTok /\ n.revSes = r.revSes /\ n.upd = r.upd
      BY <1>2, <1>3 DEF Shape, Same
    <2> HIDE DEF n
    <2>3. HoldsRevoked(n) /\ HoldsExisting(n)
      BY <1>2, <1>3, <2>2, TokenLocks
    <2> QED BY <1>1, <1>2, <1>6, <2>1, <2>2, <2>3, Executed
  <1>7. CASE r.kind = "refresh" /\ req' = [req EXCEPT ![p] = [m EXCEPT !.kind = "reuse", !.todo = Program("reuse")]]
    <2> DEFINE n == [m EXCEPT !.kind = "reuse", !.todo = Program("reuse")]
    <2>1. n.kind = "reuse" /\ n.todo = Program("reuse")
      BY <1>2 DEF Shape
    <2>2. Loaded(n)
      <3> HIDE DEF n
      <3>1. n.kind \in Kinds /\ n.todo = Program(n.kind)
        BY <2>1 DEF Kinds
      <3> QED BY <3>1, Programs
    <2>3. Program("reuse") \in Seq(Stmts)
      BY <2>1, <2>2 DEF Loaded
    <2>4. /\ n \in Shape /\ n.tok = r.tok /\ n.sid = r.sid /\ n.scope = r.scope /\ n.minted = r.minted
          /\ n.auto = r.auto /\ n.held = r.held \cup rows /\ n.revTok = r.revTok /\ n.revSes = r.revSes
      BY <1>2, <1>3, <2>3 DEF Shape, Kinds
    <2> HIDE DEF n
    <2>5. HoldsRevoked(n) /\ HoldsExisting(n)
      BY <1>2, <1>3, <2>4, TokenLocks
    <2>6. InFamily(n)
      BY <1>2, <1>7, <2>1, <2>4 DEF Lawful, InFamily
    <2>7. Rotating(n) /\ Mints(n)
      BY <1>4, <2>1, <2>4 DEF Rotating, Mints
    <2>8. Ending(n, denied)
      BY <2>1, <2>2 DEF Ending, Loaded, EndsOne, EndsAll
    <2>9. n.kind # None
      BY <2>1, NoneAssumption DEF Kinds
    <2>10. Lawful(n, denied, torn)
      <3>1. Detached(n, torn)
        BY <1>2, <1>7, <2>1, <2>4 DEF Lawful, Detached
      <3> QED BY <2>2, <2>4, <2>5, <2>6, <2>7, <2>8, <2>9, <3>1 DEF Lawful, Loaded
    <2>11. \A q \in Requests \ {p} : Apart(n, req[q])
      BY <1>2, <2>4, Locked
    <2> QED BY <1>1, <1>7, <2>10, <2>11, OneRequest DEF n
  <1> QED BY <1>5, <1>6, <1>7 DEF Revoke, Holding

\* The request ends without a commit.
LEMMA EndKeeps ==
  ASSUME Inv, NEW p \in Requests, req' = [req EXCEPT ![p] = NoRequest],
         UNCHANGED <<user, session, token, denied, ended, torn, scene>>
  PROVE  Inv'
  BY NothingHeld, OneRequest

\* A fresh pair is nobody's, and a fresh family exists for nobody.
LEMMA FreshAre ==
  /\ \A t \in Fresh : t \in Pairs /\ ~Known(t) /\ \A q \in Requests : req[q].minted # t
  /\ \A s \in FreshSids : s \in Sids /\ s \notin Existing /\ \A q \in Requests : ~HoldsSession(req[q], s)
  BY DEF Fresh, FreshSids, Unused, HoldsSession

LEMMA IssueKeeps ==
  ASSUME Inv, NEW p \in Requests, Issue(p) PROVE Inv'
  <1> DEFINE r == req[p]
             rotates == r.kind = "refresh"
  <1>1. PICK t \in Fresh, s \in IF rotates THEN {r.sid} ELSE FreshSids :
          Step(p, [Holding(p, TokenRows({s}) \cup SessionRows(IF rotates THEN {} ELSE {s})) EXCEPT
                     !.minted = t, !.sid = s])
    BY DEF Issue
  <1> DEFINE rows == TokenRows({s}) \cup SessionRows(IF rotates THEN {} ELSE {s})
             n == [[[r EXCEPT !.held = @ \cup rows] EXCEPT !.minted = t, !.sid = s] EXCEPT !.todo = Tail(@)]
  <1>2. req' = [req EXCEPT ![p] = n] /\ UNCHANGED <<user, session, token, denied, ended, torn, scene>>
    BY <1>1 DEF Issue, Step, Holding, tables
  <1>3. /\ Lawful(r, denied, torn) /\ r \in Shape /\ r.kind # None
        /\ r.todo # <<>> /\ Head(r.todo) = "Issue" /\ Tail(r.todo) \in Seq(Stmts) /\ Left(r, "Issue")
    BY AtStatement DEF Issue
  <1>4. r.kind \in Minting /\ OnlyAt(r, "Issue", Len(r.todo)) /\ r.minted = None
    BY <1>3 DEF Lawful, Orderly, Mints
  <1>5. t \in Pairs /\ ~Known(t) /\ \A q \in Requests : req[q].minted # t
    BY FreshAre
  <1>6. /\ s \in Sids
        /\ rotates => s = r.sid /\ r.sid \in Existing
        /\ ~rotates => s \notin Existing /\ \A q \in Requests : ~HoldsSession(req[q], s)
    <2>1. rotates => r.sid \in Existing
      BY <1>3 DEF Lawful, InFamily
    <2> QED BY <2>1, FreshAre DEF Existing
  <1>7. rows \in SUBSET Rows
    <2>1. TokenRows({s}) \in SUBSET Rows /\ SessionRows(IF rotates THEN {} ELSE {s}) \in SUBSET Rows
      BY <1>6, RowsAre
    <2> QED BY <2>1
  <1>8. /\ n \in Shape /\ n.todo = Tail(r.todo) /\ n.kind = r.kind /\ n.tok = r.tok /\ n.sid = s
        /\ n.scope = r.scope /\ n.minted = t /\ n.held = r.held \cup rows
        /\ n.revTok = r.revTok /\ n.revSes = r.revSes /\ n.auto = r.auto
    BY <1>3, <1>5, <1>6, <1>7 DEF Shape
  <1> HIDE DEF n
  <1>9. n.todo = <<>> /\ (\A x : ~Left(n, x)) /\ ~Left(r, "Revoke")
    <2>1. r.todo \in Seq(Stmts)
      BY <1>3 DEF Shape
    <2>2. n.todo = <<>> /\ \A x : Left(r, x) => x = "Issue"
      <3>1. OnlyAt(r, Head(r.todo), Len(r.todo)) =>
              n.todo = <<>> /\ \A x : Left(r, x) => x = Head(r.todo)
        BY <1>3, <1>8, <2>1, Advance
      <3> QED BY <1>3, <1>4, <3>1
    <2>3. \A x : ~Left(n, x)
      BY <2>2, SMT DEF Left
    <2> QED BY <2>2, <2>3
  <1>10. /\ \A x : HoldsTokens(n, x) <=> HoldsTokens(r, x) \/ x = s
         /\ \A x : HoldsSession(n, x) <=> HoldsSession(r, x) \/ (x = s /\ ~rotates)
    BY <1>8, RowsApart DEF HoldsTokens, HoldsSession
  <1>11. Orderly(n)
    BY <1>9 DEF Orderly
  <1>12. InFamily(n)
    BY <1>3, <1>4, <1>6, <1>8 DEF Lawful, InFamily, Minting
  <1>13. HoldsRevoked(n)
    BY <1>3, <1>8, <1>10 DEF Lawful, HoldsRevoked
  <1>14. HoldsExisting(n)
    BY <1>3, <1>6, <1>10 DEF Lawful, HoldsExisting
  <1>15. Rotating(n)
    BY <1>3, <1>6, <1>8, <1>9, <1>10 DEF Lawful, Rotating, HoldsTokens
  <1>16. Mints(n)
    BY <1>4, <1>5, <1>6, <1>8, <1>9, <1>10 DEF Mints
  <1>17. Ending(n, denied)
    BY <1>4, <1>8 DEF Ending, Minting, EndsOne, EndsAll
  <1>18. Lawful(n, denied, torn)
    <2>1. Detached(n, torn)
      BY <1>3, <1>4, <1>6, <1>8 DEF Lawful, Detached
    <2>2. n.kind # None
      BY <1>3, <1>8
    <2> QED BY <1>8, <1>11, <1>12, <1>13, <1>14, <1>15, <1>16, <1>17, <2>1, <2>2 DEF Lawful
  <1>19. ASSUME NEW q \in Requests \ {p} PROVE Apart(n, req[q])
    <2>1. Apart(r, req[q]) /\ Lawful(req[q], denied, torn)
      BY DEF Inv
    <2>2. ~HoldsTokens(req[q], s)
      <3>1. CASE rotates
        <4>1. Needs(p) = TokenRows({s})
          BY <1>3, <1>6, <3>1, NeedsAre
        <4>2. req[q].held \cap TokenRows({s}) = {}
          BY <1>3, <4>1 DEF Issue, At, Waits, Running
        <4> QED BY <4>2, RowsApart DEF HoldsTokens
      <3>2. CASE ~rotates
        BY <1>6, <2>1, <3>2 DEF Lawful, HoldsExisting
      <3> QED BY <3>1, <3>2
    <2>3. ~rotates => ~HoldsSession(req[q], s)
      BY <1>6
    <2> QED BY <1>5, <1>8, <1>10, <2>1, <2>2, <2>3, SMT DEF Apart
  <1> QED BY <1>2, <1>18, <1>19, OneRequest

-----------------------------------------------------------------------------
(* Beginning a request *)

\* A request that has only read.
LEMMA BeginKeeps ==
  ASSUME Inv, NEW p \in Requests, NEW n, req' = [req EXCEPT ![p] = n],
         UNCHANGED <<user, session, token, ended, torn, scene>>, denied \subseteq denied',
         n \in Shape, n.kind \in Kinds, Orderly(n), InFamily(n), Ending(n, denied'),
         n.kind = "refresh" => Left(n, "Revoke"),
         n.held = {}, n.revTok = {}, n.revSes = {}, n.minted = None, n.auto = FALSE
  PROVE  Inv'
  <1>1. n.kind # None
    BY NoneAssumption
  <1>2. HoldsRevoked(n) /\ HoldsExisting(n) /\ Rotating(n) /\ Mints(n)
    BY DEF HoldsRevoked, HoldsExisting, HoldsTokens, Rotating, Mints
  <1>3. Lawful(n, denied', torn')
    BY <1>1, <1>2 DEF Lawful, Detached
  <1>4. \A q \in Requests \ {p} : Apart(n, req[q])
    BY DEF Apart, HoldsTokens, HoldsSession
  <1> QED BY <1>3, <1>4, OneRequest

LEMMA LoadKeeps ==
  ASSUME Inv, NEW p \in Requests, NEW kind \in Kinds \ {"logout"},
         NEW t \in Pairs \cup {None}, NEW a \in Pairs \cup {None}, NEW s \in Sids \cup {None},
         Load(p, kind, t, a, s), UNCHANGED <<user, session, token, denied, ended, torn, scene>>,
         kind \in {"refresh", "reuse"} => t \in Pairs /\ s \in Existing /\ token[t].sid = s,
         kind = "revokeSession" => s \in Existing,
         kind \in {"changeEmail", "deactivate"} => kind \in scene.offered
  PROVE  Inv'
  <1> DEFINE n == [NoRequest EXCEPT !.kind = kind, !.todo = Program(kind), !.tok = t, !.jti = a,
                     !.sid = s, !.ver = user.ver, !.scope = Existing]
  <1>1. req' = [req EXCEPT ![p] = n]
    BY DEF Load
  <1>2. n.kind = kind /\ n.todo = Program(kind)
    BY DEF NoRequest
  <1>3. Loaded(n)
    <2> HIDE DEF n
    <2> QED BY <1>2, Programs
  <1>4. Program(kind) \in Seq(Stmts) /\ Existing \subseteq Sids /\ user.ver \in Nat
    BY <1>2, <1>3 DEF Loaded, Existing, Inv, Tables
  <1>5. /\ n \in Shape /\ n.tok = t /\ n.sid = s /\ n.scope = Existing
        /\ n.held = {} /\ n.revTok = {} /\ n.revSes = {} /\ n.minted = None /\ n.auto = FALSE
    BY <1>4 DEF NoRequest, Shape
  <1> HIDE DEF n
  <1>6. InFamily(n)
    BY <1>2, <1>5 DEF InFamily
  <1>7. Ending(n, denied')
    BY <1>2, <1>3 DEF Loaded, Ending
  <1> QED BY <1>1, <1>2, <1>3, <1>5, <1>6, <1>7, BeginKeeps DEF Loaded

LEMMA LogoutKeeps ==
  ASSUME Inv, NEW p \in Requests, NEW t \in Pairs, NEW a \in Pairs, Logout(p, t, a)
  PROVE  Inv'
  <1> DEFINE alive == token[t].state = "live"
             s == token[t].sid
             n == [NoRequest EXCEPT !.kind = "logout", !.tok = t, !.jti = a,
                     !.todo = IF alive THEN Program("logout") ELSE <<>>,
                     !.sid = IF alive THEN s ELSE None,
                     !.scope = IF alive THEN {s} ELSE {}]
  <1>1. /\ req' = [req EXCEPT ![p] = n] /\ denied \subseteq denied'
        /\ UNCHANGED <<user, session, token, ended, torn, scene>>
    BY DEF Logout, tables
  <1>2. s \in Existing /\ s \in Sids
    BY DEF Logout, Inv, Tables, Existing
  <1>3. n.kind = "logout" /\ n.kind \in Kinds /\ n.todo = IF alive THEN Program("logout") ELSE <<>>
    BY DEF NoRequest, Kinds
  <1>4. alive => Loaded(n)
    <2> HIDE DEF n
    <2> QED BY <1>3, Programs
  <1>5. (IF alive THEN Program("logout") ELSE <<>>) \in Seq(Stmts)
    <2>1. alive => Program("logout") \in Seq(Stmts)
      BY <1>3, <1>4 DEF Loaded
    <2> HIDE DEF alive
    <2> QED BY <2>1, EmptySeq
  <1>6. /\ n \in Shape /\ n.tok = t
        /\ n.sid = (IF alive THEN s ELSE None) /\ n.scope = (IF alive THEN {s} ELSE {})
        /\ n.held = {} /\ n.revTok = {} /\ n.revSes = {} /\ n.minted = None /\ n.auto = FALSE
    BY <1>2, <1>5 DEF NoRequest, Shape, Kinds
  <1> HIDE DEF n, alive
  <1>7. InFamily(n)
    BY <1>2, <1>3, <1>6 DEF InFamily
  <1>8. Orderly(n) /\ Ending(n, denied')
    <2>1. CASE alive
      BY <1>3, <1>4, <2>1 DEF Loaded, Ending, EndsOne, EndsAll
    <2>2. CASE ~alive
      BY <1>3, <1>6, <2>2, SMT DEF Orderly, Left, Ending, EndsAll
    <2> QED BY <2>1, <2>2
  <1> QED BY <1>1, <1>3, <1>6, <1>7, <1>8, BeginKeeps

LEMMA BeginsKeep ==
  ASSUME Inv, NEW p \in Requests, Begin(p) PROVE Inv'
  <1>1. ASSUME NEW kind \in {"login", "factor"}, Enter(p, kind) PROVE Inv'
    <2>1. kind \in Kinds \ {"logout"} /\ kind \notin {"refresh", "reuse", "revokeSession", "changeEmail", "deactivate"}
      BY DEF Kinds
    <2> QED BY <1>1, <2>1, LoadKeeps DEF Enter, tables
  <1>2. ASSUME NEW kind \in EndsAll, NEW a \in Pairs \cup {None}, EndAll(p, kind, a) PROVE Inv'
    <2>1. kind \in Kinds \ {"logout"} /\ kind \notin {"refresh", "reuse", "revokeSession"}
      BY DEF Kinds, EndsAll
    <2> QED BY <1>2, <2>1, LoadKeeps DEF EndAll, tables
  <1>3. ASSUME NEW t \in Pairs, RefreshReused(p, t) \/ Refresh(p, t) PROVE Inv'
    <2>1. Known(t)
      BY <1>3 DEF RefreshReused, Refresh, Reused, Known
    <2>2. token[t].sid \in Existing /\ token[t].sid \in Sids
      BY <2>1 DEF Inv, Tables, Existing
    <2>3. {"refresh", "reuse"} \subseteq Kinds \ {"logout"}
      BY DEF Kinds
    <2>4. CASE RefreshReused(p, t)
      <3>1. Load(p, "reuse", t, None, token[t].sid)
            /\ UNCHANGED <<user, session, token, denied, ended, torn, scene>>
        BY <2>4 DEF RefreshReused, tables
      <3> QED BY <2>2, <2>3, <3>1, LoadKeeps
    <2>5. CASE Refresh(p, t)
      <3>1. Load(p, "refresh", t, None, token[t].sid)
            /\ UNCHANGED <<user, session, token, denied, ended, torn, scene>>
        BY <2>5 DEF Refresh, tables
      <3> QED BY <2>2, <2>3, <3>1, LoadKeeps
    <2> QED BY <1>3, <2>4, <2>5
  <1>4. ASSUME NEW a \in Pairs, NEW s \in Sids, RevokeSession(p, a, s) PROVE Inv'
    <2>1. "revokeSession" \in Kinds \ {"logout"}
      BY DEF Kinds
    <2>2. Load(p, "revokeSession", None, None, s) /\ s \in Existing
          /\ UNCHANGED <<user, session, token, denied, ended, torn, scene>>
      BY <1>4 DEF RevokeSession, tables
    <2> QED BY <2>1, <2>2, LoadKeeps
  <1>5. CASE Login(p) \/ CompleteMFALogin(p) \/ IssuePasskeyTokenPair(p)
    BY <1>1, <1>5 DEF Login, CompleteMFALogin, IssuePasskeyTokenPair
  <1>6. CASE ResetPassword(p) \/ ConfirmChangeEmail(p) \/ ForceLogout(p)
    BY <1>2, <1>6 DEF ResetPassword, ConfirmChangeEmail, ForceLogout, EndsAll
  <1>7. ASSUME NEW a \in Pairs,
               LogoutAll(p, a) \/ ChangePassword(p, a) \/ DeactivateAccount(p, a) \/ EraseAccount(p, a)
        PROVE  Inv'
    BY <1>2, <1>7 DEF LogoutAll, ChangePassword, DeactivateAccount, EraseAccount, EndsAll
  <1> QED BY <1>3, <1>4, <1>5, <1>6, <1>7, LogoutKeeps DEF Begin

-----------------------------------------------------------------------------
(* Writes become visible: by the commit, or statement by statement *)

\* What a commit makes of a sessions row and of a token row.
LEMMA ApplyWrites ==
  ASSUME NEW p \in Requests, Apply(req[p])
  PROVE  /\ \A s \in Sids :
              /\ s \in req[p].revSes => session'[s] = [session[s] EXCEPT !.state = "revoked"]
              /\ s \notin req[p].revSes /\ req[p].minted # None /\ s = req[p].sid /\ req[p].kind # "refresh" =>
                   session'[s] = [state |-> "live", ver |-> req[p].ver]
              /\ s \notin req[p].revSes
                   /\ ~(req[p].minted # None /\ s = req[p].sid /\ req[p].kind # "refresh") =>
                   session'[s] = session[s]
         /\ \A t \in Pairs :
              /\ t = req[p].minted => token'[t] = [state |-> "live", sid |-> req[p].sid, ver |-> req[p].ver]
              /\ t # req[p].minted /\ t \in req[p].revTok => token'[t] = [token[t] EXCEPT !.state = "revoked"]
              /\ t # req[p].minted /\ t \notin req[p].revTok => token'[t] = token[t]
         /\ DOMAIN session' = Sids /\ DOMAIN token' = Pairs
  BY DEF Apply

\* Families and tokens do not go away.
LEMMA ApplyExtends ==
  ASSUME Inv, NEW p \in Requests, Apply(req[p])
  PROVE  /\ Existing \subseteq Existing'
         /\ \A t \in Pairs : Known(t) => Known(t)' /\ token'[t].sid = token[t].sid
  <1> DEFINE r == req[p]
  <1>1. Lawful(r, denied, torn) /\ Tables
    BY DEF Inv
  <1> HIDE DEF r
  <1>2. ASSUME NEW s \in Sids, session[s].state # "none" PROVE session'[s].state # "none"
    <2>1. session[s] \in [state : {"none", "live", "revoked"}, ver : Nat]
      BY <1>1 DEF Tables
    <2>2. [session[s] EXCEPT !.state = "revoked"].state = "revoked"
      BY <2>1
    <2>3. [state |-> "live", ver |-> r.ver].state = "live"
      OBVIOUS
    <2> QED BY <1>2, <2>2, <2>3, ApplyWrites DEF r
  <1>3. ASSUME NEW t \in Pairs, Known(t) PROVE Known(t)' /\ token'[t].sid = token[t].sid
    <2>1. t # r.minted
      BY <1>1, <1>3, SessionsAssumption DEF Lawful, Mints
    <2>2. token[t] \in [state : {"none", "live", "revoked", "purged"}, sid : Sids \cup {None}, ver : Nat]
      BY <1>1 DEF Tables
    <2>3. /\ [token[t] EXCEPT !.state = "revoked"].state = "revoked"
          /\ [token[t] EXCEPT !.state = "revoked"].sid = token[t].sid
      BY <2>2
    <2> QED BY <1>3, <2>1, <2>3, ApplyWrites DEF Known, r
  <1> QED BY <1>2, <1>3 DEF Existing

\* What another request has decided holds of the tables after the commit: its
\* rows are locked, so the commit wrote others.
LEMMA OthersKeep ==
  ASSUME Inv, NEW p \in Requests, Apply(req[p]), UNCHANGED <<denied, torn, scene>>,
         NEW q \in Requests, q # p, req'[q] = req[q]
  PROVE  Lawful(req[q], denied, torn)'
  <1> DEFINE r == req[p]
             o == req[q]
  <1>1. Lawful(r, denied, torn) /\ Lawful(o, denied, torn) /\ Apart(r, o) /\ r \in Shape /\ o \in Shape /\ Tables
    BY DEF Inv, Lawful
  <1>2. req'[q] = o /\ UNCHANGED <<denied, torn, scene>>
    OBVIOUS
  <1> HIDE DEF r, o
  <1>3. Existing \subseteq Existing'
    BY ApplyExtends
  <1>4. ASSUME NEW t \in Pairs, Known(t) PROVE Known(t)' /\ token'[t].sid = token[t].sid
    BY <1>4, ApplyExtends
  <1>5. ASSUME NEW t \in Pairs, token[t].sid \in Existing PROVE Known(t)
    BY <1>1, <1>5, SessionsAssumption DEF Tables, Existing
  <1>6. Orderly(o)' /\ Ending(o, denied)' /\ o' \in Shape /\ (o'.kind = None => o' = NoRequest)
    <2>1. Orderly(o)' /\ o' \in Shape /\ (o'.kind = None => o' = NoRequest)
      BY <1>1, <1>2 DEF Lawful, Orderly, Left, OnlyAt, o
    <2>2. Ending(o, denied)'
      BY <1>1, <1>2 DEF Lawful, Ending, Left, Lossy, o
    <2> QED BY <2>1, <2>2
  <1>7. InFamily(o)'
    <2>1. ASSUME o.tok \in Pairs, o.sid \in Existing, token[o.tok].sid = o.sid
          PROVE  o.sid \in Existing' /\ token'[o.tok].sid = o.sid
      BY <1>3, <1>4, <1>5, <2>1
    <2> QED BY <1>1, <1>2, <1>3, <2>1 DEF Lawful, InFamily, o
  <1>8. HoldsRevoked(o)' /\ HoldsExisting(o)'
    <2>1. \A t \in o.revTok : t \in Pairs
      BY <1>1 DEF Shape
    <2> QED BY <1>1, <1>2, <1>3, <1>4, <2>1 DEF Lawful, HoldsRevoked, HoldsExisting, HoldsTokens, HoldsSession, o
  <1>9. Rotating(o)'
    <2> SUFFICES ASSUME o.kind = "refresh", ~o.auto, ~Left(o, "Revoke")
                 PROVE  HoldsTokens(o, o.sid) /\ o.tok \in o.revTok /\ token'[o.tok].state = "live"
      BY <1>2 DEF Rotating, HoldsTokens, Left, o
    <2>1. /\ HoldsTokens(o, o.sid) /\ o.tok \in o.revTok /\ token[o.tok].state = "live"
          /\ o.tok \in Pairs /\ token[o.tok].sid = o.sid /\ o.sid \in Sids
      BY <1>1 DEF Lawful, Rotating, InFamily, Existing
    <2>2. o.tok \notin r.revTok
      BY <1>1, <2>1 DEF Lawful, HoldsRevoked, Apart
    <2>3. o.tok # r.minted
      BY <1>1, <2>1, SessionsAssumption DEF Lawful, Mints, Known
    <2> QED BY <2>1, <2>2, <2>3, ApplyWrites DEF r
  <1>10. Mints(o)'
    <2> SUFFICES ASSUME o.minted # None
                 PROVE  /\ o.todo = <<>> /\ o.kind \in Minting /\ o.sid \in Sids
                        /\ token'[o.minted].state = "none" /\ HoldsTokens(o, o.sid)
                        /\ o.kind # "refresh" => HoldsSession(o, o.sid) /\ session'[o.sid].state = "none"
      BY <1>2 DEF Mints, HoldsTokens, HoldsSession, Known, Existing, o
    <2>1. /\ o.todo = <<>> /\ o.kind \in Minting /\ o.sid \in Sids
          /\ token[o.minted].state = "none" /\ HoldsTokens(o, o.sid)
          /\ o.kind # "refresh" => HoldsSession(o, o.sid) /\ session[o.sid].state = "none"
          /\ o.minted \in Pairs
      BY <1>1 DEF Lawful, Mints, Known, Existing, Shape
    <2>2. o.minted # r.minted /\ o.minted \notin r.revTok
      BY <1>1, <2>1 DEF Lawful, Apart, HoldsRevoked, Known
    <2>3. token'[o.minted].state = "none"
      BY <2>1, <2>2, ApplyWrites DEF r
    <2>4. ASSUME o.kind # "refresh" PROVE session'[o.sid].state = "none"
      <3>1. o.sid \notin r.revSes
        BY <1>1, <2>1, <2>4 DEF Lawful, HoldsRevoked, Existing
      <3>2. ~(r.minted # None /\ o.sid = r.sid /\ r.kind # "refresh")
        BY <1>1, <2>1, <2>4 DEF Lawful, Mints, Apart
      <3> QED BY <2>1, <2>4, <3>1, <3>2, ApplyWrites DEF r
    <2> QED BY <2>1, <2>3, <2>4
  <1>11. Detached(o, torn)'
    BY <1>1, <1>2 DEF Lawful, Detached, o
  <1> QED BY <1>6, <1>7, <1>8, <1>9, <1>10, <1>11 DEF Lawful, o

\* The tables stay well formed, and a family has one live token: a rotation
\* revokes the one it replaces, a login mints into a family that is new.
LEMMA ApplyTables ==
  ASSUME Inv, NEW p \in Requests, Apply(req[p]), UNCHANGED torn
  PROVE  Tables' /\ Single'
  <1> DEFINE r == req[p]
             SessionRow == [state : {"none", "live", "revoked"}, ver : Nat]
             TokenRow == [state : {"none", "live", "revoked", "purged"}, sid : Sids \cup {None}, ver : Nat]
  <1>1. Lawful(r, denied, torn) /\ r \in Shape /\ r.ver \in Nat /\ Tables /\ Single
    BY DEF Inv, Lawful, Shape
  <1>2. user' \in [ver : Nat, pwAt : Nat, active : BOOLEAN]
    <2>1. user.ver \in Nat /\ user.pwAt \in Nat /\ user.active \in BOOLEAN
      BY <1>1 DEF Tables
    <2>2. /\ user.ver + (IF "version" \in r.upd THEN 1 ELSE 0) \in Nat
          /\ (IF "password" \in r.upd THEN user.ver + 1 ELSE user.pwAt) \in Nat
          /\ (user.active /\ "inactive" \notin r.upd) \in BOOLEAN
      BY <2>1, SMT
    <2> QED BY <2>2 DEF Apply
  <1>3. r.minted # None => r.sid \in Sids /\ r.kind \in Minting
    BY <1>1 DEF Lawful, Mints
  <1> HIDE DEF r
  <1>4. ASSUME NEW s \in Sids
        PROVE  session'[s] \in SessionRow /\ (s \in Existing => s \in Existing')
    <2>1. session[s] \in SessionRow
      BY <1>1 DEF Tables
    <2>2. /\ [session[s] EXCEPT !.state = "revoked"] \in SessionRow
          /\ [session[s] EXCEPT !.state = "revoked"].state = "revoked"
      BY <2>1
    <2>3. /\ [state |-> "live", ver |-> r.ver] \in SessionRow
          /\ [state |-> "live", ver |-> r.ver].state = "live"
      BY <1>1
    <2> QED BY <2>1, <2>2, <2>3, ApplyWrites DEF Existing, r
  <1>5. r.minted # None => r.sid \in Existing'
    <2>1. ASSUME r.minted # None, r.kind = "refresh" PROVE r.sid \in Existing'
      BY <1>1, <1>3, <1>4, <2>1 DEF Lawful, InFamily
    <2>2. ASSUME r.minted # None, r.kind # "refresh" PROVE r.sid \in Existing'
      <3>1. r.sid \notin r.revSes
        BY <1>1, <2>2 DEF Lawful, Mints, HoldsRevoked
      <3>2. session'[r.sid] = [state |-> "live", ver |-> r.ver]
        BY <1>3, <2>2, <3>1, ApplyWrites DEF r
      <3> QED BY <1>3, <2>2, <3>2, SMT DEF Existing
    <2> QED BY <2>1, <2>2
  <1>6. ASSUME NEW t \in Pairs
        PROVE  /\ token'[t] \in TokenRow
               /\ IF Known(t)' THEN token'[t].sid \in Existing' ELSE token'[t].sid = None
               /\ t = r.minted => token'[t].state = "live" /\ token'[t].sid = r.sid
               /\ t # r.minted => token'[t].sid = token[t].sid
               /\ t # r.minted /\ t \in r.revTok => token'[t].state = "revoked"
               /\ t # r.minted /\ t \notin r.revTok => token'[t].state = token[t].state
    <2>1. token[t] \in TokenRow /\ (IF Known(t) THEN token[t].sid \in Existing ELSE token[t].sid = None)
      BY <1>1 DEF Tables
    <2>2. CASE t = r.minted
      <3>1. r.minted # None
        BY <2>2, SessionsAssumption
      <3>2. token'[t] = [state |-> "live", sid |-> r.sid, ver |-> r.ver]
        BY <2>2, ApplyWrites DEF r
      <3> QED BY <1>1, <1>3, <1>5, <2>2, <3>1, <3>2, SMT DEF Known
    <2>3. CASE t # r.minted /\ t \in r.revTok
      <3>1. token'[t] = [token[t] EXCEPT !.state = "revoked"]
        BY <2>3, ApplyWrites DEF r
      <3>2. Known(t)
        BY <1>1, <2>3 DEF Lawful, HoldsRevoked
      <3>3. token[t].sid \in Existing'
        BY <1>4, <2>1, <3>2 DEF Existing
      <3>4. token'[t] \in TokenRow /\ token'[t].state = "revoked" /\ token'[t].sid = token[t].sid
        BY <2>1, <3>1
      <3> QED BY <2>3, <3>3, <3>4 DEF Known
    <2>4. CASE t # r.minted /\ t \notin r.revTok
      <3>1. token'[t] = token[t]
        BY <2>4, ApplyWrites DEF r
      <3> QED BY <1>4, <2>1, <2>4, <3>1 DEF Known, Existing
    <2> QED BY <2>2, <2>3, <2>4
  <1>7. session' \in [Sids -> SessionRow] /\ token' \in [Pairs -> TokenRow]
    <2>1. session' = [s \in Sids |-> session'[s]] /\ token' = [t \in Pairs |-> token'[t]]
      BY DEF Apply
    <2> QED BY <1>4, <1>6, <2>1
  <1>8. Tables'
    BY <1>2, <1>6, <1>7 DEF Tables
  <1>9. ASSUME NEW u \in Pairs, u # r.minted, token'[u].state = "live", r.minted # None, r.sid \notin torn
        PROVE  token'[u].sid # r.sid
    <2>1. u \notin r.revTok /\ token[u].state = "live" /\ token[u].sid \in Existing
          /\ token'[u].sid = token[u].sid
      BY <1>1, <1>6, <1>9 DEF Tables, Known
    <2>2. CASE r.kind = "refresh"
      <3>1. r.tok \in Pairs /\ token[r.tok].sid = r.sid /\ r.tok \in r.revTok /\ token[r.tok].state = "live"
        <4>1. ~Left(r, "Revoke")
          BY <1>1, <1>9, SMT DEF Lawful, Mints, Left
        <4>2. ~r.auto
          BY <1>1, <1>9, <2>2 DEF Lawful, Detached
        <4> QED BY <1>1, <2>2, <4>1, <4>2 DEF Lawful, InFamily, Rotating
      <3> QED BY <1>1, <1>9, <2>1, <3>1 DEF Single
    <2>3. CASE r.kind # "refresh"
      BY <1>1, <1>9, <2>1, <2>3 DEF Lawful, Mints
    <2> QED BY <2>2, <2>3
  <1>10. Single'
    <2> SUFFICES ASSUME NEW t \in Pairs, NEW u \in Pairs, token'[t].state = "live",
                        token'[u].state = "live", token'[t].sid = token'[u].sid, t # u,
                        token'[t].sid \notin torn
                 PROVE  FALSE
      BY DEF Single
    <2>1. t # r.minted /\ u # r.minted
      BY <1>6, <1>9, SessionsAssumption, SMT
    <2>2. /\ token[t].state = "live" /\ token[u].state = "live"
          /\ token[t].sid = token[u].sid /\ token[t].sid \notin torn
      BY <1>6, <2>1
    <2> QED BY <1>1, <2>2 DEF Single
  <1> QED BY <1>8, <1>10

\* A session that is revoked, or over, stays so.
LEMMA ApplyEnds ==
  ASSUME Inv, NEW p \in Requests, Apply(req[p]), UNCHANGED <<denied, scene>>, NEW s \in Sids
  PROVE  /\ s \in req[p].revSes => session'[s].state = "revoked"
         /\ Over(s) => Over(s)'
  <1> DEFINE r == req[p]
  <1>1. Lawful(r, denied, torn) /\ Tables /\ user'.active = (user.active /\ "inactive" \notin r.upd)
    BY DEF Inv, Apply
  <1> HIDE DEF r
  <1>2. session[s] \in [state : {"none", "live", "revoked"}, ver : Nat]
    BY <1>1 DEF Tables
  <1>3. [session[s] EXCEPT !.state = "revoked"].state = "revoked"
    BY <1>2
  <1>4. session[s].state = "revoked" => ~(r.minted # None /\ s = r.sid /\ r.kind # "refresh")
    BY <1>1 DEF Lawful, Mints, Existing
  <1>5. /\ session[s].state = "revoked" => session'[s].state = "revoked"
        /\ s \in r.revSes => session'[s].state = "revoked"
    BY <1>3, <1>4, ApplyWrites DEF r
  <1> QED BY <1>1, <1>5 DEF Over, r

\* What has been ended stays so, and a family this commit ends is ended by a
\* session row, by the denylist or by the account's state.
LEMMA CommitEnds ==
  ASSUME Inv, NEW p \in Requests, Commit(p)
  PROVE  ended' \subseteq Sids /\ (Sound' => \A s \in ended' : Over(s)')
  <1> DEFINE r == req[p]
  <1>1. /\ Lawful(r, denied, torn) /\ r \in Shape /\ Tables /\ r.kind # None /\ r.todo = <<>>
        /\ UNCHANGED <<denied, scene>> /\ user'.active = (user.active /\ "inactive" \notin r.upd)
    BY DEF Inv, Lawful, Commit, Apply, Running
  <1>2. \A x : ~Left(r, x)
    BY <1>1, SMT DEF Left
  <1>3. r.kind \in Kinds
    BY <1>1 DEF Shape
  <1>4. /\ ended' = ended \cup (CASE r.kind \in {"login", "factor", "refresh"} -> {}
                                [] r.kind \in {"reuse", "revokeSession"} -> {r.sid}
                                [] OTHER -> r.scope)
    BY DEF Commit
  <1>5. /\ r.kind \in Minting => ended' = ended
        /\ r.kind \in {"reuse", "revokeSession"} => ended' = ended \cup {r.sid}
        /\ r.kind \in {"logout"} \cup EndsAll => ended' = ended \cup r.scope
    <2>1. CASE r.kind \in Minting
      BY <1>4, <2>1 DEF Minting, EndsAll
    <2>2. CASE r.kind \in {"reuse", "revokeSession"}
      BY <1>4, <2>2 DEF Minting, EndsAll
    <2>3. CASE r.kind \in {"logout"} \cup EndsAll
      BY <1>4, <2>3 DEF Minting, EndsAll
    <2> QED BY <1>3, <2>1, <2>2, <2>3 DEF Kinds, Minting, EndsAll
  <1> HIDE DEF r
  <1>6. ASSUME NEW s \in Sids
        PROVE  /\ Over(s) => Over(s)'
               /\ s \in r.revSes => session'[s].state = "revoked"
    BY ApplyEnds DEF Commit, r
  <1>7. ASSUME NEW s \in ended, Sound PROVE Over(s)'
    <2>1. s \in Sids /\ Over(s)
      BY <1>7 DEF Inv
    <2> QED BY <1>6, <2>1
  <1>8. Sound' => Sound
    BY <1>1 DEF Sound, Lossy
  <1>9. CASE r.kind \in Minting
    BY <1>5, <1>7, <1>8, <1>9 DEF Inv
  <1>10. ASSUME NEW s, s = r.sid, r.kind \in EndsOne, r.kind = "logout" => r.scope # {}
         PROVE  s \in Sids /\ (Sound => Over(s)')
    <2>1. s \in Sids
      BY <1>1, <1>10 DEF Lawful, InFamily, EndsOne, Existing
    <2>2. /\ r.sid \in r.revSes \/ Lossy
          /\ scene.flush \/ r.sid \in denied
      BY <1>1, <1>2, <1>10 DEF Lawful, Ending
    <2> QED BY <1>1, <1>6, <1>10, <2>1, <2>2 DEF Over, Sound, Lossy
  <1>11. CASE r.kind \in {"reuse", "revokeSession"}
    <2>1. r.kind \in EndsOne /\ r.kind # "logout"
      BY <1>11 DEF EndsOne
    <2> QED BY <1>5, <1>7, <1>8, <1>10, <1>11, <2>1 DEF Inv
  <1>12. CASE r.kind = "logout"
    <2>1. r.scope = {} \/ r.scope = {r.sid}
      BY <1>1, <1>12 DEF Lawful, InFamily
    <2>2. r.kind \in EndsOne
      BY <1>12 DEF EndsOne
    <2> QED BY <1>5, <1>7, <1>8, <1>10, <1>12, <2>1, <2>2 DEF Inv
  <1>13. CASE r.kind \in EndsAll
    <2>1. r.scope \subseteq Sids
      BY <1>1 DEF Shape
    <2>2. ASSUME NEW s \in r.scope, Sound PROVE Over(s)'
      <3>1. /\ r.scope \subseteq r.revSes \/ (Lossy /\ r.kind \in {"changeEmail", "deactivate"})
            /\ r.kind = "changeEmail" => "changeEmail" \in scene.offered
            /\ r.kind = "deactivate" => "inactive" \in r.upd \/ "transaction" \in scene.loses
            /\ r.kind = "deactivate" => "deactivate" \in scene.offered
        BY <1>1, <1>2, <1>13 DEF Lawful, Ending, Detached
      <3> QED BY <1>1, <1>6, <2>1, <2>2, <3>1 DEF Over, Sound, Lossy
    <2> QED BY <1>5, <1>7, <1>8, <1>13, <2>1, <2>2 DEF Inv
  <1> QED BY <1>3, <1>9, <1>11, <1>12, <1>13 DEF Kinds, Minting, EndsAll

LEMMA CommitKeeps ==
  ASSUME Inv, NEW p \in Requests, Commit(p) PROVE Inv'
  <1>1. req' = [req EXCEPT ![p] = NoRequest] /\ UNCHANGED <<denied, torn, scene>> /\ Apply(req[p])
    BY DEF Commit
  <1>2. NoRequest \in Shape
    BY NothingHeld DEF Lawful
  <1>3. req' \in [Requests -> Shape] /\ req'[p] = NoRequest /\ \A q \in Requests \ {p} : req'[q] = req[q]
    BY <1>1, <1>2 DEF Inv
  <1>4. Lawful(req[p], denied, torn)'
    <2>1. /\ NoRequest.todo = <<>> /\ NoRequest.kind = None /\ NoRequest.minted = None
          /\ NoRequest.held = {} /\ NoRequest.revTok = {} /\ NoRequest.revSes = {} /\ NoRequest.scope = {}
          /\ NoRequest.auto = FALSE
      BY DEF NoRequest
    <2>2. Orderly(req[p])'
      BY <1>3, <2>1, SMT DEF Orderly, Left
    <2>3. /\ None \notin {"refresh", "reuse"} /\ None # "revokeSession" /\ None # "logout"
          /\ None \notin EndsOne /\ None \notin EndsAll /\ None # "changeEmail" /\ None # "deactivate"
          /\ None # "refresh"
      BY NoneAssumption DEF Kinds, EndsOne, EndsAll
    <2>4. InFamily(req[p])' /\ Rotating(req[p])' /\ Ending(req[p], denied)' /\ Detached(req[p], torn)'
      BY <1>3, <2>1, <2>3 DEF InFamily, Rotating, Ending, Detached
    <2>5. HoldsRevoked(req[p])' /\ HoldsExisting(req[p])' /\ Mints(req[p])'
      BY <1>3, <2>1 DEF HoldsRevoked, HoldsExisting, Mints, HoldsTokens
    <2> QED BY <1>2, <1>3, <2>2, <2>4, <2>5 DEF Lawful
  <1>5. \A q \in Requests : Lawful(req[q], denied, torn)'
    BY <1>1, <1>3, <1>4, OthersKeep
  <1>6. ASSUME NEW a \in Requests, NEW b \in Requests, a # b PROVE Apart(req[a], req[b])'
    <2>1. NoRequest.held = {} /\ NoRequest.minted = None
      BY DEF NoRequest
    <2>2. a # p /\ b # p => Apart(req[a], req[b])
      BY <1>6 DEF Inv
    <2> QED BY <1>3, <2>1, <2>2 DEF Apart, HoldsTokens, HoldsSession
  <1> QED BY <1>1, <1>3, <1>5, <1>6, ApplyTables, CommitEnds DEF Inv

\* A statement of a request without its transaction has ended.
LEMMA AutocommitKeeps ==
  ASSUME Inv, NEW p \in Requests, Autocommit(p) PROVE Inv'
  <1> DEFINE r == req[p]
             n == [r EXCEPT !.held = {}, !.revTok = {}, !.revSes = {}, !.minted = None, !.upd = {}]
  <1>1. /\ req' = [req EXCEPT ![p] = n] /\ UNCHANGED <<denied, ended, torn, scene>>
        /\ Apply(req[p]) /\ r.auto
    BY DEF Autocommit
  <1>2. Lawful(r, denied, torn) /\ r \in Shape
    BY DEF Inv, Lawful
  <1>3. /\ n \in Shape /\ n.todo = r.todo /\ n.kind = r.kind /\ n.tok = r.tok /\ n.sid = r.sid
        /\ n.scope = r.scope /\ n.minted = None /\ n.auto = r.auto
        /\ n.held = {} /\ n.revTok = {} /\ n.revSes = {}
    BY <1>2 DEF Shape
  <1> HIDE DEF n
  <1>4. req' \in [Requests -> Shape] /\ req'[p] = n /\ \A q \in Requests \ {p} : req'[q] = req[q]
    BY <1>1, <1>3 DEF Inv
  <1>5. /\ "transaction" \in scene.loses /\ Lossy
        /\ r.kind \in {"refresh", "reuse", "logout", "changeEmail", "deactivate"}
        /\ r.kind = "refresh" => r.sid \in torn
    BY <1>1, <1>2 DEF Lawful, Detached, Lossy
  <1>6. Lawful(req[p], denied, torn)'
    <2>1. Tables /\ Tables'
      BY <1>1, ApplyTables DEF Inv
    <2>2. \A s \in Existing : s \in Existing'
      BY <1>1, ApplyExtends
    <2>3. \A t \in Pairs : Known(t) => token'[t].sid = token[t].sid
      BY <1>1, ApplyExtends
    <2>4. ASSUME r.tok \in Pairs, r.sid \in Existing, token[r.tok].sid = r.sid
          PROVE  r.sid \in Existing' /\ token'[r.tok].sid = r.sid
      <3> HIDE DEF r
      <3>1. r.sid # None
        BY <2>4, SessionsAssumption DEF Existing
      <3>2. Known(r.tok)
        BY <2>1, <2>4, <3>1 DEF Tables
      <3> QED BY <2>2, <2>3, <2>4, <3>2
    <2>5. InFamily(req[p])'
      BY <1>2, <1>3, <1>4, <2>2, <2>4 DEF Lawful, InFamily
    <2>6. Orderly(req[p])' /\ req'[p] \in Shape /\ (req'[p].kind = None => req'[p] = NoRequest)
      <3>1. n.kind # None
        BY <1>3, <1>5, NoneAssumption DEF Kinds
      <3> QED BY <1>2, <1>3, <1>4, <3>1 DEF Lawful, Orderly, Left, OnlyAt
    <2>7. /\ HoldsRevoked(req[p])' /\ HoldsExisting(req[p])' /\ Rotating(req[p])' /\ Mints(req[p])'
          /\ Detached(req[p], torn)'
      BY <1>1, <1>3, <1>4, <1>5 DEF HoldsRevoked, HoldsExisting, HoldsTokens, Rotating, Mints, Detached
    <2>8. Ending(req[p], denied)'
      BY <1>1, <1>2, <1>3, <1>4, <1>5 DEF Lawful, Ending, Left, Lossy, EndsOne, EndsAll
    <2> QED BY <2>5, <2>6, <2>7, <2>8 DEF Lawful
  <1>7. \A q \in Requests : Lawful(req[q], denied, torn)'
    BY <1>1, <1>4, <1>6, OthersKeep
  <1>8. ASSUME NEW a \in Requests, NEW b \in Requests, a # b PROVE Apart(req[a], req[b])'
    <2>1. a # p /\ b # p => Apart(req[a], req[b])
      BY <1>8 DEF Inv
    <2> QED BY <1>3, <1>4, <2>1 DEF Apart, HoldsTokens, HoldsSession
  <1>9. ended' \subseteq Sids /\ (Sound' => \A s \in ended' : Over(s)')
    <2>1. Sound' => Sound
      BY <1>1 DEF Sound, Lossy
    <2> QED BY <1>1, <2>1, ApplyEnds DEF Inv
  <1> QED BY <1>1, <1>4, <1>7, <1>8, <1>9, ApplyTables DEF Inv

-----------------------------------------------------------------------------
(* Time, the purge job, the store *)

LEMMA StutterKeeps ==
  ASSUME Inv, UNCHANGED <<user, session, token, denied, req, ended, torn, scene>> PROVE Inv'
  <1>1. ASSUME NEW q \in Requests PROVE Lawful(req[q], denied, torn)'
    <2>1. Lawful(req[q], denied, torn) /\ UNCHANGED <<session, token, denied, torn, req, scene>>
      BY DEF Inv
    <2>2. Orderly(req[q])' /\ InFamily(req[q])' /\ req'[q] \in Shape /\ (req'[q].kind = None => req'[q] = NoRequest)
      BY <2>1 DEF Lawful, Orderly, InFamily, Left, OnlyAt, Existing
    <2>3. HoldsRevoked(req[q])' /\ HoldsExisting(req[q])'
      BY <2>1 DEF Lawful, HoldsRevoked, HoldsExisting, HoldsTokens, HoldsSession, Known, Existing
    <2>4. Rotating(req[q])'
      BY <2>1 DEF Lawful, Rotating, Left, HoldsTokens
    <2>5. Mints(req[q])'
      BY <2>1 DEF Lawful, Mints, HoldsTokens, HoldsSession, Known, Existing
    <2>6. Ending(req[q], denied)' /\ Detached(req[q], torn)'
      BY <2>1, SMT DEF Lawful, Ending, Left, Lossy, Detached
    <2> QED BY <2>2, <2>3, <2>4, <2>5, <2>6 DEF Lawful
  <1>2. Tables' /\ Single'
    BY DEF Inv, Tables, Single, Known, Existing
  <1>3. \A a, b \in Requests : a # b => Apart(req[a], req[b])'
    BY DEF Inv, Apart, HoldsTokens, HoldsSession
  <1> QED BY <1>1, <1>2, <1>3 DEF Inv, Sound, Lossy, Over

\* The purge waits for the rows, so no rotation in flight has its token purged.
LEMMA PurgeKeeps ==
  ASSUME Inv, NEW t \in Pairs, PurgeExpired(t) PROVE Inv'
  <1>1. /\ UNCHANGED <<user, session, denied, req, ended, torn, scene>>
        /\ token' = [token EXCEPT ![t].state = "purged"]
        /\ Known(t) /\ \A p \in Requests : ~HoldsTokens(req[p], token[t].sid)
    BY DEF PurgeExpired, Known, HoldsTokens
  <1>2. Tables /\ Single
    BY DEF Inv
  <1>3. token[t] \in [state : {"none", "live", "revoked", "purged"}, sid : Sids \cup {None}, ver : Nat]
    BY <1>2 DEF Tables
  <1>4. ASSUME NEW u \in Pairs
        PROVE  /\ token'[u].sid = token[u].sid
               /\ token'[u].state = IF u = t THEN "purged" ELSE token[u].state
    BY <1>1, <1>2, <1>3 DEF Tables
  <1>5. Existing' = Existing /\ \A u \in Pairs : Known(u)' <=> Known(u)
    BY <1>1, <1>4, SMT DEF Existing, Known
  <1>6. Tables'
    <2>1. token' \in [Pairs -> [state : {"none", "live", "revoked", "purged"}, sid : Sids \cup {None}, ver : Nat]]
      BY <1>1, <1>2, <1>3 DEF Tables
    <2>2. \A u \in Pairs : IF Known(u)' THEN token'[u].sid \in Existing' ELSE token'[u].sid = None
      BY <1>2, <1>4, <1>5 DEF Tables
    <2> QED BY <1>1, <1>2, <2>1, <2>2 DEF Tables
  <1>7. Single'
    <2>1. \A u \in Pairs : token'[u].state = "live" => token[u].state = "live"
      BY <1>4
    <2> QED BY <1>1, <1>2, <1>4, <2>1, SMT DEF Single
  <1>8. ASSUME NEW q \in Requests PROVE Lawful(req[q], denied, torn)'
    <2> DEFINE o == req[q]
    <2>1. Lawful(o, denied, torn) /\ o \in Shape /\ o' = o
      BY <1>1 DEF Inv, Lawful
    <2> HIDE DEF o
    <2>2. \A x \in o.revTok : x \in Pairs
      BY <2>1 DEF Shape
    <2>3. Orderly(o)' /\ Ending(o, denied)' /\ Detached(o, torn)'
      BY <1>1, <2>1, SMT DEF Lawful, Orderly, Ending, Left, OnlyAt, Lossy, Detached
    <2>4. InFamily(o)'
      BY <1>4, <1>5, <2>1 DEF Lawful, InFamily
    <2>5. HoldsRevoked(o)' /\ HoldsExisting(o)'
      BY <1>4, <1>5, <2>1, <2>2 DEF Lawful, HoldsRevoked, HoldsExisting, HoldsTokens, HoldsSession
    <2>6. Rotating(o)'
      <3>1. o.kind = "refresh" /\ HoldsTokens(o, o.sid) => o.tok # t
        BY <1>1, <2>1 DEF Lawful, InFamily, o
      <3>2. o.kind = "refresh" => o.tok \in Pairs
        BY <2>1 DEF Lawful, InFamily
      <3> QED BY <1>4, <2>1, <3>1, <3>2 DEF Lawful, Rotating, Left, HoldsTokens
    <2>7. Mints(o)'
      <3>1. o.minted # None => o.minted \in Pairs
        BY <2>1 DEF Shape
      <3> QED BY <1>5, <2>1, <3>1 DEF Lawful, Mints, HoldsTokens, HoldsSession
    <2> QED BY <2>1, <2>3, <2>4, <2>5, <2>6, <2>7 DEF Lawful, o
  <1>9. \A a, b \in Requests : a # b => Apart(req[a], req[b])'
    BY <1>1 DEF Inv, Apart, HoldsTokens, HoldsSession
  <1> QED BY <1>1, <1>6, <1>7, <1>8, <1>9 DEF Inv, Sound, Lossy, Over

\* Where the store may lose its keys nothing rests on them.
LEMMA StoreLostKeeps ==
  ASSUME Inv, StoreLost PROVE Inv'
  <1>1. UNCHANGED <<user, session, token, req, ended, torn, scene>> /\ scene.flush
    BY DEF StoreLost, tables
  <1>2. ASSUME NEW q \in Requests PROVE Lawful(req[q], denied, torn)'
    <2>1. Lawful(req[q], denied, torn)
      BY DEF Inv
    <2>2. Orderly(req[q])' /\ InFamily(req[q])' /\ req'[q] \in Shape /\ (req'[q].kind = None => req'[q] = NoRequest)
      BY <1>1, <2>1 DEF Lawful, Orderly, InFamily, Left, OnlyAt, Existing
    <2>3. HoldsRevoked(req[q])' /\ HoldsExisting(req[q])'
      BY <1>1, <2>1 DEF Lawful, HoldsRevoked, HoldsExisting, HoldsTokens, HoldsSession, Known, Existing
    <2>4. Rotating(req[q])' /\ Mints(req[q])' /\ Ending(req[q], denied)' /\ Detached(req[q], torn)'
      BY <1>1, <2>1 DEF Lawful, Rotating, Mints, Ending, Detached, Lossy, Left, HoldsTokens, HoldsSession, Known, Existing
    <2> QED BY <2>2, <2>3, <2>4 DEF Lawful
  <1>3. Tables' /\ Single'
    BY <1>1 DEF Inv, Tables, Single, Known, Existing
  <1>4. \A a, b \in Requests : a # b => Apart(req[a], req[b])'
    BY <1>1 DEF Inv, Apart, HoldsTokens, HoldsSession
  <1> QED BY <1>1, <1>2, <1>3, <1>4 DEF Inv, Sound, Lossy, Over

-----------------------------------------------------------------------------
(* The theorems *)

LEMMA InitInv == Init => Inv
  <1> SUFFICES ASSUME Init PROVE Inv
    OBVIOUS
  <1>1. \A p \in Requests : req[p] = NoRequest
    BY DEF Init
  <1>2. NoRequest \in Shape
    BY NothingHeld DEF Lawful
  <1>3. Tables
    BY DEF Init, Tables, NoToken, Known, Existing
  <1>4. Single
    BY DEF Init, Single, NoToken
  <1>5. req \in [Requests -> Shape]
    BY <1>2 DEF Init
  <1>6. \A p, q \in Requests : Apart(req[p], req[q]) /\ Lawful(req[p], denied, torn)
    BY <1>1, NothingHeld
  <1> QED BY <1>3, <1>4, <1>5, <1>6 DEF Inv, Init

LEMMA NextInv == Inv /\ [Next]_vars => Inv'
  <1> SUFFICES ASSUME Inv, [Next]_vars PROVE Inv'
    OBVIOUS
  <1>1. ASSUME NEW p \in Requests, Execute(p) PROVE Inv'
    <2>1. CASE BumpPwdVersion(p) \/ UpdatePassword(p) \/ UpdateEmail(p) \/ Deactivate(p)
      BY <2>1, UserUpdateKeeps DEF BumpPwdVersion, UpdatePassword, UpdateEmail, Deactivate
    <2>2. CASE IssueDenied(p) \/ Abort(p)
      BY <2>2, EndKeeps DEF IssueDenied, Abort, tables
    <2> QED BY <1>1, <2>1, <2>2, ResetKeeps, RevokeKeeps, TouchKeeps, RevokeByIDKeeps,
               RevokeBySessionKeeps, RevokeTokensKeeps, RevokeSessionsKeeps, DenyKeeps,
               IssueKeeps, SkipKeeps, DeadlockedKeeps, AutocommitKeeps, CommitKeeps DEF Execute
  <1>2. ASSUME NEW s \in Sids, Expire(s) PROVE Inv'
    BY <1>2, StutterKeeps DEF Expire, tables
  <1>3. CASE UNCHANGED vars
    BY <1>3, StutterKeeps DEF vars
  <1> QED BY <1>1, <1>2, <1>3, BeginsKeep, PurgeKeeps, StoreLostKeeps DEF Next

LEMMA SpecInv == Spec => []Inv
  BY InitInv, NextInv, PTL DEF Spec

\* Whatever number of rotations, logins, logouts, containments and purges race and
\* whatever errors their handlers drop, a family has at most one live refresh token:
\* RefreshTokenRepository.Revoke lets one of two concurrent refreshes of a token
\* through, and issueTokenPair mints only after it.  The exception is part of
\* OneLiveToken: a family whose rotation was the victim of a deadlock at Touch, so
\* that Revoke was undone and issueTokenPair went on in autocommit.
THEOREM OneTokenPerFamily == Spec => []OneLiveToken
  <1>1. Inv => OneLiveToken
    <2> SUFFICES ASSUME Inv, NEW s \in Sids \ torn PROVE Cardinality(Live(s)) <= 1
      BY DEF OneLiveToken
    <2>1. \A t, u \in Live(s) : t = u
      BY DEF Live, Family, Inv, Single
    <2>2. CASE Live(s) = {}
      BY <2>2, FS_EmptySet, SMT
    <2>3. ASSUME NEW t \in Live(s) PROVE Cardinality(Live(s)) <= 1
      <3>1. Live(s) = {t}
        BY <2>1
      <3>2. Cardinality({t}) = 1
        BY FS_Singleton
      <3> QED BY <3>1, <3>2, SMT
    <2> QED BY <2>2, <2>3
  <1> QED BY <1>1, SpecInv, PTL

\* A family that a completed logout, device revocation, reuse containment or
\* operation on all sessions was to end is neither accepted by Authority.Check
\* nor rotated by Refresh again, for good.  Sound says of which behaviours: where
\* the handlers' ignored statements may fail, the store must keep its keys and
\* the e-mail change, which has nothing but those statements, is not made; where a
\* deadlock may take the transaction with the ignored statement, neither is a
\* deactivation.
THEOREM EndedForGood == Spec => [](Sound => EndedStaysEnded)
  <1>1. Inv => (Sound => EndedStaysEnded)
    <2> SUFFICES ASSUME Inv, Sound, NEW t \in Pairs, Known(t), token[t].sid \in ended
                 PROVE  /\ ~Check(t)
                        /\ ~(/\ token[t].state = "live" /\ user.active
                             /\ session[token[t].sid].state = "live" /\ token[t].sid \notin denied)
      BY DEF EndedStaysEnded
    <2>1. Over(token[t].sid)
      BY DEF Inv
    <2> QED BY <2>1 DEF Over, Check
  <1> QED BY <1>1, SpecInv, PTL
=============================================================================
