----------------------------- MODULE SingleUse -----------------------------
(***************************************************************************)
(* Single-use tokens: the reset and verify-email JWTs that ForgotPassword, *)
(* Register and ResendVerifyEmail send out and ResetPassword and           *)
(* VerifyEmail consume.  A jti is guarded twice: by a key of the store     *)
(* (SetNX), which is shared but volatile, and by the used_tokens table,    *)
(* which is written in the request's own SQL transaction and read from its *)
(* snapshot.                                                               *)
(***************************************************************************)
EXTENDS Naturals

CONSTANTS
  Tokens,          \* jtis
  Requests,        \* concurrent requests
  NoToken

ASSUME SingleUseAssumption == NoToken \notin Tokens

VARIABLES
  issued,          \* tokens sent to the account's inbox
  lapsed,          \* tokens past their exp
  marked,          \* the store's jti keys
  used,            \* committed rows of used_tokens
  applied,         \* how often a token's effect was committed, up to 2
  req,
  flushed          \* the store has lost its keys at some time

tokenVars == <<issued, lapsed, marked, used, applied, req, flushed>>

Request == [pc : {"idle", "mark", "check", "durable", "apply", "commit"},
            tok : Tokens \cup {NoToken},
            seen : SUBSET Tokens,      \* used_tokens in its snapshot
            inserted : BOOLEAN,        \* it holds an uncommitted row
            late : BOOLEAN]            \* the effect was committed before it began

NoRequest == [pc |-> "idle", tok |-> NoToken, seen |-> {}, inserted |-> FALSE, late |-> FALSE]

TokenTypeOK ==
  /\ issued \subseteq Tokens /\ lapsed \subseteq issued
  /\ marked \subseteq issued /\ used \subseteq issued
  /\ applied \in [Tokens -> 0 .. 2]
  /\ req \in [Requests -> Request]
  /\ flushed \in BOOLEAN

TokenInit ==
  /\ issued = {} /\ lapsed = {} /\ marked = {} /\ used = {}
  /\ applied = [t \in Tokens |-> 0]
  /\ req = [p \in Requests |-> NoRequest]
  /\ flushed = FALSE

-----------------------------------------------------------------------------

\* ForgotPassword, Register and ResendVerifyEmail: a fresh jti is mailed.
Issue(t) ==
  /\ t \notin issued
  /\ issued' = issued \cup {t}
  /\ UNCHANGED <<lapsed, marked, used, applied, req, flushed>>

\* The token verifies, and loading the user takes the snapshot.
Begin(p, t) ==
  /\ req[p].pc = "idle"
  /\ t \in issued \ lapsed
  /\ req' = [req EXCEPT ![p] = [pc |-> "mark", tok |-> t, seen |-> used,
                                inserted |-> FALSE, late |-> applied[t] > 0]]
  /\ UNCHANGED <<issued, lapsed, marked, used, applied, flushed>>

\* The request fails, is refused or crashes: its row is rolled back, its key in
\* the store is not.
Abort(p) ==
  /\ req[p].pc # "idle"
  /\ req' = [req EXCEPT ![p] = NoRequest]
  /\ UNCHANGED <<issued, lapsed, marked, used, applied, flushed>>

\* Mutant: the key is looked up and set in two round trips.
markTokenUsedRaced(p) ==
  /\ req[p].pc = "mark"
  /\ marked' = marked \cup {req[p].tok}
  /\ req' = [req EXCEPT ![p].pc = "check"]
  /\ UNCHANGED <<issued, lapsed, used, applied, flushed>>

\* SetNX writes the key if it is absent.  Present, or the store fails: refused,
\* which is Abort.
markTokenUsed(p) ==
  /\ req[p].pc = "mark"
  /\ req[p].tok \notin marked
  /\ marked' = marked \cup {req[p].tok}
  /\ req' = [req EXCEPT ![p].pc = "check"]
  /\ UNCHANGED <<issued, lapsed, used, applied, flushed>>

\* SetNX wrote the key and its answer was lost: the token is burnt.
markTokenLost(p) ==
  /\ req[p].pc = "mark"
  /\ marked' = marked \cup {req[p].tok}
  /\ req' = [req EXCEPT ![p] = NoRequest]
  /\ UNCHANGED <<issued, lapsed, used, applied, flushed>>

\* Mutant: a store miss is taken for freshness.
IsUsedSkipped(p) ==
  /\ req[p].pc = "check"
  /\ req' = [req EXCEPT ![p].pc = "durable"]
  /\ UNCHANGED <<issued, lapsed, marked, used, applied, flushed>>

\* IsUsed reads used_tokens in the snapshot; found, or an error: refused.
IsUsed(p) ==
  /\ req[p].pc = "check"
  /\ req[p].tok \notin req[p].seen
  /\ req' = [req EXCEPT ![p].pc = "durable"]
  /\ UNCHANGED <<issued, lapsed, marked, used, applied, flushed>>

\* markTokenDurable inserts the row.  The insert waits for another request's
\* uncommitted row; a duplicate is no error, and the answer is discarded.
markTokenDurable(p) ==
  LET t == req[p].tok
  IN /\ req[p].pc = "durable"
     /\ \A q \in Requests \ {p} : ~(req[q].inserted /\ req[q].tok = t)
     /\ req' = [req EXCEPT ![p].pc = "apply", ![p].inserted = t \notin used]
     /\ UNCHANGED <<issued, lapsed, marked, used, applied, flushed>>

\* The password is changed, or the e-mail verified, in the same transaction.
Apply(p) ==
  /\ req[p].pc = "apply"
  /\ req' = [req EXCEPT ![p].pc = "commit"]
  /\ UNCHANGED <<issued, lapsed, marked, used, applied, flushed>>

Commit(p) ==
  LET t == req[p].tok
  IN /\ req[p].pc = "commit"
     /\ used' = IF req[p].inserted THEN used \cup {t} ELSE used
     /\ applied' = [applied EXCEPT ![t] = IF @ < 2 THEN @ + 1 ELSE @]
     /\ req' = [req EXCEPT ![p] = NoRequest]
     /\ UNCHANGED <<issued, lapsed, marked, flushed>>

Expire(t) ==
  /\ t \in issued \ lapsed
  /\ lapsed' = lapsed \cup {t}
  /\ UNCHANGED <<issued, marked, used, applied, req, flushed>>

\* jtiStoreTTL keeps the key an hour past the token's exp: every request that
\* verified the token before that is over by then.
StoreExpire(t) ==
  /\ t \in marked \cap lapsed
  /\ \A p \in Requests : req[p].tok # t
  /\ marked' = marked \ {t}
  /\ UNCHANGED <<issued, lapsed, used, applied, req, flushed>>

\* The purge job deletes the rows of expired tokens.
PurgeExpired ==
  /\ used \cap lapsed # {}
  /\ used' = used \ lapsed
  /\ UNCHANGED <<issued, lapsed, marked, applied, req, flushed>>

StoreLost ==
  /\ marked # {}
  /\ marked' = {} /\ flushed' = TRUE
  /\ UNCHANGED <<issued, lapsed, used, applied, req>>

Step(p) ==
  \/ \E t \in Tokens : Begin(p, t)
  \/ markTokenUsed(p)
  \/ markTokenLost(p)
  \/ IsUsed(p)
  \/ markTokenDurable(p)
  \/ Apply(p)
  \/ Commit(p)
  \/ Abort(p)

TokenNext ==
  \/ \E p \in Requests : Step(p)
  \/ \E t \in Tokens : Issue(t) \/ Expire(t) \/ StoreExpire(t)
  \/ PurgeExpired
  \/ StoreLost

TokenSpec == TokenInit /\ [][TokenNext]_tokenVars

-----------------------------------------------------------------------------

\* "False (already consumed) - used to reject token replay" (MarkUsed): the
\* effect of a token is committed at most once.  markTokenDurable discards that
\* answer, and after a flush nothing else tells two overlapping requests apart.
ReplayRejected == \A t \in Tokens : applied[t] <= 1

\* The effect of a token (a password change, a verified address) is committed
\* at most once, whatever requests race with it, whatever of them aborts, and
\* whenever its key and its row expire, while the store keeps what it was told.
AppliedOnce == ~flushed => ReplayRejected

LateStep ==
  \A p \in Requests :
    req[p].late /\ req[p].pc = "commit" => applied'[req[p].tok] = applied[req[p].tok]

\* With the store flushed at any moment, a request that began after the token's
\* effect was committed never applies it again: used_tokens is the backstop of
\* consumeSingleUseToken, and its rows outlive the token.
BackstopHolds == [][LateStep]_tokenVars
=============================================================================
