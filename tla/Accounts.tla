------------------------------ MODULE Accounts ------------------------------
(***************************************************************************)
(* The life of accounts and of what identifies them: registration, the     *)
(* verification of the address, the change of the address, sign-in with    *)
(* Google (find, create, link), unlinking, a first password, erasure.      *)
(*                                                                         *)
(* All of a request's plain reads come from the snapshot of its SQL        *)
(* transaction, so they are one step (Find); its INSERTs and UPDATEs wait  *)
(* for rows and unique keys that other transactions hold (Write) and take  *)
(* effect at the commit.  Rate counters, staged tokens and OAuth states    *)
(* are in the store, and mail leaves the process: neither is undone by a   *)
(* rollback.  ResendVerifyEmail and RequestChangeEmail use no transaction. *)
(***************************************************************************)
EXTENDS Naturals, FiniteSets, FiniteSetsExt

CONSTANTS
  Requests,
  None,
  Emails,
  Subs,              \* Google accounts ("sub")
  RegisterPerIPMax,
  ResendMax,         \* VerifyResendGlobalMax and VerifyResendPerIPMax, of one address
  ResendPerEmailMax, \* VerifyResendPerEmailMax
  MaxUsers,          \* bound on the accounts created
  Scenes             \* [kinds, requests]: the requests of a behaviour

ASSUME AccountsAssumption ==
  /\ IsFiniteSet(Requests) /\ IsFiniteSet(Emails) /\ IsFiniteSet(Subs)
  /\ None \notin Requests \cup Emails \cup Subs
  /\ {RegisterPerIPMax, ResendMax, ResendPerEmailMax, MaxUsers} \subseteq Nat

Ids == 1 .. MaxUsers
Kinds == {"register", "resend", "verifyEmail", "requestChange", "confirmChange",
          "setPassword", "google", "unlink", "erase"}

VARIABLES
  user,      \* the users table
  link,      \* oauth_identities, unique in (provider, sub)
  next,      \* AUTO_INCREMENT of users
  staged,    \* change_email:<token> in the store
  states,    \* oauth:state:<state> in the store
  count,     \* reg:ip, verify:resend, chgemail and reg:dup counters
  mail,      \* what was mailed: verification and change tokens
  gmail,     \* the address of each Google account
  req,
  proven,    \* addresses shown to be controlled, per account
  sent,      \* mails of each sort: to each address and, for None, in all
  erased,    \* accounts whose erasure was answered
  last,      \* the account the Google account last signed in to, while linked
  begun, scene

tables == <<user, link, next>>
store == <<staged, states, count>>
world == <<mail, gmail>>
ghosts == <<proven, sent, erased, last>>
bounds == <<begun, scene>>
vars == <<tables, store, world, req, ghosts, bounds>>

\* email is None once anonymised (a fresh random address).
User == [email : Emails \cup {None}, verified : BOOLEAN, password : BOOLEAN, active : BOOLEAN]

ASSUME NoneAssumption ==
  None \notin Kinds /\ None \notin Ids /\ None \notin User /\ None \notin Emails

Mail == [kind : {"verify", "change"}, uid : Ids, to : Emails]
Counted == {"register", "resend", "change", "dup"}

\* What is mailed on each counter; a change is mailed to the new address, and the
\* alert to the present one.
Mails == Counted \cup {"alert"}

\* old is the address of the account when the change was asked for.
NoRequest == [kind |-> None, pc |-> "idle", uid |-> None, email |-> None, old |-> None,
              sub |-> None, wrote |-> {}]

TypeOK ==
  /\ user \in [Ids -> User \cup {None}] /\ link \in [Subs -> Ids \cup {None}]
  /\ next \in 1 .. MaxUsers + 1
  /\ staged \subseteq [uid : Ids, to : Emails] /\ states \in 0 .. 1
  /\ count \in [Counted -> [Emails \cup {None} -> 0 .. scene.requests]]
  /\ mail \subseteq Mail /\ gmail \in [Subs -> Emails]
  /\ \A p \in Requests :
       /\ req[p].kind \in Kinds \cup {None} /\ req[p].uid \in Ids \cup {None}
       /\ req[p].pc \in {"idle", "count", "take", "admit", "find", "write", "stage", "mail", "alert",
                        "commit"}
       /\ {req[p].email, req[p].old} \subseteq Emails \cup {None} /\ req[p].sub \in Subs \cup {None}
       /\ req[p].wrote \subseteq Ids \cup Emails \cup Subs
  /\ proven \in [Ids -> SUBSET Emails]
  /\ sent \in [Mails -> [Emails \cup {None} -> 0 .. scene.requests]]
  /\ erased \subseteq Ids /\ last \in [Subs -> Ids \cup {None}]
  /\ begun \in 0 .. scene.requests

Init ==
  /\ scene \in Scenes
  /\ user = [i \in Ids |-> None] /\ link = [g \in Subs |-> None] /\ next = 1
  /\ staged = {} /\ states = 0
  /\ count = [k \in Counted |-> [e \in Emails \cup {None} |-> 0]]
  /\ mail = {} /\ gmail \in {f \in [Subs -> Emails] : \A g, h \in Subs : f[g] = f[h] => g = h}
  /\ req = [p \in Requests |-> NoRequest]
  /\ proven = [i \in Ids |-> {}] /\ sent = [k \in Mails |-> [e \in Emails \cup {None} |-> 0]]
  /\ erased = {} /\ last = [g \in Subs |-> None]
  /\ begun = 0

-----------------------------------------------------------------------------

Go(p, pc) == req' = [req EXCEPT ![p].pc = pc]
End(p) == req' = [req EXCEPT ![p] = NoRequest]

Exists(i) == user[i] # None
Owner(e) == {i \in Ids : Exists(i) /\ user[i].email = e}

\* Rows and unique keys held by other transactions.
Held(p) == UNION {req[q].wrote : q \in Requests \ {p}}

Arrive(p, kind, pc, u, e, g) ==
  /\ req[p].pc = "idle" /\ kind \in scene.kinds /\ begun < scene.requests
  /\ begun' = begun + 1
  /\ req' = [req EXCEPT ![p] = [kind |-> kind, pc |-> pc, uid |-> u, email |-> e, old |-> None,
                                sub |-> g, wrote |-> {}]]
  /\ UNCHANGED <<tables, store, world, ghosts, scene>>

\* Anybody may register, ask for a verification mail or sign in with Google; the
\* holder of a mailbox follows a link that was mailed; a signed-in user changes
\* the account.
Begin(p) ==
  \/ \E k \in {"register", "resend"}, e \in Emails : Arrive(p, k, "count", None, e, None)
  \/ \E m \in mail :
       \/ m.kind = "verify" /\ Arrive(p, "verifyEmail", "find", m.uid, m.to, None)
       \/ m.kind = "change" /\ Arrive(p, "confirmChange", "take", m.uid, m.to, None)
  \/ \E i \in {j \in Ids : Exists(j) /\ user[j].active} :
       \/ \E e \in Emails \ {user[i].email} :
            user[i].password /\ Arrive(p, "requestChange", "count", i, e, None)
       \/ \E k \in {"setPassword", "unlink", "erase"} : Arrive(p, k, "find", i, None, None)
  \/ \E g \in Subs : states > 0 /\ Arrive(p, "google", "take", None, gmail[g], g)

\* OAuthService.BeginLogin stages a state (and its PKCE verifier and nonce).
BeginLogin ==
  /\ "google" \in scene.kinds /\ states = 0
  /\ states' = 1
  /\ UNCHANGED <<tables, staged, count, world, req, ghosts, bounds>>

\* A Google account changes its address.
GmailChanges(g, e) ==
  /\ "google" \in scene.kinds /\ e \notin {gmail[h] : h \in Subs}
  /\ gmail' = [gmail EXCEPT ![g] = e]
  /\ UNCHANGED <<tables, store, mail, req, ghosts, bounds>>

-----------------------------------------------------------------------------
(* Velocity limits: IncrBy first, the result compared with the limit.  A     *)
(* behaviour is within one window of the counters, and the store answers.    *)

Limit(k) == IF k = "register" THEN RegisterPerIPMax ELSE ResendMax

\* Mutant: the counter is compared before it is incremented.
PassesLate(k, e) ==
  count[k][None] <= Limit(k) /\ (k # "register" => count[k][e] <= ResendPerEmailMax)

Passes(k, e) ==
  count[k][None] < Limit(k) /\ (k # "register" => count[k][e] < ResendPerEmailMax)

\* Store.IncrBy of counter k, under each of the keys.
IncrBy(c, k, keys) ==
  [c EXCEPT ![k] = [a \in Emails \cup {None} |-> IF a \in keys THEN c[k][a] + 1 ELSE c[k][a]]]

\* The layers in order; a layer that refuses keeps the next from counting.
Counts(k, e) ==
  count' = IncrBy(count, k, IF k # "register" /\ count[k][None] < Limit(k) THEN {None, e} ELSE {None})

CountRegister(p) ==
  /\ req[p].pc = "count" /\ req[p].kind = "register"
  /\ Counts("register", req[p].email)
  /\ IF Passes("register", req[p].email) THEN Go(p, "find") ELSE End(p)
  /\ UNCHANGED <<tables, staged, states, world, ghosts, bounds>>

CountResend(p) ==
  /\ req[p].pc = "count" /\ req[p].kind = "resend"
  /\ Counts("resend", req[p].email)
  /\ IF Passes("resend", req[p].email) THEN Go(p, "admit") ELSE End(p)
  /\ UNCHANGED <<tables, staged, states, world, ghosts, bounds>>

\* FindByID and the password come first; the key is the present address.
CountChange(p) ==
  LET u == user[req[p].uid] IN
  /\ req[p].pc = "count" /\ req[p].kind = "requestChange"
  /\ IF ~u.password \/ u.email = req[p].email
       THEN End(p) /\ UNCHANGED count
       ELSE /\ Counts("change", u.email)
            /\ IF Passes("change", u.email)
                 THEN req' = [req EXCEPT ![p].pc = "find", ![p].old = u.email]
                 ELSE End(p)
  /\ UNCHANGED <<tables, staged, states, world, ghosts, bounds>>

\* admitBeforeExternal: the evidence is committed, or the request ends.
Admit(p) ==
  /\ req[p].pc = "admit"
  /\ \/ Go(p, IF req[p].kind = "resend" THEN "find" ELSE "mail")
     \/ End(p)
  /\ UNCHANGED <<tables, store, world, ghosts, bounds>>

\* Store.Take of the change token, or of the OAuth state.
Take(p) ==
  LET t == [uid |-> req[p].uid, to |-> req[p].email] IN
  /\ req[p].pc = "take"
  /\ \/ /\ req[p].kind = "confirmChange"
        /\ IF t \in staged THEN Go(p, "find") ELSE End(p)
        /\ staged' = staged \ {t}
        /\ UNCHANGED states
     \/ /\ req[p].kind = "google"
        /\ IF states > 0 THEN Go(p, "find") ELSE End(p)
        /\ states' = 0
        /\ UNCHANGED staged
  /\ UNCHANGED <<tables, count, world, ghosts, bounds>>

-----------------------------------------------------------------------------
(* The reads and what they decide. *)

\* The notifier is called.
Sends(k, e) == sent' = IncrBy(sent, k, {None, e})

\* handleDuplicateRegistration: an alert to the owner within the limits; the
\* answer is the one a new account gets.
Duplicate(p) ==
  LET e == req[p].email IN
  /\ Counts("dup", e)
  /\ IF Passes("dup", e) THEN Sends("dup", e) ELSE UNCHANGED sent
  /\ Go(p, "commit")

\* FindByEmail (and FindByUsername, which here never matches alone).
FindRegister(p) ==
  /\ req[p].pc = "find" /\ req[p].kind = "register"
  /\ IF Owner(req[p].email) # {} THEN Duplicate(p)
                                 ELSE Go(p, "write") /\ UNCHANGED <<count, sent>>
  /\ UNCHANGED <<tables, staged, states, world, proven, erased, last, bounds>>

\* An unknown or a verified address ends the request with the same answer.
FindResend(p) ==
  /\ req[p].pc = "find" /\ req[p].kind = "resend"
  /\ IF \E i \in Owner(req[p].email) : ~user[i].verified
       THEN \E i \in Owner(req[p].email) : req' = [req EXCEPT ![p].uid = i, ![p].pc = "mail"]
       ELSE End(p)
  /\ UNCHANGED <<tables, store, world, ghosts, bounds>>

FindChange(p) ==
  /\ req[p].pc = "find" /\ req[p].kind = "requestChange"
  /\ IF Owner(req[p].email) # {} THEN End(p) ELSE Go(p, "stage")
  /\ UNCHANGED <<tables, store, world, ghosts, bounds>>

Stage(p) ==
  /\ req[p].pc = "stage"
  /\ staged' = staged \cup {[uid |-> req[p].uid, to |-> req[p].email]}
  /\ Go(p, "admit")
  /\ UNCHANGED <<tables, states, count, world, ghosts, bounds>>

\* Single use is SingleUse's; a second use would write the same.
FindVerify(p) ==
  /\ req[p].pc = "find" /\ req[p].kind = "verifyEmail"
  /\ IF Exists(req[p].uid) THEN Go(p, "write") ELSE End(p)
  /\ UNCHANGED <<tables, store, world, ghosts, bounds>>

\* The "anti-race collision check"; the account is found by its ID.
FindConfirm(p) ==
  /\ req[p].pc = "find" /\ req[p].kind = "confirmChange"
  /\ IF Owner(req[p].email) \subseteq {req[p].uid} /\ Exists(req[p].uid)
       THEN Go(p, "write") ELSE End(p)
  /\ UNCHANGED <<tables, store, world, ghosts, bounds>>

\* An account with a password uses ChangePassword instead.
FindSetPassword(p) ==
  /\ req[p].pc = "find" /\ req[p].kind = "setPassword"
  /\ IF user[req[p].uid].password THEN End(p) ELSE Go(p, "write")
  /\ UNCHANGED <<tables, store, world, ghosts, bounds>>

\* Refused without another method to sign in; a passkey counts as one.
FindUnlink(p) ==
  /\ req[p].pc = "find" /\ req[p].kind = "unlink"
  /\ \E hasPasskey \in BOOLEAN :
       IF (\E g \in Subs : link[g] = req[p].uid) /\ (user[req[p].uid].password \/ hasPasskey)
         THEN Go(p, "write") ELSE End(p)
  /\ UNCHANGED <<tables, store, world, ghosts, bounds>>

\* verifySudoOrPassword, by a sudo token or the password.
FindErase(p) ==
  /\ req[p].pc = "find" /\ req[p].kind = "erase"
  /\ Go(p, "write") \/ End(p)
  /\ UNCHANGED <<tables, store, world, ghosts, bounds>>

\* Mutant: an account with the same address is attached, verified or not.
LinkableAny(i) == TRUE

Linkable(i) == user[i].verified

\* Mutant: the address is looked up before the stored link.
ResolvedByEmail(g, e) == IF Owner(e) # {} THEN Owner(e) ELSE {link[g]} \ {None}

\* findOrCreateUser: the account of the stored link; without one, the account
\* with the address.
Resolved(g, e) == IF link[g] # None THEN {link[g]} ELSE Owner(e)

\* A linked account signs in; a verified one is linked; an unknown address gets
\* a new account; an unverified one is refused, and so is an inactive one.
FindGoogle(p) ==
  LET g == req[p].sub
      to == Resolved(g, req[p].email) IN
  /\ req[p].pc = "find" /\ req[p].kind = "google"
  /\ \/ /\ to = {}
        /\ Go(p, "write")
     \/ \E i \in to :
          IF ~user[i].active \/ (link[g] = None /\ ~Linkable(i))
            THEN End(p)
            ELSE req' = [req EXCEPT ![p].uid = i,
                           ![p].pc = IF link[g] = None THEN "write" ELSE "commit"]
  /\ UNCHANGED <<tables, store, world, ghosts, bounds>>

-----------------------------------------------------------------------------
(* The writes.  A row or key that another transaction has written is waited  *)
(* for; a unique key that is committed by then is a duplicate.               *)

Wrote(p, keys) == req' = [req EXCEPT ![p].wrote = keys, ![p].pc = "commit"]

\* Register: INSERT; a duplicate key gets the neutral answer as well.
CreateUser(p) ==
  /\ req[p].pc = "write" /\ req[p].kind = "register"
  /\ req[p].email \notin Held(p) /\ next \in Ids
  /\ next' = next + 1
  /\ IF Owner(req[p].email) # {}
       THEN Duplicate(p)
       ELSE /\ req' = [req EXCEPT ![p].uid = next, ![p].wrote = {next, req[p].email},
                                  ![p].pc = "mail"]
            /\ UNCHANGED <<count, sent>>
  /\ UNCHANGED <<user, link, staged, states, world, proven, erased, last, bounds>>

\* createGoogleUser and linkIdentity: a duplicate is an error.
CreateGoogleUser(p) ==
  /\ req[p].pc = "write" /\ req[p].kind = "google" /\ req[p].uid = None
  /\ {req[p].email, req[p].sub} \cap Held(p) = {} /\ next \in Ids
  /\ next' = next + 1
  /\ IF Owner(req[p].email) # {} \/ link[req[p].sub] # None
       THEN End(p)
       ELSE req' = [req EXCEPT ![p].uid = next, ![p].wrote = {next, req[p].email, req[p].sub},
                               ![p].pc = "commit"]
  /\ UNCHANGED <<user, link, store, world, ghosts, bounds>>

LinkIdentity(p) ==
  /\ req[p].pc = "write" /\ req[p].kind = "google" /\ req[p].uid # None
  /\ {req[p].uid, req[p].sub} \cap Held(p) = {}
  /\ IF link[req[p].sub] # None THEN End(p) ELSE Wrote(p, {req[p].uid, req[p].sub})
  /\ UNCHANGED <<tables, store, world, ghosts, bounds>>

UpdateEmail(p) ==
  /\ req[p].pc = "write" /\ req[p].kind = "confirmChange"
  /\ {req[p].uid, req[p].email} \cap Held(p) = {}
  /\ IF Owner(req[p].email) \subseteq {req[p].uid} THEN Wrote(p, {req[p].uid, req[p].email})
                                                  ELSE End(p)
  /\ UNCHANGED <<tables, store, world, ghosts, bounds>>

\* Mutant: UpdatePassword, the write without the condition.
SetFirstPasswordBlind(p) ==
  /\ req[p].pc = "write" /\ req[p].kind = "setPassword" /\ req[p].uid \notin Held(p)
  /\ Wrote(p, {req[p].uid})
  /\ UNCHANGED <<tables, store, world, ghosts, bounds>>

\* UPDATE ... WHERE password = '', on the row as committed by now.
SetFirstPassword(p) ==
  /\ req[p].pc = "write" /\ req[p].kind = "setPassword" /\ req[p].uid \notin Held(p)
  /\ IF user[req[p].uid].password THEN End(p) ELSE Wrote(p, {req[p].uid})
  /\ UNCHANGED <<tables, store, world, ghosts, bounds>>

\* SetEmailVerified; DeleteByUserIDAndProvider; Erase and the clean-up after it.
WriteRow(p) ==
  /\ req[p].pc = "write" /\ req[p].kind \in {"verifyEmail", "unlink", "erase"}
  /\ req[p].uid \notin Held(p)
  /\ Wrote(p, {req[p].uid})
  /\ UNCHANGED <<tables, store, world, ghosts, bounds>>

\* The notifier.  Register mails inside its transaction and a failure does not
\* change its answer; the other two have no transaction.
SendMail(p) ==
  LET k == IF req[p].kind = "requestChange" THEN "change" ELSE req[p].kind IN
  /\ req[p].pc = "mail"
  /\ \/ /\ mail' = mail \cup {[kind |-> IF k = "change" THEN "change" ELSE "verify",
                               uid |-> req[p].uid, to |-> req[p].email]}
        /\ Sends(k, req[p].email)
     \/ UNCHANGED <<mail, sent>>
  /\ IF k = "resend" THEN End(p) ELSE Go(p, IF k = "register" THEN "commit" ELSE "alert")
  /\ UNCHANGED <<tables, store, gmail, proven, erased, last, bounds>>

\* The change is announced to the address that asked for it, whether or not the
\* mail to the new one was sent.
SendAlert(p) ==
  /\ req[p].pc = "alert"
  /\ Sends("alert", req[p].old) \/ UNCHANGED sent
  /\ End(p)
  /\ UNCHANGED <<tables, store, world, proven, erased, last, bounds>>

\* Mutant: an account is verified when it is created.
AppliedVerified(r, kind, e) ==
  CASE kind = "register" -> [email |-> e, verified |-> TRUE, password |-> TRUE, active |-> TRUE]
    [] OTHER             -> r

\* The row after the write, from the row as committed.
Applied(r, kind, e) ==
  CASE kind = "register"      -> [email |-> e, verified |-> FALSE, password |-> TRUE, active |-> TRUE]
    [] kind = "google"        -> IF r # None THEN r
                                 ELSE [email |-> e, verified |-> TRUE, password |-> FALSE, active |-> TRUE]
    [] kind = "verifyEmail"   -> [r EXCEPT !.verified = TRUE]
    [] kind = "confirmChange" -> [r EXCEPT !.email = e, !.verified = TRUE]
    [] kind = "setPassword"   -> [r EXCEPT !.password = TRUE]
    [] kind = "erase"         -> [email |-> None, verified |-> FALSE, password |-> FALSE, active |-> FALSE]
    [] OTHER                  -> r

\* Erase drops the error of DeleteAllByUserID: its links may stay.
Commit(p) ==
  LET r == req[p]
      wrote == r.wrote # {} IN
  \E unlinks \in {r.kind = "unlink", r.kind \in {"unlink", "erase"}} :
  /\ r.pc = "commit"
  /\ user' = IF wrote THEN [user EXCEPT ![r.uid] = Applied(@, r.kind, r.email)] ELSE user
  /\ link' = [g \in Subs |->
       IF r.kind = "google" /\ wrote /\ g = r.sub THEN r.uid
       ELSE IF unlinks /\ link[g] = r.uid THEN None
       ELSE link[g]]
  /\ last' = [g \in Subs |->
       IF r.kind = "google" /\ g = r.sub /\ link'[g] = r.uid THEN r.uid
       ELSE IF r.kind \in {"unlink", "erase"} /\ last[g] = r.uid THEN None
       ELSE last[g]]
  /\ proven' = IF wrote /\ (r.kind \in {"verifyEmail", "confirmChange"}
                            \/ (r.kind = "google" /\ user[r.uid] = None))
                 THEN [proven EXCEPT ![r.uid] = @ \cup {r.email}] ELSE proven
  /\ erased' = erased \cup (IF r.kind = "erase" THEN {r.uid} ELSE {})
  /\ End(p)
  /\ UNCHANGED <<next, store, world, sent, bounds>>

\* A statement or the commit fails, or the process dies.
Abort(p) ==
  /\ req[p].pc \in {"find", "write", "mail", "alert", "commit", "stage"}
  /\ End(p)
  /\ UNCHANGED <<tables, store, world, ghosts, bounds>>

Step(p) ==
  \/ Begin(p) \/ CountRegister(p) \/ CountResend(p) \/ CountChange(p) \/ Admit(p) \/ Take(p)
  \/ FindRegister(p) \/ FindResend(p) \/ FindChange(p) \/ Stage(p) \/ FindVerify(p)
  \/ FindConfirm(p) \/ FindSetPassword(p) \/ FindUnlink(p) \/ FindErase(p) \/ FindGoogle(p)
  \/ CreateUser(p) \/ CreateGoogleUser(p) \/ LinkIdentity(p) \/ UpdateEmail(p)
  \/ SetFirstPassword(p) \/ WriteRow(p) \/ SendMail(p) \/ SendAlert(p) \/ Commit(p) \/ Abort(p)

Next ==
  \/ \E p \in Requests : Step(p)
  \/ BeginLogin
  \/ \E g \in Subs, e \in Emails : GmailChanges(g, e)

Spec == Init /\ [][Next]_vars

-----------------------------------------------------------------------------

\* is_email_verified is set only for an address whose mailbox answered for this
\* account, or that Google vouched for (an erased account has none):
\* through registration, resending, changes of the address that overlap, and
\* accounts that came from Google.
VerifiedProven == \A i \in Ids :
  Exists(i) /\ user[i].verified /\ user[i].email # None => user[i].email \in proven[i]

\* "An existing local user is attached ONLY when their email was already
\* verified" (findOrCreateUser): a Google account is linked to no account that
\* has never shown control of an address, whatever happens between the look-up
\* and the commit.
LinkProven == \A g \in Subs : link[g] # None => proven[link[g]] # {}

\* "A Google-side email CHANGE cannot fork the login onto a different local
\* account" (findOrCreateUser): a Google account that is linked signs in to the
\* account of its last sign-in.
SameAccount == [][\A p \in Requests :
  FindGoogle(p) /\ req'[p].pc # "idle" /\ last[req[p].sub] # None =>
    req'[p].uid = last[req[p].sub]]_vars

\* The limits of Register, ResendVerifyEmail, RequestChangeEmail and of the
\* duplicate alert count before they compare: unlike the login limits they are
\* exact, however many requests run at once, in a window in which the store
\* answers (RedisStore.IncrBy lets a request pass when it cannot count it).  A
\* change of the address is counted under the present address and mailed to two:
\* per address the limit holds for the alert, and in all for both.
MailBound == \A k \in Mails :
  /\ sent[k][None] <= Limit(k)
  /\ k \in {"resend", "dup", "alert"} => \A e \in Emails : sent[k][e] <= ResendPerEmailMax

\* "Two concurrent first-setters cannot both win" (SetPassword): a first password
\* is only given to an account that has none when it is committed.
FirstPasswordOnce == [][\A p \in Requests :
  Commit(p) /\ req[p].kind = "setPassword" => ~user[req[p].uid].password]_vars

\* "Your account data has been permanently erased" (EraseAccount): no address,
\* password or link is on an erased account.
ErasedStaysErased == \A i \in erased :
  user[i].email = None /\ ~user[i].password /\ \A g \in Subs : link[g] # i
=============================================================================
