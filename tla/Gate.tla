-------------------------------- MODULE Gate --------------------------------
(***************************************************************************)
(* What stands between a request and a service: the middlewares of its     *)
(* route, in their order, and the checks of its handler, while other       *)
(* requests, the clock, grants, key rotations and outages go on.           *)
(*                                                                         *)
(* The services themselves are the subject of the other modules; here a    *)
(* service only mints tokens or ends them.  Of the purpose tokens that are *)
(* mailed, verify-email stands for all; chat:read also for chat:write.     *)
(***************************************************************************)
EXTENDS Tokens, Sequences, FiniteSetsExt

CONSTANTS
  Requests,
  Replicas,
  Tenant,      \* the tenant of each user
  Capacity,    \* of the TOTP concurrency limiter
  RPS,         \* refills of the rate limiter in a second
  EntryTTL,    \* of its visitors, in refills
  MaxTime,
  MaxEpoch,    \* bound on the role assignments
  Scenes       \* records of
               \*   routes: the endpoints that are called
               \*   calls: bound on the requests
               \*   burst: of the rate limiter
               \*   events: what else may happen
               \*   first: types and users of the tokens that are out
               \*   grants: of the users; roles: what may be assigned

Users == DOMAIN Tenant
Tenants == {Tenant[u] : u \in Users}

ASSUME GateAssumption ==
  /\ IsFiniteSet(Requests) /\ IsFiniteSet(Replicas) /\ IsFiniteSet(Users)
  /\ {Capacity, RPS, EntryTTL, MaxTime, MaxEpoch} \subseteq Nat
  /\ None \notin Users /\ None \notin Replicas /\ None \notin Nat

Permissions == {"users:read", "users:write", "sessions:read", "audit:export", "webhooks:write"}
Grants == Permissions \cup {"chat:read"}

VARIABLES
  scene,
  called,    \* requests so far
  now,
  ahead,     \* how far a replica's clock is ahead
  keys,      \* of the replicas
  tokens,    \* issued
  denied,    \* access_revocations: a jti stands for its token
  closed,    \* the sessions of a user that are revoked
  ver,       \* pwd_version
  active,    \* users with is_active
  over,      \* tokens that a service was asked to end, and answered
  epoch,     \* auth_epoch
  grants,    \* the permissions by the user's roles
  proof,     \* when the user last proved a TOTP code for a sudo token
  store,     \* the shared store answers
  count,     \* rate:ip, for the one client address
  age,       \* refills since its window began
  passed,    \* what passed in that window: by the counter (None), by each bucket
  bucket,    \* the visitor of the local rate limiter
  granted,   \* in that window, what a bucket held more after it was evicted
  idle,      \* refills since the visitor was last seen
  permits,   \* free tokens of the concurrency limiter
  req

ended == <<denied, closed, ver, active, over>>
identity == <<keys, tokens, ended, epoch, grants, proof>>
limiter == <<count, age, passed, bucket, granted, idle>>
world == <<scene, called, now, ahead, store>>
vars == <<world, identity, limiter, permits, req>>

-----------------------------------------------------------------------------
(* Routes: the middlewares, the handler's checks, what the service does *)

Route(name, middlewares, checks, effects) ==
  [name |-> name, chain |-> middlewares \o checks \o <<"service">>, effects |-> effects]

Public == <<"rate">>
Authed == <<"auth", "state">>
Limited == Authed \o <<"rate">>
Gated == Limited \o <<"totp">>
Sudo == Limited \o <<"sudo">>
Admin(permission) == Limited \o <<permission>>

Register == Route("Register", Public, <<"bind", "honeypot", "captcha">>, {"verify"})
Login == Route("Login", Public, <<"bind">>, {"access", "pending"})
CompleteMFALogin ==
  Route("CompleteMFALogin", <<"pending", "rate", "totp">>, <<"user", "bind">>, {"access"})
Logout == Route("Logout", Authed, <<"bind">>, {"end"})
LogoutAll == Route("LogoutAll", Authed, <<"user">>, {"endAll"})
Refresh == Route("Refresh", Public, <<"bind">>, {"renew"})
ForgotPassword == Route("ForgotPassword", Public, <<"bind">>, {"none"})
ResetPassword == Route("ResetPassword", Public, <<"bind">>, {"endTarget"})
ChangePassword == Route("ChangePassword", Authed, <<"user", "bind">>, {"endAll"})
SetPassword == Route("SetPassword", Authed, <<"user", "bind">>, {"bump"})
Me == Route("Me", Authed, <<"user">>, {"none"})
VerifyEmail == Route("VerifyEmail", Public, <<"bind">>, {"none"})
ResendVerifyEmail == Route("ResendVerifyEmail", Public, <<"bind">>, {"verify"})
MyAuditLog == Route("MyAuditLog", Limited, <<"user">>, {"none"})
RequestChangeEmail == Route("RequestChangeEmail", Limited, <<"user", "bind">>, {"none"})
ConfirmChangeEmail == Route("ConfirmChangeEmail", Public, <<"bind">>, {"endPartly"})
DeactivateAccount == Route("DeactivateAccount", Limited, <<"user">>, {"close"})
EraseMe == Route("EraseMe", Limited, <<"user">>, {"close"})

GoogleLogin == Route("GoogleLogin", Public, <<>>, {"none"})
GoogleCallback == Route("GoogleCallback", Public, <<"bind", "cookie">>, {"access", "pending"})
Unlink == Route("Unlink", Limited, <<"user", "bind">>, {"none"})
ListSessions == Route("ListSessions", Authed, <<"user">>, {"none"})
RevokeSession == Route("RevokeSession", Authed, <<"user", "bind">>, {"endOne"})
ListDevices == Route("ListDevices", Limited, <<"user">>, {"none"})
RevokeDevice == Route("RevokeDevice", Limited, <<"user", "bind">>, {"none"})

EnableTOTP == Route("EnableTOTP", Gated, <<"user">>, {"none"})
VerifyTOTP == Route("VerifyTOTP", Gated, <<"user", "bind">>, {"none"})
ValidateTOTP == Route("ValidateTOTP", Gated, <<"user", "bind">>, {"none"})
ViewRecoveryCodes == Route("ViewRecoveryCodes", Gated, <<"user", "bind">>, {"sudo"})
DisableTOTP == Route("DisableTOTP", Gated, <<"user">>, {"bump"})
GetMethods == Route("GetMethods", Limited, <<"user">>, {"none"})
RegenerateRecoveryCodes == Route("RegenerateRecoveryCodes", Sudo, <<"user">>, {"none"})

BeginRegistration == Route("BeginRegistration", Limited, <<"user", "bind">>, {"none"})
FinishRegistration == Route("FinishRegistration", Limited, <<"user">>, {"none"})
BeginAuthentication == Route("BeginAuthentication", Limited, <<"user">>, {"none"})
FinishAuthentication == Route("FinishAuthentication", Limited, <<"user">>, {"access"})
ListPasskeys == Route("ListPasskeys", Authed, <<"user">>, {"none"})
RevokePasskey == Route("RevokePasskey", Sudo, <<"user", "bind">>, {"none"})

ListUsers == Route("ListUsers", Admin("users:read"), <<>>, {"none"})
LockUser == Route("LockUser", Admin("users:write"), <<"user", "bind">>, {"none"})
UnlockUser == Route("UnlockUser", Admin("users:write"), <<"user", "bind">>, {"none"})
ForceLogout == Route("ForceLogout", Admin("users:write"), <<"user", "bind">>, {"endTarget"})
ListTenantSessions == Route("ListTenantSessions", Admin("sessions:read"), <<>>, {"none"})
ExportAuditLog == Route("ExportAuditLog", Admin("audit:export"), <<>>, {"none"})
CreateEndpoint == Route("CreateEndpoint", Admin("webhooks:write"), <<"bind">>, {"none"})

\* Credential and quota of the calling service, then the token it asks about.
Introspect == Route("Introspect", <<"key", "quota", "bind", "jake", "state">>, <<>>, {"none"})

Routes ==
  {Register, Login, CompleteMFALogin, Logout, LogoutAll, Refresh, ForgotPassword, ResetPassword,
   ChangePassword, SetPassword, Me, VerifyEmail, ResendVerifyEmail, MyAuditLog,
   RequestChangeEmail, ConfirmChangeEmail, DeactivateAccount, EraseMe, GoogleLogin,
   GoogleCallback, Unlink, ListSessions, RevokeSession, ListDevices, RevokeDevice, EnableTOTP,
   VerifyTOTP, ValidateTOTP, ViewRecoveryCodes, DisableTOTP, GetMethods,
   RegenerateRecoveryCodes, BeginRegistration, FinishRegistration, BeginAuthentication,
   FinishAuthentication, ListPasskeys, RevokePasskey, ListUsers, LockUser, UnlockUser,
   ForceLogout, ListTenantSessions, ExportAuditLog, CreateEndpoint, Introspect}

ASSUME ScenesAssumption ==
  /\ None \notin Routes
  /\ \A s \in Scenes :
       /\ s.routes \subseteq Routes
       /\ s.burst \in Nat
       /\ s.first \subseteq [type : DOMAIN TTL, user : Users] /\ IsFiniteSet(s.first)
       /\ s.grants \in [Users -> SUBSET Grants] /\ s.roles \subseteq SUBSET Grants

Passes(route, step) == \E i \in DOMAIN route.chain : route.chain[i] = step

-----------------------------------------------------------------------------

Idle == [route |-> None, at |-> 0, replica |-> None, bearer |-> None, sudo |-> None,
         tenant |-> None, uid |-> None, perms |-> {}, stale |-> FALSE, seen |-> {},
         holds |-> FALSE]

Token == [type : DOMAIN TTL, jti : Nat, user : Users, tenant : Tenants, key : Nat, iat : Nat,
          exp : Nat, ver : Nat, epoch : 0 .. MaxEpoch, sid : Nat, perms : SUBSET Grants,
          aud : SUBSET ({FinnAudience, JakeAudience} \cup DOMAIN TTL)]

NonePassed == [r \in Replicas \cup {None} |-> 0]

Init ==
  /\ scene \in Scenes /\ called = 0 /\ now = 0
  /\ ahead \in [Replicas -> IF "time" \in scene.events THEN 0 .. MaxSkew ELSE {0}]
  /\ keys = Keyset(1, None, 0)
  /\ grants = scene.grants /\ epoch = [u \in Users |-> 0]
  /\ tokens = {IF f.type = "access"
                 THEN IssueAccessV1(keys, 0, 0, f.user, Tenant[f.user], 0, 0, 0, grants[f.user])
                 ELSE Issue(keys, 0, 0, f.user, Tenant[f.user], f.type) : f \in scene.first}
  /\ denied = {} /\ closed = [u \in Users |-> {}] /\ ver = [u \in Users |-> 0]
  /\ active = Users /\ over = {}
  /\ proof = [u \in Users |-> IF [type |-> "sudo", user |-> u] \in scene.first THEN 0 ELSE None]
  /\ store = TRUE
  /\ count = 0 /\ age = 0 /\ passed = NonePassed
  /\ bucket = [r \in Replicas |-> scene.burst]
  /\ granted = [r \in Replicas |-> 0]
  /\ idle = [r \in Replicas |-> 0]
  /\ permits = [r \in Replicas |-> Capacity]
  /\ req = [p \in Requests |-> Idle]

TypeOK ==
  /\ scene \in Scenes /\ called \in 0 .. scene.calls /\ now \in 0 .. MaxTime
  /\ ahead \in [Replicas -> 0 .. MaxSkew]
  /\ keys.current \in Nat /\ keys.last \in Nat
  /\ tokens \subseteq Token /\ denied \subseteq tokens /\ over \subseteq tokens
  /\ closed \in [Users -> SUBSET Nat] /\ ver \in [Users -> Nat] /\ active \subseteq Users
  /\ epoch \in [Users -> 0 .. MaxEpoch]
  /\ grants \in [Users -> SUBSET Grants]
  /\ proof \in [Users -> (0 .. MaxTime) \cup {None}]
  /\ store \in BOOLEAN /\ count \in Nat /\ age \in Nat
  /\ passed \in [Replicas \cup {None} -> Nat]
  /\ bucket \in [Replicas -> 0 .. scene.burst] /\ granted \in [Replicas -> Nat]
  /\ idle \in [Replicas -> 0 .. EntryTTL + 1]
  /\ permits \in [Replicas -> 0 .. Capacity]
  /\ \A p \in Requests : req[p] = Idle \/
       /\ req[p].route \in scene.routes /\ req[p].at \in 1 .. Len(req[p].route.chain)
       /\ req[p].replica \in Replicas /\ req[p].tenant \in Tenants
       /\ {req[p].bearer, req[p].sudo} \subseteq tokens \cup {None}
       /\ req[p].uid \in Users \cup {None}

Clock(r) == now + ahead[r]
At(p, steps) == req[p].route # None /\ req[p].route.chain[req[p].at] \in steps
Step(p) == req[p].route.chain[req[p].at]

Pass(p, r) == req' = [req EXCEPT ![p] = [r EXCEPT !.at = @ + 1]]

\* The deferred release, when the chain unwinds; also after a panic.
Release(p) ==
  permits' = IF req[p].holds THEN [permits EXCEPT ![req[p].replica] = @ + 1] ELSE permits

\* The answer is written, by a middleware, the handler or gin.Recovery.
Answer(p) == req' = [req EXCEPT ![p] = Idle] /\ Release(p)

\* A gate that passes the request, changed to r, or answers it.
Gate(p, open, r) ==
  IF open THEN Pass(p, r) /\ UNCHANGED permits ELSE Answer(p)

\* A token its user was told is ended, or that was signed for other grants.
Dead(t) == t \in over \/ t.epoch # epoch[t.user] \/ t.perms # grants[t.user]

\* The request as it enters the middlewares.
Asking(route, r, tenant, bearer, sudo) ==
  [route |-> route, at |-> 1, replica |-> r, bearer |-> bearer, sudo |-> sudo, tenant |-> tenant,
   uid |-> None, perms |-> {}, stale |-> IF bearer = None THEN FALSE ELSE Dead(bearer),
   seen |-> {}, holds |-> FALSE]

\* TenantMiddleware, for what the client asks for.
Arrive(p) ==
  /\ req[p].route = None /\ called < scene.calls
  /\ called' = called + 1
  /\ \E route \in scene.routes, r \in Replicas, tenant \in Tenants :
     \E bearer \in {None} \cup
            {t \in tokens : \E g \in {"auth", "pending", "jake"} : Passes(route, g)} :
     \E sudo \in {None} \cup {t \in tokens : Passes(route, "sudo")} :
       req' = [req EXCEPT ![p] = Asking(route, r, tenant, bearer, sudo)]
  /\ UNCHANGED <<scene, now, ahead, store, identity, limiter, permits>>

-----------------------------------------------------------------------------
(* Middlewares *)

Verified(p, t, type) ==
  IF t = None THEN FALSE ELSE Verify(keys, Clock(req[p].replica), t) /\ t.type = type

\* Mutant: the tenant stays what the headers said.
BoundByHeader(p) == req[p]

\* The signed tenant replaces the one of the headers.
Bound(p) == [req[p] EXCEPT !.tenant = req[p].bearer.tenant]

AuthMiddleware(p) ==
  /\ At(p, {"auth"})
  /\ Gate(p, Verified(p, req[p].bearer, "access"), Bound(p))
  /\ UNCHANGED <<world, identity, limiter>>

MFAPendingMiddleware(p) ==
  /\ At(p, {"pending"})
  /\ Gate(p, Verified(p, req[p].bearer, "mfa_pending"), [Bound(p) EXCEPT !.uid = req[p].bearer.user])
  /\ UNCHANGED <<world, identity, limiter>>

\* Mutant: the signed grants are taken for the current ones.
InactiveSigned(t) ==
  \/ t.user \notin active \/ t.ver # ver[t.user] \/ t.epoch # epoch[t.user]
  \/ t.sid \in closed[t.user] \/ t \in denied

\* Mutant: only the account's row is read, not the session's.
InactiveRow(t) ==
  \/ t.user \notin active \/ t.ver # ver[t.user] \/ t.epoch # epoch[t.user]
  \/ t.perms # grants[t.user]

\* Authority.Check, on one snapshot: the user's row, the session's, the revoked
\* jtis, the grants.
Inactive(t) ==
  \/ t.user \notin active \/ t.ver # ver[t.user] \/ t.epoch # epoch[t.user]
  \/ t.sid \in closed[t.user]
  \/ t \in denied
  \/ t.perms # grants[t.user]

\* The store and the database are asked; when either is unavailable nothing
\* passes (503).  The store's denylists and the checks of what no service changes
\* (a suspension, the tenant, the session's expiry) may refuse more.
CheckState(p) ==
  /\ At(p, {"state"})
  /\ LET t == req[p].bearer
     IN  \E answered \in {store, FALSE} :
           Gate(p, answered /\ ~Inactive(t),
              [req[p] EXCEPT !.uid = t.user, !.perms = t.perms, !.seen = grants[t.user]])
  /\ UNCHANGED <<world, identity, limiter>>

\* The lifetime of the shared counter, in refills: a full burst, but a second at
\* least.
Window == Max({scene.burst, RPS})

WithinBurst(n) == n <= scene.burst

\* The shared counter, or this replica's own bucket when the store is out.
RateLimit(p) ==
  /\ At(p, {"rate"})
  /\ LET r == req[p].replica
     IN  \/ /\ store
            /\ count' = count + 1
            /\ Gate(p, WithinBurst(count'), req[p])
            /\ passed' = IF WithinBurst(count') THEN [passed EXCEPT ![None] = @ + 1] ELSE passed
            /\ UNCHANGED <<bucket, idle>>
         \/ /\ ~store
            /\ Gate(p, bucket[r] > 0, req[p])
            /\ bucket' = [bucket EXCEPT ![r] = IF @ > 0 THEN @ - 1 ELSE 0]
            /\ idle' = [idle EXCEPT ![r] = 0]
            /\ passed' = IF bucket[r] > 0 /\ count > 0 THEN [passed EXCEPT ![r] = @ + 1] ELSE passed
            /\ UNCHANGED count
  /\ UNCHANGED <<world, identity, age, granted>>

\* ConcurrencyLimiter.Handler: takes a permit or refuses, and never waits.
TOTPCluster(p) ==
  /\ At(p, {"totp"})
  /\ IF permits[req[p].replica] > 0
       THEN /\ Pass(p, [req[p] EXCEPT !.holds = TRUE])
            /\ permits' = [permits EXCEPT ![req[p].replica] = @ - 1]
       ELSE Answer(p)
  /\ UNCHANGED <<world, identity, limiter>>

\* Mutant: any valid sudo token will do.
ElevatedAny(p) == Verified(p, req[p].sudo, "sudo")

Elevated(p) ==
  /\ Verified(p, req[p].sudo, "sudo")
  /\ req[p].sudo.tenant = req[p].tenant /\ req[p].sudo.user = req[p].uid

SudoMiddleware(p) ==
  /\ At(p, {"sudo"})
  /\ Gate(p, Elevated(p), req[p])
  /\ UNCHANGED <<world, identity, limiter>>

RequirePermission(p) ==
  /\ At(p, Permissions)
  /\ Gate(p, req[p].uid # None /\ Step(p) \in req[p].perms, req[p])
  /\ UNCHANGED <<world, identity, limiter>>

\* The introspected token, for the tenant the caller named.
VerifyForJake(p) ==
  /\ At(p, {"jake"})
  /\ LET t == req[p].bearer
     IN  Gate(p, IF t = None THEN FALSE
                 ELSE /\ VerifyAccessV1(keys, Clock(req[p].replica), t, JakeAudience)
                      /\ t.tenant = req[p].tenant, req[p])
  /\ UNCHANGED <<world, identity, limiter>>

-----------------------------------------------------------------------------
(* Handlers *)

\* Checks of the request's own data: its body or parameters, the hidden field,
\* the captcha, the state cookie, the service's key and quota.
CheckInput(p) ==
  /\ At(p, {"bind", "honeypot", "captcha", "cookie", "key", "quota"})
  /\ \E open \in BOOLEAN : Gate(p, open /\ (Step(p) = "quota" => store), req[p])
  /\ UNCHANGED <<world, identity, limiter>>

ctxUserID(p) ==
  /\ At(p, {"user"})
  /\ Gate(p, req[p].uid # None, req[p])
  /\ UNCHANGED <<world, identity, limiter>>

\* The users a service finds: of the request's tenant, and the caller if known.
Found(p) == {u \in Users : Tenant[u] = req[p].tenant /\ req[p].uid \in {None, u}}

\* uuid.NewString
Fresh == Cardinality(tokens)

Mint(t) ==
  /\ tokens' = tokens \cup {t}
  /\ UNCHANGED <<keys, ended, epoch, grants>>

\* The new token is itself checked, as CheckState does.
issueTokenPair(p, u, sid) ==
  LET t == IssueAccessV1(keys, Clock(req[p].replica), Fresh, u, req[p].tenant, ver[u], epoch[u],
                         sid, grants[u])
  IN  store /\ ~Inactive(t) /\ Mint(t)

AccessOf(u) == {t \in tokens : t.user = u /\ t.type = "access"}
Sids(u) == {t.sid : t \in AccessOf(u)}

\* The writes that end tokens: revoked jtis and sessions, another password
\* version, is_active.
End(u, jtis, sids, bump, off, ts) ==
  /\ denied' = denied \cup jtis
  /\ closed' = [closed EXCEPT ![u] = @ \cup sids]
  /\ ver' = [ver EXCEPT ![u] = @ + bump]
  /\ active' = active \ off
  /\ over' = over \cup ts
  /\ UNCHANGED <<keys, tokens, epoch, grants, proof>>

EndSession(u, jtis, sids) ==
  End(u, jtis, sids, 0, {}, jtis \cup {t \in AccessOf(u) : t.sid \in sids})
EndAll(u) == End(u, {}, Sids(u), 1, {}, AccessOf(u))

\* "end": with the refresh token of a session, or with one that is not known.
\* "endPartly", "close": the errors of the last two writes are dropped.
Effect(p, e) ==
  LET r == req[p]
      clock == Clock(r.replica)
  IN  \/ e = "none" /\ UNCHANGED identity
      \/ /\ e = "access" /\ UNCHANGED proof
         /\ \E u \in Found(p) : issueTokenPair(p, u, Fresh)
      \/ /\ e = "renew" /\ UNCHANGED proof
         /\ \E u \in Found(p) : \E sid \in Sids(u) : issueTokenPair(p, u, sid)
      \/ /\ e = "pending" /\ UNCHANGED proof
         /\ \E u \in Found(p) \cap active : Mint(Issue(keys, clock, Fresh, u, r.tenant, "mfa_pending"))
      \/ /\ e = "verify" /\ UNCHANGED proof
         /\ \E u \in Found(p) : Mint(Issue(keys, clock, Fresh, u, r.tenant, "verify-email"))
      \/ /\ e = "sudo" /\ proof' = [proof EXCEPT ![r.uid] = now]
         /\ Mint(Issue(keys, clock, Fresh, r.uid, r.tenant, "sudo"))
      \/ e = "end" /\ \E u \in Users : Tenant[u] = r.tenant
                     /\ \E sids \in {{}} \cup {{s} : s \in Sids(u)} : EndSession(u, {r.bearer}, sids)
      \/ e = "endOne" /\ \E s \in Sids(r.uid) : EndSession(r.uid, {}, {s})
      \/ e = "endAll" /\ EndAll(r.uid)
      \/ e = "endTarget" /\ \E u \in Users : Tenant[u] = r.tenant /\ EndAll(u)
      \/ e = "endPartly" /\ \E u \in Users : Tenant[u] = r.tenant
                           /\ \/ End(u, {}, Sids(u), 0, {}, AccessOf(u))
                              \/ End(u, {}, {}, 1, {}, AccessOf(u))
                              \/ EndAll(u)
      \/ e = "close" /\ \E sids \in {{}, Sids(r.uid)}, bump \in 0 .. 1 :
                         End(r.uid, {}, sids, bump, {r.uid}, AccessOf(r.uid))
      \/ e = "bump" /\ End(r.uid, {}, {}, 1, {}, AccessOf(r.uid))

\* The call of the service, and the answer; it may also fail, or panic.
Serve(p) ==
  /\ At(p, {"service"})
  /\ Answer(p)
  /\ \/ \E e \in req[p].route.effects : Effect(p, e)
     \/ UNCHANGED identity
  /\ UNCHANGED <<world, limiter>>

-----------------------------------------------------------------------------
(* What else happens *)

Tick ==
  /\ "time" \in scene.events /\ now < MaxTime
  /\ now' = now + 1
  /\ UNCHANGED <<scene, called, ahead, store, identity, limiter, permits, req>>

\* All issuers are stopped, the old key's last issuance is noted, and the
\* replicas start again once their clocks have reached it.
Rotate ==
  /\ "rotate" \in scene.events /\ \A p \in Requests : req[p] = Idle
  /\ \A r \in Replicas : keys.previous # None => Clock(r) >= keys.last + KeyDrain
  /\ LET issued == {t.iat : t \in {x \in tokens : x.key = keys.current}}
         last == IF issued = {} THEN now ELSE Max(issued)
     IN  keys' = Keyset(keys.current + 1, keys.current, last)
  /\ \A r \in Replicas : Accepted(keys', Clock(r))
  /\ UNCHANGED <<world, tokens, ended, epoch, grants, proof, limiter, permits, req>>

\* AssignRoleToUser.
AssignRole(u) ==
  /\ "assign" \in scene.events /\ epoch[u] < MaxEpoch
  /\ \E role \in scene.roles : grants' = [grants EXCEPT ![u] = @ \cup role]
  /\ epoch' = [epoch EXCEPT ![u] = @ + 1]
  /\ UNCHANGED <<world, keys, tokens, ended, proof, limiter, permits, req>>

\* A grant is taken away in the database; no epoch moves.
Withdraw(u) ==
  /\ "withdraw" \in scene.events /\ grants[u] # {}
  /\ \E g \in grants[u] : grants' = [grants EXCEPT ![u] = @ \ {g}]
  /\ UNCHANGED <<world, keys, tokens, ended, epoch, proof, limiter, permits, req>>

Outage ==
  /\ "outage" \in scene.events
  /\ store' = ~store
  /\ UNCHANGED <<scene, called, now, ahead, identity, limiter, permits, req>>

\* The time in which a bucket gains a token.
Refill ==
  /\ "refill" \in scene.events
  /\ bucket' = [r \in Replicas |-> Min({bucket[r] + 1, scene.burst})]
  /\ idle' = [r \in Replicas |-> Min({idle[r] + 1, EntryTTL + 1})]
  /\ IF count > 0 /\ age + 1 < Window
       THEN age' = age + 1 /\ UNCHANGED <<count, passed, granted>>
       ELSE count' = 0 /\ passed' = NonePassed /\ age' = 0 /\ granted' = [r \in Replicas |-> 0]
  /\ UNCHANGED <<world, identity, permits, req>>

\* Mutant: the sweeper drops a visitor it has not seen since its last round.
EvictableSoon(r) == idle[r] > 0

Evictable(r) == idle[r] > EntryTTL

\* A visitor that comes back starts with a full bucket.
sweep(r) ==
  /\ "refill" \in scene.events /\ Evictable(r)
  /\ bucket' = [bucket EXCEPT ![r] = scene.burst]
  /\ granted' = IF count > 0 THEN [granted EXCEPT ![r] = @ + (scene.burst - bucket[r])] ELSE granted
  /\ UNCHANGED <<world, identity, count, age, passed, idle, permits, req>>

Next ==
  \/ \E p \in Requests :
       \/ Arrive(p) \/ AuthMiddleware(p) \/ MFAPendingMiddleware(p) \/ CheckState(p)
       \/ RateLimit(p) \/ TOTPCluster(p) \/ SudoMiddleware(p) \/ RequirePermission(p)
       \/ VerifyForJake(p) \/ CheckInput(p) \/ ctxUserID(p) \/ Serve(p)
  \/ \E u \in Users : AssignRole(u) \/ Withdraw(u)
  \/ \E r \in Replicas : sweep(r)
  \/ Tick \/ Rotate \/ Outage \/ Refill

Spec == Init /\ [][Next]_vars

-----------------------------------------------------------------------------

Served(p) == At(p, {"service"})

\* A token that a service was asked to end, or whose grants changed, before a
\* request arrived never gets that request to a service, and is never introspected
\* as active, whichever of a logout's or a credential change's writes it takes to
\* see that: at any replica, with any clock ("a coherent durable snapshot and no
\* positive cache", identity/state.go).
RevocationSeen == \A p \in Requests :
  Served(p) /\ Passes(req[p].route, "state") => ~req[p].stale

\* An admin service runs only for a user who held its permission in the database
\* when the token was checked, whatever the token was signed for ("a direct DB
\* grant removal invalidates JWTs", identity/state.go).
GrantHeld == \A p \in Requests : \A permission \in Permissions :
  Served(p) /\ Passes(req[p].route, permission) => permission \in req[p].seen

\* A known caller is served in the own tenant, whatever the headers say, and all
\* tokens carry their user's tenant ("a client cannot switch to another tenant's
\* partition by setting headers after login", middleware/tenant.go).
TenantBound ==
  /\ \A p \in Requests : Served(p) /\ req[p].uid # None => req[p].tenant = Tenant[req[p].uid]
  /\ \A t \in tokens : t.tenant = Tenant[t.user]

\* Whoever passes the sudo gate proved a TOTP code within the sudo TTL, give or
\* take the leeway and the difference of two clocks ("the user must have proven
\* knowledge of a current TOTP code within the sudo TTL", middleware/sudo.go).
SudoProven == [][\A p \in Requests :
  At(p, {"sudo"}) /\ req[p].route = req'[p].route =>
    req'[p] = req[p] \/
    /\ proof[req[p].uid] # None
    /\ now < proof[req[p].uid] + TTL["sudo"] + 2 * MaxSkew]_vars

\* A rotation ends no access token early: until its leeway is over it verifies
\* at every replica (KeyDrain, jwt/v1.go).
AccessSurvives == \A t \in tokens, r \in Replicas :
  t.type = "access" /\ Clock(r) < t.exp + MaxSkew => Verify(keys, Clock(r), t)

\* The limiters neither lose nor give away.  In a window of the shared counter it
\* passes no more than the burst, and when the store fails meanwhile a replica
\* passes no more than its bucket yields: a full one, the refills since, and what
\* the sweeper handed out by evicting it early ("a store outage degrades to local
\* rate limiting", middleware/rate_limit.go).  That is nothing if an entry lives
\* as long as a bucket takes to fill.  A permit of the concurrency limiter comes
\* back, once, whichever way its request leaves.
LimitersExact ==
  /\ passed[None] <= scene.burst /\ (age = 0 \/ age < Window)
  /\ \A r \in Replicas :
       /\ passed[r] <= scene.burst + age + granted[r]
       /\ scene.burst <= EntryTTL => granted[r] = 0
       /\ permits[r] + Cardinality({p \in Requests : req[p].holds /\ req[p].replica = r}) = Capacity

\* "Active tokens signed with the previous secret continue to verify cleanly"
\* (README.md).  A purpose token that outlives the drain does not.
PreviousVerifies == \A t \in tokens, r \in Replicas :
  Clock(r) < t.exp => Verify(keys, Clock(r), t)
=============================================================================
