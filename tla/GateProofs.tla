----------------------------- MODULE GateProofs -----------------------------
(***************************************************************************)
(* Proofs about Gate, for every number of requests, replicas and users, all *)
(* lifetimes, bursts and capacities, and any endpoints called in any order. *)
(***************************************************************************)
EXTENDS Gate, FiniteSetTheorems, SequenceTheorems, WellFoundedInduction, TLAPS

\* A leaf is for Zenon unless it names another prover: SMT, where there is
\* arithmetic or Zenon does not find the proof.
USE Zenon

-----------------------------------------------------------------------------
(* The chains of the routes *)

Checks == {"bind", "honeypot", "captcha", "cookie", "user"}
Steps == Checks \cup Permissions \cup
  {"auth", "pending", "state", "rate", "totp", "sudo", "key", "quota", "jake", "service"}

Has(m, step) == \E i \in 1 .. Len(m) : m[i] = step

\* Middlewares: the account is read only for a bearer that verified, a permission
\* is asked for only after that, and one permit is taken at most.
Guarded(m) ==
  /\ m \in Seq(Steps)
  /\ \A i \in 1 .. Len(m) :
       /\ m[i] # "service"
       /\ m[i] = "state" => \E j \in 1 .. i - 1 : m[j] \in {"auth", "jake"}
       /\ m[i] \in Permissions => \E j \in 1 .. i - 1 : m[j] = "state"
       /\ \A j \in 1 .. Len(m) : m[i] = "totp" /\ m[j] = "totp" => i = j

\* The same of a chain: its service comes last, and after the caller is known if
\* it issues sudo tokens.
InOrder(c, effects) ==
  /\ c \in Seq(Steps) /\ Len(c) \in Nat \ {0} /\ c[Len(c)] = "service"
  /\ \A i \in 1 .. Len(c) :
       /\ c[i] = "service" => i = Len(c)
       /\ c[i] = "state" => \E j \in 1 .. i - 1 : c[j] \in {"auth", "jake"}
       /\ c[i] \in Permissions => \E j \in 1 .. i - 1 : c[j] = "state"
  /\ \A i, j \in 1 .. Len(c) : c[i] = "totp" /\ c[j] = "totp" => i = j
  /\ "sudo" \in effects => \E j \in 1 .. Len(c) - 1 : c[j] = "user"

Ordered(route) == InOrder(route.chain, route.effects)

LEMMA Composed ==
  ASSUME NEW name, NEW m, Guarded(m), NEW k \in Seq(Checks), NEW effects,
         "sudo" \in effects => Len(k) > 0 /\ k[1] = "user"
  PROVE  Ordered(Route(name, m, k, effects))
  <1> DEFINE s == <<"service">>
             h == m \o k
             c == h \o s
             n == Len(m)
  <1>1. m \in Seq(Steps) /\ k \in Seq(Steps) /\ s \in Seq(Steps) /\ Len(s) = 1 /\ s[1] = "service"
    <2>1. m \in Seq(Steps)
      BY DEF Guarded
    <2>2. Checks \subseteq Steps /\ "service" \in Steps
      BY DEF Steps
    <2>3. k \in Seq(Steps)
      BY <2>2, SMT
    <2>4. s \in Seq(Steps) /\ Len(s) = 1 /\ s[1] = "service"
      BY <2>2, SMT
    <2> QED BY <2>1, <2>3, <2>4
  <1> HIDE DEF s
  <1>2. n \in Nat /\ Len(k) \in Nat
    BY <1>1, SMT
  <1>3. /\ h \in Seq(Steps) /\ Len(h) = n + Len(k)
        /\ \A i \in 1 .. n + Len(k) : h[i] = IF i <= n THEN m[i] ELSE k[i - n]
    BY <1>1, ConcatProperties
  <1> HIDE DEF h, c
  <1>4. /\ c \in Seq(Steps) /\ Len(c) = Len(h) + Len(s)
        /\ \A i \in 1 .. Len(h) + Len(s) : c[i] = IF i <= Len(h) THEN h[i] ELSE s[i - Len(h)]
    <2>1. h \in Seq(Steps) /\ s \in Seq(Steps)
      BY <1>1, <1>3
    <2> QED BY <2>1, ConcatProperties DEF c
  <1>l. Len(c) = n + Len(k) + 1
    BY <1>1, <1>3, <1>4
  <1>5. \A i \in 1 .. n : c[i] = m[i]
    BY <1>1, <1>2, <1>3, <1>4, SMT
  <1>6. \A i \in 1 .. Len(k) : c[n + i] = k[i]
    BY <1>1, <1>2, <1>3, <1>4, SMT
  <1>7. c[Len(c)] = "service"
    <2>1. Len(c) \in 1 .. Len(h) + Len(s) /\ ~(Len(c) <= Len(h)) /\ Len(c) - Len(h) = 1
      BY <1>1, <1>2, <1>3, <1>l, SMT
    <2> QED BY <1>1, <1>4, <2>1
  <1>8. \A i \in 1 .. Len(k) : k[i] \in Checks
    BY SMT
  <1>9. \A i \in 1 .. Len(c) : i \in 1 .. n \/ c[i] \in Checks \/ i = Len(c)
    <2>1. ASSUME NEW i \in 1 .. Len(c), i \notin 1 .. n, i # Len(c) PROVE c[i] \in Checks
      <3>1. i - n \in 1 .. Len(k) /\ n + (i - n) = i
        BY <1>2, <1>l, <2>1, SMT
      <3> QED BY <1>6, <1>8, <3>1
    <2> QED BY <2>1
  <1>10. \A i \in 1 .. n : i \in 1 .. Len(c) /\ i < Len(c)
    BY <1>2, <1>l, SMT
  <1>11. /\ "service" \notin Checks \cup Permissions /\ "state" \notin Checks /\ "totp" \notin Checks
         /\ Checks \cap Permissions = {} /\ "state" # "service" /\ "totp" # "service"
    BY DEF Checks, Permissions
  <1>12. ASSUME NEW i \in 1 .. Len(c)
         PROVE  /\ c[i] = "service" => i = Len(c)
                /\ c[i] = "state" => \E j \in 1 .. i - 1 : c[j] \in {"auth", "jake"}
                /\ c[i] \in Permissions => \E j \in 1 .. i - 1 : c[j] = "state"
    <2>1. CASE i \in 1 .. n
      <3>1. c[i] = m[i] /\ \A j \in 1 .. i - 1 : j \in 1 .. n /\ c[j] = m[j]
        BY <1>2, <1>5, <2>1, SMT
      <3> QED BY <2>1, <3>1 DEF Guarded
    <2>2. CASE i \notin 1 .. n
      BY <1>7, <1>9, <1>11, <2>2
    <2> QED BY <2>1, <2>2
  <1>13. \A i, j \in 1 .. Len(c) : c[i] = "totp" /\ c[j] = "totp" => i = j
    <2>1. \A i \in 1 .. Len(c) : c[i] = "totp" => i \in 1 .. n /\ m[i] = "totp"
      BY <1>5, <1>7, <1>9, <1>11
    <2> QED BY <2>1 DEF Guarded
  <1>14. "sudo" \in effects => \E j \in 1 .. Len(c) - 1 : c[j] = "user"
    <2>1. Len(k) > 0 => 1 \in 1 .. Len(k) /\ n + 1 \in 1 .. Len(c) - 1
      BY <1>2, <1>l, SMT
    <2> QED BY <1>6, <2>1
  <1>15. Len(c) \in Nat \ {0}
    BY <1>2, <1>l, SMT
  <1>16. InOrder(c, effects)
    BY <1>4, <1>7, <1>12, <1>13, <1>14, <1>15 DEF InOrder
  <1>17. Route(name, m, k, effects).chain = c /\ Route(name, m, k, effects).effects = effects
    BY DEF Route, c, h, s
  <1> QED BY <1>16, <1>17 DEF Ordered

\* One more middleware.
LEMMA Extended ==
  ASSUME NEW m, Guarded(m), NEW g \in Steps \ {"service", "state"},
         g \in Permissions => Has(m, "state"), g = "totp" => ~Has(m, "totp")
  PROVE  /\ Guarded(m \o <<g>>)
         /\ \A x : Has(m \o <<g>>, x) <=> Has(m, x) \/ x = g
  <1> DEFINE s == <<g>>
             h == m \o s
             n == Len(m)
  <1>1. m \in Seq(Steps) /\ s \in Seq(Steps) /\ Len(s) = 1 /\ s[1] = g /\ n \in Nat
    BY SMT DEF Guarded
  <1> HIDE DEF s
  <1>2. /\ h \in Seq(Steps) /\ Len(h) = n + Len(s)
        /\ \A i \in 1 .. n + Len(s) : h[i] = IF i <= n THEN m[i] ELSE s[i - n]
    BY <1>1, ConcatProperties
  <1> HIDE DEF h
  <1>3. Len(h) = n + 1 /\ h[n + 1] = g /\ \A i \in 1 .. n : h[i] = m[i]
    BY <1>1, <1>2, SMT
  <1>4. 1 .. Len(h) = (1 .. n) \cup {n + 1} /\ n + 1 \notin 1 .. n /\ (n + 1) - 1 = n
    BY <1>1, <1>3, SMT
  <1>5. \A x : Has(h, x) <=> Has(m, x) \/ x = g
    BY <1>3, <1>4 DEF Has
  <1>6. ASSUME NEW i \in 1 .. Len(h)
        PROVE  /\ h[i] # "service"
               /\ h[i] = "state" => \E j \in 1 .. i - 1 : h[j] \in {"auth", "jake"}
               /\ h[i] \in Permissions => \E j \in 1 .. i - 1 : h[j] = "state"
    <2>1. CASE i \in 1 .. n
      <3>1. h[i] = m[i] /\ \A j \in 1 .. i - 1 : j \in 1 .. n /\ h[j] = m[j]
        BY <1>1, <1>3, <2>1, SMT
      <3> QED BY <2>1, <3>1 DEF Guarded
    <2>2. CASE i = n + 1
      <3>1. h[i] = g /\ \A j \in 1 .. n : j \in 1 .. i - 1 /\ h[j] = m[j]
        BY <1>3, <1>4, <2>2
      <3> QED BY <3>1 DEF Has
    <2> QED BY <1>4, <2>1, <2>2
  <1>7. \A i, j \in 1 .. Len(h) : h[i] = "totp" /\ h[j] = "totp" => i = j
    BY <1>3, <1>4 DEF Guarded, Has
  <1>8. Guarded(h)
    BY <1>2, <1>6, <1>7 DEF Guarded
  <1> QED BY <1>5, <1>8 DEF h, s


LEMMA Stacks ==
  /\ Guarded(Public) /\ Guarded(Authed) /\ Guarded(Limited) /\ Guarded(Gated) /\ Guarded(Sudo)
  /\ \A g \in Permissions : Guarded(Admin(g))
  /\ Guarded(<<"pending", "rate", "totp">>) /\ Guarded(<<"key", "quota", "bind", "jake", "state">>)
  <1>1. \A i : i \in 1 .. 1 => i = 1
    BY SMT
  <1>2. \A i : i \in 1 .. 2 => i = 1 \/ i = 2
    BY SMT
  <1>3. Guarded(Public)
    <2>1. Public \in Seq(Steps) /\ Len(Public) = 1 /\ Public[1] = "rate"
      BY SMT DEF Public, Steps
    <2> QED BY <1>1, <2>1 DEF Guarded, Permissions
  <1>4. Guarded(Authed) /\ Has(Authed, "state") /\ ~Has(Authed, "totp")
    <2>1. Authed \in Seq(Steps) /\ Len(Authed) = 2 /\ Authed[1] = "auth" /\ Authed[2] = "state"
      BY SMT DEF Authed, Steps
    <2>2. 1 \in 1 .. 2 - 1 /\ 2 \in 1 .. 2
      BY SMT
    <2> QED BY <1>2, <2>1, <2>2 DEF Guarded, Has, Permissions
  <1>5. \A g \in Permissions \cup {"rate", "totp", "sudo"} : g \in Steps \ {"service", "state"}
    BY DEF Permissions, Steps
  <1>6. "totp" \notin Permissions /\ "rate" \notin Permissions /\ "sudo" \notin Permissions
    BY DEF Permissions
  <1>7. Guarded(Limited) /\ Has(Limited, "state") /\ ~Has(Limited, "totp")
    BY <1>4, <1>5, <1>6, Extended DEF Limited
  <1>8. Guarded(Gated) /\ Guarded(Sudo)
    BY <1>5, <1>6, <1>7, Extended DEF Gated, Sudo
  <1>9. \A g \in Permissions : Guarded(Admin(g))
    BY <1>5, <1>6, <1>7, Extended DEF Admin
  <1>10. Guarded(<<"pending", "rate", "totp">>)
    <2> DEFINE m == <<"pending", "rate", "totp">>
    <2>1. m \in Seq(Steps) /\ Len(m) = 3 /\ m[1] = "pending" /\ m[2] = "rate" /\ m[3] = "totp"
      BY SMT DEF Steps
    <2> HIDE DEF m
    <2>2. \A i : i \in 1 .. 3 => i \in {1, 2, 3}
      BY SMT
    <2>3. Guarded(m)
      BY <2>1, <2>2 DEF Guarded, Permissions
    <2> QED BY <2>3 DEF m
  <1>11. Guarded(<<"key", "quota", "bind", "jake", "state">>)
    <2> DEFINE m == <<"key", "quota", "bind", "jake", "state">>
    <2>1. /\ m \in Seq(Steps) /\ Len(m) = 5 /\ m[1] = "key" /\ m[2] = "quota" /\ m[3] = "bind"
          /\ m[4] = "jake" /\ m[5] = "state"
      BY SMT DEF Steps, Checks
    <2> HIDE DEF m
    <2>2. (\A i : i \in 1 .. 5 => i \in {1, 2, 3, 4, 5}) /\ 4 \in 1 .. 5 - 1
      BY SMT
    <2>3. Guarded(m)
      BY <2>1, <2>2 DEF Guarded, Permissions
    <2> QED BY <2>3 DEF m
  <1> QED BY <1>3, <1>4, <1>7, <1>8, <1>9, <1>10, <1>11

\* What the handlers check.
LEMMA Handlers ==
  /\ <<>> \in Seq(Checks) /\ <<"bind">> \in Seq(Checks) /\ <<"bind", "cookie">> \in Seq(Checks)
  /\ <<"bind", "honeypot", "captcha">> \in Seq(Checks)
  /\ <<"user">> \in Seq(Checks) /\ Len(<<"user">>) > 0 /\ <<"user">>[1] = "user"
  /\ <<"user", "bind">> \in Seq(Checks) /\ Len(<<"user", "bind">>) > 0 /\ <<"user", "bind">>[1] = "user"
  BY SMT DEF Checks

\* Every endpoint of the server.
LEMMA RoutesOrdered == \A route \in Routes : Ordered(route)
  <1>1. "sudo" \notin {"verify"} \cup {"access", "pending"} \cup {"end"} \cup {"endAll"} \cup {"none"}
          \cup {"endTarget"} \cup {"endOne"} \cup {"renew"} \cup {"bump"} \cup {"endPartly"} \cup {"close"}
    OBVIOUS
  <1>2. {"users:read", "users:write", "sessions:read", "audit:export", "webhooks:write"} \subseteq Permissions
    BY DEF Permissions
  <1>3. Ordered(Register) /\ Ordered(Login) /\ Ordered(Refresh) /\ Ordered(ForgotPassword)
    BY <1>1, <1>2, Stacks, Handlers, Composed DEF Register, Login, Refresh, ForgotPassword
  <1>4. Ordered(ResetPassword) /\ Ordered(VerifyEmail) /\ Ordered(ResendVerifyEmail) /\ Ordered(ConfirmChangeEmail)
    BY <1>1, <1>2, Stacks, Handlers, Composed DEF ResetPassword, VerifyEmail, ResendVerifyEmail, ConfirmChangeEmail
  <1>5. Ordered(GoogleLogin) /\ Ordered(GoogleCallback)
    BY <1>1, <1>2, Stacks, Handlers, Composed DEF GoogleLogin, GoogleCallback
  <1>6. Ordered(CompleteMFALogin) /\ Ordered(Introspect)
    BY <1>1, <1>2, Stacks, Handlers, Composed DEF CompleteMFALogin, Introspect
  <1>7. Ordered(Logout) /\ Ordered(LogoutAll) /\ Ordered(ChangePassword) /\ Ordered(SetPassword)
    BY <1>1, <1>2, Stacks, Handlers, Composed DEF Logout, LogoutAll, ChangePassword, SetPassword
  <1>8. Ordered(Me) /\ Ordered(ListSessions) /\ Ordered(RevokeSession) /\ Ordered(ListPasskeys)
    BY <1>1, <1>2, Stacks, Handlers, Composed DEF Me, ListSessions, RevokeSession, ListPasskeys
  <1>9. Ordered(MyAuditLog) /\ Ordered(RequestChangeEmail) /\ Ordered(DeactivateAccount) /\ Ordered(EraseMe)
    BY <1>1, <1>2, Stacks, Handlers, Composed DEF MyAuditLog, RequestChangeEmail, DeactivateAccount, EraseMe
  <1>10. Ordered(Unlink) /\ Ordered(ListDevices) /\ Ordered(RevokeDevice) /\ Ordered(GetMethods)
    BY <1>1, <1>2, Stacks, Handlers, Composed DEF Unlink, ListDevices, RevokeDevice, GetMethods
  <1>11. Ordered(BeginRegistration) /\ Ordered(FinishRegistration) /\ Ordered(BeginAuthentication) /\ Ordered(FinishAuthentication)
    BY <1>1, <1>2, Stacks, Handlers, Composed DEF BeginRegistration, FinishRegistration, BeginAuthentication, FinishAuthentication
  <1>12. Ordered(EnableTOTP) /\ Ordered(VerifyTOTP) /\ Ordered(ValidateTOTP) /\ Ordered(ViewRecoveryCodes)
    BY <1>1, <1>2, Stacks, Handlers, Composed DEF EnableTOTP, VerifyTOTP, ValidateTOTP, ViewRecoveryCodes
  <1>13. Ordered(DisableTOTP)
    BY <1>1, <1>2, Stacks, Handlers, Composed DEF DisableTOTP
  <1>14. Ordered(RegenerateRecoveryCodes) /\ Ordered(RevokePasskey)
    BY <1>1, <1>2, Stacks, Handlers, Composed DEF RegenerateRecoveryCodes, RevokePasskey
  <1>15. Ordered(ListUsers) /\ Ordered(LockUser) /\ Ordered(UnlockUser) /\ Ordered(ForceLogout)
    BY <1>1, <1>2, Stacks, Handlers, Composed DEF ListUsers, LockUser, UnlockUser, ForceLogout
  <1>16. Ordered(ListTenantSessions) /\ Ordered(ExportAuditLog) /\ Ordered(CreateEndpoint)
    BY <1>1, <1>2, Stacks, Handlers, Composed DEF ListTenantSessions, ExportAuditLog, CreateEndpoint
  <1> QED BY <1>3, <1>4, <1>5, <1>6, <1>7, <1>8, <1>9, <1>10, <1>11, <1>12, <1>13, <1>14, <1>15, <1>16 DEF Routes

-----------------------------------------------------------------------------
(* The inductive invariant *)

Past(r, steps) == \E j \in 1 .. r.at - 1 : r.route.chain[j] \in steps

Shape(T) ==
  [route : Routes \cup {None}, at : Nat, replica : Replicas \cup {None}, bearer : T \cup {None},
   sudo : T \cup {None}, tenant : Tenants \cup {None}, uid : Users \cup {None},
   perms : SUBSET Grants, stale : BOOLEAN, seen : SUBSET Grants, holds : BOOLEAN]

\* A bearer that verified as an access token, in whose tenant the request is.
Vouched(r, T) == r.bearer \in T /\ r.bearer.type = "access" /\ r.tenant = r.bearer.tenant

\* What has been read of the account agrees with the bearer, which was not dead
\* when the request came.
Current(r) == ~r.stale /\ r.perms = r.bearer.perms /\ r.perms = r.seen

\* What each gate behind a request has established, with the tokens T of which
\* the access tokens D are dead.
Lawful(r, T, D) ==
  /\ r \in Shape(T)
  /\ r.route = None => r = Idle
  /\ r.route # None => r.replica \in Replicas /\ r.at \in 1 .. Len(r.route.chain)
  /\ Past(r, {"auth", "jake"}) => Vouched(r, T)
  /\ r.uid # None => r.bearer \in T /\ r.uid = r.bearer.user /\ r.tenant = r.bearer.tenant
  /\ Past(r, {"state"}) => Current(r)
  /\ \A g \in Permissions : Past(r, {g}) => g \in r.perms
  /\ Past(r, {"user"}) => r.uid # None
  /\ r.stale => r.bearer \in T /\ (r.bearer.type = "access" => r.bearer \in D)

Gone == {t \in tokens : t.type = "access" /\ Dead(t)}

\* A token was signed by the present key, or by the previous one before its last
\* use was noted, or the leeway of its expiry is over everywhere.
Signed(t) ==
  \/ t.key = keys.current
  \/ keys.previous # None /\ t.key = keys.previous /\ t.iat <= keys.last
  \/ \A r \in Replicas : t.exp + MaxSkew <= Clock(r)

\* While no role has been assigned since, a user's grants only shrink.
Sane(t) ==
  /\ t.tenant = Tenant[t.user]
  /\ t.exp = t.iat + TTL[t.type] /\ t.iat <= now + MaxSkew
  /\ t.epoch <= epoch[t.user]
  /\ t.type = "access" =>
       /\ t.epoch = epoch[t.user] => grants[t.user] \subseteq t.perms
       /\ FinnAudience \in t.aud /\ t.aud \subseteq {FinnAudience, JakeAudience}
       /\ Signed(t)
  /\ t.type = "sudo" => proof[t.user] # None /\ t.iat <= proof[t.user] + MaxSkew

AnyToken == [type : DOMAIN TTL, jti : Nat, user : Users, tenant : Tenants, key : Nat, iat : Nat,
             exp : Nat, ver : Nat, epoch : Nat, sid : Nat, perms : SUBSET Grants,
             aud : SUBSET ({FinnAudience, JakeAudience} \cup DOMAIN TTL)]

World ==
  /\ scene \in Scenes /\ now \in Nat /\ ahead \in [Replicas -> 0 .. MaxSkew]
  /\ keys.current \in Nat /\ keys.last \in Nat
  /\ tokens \in SUBSET AnyToken /\ IsFiniteSet(tokens)
  /\ epoch \in [Users -> Nat] /\ grants \in [Users -> SUBSET Grants]
  /\ proof \in [Users -> Nat \cup {None}]
  /\ DOMAIN req = Requests

\* One of the account's rows shows that the token is ended.
Void(t) ==
  \/ t \in denied
  \/ t \in tokens /\ (t.sid \in closed[t.user] \/ t.ver < ver[t.user] \/ t.user \notin active)

\* No row takes back what it has shown, and no token is ahead of its account.
Ended ==
  /\ DOMAIN closed = Users /\ ver \in [Users -> Nat]
  /\ \A t \in tokens : t.ver <= ver[t.user]
  /\ \A t \in over : Void(t)

Inv ==
  /\ World
  /\ Ended
  /\ \A t \in tokens : Sane(t)
  /\ \A p \in Requests : Lawful(req[p], tokens, Gone) /\ req[p].route \in scene.routes \cup {None}

\* A bucket is full once nothing has come for as many refills as it holds, so an
\* entry that lives that long is evicted with a full bucket only; what has passed
\* in a window and what is left in the bucket are a full bucket, its refills and
\* what evictions granted at most.
Buckets ==
  /\ count \in Nat /\ age \in Nat /\ passed \in [Replicas \cup {None} -> Nat]
  /\ bucket \in [Replicas -> 0 .. scene.burst] /\ idle \in [Replicas -> Nat]
  /\ granted \in [Replicas -> Nat]
  /\ passed[None] <= count /\ passed[None] <= scene.burst /\ (age = 0 \/ age < Window)
  /\ \A r \in Replicas :
       /\ idle[r] <= bucket[r] \/ bucket[r] = scene.burst
       /\ passed[r] + bucket[r] <= scene.burst + age + granted[r]
       /\ count = 0 => passed[r] = 0
       /\ scene.burst <= EntryTTL => granted[r] = 0

Holders(r) == {p \in Requests : req[p].holds /\ req[p].replica = r}

Permits ==
  /\ permits \in [Replicas -> Nat]
  /\ \A p \in Requests : req[p].holds => req[p].replica \in Replicas /\ Past(req[p], {"totp"})
  /\ \A r \in Replicas : permits[r] + Cardinality(Holders(r)) = Capacity

-----------------------------------------------------------------------------
(* Requests *)

LEMMA Constants ==
  /\ MaxSkew \in Nat /\ MaxAccessTTL \in Nat /\ Capacity \in Nat /\ EntryTTL \in Nat /\ RPS \in Nat
  /\ DOMAIN TTL = {"access", "mfa_pending", "sudo", "verify-email"}
  /\ \A type \in DOMAIN TTL : TTL[type] \in Nat \ {0}
  /\ TTL["access"] <= MaxAccessTTL
  /\ None \notin Users /\ None \notin Replicas /\ None \notin Nat /\ IsFiniteSet(Requests)
  BY TokensAssumption, GateAssumption

LEMMA NothingPast == \A steps : ~Past(Idle, steps)
  <1>1. \A j : j \notin 1 .. 0 - 1
    BY SMT
  <1>2. Idle.at = 0
    BY DEF Idle
  <1> QED BY <1>1, <1>2 DEF Past

LEMMA IdleLawful == \A T, D : Lawful(Idle, T, D)
  <1>1. /\ Idle.route = None /\ Idle.at = 0 /\ Idle.replica = None /\ Idle.bearer = None
        /\ Idle.sudo = None /\ Idle.tenant = None /\ Idle.uid = None /\ Idle.perms = {}
        /\ Idle.stale = FALSE /\ Idle.seen = {} /\ Idle.holds = FALSE
    BY DEF Idle
  <1>2. \A T : Idle \in Shape(T)
    BY SMT DEF Idle, Shape
  <1> QED BY <1>1, <1>2, NothingPast DEF Lawful

\* Tokens come, and more of them die: nothing that a gate has seen changes.
LEMMA Grows ==
  ASSUME NEW r, NEW T, NEW D, Lawful(r, T, D), NEW U, NEW E, T \subseteq U, D \subseteq E
  PROVE  Lawful(r, U, E)
  <1>1. r \in Shape(U)
    BY SMT DEF Lawful, Shape
  <1> QED BY <1>1 DEF Lawful, Vouched

\* What the gate at hand must have shown before the request goes on.
Fit(r, T) ==
  LET step == r.route.chain[r.at] IN
  /\ step # "service"
  /\ step \in {"auth", "jake"} => Vouched(r, T)
  /\ step = "state" => Current(r)
  /\ step \in Permissions => step \in r.perms
  /\ step = "user" => r.uid # None

Onward(r) == [r EXCEPT !.at = @ + 1]

LEMMA PastOnward ==
  ASSUME NEW T, NEW r \in Shape(T), r.at > 0
  PROVE  \A steps : Past(Onward(r), steps) <=> Past(r, steps) \/ r.route.chain[r.at] \in steps
  <1> DEFINE n == Onward(r)
  <1>1. n.at = r.at + 1 /\ n.route = r.route /\ r.at \in Nat
    BY SMT DEF Onward, Shape
  <1> HIDE DEF n
  <1>2. 1 .. n.at - 1 = (1 .. r.at - 1) \cup {r.at}
    BY <1>1, SMT
  <1> QED BY <1>1, <1>2 DEF Past, n

LEMMA GoesOn ==
  ASSUME NEW T, NEW D, NEW r, Lawful(r, T, D), r.route # None, Fit(r, T)
  PROVE  Lawful(Onward(r), T, D) /\ Onward(r).route = r.route
  <1> DEFINE n == Onward(r)
             c == r.route.chain[r.at]
  <1>1. r \in Shape(T) /\ r.at \in 1 .. Len(r.route.chain) /\ r.route \in Routes
    BY DEF Lawful, Shape
  <1>2. InOrder(r.route.chain, r.route.effects)
    BY <1>1, RoutesOrdered DEF Ordered
  <1>3. Len(r.route.chain) \in Nat /\ r.at > 0 /\ r.at \in Nat
    BY <1>1, <1>2, SMT DEF InOrder
  <1>4. r.at # Len(r.route.chain)
    BY <1>2 DEF Fit, InOrder
  <1>5. /\ n \in Shape(T) /\ n.at = r.at + 1 /\ n.route = r.route /\ n.replica = r.replica
        /\ n.bearer = r.bearer /\ n.sudo = r.sudo /\ n.tenant = r.tenant /\ n.uid = r.uid
        /\ n.perms = r.perms /\ n.stale = r.stale /\ n.seen = r.seen /\ n.holds = r.holds
    BY <1>1, SMT DEF Shape, Onward
  <1>6. n.at \in 1 .. Len(r.route.chain)
    BY <1>1, <1>3, <1>4, <1>5, SMT
  <1>7. \A steps : Past(n, steps) <=> Past(r, steps) \/ c \in steps
    BY <1>1, <1>3, PastOnward
  <1> HIDE DEF n
  <1>8. Past(n, {"auth", "jake"}) => Vouched(n, T)
    BY <1>5, <1>7 DEF Fit, Lawful, Vouched
  <1>9. Past(n, {"state"}) => Current(n)
    BY <1>5, <1>7 DEF Fit, Lawful, Current
  <1>10. \A g \in Permissions : Past(n, {g}) => g \in n.perms
    BY <1>5, <1>7 DEF Fit, Lawful
  <1>11. Past(n, {"user"}) => n.uid # None
    BY <1>5, <1>7 DEF Fit, Lawful
  <1>12. Lawful(n, T, D)
    BY <1>5, <1>6, <1>8, <1>9, <1>10, <1>11 DEF Lawful
  <1> QED BY <1>5, <1>12 DEF n

LEMMA Endless ==
  ASSUME Ended, UNCHANGED <<tokens, ended>>
  PROVE  Ended'
  BY DEF Ended, Void, ended

LEMMA Stays ==
  ASSUME Inv, World', Ended', tokens \subseteq tokens', Gone \subseteq Gone', scene' = scene,
         \A t \in tokens' : Sane(t)',
         \A q \in Requests : \/ req'[q] = req[q]
                             \/ /\ Lawful(req'[q], tokens', Gone')
                                /\ req'[q].route \in scene.routes \cup {None}
  PROVE  Inv'
  <1>1. ASSUME NEW q \in Requests
        PROVE  Lawful(req'[q], tokens', Gone') /\ req'[q].route \in scene'.routes \cup {None}
    <2>1. CASE req'[q] = req[q]
      <3>1. Lawful(req[q], tokens, Gone) /\ req[q].route \in scene.routes \cup {None}
        BY DEF Inv
      <3> QED BY <2>1, <3>1, Grows
    <2> QED BY <2>1
  <1> QED BY <1>1 DEF Inv

LEMMA Moves ==
  ASSUME Inv, NEW p \in Requests, NEW n, req' = [req EXCEPT ![p] = n],
         Lawful(n, tokens, Gone), n.route \in scene.routes \cup {None},
         UNCHANGED <<scene, now, ahead, identity>>
  PROVE  Inv'
  <1>1. /\ keys' = keys /\ tokens' = tokens /\ ended' = ended /\ epoch' = epoch
        /\ grants' = grants /\ proof' = proof
    BY DEF identity
  <1>2. Gone' = Gone /\ Ended'
    <2>1. Gone' = Gone
      BY <1>1 DEF Gone, Dead, ended
    <2>2. Ended
      BY DEF Inv
    <2> QED BY <1>1, <2>1, <2>2, Endless
  <1>3. World'
    BY <1>1 DEF Inv, World
  <1>4. \A t \in tokens' : Sane(t)'
    BY <1>1 DEF Inv, Sane, Signed, Clock
  <1>5. \A q \in Requests : req'[q] = IF q = p THEN n ELSE req[q]
    BY DEF Inv, World
  <1>6. \A q \in Requests : \/ req'[q] = req[q]
                            \/ /\ Lawful(req'[q], tokens', Gone')
                               /\ req'[q].route \in scene.routes \cup {None}
    BY <1>1, <1>2, <1>5
  <1> QED BY <1>1, <1>2, <1>3, <1>4, <1>6, Stays

\* A middleware, or a check of the handler.
LEMMA Gates ==
  ASSUME Inv, NEW p \in Requests, req[p].route # None, NEW open, NEW n, Gate(p, open, n),
         open => Lawful(n, tokens, Gone) /\ n.route = req[p].route /\ Fit(n, tokens),
         UNCHANGED <<scene, now, ahead, identity>>
  PROVE  Inv'
  <1>1. req[p].route \in scene.routes \cup {None}
    BY DEF Inv
  <1>2. CASE open
    <2>1. req' = [req EXCEPT ![p] = Onward(n)]
      BY <1>2 DEF Gate, Pass, Onward
    <2>2. Lawful(Onward(n), tokens, Gone) /\ Onward(n).route = n.route
      BY <1>2, GoesOn
    <2>3. Onward(n).route \in scene.routes \cup {None}
      BY <1>1, <1>2, <2>2
    <2> QED BY <2>1, <2>2, <2>3, Moves
  <1>3. CASE ~open
    <2>1. req' = [req EXCEPT ![p] = Idle] /\ Idle.route = None
      BY <1>3 DEF Gate, Answer, Idle
    <2> QED BY <2>1, IdleLawful, Moves
  <1> QED BY <1>2, <1>3

LEMMA Asked ==
  ASSUME Inv, NEW p \in Requests
  PROVE  /\ Lawful(req[p], tokens, Gone) /\ req[p] \in Shape(tokens)
         /\ req[p].bearer # None => req[p].bearer \in tokens
         /\ req[p].sudo # None => req[p].sudo \in tokens
         /\ \A t \in tokens : t \in AnyToken /\ Sane(t)
  <1>1. req[p] \in Shape(tokens) /\ Lawful(req[p], tokens, Gone)
    BY DEF Inv, Lawful
  <1>2. req[p].bearer \in tokens \cup {None} /\ req[p].sudo \in tokens \cup {None}
    BY <1>1 DEF Shape
  <1>3. \A t \in tokens : t \in AnyToken /\ Sane(t)
    BY DEF Inv, World
  <1> QED BY <1>1, <1>2, <1>3

\* The signed tenant is written over the one of the headers, and with it the user.
LEMMA Rebinds ==
  ASSUME Inv, NEW p \in Requests, req[p].bearer # None,
         NEW n \in {Bound(p), [Bound(p) EXCEPT !.uid = req[p].bearer.user]}
  PROVE  /\ Lawful(n, tokens, Gone) /\ n.tenant = n.bearer.tenant /\ n.bearer = req[p].bearer
         /\ n.route = req[p].route /\ n.at = req[p].at
  <1> DEFINE r == req[p]
             t == r.bearer
  <1>1. Lawful(r, tokens, Gone) /\ r \in Shape(tokens) /\ t \in tokens /\ t \in AnyToken
    BY Asked
  <1>2. t.tenant \in Tenants /\ t.user \in Users
    BY <1>1 DEF AnyToken
  <1>3. /\ n \in Shape(tokens) /\ n.tenant = t.tenant /\ n.uid \in {r.uid, t.user}
        /\ n.at = r.at /\ n.route = r.route /\ n.replica = r.replica /\ n.bearer = r.bearer
        /\ n.perms = r.perms /\ n.stale = r.stale /\ n.seen = r.seen
    <2> DEFINE b == [r EXCEPT !.tenant = t.tenant]
    <2>1. n \in {b, [b EXCEPT !.uid = t.user]}
      BY DEF Bound
    <2>2. /\ b \in Shape(tokens) /\ b.tenant = t.tenant /\ b.uid = r.uid
          /\ b.at = r.at /\ b.route = r.route /\ b.replica = r.replica /\ b.bearer = r.bearer
          /\ b.perms = r.perms /\ b.stale = r.stale /\ b.seen = r.seen
      <3> HIDE DEF r, t
      <3> QED BY <1>1, <1>2, SMT DEF Shape
    <2> HIDE DEF b, r, t
    <2>3. CASE n = b
      BY <2>2, <2>3
    <2>4. CASE n = [b EXCEPT !.uid = t.user]
      BY <1>2, <2>2, <2>4, SMT DEF Shape
    <2> QED BY <2>1, <2>3, <2>4
  <1>4. r.route = None => r = Idle /\ Idle.bearer = None
    BY <1>1 DEF Lawful, Idle
  <1>5. \A steps : Past(n, steps) <=> Past(r, steps)
    BY <1>3 DEF Past
  <1>6. n.route # None => n.replica \in Replicas /\ n.at \in 1 .. Len(n.route.chain)
    BY <1>1, <1>3 DEF Lawful
  <1>7. Past(n, {"auth", "jake"}) => Vouched(n, tokens)
    BY <1>1, <1>3, <1>5 DEF Lawful, Vouched
  <1>8. Past(n, {"state"}) => Current(n)
    BY <1>1, <1>3, <1>5 DEF Lawful, Current
  <1>9. n.uid # None => n.bearer \in tokens /\ n.uid = n.bearer.user /\ n.tenant = n.bearer.tenant
    BY <1>1, <1>3 DEF Lawful
  <1>10. \A g \in Permissions : Past(n, {g}) => g \in n.perms
    BY <1>1, <1>3, <1>5 DEF Lawful
  <1>11. Past(n, {"user"}) => n.uid # None
    BY <1>1, <1>2, <1>3, <1>5, Constants DEF Lawful
  <1>12. n.stale => n.bearer \in tokens /\ (n.bearer.type = "access" => n.bearer \in Gone)
    BY <1>1, <1>3 DEF Lawful
  <1>13. Lawful(n, tokens, Gone)
    BY <1>3, <1>4, <1>6, <1>7, <1>8, <1>9, <1>10, <1>11, <1>12 DEF Lawful
  <1> QED BY <1>3, <1>13

-----------------------------------------------------------------------------
(* The gates keep the invariant *)

LEMMA StepAuth == ASSUME Inv, NEW p \in Requests, AuthMiddleware(p) PROVE Inv'
  <1> DEFINE open == Verified(p, req[p].bearer, "access")
             n == Bound(p)
  <1>1. Gate(p, open, n) /\ UNCHANGED <<scene, now, ahead, identity>>
    BY DEF AuthMiddleware, world
  <1>2. req[p].route # None /\ req[p].route.chain[req[p].at] = "auth"
    BY DEF AuthMiddleware, At
  <1>3. ASSUME open
        PROVE  Lawful(n, tokens, Gone) /\ n.route = req[p].route /\ Fit(n, tokens)
    <2>1. req[p].bearer # None /\ req[p].bearer.type = "access"
      BY <1>3 DEF Verified
    <2>2. /\ Lawful(n, tokens, Gone) /\ n.tenant = n.bearer.tenant /\ n.bearer = req[p].bearer
          /\ n.route = req[p].route /\ n.at = req[p].at
      BY <2>1, Rebinds
    <2>3. n.bearer \in tokens
      BY <2>1, <2>2, Asked
    <2> HIDE DEF n
    <2>4. Fit(n, tokens)
      BY <1>2, <2>1, <2>2, <2>3 DEF Fit, Vouched, Permissions
    <2> QED BY <2>2, <2>4
  <1> HIDE DEF open, n
  <1> QED BY <1>1, <1>2, <1>3, Gates

LEMMA StepPending == ASSUME Inv, NEW p \in Requests, MFAPendingMiddleware(p) PROVE Inv'
  <1> DEFINE open == Verified(p, req[p].bearer, "mfa_pending")
             n == [Bound(p) EXCEPT !.uid = req[p].bearer.user]
  <1>1. Gate(p, open, n) /\ UNCHANGED <<scene, now, ahead, identity>>
    BY DEF MFAPendingMiddleware, world
  <1>2. req[p].route # None /\ req[p].route.chain[req[p].at] = "pending"
    BY DEF MFAPendingMiddleware, At
  <1>3. ASSUME open
        PROVE  Lawful(n, tokens, Gone) /\ n.route = req[p].route /\ Fit(n, tokens)
    <2>1. req[p].bearer # None
      BY <1>3 DEF Verified
    <2>2. Lawful(n, tokens, Gone) /\ n.route = req[p].route /\ n.at = req[p].at
      BY <2>1, Rebinds
    <2> HIDE DEF n
    <2>3. Fit(n, tokens)
      BY <1>2, <2>2 DEF Fit, Permissions
    <2> QED BY <2>2, <2>3
  <1> HIDE DEF open, n
  <1> QED BY <1>1, <1>2, <1>3, Gates

\* A check that leaves the request as it is.
LEMMA Checked ==
  ASSUME Inv, NEW p \in Requests, NEW steps, At(p, steps), NEW open, Gate(p, open, req[p]),
         open => Fit(req[p], tokens), UNCHANGED <<scene, now, ahead, identity>>
  PROVE  Inv'
  <1>1. req[p].route # None /\ Lawful(req[p], tokens, Gone)
    BY Asked DEF At
  <1> QED BY <1>1, Gates

LEMMA StepSudo == ASSUME Inv, NEW p \in Requests, SudoMiddleware(p) PROVE Inv'
  <1>1. At(p, {"sudo"}) /\ Gate(p, Elevated(p), req[p]) /\ UNCHANGED <<scene, now, ahead, identity>>
    BY DEF SudoMiddleware, world
  <1>2. Fit(req[p], tokens)
    BY <1>1 DEF At, Fit, Permissions
  <1> QED BY <1>1, <1>2, Checked

LEMMA StepPermission == ASSUME Inv, NEW p \in Requests, RequirePermission(p) PROVE Inv'
  <1> DEFINE open == req[p].uid # None /\ Step(p) \in req[p].perms
  <1>1. At(p, Permissions) /\ Gate(p, open, req[p]) /\ UNCHANGED <<scene, now, ahead, identity>>
    BY DEF RequirePermission, world
  <1>2. open => Fit(req[p], tokens)
    BY <1>1 DEF At, Fit, Permissions, Step
  <1> HIDE DEF open
  <1> QED BY <1>1, <1>2, Checked

LEMMA StepJake == ASSUME Inv, NEW p \in Requests, VerifyForJake(p) PROVE Inv'
  <1> DEFINE t == req[p].bearer
             open == IF t = None THEN FALSE
                     ELSE /\ VerifyAccessV1(keys, Clock(req[p].replica), t, JakeAudience)
                          /\ t.tenant = req[p].tenant
  <1>1. At(p, {"jake"}) /\ Gate(p, open, req[p]) /\ UNCHANGED <<scene, now, ahead, identity>>
    BY DEF VerifyForJake, world
  <1>2. ASSUME open PROVE Fit(req[p], tokens)
    <2>1. t \in tokens /\ t.type = "access" /\ req[p].tenant = t.tenant
      BY <1>2, Asked DEF VerifyAccessV1, validateAccess
    <2> QED BY <1>1, <2>1 DEF At, Fit, Permissions, Vouched
  <1> HIDE DEF open
  <1> QED BY <1>1, <1>2, Checked

LEMMA StepInput == ASSUME Inv, NEW p \in Requests, CheckInput(p) PROVE Inv'
  <1> DEFINE S == {"bind", "honeypot", "captcha", "cookie", "key", "quota"}
  <1>1. At(p, S) /\ UNCHANGED <<scene, now, ahead, identity>>
    BY DEF CheckInput, world
  <1>2. PICK o \in BOOLEAN : Gate(p, o /\ (Step(p) = "quota" => store), req[p])
    BY DEF CheckInput
  <1>3. Fit(req[p], tokens)
    BY <1>1 DEF At, Fit, Permissions
  <1> QED BY <1>1, <1>2, <1>3, Checked

LEMMA StepUser == ASSUME Inv, NEW p \in Requests, ctxUserID(p) PROVE Inv'
  <1> DEFINE open == req[p].uid # None
  <1>1. At(p, {"user"}) /\ Gate(p, open, req[p]) /\ UNCHANGED <<scene, now, ahead, identity>>
    BY DEF ctxUserID, world
  <1>2. open => Fit(req[p], tokens)
    BY <1>1 DEF At, Fit, Permissions
  <1> HIDE DEF open
  <1> QED BY <1>1, <1>2, Checked

LEMMA StepRate == ASSUME Inv, NEW p \in Requests, RateLimit(p) PROVE Inv'
  <1>1. At(p, {"rate"}) /\ UNCHANGED <<scene, now, ahead, identity>>
    BY DEF RateLimit, world
  <1>2. PICK o : Gate(p, o, req[p])
    BY DEF RateLimit
  <1>3. Fit(req[p], tokens)
    BY <1>1 DEF At, Fit, Permissions
  <1> QED BY <1>1, <1>2, <1>3, Checked

LEMMA StepCluster == ASSUME Inv, NEW p \in Requests, TOTPCluster(p) PROVE Inv'
  <1> DEFINE open == permits[req[p].replica] > 0
             n == [req[p] EXCEPT !.holds = TRUE]
  <1>1. UNCHANGED <<scene, now, ahead, identity>>
    BY DEF TOTPCluster, world
  <1>2. req[p].route # None /\ req[p].route.chain[req[p].at] = "totp"
    BY DEF TOTPCluster, At
  <1>3. Lawful(req[p], tokens, Gone) /\ req[p] \in Shape(tokens)
    BY Asked
  <1>4. /\ n \in Shape(tokens) /\ n.route = req[p].route /\ n.at = req[p].at
        /\ n.replica = req[p].replica /\ n.bearer = req[p].bearer /\ n.tenant = req[p].tenant
        /\ n.uid = req[p].uid /\ n.perms = req[p].perms /\ n.stale = req[p].stale
        /\ n.seen = req[p].seen
    <2> DEFINE r == req[p]
    <2> HIDE DEF r
    <2>1. PICK x \in BOOLEAN : n = [r EXCEPT !.holds = x] /\ r \in Shape(tokens)
      BY <1>3 DEF r
    <2> HIDE DEF n
    <2>2. /\ n \in Shape(tokens) /\ n.route = r.route /\ n.at = r.at
          /\ n.replica = r.replica /\ n.bearer = r.bearer /\ n.tenant = r.tenant
          /\ n.uid = r.uid /\ n.perms = r.perms /\ n.stale = r.stale /\ n.seen = r.seen
      BY <2>1, SMT DEF Shape
    <2> QED BY <2>2 DEF r
  <1> HIDE DEF n
  <1>5. \A steps : Past(n, steps) <=> Past(req[p], steps)
    BY <1>4 DEF Past
  <1>6. Lawful(n, tokens, Gone)
    BY <1>2, <1>3, <1>4, <1>5 DEF Lawful, Vouched, Current
  <1>7. Fit(n, tokens)
    BY <1>2, <1>4 DEF Fit, Permissions
  <1>8. req[p].route \in scene.routes \cup {None}
    BY DEF Inv
  <1>9. CASE open
    <2>1. req' = [req EXCEPT ![p] = Onward(n)]
      BY <1>9 DEF TOTPCluster, Pass, Onward, n
    <2>2. Lawful(Onward(n), tokens, Gone) /\ Onward(n).route = req[p].route
      BY <1>2, <1>4, <1>6, <1>7, GoesOn
    <2> QED BY <1>1, <1>8, <2>1, <2>2, Moves
  <1>10. CASE ~open
    <2>1. req' = [req EXCEPT ![p] = Idle] /\ Idle.route = None
      BY <1>10 DEF TOTPCluster, Answer, Idle
    <2> QED BY <1>1, <2>1, IdleLawful, Moves
  <1> QED BY <1>9, <1>10

\* A request that is past a gate is past what its chain has before the gate.
LEMMA InOrderSoFar ==
  ASSUME NEW T, NEW D, NEW r, Lawful(r, T, D), r.route # None
  PROVE  /\ r.route.chain[r.at] = "state" => Past(r, {"auth", "jake"})
         /\ \A g \in Permissions : Past(r, {g}) => Past(r, {"state"})
         /\ Past(r, {"state"}) => Past(r, {"auth", "jake"})
         /\ r.route.chain[r.at] = "service" =>
              /\ \A step : step # "service" /\ Passes(r.route, step) => Past(r, {step})
              /\ "sudo" \in r.route.effects => Past(r, {"user"})
  <1> DEFINE c == r.route.chain
  <1>1. r.at \in 1 .. Len(c) /\ r.route \in Routes
    BY DEF Lawful, Shape
  <1>2. InOrder(c, r.route.effects)
    BY <1>1, RoutesOrdered DEF Ordered
  <1>3. Len(c) \in Nat /\ c \in Seq(Steps) /\ DOMAIN c = 1 .. Len(c) /\ r.at \in Nat
    BY <1>1, <1>2, SMT DEF InOrder
  <1>4. \A i \in 1 .. r.at - 1 : i \in 1 .. Len(c) /\ \A j \in 1 .. i - 1 : j \in 1 .. r.at - 1
    BY <1>1, <1>3, SMT
  <1>5. c[r.at] = "state" => Past(r, {"auth", "jake"})
    BY <1>1, <1>2 DEF InOrder, Past
  <1>6. \A g \in Permissions : Past(r, {g}) => Past(r, {"state"})
    <2>1. ASSUME NEW g \in Permissions, NEW i \in 1 .. r.at - 1, c[i] = g
          PROVE  \E j \in 1 .. r.at - 1 : c[j] = "state"
      <3>1. i \in 1 .. Len(c) /\ c[i] \in Permissions
        BY <1>4, <2>1
      <3>2. \E j \in 1 .. i - 1 : c[j] = "state"
        BY <1>2, <3>1 DEF InOrder
      <3> QED BY <1>4, <3>2
    <2> QED BY <2>1 DEF Past
  <1>7. Past(r, {"state"}) => Past(r, {"auth", "jake"})
    BY <1>2, <1>4 DEF InOrder, Past
  <1>8. ASSUME c[r.at] = "service"
        PROVE  /\ \A step : step # "service" /\ Passes(r.route, step) => Past(r, {step})
               /\ "sudo" \in r.route.effects => Past(r, {"user"})
    <2>1. r.at = Len(c)
      BY <1>1, <1>2, <1>8 DEF InOrder
    <2>2. \A i \in 1 .. Len(c) : i = Len(c) \/ i \in 1 .. Len(c) - 1
      BY <1>3, SMT
    <2>3. ASSUME NEW step, step # "service", Passes(r.route, step) PROVE Past(r, {step})
      <3>1. PICK i \in 1 .. Len(c) : c[i] = step
        BY <1>3, <2>3 DEF Passes
      <3>2. i # Len(c)
        BY <1>2, <2>3, <3>1 DEF InOrder
      <3> QED BY <2>1, <2>2, <3>1, <3>2 DEF Past
    <2>4. "sudo" \in r.route.effects => Past(r, {"user"})
      BY <1>2, <2>1 DEF InOrder, Past
    <2> QED BY <2>3, <2>4
  <1> QED BY <1>5, <1>6, <1>7, <1>8

LEMMA StepState == ASSUME Inv, NEW p \in Requests, CheckState(p) PROVE Inv'
  <1> DEFINE r == req[p]
             t == r.bearer
             n == [r EXCEPT !.uid = t.user, !.perms = t.perms, !.seen = grants[t.user]]
  <1>1. UNCHANGED <<scene, now, ahead, identity>>
    BY DEF CheckState, world
  <1>2. r.route # None /\ r.route.chain[r.at] = "state"
    BY DEF CheckState, At
  <1>3. PICK answered : Gate(p, answered /\ ~Inactive(t), n)
    BY DEF CheckState
  <1>4. Lawful(r, tokens, Gone) /\ r \in Shape(tokens)
    BY Asked
  <1>5. Past(r, {"auth", "jake"}) /\ \A g \in Permissions : Past(r, {g}) => Past(r, {"state"})
    BY <1>2, <1>4, InOrderSoFar
  <1>6. Vouched(r, tokens)
    BY <1>4, <1>5 DEF Lawful
  <1>7. t \in tokens /\ t \in AnyToken /\ t.type = "access" /\ r.tenant = t.tenant
    BY <1>6, Asked DEF Vouched
  <1>8. t.user \in Users /\ t.perms \in SUBSET Grants /\ grants[t.user] \in SUBSET Grants
    BY <1>7 DEF AnyToken, Inv, World
  <1>9. /\ n \in Shape(tokens) /\ n.route = r.route /\ n.at = r.at /\ n.replica = r.replica
        /\ n.bearer = r.bearer /\ n.tenant = r.tenant /\ n.uid = t.user /\ n.perms = t.perms
        /\ n.stale = r.stale /\ n.seen = grants[t.user]
    <2> DEFINE g == grants[t.user]
               u == t.user
               h == t.perms
               a == [r EXCEPT !.uid = u]
               b == [a EXCEPT !.perms = h]
    <2> HIDE DEF r, t, g, u, h
    <2>1. /\ a \in Shape(tokens) /\ a.route = r.route /\ a.at = r.at /\ a.replica = r.replica
          /\ a.bearer = r.bearer /\ a.tenant = r.tenant /\ a.uid = u /\ a.stale = r.stale
      BY <1>4, <1>8, SMT DEF Shape, u
    <2> HIDE DEF a
    <2>2. /\ b \in Shape(tokens) /\ b.route = r.route /\ b.at = r.at /\ b.replica = r.replica
          /\ b.bearer = r.bearer /\ b.tenant = r.tenant /\ b.uid = u /\ b.stale = r.stale
          /\ b.perms = h
      BY <1>8, <2>1, SMT DEF Shape, h
    <2>3. n = [b EXCEPT !.seen = g]
      BY DEF a, u, g, h
    <2> HIDE DEF n, b
    <2>4. /\ n \in Shape(tokens) /\ n.route = r.route /\ n.at = r.at /\ n.replica = r.replica
          /\ n.bearer = r.bearer /\ n.tenant = r.tenant /\ n.uid = u /\ n.stale = r.stale
          /\ n.perms = h /\ n.seen = g
      BY <1>8, <2>2, <2>3, SMT DEF Shape, g
    <2> QED BY <2>4 DEF u, g, h
  <1> HIDE DEF n
  <1>10. \A steps : Past(n, steps) <=> Past(r, steps)
    BY <1>9 DEF Past
  <1>11. ASSUME ~Inactive(t)
         PROVE  Lawful(n, tokens, Gone) /\ n.route = r.route /\ Fit(n, tokens)
    <2>1. ~Dead(t)
      <3>1. CASE t \in over
        <4>1. Void(t) /\ t.ver \in Nat /\ ver[t.user] \in Nat
          BY <1>7, <1>8, <3>1 DEF Inv, Ended, AnyToken
        <4>2. ~(t.ver < ver[t.user]) \/ t.ver # ver[t.user]
          BY <4>1, SMT
        <4> QED BY <1>11, <4>1, <4>2 DEF Inactive, Void
      <3> QED BY <1>11, <3>1 DEF Inactive, Dead
    <2>2. ~r.stale
      BY <1>4, <1>7, <2>1 DEF Lawful, Gone
    <2>3. Current(n)
      BY <1>9, <1>11, <2>2 DEF Current, Inactive
    <2>4. n.route # None => n.replica \in Replicas /\ n.at \in 1 .. Len(n.route.chain)
      BY <1>4, <1>9 DEF Lawful
    <2>5. Vouched(n, tokens)
      BY <1>6, <1>9 DEF Vouched
    <2>6. n.bearer \in tokens /\ n.uid = n.bearer.user /\ n.tenant = n.bearer.tenant
      BY <1>7, <1>9
    <2>7. n.uid # None
      BY <1>8, <1>9, Constants
    <2>8. \A g \in Permissions : Past(n, {g}) => g \in n.perms
      BY <1>4, <1>5, <1>9, <1>10 DEF Lawful, Current
    <2>9. Lawful(n, tokens, Gone)
      BY <1>2, <1>9, <2>2, <2>3, <2>4, <2>5, <2>6, <2>7, <2>8 DEF Lawful
    <2>10. Fit(n, tokens)
      BY <1>2, <1>9, <2>3 DEF Fit, Permissions
    <2> QED BY <1>9, <2>9, <2>10
  <1> QED BY <1>1, <1>2, <1>3, <1>11, Gates

LEMMA Arrivals ==
  ASSUME NEW p \in Requests, Arrive(p)
  PROVE  \E route \in scene.routes, c \in Replicas, tenant \in Tenants,
            bearer \in tokens \cup {None}, sudo \in tokens \cup {None} :
           req' = [req EXCEPT ![p] = Asking(route, c, tenant, bearer, sudo)]
  <1>1. PICK route \in scene.routes, c \in Replicas, tenant \in Tenants :
        \E bearer \in {None} \cup
               {t \in tokens : \E g \in {"auth", "pending", "jake"} : Passes(route, g)} :
        \E sudo \in {None} \cup {t \in tokens : Passes(route, "sudo")} :
          req' = [req EXCEPT ![p] = Asking(route, c, tenant, bearer, sudo)]
    BY DEF Arrive
  <1> QED BY <1>1

LEMMA StepArrive == ASSUME Inv, NEW p \in Requests, Arrive(p) PROVE Inv'
  <1>1. UNCHANGED <<scene, now, ahead, identity>>
    BY DEF Arrive
  <1>3. PICK route \in scene.routes, c \in Replicas, tenant \in Tenants,
             bearer \in tokens \cup {None}, sudo \in tokens \cup {None} :
          req' = [req EXCEPT ![p] = Asking(route, c, tenant, bearer, sudo)]
    BY Arrivals
  <1> DEFINE stale == IF bearer = None THEN FALSE ELSE Dead(bearer)
             n == Asking(route, c, tenant, bearer, sudo)
  <1>4. stale \in BOOLEAN
    BY DEF Dead
  <1>5. stale => bearer \in tokens /\ (bearer.type = "access" => bearer \in Gone)
    BY DEF Gone
  <1>6. route \in Routes
    BY ScenesAssumption DEF Inv, World
  <1>6a. route # None
    BY <1>6, ScenesAssumption
  <1>7. InOrder(route.chain, route.effects)
    BY <1>6, RoutesOrdered DEF Ordered
  <1>8. 1 \in 1 .. Len(route.chain)
    BY <1>7, SMT DEF InOrder
  <1> HIDE DEF stale
  <1>9. /\ n \in Shape(tokens) /\ n.route = route /\ n.at = 1 /\ n.replica = c
        /\ n.bearer = bearer /\ n.uid = None /\ n.stale = stale
    <2>1. n = [route |-> route, at |-> 1, replica |-> c, bearer |-> bearer, sudo |-> sudo,
               tenant |-> tenant, uid |-> None, perms |-> {}, stale |-> stale, seen |-> {},
               holds |-> FALSE]
      BY DEF Asking, stale
    <2> HIDE DEF n
    <2> QED BY <1>4, <1>6, <2>1, SMT DEF Shape
  <1>10. req' = [req EXCEPT ![p] = n]
    BY <1>3
  <1> HIDE DEF n
  <1>11. \A j : j \notin 1 .. 1 - 1
    BY SMT
  <1>12. \A steps : ~Past(n, steps)
    BY <1>9, <1>11 DEF Past
  <1>13. Lawful(n, tokens, Gone)
    BY <1>5, <1>6a, <1>8, <1>9, <1>12 DEF Lawful
  <1>14. n.route \in scene.routes \cup {None}
    BY <1>9
  <1> QED BY <1>1, <1>10, <1>13, <1>14, Moves

-----------------------------------------------------------------------------
(* Tokens *)

LEMMA Clocks ==
  ASSUME Inv, NEW r \in Replicas
  PROVE  Clock(r) \in Nat /\ now <= Clock(r) /\ Clock(r) <= now + MaxSkew
  <1>1. now \in Nat /\ ahead[r] \in 0 .. MaxSkew /\ MaxSkew \in Nat
    BY Constants DEF Inv, World
  <1> QED BY <1>1, SMT DEF Clock

LEMMA Claims ==
  ASSUME NEW k, k.current \in Nat, NEW clock \in Nat, NEW jti \in Nat, NEW u \in Users,
         NEW type \in DOMAIN TTL, NEW b, b = baseClaims(k, clock, jti, u, Tenant[u], type)
  PROVE  /\ b \in AnyToken /\ b.type = type /\ b.user = u /\ b.tenant = Tenant[u]
         /\ b.key = k.current /\ b.iat = clock /\ b.exp = clock + TTL[type]
         /\ b.epoch = 0 /\ b.ver = 0
  <1> DEFINE e == clock + TTL[type]
             n == Tenant[u]
  <1>1. n \in Tenants
    BY DEF Tenants
  <1>2. TTL[type] \in Nat
    BY Constants
  <1>3. e \in Nat
    BY <1>2, SMT
  <1>4. b = [type |-> type, jti |-> jti, user |-> u, tenant |-> n, key |-> k.current,
             iat |-> clock, exp |-> e, ver |-> 0, epoch |-> 0, sid |-> 0, perms |-> {}, aud |-> {}]
    BY DEF baseClaims
  <1> HIDE DEF e, n
  <1>5. /\ b \in AnyToken /\ b.type = type /\ b.user = u /\ b.tenant = n
        /\ b.key = k.current /\ b.iat = clock /\ b.exp = e /\ b.epoch = 0 /\ b.ver = 0
    BY <1>1, <1>3, <1>4, SMT DEF AnyToken
  <1> QED BY <1>5 DEF e, n

LEMMA Issued ==
  ASSUME NEW k, k.current \in Nat, NEW clock \in Nat, NEW jti \in Nat, NEW u \in Users,
         NEW type \in DOMAIN TTL, NEW t, t = Issue(k, clock, jti, u, Tenant[u], type)
  PROVE  /\ t \in AnyToken /\ t.type = type /\ t.user = u /\ t.tenant = Tenant[u]
         /\ t.iat = clock /\ t.exp = clock + TTL[type] /\ t.epoch = 0 /\ t.ver = 0
  <1> DEFINE b == baseClaims(k, clock, jti, u, Tenant[u], type)
             a == {type}
  <1>1. /\ b \in AnyToken /\ b.type = type /\ b.user = u /\ b.tenant = Tenant[u]
        /\ b.iat = clock /\ b.exp = clock + TTL[type] /\ b.epoch = 0 /\ b.ver = 0
    BY Claims, SMT
  <1>2. t = [b EXCEPT !.aud = a] /\ a \subseteq {FinnAudience, JakeAudience} \cup DOMAIN TTL
    BY DEF Issue
  <1> HIDE DEF b, a
  <1>3. /\ t \in AnyToken /\ t.type = b.type /\ t.user = b.user /\ t.tenant = b.tenant
        /\ t.iat = b.iat /\ t.exp = b.exp /\ t.epoch = b.epoch /\ t.ver = b.ver
    BY <1>1, <1>2, SMT DEF AnyToken
  <1> QED BY <1>1, <1>3

AccessFor(t, key, clock, u, v, n, g) ==
  /\ t \in AnyToken /\ t.type = "access" /\ t.user = u /\ t.tenant = Tenant[u]
  /\ t.key = key /\ t.iat = clock /\ t.exp = clock + TTL["access"]
  /\ t.ver = v /\ t.epoch = n /\ t.perms = g
  /\ FinnAudience \in t.aud /\ t.aud \subseteq {FinnAudience, JakeAudience}

LEMMA IssuedAccess ==
  ASSUME NEW k, k.current \in Nat, NEW clock \in Nat, NEW jti \in Nat, NEW u \in Users,
         NEW v \in Nat, NEW n \in Nat, NEW sid \in Nat, NEW g \in SUBSET Grants, NEW t,
         t = IssueAccessV1(k, clock, jti, u, Tenant[u], v, n, sid, g)
  PROVE  AccessFor(t, k.current, clock, u, v, n, g)
  <1> DEFINE b == baseClaims(k, clock, jti, u, Tenant[u], "access")
             a == {FinnAudience} \cup IF "chat:read" \in g THEN {JakeAudience} ELSE {}
             x == [b EXCEPT !.ver = v]
             c == [x EXCEPT !.epoch = n]
             y == [c EXCEPT !.sid = sid]
             d == [y EXCEPT !.perms = g]
  <1>1. "access" \in DOMAIN TTL
    BY Constants
  <1>2. /\ b \in AnyToken /\ b.type = "access" /\ b.user = u /\ b.tenant = Tenant[u]
        /\ b.key = k.current /\ b.iat = clock /\ b.exp = clock + TTL["access"]
    BY <1>1, Claims, SMT
  <1>3. t = [d EXCEPT !.aud = a] /\ FinnAudience \in a /\ a \subseteq {FinnAudience, JakeAudience}
    BY DEF IssueAccessV1
  <1>4. a \subseteq {FinnAudience, JakeAudience} \cup DOMAIN TTL
    BY <1>3
  <1> HIDE DEF b, a
  <1>5. /\ x \in AnyToken /\ x.type = b.type /\ x.user = b.user /\ x.tenant = b.tenant
        /\ x.key = b.key /\ x.iat = b.iat /\ x.exp = b.exp /\ x.ver = v
    BY <1>2, SMT DEF AnyToken
  <1> HIDE DEF x
  <1>6. /\ c \in AnyToken /\ c.type = b.type /\ c.user = b.user /\ c.tenant = b.tenant
        /\ c.key = b.key /\ c.iat = b.iat /\ c.exp = b.exp /\ c.ver = v /\ c.epoch = n
    BY <1>5, SMT DEF AnyToken
  <1> HIDE DEF c
  <1>7. /\ y \in AnyToken /\ y.type = b.type /\ y.user = b.user /\ y.tenant = b.tenant
        /\ y.key = b.key /\ y.iat = b.iat /\ y.exp = b.exp /\ y.ver = v /\ y.epoch = n
    BY <1>6, SMT DEF AnyToken
  <1> HIDE DEF y
  <1>8. /\ d \in AnyToken /\ d.type = b.type /\ d.user = b.user /\ d.tenant = b.tenant
        /\ d.key = b.key /\ d.iat = b.iat /\ d.exp = b.exp /\ d.ver = v /\ d.epoch = n
        /\ d.perms = g
    BY <1>7, SMT DEF AnyToken
  <1> HIDE DEF d
  <1>9. /\ t \in AnyToken /\ t.type = b.type /\ t.user = b.user /\ t.tenant = b.tenant
        /\ t.key = b.key /\ t.iat = b.iat /\ t.exp = b.exp /\ t.ver = v /\ t.epoch = n
        /\ t.perms = g /\ t.aud = a
    BY <1>3, <1>4, <1>8, SMT DEF AnyToken
  <1> QED BY <1>2, <1>3, <1>9 DEF AccessFor

LEMMA Turns ==
  ASSUME Inv, World', Ended', tokens \subseteq tokens', Gone \subseteq Gone', scene' = scene,
         \A t \in tokens' : Sane(t)', \A q \in Requests : req'[q] \in {req[q], Idle}
  PROVE  Inv'
  <1>1. Lawful(Idle, tokens', Gone') /\ Idle.route = None
    BY IdleLawful DEF Idle
  <1>2. \A q \in Requests : \/ req'[q] = req[q]
                            \/ /\ Lawful(req'[q], tokens', Gone')
                               /\ req'[q].route \in scene.routes \cup {None}
    BY <1>1
  <1> QED BY <1>2, Stays

LEMMA Leaves ==
  ASSUME Inv, NEW p \in Requests, req' = [req EXCEPT ![p] = Idle]
  PROVE  DOMAIN req' = Requests /\ \A q \in Requests : req'[q] \in {req[q], Idle}
  BY DEF Inv, World

LEMMA Mints ==
  ASSUME Inv, NEW p \in Requests, req' = [req EXCEPT ![p] = Idle],
         NEW t \in AnyToken, Sane(t)', t.ver <= ver[t.user], tokens' = tokens \cup {t},
         NEW u \in Users, proof' \in {proof, [proof EXCEPT ![u] = now]},
         UNCHANGED <<scene, now, ahead, keys, ended, epoch, grants>>
  PROVE  Inv'
  <1>1. World /\ Ended
    BY DEF Inv
  <1>2. DOMAIN req' = Requests /\ \A q \in Requests : req'[q] \in {req[q], Idle}
    BY Leaves
  <1>3. \A w \in Users : proof'[w] \in {proof[w], now}
    BY <1>1 DEF World
  <1>4. proof' \in [Users -> Nat \cup {None}]
    <2>1. CASE proof' = proof
      BY <1>1, <2>1 DEF World
    <2>2. CASE proof' = [proof EXCEPT ![u] = now]
      BY <1>1, <2>2 DEF World
    <2> QED BY <2>1, <2>2
  <1>5. World'
    <2>1. IsFiniteSet(tokens')
      BY <1>1, FS_AddElement DEF World
    <2> QED BY <1>1, <1>2, <1>4, <2>1 DEF World
  <1>6. Gone \subseteq Gone'
    BY DEF Gone, Dead, ended
  <1>7. ASSUME NEW x \in tokens PROVE Sane(x)'
    <2>1. x \in AnyToken /\ Sane(x)
      BY <1>1 DEF Inv, World
    <2>2. x.user \in Users
      BY <2>1 DEF AnyToken
    <2>3. x.type = "sudo" => proof'[x.user] # None /\ x.iat <= proof'[x.user] + MaxSkew
      BY <1>1, <1>3, <2>1, <2>2, Constants DEF World, Sane
    <2>4. Signed(x) => Signed(x)'
      BY DEF Signed, Clock
    <2> QED BY <2>1, <2>3, <2>4 DEF Sane
  <1>8. Ended'
    BY <1>1 DEF Ended, Void, ended
  <1> QED BY <1>2, <1>5, <1>6, <1>7, <1>8, Turns

\* Each of the tokens ts is ended by one of the writes.
Written(u, jtis, sids, bump, off, ts) ==
  \A t \in ts : \/ t \in jtis
                \/ t \in AccessOf(u) /\ (t.sid \in sids \/ bump = 1 \/ u \in off)

\* Whatever a service writes to end tokens, each of them is shown by a row.
LEMMA Ends ==
  ASSUME Inv, NEW p \in Requests, req' = [req EXCEPT ![p] = Idle],
         NEW u, NEW jtis, NEW sids, NEW bump \in 0 .. 1, NEW off, NEW ts,
         End(u, jtis, sids, bump, off, ts), UNCHANGED <<scene, now, ahead>>,
         Written(u, jtis, sids, bump, off, ts)
  PROVE  Inv'
  <1>1. /\ denied' = denied \cup jtis /\ closed' = [closed EXCEPT ![u] = @ \cup sids]
        /\ ver' = [ver EXCEPT ![u] = @ + bump] /\ active' = active \ off /\ over' = over \cup ts
        /\ UNCHANGED <<keys, tokens, epoch, grants, proof>>
    BY DEF End
  <1>2. DOMAIN req' = Requests /\ \A q \in Requests : req'[q] \in {req[q], Idle}
    BY Leaves
  <1>3. World'
    BY <1>1, <1>2 DEF Inv, World
  <1>4. Gone \subseteq Gone'
    BY <1>1 DEF Gone, Dead
  <1>5. \A t \in tokens' : Sane(t)'
    BY <1>1 DEF Inv, Sane, Signed, Clock
  <1>6. DOMAIN closed = Users /\ ver \in [Users -> Nat]
    BY DEF Inv, Ended
  <1>7. /\ DOMAIN closed' = Users /\ \A w \in Users : closed[w] \subseteq closed'[w]
        /\ u \in Users => sids \subseteq closed'[u]
    BY <1>1, <1>6
  <1>8. /\ ver' \in [Users -> Nat] /\ \A w \in Users : ver[w] <= ver'[w]
        /\ u \in Users /\ bump = 1 => ver'[u] = ver[u] + 1
    <2>1. \A w \in Users : ver'[w] = IF w = u THEN ver[w] + bump ELSE ver[w]
      BY <1>1, <1>6
    <2>2. \A n \in Nat : n + bump \in Nat /\ n <= n + bump /\ n <= n
      BY SMT
    <2>3. \A w \in Users : ver'[w] \in Nat /\ ver[w] <= ver'[w]
      BY <1>6, <2>1, <2>2
    <2>4. DOMAIN ver' = Users /\ ver' = [w \in Users |-> ver'[w]]
      BY <1>1, <1>6
    <2> QED BY <2>1, <2>3, <2>4
  <1>9. ASSUME NEW t \in tokens
        PROVE  /\ t.user \in Users /\ t.ver <= ver'[t.user]
               /\ t.ver < ver[t.user] => t.ver < ver'[t.user]
               /\ t.user = u /\ bump = 1 => t.ver < ver'[t.user]
    <2>1. t \in AnyToken /\ t.ver <= ver[t.user]
      BY DEF Inv, World, Ended
    <2>2. t.user \in Users /\ t.ver \in Nat
      BY <2>1 DEF AnyToken
    <2> QED BY <1>6, <1>8, <2>1, <2>2, SMT
  <1>10. ASSUME NEW t \in over PROVE Void(t)'
    <2>1. Void(t)
      BY DEF Inv, Ended
    <2> QED BY <1>1, <1>7, <1>9, <2>1 DEF Void
  <1>11. ASSUME NEW t \in ts PROVE Void(t)'
    BY <1>1, <1>7, <1>9 DEF Void, AccessOf, Written
  <1>12. Ended'
    BY <1>1, <1>7, <1>8, <1>9, <1>10, <1>11 DEF Ended
  <1> QED BY <1>1, <1>2, <1>3, <1>4, <1>5, <1>12, Turns

LEMMA EndsSession ==
  ASSUME Inv, NEW p \in Requests, req' = [req EXCEPT ![p] = Idle], UNCHANGED <<scene, now, ahead>>,
         NEW u, NEW jtis, NEW sids, EndSession(u, jtis, sids)
  PROVE  Inv'
  <1> DEFINE ts == jtis \cup {t \in AccessOf(u) : t.sid \in sids}
             off == {}
  <1>0. PICK bump \in 0 .. 1 : bump = 0
    BY SMT
  <1>1. End(u, jtis, sids, bump, off, ts)
    BY <1>0 DEF EndSession
  <1>2. Written(u, jtis, sids, bump, off, ts)
    BY DEF Written
  <1> HIDE DEF ts, off
  <1> QED BY <1>1, <1>2, Ends

LEMMA EndsAll ==
  ASSUME Inv, NEW p \in Requests, req' = [req EXCEPT ![p] = Idle], UNCHANGED <<scene, now, ahead>>,
         NEW u, NEW sids, NEW bump \in 0 .. 1, NEW off, End(u, {}, sids, bump, off, AccessOf(u)),
         sids = Sids(u) \/ bump = 1 \/ u \in off
  PROVE  Inv'
  <1>1. Written(u, {}, sids, bump, off, AccessOf(u))
    BY DEF Written, Sids
  <1> QED BY <1>1, Ends

\* The tokens a service issues, at the clock of the request's replica.
LEMMA MintsSane ==
  ASSUME Inv, NEW r \in Replicas, NEW u \in Users,
         UNCHANGED <<now, ahead, keys, epoch, grants>>
  PROVE  /\ \A sid \in Nat : \A t :
              t = IssueAccessV1(keys, Clock(r), Fresh, u, Tenant[u], ver[u], epoch[u], sid, grants[u])
                => t \in AnyToken /\ Sane(t)' /\ t.ver <= ver[t.user]
         /\ \A type \in {"mfa_pending", "verify-email"} : \A t :
              t = Issue(keys, Clock(r), Fresh, u, Tenant[u], type)
                => t \in AnyToken /\ Sane(t)' /\ t.ver <= ver[t.user]
         /\ \A t : t = Issue(keys, Clock(r), Fresh, u, Tenant[u], "sudo") /\ proof'[u] = now
                => t \in AnyToken /\ Sane(t)' /\ t.ver <= ver[t.user]
  <1>1. Clock(r) \in Nat /\ now <= Clock(r) /\ Clock(r) <= now + MaxSkew
    BY Clocks
  <1>2. /\ keys.current \in Nat /\ epoch[u] \in Nat /\ grants[u] \in SUBSET Grants /\ now \in Nat
        /\ ver[u] \in Nat
    BY DEF Inv, World, Ended
  <1>f. Fresh \in Nat
    BY FS_CardinalityType DEF Inv, World, Fresh
  <1>3. {"access", "mfa_pending", "verify-email", "sudo"} \subseteq DOMAIN TTL /\ now # None
    BY <1>2, Constants
  <1>4. ASSUME NEW sid \in Nat, NEW t,
               t = IssueAccessV1(keys, Clock(r), Fresh, u, Tenant[u], ver[u], epoch[u], sid, grants[u])
        PROVE  t \in AnyToken /\ Sane(t)' /\ t.ver <= ver[t.user]
    <2>1. /\ t \in AnyToken /\ t.type = "access" /\ t.user = u /\ t.tenant = Tenant[u]
          /\ t.key = keys.current /\ t.iat = Clock(r) /\ t.exp = Clock(r) + TTL["access"]
          /\ t.ver = ver[u] /\ t.epoch = epoch[u] /\ t.perms = grants[u]
          /\ FinnAudience \in t.aud /\ t.aud \subseteq {FinnAudience, JakeAudience}
      <3>1. AccessFor(t, keys.current, Clock(r), u, ver[u], epoch[u], grants[u])
        BY <1>1, <1>2, <1>f, <1>4, IssuedAccess
      <3> QED BY <3>1 DEF AccessFor
    <2>2. epoch[u] <= epoch[u] /\ ver[u] <= ver[u]
      BY <1>2, SMT
    <2>3. Signed(t)'
      BY <2>1 DEF Signed
    <2>4. /\ t.tenant = Tenant[t.user] /\ t.exp = t.iat + TTL[t.type] /\ t.iat <= now' + MaxSkew
          /\ t.epoch <= epoch'[t.user] /\ grants'[t.user] \subseteq t.perms
      BY <1>1, <2>1, <2>2
    <2> QED BY <2>1, <2>2, <2>3, <2>4 DEF Sane
  <1>5. ASSUME NEW type \in DOMAIN TTL, NEW t, t = Issue(keys, Clock(r), Fresh, u, Tenant[u], type)
        PROVE  /\ t \in AnyToken /\ t.type = type /\ t.user = u /\ t.tenant = Tenant[t.user]
               /\ t.exp = t.iat + TTL[t.type] /\ t.iat <= now' + MaxSkew
               /\ t.epoch <= epoch'[t.user] /\ t.ver <= ver[t.user]
    <2>1. /\ t \in AnyToken /\ t.type = type /\ t.user = u /\ t.tenant = Tenant[u]
          /\ t.iat = Clock(r) /\ t.exp = Clock(r) + TTL[type] /\ t.epoch = 0 /\ t.ver = 0
      BY <1>1, <1>2, <1>f, <1>5, Issued, SMT
    <2>2. 0 <= epoch[u] /\ 0 <= ver[u]
      BY <1>2, SMT
    <2> QED BY <1>1, <2>1, <2>2
  <1>6. ASSUME NEW type \in {"mfa_pending", "verify-email"}, NEW t,
               t = Issue(keys, Clock(r), Fresh, u, Tenant[u], type)
        PROVE  t \in AnyToken /\ Sane(t)' /\ t.ver <= ver[t.user]
    BY <1>3, <1>5, <1>6 DEF Sane
  <1>7. ASSUME NEW t, t = Issue(keys, Clock(r), Fresh, u, Tenant[u], "sudo"), proof'[u] = now
        PROVE  t \in AnyToken /\ Sane(t)' /\ t.ver <= ver[t.user]
    BY <1>3, <1>5, <1>7 DEF Sane
  <1> QED BY <1>4, <1>6, <1>7

-----------------------------------------------------------------------------
(* What the services and the rest of the world do *)

LEMMA StepServe == ASSUME Inv, NEW p \in Requests, Serve(p) PROVE Inv'
  <1> DEFINE r == req[p]
             c == r.replica
             access(u, sid) == IssueAccessV1(keys, Clock(c), Fresh, u, r.tenant, ver[u], epoch[u],
                                             sid, grants[u])
             purpose(u, type) == Issue(keys, Clock(c), Fresh, u, r.tenant, type)
  <1>1. /\ req' = [req EXCEPT ![p] = Idle] /\ UNCHANGED <<scene, now, ahead>>
        /\ r.route # None /\ r.route.chain[r.at] = "service"
    BY DEF Serve, Answer, world, At
  <1>2. Lawful(r, tokens, Gone) /\ r \in Shape(tokens)
    BY Asked
  <1>3. c \in Replicas
    BY <1>1, <1>2 DEF Lawful
  <1>4. CASE UNCHANGED identity
    <2>1. Lawful(Idle, tokens, Gone) /\ Idle.route \in scene.routes \cup {None}
      BY IdleLawful DEF Idle
    <2> QED BY <1>1, <1>4, <2>1, Moves
  <1>5. ASSUME NEW u \in Found(p), UNCHANGED proof, NEW t, Mint(t),
               \/ \E sid \in Nat : t = access(u, sid)
               \/ t = purpose(u, "mfa_pending") \/ t = purpose(u, "verify-email")
        PROVE  Inv'
    <2>1. u \in Users /\ r.tenant = Tenant[u]
      BY DEF Found
    <2>2. tokens' = tokens \cup {t} /\ UNCHANGED <<keys, ended, epoch, grants>>
      BY <1>5 DEF Mint
    <2>3. t \in AnyToken /\ Sane(t)' /\ t.ver <= ver[t.user]
      BY <1>1, <1>3, <1>5, <2>1, <2>2, MintsSane
    <2>4. proof' \in {proof, [proof EXCEPT ![u] = now]}
      BY <1>5
    <2> QED BY <1>1, <2>1, <2>2, <2>3, <2>4, Mints
  <1>6. ASSUME NEW e \in r.route.effects, Effect(p, e) PROVE Inv'
    <2>1. CASE e = "none" /\ UNCHANGED identity
      BY <1>4, <2>1
    <2>2. CASE /\ UNCHANGED proof
               /\ \/ \E u \in Found(p) : issueTokenPair(p, u, Fresh)
                  \/ \E u \in Found(p) : \E sid \in Sids(u) : issueTokenPair(p, u, sid)
      <3>1. Fresh \in Nat /\ \A u : Sids(u) \subseteq Nat
        <4>1. Fresh \in Nat
          BY FS_CardinalityType DEF Inv, World, Fresh
        <4> QED BY <4>1 DEF Inv, World, AnyToken, Sids, AccessOf
      <3>2. PICK u \in Found(p), sid \in Nat : issueTokenPair(p, u, sid)
        BY <2>2, <3>1
      <3>3. Mint(access(u, sid))
        BY <3>2 DEF issueTokenPair
      <3> HIDE DEF access, purpose
      <3> QED BY <1>5, <2>2, <3>3
    <2>3. CASE /\ UNCHANGED proof
               /\ \/ \E u \in Found(p) \cap active : Mint(purpose(u, "mfa_pending"))
                  \/ \E u \in Found(p) : Mint(purpose(u, "verify-email"))
      <3> HIDE DEF access, purpose
      <3> QED BY <1>5, <2>3
    <2>4. CASE /\ e = "sudo" /\ proof' = [proof EXCEPT ![r.uid] = now]
               /\ Mint(purpose(r.uid, "sudo"))
      <3>1. Past(r, {"user"})
        BY <1>1, <1>2, <1>6, <2>4, InOrderSoFar
      <3>2. /\ r.uid # None /\ r.bearer \in tokens
            /\ r.uid = r.bearer.user /\ r.tenant = r.bearer.tenant
        BY <1>2, <3>1 DEF Lawful
      <3>3. r.uid \in Users /\ r.tenant = Tenant[r.uid]
        BY <1>2, <3>2, Asked DEF Shape, Sane
      <3>4. PICK u \in Users : u = r.uid
        BY <3>3
      <3>5. PICK t : t = Issue(keys, Clock(c), Fresh, u, Tenant[u], "sudo")
        OBVIOUS
      <3>6. tokens' = tokens \cup {t} /\ UNCHANGED <<keys, ended, epoch, grants>>
        BY <2>4, <3>3, <3>4, <3>5 DEF Mint
      <3>7. proof' = [proof EXCEPT ![u] = now]
        BY <2>4, <3>4
      <3>8. proof'[u] = now
        BY <3>7 DEF Inv, World
      <3>9. t \in AnyToken /\ Sane(t)' /\ t.ver <= ver[t.user]
        BY <1>1, <1>3, <3>5, <3>6, <3>8, MintsSane
      <3>10. proof' \in {proof, [proof EXCEPT ![u] = now]}
        BY <3>7
      <3> QED BY <1>1, <3>6, <3>9, <3>10, Mints
    <2>5. CASE \E u, jtis, sids : EndSession(u, jtis, sids)
      BY <1>1, <2>5, EndsSession
    <2>6. CASE \E u, sids, off : \E bump \in 0 .. 1 :
                 /\ End(u, {}, sids, bump, off, AccessOf(u))
                 /\ sids = Sids(u) \/ bump = 1 \/ u \in off
      BY <1>1, <2>6, EndsAll
    <2>7. 0 \in 0 .. 1 /\ 1 \in 0 .. 1
      BY SMT
    <2>8. ASSUME NEW u, EndAll(u) PROVE Inv'
      BY <2>6, <2>7, <2>8 DEF EndAll
    <2>9. CASE e \in {"endPartly", "close", "bump"}
      <3> HIDE DEF access, purpose
      <3> QED BY <1>6, <2>6, <2>7, <2>8, <2>9 DEF Effect
    <2> QED BY <1>6, <2>1, <2>2, <2>3, <2>4, <2>5, <2>8, <2>9 DEF Effect
  <1> QED BY <1>4, <1>6 DEF Serve

LEMMA StepAssign == ASSUME Inv, NEW u \in Users, AssignRole(u) PROVE Inv'
  <1>1. World
    BY DEF Inv
  <1>2. UNCHANGED <<scene, now, ahead, keys, tokens, ended, proof, req>>
    BY DEF AssignRole, world
  <1>3. epoch' = [epoch EXCEPT ![u] = @ + 1]
    BY DEF AssignRole
  <1>4. PICK role \in scene.roles : grants' = [grants EXCEPT ![u] = @ \cup role]
    BY DEF AssignRole
  <1>5. role \subseteq Grants
    BY <1>1, ScenesAssumption DEF World
  <1>6. epoch \in [Users -> Nat] /\ grants \in [Users -> SUBSET Grants]
    BY <1>1 DEF World
  <1>7. epoch' \in [Users -> Nat] /\ grants' \in [Users -> SUBSET Grants]
    BY <1>3, <1>4, <1>5, <1>6, SMT
  <1>8. World'
    BY <1>1, <1>2, <1>7 DEF World
  <1>9. \A t \in tokens : \/ epoch'[t.user] = epoch[t.user] /\ grants'[t.user] = grants[t.user]
                          \/ t.epoch <= epoch'[t.user] /\ t.epoch # epoch'[t.user]
    <2> SUFFICES ASSUME NEW t \in tokens
                 PROVE  \/ epoch'[t.user] = epoch[t.user] /\ grants'[t.user] = grants[t.user]
                        \/ t.epoch <= epoch'[t.user] /\ t.epoch # epoch'[t.user]
      OBVIOUS
    <2>1. t \in AnyToken /\ t.epoch <= epoch[t.user]
      BY DEF Inv, World, Sane
    <2>2. t.user \in Users /\ t.epoch \in Nat
      BY <2>1 DEF AnyToken
    <2> QED BY <1>3, <1>4, <1>6, <2>1, <2>2, SMT
  <1>10. Gone \subseteq Gone'
    BY <1>2, <1>9 DEF Gone, Dead, ended
  <1>e. Ended'
    BY <1>2, Endless DEF Inv
  <1>11. ASSUME NEW t \in tokens PROVE Sane(t)'
    <2>1. Sane(t) /\ (Signed(t) => Signed(t)')
      BY <1>2 DEF Inv, Signed, Clock
    <2> QED BY <1>2, <1>9, <2>1 DEF Sane
  <1>12. \A q \in Requests : req'[q] \in {req[q], Idle}
    BY <1>2
  <1> QED BY <1>2, <1>8, <1>e, <1>10, <1>11, <1>12, Turns

LEMMA StepWithdraw == ASSUME Inv, NEW u \in Users, Withdraw(u) PROVE Inv'
  <1>1. World
    BY DEF Inv
  <1>2. UNCHANGED <<scene, now, ahead, keys, tokens, ended, epoch, proof, req>>
    BY DEF Withdraw, world
  <1>3. PICK g \in grants[u] : grants' = [grants EXCEPT ![u] = @ \ {g}]
    BY DEF Withdraw
  <1>4. grants \in [Users -> SUBSET Grants]
    BY <1>1 DEF World
  <1>5. grants' \in [Users -> SUBSET Grants] /\ \A w \in Users : grants'[w] \subseteq grants[w]
    BY <1>3, <1>4
  <1>6. World'
    BY <1>1, <1>2, <1>5 DEF World
  <1>7. Gone \subseteq Gone'
    <2> SUFFICES ASSUME NEW t \in Gone PROVE t \in Gone'
      OBVIOUS
    <2>1. t \in tokens /\ t.type = "access" /\ Dead(t) /\ t.user \in Users /\ Sane(t)
      BY <1>1 DEF Gone, Inv, World, AnyToken
    <2>2. CASE t \in over \/ t.epoch # epoch[t.user]
      BY <1>2, <2>1, <2>2 DEF Gone, Dead, ended
    <2>3. CASE t.epoch = epoch[t.user] /\ t.perms # grants[t.user]
      <3>1. grants[t.user] \subseteq t.perms
        BY <2>1, <2>3 DEF Sane
      <3>2. t.perms # grants'[t.user]
        BY <1>5, <2>1, <2>3, <3>1
      <3> QED BY <1>2, <2>1, <3>2 DEF Gone, Dead
    <2> QED BY <2>1, <2>2, <2>3 DEF Dead
  <1>e. Ended'
    BY <1>2, Endless DEF Inv
  <1>8. ASSUME NEW t \in tokens PROVE Sane(t)'
    <2>1. Sane(t) /\ (Signed(t) => Signed(t)') /\ t.user \in Users
      BY <1>1, <1>2 DEF Inv, Signed, Clock, World, AnyToken
    <2>2. grants'[t.user] \subseteq grants[t.user]
      BY <1>5, <2>1
    <2> QED BY <1>2, <2>1, <2>2 DEF Sane
  <1>9. \A q \in Requests : req'[q] \in {req[q], Idle}
    BY <1>2
  <1> QED BY <1>2, <1>6, <1>e, <1>7, <1>8, <1>9, Turns

LEMMA StepTick == ASSUME Inv, Tick PROVE Inv'
  <1>1. World
    BY DEF Inv
  <1>2. UNCHANGED <<scene, ahead, identity, req>> /\ now' = now + 1
    BY DEF Tick
  <1>3. UNCHANGED <<keys, tokens, ended, epoch, grants, proof>>
    BY <1>2 DEF identity
  <1>4. now \in Nat /\ now' \in Nat /\ MaxSkew \in Nat /\ ahead \in [Replicas -> 0 .. MaxSkew]
    BY <1>1, <1>2, Constants, SMT DEF World
  <1>5. World'
    BY <1>1, <1>2, <1>3, <1>4 DEF World
  <1>6. Gone \subseteq Gone' /\ Ended'
    <2>1. Gone \subseteq Gone'
      BY <1>3 DEF Gone, Dead, ended
    <2> QED BY <1>3, <2>1, Endless DEF Inv
  <1>7. ASSUME NEW t \in tokens PROVE Sane(t)'
    <2>1. Sane(t) /\ t \in AnyToken
      BY <1>1 DEF Inv, World
    <2>2. t.iat \in Nat /\ t.exp \in Nat
      BY <2>1 DEF AnyToken
    <2>3. t.iat <= now' + MaxSkew
      <3>1. t.iat <= now + MaxSkew
        BY <2>1 DEF Sane
      <3> QED BY <1>2, <1>4, <2>2, <3>1, SMT
    <2>4. \A r \in Replicas : t.exp + MaxSkew <= Clock(r) => t.exp + MaxSkew <= Clock(r)'
      BY <1>2, <1>4, <2>2, SMT DEF Clock
    <2>5. Signed(t) => Signed(t)'
      BY <1>3, <2>4 DEF Signed
    <2> QED BY <1>3, <2>1, <2>3, <2>5 DEF Sane
  <1>8. \A q \in Requests : req'[q] \in {req[q], Idle}
    BY <1>2
  <1> QED BY <1>2, <1>3, <1>5, <1>6, <1>7, <1>8, Turns

LEMMA MaxBounds ==
  ASSUME NEW S, S \subseteq Nat, S # {}, NEW b \in Nat, \A x \in S : x <= b
  PROVE  Max(S) \in S /\ \A y \in S : y <= Max(S)
  <1> DEFINE T == {b - x : x \in S}
             R == OpToRel(<, Nat)
  <1>1. T \subseteq Nat /\ T # {}
    BY SMT
  <1>2. PICK m \in T : \A y \in T : ~(<<y, m>> \in R)
    <2> HIDE DEF T, R
    <2> QED BY <1>1, WFMin, NatLessThanWellFounded DEF R
  <1>3. \A y \in T : ~(y < m)
    BY <1>1, <1>2 DEF OpToRel
  <1>4. PICK x \in S : m = b - x
    BY <1>2
  <1>5. \A y \in S : x >= y
    <2> SUFFICES ASSUME NEW y \in S PROVE x >= y
      OBVIOUS
    <2>1. ~(b - y < b - x)
      BY <1>3, <1>4
    <2> QED BY <2>1, SMT
  <1>6. Max(S) \in S /\ \A y \in S : Max(S) >= y
    BY <1>5 DEF Max
  <1> QED BY <1>6, SMT

LEMMA StepRotate == ASSUME Inv, Rotate PROVE Inv'
  <1> DEFINE issued == {t.iat : t \in {x \in tokens : x.key = keys.current}}
             last == IF issued = {} THEN now ELSE Max(issued)
  <1>1. World
    BY DEF Inv
  <1>2. UNCHANGED <<scene, now, ahead, tokens, ended, epoch, grants, proof, req>>
    BY DEF Rotate, world
  <1>3. keys' = Keyset(keys.current + 1, keys.current, last)
    BY DEF Rotate
  <1>4. \A r \in Replicas : keys.previous # None => Clock(r) >= keys.last + KeyDrain
    BY DEF Rotate
  <1>5. keys.current \in Nat /\ keys.last \in Nat /\ now \in Nat /\ tokens \subseteq AnyToken
    BY <1>1 DEF World
  <1>6. \A t \in tokens : t.iat \in Nat /\ t.exp \in Nat /\ t.iat <= now + MaxSkew
    BY <1>5 DEF Inv, Sane, AnyToken
  <1>7. last \in Nat /\ \A x \in issued : x <= last
    <2>1. issued \subseteq Nat /\ \A x \in issued : x <= now + MaxSkew
      BY <1>6
    <2>2. now + MaxSkew \in Nat
      BY <1>5, Constants, SMT
    <2> HIDE DEF issued
    <2>3. CASE issued = {}
      BY <1>5, <2>3
    <2>4. CASE issued # {}
      BY <2>1, <2>2, <2>4, MaxBounds
    <2> QED BY <2>3, <2>4
  <1>8. \A t \in tokens : t.key = keys.current => t.iat <= last
    <2>1. \A t \in tokens : t.key = keys.current => t.iat \in issued
      OBVIOUS
    <2> QED BY <1>7, <2>1
  <1> HIDE DEF issued, last
  <1>9. keys'.current = keys.current + 1 /\ keys'.previous = keys.current /\ keys'.last = last
    BY <1>3 DEF Keyset
  <1>10. keys'.current \in Nat /\ keys.current # None
    BY <1>5, <1>9, Constants, SMT
  <1>11. World'
    BY <1>1, <1>2, <1>7, <1>9, <1>10 DEF World
  <1>12. Gone \subseteq Gone' /\ Ended'
    <2>1. Gone \subseteq Gone'
      BY <1>2 DEF Gone, Dead, ended
    <2> QED BY <1>2, <2>1, Endless DEF Inv
  <1>13. ASSUME NEW t \in tokens PROVE Sane(t)'
    <2>1. Sane(t)
      BY DEF Inv
    <2>2. ASSUME t.type = "access" PROVE Signed(t)'
      <3>1. CASE t.key = keys.current
        BY <1>8, <1>9, <1>10, <3>1 DEF Signed
      <3>2. CASE keys.previous # None /\ t.key = keys.previous /\ t.iat <= keys.last
        <4> SUFFICES ASSUME NEW r \in Replicas PROVE t.exp + MaxSkew <= Clock(r)'
          BY DEF Signed
        <4>1. Clock(r)' = Clock(r) /\ Clock(r) \in Nat
          BY <1>2, Clocks DEF Clock
        <4>2. Clock(r) >= keys.last + KeyDrain
          BY <1>4, <3>2
        <4>3. t.exp = t.iat + TTL["access"]
          BY <2>1, <2>2 DEF Sane
        <4>4. /\ TTL["access"] \in Nat /\ TTL["access"] <= MaxAccessTTL
              /\ MaxAccessTTL \in Nat /\ MaxSkew \in Nat
          BY Constants
        <4> QED BY <1>5, <1>6, <3>2, <4>1, <4>2, <4>3, <4>4, SMT DEF KeyDrain
      <3>3. CASE \A r \in Replicas : t.exp + MaxSkew <= Clock(r)
        BY <1>2, <3>3 DEF Signed, Clock
      <3> QED BY <2>1, <2>2, <3>1, <3>2, <3>3 DEF Sane, Signed
    <2> QED BY <1>2, <2>1, <2>2 DEF Sane
  <1>14. \A q \in Requests : req'[q] \in {req[q], Idle}
    BY <1>2
  <1> QED BY <1>2, <1>11, <1>12, <1>13, <1>14, Turns

LEMMA StepAside ==
  ASSUME Inv, UNCHANGED <<scene, now, ahead, identity, req>>
  PROVE  Inv'
  BY DEF Inv, World, identity, ended, Ended, Void, Sane, Signed, Clock, Gone, Dead

LEMMA InvInit == ASSUME Init PROVE Inv
  <1>1. /\ scene \in Scenes /\ now = 0 /\ keys = Keyset(1, None, 0)
        /\ grants = scene.grants /\ epoch = [u \in Users |-> 0] /\ req = [p \in Requests |-> Idle]
        /\ proof = [u \in Users |-> IF [type |-> "sudo", user |-> u] \in scene.first THEN 0 ELSE None]
    BY DEF Init
  <1>2. /\ scene.first \subseteq [type : DOMAIN TTL, user : Users]
        /\ scene.grants \in [Users -> SUBSET Grants]
    BY <1>1, ScenesAssumption
  <1>3. keys.current = 1 /\ keys.last = 0
    BY <1>1 DEF Keyset
  <1>4. 0 \in Nat /\ 1 \in Nat /\ 0 # None
    BY Constants, SMT
  <1>5. ahead \in [Replicas -> 0 .. MaxSkew]
    <2>1. 0 \in 0 .. MaxSkew
      BY Constants, SMT
    <2> QED BY <2>1 DEF Init
  <1>6. ASSUME NEW t \in tokens PROVE t \in AnyToken /\ Sane(t) /\ t.ver = 0
    <2>1. PICK f \in scene.first :
            t = IF f.type = "access"
                  THEN IssueAccessV1(keys, 0, 0, f.user, Tenant[f.user], 0, 0, 0, grants[f.user])
                  ELSE Issue(keys, 0, 0, f.user, Tenant[f.user], f.type)
      BY DEF Init
    <2> DEFINE u == f.user
    <2>2. f.type \in DOMAIN TTL /\ u \in Users /\ f = [type |-> f.type, user |-> f.user]
      BY <1>2, SMT
    <2>3. 0 <= 0 + MaxSkew /\ 0 <= 0 /\ epoch[u] = 0
      <3>1. 0 <= 0 + MaxSkew /\ 0 <= 0
        BY Constants, SMT
      <3> QED BY <1>1, <2>2, <3>1
    <2>4. CASE f.type = "access"
      <3>1. t = IssueAccessV1(keys, 0, 0, u, Tenant[u], 0, 0, 0, grants[u]) /\ grants[u] \in SUBSET Grants
        BY <1>1, <1>2, <2>1, <2>2, <2>4
      <3>2. AccessFor(t, keys.current, 0, u, 0, 0, grants[u])
        BY <1>3, <1>4, <2>2, <3>1, IssuedAccess
      <3>3. Signed(t)
        BY <3>2 DEF Signed, AccessFor
      <3>4. /\ t.tenant = Tenant[t.user] /\ t.exp = t.iat + TTL[t.type] /\ t.iat <= now + MaxSkew
            /\ t.epoch <= epoch[t.user] /\ grants[t.user] \subseteq t.perms
            /\ t.type = "access" /\ t \in AnyToken /\ t.ver = 0
            /\ FinnAudience \in t.aud /\ t.aud \subseteq {FinnAudience, JakeAudience}
        BY <1>1, <2>3, <3>2 DEF AccessFor
      <3> QED BY <3>3, <3>4 DEF Sane
    <2>5. CASE f.type # "access"
      <3>1. t = Issue(keys, 0, 0, u, Tenant[u], f.type)
        BY <2>1, <2>5
      <3>2. /\ t \in AnyToken /\ t.type = f.type /\ t.user = u /\ t.tenant = Tenant[u]
            /\ t.iat = 0 /\ t.exp = 0 + TTL[f.type] /\ t.epoch = 0 /\ t.ver = 0
        BY <1>3, <1>4, <2>2, <3>1, Issued, SMT
      <3>3. ASSUME t.type = "sudo" PROVE proof[t.user] # None /\ t.iat <= proof[t.user] + MaxSkew
        <4>1. [type |-> "sudo", user |-> u] \in scene.first
          BY <2>2, <3>2, <3>3
        <4>2. proof[u] = 0
          BY <1>1, <2>2, <4>1
        <4> QED BY <1>4, <2>3, <3>2, <4>2
      <3>4. /\ t.tenant = Tenant[t.user] /\ t.exp = t.iat + TTL[t.type] /\ t.iat <= now + MaxSkew
            /\ t.epoch <= epoch[t.user] /\ t.type # "access"
        BY <1>1, <2>3, <2>5, <3>2
      <3> QED BY <3>2, <3>3, <3>4 DEF Sane
    <2> QED BY <2>4, <2>5
  <1>7. World
    <2> DEFINE f == [x \in scene.first |->
                       IF x.type = "access"
                         THEN IssueAccessV1(keys, 0, 0, x.user, Tenant[x.user], 0, 0, 0, grants[x.user])
                         ELSE Issue(keys, 0, 0, x.user, Tenant[x.user], x.type)]
    <2>1. IsFiniteSet(scene.first)
      BY <1>1, ScenesAssumption
    <2>2. tokens = {f[x] : x \in scene.first}
      BY DEF Init
    <2>3. f \in Surjection(scene.first, tokens)
      BY <2>2 DEF Surjection
    <2>4. IsFiniteSet(tokens)
      BY <2>1, <2>3, FS_Surjection
    <2> QED BY <1>1, <1>2, <1>3, <1>4, <1>5, <1>6, <2>4 DEF World
  <1>e. Ended
    <2>1. /\ closed = [u \in Users |-> {}] /\ ver = [u \in Users |-> 0] /\ over = {}
      BY DEF Init
    <2>2. 0 <= 0
      BY SMT
    <2> QED BY <1>4, <1>6, <2>1, <2>2 DEF Ended, AnyToken
  <1>8. \A p \in Requests : req[p] = Idle /\ Idle.route = None
    BY <1>1 DEF Idle
  <1> QED BY <1>6, <1>7, <1>e, <1>8, IdleLawful DEF Inv

LEMMA InvNext == ASSUME Inv, [Next]_vars PROVE Inv'
  <1>1. ASSUME NEW p \in Requests,
               \/ Arrive(p) \/ AuthMiddleware(p) \/ MFAPendingMiddleware(p) \/ CheckState(p)
               \/ RateLimit(p) \/ TOTPCluster(p) \/ SudoMiddleware(p) \/ RequirePermission(p)
               \/ VerifyForJake(p) \/ CheckInput(p) \/ ctxUserID(p) \/ Serve(p)
        PROVE  Inv'
    BY <1>1, StepArrive, StepAuth, StepPending, StepState, StepRate, StepCluster, StepSudo,
       StepPermission, StepJake, StepInput, StepUser, StepServe
  <1>2. ASSUME NEW u \in Users, AssignRole(u) \/ Withdraw(u) PROVE Inv'
    BY <1>2, StepAssign, StepWithdraw
  <1>3. ASSUME NEW r \in Replicas, sweep(r) PROVE Inv'
    <2>1. UNCHANGED <<scene, now, ahead, identity, req>>
      BY <1>3 DEF sweep, world
    <2> QED BY <2>1, StepAside
  <1>4. CASE Outage \/ Refill \/ UNCHANGED vars
    <2>1. UNCHANGED <<scene, now, ahead, identity, req>>
      BY <1>4 DEF Outage, Refill, vars, world
    <2> QED BY <2>1, StepAside
  <1> QED BY <1>1, <1>2, <1>3, <1>4, StepTick, StepRotate DEF Next

LEMMA Invariance == Spec => []Inv
  <1>1. Init => Inv
    BY InvInit
  <1>2. Inv /\ [Next]_vars => Inv'
    BY InvNext
  <1> QED BY <1>1, <1>2, PTL DEF Spec

-----------------------------------------------------------------------------
(* What the gates guarantee *)

\* What is behind a request that reaches its service.
LEMMA Reached ==
  ASSUME Inv, NEW p \in Requests, Served(p)
  PROVE  /\ Lawful(req[p], tokens, Gone)
         /\ \A step : step # "service" /\ Passes(req[p].route, step) => Past(req[p], {step})
         /\ \A g \in Permissions : Past(req[p], {g}) => Past(req[p], {"state"})
  <1>1. Lawful(req[p], tokens, Gone) /\ req[p].route # None /\ req[p].route.chain[req[p].at] = "service"
    BY Asked DEF Served, At
  <1> QED BY <1>1, InOrderSoFar

\* No replica serves a request, nor reports its token as active, when the token
\* was ended or its grants had changed before the request came: whatever requests,
\* role assignments, withdrawals, rotations and outages go on (Authority.Check,
\* between AuthMiddleware or VerifyForJake and the service).
THEOREM RevocationsSeen == Spec => []RevocationSeen
  <1>1. ASSUME Inv PROVE RevocationSeen
    <2> SUFFICES ASSUME NEW p \in Requests, Served(p), Passes(req[p].route, "state")
                 PROVE  ~req[p].stale
      BY DEF RevocationSeen
    <2>1. Past(req[p], {"state"}) /\ Lawful(req[p], tokens, Gone)
      BY <1>1, Reached
    <2> QED BY <2>1 DEF Lawful, Current
  <1> QED BY <1>1, Invariance, PTL

\* An admin service runs only for a user who held its permission in the database
\* when the account was read, for any grants, roles and withdrawals: the chain of
\* each admin route reads the account first, and what RequirePermission looks at
\* is what Authority.Check compared with the database.
THEOREM GrantsHeld == Spec => []GrantHeld
  <1>1. ASSUME Inv PROVE GrantHeld
    <2> SUFFICES ASSUME NEW p \in Requests, NEW g \in Permissions, Served(p), Passes(req[p].route, g)
                 PROVE  g \in req[p].seen
      BY DEF GrantHeld
    <2>1. g # "service"
      BY DEF Permissions
    <2>2. Past(req[p], {g}) /\ Past(req[p], {"state"}) /\ Lawful(req[p], tokens, Gone)
      BY <1>1, <2>1, Reached
    <2>3. g \in req[p].perms /\ req[p].perms = req[p].seen
      BY <2>2 DEF Lawful, Current
    <2> QED BY <2>3
  <1> QED BY <1>1, Invariance, PTL

\* A known caller is served in the own tenant and every token carries its user's,
\* for any tenants and whatever the headers say: a service finds users of the
\* request's tenant only, so what it signs is right when the tenant is, and the
\* tenant is right when the token was (TenantMiddleware, AuthMiddleware).
THEOREM TenantsBound == Spec => []TenantBound
  <1>1. ASSUME Inv PROVE TenantBound
    <2>1. ASSUME NEW p \in Requests, req[p].uid # None PROVE req[p].tenant = Tenant[req[p].uid]
      <3>1. /\ req[p].bearer \in tokens /\ req[p].uid = req[p].bearer.user
            /\ req[p].tenant = req[p].bearer.tenant
        BY <1>1, <2>1, Asked DEF Lawful
      <3> QED BY <1>1, <3>1 DEF Inv, Sane
    <2>2. \A t \in tokens : t.tenant = Tenant[t.user]
      BY <1>1 DEF Inv, Sane
    <2> QED BY <2>1, <2>2 DEF TenantBound
  <1> QED BY <1>1, Invariance, PTL

\* Until its leeway is over an access token verifies at every replica, for any
\* lifetimes, leeway, clocks and number of rotations, as long as the operators let
\* the previous key drain before they rotate again: the drain is long enough
\* (KeyDrain, jwt/v1.go).
THEOREM AccessTokensSurvive == Spec => []AccessSurvives
  <1>1. ASSUME Inv PROVE AccessSurvives
    <2> SUFFICES ASSUME NEW t \in tokens, NEW r \in Replicas, t.type = "access",
                        Clock(r) < t.exp + MaxSkew
                 PROVE  Verify(keys, Clock(r), t)
      BY DEF AccessSurvives
    <2> DEFINE c == Clock(r)
    <2>1. c \in Nat /\ now <= c /\ now \in Nat /\ keys.last \in Nat
      BY <1>1, Clocks DEF Inv, World
    <2>2. Sane(t) /\ t.iat \in Nat /\ t.exp \in Nat
      BY <1>1 DEF Inv, World, AnyToken
    <2>3. /\ t.exp = t.iat + TTL["access"] /\ t.iat <= now + MaxSkew /\ Signed(t)
          /\ FinnAudience \in t.aud /\ t.aud \subseteq {FinnAudience, JakeAudience}
      BY <2>2 DEF Sane
    <2>4. /\ TTL["access"] \in Nat \ {0} /\ TTL["access"] <= MaxAccessTTL
          /\ MaxAccessTTL \in Nat /\ MaxSkew \in Nat
      BY Constants
    <2> HIDE DEF c
    <2>5. c < t.exp + MaxSkew
      BY DEF c
    <2>6. t.iat <= c + MaxSkew /\ t.exp > t.iat /\ t.exp <= t.iat + MaxAccessTTL
      BY <2>1, <2>2, <2>3, <2>4, SMT
    <2>7. parse(t, c)
      BY <2>3, <2>5, <2>6 DEF parse, validateAccess
    <2>8. KeyKnown(keys, c, t.key)
      <3>1. CASE t.key = keys.current
        BY <3>1 DEF KeyKnown
      <3>2. CASE t.key = keys.previous /\ t.iat <= keys.last
        <4>1. c < keys.last + KeyDrain
          BY <2>1, <2>2, <2>3, <2>4, <2>5, <3>2, SMT DEF KeyDrain
        <4> QED BY <3>2, <4>1 DEF KeyKnown
      <3>3. ~(t.exp + MaxSkew <= c)
        BY <2>1, <2>2, <2>4, <2>5, SMT
      <3> QED BY <2>3, <3>1, <3>2, <3>3 DEF Signed, c
    <2> QED BY <2>7, <2>8 DEF Verify, c
  <1> QED BY <1>1, Invariance, PTL

SudoStep == \A p \in Requests :
  At(p, {"sudo"}) /\ req[p].route = req'[p].route =>
    req'[p] = req[p] \/
    /\ proof[req[p].uid] # None
    /\ now < proof[req[p].uid] + TTL["sudo"] + 2 * MaxSkew

\* A request moves by steps of its own only, and from the sudo gate by that gate.
LEMMA Sudoers ==
  ASSUME Inv, Next, NEW p \in Requests, At(p, {"sudo"})
  PROVE  req'[p] = req[p] \/ SudoMiddleware(p)
  <1>1. ASSUME NEW q \in Requests, q # p,
               \/ Arrive(q) \/ AuthMiddleware(q) \/ MFAPendingMiddleware(q) \/ CheckState(q)
               \/ RateLimit(q) \/ TOTPCluster(q) \/ SudoMiddleware(q) \/ RequirePermission(q)
               \/ VerifyForJake(q) \/ CheckInput(q) \/ ctxUserID(q) \/ Serve(q)
        PROVE  req'[p] = req[p]
    <2>1. PICK n : req' = [req EXCEPT ![q] = n]
      <3>1. ASSUME NEW open, NEW n, Gate(q, open, n) PROVE \E m : req' = [req EXCEPT ![q] = m]
        BY <3>1 DEF Gate, Pass, Answer
      <3>2. CASE Arrive(q)
        BY <3>2 DEF Arrive
      <3>3. CASE TOTPCluster(q)
        BY <3>3 DEF TOTPCluster, Pass, Answer
      <3>4. CASE Serve(q)
        BY <3>4 DEF Serve, Answer
      <3>5. CASE AuthMiddleware(q) \/ MFAPendingMiddleware(q) \/ CheckState(q) \/ RateLimit(q)
        BY <3>1, <3>5 DEF AuthMiddleware, MFAPendingMiddleware, CheckState, RateLimit
      <3>6. CASE \/ SudoMiddleware(q) \/ RequirePermission(q)
                 \/ VerifyForJake(q) \/ CheckInput(q) \/ ctxUserID(q)
        BY <3>1, <3>6 DEF SudoMiddleware, RequirePermission, VerifyForJake, CheckInput, ctxUserID
      <3> QED BY <1>1, <3>2, <3>3, <3>4, <3>5, <3>6
    <2> QED BY <1>1, <2>1 DEF Inv, World
  <1>2. ASSUME \/ Arrive(p) \/ AuthMiddleware(p) \/ MFAPendingMiddleware(p) \/ CheckState(p)
               \/ RateLimit(p) \/ TOTPCluster(p) \/ RequirePermission(p)
               \/ VerifyForJake(p) \/ CheckInput(p) \/ ctxUserID(p) \/ Serve(p)
        PROVE  FALSE
    <2>1. req[p].route # None /\ req[p].route.chain[req[p].at] = "sudo"
      BY DEF At
    <2>2. \A steps : At(p, steps) => "sudo" \in steps
      BY <2>1 DEF At
    <2>3. ~Arrive(p)
      BY <2>1 DEF Arrive
    <2>4. ~(AuthMiddleware(p) \/ MFAPendingMiddleware(p) \/ CheckState(p) \/ RateLimit(p))
      BY <2>2 DEF AuthMiddleware, MFAPendingMiddleware, CheckState, RateLimit
    <2>5. ~(TOTPCluster(p) \/ RequirePermission(p) \/ VerifyForJake(p))
      BY <2>2 DEF TOTPCluster, RequirePermission, VerifyForJake, Permissions
    <2>6. ~(CheckInput(p) \/ ctxUserID(p) \/ Serve(p))
      BY <2>2 DEF CheckInput, ctxUserID, Serve
    <2> QED BY <1>2, <2>3, <2>4, <2>5, <2>6
  <1>3. ASSUME NEW u \in Users, AssignRole(u) \/ Withdraw(u) PROVE req'[p] = req[p]
    BY <1>3 DEF AssignRole, Withdraw
  <1>4. ASSUME NEW r \in Replicas, sweep(r) PROVE req'[p] = req[p]
    BY <1>4 DEF sweep
  <1>5. CASE Tick \/ Rotate \/ Outage \/ Refill
    BY <1>5 DEF Tick, Rotate, Outage, Refill
  <1> QED BY <1>1, <1>2, <1>3, <1>4, <1>5 DEF Next

\* Whoever passes the sudo gate proved a TOTP code within the sudo TTL, give or
\* take the leeway and the difference of two clocks, for any lifetimes and clocks:
\* a sudo token is only signed by the service that has just checked the code, and
\* only its own user passes with it (SudoMiddleware, ViewRecoveryCodes).
THEOREM SudoIsProven == Spec => SudoProven
  <1>1. ASSUME Inv, Next PROVE SudoStep
    <2> SUFFICES ASSUME NEW p \in Requests, At(p, {"sudo"}), req[p].route = req'[p].route,
                        req'[p] # req[p]
                 PROVE  /\ proof[req[p].uid] # None
                        /\ now < proof[req[p].uid] + TTL["sudo"] + 2 * MaxSkew
      BY DEF SudoStep
    <2> DEFINE t == req[p].sudo
               u == req[p].uid
               c == Clock(req[p].replica)
    <2>1. SudoMiddleware(p) /\ req[p].route # None
      BY <1>1, Sudoers DEF At
    <2>2. Elevated(p)
      <3>1. ASSUME ~Elevated(p) PROVE FALSE
        <4>1. req' = [req EXCEPT ![p] = Idle] /\ Idle.route = None
          BY <2>1, <3>1 DEF SudoMiddleware, Gate, Answer, Idle
        <4>2. req'[p] = Idle
          BY <1>1, <4>1 DEF Inv, World
        <4> QED BY <2>1, <4>1, <4>2
      <3> QED BY <3>1
    <2>3. t # None /\ t.type = "sudo" /\ t.user = u /\ c < t.exp + MaxSkew
      BY <2>2 DEF Elevated, Verified, Verify, parse
    <2>4. t \in tokens /\ Sane(t) /\ t \in AnyToken
      BY <1>1, <2>3, Asked
    <2>5. /\ u \in Users /\ t.iat \in Nat /\ t.exp = t.iat + TTL["sudo"]
          /\ proof[u] # None /\ t.iat <= proof[u] + MaxSkew
      BY <2>3, <2>4 DEF Sane, AnyToken
    <2>6. proof[u] \in Nat
      BY <1>1, <2>5 DEF Inv, World
    <2>7. req[p].replica \in Replicas
      BY <1>1, <2>1, Asked DEF Lawful
    <2>8. c \in Nat /\ now <= c /\ now \in Nat
      BY <1>1, <2>7, Clocks DEF Inv, World
    <2>9. TTL["sudo"] \in Nat /\ MaxSkew \in Nat
      BY Constants
    <2> HIDE DEF t, u, c
    <2>10. now < proof[u] + TTL["sudo"] + 2 * MaxSkew
      BY <2>3, <2>5, <2>6, <2>8, <2>9, SMT
    <2> QED BY <2>5, <2>10 DEF u
  <1>2. Inv /\ [Next]_vars => [SudoStep]_vars
    BY <1>1
  <1> QED BY <1>2, Invariance, PTL DEF Spec, SudoProven, SudoStep

-----------------------------------------------------------------------------
(* The limiters *)

LEMMA Least ==
  ASSUME NEW a \in Nat, NEW b \in Nat
  PROVE  Min({a, b}) = IF a <= b THEN a ELSE b
  <1> DEFINE m == IF a <= b THEN a ELSE b
  <1>1. m \in {a, b} /\ \A y \in {a, b} : m <= y
    BY SMT
  <1>2. \A x \in {a, b} : (\A y \in {a, b} : x <= y) => x = m
    BY SMT
  <1> HIDE DEF m
  <1>3. Min({a, b}) = m
    BY <1>1, <1>2 DEF Min
  <1> QED BY <1>3 DEF m

LEMMA Burst == ASSUME Inv PROVE scene.burst \in Nat /\ EntryTTL \in Nat
  BY ScenesAssumption, Constants DEF Inv, World

LEMMA BucketsInit == ASSUME Init, Inv PROVE Buckets
  <1>1. scene.burst \in Nat
    BY Burst
  <1>2. /\ count = 0 /\ age = 0 /\ passed = NonePassed
        /\ bucket = [r \in Replicas |-> scene.burst] /\ granted = [r \in Replicas |-> 0]
        /\ idle = [r \in Replicas |-> 0]
    BY DEF Init
  <1>3. passed \in [Replicas \cup {None} -> Nat] /\ \A r \in Replicas \cup {None} : passed[r] = 0
    BY <1>2, SMT DEF NonePassed
  <1>4. 0 <= 0 /\ 0 <= scene.burst /\ 0 + scene.burst <= scene.burst + 0 + 0 /\ 0 \in Nat
        /\ scene.burst \in 0 .. scene.burst
    BY <1>1, SMT
  <1> QED BY <1>2, <1>3, <1>4 DEF Buckets

LEMMA BucketsRate == ASSUME Inv, Buckets, NEW p \in Requests, RateLimit(p) PROVE Buckets'
  <1> DEFINE r == req[p].replica
             B == scene.burst
  <1>1. r \in Replicas
    <2>1. req[p].route # None
      BY DEF RateLimit, At
    <2> QED BY <2>1, Asked DEF Lawful
  <1>2. B \in Nat
    BY Burst
  <1>3. scene' = scene /\ age' = age /\ granted' = granted
    BY DEF RateLimit, world
  <1>4. Window' = Window
    BY <1>3 DEF Window
  <1>5. /\ count \in Nat /\ age \in Nat /\ passed \in [Replicas \cup {None} -> Nat]
        /\ bucket \in [Replicas -> 0 .. B] /\ idle \in [Replicas -> Nat]
        /\ granted \in [Replicas -> Nat]
        /\ passed[None] <= count /\ passed[None] <= B /\ (age = 0 \/ age < Window)
        /\ \A x \in Replicas :
             /\ idle[x] <= bucket[x] \/ bucket[x] = B
             /\ passed[x] + bucket[x] <= B + age + granted[x]
             /\ count = 0 => passed[x] = 0
             /\ B <= EntryTTL => granted[x] = 0
    BY DEF Buckets
  <1>6. None \notin Replicas
    BY Constants
  <1> HIDE DEF r, B
  <1>7. CASE /\ count' = count + 1
             /\ passed' = IF WithinBurst(count') THEN [passed EXCEPT ![None] = @ + 1] ELSE passed
             /\ UNCHANGED <<bucket, idle>>
    <2>1. WithinBurst(count') <=> count' <= B
      BY <1>3 DEF WithinBurst, B
    <2>2. /\ count' \in Nat /\ count' # 0 /\ passed' \in [Replicas \cup {None} -> Nat]
          /\ passed'[None] <= count' /\ passed'[None] <= B
          /\ \A x \in Replicas : passed'[x] = passed[x]
      BY <1>2, <1>5, <1>6, <1>7, <2>1, SMT
    <2> QED BY <1>3, <1>4, <1>5, <1>7, <2>2 DEF Buckets, B
  <1>8. CASE /\ bucket' = [bucket EXCEPT ![r] = IF @ > 0 THEN @ - 1 ELSE 0]
             /\ idle' = [idle EXCEPT ![r] = 0]
             /\ passed' = IF bucket[r] > 0 /\ count > 0 THEN [passed EXCEPT ![r] = @ + 1] ELSE passed
             /\ UNCHANGED count
    <2>1. /\ bucket' \in [Replicas -> 0 .. B] /\ idle' \in [Replicas -> Nat]
          /\ passed' \in [Replicas \cup {None} -> Nat] /\ passed'[None] = passed[None]
      BY <1>1, <1>2, <1>5, <1>6, <1>8, SMT
    <2>2. ASSUME NEW x \in Replicas
          PROVE  /\ idle'[x] <= bucket'[x] \/ bucket'[x] = B
                 /\ passed'[x] + bucket'[x] <= B + age + granted[x]
                 /\ count = 0 => passed'[x] = 0
      BY <1>1, <1>2, <1>5, <1>6, <1>8, SMT
    <2> QED BY <1>3, <1>4, <1>5, <1>8, <2>1, <2>2 DEF Buckets, B
  <1> QED BY <1>7, <1>8 DEF RateLimit, r

LEMMA BucketsRefill == ASSUME Inv, Buckets, Refill PROVE Buckets'
  <1> DEFINE B == scene.burst
             E == EntryTTL
  <1>1. B \in Nat /\ E \in Nat
    BY Burst
  <1>2. scene' = scene
    BY DEF Refill, world
  <1>3. Window' = Window
    BY <1>2 DEF Window
  <1>4. /\ count \in Nat /\ age \in Nat /\ passed \in [Replicas \cup {None} -> Nat]
        /\ bucket \in [Replicas -> 0 .. B] /\ idle \in [Replicas -> Nat]
        /\ granted \in [Replicas -> Nat]
        /\ passed[None] <= count /\ passed[None] <= B
        /\ \A x \in Replicas :
             /\ idle[x] <= bucket[x] \/ bucket[x] = B
             /\ passed[x] + bucket[x] <= B + age + granted[x]
             /\ count = 0 => passed[x] = 0
             /\ B <= EntryTTL => granted[x] = 0
    BY DEF Buckets
  <1>5. /\ bucket' = [r \in Replicas |-> Min({bucket[r] + 1, B})]
        /\ idle' = [r \in Replicas |-> Min({idle[r] + 1, E + 1})]
    BY <1>4 DEF Refill
  <1> HIDE DEF B, E
  <1>6. ASSUME NEW x \in Replicas
        PROVE  /\ bucket'[x] = IF bucket[x] + 1 <= B THEN bucket[x] + 1 ELSE B
               /\ idle'[x] = IF idle[x] + 1 <= E + 1 THEN idle[x] + 1 ELSE E + 1
    <2>1. bucket[x] + 1 \in Nat /\ idle[x] + 1 \in Nat /\ E + 1 \in Nat
      BY <1>1, <1>4, SMT
    <2> QED BY <1>1, <1>5, <2>1, Least
  <1>7. ASSUME NEW x \in Replicas
        PROVE  /\ bucket'[x] \in 0 .. B /\ idle'[x] \in Nat
               /\ idle'[x] <= bucket'[x] \/ bucket'[x] = B
               /\ bucket'[x] <= bucket[x] + 1 /\ bucket'[x] <= B
    <2>1. /\ bucket[x] \in 0 .. B /\ idle[x] \in Nat
          /\ idle[x] <= bucket[x] \/ bucket[x] = B
      BY <1>4
    <2> QED BY <1>1, <1>6, <2>1, SMT
  <1>8. bucket' \in [Replicas -> 0 .. B] /\ idle' \in [Replicas -> Nat]
    BY <1>5, <1>7
  <1>9. CASE /\ age + 1 < Window
             /\ age' = age + 1 /\ UNCHANGED <<count, passed, granted>>
    <2>1. age' \in Nat /\ \A x \in Replicas : passed'[x] + bucket'[x] <= B + age' + granted'[x]
      BY <1>1, <1>4, <1>7, <1>8, <1>9, SMT
    <2> QED BY <1>2, <1>3, <1>4, <1>5, <1>7, <1>8, <1>9, <2>1 DEF Buckets, B
  <1>10. CASE count' = 0 /\ passed' = NonePassed /\ age' = 0 /\ granted' = [r \in Replicas |-> 0]
    <2>1. passed' \in [Replicas \cup {None} -> Nat] /\ \A x \in Replicas \cup {None} : passed'[x] = 0
      BY <1>10, SMT DEF NonePassed
    <2>2. /\ \A x \in Replicas : passed'[x] + bucket'[x] <= B + age' + granted'[x] /\ granted'[x] = 0
          /\ granted' \in [Replicas -> Nat] /\ passed'[None] <= 0 /\ passed'[None] <= B /\ 0 \in Nat
      BY <1>1, <1>7, <1>8, <1>10, <2>1, SMT
    <2> QED BY <1>2, <1>3, <1>5, <1>7, <1>8, <1>10, <2>1, <2>2 DEF Buckets, B
  <1> QED BY <1>9, <1>10 DEF Refill

\* What an eviction adds to a bucket is granted, or there is no window; an entry
\* that lives as long as its bucket takes to fill is evicted with a full one.
LEMMA BucketsSweep == ASSUME Inv, Buckets, NEW r \in Replicas, sweep(r) PROVE Buckets'
  <1> DEFINE B == scene.burst
             E == EntryTTL
  <1>1. B \in Nat /\ E \in Nat
    BY Burst
  <1>2. /\ idle[r] > E /\ bucket' = [bucket EXCEPT ![r] = B]
        /\ granted' = IF count > 0 THEN [granted EXCEPT ![r] = @ + (B - bucket[r])] ELSE granted
        /\ UNCHANGED <<scene, count, age, passed, idle>>
    BY DEF sweep, Evictable, world
  <1>3. /\ bucket \in [Replicas -> 0 .. B] /\ idle \in [Replicas -> Nat]
        /\ granted \in [Replicas -> Nat] /\ passed \in [Replicas \cup {None} -> Nat]
        /\ count \in Nat /\ age \in Nat
        /\ \A x \in Replicas :
             /\ idle[x] <= bucket[x] \/ bucket[x] = B
             /\ passed[x] + bucket[x] <= B + age + granted[x]
             /\ count = 0 => passed[x] = 0
             /\ B <= E => granted[x] = 0
    BY DEF Buckets
  <1> HIDE DEF B, E
  <1>4. bucket' \in [Replicas -> 0 .. B] /\ granted' \in [Replicas -> Nat]
    BY <1>1, <1>2, <1>3, SMT
  <1>5. ASSUME NEW x \in Replicas
        PROVE  /\ idle[x] <= bucket'[x] \/ bucket'[x] = B
               /\ passed[x] + bucket'[x] <= B + age + granted'[x]
               /\ B <= E => granted'[x] = 0
    <2>1. CASE x # r
      BY <1>2, <1>3, <2>1
    <2>2. CASE x = r
      <3>1. bucket'[r] = B /\ granted'[r] = IF count > 0 THEN granted[r] + (B - bucket[r]) ELSE granted[r]
        BY <1>2, <1>3
      <3>2. /\ bucket[r] \in 0 .. B /\ granted[r] \in Nat /\ passed[r] \in Nat /\ idle[r] \in Nat
            /\ idle[r] <= bucket[r] \/ bucket[r] = B
            /\ passed[r] + bucket[r] <= B + age + granted[r]
            /\ count = 0 => passed[r] = 0
            /\ B <= E => granted[r] = 0
        BY <1>3
      <3>3. passed[r] + B <= B + age + granted'[r] /\ (B <= E => granted'[r] = 0)
        BY <1>1, <1>2, <1>3, <3>1, <3>2, SMT
      <3> QED BY <2>2, <3>1, <3>3
    <2> QED BY <2>1, <2>2
  <1>6. Window' = Window
    BY <1>2 DEF Window
  <1> QED BY <1>2, <1>4, <1>5, <1>6 DEF Buckets, B, E

LEMMA BucketsStay == ASSUME Buckets, UNCHANGED <<scene, limiter>> PROVE Buckets'
  BY DEF Buckets, limiter, Window

-----------------------------------------------------------------------------

\* A gate that passes a request on leaves it its permit.
Steadfast(n, r) ==
  n.holds = r.holds /\ n.replica = r.replica /\ n.at = r.at + 1 /\ n.route = r.route

LEMMA Steady ==
  ASSUME NEW T, NEW r \in Shape(T), NEW a, NEW u, NEW h, NEW g
  PROVE  /\ Steadfast(Onward(r), r)
         /\ Steadfast(Onward([r EXCEPT !.tenant = a]), r)
         /\ Steadfast(Onward([[r EXCEPT !.tenant = a] EXCEPT !.uid = u]), r)
         /\ Steadfast(Onward([r EXCEPT !.uid = u, !.perms = h, !.seen = g]), r)
  <1>1. r = [i \in {"route", "at", "replica", "bearer", "sudo", "tenant", "uid", "perms", "stale",
                    "seen", "holds"} |-> r[i]]
    BY SMT DEF Shape
  <1>2. Steadfast(Onward(r), r)
    BY <1>1, SMT DEF Onward, Steadfast
  <1>3. Steadfast(Onward([r EXCEPT !.tenant = a]), r)
    BY <1>1, SMT DEF Onward, Steadfast
  <1>4. Steadfast(Onward([[r EXCEPT !.tenant = a] EXCEPT !.uid = u]), r)
    BY <1>1, SMT DEF Onward, Steadfast
  <1>5. Steadfast(Onward([r EXCEPT !.uid = u, !.perms = h, !.seen = g]), r)
    BY <1>1, SMT DEF Onward, Steadfast
  <1> QED BY <1>2, <1>3, <1>4, <1>5

LEMMA PermitsPass ==
  ASSUME Inv, Permits, NEW p \in Requests, NEW n, req' = [req EXCEPT ![p] = n], permits' = permits,
         Steadfast(n, req[p])
  PROVE  Permits'
  <1>1. req[p].at \in Nat
    BY Asked DEF Shape
  <1>2. n.holds = req[p].holds /\ n.replica = req[p].replica /\ n.route = req[p].route
    BY DEF Steadfast
  <1>3. \A j \in 1 .. req[p].at - 1 : j \in 1 .. n.at - 1
    BY <1>1, SMT DEF Steadfast
  <1>4. \A q \in Requests : req'[q] = IF q = p THEN n ELSE req[q]
    BY DEF Inv, World
  <1>5. ASSUME NEW q \in Requests, req'[q].holds
        PROVE  req'[q].replica \in Replicas /\ Past(req'[q], {"totp"})
    <2>1. CASE q # p
      BY <1>4, <1>5, <2>1 DEF Permits
    <2>2. CASE q = p
      <3>1. req'[q] = n
        BY <1>4, <2>2
      <3>2. req[p].replica \in Replicas /\ Past(req[p], {"totp"})
        BY <1>2, <1>5, <3>1 DEF Permits
      <3>3. Past(n, {"totp"})
        BY <1>2, <1>3, <3>2 DEF Past
      <3> QED BY <1>2, <3>1, <3>2, <3>3
    <2> QED BY <2>1, <2>2
  <1>6. \A r \in Replicas : Holders(r)' = Holders(r)
    BY <1>2, <1>4 DEF Holders
  <1> QED BY <1>5, <1>6 DEF Permits

LEMMA HoldersFinite == \A r : IsFiniteSet(Holders(r)) /\ Cardinality(Holders(r)) \in Nat
  <1>1. \A r : Holders(r) \subseteq Requests
    BY DEF Holders
  <1> QED BY <1>1, Constants, FS_Subset, FS_CardinalityType

LEMMA PermitsAnswer ==
  ASSUME Inv, Permits, NEW p \in Requests, Answer(p)
  PROVE  Permits'
  <1>1. req' = [req EXCEPT ![p] = Idle] /\ ~Idle.holds
    BY DEF Answer, Idle
  <1>2. permits' = IF req[p].holds THEN [permits EXCEPT ![req[p].replica] = @ + 1] ELSE permits
    BY DEF Answer, Release
  <1>3. \A q \in Requests : req'[q] = IF q = p THEN Idle ELSE req[q]
    BY <1>1 DEF Inv, World
  <1>4. \A q \in Requests : req'[q].holds => req'[q].replica \in Replicas /\ Past(req'[q], {"totp"})
    BY <1>1, <1>3 DEF Permits
  <1>5. \A r : Holders(r)' = Holders(r) \ {p}
    BY <1>1, <1>3 DEF Holders
  <1>6. permits \in [Replicas -> Nat] /\ Capacity \in Nat
    BY Constants DEF Permits
  <1>7. permits' \in [Replicas -> Nat]
    <2>1. \A c : permits[c] \in Nat => permits[c] + 1 \in Nat
      BY SMT
    <2>2. CASE req[p].holds
      <3>1. permits' = [permits EXCEPT ![req[p].replica] = @ + 1] /\ req[p].replica \in Replicas
        BY <1>2, <2>2 DEF Permits
      <3> QED BY <1>6, <2>1, <3>1
    <2>3. CASE ~req[p].holds
      BY <1>2, <1>6, <2>3
    <2> QED BY <2>2, <2>3
  <1>8. ASSUME NEW r \in Replicas PROVE permits'[r] + Cardinality(Holders(r))' = Capacity
    <2>1. permits[r] + Cardinality(Holders(r)) = Capacity
      BY DEF Permits
    <2>2. IsFiniteSet(Holders(r)) /\ Cardinality(Holders(r)) \in Nat
      BY HoldersFinite
    <2>3. p \in Holders(r) <=> req[p].holds /\ req[p].replica = r
      BY DEF Holders
    <2>4. Cardinality(Holders(r) \ {p}) =
            IF p \in Holders(r) THEN Cardinality(Holders(r)) - 1 ELSE Cardinality(Holders(r))
      BY <2>2, FS_RemoveElement
    <2>5. permits'[r] = IF p \in Holders(r) THEN permits[r] + 1 ELSE permits[r]
      <3>1. CASE req[p].holds
        BY <1>2, <1>6, <2>3, <3>1
      <3>2. CASE ~req[p].holds
        BY <1>2, <2>3, <3>2
      <3> QED BY <3>1, <3>2
    <2>6. Cardinality(Holders(r))' = Cardinality(Holders(r) \ {p})
      BY <1>5
    <2> QED BY <1>6, <2>1, <2>2, <2>4, <2>5, <2>6, SMT
  <1> QED BY <1>4, <1>7, <1>8 DEF Permits

\* A request takes its permit at the only "totp" of its chain, so it had none.
LEMMA PermitsCluster == ASSUME Inv, Permits, NEW p \in Requests, TOTPCluster(p) PROVE Permits'
  <1> DEFINE c == req[p].replica
             n == Onward([req[p] EXCEPT !.holds = TRUE])
  <1>1. req[p].route # None /\ req[p].route.chain[req[p].at] = "totp"
    BY DEF TOTPCluster, At
  <1>2. Lawful(req[p], tokens, Gone) /\ req[p] \in Shape(tokens) /\ c \in Replicas
    BY <1>1, Asked DEF Lawful
  <1>3. req[p].at \in 1 .. Len(req[p].route.chain) /\ req[p].route \in Routes /\ req[p].at \in Nat
    BY <1>1, <1>2 DEF Lawful, Shape
  <1>4. InOrder(req[p].route.chain, req[p].route.effects)
    BY <1>3, RoutesOrdered DEF Ordered
  <1>5. ~req[p].holds
    <2>1. ASSUME req[p].holds PROVE FALSE
      <3>1. PICK j \in 1 .. req[p].at - 1 : req[p].route.chain[j] = "totp"
        BY <2>1 DEF Permits, Past
      <3>2. Len(req[p].route.chain) \in Nat
        BY <1>4 DEF InOrder
      <3>3. j \in 1 .. Len(req[p].route.chain) /\ j # req[p].at
        BY <1>3, <3>2, SMT
      <3> QED BY <1>1, <1>3, <1>4, <3>1, <3>3 DEF InOrder
    <2> QED BY <2>1
  <1>6. CASE ~(permits[c] > 0)
    BY <1>6, PermitsAnswer DEF TOTPCluster
  <1>7. CASE permits[c] > 0
    <2>1. req' = [req EXCEPT ![p] = n] /\ permits' = [permits EXCEPT ![c] = @ - 1]
      BY <1>7 DEF TOTPCluster, Pass, Onward
    <2>2. n.replica = c /\ n.at = req[p].at + 1 /\ n.route = req[p].route /\ n.holds
      <3> DEFINE r == req[p]
      <3>1. r = [i \in {"route", "at", "replica", "bearer", "sudo", "tenant", "uid", "perms",
                        "stale", "seen", "holds"} |-> r[i]]
        <4>1. r \in Shape(tokens)
          BY <1>2
        <4> HIDE DEF r
        <4> QED BY <4>1, SMT DEF Shape
      <3>2. PICK x \in BOOLEAN : x
        OBVIOUS
      <3>3. n = Onward([r EXCEPT !.holds = x])
        BY <3>2
      <3> HIDE DEF n, r
      <3>4. n.replica = r.replica /\ n.at = r.at + 1 /\ n.route = r.route /\ n.holds = x
        BY <3>1, <3>3, SMT DEF Onward
      <3> QED BY <3>2, <3>4 DEF r
    <2> HIDE DEF n
    <2>3. \A q \in Requests : req'[q] = IF q = p THEN n ELSE req[q]
      BY <2>1 DEF Inv, World
    <2>4. req[p].at \in 1 .. n.at - 1
      BY <1>3, <2>2, SMT
    <2>5. Past(n, {"totp"})
      BY <1>1, <2>2, <2>4 DEF Past
    <2>6. \A q \in Requests : req'[q].holds => req'[q].replica \in Replicas /\ Past(req'[q], {"totp"})
      BY <1>2, <2>2, <2>3, <2>5 DEF Permits
    <2>7. permits \in [Replicas -> Nat] /\ Capacity \in Nat
      BY Constants DEF Permits
    <2>8. permits' \in [Replicas -> Nat]
      BY <1>2, <1>7, <2>1, <2>7, SMT
    <2>9. ASSUME NEW r \in Replicas PROVE permits'[r] + Cardinality(Holders(r))' = Capacity
      <3>1. permits[r] + Cardinality(Holders(r)) = Capacity
        BY DEF Permits
      <3>2. IsFiniteSet(Holders(r)) /\ Cardinality(Holders(r)) \in Nat /\ p \notin Holders(r)
        BY <1>5, HoldersFinite DEF Holders
      <3>3. CASE r = c
        <4>1. Holders(r)' = Holders(r) \cup {p}
          BY <2>2, <2>3, <3>3 DEF Holders
        <4>2. Cardinality(Holders(r) \cup {p}) = Cardinality(Holders(r)) + 1
          BY <3>2, FS_AddElement
        <4>3. permits'[r] = permits[r] - 1
          BY <1>2, <2>1, <2>7, <3>3
        <4>4. Cardinality(Holders(r))' = Cardinality(Holders(r)) + 1
          BY <4>1, <4>2
        <4> QED BY <2>7, <3>1, <3>2, <4>3, <4>4, SMT
      <3>4. CASE r # c
        <4>1. Holders(r)' = Holders(r)
          BY <1>5, <2>2, <2>3, <3>4 DEF Holders
        <4>2. permits'[r] = permits[r]
          BY <2>1, <2>7, <3>4
        <4> QED BY <3>1, <4>1, <4>2
      <3> QED BY <3>3, <3>4
    <2> QED BY <2>6, <2>8, <2>9 DEF Permits
  <1> QED BY <1>6, <1>7

LEMMA PermitsGate ==
  ASSUME Inv, Permits, NEW p \in Requests, NEW open, NEW n, Gate(p, open, n),
         Steadfast(Onward(n), req[p])
  PROVE  Permits'
  <1>1. CASE open
    <2>1. req' = [req EXCEPT ![p] = Onward(n)] /\ permits' = permits
      BY <1>1 DEF Gate, Pass, Onward
    <2> QED BY <2>1, PermitsPass
  <1>2. CASE ~open
    BY <1>2, PermitsAnswer DEF Gate
  <1> QED BY <1>1, <1>2

LEMMA PermitsRequest ==
  ASSUME Inv, Permits, NEW p \in Requests,
         \/ Arrive(p) \/ AuthMiddleware(p) \/ MFAPendingMiddleware(p) \/ CheckState(p)
         \/ RateLimit(p) \/ TOTPCluster(p) \/ SudoMiddleware(p) \/ RequirePermission(p)
         \/ VerifyForJake(p) \/ CheckInput(p) \/ ctxUserID(p) \/ Serve(p)
  PROVE  Permits'
  <1> DEFINE r == req[p]
             t == r.bearer
             q == [r EXCEPT !.uid = t.user, !.perms = t.perms, !.seen = grants[t.user]]
  <1>1. r \in Shape(tokens)
    BY Asked
  <1>2. /\ Steadfast(Onward(r), r) /\ Steadfast(Onward(Bound(p)), r)
        /\ Steadfast(Onward([Bound(p) EXCEPT !.uid = t.user]), r) /\ Steadfast(Onward(q), r)
    BY <1>1, Steady DEF Bound
  <1> HIDE DEF q
  <1>3. CASE Arrive(p)
    <2>1. PICK n : req' = [req EXCEPT ![p] = n] /\ n.holds = FALSE
      <3>1. \A route, c, tenant, bearer, sudo : Asking(route, c, tenant, bearer, sudo).holds = FALSE
        BY DEF Asking
      <3>2. PICK route \in scene.routes, c \in Replicas, tenant \in Tenants,
                 bearer \in tokens \cup {None}, sudo \in tokens \cup {None} :
              req' = [req EXCEPT ![p] = Asking(route, c, tenant, bearer, sudo)]
        BY <1>3, Arrivals
      <3> QED BY <3>1, <3>2
    <2>2. permits' = permits /\ r = Idle /\ Idle.holds = FALSE
      BY <1>3, Asked DEF Arrive, Lawful, Idle
    <2>3. \A x \in Requests : req'[x] = IF x = p THEN n ELSE req[x]
      BY <2>1 DEF Inv, World
    <2>4. \A x \in Requests : req'[x].holds => req'[x] = req[x]
      BY <2>1, <2>3
    <2>5. \A c \in Replicas : Holders(c)' = Holders(c)
      BY <2>1, <2>2, <2>3 DEF Holders
    <2> QED BY <2>2, <2>4, <2>5 DEF Permits
  <1>4. CASE AuthMiddleware(p)
    BY <1>2, <1>4, PermitsGate DEF AuthMiddleware
  <1>5. CASE MFAPendingMiddleware(p)
    BY <1>2, <1>5, PermitsGate DEF MFAPendingMiddleware
  <1>6. CASE CheckState(p)
    <2>1. PICK open : Gate(p, open, q)
      BY <1>6 DEF CheckState, q
    <2> QED BY <1>2, <2>1, PermitsGate
  <1>7. CASE RateLimit(p)
    <2>1. PICK open : Gate(p, open, r)
      BY <1>7 DEF RateLimit
    <2> QED BY <1>2, <2>1, PermitsGate
  <1>8. CASE SudoMiddleware(p) \/ RequirePermission(p) \/ VerifyForJake(p) \/ CheckInput(p) \/ ctxUserID(p)
    <2>1. PICK open : Gate(p, open, r)
      BY <1>8 DEF SudoMiddleware, RequirePermission, VerifyForJake, CheckInput, ctxUserID
    <2> QED BY <1>2, <2>1, PermitsGate
  <1>9. CASE Serve(p)
    BY <1>9, PermitsAnswer DEF Serve
  <1> QED BY <1>3, <1>4, <1>5, <1>6, <1>7, <1>8, <1>9, PermitsCluster

LEMMA PermitsStay == ASSUME Permits, UNCHANGED <<permits, req>> PROVE Permits'
  BY DEF Permits, Holders, Past

LEMMA LimitersInit == ASSUME Init PROVE Buckets /\ Permits
  <1>1. Buckets
    BY InvInit, BucketsInit
  <1>2. permits = [r \in Replicas |-> Capacity] /\ req = [p \in Requests |-> Idle] /\ ~Idle.holds
    BY DEF Init, Idle
  <1>3. \A r : Holders(r) = {}
    BY <1>2 DEF Holders
  <1>4. Cardinality({}) = 0 /\ Capacity + 0 = Capacity /\ Capacity \in Nat
    <2>1. Cardinality({}) = 0
      BY FS_EmptySet
    <2>2. Capacity \in Nat
      BY Constants
    <2> QED BY <2>1, <2>2, SMT
  <1>5. Permits
    BY <1>2, <1>3, <1>4 DEF Permits
  <1> QED BY <1>1, <1>5

LEMMA LimitersNext == ASSUME Inv, Buckets, Permits, [Next]_vars PROVE Buckets' /\ Permits'
  <1>1. ASSUME NEW p \in Requests,
               \/ Arrive(p) \/ AuthMiddleware(p) \/ MFAPendingMiddleware(p) \/ CheckState(p)
               \/ RateLimit(p) \/ TOTPCluster(p) \/ SudoMiddleware(p) \/ RequirePermission(p)
               \/ VerifyForJake(p) \/ CheckInput(p) \/ ctxUserID(p) \/ Serve(p)
        PROVE  Buckets' /\ Permits'
    <2>1. Permits'
      BY <1>1, PermitsRequest
    <2>2. CASE RateLimit(p)
      BY <2>1, <2>2, BucketsRate
    <2>3. CASE UNCHANGED <<scene, limiter>>
      BY <2>1, <2>3, BucketsStay
    <2>4. RateLimit(p) \/ UNCHANGED <<scene, limiter>>
      BY <1>1 DEF Arrive, AuthMiddleware, MFAPendingMiddleware, CheckState, TOTPCluster,
         SudoMiddleware, RequirePermission, VerifyForJake, CheckInput, ctxUserID, Serve, world
    <2> QED BY <2>2, <2>3, <2>4
  <1>2. ASSUME NEW u \in Users, AssignRole(u) \/ Withdraw(u) PROVE Buckets' /\ Permits'
    <2>1. UNCHANGED <<scene, limiter, permits, req>>
      BY <1>2 DEF AssignRole, Withdraw, world
    <2> QED BY <2>1, BucketsStay, PermitsStay
  <1>3. ASSUME NEW r \in Replicas, sweep(r) PROVE Buckets' /\ Permits'
    <2>1. UNCHANGED <<permits, req>>
      BY <1>3 DEF sweep
    <2> QED BY <1>3, <2>1, BucketsSweep, PermitsStay
  <1>4. CASE Refill
    <2>1. UNCHANGED <<permits, req>>
      BY <1>4 DEF Refill
    <2> QED BY <1>4, <2>1, BucketsRefill, PermitsStay
  <1>5. CASE Tick \/ Rotate \/ Outage \/ UNCHANGED vars
    <2>1. UNCHANGED <<scene, limiter, permits, req>>
      BY <1>5 DEF Tick, Rotate, Outage, vars, world
    <2> QED BY <2>1, BucketsStay, PermitsStay
  <1> QED BY <1>1, <1>2, <1>3, <1>4, <1>5 DEF Next

\* The limiters neither lose nor give away, for any burst, refill rate, lifetime of
\* an entry, capacity and number of replicas, and with the store failing and
\* returning at any moment: the shared counter passes a burst per window and each
\* local bucket what it yields and what evictions granted it, which is nothing if
\* an entry lives as long as its bucket takes to fill (the configuration does not
\* see to that), and every permit of the concurrency limiter is free or held by
\* exactly one request (RateLimiter, ConcurrencyLimiter).
THEOREM LimitersAreExact == Spec => []LimitersExact
  <1>1. ASSUME Inv, Buckets, Permits PROVE LimitersExact
    <2>1. scene.burst \in Nat
      BY <1>1, Burst
    <2>2. passed[None] <= scene.burst /\ (age = 0 \/ age < Window)
      BY <1>1 DEF Buckets
    <2>3. ASSUME NEW r \in Replicas
          PROVE  /\ passed[r] <= scene.burst + age + granted[r]
                 /\ scene.burst <= EntryTTL => granted[r] = 0
      <3>1. /\ passed[r] \in Nat /\ age \in Nat /\ bucket[r] \in 0 .. scene.burst
            /\ granted[r] \in Nat /\ passed[r] + bucket[r] <= scene.burst + age + granted[r]
            /\ scene.burst <= EntryTTL => granted[r] = 0
        BY <1>1 DEF Buckets
      <3> QED BY <2>1, <3>1, SMT
    <2>4. \A r \in Replicas :
            permits[r] + Cardinality({p \in Requests : req[p].holds /\ req[p].replica = r}) = Capacity
      BY <1>1 DEF Permits, Holders
    <2> QED BY <2>2, <2>3, <2>4 DEF LimitersExact
  <1>2. Init => Buckets /\ Permits
    BY LimitersInit
  <1>3. Inv /\ Buckets /\ Permits /\ [Next]_vars => Buckets' /\ Permits'
    BY LimitersNext
  <1>4. Spec => [](Buckets /\ Permits)
    BY <1>2, <1>3, Invariance, PTL DEF Spec
  <1> QED BY <1>1, <1>4, Invariance, PTL
=============================================================================
