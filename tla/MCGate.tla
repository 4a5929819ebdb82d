------------------------------- MODULE MCGate -------------------------------
EXTENDS Gate, TLC

CONSTANTS u1, u2, t1, t2

MCTenant == u1 :> t1 @@ u2 :> t2
MCTTL == [type \in {"access", "mfa_pending", "sudo", "verify-email"} |->
            IF type = "verify-email" THEN 5 ELSE IF type = "mfa_pending" THEN 1 ELSE 2]

Scene(routes, calls, burst, first, held, roles, events) ==
  [routes |-> routes, calls |-> calls, burst |-> burst, first |-> first,
   grants |-> [u \in Users |-> IF u = u1 THEN held ELSE {}],
   roles |-> roles, events |-> events]

Of(type, u) == [type |-> type, user |-> u]
Each(type) == {Of(type, u) : u \in Users}

MCScenes == {
  \* every endpoint once
  Scene(Routes, 1, 2, {Of("access", u1), Of("mfa_pending", u1), Of("sudo", u1)},
        Permissions \cup {"chat:read"}, {}, {}),
  \* tokens ended, and grants changed, while requests are on their way
  Scene({Logout, ForceLogout, Introspect}, 2, 2,
        {Of("access", u1)}, {"users:write", "chat:read"}, {{"users:write"}}, {"assign", "withdraw"}),
  Scene({Login, LogoutAll, Me}, 3, 3, Each("access"), {}, {}, {}),
  Scene({Refresh, RevokeSession, Logout, DeactivateAccount}, 3, 3, {Of("access", u1)}, {}, {}, {}),
  \* elevation, over time
  Scene({ViewRecoveryCodes, RegenerateRecoveryCodes}, 2, 2, Each("access"), {}, {}, {"time"}),
  \* rotations
  Scene({Login, Register}, 2, 2, {Of("access", u1)}, {}, {}, {"time", "rotate"}),
  \* the limiters
  Scene({CompleteMFALogin, GoogleLogin}, 4, 1, {Of("mfa_pending", u1)}, {}, {}, {"outage", "refill"}),
  Scene({GoogleLogin}, 4, 2, {}, {}, {}, {"outage", "refill"}),
  \* an entry that does not live as long as its bucket takes to fill
  Scene({GoogleLogin}, 5, 4, {}, {}, {}, {"outage", "refill"})}

MCRotation == {Scene({Register}, 1, 2, {}, {}, {}, {"time", "rotate"})}

Symmetry == Permutations(Requests)
=============================================================================
