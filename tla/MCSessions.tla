----------------------------- MODULE MCSessions -----------------------------
EXTENDS Sessions, TLC

Symmetry == Permutations(Sids) \cup Permutations(Pairs) \cup Permutations(Requests)

Scene(offered, sids, pairs, version, loses, flush) ==
  [offered |-> offered, sids |-> sids, pairs |-> pairs, version |-> version,
   loses |-> loses, flush |-> flush]

\* Rotations against the requests that end one family, with a store that loses
\* its keys; logins and rotations against those that end all of them; errors
\* that the handlers drop, with the statement or with the transaction.
MCScenes == {
  Scene({"factor", "refresh", "revokeSession"}, 1, 3, 0, {}, TRUE),
  Scene({"factor", "refresh", "logout", "revokeSession"}, 1, 2, 0, {}, TRUE),
  Scene({"login", "refresh", "logoutAll", "changePassword"}, 2, 2, 1, {}, FALSE),
  Scene({"login", "refresh", "changeEmail"}, 1, 2, 1, {}, FALSE),
  Scene({"factor", "refresh", "deactivate"}, 1, 2, 1, {"statement"}, FALSE),
  Scene({"factor", "refresh", "logout"}, 1, 2, 0, {"statement", "transaction"}, FALSE),
  Scene({"factor", "refresh", "logout", "revokeSession"}, 1, 2, 0, {"transaction"}, FALSE)}

\* For the statements of the documentation and the comments that the code does
\* not meet.
MCTheft == {Scene({"factor", "refresh"}, 2, 3, 0, {}, FALSE)}
MCPassword == {Scene({"factor", "refresh", "changePassword"}, 1, 2, 1, {}, FALSE)}
MCEmail == {Scene({"factor", "refresh", "changeEmail"}, 1, 2, 1, {"statement"}, FALSE)}
MCDeadlock == {Scene({"factor", "refresh", "revokeSession"}, 1, 2, 0, {"transaction"}, FALSE)}
MCDeactivate == {Scene({"factor", "refresh", "deactivate", "revokeSession"}, 1, 2, 1, {"transaction"}, FALSE)}
=============================================================================
