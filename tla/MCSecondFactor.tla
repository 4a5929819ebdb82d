--------------------------- MODULE MCSecondFactor ---------------------------
EXTENDS SecondFactor, TLC

Symmetry == Permutations(Requests)

\* Codes and replay keys over time; and enrolment, rotation and removal.
MCScenes == {
  [kinds |-> {"validate", "viewRecoveryCodes"}, enrolled |-> TRUE, requests |-> 3, periods |-> 5],
  [kinds |-> Kinds, enrolled |-> TRUE, requests |-> 4, periods |-> 0],
  [kinds |-> Kinds, enrolled |-> FALSE, requests |-> 4, periods |-> 0]}

\* Enrolment alone.
MCEnrolment == {
  [kinds |-> {"enable", "verifyEnable"}, enrolled |-> FALSE, requests |-> 3, periods |-> 0]}
=============================================================================
