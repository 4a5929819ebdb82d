---------------------------- MODULE MCSingleUse ----------------------------
(***************************************************************************)
(* Small instances of SingleUse for TLC.                                   *)
(***************************************************************************)
EXTENDS SingleUse, TLC

Symmetry == Permutations(Tokens) \cup Permutations(Requests)
=============================================================================
