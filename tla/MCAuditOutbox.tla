--------------------------- MODULE MCAuditOutbox ---------------------------
(***************************************************************************)
(* Small instances of AuditOutbox for TLC.                                 *)
(***************************************************************************)
EXTENDS AuditRefinement, TLC

Symmetry == Permutations(Ops) \cup Permutations(Workers) \cup Permutations(Events)
=============================================================================
