--------------------------- MODULE MCAuditArchive ---------------------------
(***************************************************************************)
(* Small instances of AuditArchive for TLC.                                *)
(***************************************************************************)
EXTENDS AuditArchive, TLC

Symmetry == Permutations(Events)
=============================================================================
