----------------------------- MODULE MCPasskeys -----------------------------
EXTENDS Passkeys, TLC

Symmetry == Permutations(Requests)
=============================================================================
