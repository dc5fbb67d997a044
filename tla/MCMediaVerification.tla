------------------------- MODULE MCMediaVerification -------------------------
EXTENDS MediaVerification, TLC

Symmetry == Permutations(Workers)

=============================================================================
