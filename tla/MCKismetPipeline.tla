-------------------------- MODULE MCKismetPipeline --------------------------
EXTENDS KismetPipeline, TLC
Symmetry == Permutations(Workers)
=============================================================================
