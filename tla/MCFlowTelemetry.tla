-------------------------- MODULE MCFlowTelemetry --------------------------
EXTENDS FlowTelemetry
Symmetry == Permutations(Keys)
=============================================================================
