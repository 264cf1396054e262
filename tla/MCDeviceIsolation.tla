------------------------- MODULE MCDeviceIsolation -------------------------
EXTENDS DeviceIsolation, TLC
Symmetry == Permutations(Programs)
=============================================================================
