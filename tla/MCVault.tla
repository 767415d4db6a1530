------------------------------- MODULE MCVault -------------------------------
EXTENDS Vault, TLC
CONSTANTS d1, d2, s1, s2, e1, e2, e3
Symmetry == Permutations(Seeds) \cup Permutations(EnclaveKeys) \cup Permutations(Devices)
===============================================================================
