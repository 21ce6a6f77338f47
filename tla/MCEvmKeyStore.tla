--------------------------- MODULE MCEvmKeyStore ---------------------------
\* The EVM key store with small sets of processes and keys.
EXTENDS EvmKeyStore, TLC

CONSTANTS p1, p2, a, b, c

TwoProcesses == {p1, p2}
ThreeKeys    == {a, b, c}
AllSlots     == ThreeKeys \cup {DefaultSlot}
NoSlots      == {}

Symmetry == Permutations(TwoProcesses) \cup Permutations(ThreeKeys)
=============================================================================
