----------------------------- MODULE MCMemStore -----------------------------
EXTENDS MemStore

CONSTANTS k1, k2, k3, small, large

KeySymmetry == Permutations(Keys)

MCSizeOf(e) == IF e.val = small THEN 1 ELSE 3
=============================================================================
