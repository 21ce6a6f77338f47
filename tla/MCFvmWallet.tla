---------------------------- MODULE MCFvmWallet ----------------------------
\* The FVM wallet with three keys.
EXTENDS FvmWallet, TLC

Symmetry == Permutations(Keys)
=============================================================================
