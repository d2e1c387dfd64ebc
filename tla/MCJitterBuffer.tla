---------------------------- MODULE MCJitterBuffer ----------------------------
EXTENDS JitterBuffer, TLC

\* Which buffer is which and which thread is which makes no difference.
Symmetry == Permutations(Buffers) \cup Permutations(Players)
=============================================================================
