-------------------------- MODULE MCSlidingWindow --------------------------
EXTENDS SlidingWindow, TLC

CONSTANTS h1, h2
Symmetry == Permutations(Hit)
=============================================================================
