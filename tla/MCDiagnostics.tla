---------------------------- MODULE MCDiagnostics ----------------------------
\* Two sessions: one is still recorded when the host finalizes the other.  Nothing tells
\* them apart.
EXTENDS Diagnostics, TLC
Symmetry == Permutations(Sids)
=============================================================================
