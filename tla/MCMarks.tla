------------------------------- MODULE MCMarks -------------------------------
\* Three sessions, so that the window moves on between the steps of a mark; two presses and
\* three toggles, so that a later one meets what an earlier process has left.
EXTENDS Marks
=============================================================================
