----------------------------- MODULE MCCapture -----------------------------
\* Two sources of at most two blocks: a copy can be torn, and the second source can be
\* an alias of the first.
EXTENDS Capture
=============================================================================
