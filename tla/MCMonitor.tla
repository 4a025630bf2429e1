------------------------------ MODULE MCMonitor ------------------------------
\* "game" lies under a game folder (preexistingGameCandidate), "tool" does not, "shell"
\* is a Wine service ignoredProcess refuses.  Two PIDs: one process can replace
\* another under its PID, or run beside it.
EXTENDS Monitor
MCPids == {11, 12}
TwoExes == {"game", "tool"}
ThreeExes == {"game", "tool", "shell"}
Shell == {"shell"}
NoExe == {}
Game == {"game"}
=============================================================================
