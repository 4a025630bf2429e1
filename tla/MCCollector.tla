----------------------------- MODULE MCCollector -----------------------------
\* Two sessions of the run with a foreign one between them in name order: a session can
\* be archived, fail or begin while another one is visited, and either may come first.
EXTENDS Collector
MCSids == 1..3
MCForeign == {2}
NoSession == {}
FirstSession == {1}
=============================================================================
