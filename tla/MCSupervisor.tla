---------------------------- MODULE MCSupervisor ----------------------------
\* Two launches of the same run; two GUI processes and two crashes, so that a crash is
\* followed by a recovery whose window, worker or controller may die in turn.
EXTENDS Supervisor
TwoLaunches == {1, 2}
=============================================================================
