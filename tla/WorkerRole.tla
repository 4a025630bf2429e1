----------------------------- MODULE WorkerRole -----------------------------
(***************************************************************************)
(* What the other processes of a run may rely on about the worker: it       *)
(* records one session at a time, writes how each one ended, and writes     *)
(* finished.ok last, only when it was asked to stop or a game has exited.   *)
(***************************************************************************)
VARIABLES session,   \* state of the latest session.json
          due,       \* a stop was requested or a game's exit was confirmed
          finished   \* finished.ok exists

vars == <<session, due, finished>>

Sessions == {"none", "active", "exited", "stopped", "stuck"}

Init == session = "none" /\ due = FALSE /\ finished = FALSE

Ask == due' = TRUE /\ UNCHANGED <<session, finished>>

Attach == /\ ~finished /\ session # "active"
          /\ session' = "active"
          /\ UNCHANGED <<due, finished>>

\* A session that could not be closed on disk is stuck: session.json stays active.
EndSession == /\ session = "active"
              /\ \/ session' = "exited" /\ due' = TRUE
                 \/ due /\ session' = "stopped" /\ UNCHANGED due
                 \/ session' = "stuck" /\ due' \in {due, TRUE}
              /\ UNCHANGED finished

Finish == /\ ~finished /\ due /\ session # "active"
          /\ finished' = TRUE
          /\ UNCHANGED <<session, due>>

Next == Ask \/ Attach \/ EndSession \/ Finish

Spec == Init /\ [][Next]_vars
=============================================================================
