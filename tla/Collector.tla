------------------------------ MODULE Collector ------------------------------
(***************************************************************************)
(* The Termux host of GPU Lab (run_loop, Collector and create_return of      *)
(* gpu_lab_collector.py) beside the Windows side, which it sees only as      *)
(* files: session directories, started.ok, finished.ok, bat-exit.txt and the *)
(* age of run-status.json.  The Windows side is an environment here: it may  *)
(* begin, end or abandon a session between any two steps of the host.        *)
(*                                                                         *)
(* Sessions are numbered in the order of their directory names, which is the *)
(* order tick and finalize visit them in, not the order they begin in.       *)
(*                                                                         *)
(* A retry of archive_session never packs the bytes of the attempt before:   *)
(* the packed tree holds collector-events.jsonl, to which the failure itself *)
(* was appended.  So an archive left by a failed attempt makes               *)
(* pack_immutable (module Publication) raise.                                *)
(***************************************************************************)
EXTENDS Naturals, FiniteSets, FiniteSetsExt

CONSTANTS Sids,            \* session directories under Logs/, by name
          Foreign,         \* those of another run or token
          Unanchored,      \* those whose name does not start with the EXE the host expects
          MaxFaults,       \* bound: failing file operations in a behaviour
          MaxInterrupts    \* bound: Ctrl-C in a behaviour

ASSUME SidsAssumption == Sids \subseteq Nat /\ IsFiniteSet(Sids)
ASSUME KindsAssumption == Foreign \subseteq Sids /\ Unanchored \subseteq Sids
ASSUME BoundsAssumption == MaxFaults \in Nat /\ MaxInterrupts \in Nat

VARIABLES
  \* the files of the Windows side
  win,          \* session.json: absent, active, exited, stopped (finished, by reason)
  aged,         \* sessions whose ended_at is at least 22 s old
  worker,       \* off, idle, attaching, recording, done, dead
  finishedOk, batExit, stale,
  stop,         \* stop.request: none, windows or host (who created it)
  \* the host's files
  zip,          \* sessions with Logs/<sid>.zip
  physical,     \* sessions with the whole evidence copied beside their telemetry
  record,       \* sessions with ARCHIVED-<sid>.json
  noGame,       \* NO-GAME-<run>.zip: none, zip (only the archive), recorded
  ret,          \* the RETURN: absent, truncated, whole
  rows,         \* the sessions RETURN-INDEX.json lists
  emergency,    \* an emergency RETURN exists
  \* the host's memory
  pc,
  todo,         \* sessions still to visit of the listing in use
  cur,          \* the session archive_session works on
  inFinal,      \* inside guarded_finalize
  seen, endSeen,
  archived,     \* self.archived; NO_GAME_DETECTED is in it when noGame = recorded
  deadline,     \* postgame_deadline: none, running, passed
  reason,       \* why guarded_finalize was called; START: the host never got to its loop
  rounds,       \* _finalized_attempted: none, first; later: a second one or a loop resumed
  caught,       \* the except clause of run_loop that runs: none, error, interrupt
  error,        \* what guarded_finalize will raise: none, os (an OSError), other
  cut,          \* (auxiliary) the loop of this finalize ended by an exception
  failed,       \* (auxiliary) sessions whose archiving raised in this finalize
  faults, interrupts

windows == <<win, aged, worker, finishedOk, batExit, stale, stop>>
files == <<zip, physical, record, noGame>>
returns == <<ret, rows, emergency>>
progress == <<seen, endSeen, archived, deadline>>
final == <<inFinal, reason, rounds, error, cut, failed>>
place == <<todo, cur>>
budget == <<faults, interrupts>>
vars == <<windows, files, returns, progress, final, caught, place, pc, budget>>

NoSid == 0
Own == Sids \ Foreign
Archiving == {"build", "pack", "copy", "record", "note"}

TypeOK == /\ win \in [Sids -> {"absent", "active", "exited", "stopped"}]
          /\ aged \subseteq Sids
          /\ worker \in {"off", "idle", "attaching", "recording", "done", "dead"}
          /\ {finishedOk, batExit, stale} \subseteq BOOLEAN
          /\ stop \in {"none", "windows", "host"}
          /\ zip \subseteq Sids /\ physical \subseteq Sids
          /\ record \subseteq Sids /\ rows \subseteq Sids
          /\ noGame \in {"none", "zip", "recorded"}
          /\ {emergency, inFinal, cut} \subseteq BOOLEAN
          /\ ret \in {"absent", "truncated", "whole"}
          /\ pc \in Archiving \cup
                    {"start", "tick", "visit", "report", "markers", "fallback", "stale",
                     "except", "finalize", "nogame", "return", "pour", "confirm",
                     "emergency", "finish", "end"}
          /\ todo \subseteq Sids
          /\ cur \in IF pc \in Archiving THEN Sids ELSE {NoSid}
          /\ seen \subseteq Sids /\ failed \subseteq Sids
          /\ endSeen \in [Sids -> {"no", "yes", "due"}]
          /\ archived \subseteq Sids
          /\ deadline \in {"none", "running", "passed"}
          /\ reason \in {"none", "START", "WINDOWS_FINISHED", "BAT_EXIT", "HOST_POSTGAME",
                         "STALE", "INTERRUPT", "EXCEPTION"}
          /\ rounds \in {"none", "first", "later"}
          /\ caught \in {"none", "error", "interrupt"}
          /\ error \in {"none", "os", "other"}
          /\ faults \in 0..MaxFaults /\ interrupts \in 0..MaxInterrupts

\* Sessions of other runs are there from the start.
Init == /\ win = [s \in Sids |-> IF s \in Foreign THEN "exited" ELSE "absent"]
        /\ aged = Foreign /\ worker = "off"
        /\ finishedOk = FALSE /\ batExit = FALSE /\ stale = FALSE /\ stop = "none"
        /\ zip = {} /\ physical = {} /\ record = {} /\ noGame = "none"
        /\ ret = "absent" /\ rows = {} /\ emergency = FALSE
        /\ pc = "start" /\ todo = {} /\ cur = NoSid
        /\ seen = {} /\ endSeen = [s \in Sids |-> "no"] /\ archived = {}
        /\ deadline = "none" /\ caught = "none"
        /\ inFinal = FALSE /\ reason = "none" /\ rounds = "none"
        /\ error = "none" /\ cut = FALSE /\ failed = {}
        /\ faults = 0 /\ interrupts = 0

Host == <<files, returns, progress, final, caught, place, pc, budget>>

-----------------------------------------------------------------------------
(* The Windows side (module Monitor has the real worker) and the clock.      *)

Finished(s) == win[s] \in {"exited", "stopped"}
Recording == {s \in Own : win[s] = "active"}

WorkerStart == /\ worker = "off"
               /\ worker' = "idle"
               /\ UNCHANGED <<win, aged, finishedOk, batExit, stale, stop, Host>>
\* 15 s after the last exit the worker takes no further game, so none begins once that
\* exit is 22 s old (a worker that needs the 7 s between to begin counts as hung).
TakesGames == \A s \in Own : win[s] = "exited" => s \notin aged
\* The loop has passed its stopFlag test and selected a game: the session appears next.
Attach == /\ worker = "idle" /\ stop = "none" /\ TakesGames
          /\ worker' = "attaching"
          /\ UNCHANGED <<win, aged, finishedOk, batExit, stale, stop, Host>>
Begin(s) == /\ worker = "attaching" /\ win[s] = "absent" /\ TakesGames
            /\ worker' = "recording"
            /\ win' = [win EXCEPT ![s] = "active"]
            /\ UNCHANGED <<aged, finishedOk, batExit, stale, stop, Host>>
GameExits(s) == /\ worker = "recording" /\ win[s] = "active" /\ s \in Own
                /\ worker' = "idle"
                /\ win' = [win EXCEPT ![s] = "exited"]
                /\ UNCHANGED <<aged, finishedOk, batExit, stale, stop, Host>>
StopObserved(s) == /\ worker = "recording" /\ win[s] = "active" /\ s \in Own
                   /\ stop # "none"
                   /\ worker' = "idle"
                   /\ win' = [win EXCEPT ![s] = "stopped"]
                   /\ UNCHANGED <<aged, finishedOk, batExit, stale, stop, Host>>
\* The end of the session could not be written: the worker goes on without it.
SessionStuck(s) == /\ worker = "recording" /\ win[s] = "active" /\ s \in Own
                   /\ worker' = "idle"
                   /\ UNCHANGED <<win, aged, finishedOk, batExit, stale, stop, Host>>
WorkerFinishes == /\ worker = "idle"
                  /\ stop # "none" \/ \E s \in Own : win[s] # "absent"
                  /\ worker' = "done" /\ finishedOk' = TRUE
                  /\ UNCHANGED <<win, aged, batExit, stale, stop, Host>>
\* A crash, or a hang: the session it was recording stays active.
WorkerDies == /\ worker \in {"idle", "attaching", "recording"}
              /\ worker' = "dead"
              /\ UNCHANGED <<win, aged, finishedOk, batExit, stale, stop, Host>>
\* The GUI or a hotkey.
UserStops == /\ stop = "none" /\ worker # "off"
             /\ stop' = "windows"
             /\ UNCHANGED <<win, aged, worker, finishedOk, batExit, stale, Host>>
\* The BAT reports the controller's exit, which may leave the worker behind.
ControllerExits == /\ ~batExit
                   /\ batExit' = TRUE
                   /\ UNCHANGED <<win, aged, worker, finishedOk, stale, stop, Host>>
\* Nothing was written to run-status.json for 90 s, nor is anything later.
HeartbeatStale == /\ worker # "off" /\ ~stale
                  /\ stale' = TRUE
                  /\ UNCHANGED <<win, aged, worker, finishedOk, batExit, stop, Host>>
Age(s) == /\ Finished(s) /\ s \notin aged /\ ~inFinal
          /\ aged' = aged \cup {s}
          /\ UNCHANGED <<win, worker, finishedOk, batExit, stale, stop, Host>>

\* The host's own timers: the grace of a finished session, the 7 s after the request.
GracePasses(s) == /\ endSeen[s] = "yes" /\ ~inFinal
                  /\ endSeen' = [endSeen EXCEPT ![s] = "due"]
                  /\ UNCHANGED <<windows, files, returns, seen, archived, deadline, final,
                                 caught, place, pc, budget>>
SevenSeconds == /\ deadline = "running" /\ ~inFinal
                /\ deadline' = "passed"
                /\ UNCHANGED <<windows, files, returns, seen, endSeen, archived, final,
                               caught, place, pc, budget>>

\* While guarded_finalize runs the host reads no marker and no timer, and after its end
\* nothing of Windows: what happens there then is left out of the behaviours.
Environment ==
  \/ pc # "end" /\ \/ WorkerStart \/ Attach \/ WorkerDies
                   \/ \E s \in Own : \/ Begin(s) \/ GameExits(s)
                                     \/ StopObserved(s) \/ SessionStuck(s)
  \/ ~inFinal /\ (WorkerFinishes \/ UserStops \/ ControllerExits \/ HeartbeatStale)
Clock == SevenSeconds \/ \E s \in Sids : Age(s) \/ GracePasses(s)

-----------------------------------------------------------------------------
(* Failures.                                                                 *)

Fault == faults < MaxFaults /\ faults' = faults + 1

Leave(step) == pc' = step /\ cur' = NoSid

\* _finalized_attempted is set, whatever comes of it.
GuardedFinalize(why) == /\ pc' = "finalize"
                        /\ reason' = why
                        /\ inFinal' = TRUE
                        /\ rounds' = IF rounds = "none" THEN "first" ELSE "later"
                        /\ error' = "none" /\ cut' = FALSE /\ failed' = {}

\* An exception reaches the except clauses of run_loop.
Throw(kind) == /\ pc' = "except"
               /\ caught' = kind
               /\ inFinal' = FALSE
               /\ todo' = {} /\ cur' = NoSid
               /\ UNCHANGED <<reason, rounds, error, cut, failed>>

\* archive_session raises.  finalize catches anything, tick lets it pass to run_loop,
\* which survives an OSError or a ValueError only.  Both handlers write to the log next.
FragileRaised(fatal) ==                    \* seeded defect: finalize gives up like tick
  /\ todo' = {}
  /\ Leave("report")
  /\ UNCHANGED <<final, caught>>
Raised(fatal) ==
  \/ /\ inFinal
     /\ failed' = failed \cup {cur}
     /\ Leave("report")
     /\ UNCHANGED <<reason, inFinal, rounds, error, cut, caught, todo>>
  \/ /\ ~inFinal /\ ~fatal
     /\ todo' = {}
     /\ Leave("report")
     /\ UNCHANGED <<final, caught>>
  \/ ~inFinal /\ fatal /\ Throw("error")
StepFails == Fault /\ \E fatal \in BOOLEAN : Raised(fatal)
GoOn(step) == pc' = step /\ UNCHANGED <<todo, cur, final, caught, faults>>

\* Ctrl-C while the host starts or inside an except clause ends the process; in run_loop's
\* try it leads to (another) guarded_finalize.  create_return removes a RETURN it has
\* copied and not verified yet.
Interrupt ==
  /\ interrupts < MaxInterrupts /\ pc # "end"
  /\ interrupts' = interrupts + 1
  /\ ret' = IF pc = "confirm" THEN "absent" ELSE ret
  /\ \/ /\ pc # "start" /\ caught = "none"
        /\ Throw("interrupt")
     \/ /\ pc = "start" \/ caught # "none"
        /\ todo' = {} /\ Leave("end")
        /\ reason' = IF pc = "start" THEN "START" ELSE reason
        /\ UNCHANGED <<inFinal, rounds, error, cut, failed, caught>>
  /\ UNCHANGED <<windows, files, rows, emergency, progress, faults>>

-----------------------------------------------------------------------------
(* The start: Collector's constructor and the first log are in no try.       *)

Start == /\ pc = "start"
         /\ \/ pc' = "tick" /\ UNCHANGED <<reason, faults>>
            \/ Fault /\ pc' = "end" /\ reason' = "START"
         /\ UNCHANGED <<windows, files, returns, progress, inFinal, rounds, error, cut,
                        failed, caught, place, interrupts>>

-----------------------------------------------------------------------------
(* tick and the loop of finalize: the sessions in the order of their names.  *)

\* get_sessions, without those the loops pass over at once: what is in self.archived, and
\* what session.json ascribes to another run or token.
Listed == {s \in Sids : win[s] # "absent"} \ (archived \cup Foreign)

\* Metrics, diagnostics and the listing; any of them may fail.
Tick == /\ pc = "tick"
        /\ \/ todo' = Listed /\ pc' = "visit" /\ UNCHANGED <<cur, final, caught, faults>>
           \/ StepFails
        /\ UNCHANGED <<windows, files, returns, progress, interrupts>>

First == Min(todo)

\* A session is discovered, its end is noted, and after the grace it is archived.
VisitInTick ==
  /\ pc = "visit" /\ ~inFinal /\ todo # {}
  /\ \/ /\ seen' = seen \cup {First}
        /\ todo' = todo \ {First}
        /\ IF Finished(First) /\ endSeen[First] = "no"
           THEN endSeen' = [endSeen EXCEPT ![First] = "yes"]
           ELSE UNCHANGED endSeen
        /\ IF Finished(First) /\ endSeen[First] = "due"
           THEN cur' = First /\ pc' = "build"
           ELSE UNCHANGED <<cur, pc>>
        /\ UNCHANGED <<final, caught, faults>>
     \/ /\ Fault                                  \* session_metadata_unreadable
        /\ todo' = todo \ {First}
        /\ UNCHANGED <<seen, endSeen, final, caught, cur, pc>>
     \/ /\ StepFails                              \* the log of its discovery
        /\ seen' = seen \cup {First}
        /\ UNCHANGED endSeen
  /\ UNCHANGED <<windows, files, returns, archived, deadline, interrupts>>

\* finalize archives whatever is left, finished or not (forced_partial).
VisitInFinal ==
  /\ pc = "visit" /\ inFinal /\ todo # {}
  /\ cur' = First
  /\ todo' = todo \ {First}
  /\ pc' = "build"
  /\ UNCHANGED <<windows, files, returns, progress, final, caught, budget>>

\* finalize stops the diagnostics next; the log of their failure may raise.
VisitDone ==
  /\ pc = "visit" /\ todo = {}
  /\ \/ pc' = (IF inFinal THEN "nogame" ELSE "markers") /\ UNCHANGED <<error, faults>>
     \/ inFinal /\ Fault /\ error' = "os" /\ pc' = "return"
  /\ UNCHANGED <<windows, files, returns, progress, inFinal, reason, rounds, cut, failed,
                 caught, place, interrupts>>

\* finalize raises in its loop: neither the sessions left nor diagnostics_only get a turn.
CutShort == /\ error' = "os" /\ cut' = TRUE
            /\ todo' = {} /\ Leave("return")
            /\ UNCHANGED <<reason, inFinal, rounds, failed, caught>>

\* The handlers' own log: partial_archive_failed, collector_tick_partial_error.
Report ==
  /\ pc = "report"
  /\ \/ GoOn(IF inFinal THEN "visit" ELSE "markers")
     \/ inFinal /\ Fault /\ CutShort
     \/ ~inFinal /\ Fault /\ Throw("error")
  /\ UNCHANGED <<windows, files, returns, progress, interrupts>>

-----------------------------------------------------------------------------
(* archive_session                                                           *)

archiving == <<windows, returns, seen, endSeen, deadline, interrupts>>

\* The staging tree is built from both sides and the name is checked against the EXE.
Build ==
  /\ pc = "build"
  /\ \/ cur \notin Unanchored /\ GoOn("pack")
     \/ cur \in Unanchored /\ Raised(FALSE) /\ UNCHANGED faults
     \/ StepFails
  /\ UNCHANGED <<archiving, files, archived>>

\* pack_immutable (module Publication): an error may leave a file under the name, and
\* an earlier attempt's file makes it raise.
Pack ==
  /\ pc = "pack"
  /\ \/ cur \notin zip /\ zip' = zip \cup {cur} /\ GoOn("copy")
     \/ /\ cur \in zip /\ \E truncated \in BOOLEAN : Raised(truncated)
        /\ UNCHANGED <<zip, faults>>
     \/ StepFails /\ zip' \in {zip, zip \cup {cur}}
  /\ UNCHANGED <<archiving, physical, record, noGame, archived>>

\* Android/, Control/ and META/ are copied beside the Windows telemetry.
CopyEvidence ==
  /\ pc = "copy"
  /\ \/ physical' = physical \cup {cur} /\ GoOn("record")
     \/ StepFails /\ UNCHANGED physical
  /\ UNCHANGED <<archiving, zip, record, noGame, archived>>

\* ARCHIVED-<sid>.json is archive_session's last act.
EarlyRecord ==                    \* seeded defect: recorded before it is copied
  /\ pc = "build" /\ cur \notin Unanchored
  /\ record' = record \cup {cur}
  /\ archived' = archived
  /\ GoOn("pack")
  /\ UNCHANGED <<archiving, zip, physical, noGame>>
Record ==
  /\ pc = "record"
  /\ \/ record' = record \cup {cur} /\ GoOn("note")
     \/ StepFails /\ UNCHANGED record
  /\ UNCHANGED <<archiving, zip, physical, noGame, archived>>

\* self.archived.add(sid) in the caller, then the log.
Note ==
  /\ pc = "note"
  /\ archived' = archived \cup {cur}
  /\ \/ Leave("visit") /\ UNCHANGED <<todo, final, caught, faults>>
     \/ Fault /\ Raised(FALSE)
  /\ UNCHANGED <<archiving, files>>

-----------------------------------------------------------------------------
(* The rest of run_loop's cycle: any of its file operations may raise.       *)

still == <<windows, files, returns, seen, endSeen, archived, interrupts>>
Breaks == Fault /\ Throw("error")
Finalize(why) == GuardedFinalize(why) /\ UNCHANGED <<caught, place, faults>>

\* finished.ok with the run's token, then bat-exit.txt.
DeafMarkers ==                    \* seeded defect: bat-exit.txt is not looked for
  /\ pc = "markers"
  /\ \/ finishedOk /\ Finalize("WINDOWS_FINISHED")
     \/ ~finishedOk /\ GoOn("fallback")
  /\ UNCHANGED <<still, deadline>>
ReadMarkers ==
  /\ pc = "markers"
  /\ \/ finishedOk /\ Finalize("WINDOWS_FINISHED")
     \/ ~finishedOk /\ batExit /\ Finalize("BAT_EXIT")
     \/ ~finishedOk /\ ~batExit /\ GoOn("fallback")
     \/ Breaks
  /\ UNCHANGED <<still, deadline>>

\* completed_current_sessions: what the last tick discovered is archived, its games
\* exited, the latest one at least 22 s ago.
CompletedCurrentSessions ==
  /\ archived # {} /\ noGame # "recorded"
  /\ seen = archived
  /\ \A s \in seen : win[s] = "exited" /\ s \in aged

\* The safety net: ask the worker to stop, and close the run 7 s later unless the
\* condition has gone.  stop.request is created exclusively: one that is there is kept,
\* and once written it is never taken back.
ForgetfulFallback ==                    \* seeded defect: the deadline is not remembered
  /\ pc = "fallback"
  /\ stop' = IF CompletedCurrentSessions /\ stop = "none" THEN "host" ELSE stop
  /\ GoOn("stale")
  /\ UNCHANGED <<win, aged, worker, finishedOk, batExit, stale, files, returns, seen,
                 endSeen, archived, deadline, interrupts>>
Fallback ==
  /\ pc = "fallback"
  /\ \/ /\ CompletedCurrentSessions /\ deadline = "none"
        /\ deadline' = "running"
        /\ stop' = IF stop = "none" THEN "host" ELSE stop
        /\ GoOn("stale")
     \/ /\ CompletedCurrentSessions /\ deadline = "none"
        /\ deadline' = "running"
        /\ stop = "none" /\ stop' \in {"none", "host"}  \* ..._request_failed
        /\ Fault
        /\ pc' = "stale" /\ UNCHANGED <<place, final, caught>>
     \/ /\ CompletedCurrentSessions /\ deadline = "running"
        /\ GoOn("stale")
        /\ UNCHANGED <<deadline, stop>>
     \/ /\ CompletedCurrentSessions /\ deadline = "passed"
        /\ Finalize("HOST_POSTGAME")
        /\ UNCHANGED <<deadline, stop>>
     \/ /\ ~CompletedCurrentSessions
        /\ deadline' = "none"
        /\ GoOn("stale")
        /\ UNCHANGED stop
     \/ /\ Fault                                        \* a session.json is unreadable
        /\ deadline' = "none"
        /\ pc' = "stale" /\ UNCHANGED <<stop, place, final, caught>>
     \/ Breaks /\ UNCHANGED <<deadline, stop>>          \* one of its logs
  /\ UNCHANGED <<win, aged, worker, finishedOk, batExit, stale, files, returns, seen,
                 endSeen, archived, interrupts>>

\* run-status.json more than 90 s old; otherwise, or after an OSError, tick again.
CheckHeartbeat ==
  /\ pc = "stale"
  /\ \/ stale /\ Finalize("STALE")
     \/ ~stale /\ GoOn("tick")
     \/ stale /\ Fault /\ pc' = "tick" /\ UNCHANGED <<place, final, caught>>
  /\ UNCHANGED <<still, deadline>>

\* The except clauses: the log first; then an interrupt always finalizes, any other
\* exception only if guarded_finalize has not been tried.
Handle ==
  /\ pc = "except"
  /\ \/ caught = "interrupt" /\ Finalize("INTERRUPT")
     \/ caught = "error" /\ rounds = "none" /\ Finalize("EXCEPTION")
     \/ caught = "error" /\ rounds # "none" /\ GoOn("end")
     \/ Fault /\ pc' = "end" /\ UNCHANGED <<place, final, caught>>
  /\ UNCHANGED <<still, deadline>>

-----------------------------------------------------------------------------
(* guarded_finalize                                                          *)

StartFinalize ==
  /\ pc = "finalize"
  /\ \/ /\ todo' = Listed
        /\ pc' = "visit"
        /\ UNCHANGED <<final, caught, cur, faults>>
     \/ Fault /\ CutShort
  /\ UNCHANGED <<windows, files, returns, progress, interrupts>>

\* diagnostics_only: a NO-GAME archive if nothing was archived.  Its error is raised
\* again after the RETURN.
AlwaysDiagnostics ==                    \* seeded defect: self.archived is not consulted
  /\ pc = "nogame"
  /\ pc' = "return"
  /\ noGame' = "recorded"
  /\ UNCHANGED <<windows, zip, physical, record, returns, progress, final, caught, place,
                 budget>>
DiagnosticsOnly ==
  /\ pc = "nogame"
  /\ pc' = "return"
  /\ \/ /\ archived # {} \/ noGame = "recorded"
        /\ UNCHANGED <<noGame, error, faults>>
     \/ /\ archived = {} /\ noGame = "none"
        /\ \/ noGame' = "recorded" /\ UNCHANGED <<error, faults>>
           \/ /\ Fault
              /\ error' \in {"os", "other"}
              /\ noGame' \in {"none", "zip", "recorded"}
     \/ /\ archived = {} /\ noGame = "zip"    \* packed again with more events: divergent
        /\ error' = "other"
        /\ UNCHANGED <<noGame, faults>>
  /\ UNCHANGED <<windows, zip, physical, record, returns, progress, inFinal, reason,
                 rounds, cut, failed, caught, place, interrupts>>

\* create_return: an existing RETURN is verified and kept.  A record that cannot be read
\* loses its row.
OpenReturn ==
  /\ pc = "return"
  /\ \/ ret = "whole" /\ pc' = "finish" /\ UNCHANGED <<ret, rows, faults>>
     \/ ret = "truncated" /\ pc' = "emergency" /\ UNCHANGED <<ret, rows, faults>>
     \/ /\ ret = "absent"
        /\ \/ rows' = record \cap zip /\ UNCHANGED faults
           \/ Fault /\ \E s \in record : rows' = (record \cap zip) \ {s}
        /\ ret' = "truncated"                  \* dest.open("xb"), before the first byte
        /\ pc' = "pour"
     \/ /\ Fault
        /\ pc' = "emergency"
        /\ UNCHANGED <<ret, rows>>
  /\ UNCHANGED <<windows, files, progress, final, caught, emergency, place, interrupts>>

\* The copy into the final name.  "published" is still False here, so an error leaves
\* what was written under that name.
PourReturn ==
  /\ pc = "pour"
  /\ \/ ret' = "whole" /\ pc' = "confirm" /\ UNCHANGED faults
     \/ Fault /\ pc' = "emergency" /\ UNCHANGED ret
  /\ UNCHANGED <<windows, files, progress, final, caught, rows, emergency, place, interrupts>>

\* The copy is verified, and removed if that fails (a removal that fails leaves it).
ConfirmReturn ==
  /\ pc = "confirm"
  /\ \/ pc' = "finish" /\ UNCHANGED <<ret, faults>>
     \/ Fault /\ ret' \in {"absent", "whole"} /\ pc' = "emergency"
  /\ UNCHANGED <<windows, files, progress, final, caught, rows, emergency, place, interrupts>>

NoEmergency ==                    \* seeded defect: a failed RETURN ends the run
  /\ pc = "emergency"
  /\ pc' = "finish"
  /\ UNCHANGED <<windows, files, ret, rows, emergency, progress, final, caught, place, budget>>
EmergencyArchive ==
  /\ pc = "emergency"
  /\ pc' = "finish"
  /\ \/ emergency' = TRUE /\ UNCHANGED <<error, faults>>
     \/ /\ Fault
        /\ error' \in IF error = "none" THEN {"os", "other"} ELSE {error}
        /\ UNCHANGED emergency
  /\ UNCHANGED <<windows, files, ret, rows, progress, inFinal, reason, rounds, cut, failed,
                 caught, place, interrupts>>

\* guarded_finalize returns or raises, and the host ends; but the OSErrors of the
\* heartbeat check are ignored, those of its guarded_finalize included: the loop goes on.
EndFinalize ==
  /\ pc = "finish"
  /\ IF reason = "STALE" /\ error = "os"
     THEN pc' = "tick" /\ inFinal' = FALSE /\ rounds' = "later"
     ELSE pc' = "end" /\ UNCHANGED <<inFinal, rounds>>
  /\ UNCHANGED <<windows, files, returns, progress, reason, error, cut, failed, caught,
                 place, budget>>

-----------------------------------------------------------------------------
Step == \/ Start \/ Tick \/ VisitInTick \/ VisitInFinal \/ VisitDone \/ Report
        \/ Build \/ Pack \/ CopyEvidence \/ Record \/ Note
        \/ ReadMarkers \/ Fallback \/ CheckHeartbeat \/ Handle
        \/ StartFinalize \/ DiagnosticsOnly \/ OpenReturn \/ PourReturn \/ ConfirmReturn
        \/ EmergencyArchive \/ EndFinalize

Next == Step \/ Interrupt \/ Clock \/ Environment

Spec == Init /\ [][Next]_vars
\* The host is scheduled and clocks advance; nothing is asked of the Windows side.
FairSpec == /\ Spec
            /\ WF_vars(Step)
            /\ WF_vars(SevenSeconds)
            /\ \A s \in Sids : WF_vars(Age(s)) /\ WF_vars(GracePasses(s))

-----------------------------------------------------------------------------
\* When the run ended by the worker's own finished.ok, no session was forgotten: each
\* one is archived or its own archiving failed, whatever happened to the others.  Only
\* an error of the listing or of the handler's log (cut, which the RETURN's trigger then
\* names) and a Ctrl-C end finalize's loop early.
NothingForgotten ==
  pc = "end" /\ reason = "WINDOWS_FINISHED" /\ ~cut /\ caught = "none" =>
    \A s \in Own : win[s] = "absent" \/ s \in archived \/ s \in failed

\* RETURN-INDEX.json lists only sessions of this run whose archive is published and
\* whose evidence is complete in the session's directory.
ReturnIsTruthful == rows \subseteq zip \cap physical \cap Own

\* Once the host has started, one failure, a file error or a Ctrl-C wherever it strikes,
\* never loses the RETURN: the normal one or the emergency one is there when the host
\* ends.  (START: the constructor and the first log are outside every handler.)
OneFailureKeepsReturn ==
  pc = "end" /\ faults + interrupts <= 1 /\ reason # "START" => ret = "whole" \/ emergency

\* A NO-GAME archive and a session's archive record exclude each other, until a
\* finalization that had nothing to show is repeated or followed by more ticks; but a
\* Ctrl-C after a session's record and before archived.add makes finalize archive that
\* session again, which fails.
NoGameExcludesGames ==
  noGame = "recorded" /\ rounds # "later" => record \subseteq failed

\* Once a marker or a stale heartbeat tells the host that Windows is over, it ends.
HostTerminates == finishedOk \/ batExit \/ stale ~> pc = "end"

\* The safety net: when every session has exited and is archived, the host ends even if
\* no marker ever comes, unless a new session begins ("evita espera sem fim no Termux").
\* A loop resumed after a finalize may wait: a session archived there was never "seen".
AllGamesOver == /\ archived # {} /\ noGame # "recorded"
                /\ \A s \in Own : \/ win[s] = "absent"
                                  \/ win[s] = "exited" /\ s \in archived
SafetyNet == AllGamesOver ~> pc = "end" \/ ~AllGamesOver \/ rounds = "later"

\* completed_current_sessions: "Refuse to stop while any session is active/unarchived".
StopIsVetoed ==
  [][stop # "host" /\ stop' = "host" =>
       \A s \in Own : win[s] = "absent" \/ (Finished(s) /\ s \in archived)]_vars
=============================================================================
