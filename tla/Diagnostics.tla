---------------------------- MODULE Diagnostics ----------------------------
(***************************************************************************)
(* The driver diagnostics of GPU Lab (gpu_lab_diagnostics.py) inside the     *)
(* host's loop: one logcat per session, the thread that drains its pipe into *)
(* the session's directory, and the export of what was read into the tree    *)
(* that archive_session packs.  Logcat and the threads run on between any    *)
(* two steps of the host.                                                    *)
(*                                                                         *)
(* The host around it is the part of module Collector that calls it: a tick, *)
(* the finalization, a Ctrl-C, what they raise and where it is caught (its   *)
(* start is left out: there is no stream yet).  What only describes the      *)
(* device (sysfs, the kernel log, hashes), the filter and the list of errors *)
(* are left out; a failing write of any of these files is the failure of its *)
(* step (that of end-sysfs.json is caught at once).                          *)
(***************************************************************************)
EXTENDS Naturals

CONSTANTS Sids,            \* sessions of this run
          Limit,           \* lines a stream may write (limit, in lines)
          MaxFaults,       \* bound: failing operations in a behaviour
          MaxInterrupts    \* bound: Ctrl-C in a behaviour

NoSid == 0
ASSUME SidsAssumption == NoSid \notin Sids
ASSUME BoundsAssumption == Limit \in Nat \ {0} /\ MaxFaults \in Nat /\ MaxInterrupts \in Nat

VARIABLES
  begun, over,      \* sessions with a session.json, and those it calls finished
  diag,             \* the host has a DiagnosticManager
  dirs,             \* sessions with diag-sessions/<sid>
  live, completed,  \* the manager's
  logcat,           \* the process: none, running, ended
  reader,           \* _drain: none, reading, done
  status,           \* LogcatStream.status
  bytes, disk,      \* lines accepted by the reader, and those that reached the file
  pc, todo, cur,    \* where the host is, sessions still to visit, the one it works on
  inFinal,          \* inside guarded_finalize
  tried,            \* _finalized_attempted
  caught,           \* the except clause of run_loop that runs: none, error, interrupt
  found,            \* status['logcat'] of the export under way
  tree,             \* the work tree: lines of the logcat file, COVERAGE's logcat, warnings
  zip,              \* Logs/<sid>.zip: the tree that was packed, or NoTree
  archived,
  late,             \* (auxiliary) sessions whose reader outlived stop()
  cut,              \* (auxiliary) sessions whose logcat lost its owner on the way
  short,            \* (auxiliary) the last finalize raised in its loop, or was not called
  spoiled,          \* (auxiliary) sessions that failed outside the diagnostics
  tries,            \* (auxiliary) how often a session was taken up to archive it, up to 2
  faults, interrupts

session == <<begun, over>>
streams == <<logcat, reader, status, bytes, disk>>
manager == <<diag, dirs, live, completed>>
course == <<inFinal, tried, caught, short>>
place == <<pc, todo, cur, course>>
archive == <<found, tree, zip, archived>>
aux == <<late, cut, spoiled, tries>>
vars == <<session, streams, manager, place, archive, aux, faults, interrupts>>

NewTree == [log |-> 0, cover |-> "none", warned |-> FALSE]
NoTree == [NewTree EXCEPT !.cover = "unpacked"]
Statuses == {"NOT_STARTED", "UNAVAILABLE", "RUNNING", "PARTIAL", "CAPTURED", "EMPTY"}
Tree == [log : 0..Limit, cover : {"unpacked", "none", "cut"} \cup Statuses, warned : BOOLEAN]
Stopping == {"stop", "join", "rejoin"}

TypeOK == /\ over \subseteq begun /\ begun \subseteq Sids
          /\ {diag, inFinal, tried, short} \subseteq BOOLEAN
          /\ caught \in {"none", "error", "interrupt"}
          /\ live \subseteq dirs /\ dirs \subseteq Sids
          /\ completed \subseteq Sids \ live
          /\ logcat \in [Sids -> {"none", "running", "ended"}]
          /\ reader \in [Sids -> {"none", "reading", "done"}]
          /\ status \in [Sids -> Statuses]
          /\ bytes \in [Sids -> 0..Limit] /\ disk \in [Sids -> 0..Limit]
          /\ \A s \in Sids : disk[s] <= bytes[s]
          /\ pc \in {"tick", "open", "visit", "export", "pop", "copy", "report", "pack",
                     "failed", "except", "finalize", "finish", "return", "end"} \cup Stopping
          /\ todo \subseteq begun
          /\ cur \in IF pc \in Stopping \cup {"export", "pop", "copy", "report", "pack"}
                     THEN begun ELSE {NoSid}
          /\ found \in Statuses /\ tree \in Tree
          /\ zip \in [Sids -> Tree] /\ archived \subseteq begun
          /\ late \subseteq dirs /\ cut \subseteq dirs /\ spoiled \subseteq begun
          /\ tries \in [Sids -> 0..2]
          /\ faults \in 0..MaxFaults /\ interrupts \in 0..MaxInterrupts

Init == /\ begun = {} /\ over = {}
        /\ diag \in BOOLEAN                  \* the constructor may have failed
        /\ dirs = {} /\ live = {} /\ completed = {}
        /\ logcat = [s \in Sids |-> "none"] /\ reader = [s \in Sids |-> "none"]
        /\ status = [s \in Sids |-> "NOT_STARTED"]
        /\ bytes = [s \in Sids |-> 0] /\ disk = [s \in Sids |-> 0]
        /\ pc = "tick" /\ todo = {} /\ cur = NoSid
        /\ inFinal = FALSE /\ tried = FALSE /\ caught = "none" /\ short = FALSE
        /\ found = "UNAVAILABLE" /\ tree = NewTree
        /\ zip = [s \in Sids |-> NoTree] /\ archived = {}
        /\ late = {} /\ cut = {} /\ spoiled = {} /\ tries = [s \in Sids |-> 0]
        /\ faults = 0 /\ interrupts = 0

Fault == faults < MaxFaults /\ faults' = faults + 1

-----------------------------------------------------------------------------
(* The Windows side, logcat and the drain threads.                           *)

SessionBegins(s) ==
  /\ s \notin begun /\ ~inFinal
  /\ begun' = begun \cup {s}
  /\ UNCHANGED <<over, streams, manager, place, archive, aux, faults, interrupts>>
SessionEnds(s) ==
  /\ s \in begun \ over
  /\ over' = over \cup {s}
  /\ UNCHANGED <<begun, streams, manager, place, archive, aux, faults, interrupts>>

own == <<session, manager, place, archive, aux, interrupts>>

LogcatEnds(s) == /\ logcat[s] = "running"
                 /\ logcat' = [logcat EXCEPT ![s] = "ended"]
                 /\ UNCHANGED <<reader, status, bytes, disk, own, faults>>
OvershootingDrain(s) ==                 \* seeded defect: the limit is passed once
  /\ reader[s] = "reading" /\ bytes[s] <= Limit
  /\ bytes' = [bytes EXCEPT ![s] = @ + 1]
  /\ UNCHANGED <<logcat, reader, status, disk, own, faults>>
\* A line passes the filter and the limit; the buffer of the file takes it.
Drain(s) == /\ reader[s] = "reading" /\ bytes[s] < Limit
            /\ bytes' = [bytes EXCEPT ![s] = @ + 1]
            /\ UNCHANGED <<logcat, reader, status, disk, own, faults>>
Spill(s) == /\ reader[s] = "reading" /\ disk[s] < bytes[s]
            /\ disk' = [disk EXCEPT ![s] = bytes[s]]
            /\ UNCHANGED <<logcat, reader, status, bytes, own, faults>>
DrainEnds(s) == /\ reader[s] = "reading" /\ logcat[s] = "ended"
                /\ reader' = [reader EXCEPT ![s] = "done"]
                /\ disk' = [disk EXCEPT ![s] = bytes[s]]
                /\ UNCHANGED <<logcat, status, bytes, own, faults>>
\* The file cannot be opened or written; what the buffer held is lost.
DrainFails(s) == /\ reader[s] = "reading" /\ Fault
                 /\ reader' = [reader EXCEPT ![s] = "done"]
                 /\ status' = [status EXCEPT ![s] = "PARTIAL"]
                 /\ UNCHANGED <<logcat, bytes, disk, own>>

\* After the host's end its threads are gone and nothing is read from them.
Environment == /\ pc # "end"
               /\ \E s \in Sids : \/ SessionBegins(s) \/ SessionEnds(s)
                                  \/ LogcatEnds(s) \/ Drain(s) \/ Spill(s)
                                  \/ DrainEnds(s) \/ DrainFails(s)

-----------------------------------------------------------------------------
(* session_open                                                              *)

Spawn(s, r) == /\ logcat' = [logcat EXCEPT ![s] = "running"]
               /\ reader' = [reader EXCEPT ![s] = r]
               /\ status' = [status EXCEPT ![s] = "RUNNING"]
               /\ UNCHANGED <<bytes, disk>>

\* mkdir(exist_ok=False): a session whose first opening failed is never opened again.
OpenRaises(s) ==
  \/ s \in dirs /\ UNCHANGED <<streams, dirs, cut, faults>>
  \/ /\ s \notin dirs /\ Fault
     /\ \/ UNCHANGED <<streams, dirs, cut>>
        \/ dirs' = dirs \cup {s} /\ UNCHANGED <<streams, cut>>     \* a start file
        \/ /\ dirs' = dirs \cup {s}                               \* no thread: nobody
           /\ Spawn(s, "none")                                    \* knows the process
           /\ cut' = cut \cup {s}
OpenSucceeds(s) ==
  /\ s \notin dirs
  /\ dirs' = dirs \cup {s}
  /\ live' = live \cup {s}
  /\ \/ Spawn(s, "reading")
     \/ /\ status' = [status EXCEPT ![s] = "UNAVAILABLE"]          \* no logcat to run
        /\ UNCHANGED <<logcat, reader, bytes, disk>>
  /\ UNCHANGED <<cut, faults>>
\* Every error is put on the manager's list; the caller goes on.
SessionOpen(s) ==
  /\ \/ s \in live \cup completed /\ UNCHANGED <<streams, dirs, live, cut, faults>>
     \/ s \notin live \cup completed /\ OpenRaises(s) /\ UNCHANGED live
     \/ s \notin live \cup completed /\ OpenSucceeds(s)
  /\ UNCHANGED <<diag, completed>>

-----------------------------------------------------------------------------
(* The host's loop.  The sessions of a pass are taken in any order: the code *)
(* takes them by name, and finish by the order in which they were opened.    *)

GuardedFinalize == pc' = "finalize" /\ inFinal' = TRUE /\ tried' = TRUE /\ short' = FALSE
\* An exception reaches the except clauses of run_loop.
Throw(kind) == /\ pc' = "except" /\ inFinal' = FALSE /\ caught' = kind
               /\ todo' = {} /\ cur' = NoSid
               /\ UNCHANGED <<tried, short>>
\* The log of a handler follows: finalize's for a session, run_loop's for a tick.
Fails == pc' = "failed" /\ cur' = NoSid /\ UNCHANGED course

\* The metrics and the listings: those of the diagnostics are caught at once.
Tick == /\ pc = "tick"
        /\ \/ todo' = begun /\ pc' = (IF diag THEN "open" ELSE "visit")
              /\ UNCHANGED <<cur, course, faults>>
           \/ Fault /\ diag /\ todo' = {} /\ pc' = "open" /\ UNCHANGED <<cur, course>>
           \/ Fault /\ todo' = {} /\ Fails
        /\ UNCHANGED <<session, streams, manager, archive, late, cut, spoiled, tries, interrupts>>

\* DiagnosticManager.tick; tick then lists the sessions anew.
OpenNext == /\ pc = "open"
            /\ \E s \in todo : SessionOpen(s) /\ todo' = todo \ {s}
            /\ UNCHANGED <<session, pc, cur, course, archive, late, spoiled, tries, interrupts>>
OpenDone == /\ pc = "open" /\ todo = {}
            /\ \/ todo' = begun /\ pc' = "visit" /\ UNCHANGED <<cur, course, faults>>
               \/ Fault /\ Fails /\ UNCHANGED todo
            /\ UNCHANGED <<session, streams, manager, archive, late, cut, spoiled, tries,
                           interrupts>>

host == <<session, streams, manager, late, interrupts>>

Attempt(s) == tries' = [tries EXCEPT ![s] = IF @ = 0 THEN 1 ELSE 2]
\* A finished session is archived when its grace is over, every session in finalize.  One
\* whose session.json is unreadable is skipped in tick, and has failed in finalize.
Visit == /\ pc = "visit"
         /\ \E s \in todo :
              /\ todo' = todo \ {s}
              /\ \/ /\ s \notin archived /\ (inFinal \/ s \in over)
                    /\ cur' = s /\ pc' = "export"
                    /\ tree' = NewTree
                    /\ Attempt(s)
                    /\ UNCHANGED <<course, spoiled, faults>>
                 \/ /\ s \in archived \/ ~inFinal
                    /\ UNCHANGED <<cur, pc, course, spoiled, tree, tries, faults>>
                 \/ /\ s \notin archived /\ inFinal /\ Fault
                    /\ Fails /\ Attempt(s)
                    /\ spoiled' = spoiled \cup {s}
                    /\ UNCHANGED tree
         /\ UNCHANGED <<host, found, zip, archived, cut>>

\* A marker ends the loop, or it sleeps and ticks again; reading them may raise.
VisitDone == /\ pc = "visit" /\ todo = {}
             /\ \/ inFinal /\ pc' = "finish" /\ todo' = live
                   /\ UNCHANGED <<cur, course, faults>>
                \/ ~inFinal /\ pc' = "tick" /\ UNCHANGED <<todo, cur, course, faults>>
                \/ ~inFinal /\ GuardedFinalize /\ UNCHANGED <<todo, cur, caught, faults>>
                \/ ~inFinal /\ Fault /\ Throw("error")
             /\ UNCHANGED <<host, archive, cut, spoiled, tries>>

\* finalize raises in its loop: the sessions left get no turn, nor does diag.finish().
CutShort == /\ pc' = "return" /\ todo' = {} /\ short' = TRUE
            /\ cut' = cut \cup live
            /\ UNCHANGED <<cur, inFinal, tried, caught>>
StartFinalize == /\ pc = "finalize"
                 /\ \/ todo' = begun /\ pc' = "visit" /\ UNCHANGED <<cur, course, cut, faults>>
                    \/ Fault /\ CutShort
                 /\ UNCHANGED <<host, archive, spoiled, tries>>
LogFailure == /\ pc = "failed"
              /\ \/ pc' = "visit" /\ UNCHANGED <<todo, cur, course, cut, faults>>
                 \/ inFinal /\ Fault /\ CutShort
                 \/ ~inFinal /\ Fault /\ Throw("error") /\ UNCHANGED cut
              /\ UNCHANGED <<host, archive, spoiled, tries>>

\* The except clauses: the log, then guarded_finalize, which an error does not get twice.
Handle == /\ pc = "except"
          /\ \/ /\ caught = "interrupt" \/ ~tried
                /\ GuardedFinalize
                /\ UNCHANGED <<cut, faults>>
             \/ /\ \/ caught = "error" /\ tried /\ UNCHANGED faults
                   \/ Fault
                /\ pc' = "end" /\ short' = TRUE
                /\ cut' = cut \cup live
                /\ UNCHANGED <<inFinal, tried>>
          /\ UNCHANGED <<host, todo, cur, caught, archive, spoiled, tries>>

-----------------------------------------------------------------------------
(* LogcatStream.stop, called by the export once it has taken the session out *)
(* of live, and by finish while it is still there.                           *)

stopping == <<session, manager, todo, course, tree, zip, archived, cut, spoiled, tries, faults,
              interrupts>>

Terminate == /\ pc = "stop"
             /\ logcat' \in {logcat, [logcat EXCEPT ![cur] = "ended"]}
             /\ pc' = "join"
             /\ UNCHANGED <<stopping, reader, status, bytes, disk, cur, found, late>>
\* Two seconds, then kill and two more.
JoinTimesOut == /\ pc = "join" /\ reader[cur] = "reading"
                /\ logcat' = [logcat EXCEPT ![cur] = "ended"]
                /\ pc' = "rejoin"
                /\ UNCHANGED <<stopping, reader, status, bytes, disk, cur, found, late>>
RejoinTimesOut == /\ pc = "rejoin" /\ reader[cur] = "reading" /\ cur \notin late
                  /\ late' = late \cup {cur}
                  /\ UNCHANGED <<stopping, streams, pc, cur, found>>
Settled(s) == IF status[s] # "RUNNING" THEN status[s]
              ELSE IF bytes[s] > 0 THEN "CAPTURED" ELSE "EMPTY"
\* wait, or kill; then the result.  finish still has the session in live.
Result == /\ logcat' = [logcat EXCEPT ![cur] = "ended"]
          /\ status' = [status EXCEPT ![cur] = Settled(cur)]
          /\ found' = Settled(cur)
          /\ IF cur \in live THEN pc' = "finish" /\ cur' = NoSid
                             ELSE pc' = "copy" /\ UNCHANGED cur
          /\ UNCHANGED <<stopping, reader, bytes, disk, late>>
UnjoinedSettle == pc \in {"join", "rejoin"} /\ Result   \* seeded defect: the reader is not joined
Settle == /\ pc \in {"join", "rejoin"}
          /\ reader[cur] # "reading" \/ cur \in late
          /\ Result

-----------------------------------------------------------------------------
(* export_session.  What it raises becomes a warning of the archive.         *)

exporting == <<session, todo, cur, course, zip, archived, late, spoiled, tries, interrupts>>

Partial(logs, covers) ==                \* DRIVER_DIAGNOSTICS_PARTIAL
  /\ tree' \in [log : logs, cover : covers, warned : {TRUE}]
  /\ pc' = "pack"
Export ==
  /\ pc = "export"
  /\ \/ ~diag /\ Partial({0}, {"none"})     \* DRIVER_DIAGNOSTICS_UNAVAILABLE
        /\ UNCHANGED <<streams, manager, cut, faults>>
     \/ diag /\ Fault /\ Partial({0}, {"none"}) /\ UNCHANGED <<streams, manager, cut>>
     \/ diag /\ SessionOpen(cur) /\ pc' = "pop" /\ UNCHANGED tree
  /\ UNCHANGED <<exporting, found>>
Pop ==
  /\ pc = "pop"
  /\ live' = live \ {cur}
  /\ found' = "UNAVAILABLE"
  /\ pc' = IF cur \notin live THEN "report"
           ELSE IF logcat[cur] = "none" THEN "copy" ELSE "stop"
  /\ UNCHANGED <<exporting, streams, diag, dirs, completed, tree, cut, faults>>
SwallowedCopy ==                        \* seeded defect: a file that fails is skipped
  /\ pc = "copy"
  /\ pc' = "report"
  /\ \/ tree' = [tree EXCEPT !.log = disk[cur]] /\ UNCHANGED faults
     \/ Fault /\ UNCHANGED tree
  /\ UNCHANGED <<exporting, streams, manager, found, cut>>
UncaughtCopy ==                         \* seeded defect: archive_session does not catch
  /\ pc = "copy"
  /\ \/ tree' = [tree EXCEPT !.log = disk[cur]] /\ pc' = "report"
        /\ UNCHANGED <<cur, faults>>
     \/ Fault /\ pc' = "visit" /\ cur' = NoSid /\ UNCHANGED tree
  /\ UNCHANGED <<session, todo, course, zip, archived, late, spoiled, tries, interrupts,
                 streams, manager, found, cut>>
Copy ==
  /\ pc = "copy"
  /\ \/ tree' = [tree EXCEPT !.log = disk[cur]] /\ pc' = "report" /\ UNCHANGED faults
     \/ Fault /\ Partial({0, disk[cur]}, {"none"})
  /\ UNCHANGED <<exporting, streams, manager, found, cut>>
\* The kernel's log, then COVERAGE.json.
Report ==
  /\ pc = "report"
  /\ \/ /\ tree' = [tree EXCEPT !.cover = found]
        /\ completed' = completed \cup {cur}
        /\ pc' = "pack"
        /\ UNCHANGED faults
     \/ Fault /\ Partial({tree.log}, {"none", "cut"}) /\ UNCHANGED completed
  /\ UNCHANGED <<exporting, streams, diag, dirs, live, found, cut>>

\* The rest of archive_session.  finalize goes on after an error, tick gives up, and what
\* run_loop does not know as an OSError or a ValueError ends the loop.  An archive that an
\* attempt has left makes the next one raise.
Raised == \/ inFinal /\ Fails /\ UNCHANGED todo
          \/ ~inFinal /\ Fails /\ todo' = {}
          \/ ~inFinal /\ Throw("error")
Spoiled == spoiled' = spoiled \cup {cur}
Pack ==
  /\ pc = "pack"
  /\ \/ /\ zip[cur] = NoTree
        /\ zip' = [zip EXCEPT ![cur] = tree]
        /\ \/ /\ archived' = archived \cup {cur}
              /\ \/ cur' = NoSid /\ pc' = "visit" /\ UNCHANGED <<todo, course, faults>>
                 \/ Fault /\ Raised                         \* the log of it
              /\ UNCHANGED spoiled
           \/ Fault /\ Raised /\ Spoiled /\ UNCHANGED archived   \* published, not recorded
     \/ zip[cur] = NoTree /\ Fault /\ Raised /\ Spoiled /\ UNCHANGED <<zip, archived>>
     \/ zip[cur] # NoTree /\ Raised /\ Spoiled /\ UNCHANGED <<zip, archived, faults>>
  /\ UNCHANGED <<session, streams, manager, found, tree, late, cut, tries, interrupts>>

-----------------------------------------------------------------------------
(* DiagnosticManager.finish                                                  *)

ForgetfulFinish == /\ pc = "finish"        \* seeded defect: live is cleared, not stopped
                   /\ todo' = {} /\ live' = {} /\ pc' = "return"
                   /\ UNCHANGED <<session, streams, diag, dirs, completed, cur, course, archive,
                                  aux, faults, interrupts>>
FinishNext == /\ pc = "finish"
              /\ \E s \in todo :
                   /\ todo' = todo \ {s}
                   /\ IF logcat[s] = "none" THEN UNCHANGED <<pc, cur>>
                                            ELSE pc' = "stop" /\ cur' = s
              /\ UNCHANGED <<host, course, archive, cut, spoiled, tries, faults>>
FinishDone == /\ pc = "finish" /\ todo = {}
              /\ live' = {} /\ pc' = "return"
              /\ UNCHANGED <<session, streams, diag, dirs, completed, todo, cur, course, archive,
                             aux, faults, interrupts>>
\* What follows in guarded_finalize does not call the diagnostics.  Its end is the host's,
\* but for an OSError under the heartbeat check, which is ignored: the loop goes on.
Return == /\ pc = "return"
          /\ \/ pc' = "end" /\ UNCHANGED <<inFinal, faults>>
             \/ /\ caught = "none"
                /\ \/ short /\ UNCHANGED faults
                   \/ Fault
                /\ pc' = "tick" /\ inFinal' = FALSE
          /\ UNCHANGED <<host, todo, cur, tried, caught, short, archive, cut, spoiled, tries>>

-----------------------------------------------------------------------------
(* Ctrl-C is no Exception: it passes every handler up to run_loop, which     *)
(* finalizes (again); in one of run_loop's except clauses it ends the host.  *)

Opening == CASE pc = "open" -> todo [] pc = "export" -> {cur} [] OTHER -> {}
Owned == IF pc \in Stopping /\ cur \notin live THEN {cur} ELSE {}     \* popped, not stopped
Abandoned == Owned \cup IF caught # "none" THEN live ELSE {}

Interrupt ==
  /\ pc # "end" /\ interrupts < MaxInterrupts
  /\ interrupts' = interrupts + 1
  /\ \/ cut' = cut \cup Abandoned /\ UNCHANGED <<streams, dirs>>
     \/ \E s \in Sids \ (dirs \cup completed), r \in {"none", "reading"} :
          /\ diag /\ s \in Opening           \* between Popen and live[sid]
          /\ dirs' = dirs \cup {s}
          /\ Spawn(s, r)
          /\ cut' = cut \cup Abandoned \cup {s}
  /\ \/ caught = "none" /\ Throw("interrupt")
     \/ caught # "none" /\ pc' = "end" /\ cur' = NoSid /\ todo' = {} /\ UNCHANGED course
  /\ UNCHANGED <<session, diag, live, completed, archive, late, spoiled, tries, faults>>

-----------------------------------------------------------------------------
Step == \/ Tick \/ OpenNext \/ OpenDone \/ Visit \/ VisitDone \/ LogFailure
        \/ Handle \/ StartFinalize
        \/ Export \/ Pop \/ Terminate \/ JoinTimesOut \/ RejoinTimesOut \/ Settle
        \/ Copy \/ Report \/ Pack \/ FinishNext \/ FinishDone \/ Return

Next == Step \/ Interrupt \/ Environment

Spec == Init /\ [][Next]_vars

-----------------------------------------------------------------------------
\* When the host ends no logcat runs on, except one that lost its owner: its thread was
\* refused, a Ctrl-C struck while it was started or stopped, finalize did not get to
\* diag.finish() because it raised in its loop, or the host ended in an except clause.
NothingLeftRunning == pc = "end" => \A s \in Sids : logcat[s] = "running" => s \in cut

\* "Missing sources are explicitly reported" (gpu_lab_diagnostics.py:4): an archive holds
\* every line the stream took, or its COVERAGE.json does not say CAPTURED, or it carries
\* the warning; the exception is a reader that outlives kill by two seconds.
GapsAreReported ==
  \A s \in Sids : zip[s] # NoTree /\ ~zip[s].warned =>
    /\ zip[s].cover \notin {"none", "cut"}
    /\ zip[s].cover = "CAPTURED" => zip[s].log = bytes[s] \/ s \in late

\* A log that was captured is in the session's archive or the archive warns of it, unless
\* an earlier attempt to archive the session had already taken it.
CapturedIsArchived ==
  \A s \in Sids : zip[s] # NoTree /\ status[s] = "CAPTURED" /\ zip[s].log = 0 =>
    zip[s].warned \/ tries[s] = 2 \/ s \in late

\* "Its failure must never affect ..." (gpu_lab_diagnostics.py:229): without a Ctrl-C every
\* session is archived in the end, unless it failed outside the diagnostics or finalize
\* itself did: its listing, its handler's log, or the log before it.
DiagnosticsCostNoArchive ==
  pc = "end" /\ interrupts = 0 /\ ~short => begun \subseteq archived \cup spoiled
=============================================================================
