------------------------------- MODULE Monitor -------------------------------
(***************************************************************************)
(* The Windows worker process of GPU Lab (monitor, selectGame and            *)
(* observeSession of main_windows.go) against a process table it can only    *)
(* sample: games start and exit at any time, PIDs are reused, a snapshot is  *)
(* stale by the time its processes are opened, OpenProcess may fail at any   *)
(* of the calls made about a process, a handle may outlive its process, and  *)
(* stop.request may appear at any step.                                      *)
(*                                                                         *)
(* A process incarnation is its number in order of birth, which stands for   *)
(* the creation time; the worker reads it, or 0 when it cannot.              *)
(***************************************************************************)
EXTENDS Naturals, Sequences, FiniteSets

CONSTANTS Pids,            \* PIDs above 8, other than the worker's own
          Exes,            \* executables
          Ignored,         \* those ignoredProcess refuses
          Candidates,      \* those preexistingGameCandidate accepts
          BaselineReused,  \* may Wine give a PID of the baseline to a new process?
          MaxBirths,       \* bound: process incarnations in a behaviour
          MaxSpurious,     \* bound: CONSECUTIVE polls that miss a live game
          MaxMisread,      \* bound: enumerations that do not show all there is to see, and
                           \* polls that see a game that is gone
          MaxFaults        \* bound: file-system errors in a behaviour

ASSUME PidsAssumption == Pids \subseteq Nat \ (0..8)
ASSUME ExesAssumption == Ignored \subseteq Exes /\ Candidates \subseteq Exes \ Ignored
ASSUME BoundsAssumption == /\ BaselineReused \in BOOLEAN
                           /\ {MaxBirths, MaxSpurious, MaxMisread, MaxFaults} \subseteq Nat

VARIABLES births,    \* the incarnations so far: <<[pid, exe], ...>>
          running,   \* those that run now
          pc,        \* where the worker stands
          booted,    \* births when the baseline was taken (0 before): auxiliary
          baseline,  \* PIDs in the first snapshot
          armed,     \* more than 8 s since the start: allowExisting
          snap,      \* selectGame's snapshot: PID -> incarnation, 0 if not listed
          seen,      \* keys of the games already attached to
          last, stability,
          target,    \* the selected game: its PID, the incarnations that the snapshot
                     \* named and that was opened, the birth that was read
          sessions,  \* session.json of each session directory, in order
          missing,   \* observeSession's consecutive misses
          exited,    \* what observeSession returned
          idle,      \* time since lastCompleted: none, under 15 s, at least 15 s
          stop,      \* stop.request exists
          finished,  \* finished.ok exists
          spurious, misread, faults

env == <<births, running>>
choice == <<seen, last, stability>>
looks == <<spurious, misread>>
budget == <<looks, faults>>
vars == <<env, pc, booted, baseline, armed, snap, choice, target, sessions, missing, exited,
          idle, stop, finished, budget>>

Nobody == 0                     \* no PID, no incarnation
NoTarget == [pid |-> Nobody, named |-> Nobody, opened |-> Nobody, birth |-> 0]
NoSnapshot == [p \in Pids |-> Nobody]
\* What a poll can read of each PID: all of it, all but the birth, or nothing.
Looks == [Pids -> {"all", "unborn", "nothing"}]
AllReadable == [p \in Pids |-> "all"]
ExitReason == "PROCESS_NO_LONGER_RUNNING_EXIT_CAUSE_UNKNOWN"
StopReason == "OBSERVER_STOPPED_GAME_NOT_TOUCHED"

Births == 1..MaxBirths
Target == [pid : Pids, named : Births, opened : Births, birth : 0..MaxBirths]
TypeOK == /\ births \in Seq([pid : Pids, exe : Exes]) /\ Len(births) <= MaxBirths
          /\ running \subseteq DOMAIN births
          /\ pc \in {"boot", "loop", "examine", "reserve", "telemetry",
                     "observe", "ended", "close", "done"}
          /\ booted \in 0..MaxBirths
          /\ baseline \subseteq Pids
          /\ {armed, exited, stop, finished} \subseteq BOOLEAN
          /\ snap \in [Pids -> {Nobody} \cup Births]
          /\ seen \subseteq Pids \X Exes \X (0..MaxBirths)
          /\ last \in {Nobody} \cup Pids /\ stability \in 0..3
          /\ target \in {NoTarget} \cup Target
          /\ \A i \in DOMAIN sessions :
               sessions[i] \in [of : Target,
                                state : {"active", "finished"},
                                reason : {"none", ExitReason, StopReason},
                                failed : BOOLEAN]
          /\ missing \in 0..3
          /\ idle \in {"none", "short", "long"}
          /\ spurious \in 0..MaxSpurious /\ misread \in 0..MaxMisread
          /\ faults \in 0..MaxFaults

Init == /\ births = <<>> /\ running = {}
        /\ pc = "boot" /\ booted = 0 /\ baseline = {} /\ armed = FALSE
        /\ snap = NoSnapshot
        /\ seen = {} /\ last = Nobody /\ stability = 0 /\ target = NoTarget
        /\ sessions = <<>> /\ missing = 0 /\ exited = FALSE
        /\ idle = "none" /\ stop = FALSE /\ finished = FALSE
        /\ spurious = 0 /\ misread = 0 /\ faults = 0

\* The incarnation that holds a PID now.
Holder(pid) == IF \E n \in running : births[n].pid = pid
               THEN CHOOSE n \in running : births[n].pid = pid
               ELSE Nobody
ExeOf(n) == births[n].exe

-----------------------------------------------------------------------------
(* The environment: Wine's processes, the clock, the user and the host.      *)

Launch(pid, exe) ==
  /\ Len(births) < MaxBirths
  /\ Holder(pid) = Nobody
  /\ pid \in baseline => BaselineReused
  /\ births' = Append(births, [pid |-> pid, exe |-> exe])
  /\ running' = running \cup {Len(births')}
  /\ UNCHANGED <<pc, booted, baseline, armed, snap, choice, target, sessions, missing,
                 exited, idle, stop, finished, budget>>

Exit(n) ==
  /\ n \in running
  /\ running' = running \ {n}
  /\ UNCHANGED <<births, pc, booted, baseline, armed, snap, choice, target, sessions,
                 missing, exited, idle, stop, finished, budget>>

\* monitorStarted is more than 8 s ago; lastCompleted is 15 s ago.
EightSeconds ==
  /\ pc # "boot" /\ ~armed
  /\ armed' = TRUE
  /\ UNCHANGED <<env, pc, booted, baseline, snap, choice, target, sessions, missing,
                 exited, idle, stop, finished, budget>>
FifteenSeconds ==
  /\ idle = "short"
  /\ idle' = "long"
  /\ UNCHANGED <<env, pc, booted, baseline, armed, snap, choice, target, sessions,
                 missing, exited, stop, finished, budget>>

\* The GUI, a hotkey or the host writes stop.request.
RequestStop ==
  /\ ~stop
  /\ stop' = TRUE
  /\ UNCHANGED <<env, pc, booted, baseline, armed, snap, choice, target, sessions,
                 missing, exited, idle, finished, budget>>

-----------------------------------------------------------------------------
(* monitor                                                                   *)

\* An enumeration that fails or ends early, a process that cannot be opened or read, a
\* handle that outlives its process.
Misread == misread < MaxMisread /\ misread' = misread + 1

Boot ==
  /\ pc = "boot"
  /\ \E listed \in SUBSET running :
       /\ listed # running => Misread
       /\ listed = running => UNCHANGED misread
       /\ baseline' = {births[n].pid : n \in listed}
  /\ booted' = Len(births)
  /\ pc' = "loop"
  /\ UNCHANGED <<env, armed, snap, choice, target, sessions, missing, exited, idle,
                 stop, finished, spurious, faults>>

\* The head of the loop: stopFlag, then the 15 s after the last confirmed exit, then
\* selectGame's enumerateProcesses.
Scan == snap' = [p \in Pids |-> Holder(p)] /\ pc' = "examine"
DeafPoll ==                    \* seeded defect: the loop does not ask stopFlag
  /\ pc = "loop"
  /\ \/ idle = "long" /\ pc' = "close" /\ UNCHANGED snap
     \/ idle # "long" /\ Scan
  /\ UNCHANGED <<env, booted, baseline, armed, choice, target, sessions, missing, exited,
                 idle, stop, finished, budget>>
Poll ==
  /\ pc = "loop"
  /\ \/ (stop \/ idle = "long") /\ pc' = "close" /\ UNCHANGED snap
     \/ ~stop /\ idle # "long" /\ Scan
  /\ UNCHANGED <<env, booted, baseline, armed, choice, target, sessions, missing, exited,
                 idle, stop, finished, budget>>

\* The key "pid|path|birth", and the birth that is read.
Birth(pid, look) == IF look[pid] = "unborn" THEN 0 ELSE Holder(pid)
Key(pid, n, birth) == <<pid, ExeOf(n), birth>>

\* A listed PID qualifies by the NAME in the snapshot and by the path, the birth and
\* the liveness of whatever process holds the PID when it is opened.
FallbackRules(pid, look) ==                    \* seeded defect: every game needs the fallback
  /\ snap[pid] # Nobody
  /\ ExeOf(snap[pid]) \notin Ignored
  /\ Holder(pid) # Nobody /\ look[pid] # "nothing"
  /\ armed /\ ExeOf(Holder(pid)) \in Candidates
  /\ Key(pid, Holder(pid), Birth(pid, look)) \notin seen
Eligible(pid, look) ==
  /\ snap[pid] # Nobody
  /\ ExeOf(snap[pid]) \notin Ignored
  /\ Holder(pid) # Nobody /\ look[pid] # "nothing"
  /\ pid \in baseline => armed /\ ExeOf(Holder(pid)) \in Candidates
  /\ Key(pid, Holder(pid), Birth(pid, look)) \notin seen

\* Not in the baseline before in the baseline, then the newest, then the higher PID.
OldestFirst(p, q, look) ==                    \* seeded defect: the two orders are swapped
  \/ Birth(p, look) < Birth(q, look)
  \/ Birth(p, look) = Birth(q, look) /\ p \notin baseline /\ q \in baseline
  \/ Birth(p, look) = Birth(q, look) /\ (p \in baseline <=> q \in baseline) /\ p > q
Before(p, q, look) ==
  \/ p \notin baseline /\ q \in baseline
  \/ /\ p \in baseline <=> q \in baseline
     /\ Birth(p, look) >= Birth(q, look)
     /\ Birth(p, look) = Birth(q, look) => p > q
BestPid(look) == CHOOSE p \in Pids :
                   /\ Eligible(p, look)
                   /\ \A q \in Pids \ {p} : Eligible(q, look) => Before(p, q, look)
Best(look) == LET p == BestPid(look)
              IN [pid |-> p, named |-> snap[p], opened |-> Holder(p), birth |-> Birth(p, look)]

\* The seen set of the attach, written by monitor right after selectGame.
RepeatableAttach(game) ==                    \* seeded defect: seen[key] = true is forgotten
  /\ stability' = 3
  /\ seen' = seen
  /\ target' = game
  /\ pc' = "reserve"
Attach(game) ==
  /\ stability' = 3
  /\ seen' = seen \cup {Key(game.pid, game.opened, game.birth)}
  /\ target' = game
  /\ pc' = "reserve"

\* Three polls in a row must choose the same PID; the count is not reset when a game
\* is attached, so it stays at three for the next holder of the same PID.
ExamineWith(look) ==
  /\ pc = "examine"
  /\ look # AllReadable => Misread
  /\ look = AllReadable => UNCHANGED misread
  /\ \A p \in Pids : snap[p] = Nobody => look[p] = "all"
  /\ snap' = NoSnapshot
  /\ \/ /\ \A p \in Pids : ~Eligible(p, look)
        /\ last' = Nobody /\ stability' = 0 /\ pc' = "loop"
        /\ UNCHANGED <<seen, target>>
     \/ /\ \E p \in Pids : Eligible(p, look)
        /\ last' = BestPid(look)
        /\ \/ /\ last = BestPid(look) /\ stability >= 2
              /\ Attach(Best(look))
           \/ /\ ~(last = BestPid(look) /\ stability >= 2)
              /\ stability' = IF last = BestPid(look) THEN stability + 1 ELSE 1
              /\ pc' = "loop"
              /\ UNCHANGED <<seen, target>>
  /\ UNCHANGED <<env, booted, baseline, armed, sessions, missing, exited, idle, stop,
                 finished, spurious, faults>>
Examine == \E look \in Looks : ExamineWith(look)

-----------------------------------------------------------------------------
(* observeSession                                                            *)

Session == [of |-> target, state |-> "active", reason |-> "none", failed |-> FALSE]
Current == Len(sessions)
\* The result of the write is ignored: on an error session.json stays active.
WriteSessionEnd(reason) ==
  \/ /\ sessions' = [sessions EXCEPT ![Current].state = "finished",
                                     ![Current].reason = reason]
     /\ UNCHANGED faults
  \/ /\ faults < MaxFaults
     /\ faults' = faults + 1
     /\ sessions' = [sessions EXCEPT ![Current].failed = TRUE]

\* An error before session.json exists leaves no session the host can see.
Fail == /\ faults < MaxFaults
        /\ faults' = faults + 1
        /\ exited' = FALSE
        /\ pc' = "ended"

\* os.Mkdir of the session directory and of its Windows directory (exclusive), then
\* latest-session.json and the active session.json.
Announce ==
  /\ pc = "reserve"
  /\ \/ /\ sessions' = Append(sessions, Session)
        /\ pc' = "telemetry"
        /\ UNCHANGED <<exited, faults>>
     \/ Fail /\ UNCHANGED sessions
  /\ UNCHANGED <<env, booted, baseline, armed, snap, choice, target, missing, idle, stop,
                 finished, looks>>

\* telemetry/game.csv is opened exclusively; on an error session.json stays active.
OpenTelemetry ==
  /\ pc = "telemetry"
  /\ \/ pc' = "observe" /\ UNCHANGED <<exited, faults, sessions>>
     \/ /\ Fail
        /\ sessions' = [sessions EXCEPT ![Current].failed = TRUE]
  /\ UNCHANGED <<env, booted, baseline, armed, snap, choice, target, missing, idle, stop,
                 finished, looks>>

\* The recorded game is there: its PID is held by a process of its name.
Present == Holder(target.pid) # Nobody /\ ExeOf(Holder(target.pid)) = ExeOf(target.named)

IgnoredStop ==                    \* seeded defect: the end of the session is not written
  /\ pc = "observe" /\ stop
  /\ exited' = FALSE
  /\ pc' = "ended"
  /\ UNCHANGED <<env, booted, baseline, armed, snap, choice, target, sessions, missing,
                 idle, stop, finished, budget>>
ObserveStop ==
  /\ pc = "observe" /\ stop
  /\ WriteSessionEnd(StopReason)
  /\ exited' = FALSE
  /\ pc' = "ended"
  /\ UNCHANGED <<env, booted, baseline, armed, snap, choice, target, missing, idle, stop,
                 finished, looks>>

\* One poll: pidAlive and the snapshot, each of which may be wrong.  Misses in a row
\* are counted; a live game is missed when OpenProcess fails or the list is cut short,
\* a dead one is seen when its handle lingers and the snapshot is empty.
EndAfter(limit) ==
  IF missing' >= limit
  THEN /\ WriteSessionEnd(ExitReason)
       /\ exited' = TRUE
       /\ pc' = "ended"
  ELSE UNCHANGED <<sessions, exited, pc, faults>>
CountAnyMiss(n) ==                    \* seeded defect: misses need not be consecutive
  missing' = (IF n THEN missing + 1 ELSE missing) /\ EndAfter(3)
CountFirstMiss(n) ==                    \* seeded defect: missing = 1 for missing++
  missing' = (IF n THEN 1 ELSE 0) /\ EndAfter(3)
CountMiss(n) ==
  missing' = (IF n THEN missing + 1 ELSE 0) /\ EndAfter(3)

ObservePoll ==
  /\ pc = "observe" /\ ~stop
  /\ \/ Present /\ CountMiss(FALSE) /\ spurious' = 0 /\ UNCHANGED misread
     \/ /\ Present /\ spurious < MaxSpurious
        /\ CountMiss(TRUE)
        /\ spurious' = spurious + 1
        /\ UNCHANGED misread
     \/ ~Present /\ CountMiss(TRUE) /\ spurious' = 0 /\ UNCHANGED misread
     \/ ~Present /\ Misread /\ CountMiss(FALSE) /\ spurious' = 0
  /\ UNCHANGED <<env, booted, baseline, armed, snap, choice, target, idle, stop, finished>>

\* Back in monitor: a confirmed exit (re)starts the 15 s, anything else does not.
ForgottenEnd ==                    \* seeded defect: lastCompleted is not set
  /\ pc = "ended"
  /\ pc' = "loop" /\ exited' = FALSE
  /\ target' = NoTarget /\ missing' = 0 /\ spurious' = 0
  /\ UNCHANGED <<env, booted, baseline, armed, snap, choice, sessions, idle, stop,
                 finished, misread, faults>>
Ended ==
  /\ pc = "ended"
  /\ idle' = IF exited /\ ~stop THEN "short" ELSE idle
  /\ pc' = "loop" /\ exited' = FALSE
  /\ target' = NoTarget /\ missing' = 0 /\ spurious' = 0
  /\ UNCHANGED <<env, booted, baseline, armed, snap, choice, sessions, stop, finished,
                 misread, faults>>

\* run-status "stopped", then finished.ok, whose write may fail unnoticed.
Close ==
  /\ pc = "close"
  /\ pc' = "done"
  /\ \/ finished' = TRUE /\ UNCHANGED faults
     \/ faults < MaxFaults /\ faults' = faults + 1 /\ UNCHANGED finished
  /\ UNCHANGED <<env, booted, baseline, armed, snap, choice, target, sessions, missing,
                 exited, idle, stop, looks>>

Worker == \/ Boot \/ Poll \/ Examine \/ Announce
          \/ OpenTelemetry \/ ObserveStop \/ ObservePoll \/ Ended \/ Close
Environment == \/ \E pid \in Pids, exe \in Exes : Launch(pid, exe)
               \/ \E n \in Births : Exit(n)
               \/ EightSeconds \/ FifteenSeconds \/ RequestStop
Next == Worker \/ Environment

Spec == Init /\ [][Next]_vars
\* The worker is scheduled and its clock advances; nobody else owes it anything.
FairSpec == Spec /\ WF_vars(Worker) /\ WF_vars(EightSeconds) /\ WF_vars(FifteenSeconds)

-----------------------------------------------------------------------------
\* A session that reports the exit of its game reports it of a process that is gone:
\* up to two wrong polls in a row never end the recording of a running game ("Require
\* three consecutive misses of either independent observation").
ExitMeansGone ==
  \A i \in DOMAIN sessions :
    sessions[i].reason = ExitReason => sessions[i].of.named \notin running

\* No process is recorded in two sessions, not even one whose first session failed or
\* was replaced under its PID (the "seen" keys of monitor), unless its birth was read for
\* one of them and not for the other, which gives it two keys; so never in three.
NeverRecordedTwice ==
  \A i, j \in DOMAIN sessions :
    i # j /\ sessions[i].of.opened = sessions[j].of.opened =>
      (sessions[i].of.birth = 0) # (sessions[j].of.birth = 0)

\* The worker keeps to the role the supervisor's processes rely on: no session begins
\* after finished.ok or while the last one is active, and finished.ok is the worker's
\* last word: it is written only when a stop was requested or the exit of a game was
\* confirmed, and when every session is closed that could be.
LatestSession == IF sessions = <<>> THEN "none"
                 ELSE IF sessions[Current].failed THEN "stuck"
                 ELSE IF sessions[Current].state = "active" THEN "active"
                 ELSE IF sessions[Current].reason = ExitReason THEN "exited" ELSE "stopped"
Role == INSTANCE WorkerRole WITH session <- LatestSession,
                                 due <- stop \/ exited \/ idle # "none"
ImplementsRole == Role!Spec

\* selectGame: "Prefer a newly launched game over previously running candidates", if all
\* of it could be read.
Launched(n) == pc # "boot" /\ n > booted
Attached(n) == Key(births[n].pid, n, n) \in seen
Waiting(n, look) ==
  /\ Holder(births[n].pid) = n /\ snap[births[n].pid] = n
  /\ look[births[n].pid] = "all"
  /\ ExeOf(n) \notin Ignored /\ ~Attached(n)
NewGamePreferred ==
  [][\A look \in Looks :
       ExamineWith(look) /\ pc' = "reserve" /\ ~Launched(target'.opened) =>
         ~\E n \in running : Launched(n) /\ Waiting(n, look)]_vars

\* A stop request is always answered: the worker ends its recording and returns,
\* whichever step it was at, and finished.ok is there unless its write failed.
StopIsHonoured == stop ~> pc = "done" /\ (finished \/ faults > 0)

\* A game that is gone is noticed: its session ends unless a process of the same name
\* takes its PID.
ExitIsNoticed == pc = "observe" /\ ~Present ~> pc # "observe" \/ Present

\* After a confirmed exit the worker does not wait for ever for another game.
NoEndlessWait ==
  (\E i \in DOMAIN sessions : sessions[i].reason = ExitReason)
    ~> pc \in {"done", "observe"}

\* A game launched after the baseline, under a PID the baseline does not hold, is
\* attached, unless it exits, the run ends, or another game is being recorded.
NewGameAttached ==
  \A n \in Births :
    n \in running /\ Launched(n) /\ ExeOf(n) \notin Ignored /\ births[n].pid \notin baseline
      ~> n \notin running \/ Attached(n) \/ pc \in {"done", "observe"}
=============================================================================
