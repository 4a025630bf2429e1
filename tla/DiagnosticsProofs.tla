-------------------------- MODULE DiagnosticsProofs --------------------------
(***************************************************************************)
(* No logcat is left running, gaps are reported, what was captured is in the *)
(* archive, and the diagnostics cost no session its archive: for any         *)
(* sessions, limits, numbers of failures and interrupts.                     *)
(***************************************************************************)
EXTENDS Diagnostics, TLAPS

\* stop() is called by finish, or by an export that has taken the session out of live.
FinishStops == pc \in Stopping /\ cur \in live
Finishing == pc = "finish" \/ FinishStops
Exporting == \/ pc \in {"export", "pop", "copy", "report", "pack"}
             \/ pc \in Stopping /\ cur \notin live

\* Where the host stands says what it holds; a session that has anything has a directory.
PlaceInv == /\ dirs \subseteq begun
            /\ \A s \in Sids \ dirs :
                 logcat[s] = "none" /\ reader[s] = "none" /\ status[s] = "NOT_STARTED"
            /\ pc \in Stopping => logcat[cur] # "none"
            /\ pc \in {"copy", "report"} => cur \notin live
            /\ Finishing => todo \subseteq live

Typed == TypeOK /\ PlaceInv

USE DEF session, streams, manager, course, place, archive, aux, own, host, stopping, exporting

-----------------------------------------------------------------------------
(* What session_open does to a session.                                      *)

\* The first call makes the directory, and may leave a logcat, which the manager or nobody
\* knows; no later call changes the streams.
Opened(s) ==
  /\ s \notin dirs /\ dirs' = dirs \cup {s}
  /\ \E l \in {"none", "running"}, r \in {"none", "reading"},
        t \in {"NOT_STARTED", "RUNNING", "UNAVAILABLE"} :
       /\ logcat' = [logcat EXCEPT ![s] = l]
       /\ reader' = [reader EXCEPT ![s] = r]
       /\ status' = [status EXCEPT ![s] = t]
       /\ l = "running" => s \in live' \cup cut'
  /\ UNCHANGED <<bytes, disk>>

\* session_open opens the session, or leaves it as it is.
LEMMA OpenCases ==
  ASSUME Typed, NEW s \in begun, SessionOpen(s)
  PROVE  /\ live' = live \/ (live' = live \cup {s} /\ s \notin completed)
         /\ live' \subseteq dirs'
         /\ cut \subseteq cut' /\ cut' \subseteq dirs'
         /\ UNCHANGED <<diag, completed>> /\ faults' \in 0..MaxFaults
         /\ Opened(s) \/ UNCHANGED <<streams, dirs, live, cut>>
<1>1. s \in Sids /\ faults \in 0..MaxFaults /\ live \subseteq dirs /\ cut \subseteq dirs
  BY DEF Typed, TypeOK
<1>2. CASE UNCHANGED <<streams, dirs, live, cut, faults>>
  BY <1>1, <1>2 DEF SessionOpen
<1>3. CASE s \notin live \cup completed /\ OpenRaises(s) /\ UNCHANGED live
  <2>1. faults' \in 0..MaxFaults
    BY <1>1, <1>3, BoundsAssumption DEF OpenRaises, Fault
  <2>2. CASE UNCHANGED <<streams, dirs, cut>>
    BY <1>1, <1>3, <2>1, <2>2 DEF SessionOpen
  <2>3. CASE s \notin dirs /\ dirs' = dirs \cup {s} /\ UNCHANGED <<streams, cut>>
    <3>1. Opened(s)
      <4>1. logcat[s] = "none" /\ reader[s] = "none" /\ status[s] = "NOT_STARTED"
        BY <1>1, <2>3 DEF Typed, PlaceInv
      <4>2. /\ logcat' = [logcat EXCEPT ![s] = "none"]
            /\ reader' = [reader EXCEPT ![s] = "none"]
            /\ status' = [status EXCEPT ![s] = "NOT_STARTED"]
        BY <1>1, <2>3, <4>1 DEF Typed, TypeOK
      <4>3. QED
        BY <2>3, <4>2 DEF Opened
    <3>2. QED
      BY <1>1, <1>3, <2>1, <2>3, <3>1 DEF SessionOpen
  <2>4. CASE /\ s \notin dirs /\ dirs' = dirs \cup {s}
             /\ Spawn(s, "none") /\ cut' = cut \cup {s}
    <3>1. Opened(s)
      BY <2>4 DEF Opened, Spawn
    <3>2. QED
      BY <1>1, <1>3, <2>1, <2>4, <3>1 DEF SessionOpen
  <2>5. QED
    BY <1>3, <2>2, <2>3, <2>4 DEF OpenRaises
<1>4. CASE s \notin live \cup completed /\ OpenSucceeds(s)
  <2>1. s \notin dirs /\ dirs' = dirs \cup {s} /\ live' = live \cup {s}
    BY <1>4 DEF OpenSucceeds
  <2>2. ASSUME Spawn(s, "reading") PROVE Opened(s)
    BY <2>1, <2>2 DEF Spawn, Opened
  <2>3. ASSUME /\ status' = [status EXCEPT ![s] = "UNAVAILABLE"]
               /\ UNCHANGED <<logcat, reader, bytes, disk>>
        PROVE Opened(s)
    <3>1. logcat[s] = "none" /\ reader[s] = "none"
      BY <1>1, <2>1 DEF Typed, PlaceInv
    <3>2. /\ logcat' = [logcat EXCEPT ![s] = "none"]
          /\ reader' = [reader EXCEPT ![s] = "none"]
      BY <1>1, <2>3, <3>1 DEF Typed, TypeOK
    <3>3. QED
      BY <2>1, <2>3, <3>2 DEF Opened
  <2>4. Opened(s)
    BY <1>4, <2>1, <2>2, <2>3 DEF OpenSucceeds
  <2>5. QED
    BY <1>1, <1>4, <2>1, <2>4 DEF SessionOpen, OpenSucceeds
<1>5. QED
  BY <1>2, <1>3, <1>4 DEF SessionOpen

CourseTyped == /\ inFinal \in BOOLEAN /\ tried \in BOOLEAN /\ short \in BOOLEAN
               /\ caught \in {"none", "error", "interrupt"}

\* A Ctrl-C leaves the streams alone, or strikes while one session is being opened.
LEMMA InterruptCases ==
  ASSUME Typed, Interrupt
  PROVE  /\ pc # "end" /\ pc' \in {"except", "end"} /\ cur' = NoSid /\ todo' = {}
         /\ CourseTyped' /\ interrupts' \in 1..MaxInterrupts
         /\ pc' = "except" => ~inFinal'
         /\ cut \cup Abandoned \subseteq cut' /\ cut' \subseteq dirs'
         /\ UNCHANGED <<session, diag, live, completed, archive, late, spoiled, tries, faults>>
         /\ \/ UNCHANGED <<streams, dirs>>
            \/ \E s \in begun : s \in cut' /\ Opened(s)
<1>1. /\ pc # "end" /\ pc' \in {"except", "end"} /\ cur' = NoSid /\ todo' = {}
      /\ pc' = "except" => ~inFinal'
      /\ UNCHANGED <<session, diag, live, completed, archive, late, spoiled, tries, faults>>
  BY DEF Interrupt, Throw
<1>2. CourseTyped'
  BY DEF Interrupt, Throw, Typed, TypeOK, CourseTyped
<1>3. interrupts' \in 1..MaxInterrupts
  BY BoundsAssumption DEF Interrupt, Typed, TypeOK
<1>4. Abandoned \subseteq dirs
  <2>1. Owned \subseteq dirs
    BY DEF Owned, Typed, TypeOK, PlaceInv, Stopping
  <2>2. live \subseteq dirs
    BY DEF Typed, TypeOK
  <2>3. QED
    BY <2>1, <2>2 DEF Abandoned
<1>5. CASE cut' = cut \cup Abandoned /\ UNCHANGED <<streams, dirs>>
  BY <1>1, <1>2, <1>3, <1>4, <1>5 DEF Typed, TypeOK
<1>6. ASSUME NEW s \in Sids \ (dirs \cup completed), NEW r \in {"none", "reading"},
             s \in Opening, dirs' = dirs \cup {s}, Spawn(s, r), cut' = cut \cup Abandoned \cup {s}
      PROVE  s \in begun /\ s \in cut' /\ Opened(s) /\ cut' \subseteq dirs'
  <2>1. s \in begun
    BY <1>6 DEF Opening, Typed, TypeOK, Stopping
  <2>2. Opened(s)
    BY <1>6 DEF Opened, Spawn
  <2>3. cut' \subseteq dirs'
    BY <1>4, <1>6 DEF Typed, TypeOK
  <2>4. QED
    BY <1>6, <2>1, <2>2, <2>3
<1>7. QED
  BY <1>1, <1>2, <1>3, <1>5, <1>6 DEF Interrupt

\* Opening keeps the types of the streams, and what a session without a directory has.
LEMMA OpenedTyped ==
  ASSUME Typed, NEW s \in begun, Opened(s)
  PROVE  /\ dirs' \subseteq begun /\ dirs \subseteq dirs'
         /\ logcat' \in [Sids -> {"none", "running", "ended"}]
         /\ reader' \in [Sids -> {"none", "reading", "done"}]
         /\ status' \in [Sids -> Statuses]
         /\ UNCHANGED <<bytes, disk>>
         /\ \A q \in Sids \ dirs' :
              logcat'[q] = "none" /\ reader'[q] = "none" /\ status'[q] = "NOT_STARTED"
<1>1. PICK l \in {"none", "running"}, r \in {"none", "reading"},
           t \in {"NOT_STARTED", "RUNNING", "UNAVAILABLE"} :
        /\ logcat' = [logcat EXCEPT ![s] = l]
        /\ reader' = [reader EXCEPT ![s] = r]
        /\ status' = [status EXCEPT ![s] = t]
  BY DEF Opened
<1>2. s \in Sids /\ dirs' = dirs \cup {s} /\ UNCHANGED <<bytes, disk>> /\ dirs \subseteq begun
  BY DEF Opened, Typed, TypeOK, PlaceInv
<1>3. t \in Statuses
  BY DEF Statuses
<1>4. QED
  BY <1>1, <1>2, <1>3 DEF Typed, TypeOK, PlaceInv

\* The host waits; there is no session.
LEMMA TypedInit == ASSUME Init PROVE Typed
<1>1. 0 \in 0..Limit /\ 0 \in 0..MaxFaults /\ 0 \in 0..MaxInterrupts
  BY BoundsAssumption
<1>2. NoTree \in Tree /\ NewTree \in Tree
  BY <1>1 DEF NoTree, NewTree, Tree, Statuses
<1>3. TypeOK
  <2>1. {diag, inFinal, tried, short} \subseteq BOOLEAN
    BY DEF Init
  <2>2. "NOT_STARTED" \in Statuses /\ "UNAVAILABLE" \in Statuses
    BY DEF Statuses
  <2>3. cur \in IF pc \in Stopping \cup {"export", "pop", "copy", "report", "pack"}
               THEN begun ELSE {NoSid}
    BY DEF Init, Stopping
  <2>4. zip \in [Sids -> Tree] /\ tries \in [Sids -> 0..2]
    BY <1>2 DEF Init
  <2>5. /\ status \in [Sids -> Statuses] /\ bytes \in [Sids -> 0..Limit]
        /\ disk \in [Sids -> 0..Limit] /\ \A s \in Sids : disk[s] <= bytes[s]
    BY <1>1, <2>2 DEF Init
  <2>6. QED
    BY <1>1, <1>2, <2>1, <2>2, <2>3, <2>4, <2>5 DEF Init, TypeOK
<1>4. PlaceInv
  BY DEF Init, PlaceInv, Stopping, Finishing, FinishStops
<1>5. QED
  BY <1>3, <1>4 DEF Typed

\* The threads and the Windows side keep the types and the place of the host.
LEMMA TypedEnvironment == ASSUME Typed, Environment PROVE Typed'
<1> USE DEF Typed
<1>1. PICK s \in Sids : \/ SessionBegins(s) \/ SessionEnds(s) \/ LogcatEnds(s) \/ Drain(s)
                        \/ Spill(s) \/ DrainEnds(s) \/ DrainFails(s)
  BY DEF Environment
<1>2. CASE SessionBegins(s) \/ SessionEnds(s)
  BY <1>2 DEF SessionBegins, SessionEnds, TypeOK, PlaceInv, Finishing, FinishStops
<1>3. CASE LogcatEnds(s)
  BY <1>3 DEF LogcatEnds, TypeOK, PlaceInv, Finishing, FinishStops
<1>4. CASE Drain(s)
  BY <1>4, BoundsAssumption DEF Drain, TypeOK, PlaceInv, Finishing, FinishStops
<1>5. CASE Spill(s)
  BY <1>5, BoundsAssumption DEF Spill, TypeOK, PlaceInv, Finishing, FinishStops
<1>6. CASE DrainEnds(s)
  BY <1>6, BoundsAssumption DEF DrainEnds, TypeOK, PlaceInv, Finishing, FinishStops
<1>7. CASE DrainFails(s)
  <2>1. faults' \in 0..MaxFaults
    BY <1>7, BoundsAssumption DEF DrainFails, Fault, TypeOK
  <2>2. s \in dirs
    BY <1>7 DEF DrainFails, PlaceInv
  <2>3. QED
    BY <1>7, <2>1, <2>2 DEF DrainFails, TypeOK, PlaceInv, Finishing, FinishStops, Statuses
<1>8. QED
  BY <1>1, <1>2, <1>3, <1>4, <1>5, <1>6, <1>7

\* What Partial leaves in the tree is a tree.
LEMMA PartialTyped ==
  ASSUME NEW logs \in SUBSET (0..Limit), NEW covers \in SUBSET {"none", "cut"},
         Partial(logs, covers)
  PROVE  tree' \in Tree /\ tree'.warned /\ pc' = "pack"
BY DEF Partial, Tree

\* A failure is counted within its bound.
LEMMA FaultTyped ==
  ASSUME faults \in 0..MaxFaults, Fault \/ UNCHANGED faults
  PROVE  faults' \in 0..MaxFaults
BY BoundsAssumption DEF Fault

\* The loop of the host keeps the types and its place.
LEMMA TypedLoop ==
  ASSUME Typed, \/ Tick \/ OpenNext \/ OpenDone \/ Visit \/ VisitDone \/ StartFinalize
                \/ LogFailure \/ Handle
  PROVE  Typed'
<1> USE DEF Typed
<1>1. CASE Tick \/ OpenDone \/ VisitDone \/ StartFinalize \/ LogFailure \/ Handle
  <2>1. /\ pc' \in {"tick", "open", "visit", "failed", "except", "finalize", "finish", "return",
                    "end"}
        /\ todo' \subseteq begun /\ cur' = NoSid
        /\ pc' = "finish" => todo' \subseteq live
    BY <1>1
       DEF Tick, OpenDone, VisitDone, StartFinalize, LogFailure, Handle, Fails, Throw,
           GuardedFinalize, CutShort, TypeOK, PlaceInv, Stopping
  <2>2. CourseTyped' /\ faults' \in 0..MaxFaults
    BY <1>1, FaultTyped
       DEF Tick, OpenDone, VisitDone, StartFinalize, LogFailure, Handle, Fails, Throw,
           GuardedFinalize, CutShort, TypeOK, CourseTyped
  <2>3. /\ cut' \subseteq dirs
        /\ UNCHANGED <<session, streams, manager, archive, late, spoiled, tries, interrupts>>
    BY <1>1
       DEF Tick, OpenDone, VisitDone, StartFinalize, LogFailure, Handle, CutShort, TypeOK
  <2>4. QED
    BY <2>1, <2>2, <2>3
       DEF TypeOK, CourseTyped, PlaceInv, Finishing, FinishStops, Stopping
<1>2. CASE OpenNext
  <2>1. PICK s \in todo : SessionOpen(s) /\ todo' = todo \ {s}
    BY <1>2 DEF OpenNext
  <2>2. s \in begun /\ s \in Sids
    BY DEF TypeOK
  <2>3. UNCHANGED <<session, pc, cur, course, archive, late, spoiled, tries,
                    interrupts>> /\ pc = "open"
    BY <1>2 DEF OpenNext
  <2>4. CASE UNCHANGED <<streams, dirs, live, cut>>
    BY <2>1, <2>2, <2>3, <2>4, OpenCases
       DEF TypeOK, PlaceInv, Finishing, FinishStops, Stopping
  <2>5. CASE Opened(s)
    <3>1. live' \subseteq dirs' /\ completed' = completed /\ completed \cap live' = {}
          /\ cut' \subseteq dirs' /\ diag' = diag /\ faults' \in 0..MaxFaults
      BY <2>1, <2>2, OpenCases DEF TypeOK
    <3>2. QED
      BY <2>1, <2>2, <2>3, <2>5, <3>1, OpenedTyped
         DEF TypeOK, PlaceInv, Finishing, FinishStops, Stopping
  <2>6. QED
    BY <2>1, <2>2, <2>4, <2>5, OpenCases
<1>3. CASE Visit
  <2>1. PICK s \in todo :
          /\ todo' = todo \ {s}
          /\ \/ /\ cur' = s /\ pc' = "export" /\ tree' = NewTree
                /\ Attempt(s) /\ UNCHANGED <<spoiled, faults>>
             \/ UNCHANGED <<cur, pc, spoiled, tree, tries, faults>>
             \/ /\ Fault /\ pc' = "failed" /\ cur' = NoSid /\ Attempt(s)
                /\ spoiled' = spoiled \cup {s} /\ UNCHANGED tree
    BY <1>3 DEF Visit, Fails
  <2>2. NewTree \in Tree
    BY BoundsAssumption DEF NewTree, Tree, Statuses
  <2>3. tries' \in [Sids -> 0..2]
    BY <2>1 DEF Attempt, TypeOK
  <2>4. s \in begun /\ faults' \in 0..MaxFaults /\ spoiled' \subseteq begun
    BY <2>1, FaultTyped DEF TypeOK
  <2>5. UNCHANGED <<host, course, found, zip, archived, cut>> /\ pc = "visit" /\ cur = NoSid
    BY <1>3 DEF Visit, Fails, TypeOK, Stopping
  <2>6. QED
    BY <2>1, <2>2, <2>3, <2>4, <2>5 DEF TypeOK, PlaceInv, Finishing, FinishStops, Stopping
<1>4. QED
  BY <1>1, <1>2, <1>3

\* stop() keeps the types; the export goes on with its session, finish with the next.
LEMMA TypedStop ==
  ASSUME Typed, Terminate \/ JoinTimesOut \/ RejoinTimesOut \/ Settle
  PROVE  Typed'
<1> USE DEF Typed
<1>1. cur \in begun /\ cur \in Sids /\ logcat[cur] # "none" /\ cur \in dirs /\ pc \in Stopping
  <2>1. pc \in Stopping
    BY DEF Terminate, JoinTimesOut, RejoinTimesOut, Settle, Stopping
  <2>2. QED
    BY <2>1 DEF TypeOK, PlaceInv
<1>2. CASE Terminate
  BY <1>1, <1>2 DEF Terminate, TypeOK, PlaceInv, Finishing, FinishStops, Stopping
<1>3. CASE JoinTimesOut
  BY <1>1, <1>3 DEF JoinTimesOut, TypeOK, PlaceInv, Finishing, FinishStops, Stopping
<1>4. CASE RejoinTimesOut
  BY <1>1, <1>4 DEF RejoinTimesOut, TypeOK, PlaceInv, Finishing, FinishStops, Stopping
<1>5. CASE Settle
  <2>1. Settled(cur) \in Statuses
    BY <1>1 DEF Settled, Statuses, TypeOK
  <2>2. logcat' \in [Sids -> {"none", "running", "ended"}] /\ status' \in [Sids -> Statuses]
    BY <1>1, <1>5, <2>1 DEF Settle, Result, TypeOK
  <2>3. CASE cur \in live
    BY <1>1, <1>5, <2>1, <2>2, <2>3
       DEF Settle, Result, TypeOK, PlaceInv, Finishing, FinishStops, Stopping
  <2>4. CASE cur \notin live
    BY <1>1, <1>5, <2>1, <2>2, <2>4
       DEF Settle, Result, TypeOK, PlaceInv, Finishing, FinishStops, Stopping
  <2>5. QED
    BY <2>3, <2>4
<1>6. QED
  BY <1>2, <1>3, <1>4, <1>5

\* An export keeps the types; what it took out of live is not put back.
LEMMA TypedExport ==
  ASSUME Typed, Export \/ Pop \/ Copy \/ Report
  PROVE  Typed'
<1> USE DEF Typed
<1>1. cur \in begun /\ cur \in Sids /\ pc \notin Stopping /\ pc # "finish"
  BY DEF TypeOK, Export, Pop, Copy, Report, Stopping
<1>2. 0 \in 0..Limit /\ disk[cur] \in 0..Limit /\ tree.log \in 0..Limit
  BY <1>1, BoundsAssumption DEF TypeOK, Tree
<1>3. Fault => faults' \in 0..MaxFaults
  BY BoundsAssumption DEF Fault, TypeOK
<1>4. CASE Export
  <2>1. CASE Partial({0}, {"none"}) /\ UNCHANGED <<streams, manager, cut>>
             /\ faults' \in 0..MaxFaults
    <3>1. tree' \in Tree /\ pc' = "pack"
      BY <1>2, <2>1, PartialTyped
    <3>2. QED
      BY <1>1, <1>4, <2>1, <3>1
         DEF Export, TypeOK, PlaceInv, Finishing, FinishStops, Stopping
  <2>2. CASE SessionOpen(cur) /\ pc' = "pop" /\ UNCHANGED tree
    <3>1. UNCHANGED <<session, todo, cur, course, zip, archived, late, spoiled, tries,
                      interrupts, found>>
      BY <1>4 DEF Export
    <3>2. CASE UNCHANGED <<streams, dirs, live, cut>>
      BY <1>1, <2>2, <3>1, <3>2, OpenCases
         DEF TypeOK, PlaceInv, Finishing, FinishStops, Stopping
    <3>3. CASE Opened(cur)
      <4>1. live' \subseteq dirs' /\ completed' = completed /\ completed \cap live' = {}
            /\ cut' \subseteq dirs' /\ diag' = diag /\ faults' \in 0..MaxFaults
        BY <1>1, <2>2, OpenCases DEF TypeOK
      <4>2. QED
        BY <1>1, <2>2, <3>1, <3>3, <4>1, OpenedTyped
           DEF TypeOK, PlaceInv, Finishing, FinishStops, Stopping
    <3>4. QED
      BY <1>1, <2>2, <3>2, <3>3, OpenCases
  <2>3. faults \in 0..MaxFaults
    BY DEF TypeOK
  <2>4. QED
    BY <1>3, <1>4, <2>1, <2>2, <2>3 DEF Export
<1>5. CASE Pop
  BY <1>1, <1>5 DEF Pop, TypeOK, PlaceInv, Finishing, FinishStops, Stopping, Statuses
<1>6. CASE Copy
  <2>1. tree' \in Tree /\ pc' \in {"report", "pack"} /\ faults' \in 0..MaxFaults
    <3>1. CASE tree' = [tree EXCEPT !.log = disk[cur]] /\ pc' = "report" /\ UNCHANGED faults
      BY <1>2, <3>1 DEF TypeOK, Tree
    <3>2. CASE Fault /\ Partial({0, disk[cur]}, {"none"})
      BY <1>2, <1>3, <3>2, PartialTyped
    <3>3. QED
      BY <1>6, <3>1, <3>2 DEF Copy
  <2>2. QED
    BY <1>1, <1>6, <2>1 DEF Copy, TypeOK, PlaceInv, Finishing, FinishStops, Stopping
<1>7. CASE Report
  <2>1. tree' \in Tree /\ pc' = "pack" /\ faults' \in 0..MaxFaults
    <3>1. CASE tree' = [tree EXCEPT !.cover = found] /\ pc' = "pack" /\ UNCHANGED faults
      BY <3>1 DEF TypeOK, Tree
    <3>2. CASE Fault /\ Partial({tree.log}, {"none", "cut"})
      BY <1>2, <1>3, <3>2, PartialTyped
    <3>3. QED
      BY <1>7, <3>1, <3>2 DEF Report
  <2>2. completed' = completed \cup {cur} \/ completed' = completed
    BY <1>7 DEF Report
  <2>3. cur \notin live
    BY <1>7 DEF Report, PlaceInv
  <2>4. QED
    BY <1>1, <1>7, <2>1, <2>2, <2>3
       DEF Report, TypeOK, PlaceInv, Finishing, FinishStops, Stopping
<1>8. QED
  BY <1>4, <1>5, <1>6, <1>7

\* Every step keeps the types and the place of the host.
LEMMA TypedStep == ASSUME Typed, [Next]_vars PROVE Typed'
<1> USE DEF Typed
<1>1. CASE UNCHANGED vars
  BY <1>1 DEF vars, TypeOK, PlaceInv, Finishing, FinishStops
<1>2. CASE Pack
  <2>1. cur \in begun /\ cur \in Sids
    BY <1>2 DEF Pack, TypeOK
  <2>2. zip' \in [Sids -> Tree] /\ archived' \subseteq begun /\ spoiled' \subseteq begun
    BY <1>2, <2>1 DEF Pack, Spoiled, TypeOK
  <2>3. cur' = NoSid /\ pc' \in {"visit", "failed", "except"} /\ todo' \subseteq begun
    BY <1>2 DEF Pack, Raised, Fails, Throw, TypeOK
  <2>4. CourseTyped'
    BY <1>2 DEF Pack, Raised, Fails, Throw, TypeOK, CourseTyped
  <2>5. faults' \in 0..MaxFaults
    BY <1>2, FaultTyped DEF Pack, TypeOK
  <2>6. UNCHANGED <<session, streams, manager, found, tree, late, cut, tries, interrupts>>
    BY <1>2 DEF Pack
  <2>7. QED
    BY <2>2, <2>3, <2>4, <2>5, <2>6
       DEF TypeOK, CourseTyped, PlaceInv, Finishing, FinishStops, Stopping
<1>3. CASE FinishNext
  BY <1>3 DEF FinishNext, TypeOK, PlaceInv, Finishing, FinishStops, Stopping
<1>4. CASE FinishDone
  BY <1>4 DEF FinishDone, TypeOK, PlaceInv, Finishing, FinishStops, Stopping
<1>5. CASE Return
  <2>1. /\ pc' \in {"tick", "end"} /\ inFinal' \in BOOLEAN /\ faults' \in 0..MaxFaults
        /\ UNCHANGED <<host, todo, cur, tried, caught, short, archive, cut, spoiled, tries>>
        /\ pc = "return"
    BY <1>5, FaultTyped DEF Return, TypeOK
  <2>2. QED
    BY <2>1 DEF TypeOK, PlaceInv, Finishing, FinishStops, Stopping
<1>6. CASE Interrupt
  <2>1. CASE UNCHANGED <<streams, dirs>>
    BY <1>6, <2>1, InterruptCases
       DEF TypeOK, CourseTyped, PlaceInv, Finishing, FinishStops, Stopping
  <2>2. ASSUME NEW s \in begun, Opened(s) PROVE Typed'
    <3>1. live' \subseteq dirs' /\ late' \subseteq dirs'
      BY <1>6, <2>2, InterruptCases, OpenedTyped DEF TypeOK
    <3>2. QED
      BY <1>6, <2>2, <3>1, InterruptCases, OpenedTyped
         DEF TypeOK, CourseTyped, PlaceInv, Finishing, FinishStops, Stopping
  <2>3. QED
    BY <1>6, <2>1, <2>2, InterruptCases
<1>7. QED
  BY <1>1, <1>2, <1>3, <1>4, <1>5, <1>6, TypedEnvironment, TypedLoop, TypedStop, TypedExport
     DEF Next, Step

\* The device's streams, the manager's tables and the place of the host keep their types.
THEOREM DiagnosticsTyped == Spec => []TypeOK
<1>1. Typed => TypeOK
  BY DEF Typed
<1>2. QED
  BY <1>1, TypedInit, TypedStep, PTL DEF Spec

-----------------------------------------------------------------------------
(* Nothing is left running.                                                  *)

\* A running logcat is in live, is being stopped, or has lost its owner; what finish has
\* passed over does not run.
OwnerInv ==
  /\ pc # "end" => \A s \in Sids : logcat[s] = "running" =>
                     s \in live \/ s \in cut \/ (pc \in Stopping /\ s = cur)
  /\ Finishing => \A s \in live : logcat[s] = "running" => s \in todo \/ (FinishStops /\ s = cur)
  /\ pc = "return" => live \subseteq cut
  /\ NothingLeftRunning

\* Opening a session starts no logcat but its own, which is in live or has no owner.
LEMMA OpenedRuns ==
  ASSUME Typed, NEW s \in begun, Opened(s)
  PROVE  \A q \in Sids : logcat'[q] = "running" => logcat[q] = "running" \/ q \in live' \cup cut'
BY DEF Opened, Typed, TypeOK

\* Every step keeps an owner for what runs.
LEMMA OwnerStep == ASSUME Typed, OwnerInv, [Next]_vars PROVE OwnerInv'
<1> Typed'
  BY TypedStep
<1> USE DEF OwnerInv, NothingLeftRunning, Finishing, FinishStops
<1>1. CASE UNCHANGED vars
  BY <1>1 DEF vars
<1>2. CASE Environment
  <2>1. PICK s \in Sids : \/ SessionBegins(s) \/ SessionEnds(s) \/ LogcatEnds(s) \/ Drain(s)
                          \/ Spill(s) \/ DrainEnds(s) \/ DrainFails(s)
    BY <1>2 DEF Environment
  <2>2. /\ \A q \in Sids : logcat'[q] = "running" => logcat[q] = "running"
        /\ UNCHANGED <<pc, cur, live, todo, cut>>
    BY <2>1 DEF SessionBegins, SessionEnds, LogcatEnds, Drain, Spill, DrainEnds, DrainFails,
                Typed, TypeOK
  <2>3. live \subseteq Sids
    BY DEF Typed, TypeOK
  <2>4. QED
    BY <2>2, <2>3
<1>3. CASE OpenNext \/ (Export /\ diag /\ SessionOpen(cur) /\ pc' = "pop")
  <2>1. PICK s \in begun : SessionOpen(s)
    BY <1>3 DEF OpenNext, Export, Typed, TypeOK
  <2>2. pc \in {"open", "export"} /\ pc' \in {"open", "pop"}
    BY <1>3 DEF OpenNext, Export
  <2>3. \A q \in Sids : logcat'[q] = "running" => logcat[q] = "running" \/ q \in live' \cup cut'
    BY <2>1, OpenCases, OpenedRuns
  <2>4. QED
    BY <2>1, <2>2, <2>3, OpenCases DEF Stopping
<1>4. CASE Tick \/ OpenDone \/ Visit \/ VisitDone \/ StartFinalize \/ LogFailure \/ Handle
  <2>1. /\ UNCHANGED <<logcat, live>> /\ cut \subseteq cut'
        /\ pc' \in {"return", "end"} => live \subseteq cut'
    BY <1>4
       DEF Tick, OpenDone, Visit, VisitDone, StartFinalize, LogFailure, Handle, Fails, Throw,
           GuardedFinalize, CutShort
  <2>2. /\ pc \in {"tick", "open", "visit", "finalize", "failed", "except"}
        /\ pc' \notin Stopping
        /\ pc' = "finish" => todo' = live
    BY <1>4
       DEF Tick, OpenDone, Visit, VisitDone, StartFinalize, LogFailure, Handle, Fails, Throw,
           GuardedFinalize, CutShort, Stopping
  <2>3. QED
    BY <2>1, <2>2 DEF Stopping
<1>5. CASE (Export /\ UNCHANGED <<streams, manager, cut>> /\ pc' = "pack") \/ Copy \/ Report
  <2>1. UNCHANGED <<logcat, live, cut>> /\ pc \in {"export", "copy", "report"}
        /\ pc' \in {"report", "pack"}
    BY <1>5 DEF Export, Copy, Report, Partial
  <2>2. QED
    BY <2>1 DEF Stopping
<1>6. CASE Pop
  <2>1. /\ pc = "pop" /\ live' = live \ {cur} /\ UNCHANGED <<logcat, cut, cur>>
        /\ pc' \in {"report", "copy", "stop"}
        /\ cur \in live /\ logcat[cur] = "running" => pc' = "stop"
    BY <1>6 DEF Pop
  <2>2. QED
    BY <2>1 DEF Stopping
<1>7. CASE Terminate \/ JoinTimesOut \/ RejoinTimesOut
  <2>1. /\ pc \in Stopping /\ pc' \in Stopping /\ UNCHANGED <<live, cut, cur, todo>>
        /\ \A q \in Sids : logcat'[q] = "running" => logcat[q] = "running"
    BY <1>7 DEF Terminate, JoinTimesOut, RejoinTimesOut, Stopping, Typed, TypeOK
  <2>2. live \subseteq Sids
    BY DEF Typed, TypeOK
  <2>3. QED
    BY <2>1, <2>2 DEF Stopping
<1>8. CASE Settle
  <2>1. /\ pc \in Stopping /\ UNCHANGED <<live, cut, todo>> /\ cur \in Sids
        /\ \A q \in Sids : logcat'[q] = "running" => logcat[q] = "running" /\ q # cur
    BY <1>8 DEF Settle, Result, Stopping, Typed, TypeOK
  <2>2. \/ cur \in live /\ pc' = "finish" /\ cur' = NoSid
        \/ cur \notin live /\ pc' = "copy" /\ cur' = cur
    BY <1>8 DEF Settle, Result
  <2>3. live \subseteq Sids
    BY DEF Typed, TypeOK
  <2>4. QED
    BY <2>1, <2>2, <2>3 DEF Stopping
<1>9. CASE Pack
  <2>1. UNCHANGED <<logcat, live, cut>> /\ pc = "pack" /\ pc' \in {"visit", "failed", "except"}
    BY <1>9 DEF Pack, Raised, Fails, Throw
  <2>2. QED
    BY <2>1 DEF Stopping
<1>10. CASE FinishNext
  <2>1. PICK s \in todo :
          /\ todo' = todo \ {s}
          /\ IF logcat[s] = "none" THEN UNCHANGED <<pc, cur>> ELSE pc' = "stop" /\ cur' = s
    BY <1>10 DEF FinishNext
  <2>2. UNCHANGED <<logcat, live, cut>> /\ pc = "finish" /\ s \in live
    BY <1>10 DEF FinishNext, Typed, PlaceInv
  <2>3. QED
    BY <2>1, <2>2 DEF Stopping
<1>11. CASE FinishDone \/ Return
  <2>1. /\ UNCHANGED <<logcat, cut>>
        /\ pc' = "return" => live' = {}
        /\ pc' \in {"tick", "return", "end"}
    BY <1>11 DEF FinishDone, Return
  <2>2. live \subseteq Sids /\ pc \in {"finish", "return"} /\ (pc = "finish" => todo = {})
    BY <1>11 DEF FinishDone, Return, Typed, TypeOK
  <2>3. \A s \in Sids : logcat[s] = "running" => s \in cut
    BY <2>2 DEF Stopping
  <2>4. \A s \in Sids : logcat'[s] = "running" => s \in cut'
    BY <2>1, <2>3
  <2>5. pc' \notin Stopping /\ ~Finishing' /\ (pc' = "return" => live' \subseteq cut')
    BY <2>1 DEF Stopping
  <2>6. QED
    BY <2>4, <2>5
<1>12. CASE Interrupt
  <2>1. /\ pc # "end" /\ live' = live /\ cut \cup Abandoned \subseteq cut'
        /\ pc' \in {"except", "end"}
        /\ \A q \in Sids : logcat'[q] = "running" => logcat[q] = "running" \/ q \in cut'
    <3>1. CASE UNCHANGED <<streams, dirs>>
      BY <1>12, <3>1, InterruptCases
    <3>2. ASSUME NEW s \in begun, s \in cut', Opened(s)
          PROVE \A q \in Sids : logcat'[q] = "running" => logcat[q] = "running" \/ q \in cut'
      BY <3>2 DEF Opened, Typed, TypeOK
    <3>3. QED
      BY <1>12, <3>1, <3>2, InterruptCases
  <2>2. pc' = "end" => live \subseteq Abandoned
    BY <1>12 DEF Interrupt, Throw, Abandoned
  <2>3. pc \in Stopping /\ cur \notin live => cur \in Abandoned
    BY DEF Abandoned, Owned
  <2>4. \A q \in Sids : logcat'[q] = "running" => q \in live \cup cut'
    BY <2>1, <2>3
  <2>5. QED
    BY <2>1, <2>2, <2>4 DEF Stopping
<1>13. QED
  <2>1. Export => \/ diag /\ SessionOpen(cur) /\ pc' = "pop"
                  \/ UNCHANGED <<streams, manager, cut>> /\ pc' = "pack"
    BY DEF Export, Partial
  <2>2. QED
    BY <1>1, <1>2, <1>3, <1>4, <1>5, <1>6, <1>7, <1>8, <1>9, <1>10, <1>11, <1>12, <2>1
       DEF Next, Step

\* finish and stop: when the host ends, no logcat runs on except one that lost its owner.
THEOREM LogcatsStop == Spec => []NothingLeftRunning
<1>1. Init => OwnerInv
  BY DEF Init, OwnerInv, NothingLeftRunning, Finishing, FinishStops, Stopping
<1>2. Typed /\ OwnerInv /\ [Next]_vars => OwnerInv'
  BY OwnerStep
<1>3. OwnerInv => NothingLeftRunning
  BY DEF OwnerInv
<1>4. QED
  BY <1>1, <1>2, <1>3, TypedInit, TypedStep, PTL DEF Spec

-----------------------------------------------------------------------------
(* Gaps are reported.                                                        *)

\* What the file of a session holds, by where its reader stands.  A log is CAPTURED only
\* when its reader has gone, or has outlived stop().
ReaderInv == \A s \in Sids :
  /\ reader[s] = "none" => bytes[s] = 0
  /\ reader[s] = "done" /\ status[s] # "PARTIAL" => disk[s] = bytes[s]
  /\ status[s] = "CAPTURED" => bytes[s] > 0 /\ (reader[s] # "reading" \/ s \in late)

\* The lines in a tree are all there will be, if its COVERAGE says CAPTURED.
Kept(s, cover, log) ==
  cover = "CAPTURED" => s \in late \/ (s \in dirs /\ reader[s] # "reading" /\ log = bytes[s])
Honest(s, t) == t.warned \/ (t.cover \in Statuses /\ Kept(s, t.cover, t.log))

\* From what stop() returned over the tree to the archive.
TreeInv ==
  /\ pc = "copy" /\ found = "CAPTURED" => status[cur] = "CAPTURED" \/ cur \in late
  /\ pc = "report" => Kept(cur, found, tree.log)
  /\ pc = "pack" => Honest(cur, tree)
  /\ \A s \in Sids : zip[s] # NoTree => Honest(s, zip[s])

\* Steps of the reader threads, and of session_open.
Threads == \E s \in Sids : Drain(s) \/ Spill(s) \/ DrainEnds(s) \/ DrainFails(s)
Opens == \E s \in begun : Opened(s)

\* The four kinds of steps, by what they do to the streams.
LEMMA StreamSteps ==
  ASSUME Typed, [Next]_vars
  PROVE  \/ UNCHANGED <<reader, status, bytes, disk, dirs>> /\ late \subseteq late'
         \/ Opens /\ late' = late
         \/ Threads
         \/ Settle
<1>1. CASE UNCHANGED vars
  BY <1>1 DEF vars
<1>2. CASE Environment
  <2>1. PICK s \in Sids : \/ SessionBegins(s) \/ SessionEnds(s) \/ LogcatEnds(s) \/ Drain(s)
                          \/ Spill(s) \/ DrainEnds(s) \/ DrainFails(s)
    BY <1>2 DEF Environment
  <2>2. CASE SessionBegins(s) \/ SessionEnds(s) \/ LogcatEnds(s)
    BY <2>2 DEF SessionBegins, SessionEnds, LogcatEnds
  <2>3. QED
    BY <2>1, <2>2 DEF Threads
<1>3. CASE OpenNext \/ Export
  <2>1. late' = late
    BY <1>3 DEF OpenNext, Export
  <2>2. CASE UNCHANGED <<streams, manager, cut>>
    BY <2>1, <2>2
  <2>3. ASSUME NEW s \in begun, SessionOpen(s)
        PROVE Opens \/ UNCHANGED <<reader, status, bytes, disk, dirs>>
    BY <2>3, OpenCases DEF Opens
  <2>4. cur \in begun \/ ~Export
    BY DEF Export, Typed, TypeOK
  <2>5. todo \subseteq begun
    BY DEF Typed, TypeOK
  <2>6. QED
    BY <1>3, <2>1, <2>2, <2>3, <2>4, <2>5 DEF OpenNext, Export
<1>4. CASE Interrupt
  BY <1>4, InterruptCases DEF Opens
<1>5. CASE \/ Tick \/ OpenDone \/ Visit \/ VisitDone \/ LogFailure \/ Handle
           \/ StartFinalize \/ Pop \/ Terminate \/ JoinTimesOut \/ RejoinTimesOut \/ Copy \/ Report \/ Pack \/ FinishNext
           \/ FinishDone \/ Return
  BY <1>5 DEF Tick, OpenDone, Visit, VisitDone, LogFailure, Handle, StartFinalize, Pop, Terminate, JoinTimesOut,
              RejoinTimesOut, Copy, Report, Pack, FinishNext, FinishDone, Return
<1>6. QED
  BY <1>1, <1>2, <1>3, <1>4, <1>5 DEF Next, Step

\* Once its reader has gone a session's log is what it is.
LEMMA KeptStays ==
  ASSUME Typed, [Next]_vars, NEW s \in Sids, NEW cover, NEW log, Kept(s, cover, log)
  PROVE  Kept(s, cover, log)'
<1>1. dirs \subseteq dirs' /\ late \subseteq late'
  BY StreamSteps
     DEF Opens, Opened, Threads, Drain, Spill, DrainEnds, DrainFails, Settle, Result
<1>2. ASSUME s \in dirs, reader[s] # "reading"
      PROVE reader'[s] # "reading" /\ bytes'[s] = bytes[s]
  <2>1. CASE UNCHANGED <<reader, status, bytes, disk, dirs>>
    BY <1>2, <2>1
  <2>2. CASE Opens
    BY <1>2, <2>2 DEF Opens, Opened, Typed, TypeOK
  <2>3. CASE Threads
    BY <1>2, <2>3 DEF Threads, Drain, Spill, DrainEnds, DrainFails, Typed, TypeOK
  <2>4. CASE Settle
    BY <1>2, <2>4 DEF Settle, Result
  <2>5. QED
    BY <2>1, <2>2, <2>3, <2>4, StreamSteps
<1>3. QED
  BY <1>1, <1>2 DEF Kept

\* Every step keeps what the readers hold.
LEMMA ReaderStep == ASSUME Typed, ReaderInv, [Next]_vars PROVE ReaderInv'
<1> SUFFICES ASSUME NEW q \in Sids
             PROVE (/\ reader[q] = "none" => bytes[q] = 0
                    /\ reader[q] = "done" /\ status[q] # "PARTIAL" => disk[q] = bytes[q]
                    /\ status[q] = "CAPTURED" =>
                         bytes[q] > 0 /\ (reader[q] # "reading" \/ q \in late))'
  BY DEF ReaderInv
<1>1. /\ reader[q] = "none" => bytes[q] = 0
      /\ reader[q] = "done" /\ status[q] # "PARTIAL" => disk[q] = bytes[q]
      /\ status[q] = "CAPTURED" => bytes[q] > 0 /\ (reader[q] # "reading" \/ q \in late)
      /\ bytes[q] \in 0..Limit /\ disk[q] \in 0..Limit /\ disk[q] <= bytes[q]
  BY DEF ReaderInv, Typed, TypeOK
<1>2. CASE UNCHANGED <<reader, status, bytes, disk, dirs>> /\ late \subseteq late'
  BY <1>1, <1>2
<1>3. CASE Opens /\ late' = late
  <2>1. PICK s \in begun : Opened(s)
    BY <1>3 DEF Opens
  <2>2. CASE q # s
    BY <1>1, <1>3, <2>1, <2>2 DEF Opened, Typed, TypeOK
  <2>3. CASE q = s
    <3>1. reader[q] = "none"
      BY <2>1, <2>3 DEF Opened, Typed, PlaceInv
    <3>2. /\ reader'[q] \in {"none", "reading"} /\ status'[q] # "CAPTURED"
          /\ bytes' = bytes
      BY <2>1, <2>3 DEF Opened, Typed, TypeOK
    <3>3. QED
      BY <1>1, <3>1, <3>2
  <2>4. QED
    BY <2>2, <2>3
<1>4. CASE Threads
  <2>1. PICK s \in Sids : Drain(s) \/ Spill(s) \/ DrainEnds(s) \/ DrainFails(s)
    BY <1>4 DEF Threads
  <2>2. CASE Drain(s)
    BY <1>1, <2>2 DEF Drain, Typed, TypeOK
  <2>3. CASE Spill(s)
    BY <1>1, <2>3 DEF Spill, Typed, TypeOK
  <2>4. CASE DrainEnds(s)
    BY <1>1, <2>4 DEF DrainEnds, Typed, TypeOK
  <2>5. CASE DrainFails(s)
    BY <1>1, <2>5 DEF DrainFails, Typed, TypeOK
  <2>6. QED
    BY <2>1, <2>2, <2>3, <2>4, <2>5
<1>5. CASE Settle
  <2>1. UNCHANGED <<reader, bytes, disk, late>> /\ status' = [status EXCEPT ![cur] = Settled(cur)]
        /\ (reader[cur] # "reading" \/ cur \in late)
    BY <1>5 DEF Settle, Result
  <2>2. CASE q # cur
    BY <1>1, <2>1, <2>2 DEF Typed, TypeOK
  <2>3. CASE q = cur
    <3>1. status'[q] = Settled(q)
      BY <2>1, <2>3 DEF Typed, TypeOK
    <3>2. /\ status'[q] = "CAPTURED" => bytes[q] > 0
          /\ status'[q] # "PARTIAL" => status[q] # "PARTIAL"
      BY <1>1, <3>1 DEF Settled
    <3>3. QED
      BY <1>1, <2>1, <2>3, <3>2
  <2>4. QED
    BY <2>2, <2>3
<1>6. QED
  BY <1>2, <1>3, <1>4, <1>5, StreamSteps

\* A thread takes CAPTURED back only from a session whose reader outlived stop().
LEMMA CapturedStays ==
  ASSUME Typed, ReaderInv, Environment, NEW s \in Sids, status[s] = "CAPTURED"
  PROVE  status'[s] = "CAPTURED" \/ s \in late'
<1>1. PICK q \in Sids : \/ SessionBegins(q) \/ SessionEnds(q) \/ LogcatEnds(q) \/ Drain(q)
                        \/ Spill(q) \/ DrainEnds(q) \/ DrainFails(q)
  BY DEF Environment
<1>2. CASE DrainFails(q)
  <2>1. CASE q = s
    BY <1>2, <2>1 DEF DrainFails, ReaderInv
  <2>2. CASE q # s
    BY <1>2, <2>2 DEF DrainFails, Typed, TypeOK
  <2>3. QED
    BY <2>1, <2>2
<1>3. CASE status' = status
  BY <1>3
<1>4. QED
  BY <1>1, <1>2, <1>3
     DEF SessionBegins, SessionEnds, LogcatEnds, Drain, Spill, DrainEnds

\* Threads and the Windows side leave the host where it is, with what it has.
LEMMA HostStays ==
  ASSUME Environment
  PROVE  /\ UNCHANGED <<manager, place, archive, aux, interrupts>> /\ pc # "end"
         /\ begun \subseteq begun' /\ (inFinal => begun' = begun)
BY DEF Environment, SessionBegins, SessionEnds, LogcatEnds, Drain, Spill, DrainEnds, DrainFails

\* What is copied after stop() is what the reader took.
LEMMA CopiedIsKept ==
  ASSUME Typed, ReaderInv, cur \in Sids, status[cur] = "CAPTURED" \/ cur \in late
  PROVE  Kept(cur, "CAPTURED", disk[cur])
<1> SUFFICES ASSUME cur \notin late
             PROVE cur \in dirs /\ reader[cur] # "reading" /\ disk[cur] = bytes[cur]
  BY DEF Kept
<1>1. status[cur] = "CAPTURED" /\ reader[cur] # "reading"
  BY DEF ReaderInv
<1>2. cur \in dirs
  BY <1>1 DEF Typed, PlaceInv
<1>3. reader[cur] \in {"none", "done"} /\ disk[cur] \in Nat /\ disk[cur] <= bytes[cur]
  BY <1>1, BoundsAssumption DEF Typed, TypeOK
<1>4. QED
  BY <1>1, <1>2, <1>3 DEF ReaderInv

\* Every step of the host hands on a tree that is honest.
LEMMA TreeStep == ASSUME Typed, ReaderInv, TreeInv, [Next]_vars PROVE TreeInv'
<1>1. Typed' /\ ReaderInv'
  BY TypedStep, ReaderStep
<1>2. \A s \in Sids : \A cover, log : Kept(s, cover, log) => Kept(s, cover, log)'
  BY KeptStays
<1>3. \A s \in Sids : \A t : Honest(s, t) => Honest(s, t)'
  BY <1>2 DEF Honest, Kept
<1>4. CASE UNCHANGED vars
  BY <1>4 DEF vars, TreeInv, Honest, Kept
<1>5. CASE Environment
  <2>1. UNCHANGED <<pc, cur, found, tree, zip, late>>
    BY <1>5, HostStays
  <2>2. pc \in {"copy", "report", "pack"} => cur \in Sids
    BY DEF Typed, TypeOK
  <2>3. pc = "copy" /\ found = "CAPTURED" => status'[cur] = "CAPTURED" \/ cur \in late'
    BY <1>5, <2>1, <2>2, CapturedStays DEF TreeInv
  <2>4. pc = "report" => Kept(cur, found, tree.log)'
    BY <1>2, <2>1, <2>2 DEF TreeInv, Kept
  <2>5. pc = "pack" => Honest(cur, tree)'
    BY <1>3, <2>1, <2>2 DEF TreeInv, Honest, Kept
  <2>6. \A s \in Sids : zip[s] # NoTree => Honest(s, zip[s])'
    BY <1>3, <2>1 DEF TreeInv, Honest, Kept
  <2>7. QED
    BY <2>1, <2>3, <2>4, <2>5, <2>6 DEF TreeInv
<1>6. ASSUME zip' = zip
      PROVE \A s \in Sids : zip'[s] # NoTree => Honest(s, zip[s])'
  BY <1>3, <1>6 DEF TreeInv, Honest, Kept
<1>7. CASE \/ Tick \/ OpenNext \/ OpenDone \/ Visit \/ VisitDone \/ StartFinalize
           \/ LogFailure \/ Handle \/ FinishNext \/ FinishDone \/ Return \/ Interrupt
           \/ Terminate \/ JoinTimesOut \/ RejoinTimesOut
  <2>1. /\ zip' = zip /\ pc' \notin {"copy", "report", "pack"}
    BY <1>7, InterruptCases
       DEF Tick, OpenNext, OpenDone, Visit, VisitDone, StartFinalize, LogFailure, Handle, Fails,
           Throw, GuardedFinalize, CutShort, FinishNext, FinishDone, Return, Terminate, JoinTimesOut, RejoinTimesOut
  <2>2. QED
    BY <1>6, <2>1 DEF TreeInv
<1>8. CASE Settle
  <2>1. /\ zip' = zip /\ pc' \in {"finish", "copy"} /\ cur \in Sids
        /\ found' = Settled(cur) /\ status' = [status EXCEPT ![cur] = Settled(cur)]
        /\ pc' = "copy" => cur' = cur
    BY <1>8 DEF Settle, Result, Typed, TypeOK, Stopping
  <2>2. pc' = "copy" => found' = status'[cur']
    BY <2>1 DEF Typed, TypeOK
  <2>3. QED
    BY <1>6, <2>1, <2>2 DEF TreeInv
<1>9. CASE Export
  <2>1. zip' = zip /\ (pc' = "pop" \/ (pc' = "pack" /\ tree'.warned))
    <3>1. Partial({0}, {"none"}) => tree'.warned /\ pc' = "pack"
      <4>1. {0} \in SUBSET (0..Limit) /\ {"none"} \in SUBSET {"none", "cut"}
        BY BoundsAssumption
      <4>2. QED
        BY <4>1, PartialTyped
    <3>2. QED
      BY <1>9, <3>1 DEF Export
  <2>2. QED
    BY <1>6, <2>1 DEF TreeInv, Honest
<1>10. CASE Pop
  <2>1. zip' = zip /\ pc' \in {"copy", "report", "stop"} /\ found' = "UNAVAILABLE"
    BY <1>10 DEF Pop
  <2>2. QED
    BY <1>6, <2>1 DEF TreeInv, Kept
<1>11. CASE Copy
  <2>1. /\ zip' = zip /\ cur \in Sids /\ disk[cur] \in 0..Limit /\ tree \in Tree
        /\ UNCHANGED <<cur, found, streams, dirs, late>> /\ pc = "copy"
    BY <1>11 DEF Copy, Typed, TypeOK
  <2>2. CASE tree' = [tree EXCEPT !.log = disk[cur]] /\ pc' = "report"
    <3>1. tree'.log = disk[cur]
      BY <2>1, <2>2 DEF Tree
    <3>2. Kept(cur, found, disk[cur])
      <4>1. CASE found = "CAPTURED"
        BY <2>1, <4>1, CopiedIsKept DEF TreeInv
      <4>2. CASE found # "CAPTURED"
        BY <4>2 DEF Kept
      <4>3. QED
        BY <4>1, <4>2
    <3>3. Kept(cur, found, tree.log)'
      BY <2>1, <3>1, <3>2 DEF Kept
    <3>4. QED
      BY <1>6, <2>1, <2>2, <3>3 DEF TreeInv
  <2>3. CASE Partial({0, disk[cur]}, {"none"})
    <3>1. tree'.warned /\ pc' = "pack"
      BY <2>1, <2>3, BoundsAssumption, PartialTyped
    <3>2. QED
      BY <1>6, <2>1, <3>1 DEF TreeInv, Honest
  <2>4. QED
    BY <1>11, <2>2, <2>3 DEF Copy
<1>12. CASE Report
  <2>1. /\ zip' = zip /\ cur \in Sids /\ tree \in Tree /\ found \in Statuses
        /\ UNCHANGED <<cur, found, streams, dirs, late>> /\ pc = "report"
    BY <1>12 DEF Report, Typed, TypeOK
  <2>2. CASE tree' = [tree EXCEPT !.cover = found] /\ pc' = "pack"
    <3>1. tree'.log = tree.log /\ tree'.cover = found
      BY <2>1, <2>2 DEF Tree
    <3>2. Kept(cur, tree.cover, tree.log)' /\ tree'.cover \in Statuses
      BY <2>1, <3>1 DEF TreeInv, Kept
    <3>3. QED
      BY <1>6, <2>1, <2>2, <3>2 DEF TreeInv, Honest
  <2>3. CASE Partial({tree.log}, {"none", "cut"})
    <3>1. tree'.warned /\ pc' = "pack"
      BY <2>1, <2>3, PartialTyped DEF Tree
    <3>2. QED
      BY <1>6, <2>1, <3>1 DEF TreeInv, Honest
  <2>4. QED
    BY <1>12, <2>2, <2>3 DEF Report
<1>13. CASE Pack
  <2>1. /\ pc' \in {"visit", "failed", "except"} /\ cur \in Sids /\ pc = "pack"
        /\ zip' = zip \/ zip' = [zip EXCEPT ![cur] = tree]
    BY <1>13 DEF Pack, Raised, Fails, Throw, Typed, TypeOK
  <2>2. \A s \in Sids : zip'[s] = zip[s] \/ (s = cur /\ zip'[s] = tree)
    BY <2>1 DEF Typed, TypeOK
  <2>3. ASSUME NEW s \in Sids, zip'[s] # NoTree PROVE Honest(s, zip[s])'
    <3>1. CASE zip'[s] = zip[s]
      BY <1>3, <2>3, <3>1 DEF TreeInv, Honest, Kept
    <3>2. CASE s = cur /\ zip'[s] = tree
      BY <1>3, <2>1, <3>2 DEF TreeInv, Honest, Kept
    <3>3. QED
      BY <2>2, <3>1, <3>2
  <2>4. QED
    BY <2>1, <2>3 DEF TreeInv
<1>14. QED
  BY <1>4, <1>5, <1>7, <1>8, <1>9, <1>10, <1>11, <1>12, <1>13 DEF Next, Step

\* _drain, stop, export_session and archive_session: an archive without a warning has a
\* COVERAGE, and one that says CAPTURED has every line, unless the reader outlived kill.
THEOREM GapsReported == Spec => []GapsAreReported
<1>1. Init => ReaderInv /\ TreeInv
  BY DEF Init, ReaderInv, TreeInv
<1>2. ReaderInv /\ TreeInv /\ Typed /\ [Next]_vars => ReaderInv' /\ TreeInv'
  BY ReaderStep, TreeStep
<1>3. TreeInv => GapsAreReported
  BY DEF TreeInv, Honest, Kept, GapsAreReported, Statuses
<1>4. QED
  BY <1>1, <1>2, <1>3, TypedInit, TypedStep, PTL DEF Spec

-----------------------------------------------------------------------------
(* The diagnostics cost no archive.                                          *)

\* The last pass of finalize has every session behind it, in its hands or before it; when
\* it is over each one is archived or has failed, unless the pass itself was cut short.
Dealt == archived \cup spoiled
PassInv ==
  /\ \A s \in Sids : s \in Dealt \/ zip[s] # NoTree => tries[s] >= 1
  /\ Exporting => tries[cur] >= 1
  /\ inFinal /\ (pc \in {"visit", "failed"} \/ Exporting) =>
       begun \subseteq Dealt \cup todo \cup {cur}
  /\ pc \in {"tick", "open"} => ~inFinal
  /\ pc = "finalize" => inFinal
  /\ Finishing => inFinal /\ begun \subseteq Dealt
  /\ pc = "return" => inFinal /\ (short \/ begun \subseteq Dealt)
  /\ DiagnosticsCostNoArchive

\* Nothing but a visit and the packing touches the records of a session's archive.
LEMMA RecordSteps ==
  ASSUME [Next]_vars
  PROVE  Visit \/ Pack \/ UNCHANGED <<zip, archived, spoiled, tries>>
BY DEF Next, Step, Environment, SessionBegins, SessionEnds, LogcatEnds, Drain, Spill, DrainEnds,
       DrainFails, Tick, OpenNext, OpenDone, VisitDone, StartFinalize, LogFailure, Handle, Export, Pop, Terminate,
       JoinTimesOut, RejoinTimesOut, Settle, Result, Copy, Report, FinishNext, FinishDone,
       Return, Interrupt, vars

\* Every step of the host keeps each session on one of the lists.
LEMMA PassStep == ASSUME Typed, PassInv, [Next]_vars PROVE PassInv'
<1> Typed'
  BY TypedStep
<1> USE DEF PassInv, Exporting, Finishing, FinishStops, DiagnosticsCostNoArchive, Dealt
<1>1. CASE UNCHANGED vars
  BY <1>1 DEF vars
<1>2. CASE Environment
  BY <1>2, HostStays
<1>3. CASE Tick \/ OpenNext \/ OpenDone
  <2>1. /\ UNCHANGED <<begun, zip, archived, spoiled, tries, inFinal>> /\ ~inFinal
        /\ pc' \in {"open", "visit", "failed"}
    BY <1>3 DEF Tick, OpenNext, OpenDone, Fails
  <2>2. QED
    BY <2>1 DEF Stopping
<1>4. CASE StartFinalize \/ LogFailure \/ Handle
  <2>1. UNCHANGED <<begun, zip, archived, spoiled, tries>>
    BY <1>4 DEF StartFinalize, LogFailure, Handle
  <2>2. \/ /\ pc' = "visit" /\ inFinal' = inFinal /\ cur' = cur
           /\ todo' = begun \/ (pc = "failed" /\ todo' = todo)
        \/ pc' = "return" /\ inFinal' = inFinal /\ short'
        \/ pc' = "end" /\ short'
        \/ pc' = "except"
        \/ pc' = "finalize" /\ inFinal'
    BY <1>4 DEF StartFinalize, LogFailure, Handle, CutShort, Throw, GuardedFinalize
  <2>3. pc' = "return" => inFinal
    BY <1>4 DEF StartFinalize, LogFailure, Handle, CutShort, Throw, GuardedFinalize
  <2>4. QED
    BY <2>1, <2>2, <2>3 DEF Stopping
<1>5. CASE Visit
  <2>1. PICK s \in todo :
          /\ todo' = todo \ {s}
          /\ \/ cur' = s /\ pc' = "export" /\ Attempt(s) /\ UNCHANGED spoiled
             \/ (s \in archived \/ ~inFinal) /\ UNCHANGED <<cur, pc, spoiled, tries>>
             \/ pc' = "failed" /\ cur' = NoSid /\ Attempt(s) /\ spoiled' = spoiled \cup {s}
    BY <1>5 DEF Visit, Fails
  <2>2. /\ UNCHANGED <<begun, zip, archived, inFinal>> /\ pc = "visit"
        /\ s \in Sids /\ cur = NoSid /\ NoSid \notin begun
    BY <1>5, SidsAssumption DEF Visit, Fails, Typed, TypeOK, Stopping
  <2>3. /\ \A q \in Sids : tries'[q] >= tries[q]
        /\ pc' \in {"export", "failed"} => tries'[s] >= 1
    BY <2>1, <2>2 DEF Attempt, Typed, TypeOK
  <2>4. \A q \in Sids : tries[q] \in Nat /\ tries'[q] \in Nat
    BY DEF Typed, TypeOK
  <2>5. QED
    BY <2>1, <2>2, <2>3, <2>4 DEF Stopping
<1>6. CASE VisitDone
  <2>1. /\ UNCHANGED <<begun, zip, archived, spoiled, tries>> /\ pc = "visit" /\ todo = {}
        /\ cur = NoSid /\ NoSid \notin begun
        /\ \/ inFinal /\ inFinal' /\ pc' = "finish"
           \/ pc' = "tick" /\ ~inFinal'
           \/ pc' = "finalize" /\ inFinal'
           \/ pc' = "except"
    BY <1>6, SidsAssumption DEF VisitDone, GuardedFinalize, Throw, Typed, TypeOK, Stopping
  <2>2. QED
    BY <2>1 DEF Stopping
<1>7. CASE Export \/ Pop \/ Copy \/ Report
  <2>1. /\ UNCHANGED <<begun, zip, archived, spoiled, tries, inFinal, todo, cur>>
        /\ pc \in {"export", "pop", "copy", "report"}
        /\ \/ pc' \in {"pop", "copy", "report", "pack"}
           \/ pc' = "stop" /\ cur \notin live'
    BY <1>7 DEF Export, Pop, Copy, Report, Partial
  <2>2. QED
    BY <2>1 DEF Stopping
<1>8. CASE Terminate \/ JoinTimesOut \/ RejoinTimesOut
  <2>1. /\ UNCHANGED <<begun, zip, archived, spoiled, tries, inFinal, todo, cur, live>>
        /\ pc \in Stopping /\ pc' \in Stopping
    BY <1>8 DEF Terminate, JoinTimesOut, RejoinTimesOut, Stopping
  <2>2. QED
    BY <2>1 DEF Stopping
<1>9. CASE Settle
  <2>1. /\ UNCHANGED <<begun, zip, archived, spoiled, tries, inFinal, todo, live>>
        /\ pc \in Stopping
        /\ \/ cur \in live /\ pc' = "finish"
           \/ cur \notin live /\ pc' = "copy" /\ cur' = cur
    BY <1>9 DEF Settle, Result, Stopping
  <2>2. QED
    BY <2>1 DEF Stopping
<1>10. CASE Pack
  <2>1. /\ UNCHANGED <<begun, tries>> /\ pc = "pack" /\ cur \in begun /\ cur \in Sids
        /\ tries[cur] >= 1
        /\ archived \subseteq archived' /\ spoiled \subseteq spoiled'
        /\ archived' \cup spoiled' = archived \cup spoiled \cup {cur}
        /\ \A s \in Sids : zip'[s] = zip[s] \/ s = cur
    BY <1>10 DEF Pack, Spoiled, Typed, TypeOK
  <2>2. /\ pc' \in {"visit", "failed", "except"}
        /\ inFinal /\ pc' # "except" => inFinal' /\ todo' = todo
        /\ ~inFinal => ~inFinal'
    BY <1>10 DEF Pack, Raised, Fails, Throw
  <2>3. QED
    BY <2>1, <2>2 DEF Stopping
<1>11. CASE FinishNext \/ FinishDone \/ Return
  <2>1. /\ UNCHANGED <<begun, zip, archived, spoiled, tries, short>>
        /\ pc \in {"finish", "return"}
        /\ \/ pc' \in {"finish", "return"} /\ inFinal' = inFinal /\ pc = "finish"
           \/ pc' = "stop" /\ cur' \in live' /\ inFinal' = inFinal /\ pc = "finish"
           \/ pc' = "end" /\ pc = "return"
           \/ pc' = "tick" /\ ~inFinal'
    BY <1>11 DEF FinishNext, FinishDone, Return, Typed, PlaceInv
  <2>2. QED
    BY <2>1 DEF Stopping
<1>12. CASE Interrupt
  <2>1. /\ UNCHANGED <<begun, zip, archived, spoiled, tries>> /\ pc' \in {"except", "end"}
        /\ interrupts' # 0
    BY <1>12, InterruptCases
  <2>2. QED
    BY <2>1 DEF Stopping
<1>13. QED
  BY <1>1, <1>2, <1>3, <1>4, <1>5, <1>6, <1>7, <1>8, <1>9, <1>10, <1>11, <1>12 DEF Next, Step

\* tick and export_session: whatever fails in the diagnostics, without a Ctrl-C every session
\* is archived in the end, unless it failed outside them or finalize did not get to it.
THEOREM NoArchiveIsLost == Spec => []DiagnosticsCostNoArchive
<1>1. Init => PassInv
  BY DEF Init, PassInv, Exporting, Finishing, FinishStops, Stopping, DiagnosticsCostNoArchive,
         Dealt
<1>2. Typed /\ PassInv /\ [Next]_vars => PassInv'
  BY PassStep
<1>3. PassInv => DiagnosticsCostNoArchive
  BY DEF PassInv
<1>4. QED
  BY <1>1, <1>2, <1>3, TypedInit, TypedStep, PTL DEF Spec

-----------------------------------------------------------------------------
(* What was captured is archived.                                            *)

\* The archive of a first attempt, if it does not warn, was written after the only stop()
\* of its session's logcat, and has a line if there was one.
Taken(s, t) == \/ t.warned \/ tries[s] = 2 \/ s \in late
               \/ s \in completed /\ (status[s] = "CAPTURED" => t.log > 0)
TakenInv ==
  /\ \A s \in Sids : status[s] = "CAPTURED" => tries[s] >= 1
  /\ Exporting /\ zip[cur] # NoTree => tries[cur] = 2
  /\ pc \in {"export", "pop"} /\ status[cur] = "CAPTURED" => tries[cur] = 2
  /\ pc = "report" =>
       tries[cur] = 2 \/ cur \in late \/ (status[cur] = "CAPTURED" => tree.log > 0)
  /\ pc = "pack" => Taken(cur, tree)
  /\ \A s \in Sids : zip[s] # NoTree => Taken(s, zip[s])

\* A log becomes CAPTURED in stop() only.
LEMMA CapturedBefore ==
  ASSUME Typed, [Next]_vars, NEW s \in Sids, status'[s] = "CAPTURED"
  PROVE  status[s] = "CAPTURED" \/ (Settle /\ s = cur)
<1>1. CASE Opens
  BY <1>1 DEF Opens, Opened, Typed, TypeOK
<1>2. CASE Threads
  BY <1>2 DEF Threads, Drain, Spill, DrainEnds, DrainFails, Typed, TypeOK
<1>3. CASE Settle
  BY <1>3 DEF Settle, Result, Typed, TypeOK
<1>4. QED
  BY <1>1, <1>2, <1>3, StreamSteps

\* Attempts are counted, exported and late sessions stay so.
LEMMA CountsGrow ==
  ASSUME Typed, [Next]_vars
  PROVE  /\ completed \subseteq completed' /\ late \subseteq late'
         /\ \A s \in Sids : /\ tries[s] \in 0..2 /\ tries'[s] \in 0..2
                            /\ tries[s] <= tries'[s]
<1>1. completed \subseteq completed'
  <2>1. SessionOpen(cur) => completed' = completed
    BY DEF SessionOpen
  <2>2. OpenNext \/ Interrupt => completed' = completed
    BY DEF OpenNext, SessionOpen, Interrupt
  <2>3. QED
    BY <2>1, <2>2
       DEF Next, Step, Environment, SessionBegins, SessionEnds, LogcatEnds, Drain, Spill,
           DrainEnds, DrainFails, Tick, OpenDone, Visit, VisitDone, LogFailure, Handle,
           StartFinalize, Export, Pop, Terminate, JoinTimesOut, RejoinTimesOut, Settle, Result, Copy, Report, Pack,
           FinishNext, FinishDone, Return, vars
<1>2. late \subseteq late'
  BY StreamSteps DEF Threads, Drain, Spill, DrainEnds, DrainFails, Settle, Result
<1>3. \A s \in Sids : tries[s] \in 0..2 /\ tries'[s] \in 0..2 /\ tries[s] <= tries'[s]
  <2>1. Typed'
    BY TypedStep
  <2>2. CASE Visit
    BY <2>1, <2>2 DEF Visit, Attempt, Typed, TypeOK
  <2>3. CASE UNCHANGED tries
    BY <2>1, <2>3 DEF Typed, TypeOK
  <2>4. CASE Pack
    BY <2>1, <2>4 DEF Pack, Typed, TypeOK
  <2>5. QED
    BY <2>2, <2>3, <2>4, RecordSteps
<1>4. QED
  BY <1>1, <1>2, <1>3

\* What holds of an archive or a tree goes on holding, except through a stop() of its session.
LEMMA TakenStays ==
  ASSUME Typed, [Next]_vars, NEW s \in Sids, NEW t, Taken(s, t), ~(Settle /\ s = cur)
  PROVE  Taken(s, t)'
BY CapturedBefore, CountsGrow DEF Taken

\* Every step of the host keeps what was captured.
LEMMA TakenStep ==
  ASSUME Typed, ReaderInv, PassInv, TakenInv, [Next]_vars
  PROVE  TakenInv'
<1>1. Typed' /\ PassInv'
  BY TypedStep, PassStep
<1>2. /\ completed \subseteq completed' /\ late \subseteq late'
      /\ \A s \in Sids : tries[s] \in 0..2 /\ tries'[s] \in 0..2 /\ tries[s] <= tries'[s]
  BY CountsGrow
<1>3. \A s \in Sids : status'[s] = "CAPTURED" => tries'[s] >= 1
  <2> SUFFICES ASSUME NEW s \in Sids, status'[s] = "CAPTURED" PROVE tries[s] >= 1
    BY <1>2
  <2>1. CASE Settle /\ s = cur
    <3>1. pc \in Stopping /\ cur \in begun /\ cur \in Sids
      BY <2>1 DEF Settle, Stopping, Typed, TypeOK
    <3>2. CASE cur \in live
      BY <2>1, <3>1, <3>2 DEF PassInv, Finishing, FinishStops, Dealt
    <3>3. CASE cur \notin live
      BY <2>1, <3>1, <3>3 DEF PassInv, Exporting
    <3>4. QED
      BY <3>2, <3>3
  <2>2. QED
    BY <2>1, CapturedBefore DEF TakenInv
<1>4. ASSUME NEW s \in Sids, NEW t, t = zip[s], t # NoTree PROVE Taken(s, t)'
  <2>1. Taken(s, t)
    BY <1>4 DEF TakenInv
  <2>2. CASE Settle /\ s = cur
    <3>1. pc \in Stopping
      BY <2>2 DEF Settle, Stopping
    <3>2. CASE cur \in live
      <4>1. cur \notin completed
        BY <3>2 DEF Typed, TypeOK
      <4>2. QED
        BY <1>2, <2>1, <2>2, <4>1 DEF Taken
    <3>3. CASE cur \notin live
      <4>1. tries[s] = 2
        BY <1>4, <2>2, <3>1, <3>3 DEF TakenInv, Exporting
      <4>2. QED
        BY <1>2, <4>1 DEF Taken
    <3>4. QED
      BY <3>2, <3>3
  <2>3. CASE ~(Settle /\ s = cur)
    BY <2>1, <2>3, TakenStays
  <2>4. QED
    BY <2>2, <2>3
<1>5. ASSUME zip' = zip PROVE \A s \in Sids : zip'[s] # NoTree => Taken(s, zip[s])'
  BY <1>4, <1>5 DEF Taken
<1>6. CASE UNCHANGED vars
  BY <1>6 DEF vars, TakenInv, Taken, Exporting
<1>7. CASE Environment
  <2>1. /\ UNCHANGED <<pc, cur, live, completed, zip, tree, tries, late>>
        /\ pc \in {"export", "pop", "report", "pack"} => cur \in Sids
        /\ ~Settle
    BY <1>7, HostStays DEF Typed, TypeOK, Settle, Result
  <2>2. \A s \in Sids : status'[s] = "CAPTURED" => status[s] = "CAPTURED"
    BY <2>1, CapturedBefore
  <2>3. pc = "pack" => Taken(cur, tree)'
    BY <2>1, <2>2 DEF TakenInv, Taken
  <2>4. QED
    BY <1>3, <1>5, <2>1, <2>2, <2>3 DEF TakenInv, Exporting
<1>8. CASE \/ Tick \/ OpenNext \/ OpenDone \/ VisitDone \/ StartFinalize \/ LogFailure
           \/ Handle \/ FinishNext \/ FinishDone \/ Return \/ Interrupt
  <2>1. /\ zip' = zip
        /\ pc' \notin {"export", "pop", "copy", "report", "pack"}
        /\ pc' \in Stopping => cur' \in live'
    BY <1>8, InterruptCases
       DEF Tick, OpenNext, OpenDone, VisitDone, StartFinalize, LogFailure, Handle, Fails, Throw,
           GuardedFinalize, CutShort, FinishNext, FinishDone, Return, Stopping, Typed, PlaceInv, Finishing
  <2>2. QED
    BY <1>3, <1>5, <2>1 DEF TakenInv, Exporting
<1>9. CASE Visit
  <2>1. PICK s \in todo :
          \/ cur' = s /\ pc' = "export" /\ Attempt(s)
          \/ UNCHANGED <<cur, pc, tries>>
          \/ pc' = "failed"
    BY <1>9 DEF Visit, Fails
  <2>2. zip' = zip /\ UNCHANGED streams /\ pc = "visit" /\ s \in Sids
    BY <1>9 DEF Visit, Typed, TypeOK
  <2>3. zip[s] # NoTree \/ status[s] = "CAPTURED" => tries[s] >= 1
    BY <2>2 DEF PassInv, TakenInv
  <2>4. pc' = "export" /\ (zip[s] # NoTree \/ status[s] = "CAPTURED") => tries'[s] = 2
    BY <1>2, <2>1, <2>2, <2>3 DEF Attempt, Typed, TypeOK
  <2>5. QED
    BY <1>3, <1>5, <2>1, <2>2, <2>4 DEF TakenInv, Exporting, Stopping
<1>10. CASE Export
  <2>1. /\ UNCHANGED <<zip, cur, tries>> /\ pc = "export" /\ cur \in Sids
        /\ pc' = "pop" \/ (pc' = "pack" /\ tree'.warned)
    <3>1. Partial({0}, {"none"}) => tree'.warned /\ pc' = "pack"
      <4>1. {0} \in SUBSET (0..Limit) /\ {"none"} \in SUBSET {"none", "cut"}
        BY BoundsAssumption
      <4>2. QED
        BY <4>1, PartialTyped
    <3>2. QED
      BY <1>10, <3>1 DEF Export, Typed, TypeOK
  <2>2. status'[cur] = "CAPTURED" => status[cur] = "CAPTURED"
    BY <2>1, CapturedBefore DEF Settle
  <2>3. QED
    BY <1>3, <1>5, <2>1, <2>2 DEF TakenInv, Exporting, Stopping, Taken
<1>11. CASE Pop
  <2>1. UNCHANGED <<zip, cur, tries, status, late>> /\ pc = "pop"
        /\ pc' \in {"report", "copy", "stop"}
    BY <1>11 DEF Pop
  <2>2. QED
    BY <1>3, <1>5, <2>1 DEF TakenInv, Exporting, Stopping
<1>12. CASE Terminate \/ JoinTimesOut \/ RejoinTimesOut
  <2>1. UNCHANGED <<zip, cur, tries, live>> /\ pc \in Stopping /\ pc' \in Stopping
    BY <1>12 DEF Terminate, JoinTimesOut, RejoinTimesOut, Stopping
  <2>2. QED
    BY <1>3, <1>5, <2>1 DEF TakenInv, Exporting, Stopping
<1>13. CASE Settle
  <2>1. /\ UNCHANGED <<zip, tries, live>> /\ pc \in Stopping
        /\ \/ cur \in live /\ pc' = "finish"
           \/ cur \notin live /\ pc' = "copy" /\ cur' = cur
    BY <1>13 DEF Settle, Result, Stopping
  <2>2. QED
    BY <1>3, <1>5, <2>1 DEF TakenInv, Exporting, Stopping
<1>14. CASE Copy
  <2>1. /\ UNCHANGED <<zip, cur, tries, streams, late>> /\ cur \in Sids /\ pc = "copy"
        /\ disk[cur] \in 0..Limit /\ bytes[cur] \in 0..Limit /\ tree \in Tree
    BY <1>14 DEF Copy, Typed, TypeOK
  <2>2. CASE tree' = [tree EXCEPT !.log = disk[cur]] /\ pc' = "report"
    <3>1. tree'.log = disk[cur]
      BY <2>1, <2>2 DEF Tree
    <3>2. status[cur] = "CAPTURED" => cur \in late \/ disk[cur] > 0
      BY <2>1, CopiedIsKept DEF Kept, ReaderInv
    <3>3. QED
      BY <1>3, <1>5, <2>1, <2>2, <3>1, <3>2 DEF TakenInv, Exporting, Stopping
  <2>3. CASE Partial({0, disk[cur]}, {"none"})
    <3>1. tree'.warned /\ pc' = "pack"
      BY <2>1, <2>3, BoundsAssumption, PartialTyped
    <3>2. QED
      BY <1>3, <1>5, <2>1, <3>1 DEF TakenInv, Exporting, Stopping, Taken
  <2>4. QED
    BY <1>14, <2>2, <2>3 DEF Copy
<1>15. CASE Report
  <2>1. /\ UNCHANGED <<zip, cur, tries, streams, late>> /\ cur \in Sids /\ pc = "report"
        /\ tree \in Tree /\ pc' = "pack"
    BY <1>15 DEF Report, Partial, Typed, TypeOK
  <2>2. CASE tree' = [tree EXCEPT !.cover = found] /\ completed' = completed \cup {cur}
    <3>1. tree'.log = tree.log
      BY <2>1, <2>2 DEF Tree
    <3>2. Taken(cur, tree)'
      BY <2>1, <2>2, <3>1 DEF TakenInv, Taken
    <3>3. QED
      BY <1>3, <1>5, <2>1, <3>2 DEF TakenInv, Exporting, Stopping
  <2>3. CASE Partial({tree.log}, {"none", "cut"})
    <3>1. tree'.warned
      BY <2>1, <2>3, PartialTyped DEF Tree
    <3>2. QED
      BY <1>3, <1>5, <2>1, <3>1 DEF TakenInv, Exporting, Stopping, Taken
  <2>4. QED
    BY <1>15, <2>2, <2>3 DEF Report
<1>16. CASE Pack
  <2>1. /\ pc' \in {"visit", "failed", "except"} /\ cur \in Sids /\ pc = "pack" /\ ~Settle
        /\ zip' = zip \/ zip' = [zip EXCEPT ![cur] = tree]
    BY <1>16 DEF Pack, Raised, Fails, Throw, Typed, TypeOK, Settle
  <2>2. \A s \in Sids : zip'[s] = zip[s] \/ (s = cur /\ zip'[s] = tree)
    BY <2>1 DEF Typed, TypeOK
  <2>3. ASSUME NEW s \in Sids, zip'[s] # NoTree PROVE Taken(s, zip[s])'
    <3>1. CASE zip'[s] = zip[s]
      <4>1. ASSUME NEW t, t = zip[s] PROVE Taken(s, t)'
        BY <1>4, <2>3, <3>1, <4>1
      <4>2. QED
        BY <3>1, <4>1 DEF Taken
    <3>2. CASE s = cur /\ zip'[s] = tree
      <4>1. ASSUME NEW t, t = tree PROVE Taken(s, t)'
        <5>1. Taken(s, t)
          BY <2>1, <3>2, <4>1 DEF TakenInv
        <5>2. QED
          BY <2>1, <5>1, TakenStays
      <4>2. QED
        BY <3>2, <4>1 DEF Taken
    <3>3. QED
      BY <2>2, <3>1, <3>2
  <2>5. QED
    BY <1>3, <2>1, <2>3 DEF TakenInv, Exporting, Stopping
<1>17. QED
  BY <1>6, <1>7, <1>8, <1>9, <1>10, <1>11, <1>12, <1>13, <1>14, <1>15, <1>16 DEF Next, Step

\* stop and export_session: a log that was captured is in the archive of a first attempt, or
\* the archive warns of it.
THEOREM CapturedKept == Spec => []CapturedIsArchived
<1>1. Init => ReaderInv /\ PassInv /\ TakenInv
  BY DEF Init, ReaderInv, PassInv, TakenInv, Exporting, Finishing, FinishStops, Stopping,
         DiagnosticsCostNoArchive, Dealt
<1>2. Typed /\ ReaderInv /\ PassInv /\ TakenInv /\ [Next]_vars =>
        ReaderInv' /\ PassInv' /\ TakenInv'
  BY ReaderStep, PassStep, TakenStep
<1>3. Typed /\ TakenInv => CapturedIsArchived
  BY DEF Typed, TypeOK, TakenInv, Taken, CapturedIsArchived
<1>4. QED
  BY <1>1, <1>2, <1>3, TypedInit, TypedStep, PTL DEF Spec
=============================================================================
