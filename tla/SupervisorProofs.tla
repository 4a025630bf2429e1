--------------------------- MODULE SupervisorProofs ---------------------------
(***************************************************************************)
(* Theorems about Supervisor, for any launches and any bounds.              *)
(***************************************************************************)
EXTENDS Supervisor, FiniteSetTheorems, TLAPS

\* A GUI process that was not started yet has no window.
Fresh == \A w \in Windows : w > attempts => stage[w] = "none"
Typed == TypeOK /\ Fresh

\* The steps of Supervisor, without their grouping: what a lemma splits on.
LEMMA NextCases ==
  ASSUME Next
  PROVE \/ \E l \in Launches : \/ Acquire(l) \/ StartWorker(l) \/ Head(l) \/ WorkerDone(l)
                               \/ GuiDone(l) \/ Tail(l) \/ Wait(l)
        \/ Work \/ WorkerEnds \/ HostStop \/ Crash
        \/ \E w \in Windows : \/ CreateWindow(w) \/ EnterLoop(w) \/ Notice(w) \/ PostClose(w)
                              \/ HandleClose(w) \/ UserClose(w) \/ StopShortcut(w)
  BY Zenon DEF Next, Controller, Gui

\* The types and fresh windows hold at first.
LEMMA TypedInit == ASSUME Init PROVE Typed
<1> 0 \in 0..MaxWindows /\ 0 \in 0..MaxCrashes /\ 0 \in 0..MaxFaults
  BY BoundsAssumption
<1>1. ControllerTypes
  BY DEF Init, ControllerTypes
<1>2. GuiTypes
  <2>1. guiWnd \in [Windows -> BOOLEAN]
    BY DEF Init
  <2>2. QED
    BY <2>1 DEF Init, GuiTypes
<1>3. RunTypes
  BY DEF Init, RunTypes, Role!Init, Role!Sessions
<1>4. QED
  BY <1>1, <1>2, <1>3 DEF Init, Typed, TypeOK, Fresh

\* What a write of stop.request may do to the types it touches.
LEMMA WriteStopTypes ==
  ASSUME RunTypes, WriteStop
  PROVE /\ stop' \in BOOLEAN /\ due' \in BOOLEAN /\ finished' = finished /\ session' = session
        /\ faults' \in 0..MaxFaults
<1>1. faults' \in 0..MaxFaults
  BY BoundsAssumption DEF RunTypes, WriteStop, Fault
<1>2. QED
  BY <1>1 DEF RunTypes, WriteStop, Role!Ask, role

\* Every step keeps the types and leaves windows not started fresh.
LEMMA TypedStep == ASSUME Typed, [Next]_vars PROVE Typed'
<1> USE BoundsAssumption
    DEF Typed, TypeOK, ControllerTypes, GuiTypes, RunTypes, Fresh, Windows, Returned, Open
<1>1. CASE UNCHANGED vars
  BY <1>1 DEF vars
<1>2. ASSUME NEW l \in Launches, Acquire(l) PROVE Typed'
  <2>1. ControllerTypes'
    BY <1>2 DEF Acquire, Fault, Goto, role, windows
  <2>2. GuiTypes'
    BY <1>2 DEF Acquire, Fault, Goto, role, windows
  <2>3. RunTypes'
    BY <1>2 DEF Acquire, Fault, Goto, role, windows
  <2>4. Fresh'
    BY <1>2 DEF Acquire, Fault, Goto, role, windows
  <2>5. QED
    BY <2>1, <2>2, <2>3, <2>4
<1>3. ASSUME NEW l \in Launches, StartWorker(l) PROVE Typed'
  BY <1>3 DEF StartWorker, Fault, Goto, role, windows
<1>4. ASSUME NEW l \in Launches, Head(l) PROVE Typed'
  <2>1. ControllerTypes'
    <3>1. attempts' \in 0..MaxWindows /\ gui' \in [Launches -> {0} \cup Windows]
      BY <1>4 DEF Head, StartGui
    <3>2. QED
      BY <1>4, <3>1 DEF Head, StartGui, Goto
  <2>2. GuiTypes'
    <3>1. stage' \in [Windows -> {"none", "starting", "gone"} \cup Open]
      BY <1>4 DEF Head, StartGui, windows
    <3>2. \A w \in Windows : guiWnd'[w] => stage'[w] \in Open
      BY <1>4 DEF Head, StartGui, windows
    <3>3. UNCHANGED <<guiWnd, guiFinished, stopRequested, closing, view>>
      BY <1>4 DEF Head, StartGui, windows
    <3>4. QED
      BY <3>1, <3>2, <3>3
  <2>3. RunTypes'
    BY <1>4 DEF Head, StartGui, Fault, Goto, role, windows
  <2>4. Fresh'
    BY <1>4 DEF Head, StartGui, Fault, Goto, role, windows
  <2>5. QED
    BY <2>1, <2>2, <2>3, <2>4
<1>5. ASSUME NEW l \in Launches, WorkerDone(l) PROVE Typed'
  <2>1. ControllerTypes'
    BY <1>5 DEF WorkerDone, Fault, Goto, role, windows
  <2>2. GuiTypes'
    BY <1>5 DEF WorkerDone, Fault, Goto, role, windows
  <2>3. RunTypes'
    <3>1. marker' \in BOOLEAN
      BY <1>5 DEF WorkerDone
    <3>2. faults' \in 0..MaxFaults
      BY <1>5 DEF WorkerDone, Fault
    <3>3. QED
      BY <1>5, <3>1, <3>2 DEF WorkerDone, role
  <2>4. Fresh'
    BY <1>5 DEF WorkerDone, Fault, Goto, role, windows
  <2>5. QED
    BY <2>1, <2>2, <2>3, <2>4
<1>6. ASSUME NEW l \in Launches, GuiDone(l) PROVE Typed'
  BY <1>6 DEF GuiDone, Goto, others, budget, role, windows
<1>7. ASSUME NEW l \in Launches, Tail(l) PROVE Typed'
  BY <1>7 DEF Tail, Goto, others, budget, role, windows
<1>8. ASSUME NEW l \in Launches, Wait(l) PROVE Typed'
  BY <1>8 DEF Wait, Goto, others, budget, role, windows
<1>9. ASSUME Work PROVE Typed'
  BY <1>9 DEF Work, budget, windows, Role!Attach, Role!EndSession, Role!Finish, Role!Sessions
<1>10. ASSUME WorkerEnds PROVE Typed'
  BY <1>10 DEF WorkerEnds, budget, role, windows
<1>11. ASSUME HostStop PROVE Typed'
  BY <1>11 DEF HostStop, outside, windows, Role!Ask
<1>12. ASSUME Crash PROVE Typed'
  <2>1. ControllerTypes'
    BY <1>12 DEF Crash, Goto, Live, role, windows
  <2>2. GuiTypes'
    BY <1>12 DEF Crash, Goto, Live, role, windows
  <2>3. RunTypes'
    BY <1>12 DEF Crash, Goto, Live, role, windows
  <2>4. Fresh'
    BY <1>12 DEF Crash, Goto, Live, role, windows
  <2>5. QED
    BY <2>1, <2>2, <2>3, <2>4
<1>13. ASSUME NEW w \in Windows, CreateWindow(w) PROVE Typed'
  <2>1. ControllerTypes'
    BY <1>13 DEF CreateWindow, Fault, outside, role
  <2>2. GuiTypes'
    BY <1>13 DEF CreateWindow, Fault, outside, role
  <2>3. RunTypes'
    BY <1>13 DEF CreateWindow, Fault, outside, role
  <2>4. Fresh'
    BY <1>13 DEF CreateWindow, Fault, outside, role
  <2>5. QED
    BY <2>1, <2>2, <2>3, <2>4
<1>14. ASSUME NEW w \in Windows, EnterLoop(w) PROVE Typed'
  BY <1>14 DEF EnterLoop, outside, role
<1>15. ASSUME NEW w \in Windows, Notice(w) PROVE Typed'
  BY <1>15 DEF Notice, Live, outside, role
<1>16. ASSUME NEW w \in Windows, PostClose(w) PROVE Typed'
  BY <1>16 DEF PostClose, Live, outside, role
<1>17. ASSUME NEW w \in Windows, HandleClose(w) PROVE Typed'
  <2>1. ControllerTypes'
    BY <1>17 DEF HandleClose, WriteStop, Role!Ask, Fault, outside, role
  <2>2. GuiTypes'
    BY <1>17 DEF HandleClose, WriteStop, Role!Ask, Fault, outside, role
  <2>3. RunTypes'
    BY <1>17, WriteStopTypes DEF HandleClose, outside, role
  <2>4. Fresh'
    BY <1>17 DEF HandleClose, WriteStop, Role!Ask, Fault, outside, role
  <2>5. QED
    BY <2>1, <2>2, <2>3, <2>4
<1>18. ASSUME NEW w \in Windows, UserClose(w) PROVE Typed'
  BY <1>18 DEF UserClose, outside, role
<1>19. ASSUME NEW w \in Windows, StopShortcut(w) PROVE Typed'
  <2>1. ControllerTypes'
    BY <1>19 DEF StopShortcut, WriteStop, Role!Ask, Fault, outside, role
  <2>2. GuiTypes'
    BY <1>19 DEF StopShortcut, WriteStop, Role!Ask, Fault, outside, role
  <2>3. RunTypes'
    BY <1>19, WriteStopTypes DEF StopShortcut, outside
  <2>4. Fresh'
    BY <1>19 DEF StopShortcut, WriteStop, Role!Ask, Fault, outside, role
  <2>5. QED
    BY <2>1, <2>2, <2>3, <2>4
<1> HIDE BoundsAssumption
    DEF Typed, TypeOK, ControllerTypes, GuiTypes, RunTypes, Fresh, Windows, Returned, Open
<1>20. QED
  BY Zenon, NextCases, <1>1, <1>2, <1>3, <1>4, <1>5, <1>6, <1>7, <1>8, <1>9, <1>10, <1>11, <1>12,
     <1>13, <1>14, <1>15, <1>16, <1>17, <1>18, <1>19

\* Every variable keeps its type, and guiWnd is set only while the window exists.
THEOREM TypeCorrect == Spec => []TypeOK
<1>1. Typed => TypeOK
  BY DEF Typed
<1>2. QED
  BY TypedInit, TypedStep, <1>1, PTL DEF Spec

-----------------------------------------------------------------------------
(* One controller, one worker                                                *)

\* Who has ever held the lock; "dead" and "returned" controllers count.
Owner(l) == ctl[l] \notin {"idle", "refused"}
Exclusive == /\ \A l \in Launches : Owner(l) => lock
             /\ \A l, m \in Launches : Owner(l) /\ Owner(m) => l = m

\* The worker is started by the owner of the lock when it has just got it.
OneWorker == /\ workers <= 1 /\ (worker = "none" => workers = 0)
             /\ worker # "none" => \E l \in Launches : Owner(l)
             /\ \A l \in Launches : ctl[l] = "spawn" => worker = "none"
             /\ MarkerIsTrue

\* The steps that leave the controllers, the worker and its marker alone.
LEMMA GuiSteps ==
  ASSUME NEW w \in Windows,
         \/ CreateWindow(w) \/ EnterLoop(w) \/ Notice(w) \/ PostClose(w)
         \/ HandleClose(w) \/ UserClose(w) \/ StopShortcut(w)
  PROVE UNCHANGED outside
  BY DEF CreateWindow, EnterLoop, Notice, PostClose, HandleClose, UserClose, StopShortcut

\* At first nobody holds the lock and no worker was started.
LEMMA StartInit == ASSUME Init PROVE Exclusive /\ OneWorker
  BY DEF Init, Exclusive, OneWorker, Owner, MarkerIsTrue

\* Only Acquire gives the lock, once, and only its holder starts the worker.
LEMMA StartStep ==
  ASSUME Typed, Exclusive, OneWorker, [Next]_vars
  PROVE Exclusive' /\ OneWorker'
<1> USE DEF Typed, TypeOK, ControllerTypes, RunTypes, Returned, Exclusive, OneWorker, Owner,
            MarkerIsTrue, Goto
<1>1. CASE UNCHANGED <<lock, ctl, worker, workers, marker>>
  BY <1>1
<1>2. ASSUME NEW l \in Launches, Acquire(l) PROVE Exclusive' /\ OneWorker'
  BY <1>2 DEF Acquire
<1>3. ASSUME NEW l \in Launches, StartWorker(l) PROVE Exclusive' /\ OneWorker'
  BY <1>3 DEF StartWorker
<1>4. ASSUME NEW l \in Launches, Head(l) PROVE Exclusive' /\ OneWorker'
  BY <1>4 DEF Head, StartGui
<1>5. ASSUME NEW l \in Launches, WorkerDone(l) PROVE Exclusive' /\ OneWorker'
  BY <1>5 DEF WorkerDone
<1>6. ASSUME NEW l \in Launches, GuiDone(l) \/ Tail(l) \/ Wait(l)
      PROVE Exclusive' /\ OneWorker'
  BY <1>6 DEF GuiDone, Tail, Wait, others
<1>7. CASE Crash
  BY <1>7 DEF Crash
<1>8. CASE Work \/ HostStop \/ UNCHANGED vars
  BY <1>8, <1>1 DEF Work, HostStop, outside, vars
<1>9. CASE WorkerEnds
  BY <1>9 DEF WorkerEnds
<1> HIDE DEF Typed, TypeOK, ControllerTypes, RunTypes, Returned, Exclusive, OneWorker, Owner,
            MarkerIsTrue, Goto
<1>10. ASSUME NEW w \in Windows, UNCHANGED outside PROVE Exclusive' /\ OneWorker'
  BY <1>10, <1>1 DEF outside
<1>11. QED
  BY Zenon, NextCases, GuiSteps, <1>2, <1>3, <1>4, <1>5, <1>6, <1>7, <1>8, <1>9, <1>10

\* The parts about the start hold throughout.
LEMMA Start == Spec => [](Typed /\ Exclusive /\ OneWorker)
  BY TypedInit, TypedStep, StartInit, StartStep, PTL DEF Spec

\* worker-exited.marker is there only if the worker process has gone, for any launches,
\* deaths and failed writes.
THEOREM MarkerTrue == Spec => []MarkerIsTrue
<1>1. OneWorker => MarkerIsTrue
  BY DEF OneWorker
<1>2. QED
  BY Start, <1>1, PTL

-----------------------------------------------------------------------------
(* One window                                                                *)

\* A live GUI process is the latest one, and its controller waits for it, has stopped
\* waiting for it at the end of the run, or has died.
Watching == {"select", "linger", "drain", "returned", "dead"}
LatestOnly == /\ \A w \in Windows : Live(w) => w = attempts /\ \E l \in Launches : ctl[l] \in Watching
              /\ \A l \in Launches : ctl[l] = "select" => gui[l] = attempts /\ attempts \in Windows

\* No window has been started at first.
LEMMA LatestInit == ASSUME Init PROVE LatestOnly
  BY DEF Init, LatestOnly, Live

\* Only the controller that saw the last window end starts another.
LEMMA LatestStep ==
  ASSUME Typed, Exclusive, LatestOnly, [Next]_vars
  PROVE LatestOnly'
<1> USE DEF Typed, TypeOK, ControllerTypes, GuiTypes, Exclusive, Owner, LatestOnly, Watching, Live, Goto
<1>1. CASE UNCHANGED <<ctl, gui, attempts, stage>>
  BY <1>1
<1>2. ASSUME NEW l \in Launches, Acquire(l) PROVE LatestOnly'
  BY <1>2 DEF Acquire, windows
<1>3. ASSUME NEW l \in Launches, StartWorker(l) PROVE LatestOnly'
  BY <1>3 DEF StartWorker, windows
<1>4. ASSUME NEW l \in Launches, Head(l) PROVE LatestOnly'
  <2>1. \A w \in Windows : ~Live(w)
    BY <1>4 DEF Head
  <2>2. CASE UNCHANGED <<gui, attempts, stage>>
    BY <1>4, <2>1, <2>2 DEF Head, StartGui
  <2>3. CASE /\ attempts' = attempts + 1 /\ attempts' \in Windows
             /\ gui' = [gui EXCEPT ![l] = attempts']
             /\ stage' = [stage EXCEPT ![attempts'] = "starting"]
             /\ ctl' = [ctl EXCEPT ![l] = "select"]
    BY <1>4, <2>1, <2>3 DEF Head
  <2>4. QED
    BY <1>4, <2>2, <2>3, BoundsAssumption DEF Head, StartGui, Windows, windows
<1>5. ASSUME NEW l \in Launches, WorkerDone(l) PROVE LatestOnly'
  BY <1>5 DEF WorkerDone, windows
<1>6. ASSUME NEW l \in Launches, GuiDone(l) PROVE LatestOnly'
  BY <1>6 DEF GuiDone, others, windows
<1>7. ASSUME NEW l \in Launches, Tail(l) \/ Wait(l) PROVE LatestOnly'
  BY <1>7 DEF Tail, Wait, others, windows
<1>8. CASE Crash
  BY <1>8 DEF Crash, Returned
<1>9. CASE Work \/ WorkerEnds \/ HostStop \/ UNCHANGED vars
  BY <1>9, <1>1 DEF Work, WorkerEnds, HostStop, outside, windows, vars
<1>10. ASSUME NEW w \in Windows, CreateWindow(w) \/ EnterLoop(w) \/ HandleClose(w)
       PROVE LatestOnly'
  BY <1>10 DEF CreateWindow, EnterLoop, HandleClose, outside
<1>11. ASSUME NEW w \in Windows, Notice(w) \/ PostClose(w) \/ UserClose(w) \/ StopShortcut(w)
       PROVE LatestOnly'
  BY <1>11, <1>1 DEF Notice, PostClose, UserClose, StopShortcut, outside
<1> HIDE DEF Typed, TypeOK, ControllerTypes, GuiTypes, Exclusive, Owner, LatestOnly, Watching,
            Live, Goto
<1>12. QED
  BY Zenon, NextCases, <1>2, <1>3, <1>4, <1>5, <1>6, <1>7, <1>8, <1>9, <1>10, <1>11

\* One run has one worker and at most one live window, however often it is launched and
\* however its processes die.
THEOREM OneOfEachHolds == Spec => []OneOfEach
<1>1. Typed /\ OneWorker /\ LatestOnly => OneOfEach
  <2> SUFFICES ASSUME Typed, OneWorker, LatestOnly PROVE OneOfEach
    OBVIOUS
  <2> DEFINE L == {w \in Windows : Live(w)}
  <2>1. L \subseteq {attempts}
    BY DEF LatestOnly
  <2>2. IsFiniteSet(L) /\ Cardinality(L) <= Cardinality({attempts})
    BY <2>1, FS_Singleton, FS_Subset
  <2>3. QED
    BY <2>2, FS_Singleton DEF OneOfEach, OneWorker
<1>2. QED
  BY Start, LatestInit, LatestStep, <1>1, PTL DEF Spec

-----------------------------------------------------------------------------
(* Who asked                                                                 *)

\* WM_CLOSE without the finished flag comes from the user; viewState sets the flag first.
Asked == /\ StopHasRequester
         /\ \A w \in Windows : closing[w] /\ ~guiFinished[w] => requests # {}
         /\ \A w \in Windows : view[w] # "poll" => guiFinished[w]

\* No WM_CLOSE is under way at first.
LEMMA AskedInit == ASSUME Init PROVE Asked
  BY DEF Init, Asked, StopHasRequester

\* viewState stores finished before it posts, so the handshake survives every step.
LEMMA AskedStep == ASSUME Typed, Asked, [Next]_vars PROVE Asked'
<1> USE DEF Typed, TypeOK, GuiTypes, RunTypes, Asked, StopHasRequester
<1>1. CASE UNCHANGED <<stop, requests, closing, guiFinished, view>>
  BY <1>1
<1>2. ASSUME NEW l \in Launches, Head(l) PROVE Asked'
  BY <1>2, <1>1 DEF Head, StartGui, windows
<1>3. ASSUME NEW l \in Launches, \/ Acquire(l) \/ StartWorker(l) \/ WorkerDone(l)
                                 \/ GuiDone(l) \/ Tail(l) \/ Wait(l)
      PROVE Asked'
  BY <1>3, <1>1
  DEF Acquire, StartWorker, WorkerDone, GuiDone, Tail, Wait, others, windows
<1>4. CASE Work \/ WorkerEnds \/ Crash \/ UNCHANGED vars
  BY <1>4, <1>1 DEF Work, WorkerEnds, Crash, windows, vars
<1>5. CASE HostStop
  BY <1>5 DEF HostStop, windows
<1>6. ASSUME NEW w \in Windows, CreateWindow(w) PROVE Asked'
  BY <1>6, <1>1 DEF CreateWindow
<1>7. ASSUME NEW w \in Windows, EnterLoop(w) PROVE Asked'
  BY <1>7 DEF EnterLoop
<1>8. ASSUME NEW w \in Windows, Notice(w) PROVE Asked'
  BY <1>8 DEF Notice
<1>9. ASSUME NEW w \in Windows, PostClose(w) PROVE Asked'
  BY <1>9 DEF PostClose
<1>10. ASSUME NEW w \in Windows, HandleClose(w) PROVE Asked'
  BY <1>10 DEF HandleClose
<1>11. ASSUME NEW w \in Windows, UserClose(w) PROVE Asked'
  BY <1>11 DEF UserClose
<1>12. ASSUME NEW w \in Windows, StopShortcut(w) PROVE Asked'
  BY <1>12 DEF StopShortcut
<1> HIDE DEF Typed, TypeOK, GuiTypes, RunTypes, Asked, StopHasRequester
<1>13. QED
  BY Zenon, NextCases, <1>2, <1>3, <1>4, <1>5, <1>6, <1>7, <1>8, <1>9, <1>10, <1>11, <1>12

\* stop.request is there only if the user or the host asked for the end of the run: no
\* crash, recovery or race of viewState with the window ever writes it.
THEOREM StopIsAsked == Spec => []StopHasRequester
<1>1. Asked => StopHasRequester
  BY DEF Asked
<1>2. QED
  BY TypedInit, TypedStep, AskedInit, AskedStep, <1>1, PTL DEF Spec

-----------------------------------------------------------------------------
(* A controller that ends                                                    *)

\* What each wait of the controller knows about the run.
Ending == /\ stop \/ session = "exited" => due
          /\ \A l \in Launches : /\ ctl[l] \in {"suppressed", "drain"} => due
                                 /\ ctl[l] = "linger" => worker = "exited"

\* No controller is past its loop at first.
LEMMA EndingInit == ASSUME Init PROVE Ending
  BY DEF Init, Ending, Role!Init

\* A controller passes its loop only with a reason that stays.
LEMMA EndingStep ==
  ASSUME Typed, Exclusive, OneWorker, Ending, [Next]_vars
  PROVE Ending'
<1> USE DEF Typed, TypeOK, ControllerTypes, RunTypes, Ending, Goto
<1>1. CASE UNCHANGED <<ctl, worker, session, due, stop>>
  BY <1>1
<1>2. ASSUME NEW l \in Launches, \/ Acquire(l) \/ Head(l) \/ GuiDone(l) \/ Tail(l) \/ Wait(l)
      PROVE Ending'
  BY <1>2
  DEF Acquire, Head, StartGui, GuiDone, Tail, Wait, GameSessionAlreadyFinished, others, role
<1>3. ASSUME NEW l \in Launches, StartWorker(l) PROVE Ending'
  BY <1>3 DEF StartWorker, OneWorker, role
<1>4. ASSUME NEW l \in Launches, WorkerDone(l) PROVE Ending'
  BY <1>4 DEF WorkerDone, role
<1>5. CASE Work
  BY <1>5 DEF Work, Role!Attach, Role!EndSession, Role!Finish
<1>6. CASE WorkerEnds
  BY <1>6 DEF WorkerEnds, role
<1>7. CASE HostStop
  BY <1>7 DEF HostStop, Role!Ask, outside
<1>8. CASE Crash
  BY <1>8 DEF Crash, role
<1>9. CASE UNCHANGED vars
  BY <1>9, <1>1 DEF vars
<1>10. ASSUME NEW w \in Windows, UNCHANGED outside,
              UNCHANGED <<role, stop>> \/ WriteStop
       PROVE Ending'
  BY <1>10 DEF WriteStop, Role!Ask, outside, role
<1> HIDE DEF Typed, TypeOK, ControllerTypes, RunTypes, Ending, Goto
<1>11. ASSUME NEW w \in Windows,
              \/ CreateWindow(w) \/ EnterLoop(w) \/ Notice(w) \/ PostClose(w)
              \/ HandleClose(w) \/ UserClose(w) \/ StopShortcut(w)
       PROVE UNCHANGED <<role, stop>> \/ WriteStop
  BY <1>11
  DEF CreateWindow, EnterLoop, Notice, PostClose, HandleClose, UserClose, StopShortcut, role
<1>12. QED
  BY Zenon, NextCases, GuiSteps, <1>2, <1>3, <1>4, <1>5, <1>6, <1>7, <1>8, <1>9, <1>10, <1>11

\* A controller that ends while the worker runs leaves a run that is ending; no failure
\* or death of a GUI, nor any number of them, makes it give up earlier.
THEOREM NobodyAbandoned == Spec => NoAbandonedWorker
<1> DEFINE Ends == \A l \in Launches :
                     ctl[l] # "returned" /\ ctl'[l] = "returned" /\ worker = "running" => due
<1>1. ASSUME Typed, OneWorker, Ending, [Next]_vars PROVE [Ends]_vars
  <2> SUFFICES ASSUME Next, NEW l \in Launches,
                      ctl[l] # "returned", ctl'[l] = "returned", worker = "running"
               PROVE due
    BY <1>1
  <2> USE DEF Typed, TypeOK, ControllerTypes, Ending, Goto
  <2>1. ASSUME NEW m \in Launches, \/ Acquire(m) \/ StartWorker(m) \/ Head(m) \/ WorkerDone(m)
                                   \/ GuiDone(m) \/ Tail(m) \/ Wait(m)
        PROVE due
    BY <1>1, <2>1
    DEF Acquire, StartWorker, Head, StartGui, WorkerDone, GuiDone, Tail, Wait, OneWorker
  <2>2. CASE Work \/ WorkerEnds \/ HostStop \/ Crash
    BY <1>1, <2>2 DEF Work, WorkerEnds, HostStop, Crash, outside
  <2>3. ASSUME NEW w \in Windows, UNCHANGED outside PROVE due
    BY <2>3 DEF outside
  <2> HIDE DEF Typed, TypeOK, ControllerTypes, Ending, Goto
  <2>4. QED
    BY Zenon, NextCases, GuiSteps, <2>1, <2>2, <2>3
<1>2. QED
  BY Start, EndingInit, EndingStep, <1>1, PTL DEF Spec, NoAbandonedWorker
=============================================================================
