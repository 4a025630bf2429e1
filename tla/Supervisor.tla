----------------------------- MODULE Supervisor -----------------------------
(***************************************************************************)
(* The processes of one run on the Windows side (controller, startChild,    *)
(* gameSessionAlreadyFinished and viewState of main_windows.go; startGUI,   *)
(* wndproc and shortcutAction of gui_windows.go).  A controller holds the   *)
(* run's lock, starts the worker, and starts a GUI process again whenever   *)
(* the previous one has gone, unless the run is over.  They share nothing   *)
(* but files: the worker's session.json and finished.ok, stop.request and   *)
(* worker-exited.marker.                                                    *)
(*                                                                         *)
(* In a GUI process the viewState goroutine and the window's thread share   *)
(* two atomics, guiWnd and finished, and the window's message queue; each   *)
(* access is a step of its own.  Any process may die between two steps.     *)
(* Waits that time out may do so at any moment.                             *)
(***************************************************************************)
EXTENDS Naturals, FiniteSets

CONSTANTS Launches,      \* starts of the executable in the controller role
          MaxWindows,    \* bound: GUI processes in a behaviour
          MaxCrashes,    \* bound: processes that die
          MaxFaults      \* bound: failed starts and file writes

ASSUME BoundsAssumption == {MaxWindows, MaxCrashes, MaxFaults} \subseteq Nat

VARIABLES lock,       \* controller.lock exists
          ctl,        \* where each controller stands
          gui,        \* the GUI process each controller started last, 0 if none
          attempts,   \* GUI processes started
          stage,      \* each GUI process: its main thread
          guiWnd, guiFinished, stopRequested,      \* its atomics
          view,       \* its viewState goroutine
          closing,    \* WM_CLOSE is in its queue
          workers,    \* worker processes started
          worker,     \* "none", "running" or "exited"
          session, due, finished,      \* WorkerRole
          stop,       \* stop.request exists
          marker,     \* worker-exited.marker exists
          requests,   \* who has asked for the end of the run: auxiliary
          crashes, faults

role == <<session, due, finished>>
windows == <<stage, guiWnd, guiFinished, stopRequested, view, closing>>
budget == <<crashes, faults>>
others == <<lock, gui, attempts, windows, workers, worker, role, stop, marker, requests>>
vars == <<lock, ctl, gui, attempts, stage, guiWnd, guiFinished, stopRequested, view, closing,
          workers, worker, session, due, finished, stop, marker, requests, crashes, faults>>

Role == INSTANCE WorkerRole

Windows == 1..MaxWindows
Returned == {"refused", "returned", "dead"}
Open == {"created", "pumping"}

Live(w) == stage[w] \notin {"none", "gone"}

ControllerTypes ==
  /\ lock \in BOOLEAN
  /\ ctl \in [Launches -> {"idle", "spawn", "head", "select", "tail", "backoff", "linger",
                           "suppressed", "drain"} \cup Returned]
  /\ gui \in [Launches -> {0} \cup Windows] /\ attempts \in 0..MaxWindows
GuiTypes ==
  /\ stage \in [Windows -> {"none", "starting", "gone"} \cup Open]
  /\ guiWnd \in [Windows -> BOOLEAN] /\ guiFinished \in [Windows -> BOOLEAN]
  /\ stopRequested \in [Windows -> BOOLEAN] /\ closing \in [Windows -> BOOLEAN]
  /\ view \in [Windows -> {"poll", "post", "over"}]
  /\ \A w \in Windows : guiWnd[w] => stage[w] \in Open
RunTypes ==
  /\ workers \in Nat /\ worker \in {"none", "running", "exited"}
  /\ session \in Role!Sessions /\ due \in BOOLEAN /\ finished \in BOOLEAN
  /\ stop \in BOOLEAN /\ marker \in BOOLEAN /\ requests \subseteq {"user", "host"}
  /\ crashes \in 0..MaxCrashes /\ faults \in 0..MaxFaults
TypeOK == ControllerTypes /\ GuiTypes /\ RunTypes

Init == /\ lock = FALSE
        /\ ctl = [l \in Launches |-> "idle"]
        /\ gui = [l \in Launches |-> 0]
        /\ attempts = 0
        /\ stage = [w \in Windows |-> "none"] /\ view = [w \in Windows |-> "poll"]
        /\ guiWnd = [w \in Windows |-> FALSE] /\ guiFinished = guiWnd
        /\ stopRequested = guiWnd /\ closing = guiWnd
        /\ workers = 0 /\ worker = "none"
        /\ Role!Init
        /\ stop = FALSE /\ marker = FALSE /\ requests = {}
        /\ crashes = 0 /\ faults = 0

Goto(l, step) == ctl' = [ctl EXCEPT ![l] = step]
Fault == faults < MaxFaults /\ faults' = faults + 1

\* stop.request appears: the worker's stopFlag and everybody else's are set.  The
\* result of the write is ignored, so a failed write leaves no trace.
WriteStop == \/ stop' = TRUE /\ Role!Ask /\ UNCHANGED faults
             \/ Fault /\ UNCHANGED <<stop, role>>

-----------------------------------------------------------------------------
(* controller                                                                *)

\* main: os.Mkdir(controller.lock), or exit 88.
UnlockedAcquire(l) ==                    \* seeded defect: MkdirAll for Mkdir
  /\ ctl[l] = "idle"
  /\ lock' = TRUE /\ Goto(l, "spawn")
  /\ UNCHANGED <<gui, attempts, windows, workers, worker, role, stop, marker, requests, budget>>
Acquire(l) ==
  /\ ctl[l] = "idle"
  /\ \/ ~lock /\ lock' = TRUE /\ Goto(l, "spawn") /\ UNCHANGED faults
     \/ lock /\ Goto(l, "refused") /\ UNCHANGED <<lock, faults>>
     \/ Fault /\ Goto(l, "refused") /\ UNCHANGED lock
  /\ UNCHANGED <<gui, attempts, windows, workers, worker, role, stop, marker, requests, crashes>>

StartWorker(l) ==
  /\ ctl[l] = "spawn"
  /\ \/ /\ worker' = "running" /\ workers' = workers + 1
        /\ Goto(l, "head")
        /\ UNCHANGED faults
     \/ Fault /\ Goto(l, "returned") /\ UNCHANGED <<worker, workers>>
  /\ UNCHANGED <<lock, gui, attempts, windows, role, stop, marker, requests, crashes>>

\* startChild "gui": a new process, or an error.  At the bound of the model it fails.
StartGui(l) ==
  \/ /\ attempts < MaxWindows
     /\ attempts' = attempts + 1
     /\ gui' = [gui EXCEPT ![l] = attempts']
     /\ stage' = [stage EXCEPT ![attempts'] = "starting"]
     /\ Goto(l, "select")
     /\ UNCHANGED <<guiWnd, guiFinished, stopRequested, view, closing, faults>>
  \/ /\ Fault \/ (attempts = MaxWindows /\ UNCHANGED faults)
     /\ Goto(l, "tail")
     /\ UNCHANGED <<gui, attempts, windows>>

Head(l) ==
  /\ ctl[l] = "head"
  /\ \/ stop /\ Goto(l, "drain") /\ UNCHANGED <<gui, attempts, windows, faults>>
     \/ ~stop /\ StartGui(l)
  /\ UNCHANGED <<lock, workers, worker, role, stop, marker, requests, crashes>>

\* select: workerDone.  The result of writing the marker is ignored.
WorkerDone(l) ==
  /\ ctl[l] = "select"
  /\ worker = "exited"
  /\ \/ marker' = TRUE /\ UNCHANGED faults
     \/ Fault /\ UNCHANGED marker
  /\ Goto(l, "linger")
  /\ UNCHANGED <<lock, gui, attempts, windows, workers, worker, role, stop, requests, crashes>>

\* latest-session.json names a session of this run that ended with the exit of its game.
GameSessionAlreadyFinished == session = "exited"

\* select: guiDone.  The run ends if a stop was requested; a game that has exited is no
\* reason to start the GUI again; otherwise it is started again after a delay.
QuitWithGui(l) ==                    \* seeded defect: the controller ends with its GUI
  /\ ctl[l] = "select" /\ stage[gui[l]] = "gone"
  /\ Goto(l, "returned")
  /\ UNCHANGED <<others, budget>>
MarkAtReap(l) ==                    \* seeded defect: the marker is written for the wrong child
  /\ ctl[l] = "select" /\ stage[gui[l]] = "gone"
  /\ marker' = TRUE
  /\ Goto(l, "tail")
  /\ UNCHANGED <<lock, gui, attempts, windows, workers, worker, role, stop, requests, budget>>
GuiDone(l) ==
  /\ ctl[l] = "select"
  /\ stage[gui[l]] = "gone"
  /\ Goto(l, IF stop THEN "drain"
             ELSE IF GameSessionAlreadyFinished THEN "suppressed" ELSE "tail")
  /\ UNCHANGED <<others, budget>>

Tail(l) ==
  /\ ctl[l] = "tail"
  /\ Goto(l, IF stop THEN "drain" ELSE "backoff")
  /\ UNCHANGED <<others, budget>>

\* The waits: for the worker or 2 to 30 s; for the GUI or 6 s; for the worker or 23 s
\* (a game has exited) or 20 s (a stop was requested).
PatientWait(l) ==                    \* seeded defect: no time-out while the run ends
  /\ \/ ctl[l] = "backoff" /\ Goto(l, IF worker = "exited" THEN "returned" ELSE "head")
     \/ ctl[l] = "linger" /\ stage[gui[l]] = "gone" /\ Goto(l, "returned")
     \/ ctl[l] \in {"suppressed", "drain"} /\ worker = "exited" /\ Goto(l, "returned")
  /\ UNCHANGED <<others, budget>>
Wait(l) ==
  /\ \/ ctl[l] = "backoff" /\ worker = "exited" /\ Goto(l, "returned")
     \/ ctl[l] = "backoff" /\ worker # "exited" /\ Goto(l, "head")
     \/ ctl[l] \in {"linger", "suppressed", "drain"} /\ Goto(l, "returned")
  /\ UNCHANGED <<others, budget>>

Controller(l) == \/ Acquire(l) \/ StartWorker(l) \/ Head(l) \/ WorkerDone(l)
                 \/ GuiDone(l) \/ Tail(l) \/ Wait(l)

-----------------------------------------------------------------------------
(* The worker process, known by its role; it ends after finished.ok (without *)
(* it, it died: Crash).                                                      *)

Work ==
  /\ worker = "running"
  /\ Role!Attach \/ Role!EndSession \/ Role!Finish
  /\ UNCHANGED <<lock, ctl, gui, attempts, windows, workers, worker, stop, marker, requests, budget>>
WorkerEnds ==
  /\ worker = "running" /\ finished
  /\ worker' = "exited"
  /\ UNCHANGED <<lock, ctl, gui, attempts, windows, workers, role, stop, marker, requests, budget>>

-----------------------------------------------------------------------------
(* A GUI process                                                             *)

outside == <<lock, ctl, gui, attempts, workers, worker, marker, crashes>>

\* startGUI: the window exists and guiWnd is stored, or it cannot be created.
CreateWindow(w) ==
  /\ stage[w] = "starting"
  /\ \/ /\ stage' = [stage EXCEPT ![w] = "created"]
        /\ guiWnd' = [guiWnd EXCEPT ![w] = TRUE]
        /\ UNCHANGED faults
     \/ Fault /\ stage' = [stage EXCEPT ![w] = "gone"] /\ UNCHANGED guiWnd
  /\ UNCHANGED <<outside, guiFinished, stopRequested, view, closing, role, stop, requests>>

\* startGUI: "if finished.Load() { post WM_CLOSE }", then the message loop.
UncheckedLoop(w) ==                    \* seeded defect: finished is not read again
  /\ stage[w] = "created"
  /\ stage' = [stage EXCEPT ![w] = "pumping"]
  /\ UNCHANGED <<outside, guiWnd, guiFinished, stopRequested, view, closing, role, stop,
                 requests, faults>>
EnterLoop(w) ==
  /\ stage[w] = "created"
  /\ stage' = [stage EXCEPT ![w] = "pumping"]
  /\ closing' = [closing EXCEPT ![w] = @ \/ guiFinished[w]]
  /\ UNCHANGED <<outside, guiWnd, guiFinished, stopRequested, view, role, stop, requests,
                 faults>>

\* viewState: the run is over for this process, by any of its three signs.
RunIsOver(w) == stop \/ stopRequested[w] \/ marker \/ finished
UnmarkedNotice(w) ==                    \* seeded defect: WM_CLOSE without finished.Store
  /\ Live(w) /\ view[w] = "poll" /\ RunIsOver(w)
  /\ view' = [view EXCEPT ![w] = "post"]
  /\ UNCHANGED <<outside, stage, guiWnd, guiFinished, stopRequested, closing, role, stop,
                 requests, faults>>
Notice(w) ==
  /\ Live(w) /\ view[w] = "poll" /\ RunIsOver(w)
  /\ view' = [view EXCEPT ![w] = "post"]
  /\ guiFinished' = [guiFinished EXCEPT ![w] = TRUE]
  /\ UNCHANGED <<outside, stage, guiWnd, stopRequested, closing, role, stop, requests, faults>>
PostClose(w) ==
  /\ Live(w) /\ view[w] = "post"
  /\ view' = [view EXCEPT ![w] = "over"]
  /\ closing' = [closing EXCEPT ![w] = @ \/ guiWnd[w]]
  /\ UNCHANGED <<outside, stage, guiWnd, guiFinished, stopRequested, role, stop, requests,
                 faults>>

\* The user closes the window, or presses the stop shortcut while it has the focus.
UserClose(w) ==
  /\ stage[w] \in Open
  /\ closing' = [closing EXCEPT ![w] = TRUE]
  /\ requests' = requests \cup {"user"}
  /\ UNCHANGED <<outside, stage, guiWnd, guiFinished, stopRequested, view, role, stop, faults>>
StopShortcut(w) ==
  /\ stage[w] = "pumping"
  /\ WriteStop
  /\ stopRequested' = [stopRequested EXCEPT ![w] = TRUE]
  /\ requests' = requests \cup {"user"}
  /\ UNCHANGED <<outside, stage, guiWnd, guiFinished, view, closing>>

\* wndproc: WM_CLOSE, DestroyWindow, the end of the loop and of the process.
HandleClose(w) ==
  /\ stage[w] = "pumping" /\ closing[w]
  /\ IF guiFinished[w] THEN UNCHANGED <<stop, role, faults>> ELSE WriteStop
  /\ stage' = [stage EXCEPT ![w] = "gone"]
  /\ guiWnd' = [guiWnd EXCEPT ![w] = FALSE]
  /\ UNCHANGED <<outside, guiFinished, stopRequested, view, closing, requests>>

Gui(w) == CreateWindow(w) \/ EnterLoop(w) \/ Notice(w) \/ PostClose(w) \/ HandleClose(w)

-----------------------------------------------------------------------------
\* The host (request_worker_stop_after_game) creates stop.request through Android, once
\* a game's exit is on record; it judges by its last look, so another session may have
\* begun since.
HostStop ==
  /\ ~stop /\ due
  /\ stop' = TRUE /\ Role!Ask
  /\ requests' = requests \cup {"host"}
  /\ UNCHANGED <<outside, windows, faults>>

\* An access violation in the GUI, the death of the worker or of a controller.
Crash ==
  /\ crashes < MaxCrashes
  /\ crashes' = crashes + 1
  /\ \/ /\ \E w \in Windows : /\ Live(w)
                              /\ stage' = [stage EXCEPT ![w] = "gone"]
                              /\ guiWnd' = [guiWnd EXCEPT ![w] = FALSE]
        /\ UNCHANGED <<worker, ctl>>
     \/ worker = "running" /\ worker' = "exited" /\ UNCHANGED <<stage, guiWnd, ctl>>
     \/ /\ \E l \in Launches : ctl[l] \notin Returned \cup {"idle"} /\ Goto(l, "dead")
        /\ UNCHANGED <<stage, guiWnd, worker>>
  /\ UNCHANGED <<lock, gui, attempts, guiFinished, stopRequested, view, closing, workers, role,
                 stop, marker, requests, faults>>

Next == \/ \E l \in Launches : Controller(l)
        \/ Work \/ WorkerEnds
        \/ \E w \in Windows : Gui(w) \/ UserClose(w) \/ StopShortcut(w)
        \/ HostStop
        \/ Crash

Spec == Init /\ [][Next]_vars
\* A started process is scheduled; the worker owes its end after finished.ok only.
FairSpec == /\ Spec
            /\ \A l \in Launches : WF_vars(Controller(l))
            /\ WF_vars(WorkerEnds)
            /\ \A w \in Windows : /\ WF_vars(CreateWindow(w) \/ EnterLoop(w) \/ HandleClose(w))
                                  /\ WF_vars(Notice(w) \/ PostClose(w))

-----------------------------------------------------------------------------
\* wndproc: "Only a user-requested close stops the independent monitor."  A window that
\* closes because the run is over, or a GUI that crashes, never writes stop.request.
StopHasRequester == stop => requests # {}

\* One run has one worker and one window, however often it is launched and however its
\* processes die: controller.lock, and guiDone before every new GUI.
OneOfEach == workers <= 1 /\ Cardinality({w \in Windows : Live(w)}) <= 1

\* worker-exited.marker closes the window as a failure of the monitor: it is there only
\* if the worker process has gone.
MarkerIsTrue == marker => worker = "exited"

\* A controller that ends while the worker runs leaves a run that is ending: a stop was
\* requested or a game has exited.  A broken GUI is no reason ("the controller
\* supervises both children, with throttled GUI recovery").
NoAbandonedWorker ==
  [][\A l \in Launches :
       ctl[l] # "returned" /\ ctl'[l] = "returned" /\ worker = "running" => due]_vars

\* When the run is over no window stays, whichever came first, the window or the sign
\* (viewState stores finished and reads guiWnd; startGUI stores guiWnd and reads
\* finished).
WindowCloses == stop \/ marker \/ finished ~> \A w \in Windows : ~Live(w)

\* When the worker has gone or a stop was requested, every controller ends.
ControllerReturns ==
  stop \/ worker = "exited" ~> \A l \in Launches : ctl[l] \in Returned \cup {"idle"}
=============================================================================
