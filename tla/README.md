# GPU Lab: a TLA+ verification project

GPU Lab (`tools/drive-gpu-lab`) records what happens while a game runs under Wine on
an Android device. A Go program runs inside Wine and watches the game; a Python
program runs in Termux, outside Wine, collects the evidence of every game session
into a ZIP and sends back one RETURN file per run. Neither side may touch the game,
each may crash or hang, and the two have nothing in common but files in a shared
directory. This directory models those protocols, and what the user is shown of them,
checks them with TLC and proves the central parts with TLAPS.

Source paths below are relative to `src/tools/drive-gpu-lab/`: `main_windows.go`,
`gui_windows.go`, `process_windows.go`, `locale.go`, `ui_phase.go` and
`key_shortcuts.go` are under `windows/`, the `gpu_lab_*.py` files under `android/`.

## 1. Inventory

```
   BAT ── starts ──> controller ── starts ──> worker ── session.json, finished.ok ──┐
                        │    └──── starts ──> GUI (viewState goroutine + window)     │ files
                        │                      └── stop.request ──> worker           │
                        └── worker-exited.marker ──> GUI                             v
   Termux: run_loop ── reads session.json, finished.ok, bat-exit.txt, run-status.json,
                       writes stop.request, Logs/<sid>.zip, ARCHIVED-<sid>.json, RETURN
```

| Component | State it keeps | Operations | What is hard | What makes it correct |
|---|---|---|---|---|
| **Controller** (`main`, `controller`, `startChild`, `gameSessionAlreadyFinished`) | `controller.lock`, two children, number of failures | refuse a second launch, start worker and GUI, restart the GUI after a delay, mark the worker's exit, wait with a time-out | children die in any order, waits race with exits, the stop file appears at any step | one worker and one window per run; a broken GUI does not end the recording; the controller always returns |
| **Worker** (`monitor`, `selectGame`, `observeSession`) | baseline PIDs, `seen` keys, stability and miss counters, `lastCompleted`, the session on disk | choose a game, open a session, observe, close the session, finish | a process table that can only be sampled and read in part, PID reuse, a stop at any step, failing writes | an exit is recorded only of a game that has gone; no process twice while its birth can be read; every stop, exit and new game is acted on |
| **GUI** (`startGUI`, `wndproc`, `shortcutAction`, `viewState`) | `guiWnd`, `finished`, `stopRequested`, the message queue | create the window, close it when the run is over, turn the user's close into `stop.request` | a goroutine and the window's thread share atomics without a lock | the window closes when the run is over; only the user's close stops the worker |
| **Host collector** (`run_loop`, `Collector`, `create_return`, `emergency_archive`) | `seen`, `archived`, `session_end_seen`, `postgame_deadline`; archives, records and RETURN on disk | tick, archive a session, read the end markers, safety net, finalize | any file operation may fail, the worker goes on writing, Ctrl-C anywhere | no session is forgotten, the RETURN exists and is truthful, the host ends |
| **Archive publication** (`verified_zip`, `pack_immutable`) | staging file, final name | look up, stage, link or copy exclusively, verify | no hard links on shared storage, other publishers, a death in the middle | a name is given a content once and keeps it, unless the call that gave it fails at once |
| **Dashboard** (`viewState`, `update`, `snap`, `refreshAllText`, `nativeText`, `nativeTab`, `createUIControls`) | the dashboard behind a lock; per control the last text set; the page shown; `guiSafeMode` | poll the files, take a snapshot, set texts, change the page, come back after a death | the goroutine changes fields while the window's thread shows them, a control may be missing, a text may fail to be set | what is visible is one snapshot and true, and what failed is repaired by the next refresh |
| **Locale** (`locale.go`, `initUILanguage`, `chooseUILanguage`) | `manualLanguage`, `GPU-Lab.language` | detect, choose, remember | a file that is not written atomically, read by the next process | one language on the whole window, which survives a death |
| **Marks and deep capture** (`recordMarker`, `recordDeepToggle`, `desktopScreenshot`, `key_shortcuts.go`) | `currentSession` and `sessionPath` behind `markerMu`; `deep-capture.flag` | mark, screenshot, toggle | the session changes while a mark is made; the flag outlives the GUI that wrote it | a mark names the session it lies in; no mark is lost in silence; the worker obeys the window |
| **Source capture** (`capture_sources`) | copies, `seen_contents` | hash, copy, compare, hash again | the sources are written meanwhile, the file clock is coarse | what is called verified is a content the source had |
| Source selection (`scan`, `select_sources`, `classify`, `copy_windows_files`) | none | choose the logs of a session from the directory tree | clock boundaries, aliases, symbolic links | a pure function, not modelled (section 6) |
| **Driver diagnostics** (`DiagnosticManager`, `LogcatStream`) | `live`, `completed`, the directories made; per session a logcat process, a reader thread and its quota | open, drain, stop, export, finish | a thread and a process run on between any two steps of the host; a retry after a partial failure; Ctrl-C between a start and its entry in `live` | no logcat is left behind, a gap in a log is reported, no archive is lost for it |
| Driver evidence, PanVK coverage (`gpu_lab_evidence.py`, `gpu_lab_panvk.py`) | none | classify log lines | pattern tables | not modelled |
| Host metrics, process enumeration | none | read `/proc`, sysfs, Toolhelp | pure I/O | the enumeration is part of `Monitor`, the rest is not modelled |

`PROJECT.json` lists the same components with their status, and under `hazards`
every place in this code where a test would hardly find a mistake.

## 2. Modules

| Module | Models | State and actions against the code |
|---|---|---|
| `WriteOnce` | the promise of a name under `GPU-Lab/Logs` | `Publish` when the name is free; the content is provisional until `Settle`; after a `Doubt` its owner may `Withdraw` it; `Confirm` to a caller |
| `Publication` | `pack_immutable`, several publishers of one name | `pc` is the place in the function; `dest` is the final name, absent, partial or whole. `LookUp` is the check before and inside the retry loop, `Stage` the staging file; `Link` is `os.link` with its tolerated errors; `OpenCopy`, `Pour` (the last block is written: the archive is whole for whoever looks), `Check` (`fsync` and `verified_zip`, still inside the `try`) and `Undo` (its handler, which may fail) are the exclusive copy; `Verify`, `Digest`, `Cleanup` the rest. `Fault` is an `OSError`, a failed verification or a Ctrl-C at any step, `Kill` the death of the process. An outcome is `error`, which the host's loop survives, or `fatal` (a `BadZipFile` of a truncated ZIP, a Ctrl-C), which ends the host |
| `…Proofs` | theorems about the module of that name | see section 5 |
| `WorkerRole` | what other processes may rely on about the worker | `Attach`, `EndSession`, `Finish`, `Ask` |
| `Monitor` | the worker process | `Boot` takes the baseline; `Poll` and `Examine` are one turn of `monitor` with `selectGame` (the snapshot and the later openings of processes are two steps); `ExamineWith(look)` has, per PID, what the openings give: everything, everything but the birth, or nothing, and `Key` is `pid\|path\|birth` with the birth that was read, which may be 0; `Announce`, `OpenTelemetry`, `ObservePoll`, `ObserveStop` are `observeSession`; `Ended`, `Close` the rest of `monitor`. `Launch`, `Exit`, `RequestStop` and two clocks are the environment |
| `Supervisor` | controllers, GUI processes and the worker by its role | `ctl[l]` is the place in `controller`; each GUI process has its thread (`CreateWindow`, `EnterLoop`, `HandleClose`) and its `viewState` (`Notice`, `PostClose`), one access to a shared atomic per step |
| `Collector` | the Termux process beside a Windows side known by its files | `pc` goes from `start` (the constructor and the first log) to `tick`, through the sessions (`Visit…`, `Build`, `Pack`, `CopyEvidence`, `Record`, `Note`) to `ReadMarkers`, `Fallback`, `CheckHeartbeat` and back, or through `guarded_finalize` (`StartFinalize`, the sessions again, `DiagnosticsOnly`, `OpenReturn`, `PourReturn`, `ConfirmReturn`, `EmergencyArchive`, `EndFinalize`) to the end. Every step may fail. `Report` is the log of the two handlers that survive an exception, `CutShort` what becomes of `finalize` when its listing or that log raises, `Throw` and `Handle` are the way to the except clauses of `run_loop` and those clauses |
| `Capture` | `capture_sources` against writers | a file is a sequence of blocks, `Read` takes one; `Hashed`, `StatBefore`, `Copied`, `Compare`, `Checked` are the steps between |
| `Locale` | `locale.go` and the three language functions of `gui_windows.go` | operators only; a locale is the sequence of its words |
| `Dashboard` | one GUI process after another, seen by the user | `Poll`, `ReadSession`, `Show`, `PostClose` are `viewState`, one file per step; `CreateUIControls`, `Refresh`, `NativeTab`, `ChooseUILanguage`, `StopShortcut`, `WindowClosed` are handlers of the window's thread, which all end in `Paint`; `Announce`, `Record` are the worker's files; `Crash`, `StartGUI` the process |
| `Marks` | the shortcuts that leave a trace | `LoadPath`, `LoadName`, `TakeShot`, `WriteMark` are `recordMarker`; `ReadLatest`, `AttachName`, `AttachPath` are the part of `viewState` that meets it at `markerMu`; `PressDeep`, `SetFlag` the toggle |
| `Diagnostics` | one logcat per session inside the host's loop | `SessionOpen` with its outcomes is `session_open`, `OpenNext` the manager's `tick`; `Drain`, `Spill`, `DrainEnds`, `DrainFails` are the thread; `Terminate`, `JoinTimesOut`, `RejoinTimesOut`, `Settle` are `stop`; `Export`, `Pop`, `Copy`, `Report` are `export_session`, `FinishNext`, `FinishDone` are `finish`; `Visit`, `Pack`, `StartFinalize`, `LogFailure`, `CutShort`, `Handle`, `Interrupt` repeat what `Collector` has of the caller and of its failures |
| `MC…` | instances for TLC | small sets only |

How they are put together:

* `Publication` implements `WriteOnce` by a refinement mapping (checked and proved).
  `Collector` has `pack_immutable` as one step, which gives the session its archive or
  raises, and may leave a file under the name when it raises.
* `Monitor` implements `WorkerRole` (checked, `ImplementsRole`): a session is
  `exited`, `stopped`, `active` or `stuck`, and `due` is a stop, or an exit that was
  confirmed. `Supervisor` runs its worker by the actions of `WorkerRole`, so what it
  shows holds with the real worker in that place.
* `Dashboard` extends `Locale`. It and `Marks` have the worker by the files they read
  of it, `latest-session.json` and `session.json`; both leave the other's variables out,
  for the two share nothing but the process they live in. The protocol of the end of a
  GUI process, with its races, is in `Supervisor`; in `Dashboard` a window closes in one
  step.
* `Diagnostics` is called from three places of `Collector`'s host. It repeats that part
  of the host (tick, finalization, Ctrl-C) and nothing else of it; what matters to the
  rest, that a failure in it never fails an archive, is `DiagnosticsCostNoArchive`.
  `Collector` relies on it: there the export is a part of `Build` that cannot raise.
* `Collector` has its own environment for the Windows side. It does what `WorkerRole`
  does, sessions that are left without an end included (`SessionStuck`), and may also die
  at any moment or lose its controller.

Definitions that begin with a comment *seeded defect* are changed forms of the
definition that follows. No specification uses them; they document which mistake each
property would reveal.

## 3. What the runs check

Deadlock is not checked: each of these systems ends (the host and the worker return,
all publishers have succeeded), and the liveness properties say that it does not stop
earlier.

**publication** Two collectors, two contents, both outcomes of `os.link`, two errors at
any step and one death: 66 thousand states. `ImplementsWriteOnce`: a complete archive is
never replaced, and removed only by the call that is creating it, between the last byte
of its copy and the end of its verification, after an error there. `SuccessMeansPublished`:
who was told of a success has a complete archive of its own content under the name, unless
it met one that its creator then removed in this way (`late`). `NoPartialLeftBehind`: no
error path leaves a truncated file, but one whose removal fails too.
`EventuallyPublished`: with finitely many errors there is an archive at last, unless a
death or a failed removal left a truncated file, which then blocks the name for ever (the
code prefers that to deleting what it does not own), or nobody packs the session any
more. Two publishers are enough for every look-up/create race; a third would only repeat
the second's part.

In this run an open of the copy fails only because the name is taken
(`OpenMayFail = FALSE`); `publication_reopen` drops that. Without it
`EventuallyPublished` would be false as well: after one such failure two publishers can go
on removing each other's copies.

**monitor** One worker, two PIDs, so that a process can be replaced under its PID, two
processes out of a game, a tool and a Wine service, up to two wrong misses in a row (the
third is what the code takes for an exit), one wrong look, one failed write, and
fairness: 769 thousand states. A wrong look (`MaxMisread`) is a baseline that is
incomplete, a poll that cannot read the path or the birth of a process, or one that sees a
game that has gone. `ExitMeansGone`, `NeverRecordedTwice`, `NewGamePreferred`,
`ImplementsRole`, `StopIsHonoured`, `ExitIsNoticed`, `NoEndlessWait`, `NewGameAttached`.
In this run a PID of the baseline is not used again (`BaselineReused = FALSE`);
`monitor_reuse` drops that. More processes than two are left to the proofs, which cover
every property here but the four that need fairness.

**supervisor** Two launches of one run, two GUI processes, two deaths, one failed
write or start. Two GUI processes are needed for a recovery, the second death for a
crash during it. `StopHasRequester`, `OneOfEach`, `MarkerIsTrue`,
`NoAbandonedWorker`, `WindowCloses`, `ControllerReturns`.

**collector, collector_live** Two sessions of the run and one of another run between
them in name order (names are visited in order, but sessions begin in any order), one
failing operation and one Ctrl-C: 12.3 million states. Any operation may fail: the
constructor, the listing of `finalize`, the log of a handler, the removal of a RETURN.
`NothingForgotten`, `ReturnIsTruthful`, `OneFailureKeepsReturn`, `NoGameExcludesGames`;
with fairness and a session whose name does not match its executable (it fails at every
tick), `HostTerminates` and `SafetyNet`.

**capture** Two sources that are equal at first, two blocks, three writes by other
programs (append, rewrite, copy of one source over the other) that may leave the
modification time unchanged, two faults. Two blocks make a torn copy possible; three
writes suffice to tear a copy and to give the source its earlier content back.
`VerifiedIsReal`, `EverySourceAccounted`, `NothingUnverified`, `AliasIsArchived`.

**dashboard** Two sessions, two languages, two pages and one mishap out of a refused
control, a crash, a failed write of the language and a text that cannot be set: 1.2
million states. `WindowIsOneSnapshot`: header, title and page never contradict each
other. `ReportsAreTrue`: the title calls a session complete only if it is closed on disk.
`RecoveryIsSafe`: a window that comes back after a death does not read back controls.
`RefreshHeals`: the next refresh in which nothing fails leaves every control of the page
with what the dashboard says, whatever was shown before and whatever failed; it needs that
`nativeText` never remembers a text that was not set. The two sessions are needed for a
page of one with the title of the other.

**marks** Three sessions, so that the window moves on between two steps of a mark, two
presses, three toggles, one death of the GUI, one failed write. `MarksNameTheirSession`,
`MarksAreKept`, `DeepIsFollowed` (the worker obeys the last toggle, also when the flag
of a dead GUI was there before it).

**diagnostics** Two sessions, one line each, one failing operation and one Ctrl-C, at
any step: 2.9 million states (with two failing operations 20.8 million, no error, in
nearly five minutes). The sessions of a pass are taken in any order; the code
takes them by name, or in `finish` by their opening, and no property depends on it, so
that they are symmetric. One line is enough to tell a log that was read, one that
reached the file and one that reached the archive apart. `NothingLeftRunning`: at the
end no logcat runs that has not lost its owner on the way. `GapsAreReported`: an archive
holds what the stream took or says that it does not. `CapturedIsArchived`: a log that
was captured is not lost in silence. `DiagnosticsCostNoArchive`: what fails inside the
diagnostics costs no session its archive. The exceptions each names are real: see the end
of this section.

The type invariant of `Diagnostics` is in its run; those of the other modules are in no
run, because they are proved.

Three runs end in a counterexample: the code does what a comment in it excludes.

| Run | Property | What happens |
|---|---|---|
| `publication_reopen` | `ArchiveStays` | The exclusive copy's handler unlinks the final name for every exception, also when opening the staging file failed before the name was created. If another publisher completed its archive in between, that archive is removed (`gpu_lab_collector.py:345-349`, comment at 336). |
| `monitor_reuse` | `NewGamePreferred` | The baseline is a set of PIDs without birth. A new game under a PID of the baseline is taken for an old process, and an older process is preferred to it (`main_windows.go:336`, comment at 350). |
| `host_stop` | `StopIsVetoed` | The safety net judges by what the last tick saw. A session that began since is stopped (`gpu_lab_collector.py:675`, docstring at 668). |

Further weaknesses are documented without a run, because no line of the repository
excludes them or the model shows them by its shape:

* `SuccessMeansPublished` needs `late`. The exclusive copy is a whole archive from its last
  byte on; when its `fsync` or `verified_zip` (343, 344) then fails, or Ctrl-C strikes, the
  handler removes it, although another call may have verified it and reported success.
* `NoPartialLeftBehind` and `EventuallyPublished` need the removal that fails (348): the
  truncated file stays under the name without any death. A later call meets it as
  `zipfile.BadZipFile`, which is no `OSError` or `ValueError`: it passes line 978 and ends
  the host.
* `OneFailureKeepsReturn` begins when the host has started. The constructor (442-472) and
  the first log (969) run outside every handler: one failure or Ctrl-C there leaves no
  RETURN and no emergency archive.
* `NothingForgotten` needs `cut`. `get_sessions` (741) and the log of the handler (755) may
  raise out of `finalize`: the sessions left are neither archived nor tried, and
  `diagnostics_only` and `diag.finish` get no turn. The RETURN exists and its trigger names
  the failure. For the same reason `DiagnosticsCostNoArchive` needs `short`.
* An `OSError` that `guarded_finalize` raises is swallowed when a stale heartbeat was the
  reason (1016): the loop goes on after a finalization. A session archived there was not in
  `seen`, so the safety net may wait for ever; `SafetyNet` excepts it (`rounds = "later"`).
* `NoGameExcludesGames` needs `failed`. A Ctrl-C after the record and before
  `archived.add` (549) makes `finalize` archive the session again, which fails, and then
  record NO-GAME beside the session's record.
* `NeverRecordedTwice` needs the birth. `processBirth` is 0 when `OpenProcess` or
  `GetProcessTimes` fails (`process_windows.go:111-124`): a process whose birth could be
  read for one of two attachments only has two keys and two sessions. With
  `NewGamePreferred`, a new game whose path cannot be read is no candidate (329-331).
* A session whose telemetry cannot be opened (`main_windows.go:405-412`) stays active on
  disk; `WorkerRole` calls it `stuck`, and the host archives it only when it finalizes.
* The window may say FALHA NO MONITOR after a normal end, when the controller has written
  `worker-exited.marker` before `viewState` polls `finished.ok` (820). No property of
  `Dashboard` excludes it.
* The archive of a session is published at `gpu_lab_collector.py:633` and recorded at
  656. A failure in between leaves an archive the RETURN does not name, although its
  docstring (770) promises evidence of the archives' names.
* `published` is set after the copy of the RETURN (875), so a write that fails half way
  leaves a truncated file under the final name, which the docstring (772) calls CRC
  checked. The emergency archive then stands in (`OneFailureKeepsReturn`).
* `AliasIsArchived` needs its exception. `seen_contents` files a source under the hash
  of before the copy (214); when the source is written between, a later source with the
  old content is omitted as an alias of an archive file that does not hold it. TLC
  violates the property when the disjunct `q \in moved` is taken out.
* `CapturedIsArchived` needs `tries[s] = 2`. `export_session` takes the session out of
  `live` (253); when `archive_session` fails after it and is repeated, the second export
  has nothing to copy, and COVERAGE.json says `UNAVAILABLE` of a log that was captured
  and lies beside it on disk.
* `GapsAreReported` needs `late`. A reader that outlives both joins (171-175), for
  instance in a slow write, still has lines in its buffer when the file is copied;
  COVERAGE.json says `CAPTURED` with the bytes it has counted.
* `NothingLeftRunning` needs `cut`. A refused thread (143) raises out of `session_open`
  after logcat was started and before `live` knows it; a Ctrl-C there or in `stop` of an
  export does the same; and a `finalize` that raises in its loop, or is not called again,
  never reaches `diag.finish()`. Such a logcat ends when its pipe is closed.

## 4. Bounds and fairness

Every bound is a constant named `Max…`: faults, deaths, interrupts, births, wrong
observations, windows, writes, blocks. They bound the environment only. The
counters of the code are compared with constants (three polls, three misses, two
attempts); the one that grows on, `stability`, stays at three, which the code cannot
tell from more. `Supervisor` bounds GUI processes: at the bound a
start fails, which the code may meet anyway.

Time is not counted. A timer is an action that may fire once its start has been set
(`EightSeconds`, `FifteenSeconds`, `Age`, `GracePasses`, `SevenSeconds`), and a wait
with a time-out may end at any moment. Two facts about real time are used, both named in
`Collector`: a game does not begin 22 s after the last exit, because the worker leaves
15 s after it (`TakesGames`), and the age of sessions does not change what a
finalization that has begun does.

| Specification | Weak fairness of | Why the code justifies it |
|---|---|---|
| `Publication!FairSpec` | each call's steps; the next call | a Python thread of control runs; `tick` packs a session again after an error it survives. Nothing is asked of a host that has ended (`Due`) |
| `Monitor!FairSpec` | the worker's steps; two clocks | one goroutine that never blocks; time passes |
| `Supervisor!FairSpec` | each controller; each window's thread and `viewState`; the exit of a worker that wrote `finished.ok` | started processes are scheduled; both loops poll. The worker's games and the user owe nothing |
| `Collector!FairSpec` | the host's steps; its timers | one thread with a 1 s sleep. Nothing is assumed of the Windows side |

Strong fairness is used nowhere. `Dashboard`, `Marks`, `Capture` and `Diagnostics` have
no fairness: what they promise is said of states. That a text of `Dashboard`
is at last what the window should show would need liveness over 1.2 million states, too
much for TLC in minutes; `RefreshHeals` is its safety core. Every
wait of `Diagnostics` is bounded by its code.

`MaxSessions` in `Dashboard` and `Marks`, `MaxPresses`, `MaxToggles`, `MaxDeaths` bound
the user and the worker. `Capture!VerifiedIsReal` depends on its bound of two sources.
With three it is false: TLC, led through the steps, copies the first block of `<<0, 1>>`
and the second of `<<3, 4>>`, while other programs keep both contents in two more
sources; they are copied back over the source in turn while it is hashed again, the
modification time stays, and `<<0, 4>>`, which the source never was, is recorded as
verified. That takes seven writes in one attempt. Section 5 proves the
property without such copies, for any number of sources.

## 5. Proofs

`PublicationProofs` proves about `Publication`, for any publishers, contents and
numbers of faults and deaths:

| Theorem | Statement |
|---|---|
| `TypeCorrect` | `Spec => []TypeOK` |
| `Invariance` | `Spec => []IInv`, if `OpenMayFail = FALSE` |
| `Success` | `Spec => []SuccessMeansPublished`, same hypothesis |
| `NeverReplaced` | `Spec => ArchiveStays`, same hypothesis |
| `NoTruncatedLeft` | `Spec => NoPartialLeftBehind` |
| `Refinement` | `Spec => ImplementsWriteOnce`, same hypothesis |

Assumptions: those of the module (`Nobody` is not a publisher, `NoData` not a
content, the sets of outcomes and the bounds have their types).

Argument. Neither `SuccessMeansPublished` nor `ArchiveStays` is inductive. `Undo`
removes whatever is under the final name; that it is never a complete archive of somebody
else follows only from who is at that step. `IInv` therefore says, for every publisher, who
owns the final name (`Ownership`): a call at `pour`, `check` or `undo` has the file there
for its own, so no two calls are there at once; a whole file is at `undo` only after a late
error (`Doubted`); a call that reached `digest`, or reported success, has found its own
content complete, unless somebody was late (`Confirmed`). `WholeStays` is the step lemma
behind `NeverReplaced`; `StepIInv` has one step per action. `Refinement` maps `published`
to the content of a complete `dest`, and `owner` to its creator while that is at `check` or
`undo`: `Link` and `Pour` are `Publish`, a late error is `Doubt`, the handler's removal
`Withdraw`, the end of the verification `Settle`, `Digest` is `Confirm`.

Two gaps of the code are named in what is proved. The hypothesis `OpenMayFail = FALSE`:
with `TRUE` a call may reach `undo` without owning the name, and `publication_reopen` shows
the consequence. The mishaps: `late` is an exception in the statement of `Success` and a
step of `WriteOnce`, and a removal that fails is one in `NoTruncatedLeft`. `TypeCorrect`
and `NoTruncatedLeft` need no hypothesis.

`SupervisorProofs` proves about `Supervisor`, for any launches, numbers of windows,
deaths and faults, every safety property of its run:

| Theorem | Statement | Rests on |
|---|---|---|
| `TypeCorrect` | `Spec => []TypeOK` | `Fresh`: a GUI process not yet started has no window |
| `MarkerTrue` | `Spec => []MarkerIsTrue` | `Exclusive`, `OneWorker` |
| `OneOfEachHolds` | `Spec => []OneOfEach` | the same and `LatestOnly` |
| `StopIsAsked` | `Spec => []StopHasRequester` | `Asked` |
| `NobodyAbandoned` | `Spec => NoAbandonedWorker` | `Exclusive`, `OneWorker`, `Ending` |

The invariant has four parts, each proved inductive in a lemma of its own with one
step per action. `Exclusive`: whoever got past the lock holds it, also when dead, and
nobody else does. `OneWorker`: a controller that is about to start the worker is the
first to do so. `LatestOnly`: a live GUI process is the last one started, and its
controller waits for it, is ending or has died; hence a controller that starts another
one sees none alive. `Asked` is the handshake of `viewState` with the window:
`viewState` sets `finished` before it posts `WM_CLOSE`, so a `WM_CLOSE` met without
`finished` is the user's. `Ending`: a controller that is past its loop waits for a
worker that was asked to stop, or whose game has exited, or which has gone. The only
assumption is that the bounds are natural numbers.

`MonitorProofs` proves about `Monitor`, for any PIDs, executables and number of
processes:

| Theorem | Statement | Rests on |
|---|---|---|
| `MonitorInvariant`, `MonitorTyped` | `Spec => []Inv`, `[]TypeOK` | `PlaceInv`, `CountInv`, `HolderInv`, `KeyInv` |
| `RecordedOnce` | `Spec => []NeverRecordedTwice` | `KeyInv`: the keys of all sessions, each with the birth that was read, are in `seen`, no two are equal, and the one about to be added is not among them; `HolderInv`: a birth that was read is the incarnation's; `KeysOfOne`: so one process has at most two keys |
| `ExitIsTrue` | `Spec => []ExitMeansGone`, if `MaxSpurious <= 2` | `MissInv`: while the recorded game runs, misses in a row are wrong observations in a row |
| `NewGamesFirst` | `Spec => NewGamePreferred`, if `BaselineReused = FALSE` | `FreshInv`: a process launched since the baseline has none of its PIDs; `BestIsFirst` |
| `KeepsItsRole` | `Spec => ImplementsRole` | `PlaceInv`: where the worker stands and the state of the last session agree |

Both hypotheses are about the environment and are needed: three wrong misses are an exit
to the code, and `monitor_reuse` is the counterexample to the other.

`CollectorProofs` proves about `Collector`, for any sessions and numbers of failures and
interrupts, every safety property of its run:

| Theorem | Statement | Rests on |
|---|---|---|
| `CollectorInvariant`, `CollectorTyped` | `Spec => []Inv`, `[]TypeOK` | all parts |
| `NoneForgotten` | `Spec => []NothingForgotten` | `LeftInv`: in a finalization after `finished.ok`, what is neither archived nor failed is on the list still to visit, unless it was cut short |
| `ReturnTellsTheTruth` | `Spec => []ReturnIsTruthful` | `EvidenceInv`: recorded implies published, copied and of this run |
| `ReturnSurvives` | `Spec => []OneFailureKeepsReturn` | `ReturnInv`: a RETURN that is not whole, outside the copy, means that something went wrong, and only one thing could |
| `NoGameOrGames` | `Spec => []NoGameExcludesGames` | `NoGameInv`: what is recorded and not archived in memory has failed or is still to visit, and after NO-GAME nothing is visited before a finalization is repeated |

`ControlInv` relates the place of the host to `reason`, `inFinal` and `handling`; every
other part uses it. That `Min(todo)` is in `todo` needs the least element of a set of
numbers. The library's induction theorems take an operator as a parameter and cannot be
used, so `LeastOf` derives it, here and in `MonitorProofs`, from the minimal element of a
well-founded order.

`CaptureProofs` proves about `Capture`, for any sources, blocks, lengths and writes:

| Theorem | Statement | Rests on |
|---|---|---|
| `CaptureInvariant`, `CaptureTyped` | `Spec => []Inv`, `[]TypeOK` | all parts of `Inv` |
| `AllAccounted` | `Spec => []EverySourceAccounted` | `PickInv`: sources are settled in their order; `CountInv` |
| `OnlyVerified` | `Spec => []NothingUnverified` | `CopyInv`: what lies in the tree was entered, could not be removed, or is being copied |
| `AliasesHold` | `Spec => []AliasIsArchived` | `SeenInv`: what `seen_contents` knows was archived by an earlier source; `PrefixInv`: what was read of a source nobody writes is a prefix of it |
| `VerifiedWasThere` | `Spec => []VerifiedIsReal`, if `Sources <= 2` | `RealInv` |
| `VerifiedWithoutCopies` | `Spec /\ [][NoCopy]_vars => []VerifiedIsReal` | `RealInv` |

`RealInv` is needed because neither the copy nor the hash after it sees the source at one
moment: both take each block from the file of that moment, and a torn copy may go on to
the end. What cannot happen is that the second reading finds the torn content again.
`CopyingInv` says of a copy under way: if its blocks still can be read, some from the
source and the rest from one other file, then some content the source has had begins with
them and goes on with every block the two files agree on. `CheckingInv` says of a copy
being verified: if what was hashed so far is its beginning and the rest still can be read
in this way, it was a content of the source. Both survive a write, because its blocks are
in no earlier copy (`FreshInv`), and a copy of one file over the other, because both have
only what one of them had. A third file would be a place to keep an old content until
the other two have changed (section 4). `NoCopy` is the other way to exclude that: a
source that changes gets blocks of its own, as programs do that append to a log or write
it anew.

`DashboardProofs` proves `TitleIsTrue` (`ReportsAreTrue`), `GuiRecovers`
(`RecoveryIsSafe`) from `DashboardInvariant`, and `OneSnapshotIsShown`
(`WindowIsOneSnapshot`) and `WindowHeals` (`RefreshHeals`) from it and from `SnapshotInv`,
which does not compare texts but says that all three are those of *one* dashboard; a
refresh sets only some of them, and `MemoryIsTrue` (a control shows what it is taken to
show) is what makes the others right (`PaintShows`).
`MarksProofs` proves `MarksTyped`, `MarksAgree` (`MarksNameTheirSession`),
`NoMarkForgotten` (`MarksAreKept`) and `DeepObeys` (`DeepIsFollowed`) from
`MarksInvariant`. The first rests on what `Paint` leaves behind (`PaintStep`), the second
on who holds `markerMu`: while a mark is under way, path and name are of one session.

`DiagnosticsProofs` proves about `Diagnostics`, for any sessions, quotas and numbers of
failures and interrupts, every property of its run:

| Theorem | Statement | Rests on |
|---|---|---|
| `DiagnosticsTyped` | `Spec => []TypeOK` | `PlaceInv`: a session that has a stream has a directory, and a step of `stop` has a logcat |
| `LogcatsStop` | `Spec => []NothingLeftRunning` | `OwnerInv`: a running logcat is in `live`, in the hands of `stop`, or was cut; what `finish` has passed over does not run, and what a finalization cut short leaves in `live` is cut |
| `GapsReported` | `Spec => []GapsAreReported` | `ReaderInv`: a log is `CAPTURED` only when its reader has gone or is late, and then its file has what was counted; `TreeInv` carries that from `stop` over the tree to the archive |
| `CapturedKept` | `Spec => []CapturedIsArchived` | `TakenInv`: an archive of a first attempt that does not warn comes after the only `stop` of its logcat; `ReaderInv`, `PassInv` |
| `NoArchiveIsLost` | `Spec => []DiagnosticsCostNoArchive` | `PassInv`: in the last pass every session is archived, failed, in hand or still to visit, unless it was cut short |

The threads and the processes run on between any two steps of the host, so each of these
has two kinds of steps to survive: a table of them (`StreamSteps`, `RecordSteps`,
`OpenCases`) says once what a step may do to the streams, to the records and to the
directories, and the step lemmas use it.

The assumptions of all these are those named in the modules: types of the constants, and
that bounds are numbers.

Only model-checked: everything that needs fairness (`EventuallyPublished`,
`StopIsHonoured`, `ExitIsNoticed`, `NoEndlessWait`, `NewGameAttached`, `WindowCloses`,
`ControllerReturns`, `HostTerminates`, `SafetyNet`), which TLAPS does not handle, and the
operators of `Locale`, which are checked within `Dashboard`. Every safety property
of every passing run is proved.

## 6. Not modelled

* Pattern tables (`gpu_lab_evidence.py`, `gpu_lab_panvk.py`) and host metrics: they write
  reports no other part reads.
* Source selection (`scan_sources`, `select_sources`, `classify`, `copy_windows_files`)
  and the limits `FILE_LIMIT` and `TOTAL_LIMIT`: a pure function of a directory tree and
  a clock, whose content is its tables of names and time windows.
* Names (`safeExeName` in Go against the expression in `gpu_lab_collector.py:631`):
  functions on characters. `Collector` has the outcome, a session whose name is not
  anchored (`Unanchored`), and shows what follows.
* Painting, the graph, the layout of menus and the Android fields of the window: no
  state but what is drawn. The window's graph stays empty, since only the worker fills
  the history it draws from.
* In the diagnostics: sysfs, kernel log, driver hash, the filter of lines and the list of
  errors. They are contents; their failing writes are failures of the step they are in.
* The BAT and the installer: `bat-exit.txt` is an action of the environment. That the
  path components of a session are safe is not modelled: `get_sessions` is the sessions
  whose `session.json` exists.
* Of the window's known peculiarities some are modelled as they are and make no property
  fail: its `sessionPath` is never cleared, so a mark after the end goes to the session
  that has finished, and one before the first session leaves no trace; `markerMu` is held
  while the screenshot is taken, up to its time-out; `GPU-Lab.language` is not written
  atomically, and a torn file means the automatic choice.

File contents are reduced to what a property distinguishes.

## 7. What remains

The plan of the modules is carried out: every process of the system has its module, and
every safety property of a module is proved. What could be added, and why it was not:

1. `Selection` and `Names`, as operators checked against a reference definition over
   small trees and names. They hold no state, and their mistakes are within the reach of
   the tests the repository has.
2. `Lab`: `Collector` with `WorkerRole` in place of its own Windows side. That side
   does whatever the role does, so the safety properties carry over; only
   the time-outs of the controller against the safety net of the host would be new.
