--------------------------- MODULE DashboardProofs ---------------------------
(***************************************************************************)
(* The window never calls a session complete that is not, never pretends a   *)
(* read-back, retries what it failed to show, shows one snapshot of the       *)
(* dashboard, and a GUI process that died of a missing control is replaced by  *)
(* one that stays: for any languages, sessions and mishaps.                   *)
(***************************************************************************)
EXTENDS Dashboard, TLAPS

Fields == {"session", "state", "running", "done"}
Types == /\ latest \in 0..MaxSessions
         /\ disk \in [Sessions -> {"absent", "active", "finished"}]
         /\ safe \in BOOLEAN
         /\ crashes \in Nat /\ stumbles \in Nat /\ faults \in Nat
         /\ DOMAIN dash = Fields

\* session.json of s is closed; it stays so.
Closed(s) == s \in Sessions /\ disk[s] = "finished"

\* What viewState has read, what the dashboard says and what the title shows are true.
TruthInv ==
  /\ view \in {"read", "show"} => picked \in Sessions
  /\ view = "show" /\ meta = "finished" => Closed(picked)
  /\ dash.done => Closed(dash.session)
  /\ shown["title"] # NoText => (shown["title"][1] = "complete" => Closed(shown["title"][2]))

\* Only the first process may be out of safe mode; a dead one has no memory.
ModeInv ==
  /\ stage \in {"none", "starting", "pumping"}
  /\ stumbles <= 1
  /\ stage # "none" /\ ~safe => crashes + stumbles = 0
  /\ stage = "none" => NoMemory(dash, view, picked, meta, quit, tab, last, shown, native)
  /\ safe => native # "readback"

LanguageInv == faults = 0 /\ stage # "none" => manual = ChosenAtStart(saved)

\* nativeText remembers only what the control shows.
MemoryIsTrue == \A c \in Controls : last[c] = shown[c]

Inv == Types /\ TruthInv /\ ModeInv /\ LanguageInv /\ MemoryIsTrue

-----------------------------------------------------------------------------
\* A dead process says nothing.
LEMMA NoMemoryIsTrue ==
  ASSUME NoMemory(dash, view, picked, meta, quit, tab, last, shown, native)
  PROVE TruthInv /\ native # "readback" /\ MemoryIsTrue
<1>1. shown["title"] = NoText
  BY DEF NoMemory, Controls
<1>2. MemoryIsTrue
  BY DEF NoMemory, MemoryIsTrue
<1>3. view = "poll" /\ ~dash.done /\ native = "UNAVAILABLE"
  BY DEF NoMemory, NewDashboard
<1>4. QED
  BY <1>1, <1>2, <1>3 DEF TruthInv

\* The first window has shown nothing yet.
LEMMA InvInit == ASSUME Init PROVE Inv
<1> 0 \in 0..MaxSessions
  BY BoundsAssumption
<1>1. Types
  BY DEF Init, Types, Fields, NoMemory, NewDashboard
<1>2. QED
  BY <1>1, NoMemoryIsTrue DEF Init, Inv, ModeInv, LanguageInv

\* refreshAllText leaves the title as it was, or writes it from the dashboard.
LEMMA PaintTitle ==
  ASSUME NEW page, NEW language, NEW failed, Paint(page, language, failed)
  PROVE \/ shown'["title"] = shown["title"]
        \/ shown'["title"] = <<Phase(dash), dash.session, language>>
BY DEF Paint, Updated, TextOf, Controls

\* nativeText changes a text and its cache together.
LEMMA PaintCache ==
  ASSUME NEW page, NEW language, NEW failed, Paint(page, language, failed), MemoryIsTrue
  PROVE MemoryIsTrue'
BY DEF Paint, Updated, MemoryIsTrue

\* A refresh in some language shows nothing but what the dashboard says.
Painted == \E page, language, failed : Paint(page, language, failed)

\* Paint leaves every text set, or marked to be set again.
LEMMA PaintStep ==
  ASSUME TruthInv, MemoryIsTrue, Painted, UNCHANGED <<disk, view, picked, meta, dash, safe>>
  PROVE TruthInv' /\ MemoryIsTrue' /\ (safe' => native' # "readback")
<1>1. PICK page, language, failed : Paint(page, language, failed)
  BY DEF Painted
<1>2. MemoryIsTrue' /\ (safe' => native' # "readback")
  BY <1>1, PaintCache DEF Paint
<1>3. CASE shown'["title"] = shown["title"]
  BY <1>2, <1>3 DEF TruthInv, Closed
<1>4. CASE shown'["title"] = <<Phase(dash), dash.session, language>>
  <2>1. shown'["title"][1] = "complete" => dash.done /\ shown'["title"][2] = dash.session
    BY <1>4 DEF Phase
  <2>2. QED
    BY <1>2, <2>1 DEF TruthInv, Closed
<1>5. QED
  BY <1>1, <1>3, <1>4, PaintTitle

\* The process ends: TruthInv and MemoryIsTrue hold of what is left.
LEMMA EndStep ==
  ASSUME ProcessEnds
  PROVE /\ TruthInv' /\ MemoryIsTrue' /\ (safe' => native' # "readback")
        /\ DOMAIN dash' = Fields
        /\ NoMemory(dash, view, picked, meta, quit, tab, last, shown, native)'
<1>1. shown'["title"] = NoText
  BY DEF ProcessEnds, NoMemory, Controls
<1>2. MemoryIsTrue'
  BY DEF ProcessEnds, NoMemory, MemoryIsTrue
<1>3. view' = "poll" /\ ~dash'.done /\ native' = "UNAVAILABLE"
  BY DEF ProcessEnds, NoMemory, NewDashboard
<1>4. DOMAIN dash' = Fields
  BY DEF ProcessEnds, NoMemory, NewDashboard, Fields
<1>5. QED
  BY <1>1, <1>2, <1>3, <1>4 DEF TruthInv, ProcessEnds, NoMemory

\* A refresh that may fail is still a refresh.
LEMMA RefreshIsPaint ==
  ASSUME NEW page, RefreshAllText(page), Types
  PROVE Painted /\ faults' \in Nat /\ (faults' = 0 => faults = 0)
<1>1. Painted
  BY Zenon DEF RefreshAllText, Painted
<1>2. faults' = faults \/ faults' = faults + 1
  BY DEF RefreshAllText, Fault
<1>3. QED
  BY <1>1, <1>2 DEF Types

\* The worker never opens a session.json again that it has closed.
LEMMA WorkerStep ==
  ASSUME Types, Outside
  PROVE Types' /\ (\A s : Closed(s) => Closed(s)') /\ (faults' = 0 => faults = 0)
<1>1. latest' \in 0..MaxSessions
  BY BoundsAssumption DEF Outside, Announce, Record, Types
<1>2. faults' \in Nat /\ (faults' = 0 => faults = 0)
  BY DEF Outside, Announce, Record, Types, Fault
<1>3. /\ disk' \in [Sessions -> {"absent", "active", "finished"}]
      /\ \A s : Closed(s) => Closed(s)'
  <2>1. CASE UNCHANGED disk
    BY <2>1 DEF Types, Closed
  <2>2. CASE Record
    BY <2>2 DEF Record, Types, Closed
  <2>3. QED
    BY <2>1, <2>2 DEF Outside, Announce
<1>4. QED
  BY <1>1, <1>2, <1>3 DEF Outside, Types, process, reader

\* Every step keeps the invariant; what Paint does is left to PaintStep.
LEMMA InvStep == ASSUME Inv, [Next]_vars PROVE Inv'
<1> USE DEF Inv
<1>1. CASE UNCHANGED vars
  BY <1>1 DEF vars, Types, TruthInv, ModeInv, LanguageInv, MemoryIsTrue, Closed, NoMemory
<1>2. CASE Outside
  <2>1. UNCHANGED <<stage, safe, stumbles, crashes, saved, manual, dash, view, picked, meta,
                    quit, tab, last, shown, native>>
    BY <1>2 DEF Outside, process, reader, paint
  <2>2. Types' /\ TruthInv' /\ LanguageInv'
    BY <1>2, <2>1, WorkerStep DEF TruthInv, LanguageInv
  <2>3. ModeInv' /\ MemoryIsTrue'
    BY <2>1 DEF ModeInv, MemoryIsTrue, NoMemory
  <2>4. QED
    BY <2>2, <2>3
<1>3. CASE ViewState
  <2>1. UNCHANGED <<latest, disk, stage, safe, stumbles, crashes, faults, saved, manual, tab,
                    last, shown, native>> /\ stage # "none"
    BY <1>3 DEF ViewState, worker, process, paint
  <2>2. TruthInv'
    <3>1. CASE Poll
      <4>1. dash'.done = dash.done /\ dash'.session = dash.session
        <5>1. dash' = dash \/ dash' = [dash EXCEPT !.state = "FALHA NO MONITOR"]
          BY <3>1 DEF Poll
        <5>2. CASE dash' = [dash EXCEPT !.state = "FALHA NO MONITOR"]
          BY <5>2 DEF Types, Fields
        <5>3. QED
          BY <5>1, <5>2
      <4>2. view' \in {"post", "poll", "read"} /\ (view' = "read" => picked' \in Sessions)
        <5>1. view' \in {"post", "poll"} \/ (view' = "read" /\ picked' = latest /\ latest # 0)
          BY <3>1, Zenon DEF Poll
        <5>2. QED
          BY <5>1 DEF Types, Sessions
      <4>3. QED
        BY <2>1, <4>1, <4>2 DEF TruthInv, Closed
    <3>2. CASE PostClose
      BY <2>1, <3>2 DEF PostClose, TruthInv, Closed
    <3>3. CASE ReadSession
      BY <2>1, <3>3 DEF ReadSession, TruthInv, Closed
    <3>4. CASE Show
      BY <2>1, <3>4 DEF Show, Attached, TruthInv, Closed
    <3>5. QED
      BY <1>3, <3>1, <3>2, <3>3, <3>4 DEF ViewState
  <2>3. DOMAIN dash' = Fields
    BY <1>3 DEF ViewState, Poll, PostClose, ReadSession, Show, Attached, Types, Fields
  <2>4. Types' /\ ModeInv' /\ LanguageInv' /\ MemoryIsTrue'
    BY <2>1, <2>3 DEF Types, ModeInv, LanguageInv, MemoryIsTrue
  <2>5. QED
    BY <2>2, <2>4
<1>4. CASE StartGUI
  <2>1. UNCHANGED <<latest, disk, stumbles, crashes, faults, saved, dash, view, picked, meta,
                    quit, tab, last, shown, native>>
    BY <1>4 DEF StartGUI, worker, reader, paint
  <2>2. native = "UNAVAILABLE"
    BY <1>4 DEF StartGUI, ModeInv, NoMemory
  <2>3. safe' \in BOOLEAN /\ (~safe' => crashes + stumbles = 0)
    <3>1. safe' = (crashes + stumbles > 0)
      BY <1>4 DEF StartGUI
    <3>2. CASE crashes + stumbles > 0
      BY <3>1, <3>2
    <3>3. CASE crashes + stumbles = 0
      BY <3>1, <3>3
    <3>4. QED
      BY <3>2, <3>3 DEF Types
  <2>4. stage' = "starting" /\ manual' = ChosenAtStart(saved)
    BY <1>4 DEF StartGUI
  <2>5. Types' /\ LanguageInv'
    BY <2>1, <2>3, <2>4 DEF Types, LanguageInv
  <2>8. ModeInv'
    BY <2>1, <2>2, <2>3, <2>4 DEF ModeInv
  <2>6. TruthInv' /\ MemoryIsTrue'
    BY <2>1 DEF TruthInv, MemoryIsTrue, Closed
  <2>7. QED
    BY <2>5, <2>6, <2>8
<1>5. CASE Crash
  <2>1. UNCHANGED <<latest, disk, saved, safe, manual, stumbles, faults>> /\ crashes' \in Nat
    BY <1>5 DEF Crash, ProcessEnds, worker, Types
  <2>2. QED
    BY <1>5, <2>1, EndStep DEF Crash, ProcessEnds, Types, ModeInv, LanguageInv
<1>6. CASE CreateUIControls
  <2>1. CASE ~safe /\ stumbles' = stumbles + 1 /\ ProcessEnds /\ UNCHANGED <<crashes, faults>>
    <3>1. stumbles = 0
      BY <1>6, <2>1 DEF CreateUIControls, ModeInv, Types
    <3>2. QED
      BY <2>1, <3>1, EndStep DEF ProcessEnds, worker, Types, ModeInv, LanguageInv
  <2>2. CASE /\ stage' = "pumping" /\ RefreshAllText("overview")
             /\ UNCHANGED <<latest, disk, saved, safe, stumbles, crashes, dash, view, picked,
                            meta, manual>>
    <3>1. TruthInv' /\ MemoryIsTrue' /\ (safe' => native' # "readback")
      BY <2>2, RefreshIsPaint, PaintStep
    <3>2. QED
      BY <1>6, <2>2, <3>1, RefreshIsPaint
         DEF CreateUIControls, Types, ModeInv, LanguageInv
  <2>3. QED
    BY <1>6, <2>1, <2>2 DEF CreateUIControls, worker, reader
<1>7. CASE Refresh \/ \E page \in Pages : NativeTab(page)
  <2>1. /\ \E page : RefreshAllText(page)
        /\ stage = "pumping"
        /\ UNCHANGED <<latest, disk, saved, stage, safe, stumbles, crashes, dash, view, picked,
                       meta, manual>>
    BY <1>7 DEF Refresh, NativeTab, InWindow, worker, process
  <2>2. TruthInv' /\ MemoryIsTrue' /\ (safe' => native' # "readback")
    BY <2>1, RefreshIsPaint, PaintStep
  <2>3. QED
    BY <2>1, <2>2, RefreshIsPaint DEF Types, ModeInv, LanguageInv
<1>8. ASSUME NEW v \in Choices, ChooseUILanguage(v) PROVE Inv'
  <2>1. /\ Painted /\ stage = "pumping"
        /\ UNCHANGED <<latest, disk, stage, safe, stumbles, crashes, dash, view, picked, meta>>
    BY <1>8 DEF ChooseUILanguage, Painted, InWindow, worker, process
  <2>2. TruthInv' /\ MemoryIsTrue' /\ (safe' => native' # "readback")
    BY <2>1, PaintStep
  <2>3. faults' \in Nat /\ (faults' = 0 => faults = 0 /\ saved' = v) /\ manual' = v
    BY <1>8 DEF ChooseUILanguage, Fault, Types
  <2>4. LanguageInv'
    BY <2>3 DEF LanguageInv, ChosenAtStart
  <2>5. QED
    BY <2>1, <2>2, <2>3, <2>4 DEF Types, ModeInv
<1>9. CASE StopShortcut
  <2>1. /\ stage = "pumping" /\ dash'.done = dash.done /\ dash'.session = dash.session
        /\ UNCHANGED <<latest, disk, saved, stage, safe, stumbles, crashes, faults, view, picked,
                       meta, manual, last, shown, native>>
    BY <1>9 DEF StopShortcut, InWindow, worker, process, paint
  <2>2. DOMAIN dash' = Fields
    BY <1>9 DEF StopShortcut, Types, Fields
  <2>3. QED
    BY <2>1, <2>2 DEF Types, TruthInv, ModeInv, LanguageInv, MemoryIsTrue, Closed
<1>10. CASE CloseWindow \/ UserCloses
  <2>1. /\ ProcessEnds /\ UNCHANGED <<latest, disk, safe, stumbles, crashes, faults>>
    BY <1>10 DEF CloseWindow, UserCloses, WindowClosed, ProcessEnds, worker
  <2>2. QED
    BY <2>1, EndStep DEF ProcessEnds, Types, ModeInv, LanguageInv
<1>11. QED
  BY <1>1, <1>2, <1>3, <1>4, <1>5, <1>6, <1>7, <1>8, <1>9, <1>10 DEF Next

\* The invariant holds in every behaviour.
THEOREM DashboardInvariant == Spec => []Inv
BY InvInit, InvStep, PTL DEF Spec

\* refreshAllText and viewState: the title never calls a session complete that is not
\* closed on disk, and safe mode reports no read-back.
THEOREM TitleIsTrue == Spec => []ReportsAreTrue
<1>1. Inv => ReportsAreTrue
  BY DEF Inv, TruthInv, ModeInv, ReportsAreTrue, CompleteIsTrue, Closed
<1>2. QED
  BY <1>1, DashboardInvariant, PTL

\* createUIControls and startGUI: a missing control kills at most one process, and a
\* restarted window speaks the language the user has chosen.
THEOREM GuiRecovers == Spec => []RecoveryIsSafe
<1>1. Inv => RecoveryIsSafe
  BY DEF Inv, ModeInv, LanguageInv, RecoveryIsSafe
<1>2. QED
  BY <1>1, DashboardInvariant, PTL

-----------------------------------------------------------------------------
(* One snapshot on the screen: the header, the title and the page are the    *)
(* texts of one dashboard, whose STATE and flags agree.                      *)

\* What STATE says of the flags, when viewState has set it.
Agrees(d) == /\ d.state = "AGUARDANDO" => d.session = 0 /\ ~d.running /\ ~d.done
             /\ d.state = "GRAVANDO" => d.running /\ ~d.done
             /\ d.state = "FINALIZADO" => d.done

\* A window that had no failure shows some dashboard, whole and in its language.
WholeDashboard ==
  stage = "pumping" /\ faults = 0 /\ missing = {} =>
    \E d : /\ Agrees(d)
           /\ \A c \in {"status", "title", tab} : shown[c] = TextOf(c, d, UILanguage(manual))

SnapshotInv == /\ Agrees(dash)
               /\ view = "show" => meta \in {"active", "finished"}
               /\ tab \in Pages
               /\ stage = "starting" => tab = "overview"
               /\ WholeDashboard

\* A refresh that fails nowhere leaves the three controls with the texts of the dashboard:
\* a text that is not set again is already there.
LEMMA PaintShows ==
  ASSUME NEW page \in Pages, NEW language, Paint(page, language, {}), MemoryIsTrue
  PROVE \A c \in {"status", "title", page} \ missing : shown'[c] = TextOf(c, dash, language)
<1> TAKE c \in {"status", "title", page} \ missing
<1>1. c \in Controls
  BY DEF Controls
<1>2. CASE c \in Stale(dash, page, language)
  BY <1>1, <1>2 DEF Paint, Updated
<1>3. CASE c \notin Stale(dash, page, language)
  <2>1. last[c] = TextOf(c, dash, language)
    BY <1>3 DEF Stale
  <2>2. shown'[c] = shown[c]
    BY <1>1, <1>3 DEF Paint, Updated
  <2>3. QED
    BY <1>1, <2>1, <2>2 DEF MemoryIsTrue
<1>4. QED
  BY <1>2, <1>3

\* The same of a refresh that may fail, when no failure has been counted after it.
LEMMA RefreshShows ==
  ASSUME Types, Agrees(dash), MemoryIsTrue, tab' \in Pages, RefreshAllText(tab'),
         UNCHANGED <<missing, manual>>
  PROVE WholeDashboard'
<1> SUFFICES ASSUME faults' = 0, missing = {}
             PROVE \E d : /\ Agrees(d)
                          /\ \A c \in {"status", "title", tab'} :
                               shown'[c] = TextOf(c, d, UILanguage(manual))
  BY DEF WholeDashboard
<1>1. ~Fault
  BY DEF Types, Fault
<1>2. Paint(tab', UILanguage(manual), {})
  BY <1>1 DEF RefreshAllText
<1>3. \A c \in {"status", "title", tab'} : shown'[c] = TextOf(c, dash, UILanguage(manual))
  BY <1>2, PaintShows
<1>4. QED
  BY <1>3

\* What is on the screen stays while nothing touches it, or the process is not pumping.
LEMMA ScreenStays ==
  ASSUME WholeDashboard, Types,
         \/ stage' # "pumping"
         \/ UNCHANGED <<stage, missing, tab, manual, shown>> /\ (faults' = 0 => faults = 0)
  PROVE WholeDashboard'
BY DEF WholeDashboard

\* The first window waits; nothing is on the screen.
LEMMA SnapshotInit == ASSUME Init PROVE SnapshotInv
<1>1. dash = NewDashboard /\ view = "poll" /\ tab = "overview" /\ stage = "none"
  BY DEF Init, NoMemory
<1>2. QED
  BY <1>1 DEF SnapshotInv, WholeDashboard, Agrees, NewDashboard, Pages

\* A process that ends leaves nothing on the screen.
LEMMA SnapshotEnd == ASSUME ProcessEnds PROVE SnapshotInv'
<1>1. dash' = NewDashboard /\ view' = "poll" /\ tab' = "overview" /\ stage' = "none"
  BY DEF ProcessEnds, NoMemory
<1>2. QED
  BY <1>1 DEF SnapshotInv, WholeDashboard, Agrees, NewDashboard, Pages

\* Every step keeps the snapshot whole.
LEMMA SnapshotStep == ASSUME Inv, SnapshotInv, [Next]_vars PROVE SnapshotInv'
<1> Types /\ MemoryIsTrue
  BY DEF Inv
<1>1. CASE UNCHANGED vars \/ Outside
  <2>1. UNCHANGED <<dash, view, meta, tab, stage, missing, manual, shown>>
    BY <1>1 DEF vars, Outside, process, reader, paint
  <2>2. faults' = 0 => faults = 0
    BY <1>1, WorkerStep DEF vars
  <2>3. QED
    BY <2>1, <2>2, ScreenStays DEF SnapshotInv
<1>2. CASE ViewState
  <2>1. UNCHANGED <<tab, stage, missing, manual, shown, faults>>
    BY <1>2 DEF ViewState, process, paint
  <2>2. WholeDashboard'
    BY <2>1, ScreenStays DEF SnapshotInv
  <2>3. Agrees(dash') /\ (view' = "show" => meta' \in {"active", "finished"})
    <3>1. CASE Poll
      <4>1. CASE dash' = dash
        BY <3>1, <4>1 DEF Poll, SnapshotInv
      <4>2. CASE dash' = [dash EXCEPT !.state = "FALHA NO MONITOR"]
        BY <3>1, <4>2 DEF Poll, Types, Fields, Agrees
      <4>3. QED
        BY <3>1, <4>1, <4>2 DEF Poll
    <3>2. CASE PostClose
      BY <3>2 DEF PostClose, SnapshotInv
    <3>3. CASE ReadSession
      BY <3>3 DEF ReadSession, SnapshotInv, Types, Inv, TruthInv
    <3>4. CASE Show
      BY <3>4 DEF Show, Attached, SnapshotInv, Agrees
    <3>5. QED
      BY <1>2, <3>1, <3>2, <3>3, <3>4 DEF ViewState
  <2>4. QED
    BY <2>1, <2>2, <2>3 DEF SnapshotInv, Agrees
<1>3. CASE StartGUI
  <2>1. UNCHANGED <<dash, view, picked, meta, tab>> /\ stage' = "starting" /\ stage = "none"
    BY <1>3 DEF StartGUI, reader
  <2>2. tab = "overview"
    BY <2>1 DEF Inv, ModeInv, NoMemory
  <2>3. QED
    BY <2>1, <2>2, ScreenStays DEF SnapshotInv
<1>4. CASE Crash \/ CloseWindow \/ UserCloses
  BY <1>4, SnapshotEnd DEF Crash, CloseWindow, UserCloses, WindowClosed
<1>5. CASE CreateUIControls
  <2>1. CASE ProcessEnds
    BY <2>1, SnapshotEnd
  <2>2. CASE /\ stage' = "pumping" /\ RefreshAllText("overview")
             /\ UNCHANGED <<missing, dash, view, meta, tab, manual>>
    <3>1. tab' = "overview" /\ tab' \in Pages
      BY <1>5, <2>2 DEF CreateUIControls, SnapshotInv
    <3>2. QED
      BY <2>2, <3>1, RefreshShows DEF SnapshotInv
  <2>3. QED
    BY <1>5, <2>1, <2>2 DEF CreateUIControls, reader
<1>6. CASE Refresh \/ \E page \in Pages : NativeTab(page)
  <2>1. /\ stage' = "pumping" /\ tab' \in Pages /\ RefreshAllText(tab')
        /\ UNCHANGED <<missing, dash, view, meta, manual>>
    BY <1>6 DEF Refresh, NativeTab, InWindow, process, SnapshotInv
  <2>2. QED
    BY <2>1, RefreshShows DEF SnapshotInv
<1>7. ASSUME NEW v \in Choices, ChooseUILanguage(v) PROVE SnapshotInv'
  <2>1. /\ stage' = "pumping" /\ manual' = v /\ Paint(tab, UILanguage(v), {})
        /\ UNCHANGED <<missing, dash, view, meta, tab>>
    BY <1>7 DEF ChooseUILanguage, InWindow, process
  <2>2. ASSUME missing = {}
        PROVE \A c \in {"status", "title", tab} : shown'[c] = TextOf(c, dash, UILanguage(v))
    BY <2>1, <2>2, PaintShows DEF SnapshotInv
  <2>3. WholeDashboard'
    BY <2>1, <2>2 DEF SnapshotInv, WholeDashboard
  <2>4. QED
    BY <2>1, <2>3 DEF SnapshotInv
<1>8. CASE StopShortcut
  <2>1. /\ dash' = [dash EXCEPT !.state = "FINALIZANDO"]
        /\ UNCHANGED <<tab, stage, missing, manual, shown, faults, view, meta>>
    BY <1>8 DEF StopShortcut, InWindow, process, paint
  <2>2. Agrees(dash')
    BY <2>1 DEF Types, Fields, Agrees
  <2>3. QED
    BY <2>1, <2>2, ScreenStays DEF SnapshotInv, Agrees
<1>9. QED
  BY <1>1, <1>2, <1>3, <1>4, <1>5, <1>6, <1>7, <1>8 DEF Next

\* The texts of one dashboard agree with each other and name its language.
LEMMA WholeIsOneSnapshot == ASSUME SnapshotInv PROVE WindowIsOneSnapshot
<1> SUFFICES ASSUME stage = "pumping", faults = 0, missing = {}
             PROVE /\ \A c \in {"status", "title", tab} :
                        shown[c] # NoText /\ Language(shown[c]) = UILanguage(manual)
                   /\ OneSnapshot(shown["status"], shown["title"], shown[tab])
  BY DEF WindowIsOneSnapshot
<1> DEFINE l == UILanguage(manual)
<1>1. PICK d : /\ Agrees(d)
               /\ \A c \in {"status", "title", tab} : shown[c] = TextOf(c, d, l)
  BY DEF SnapshotInv, WholeDashboard
<1>2. tab \in {"overview", "evidence"}
  BY DEF SnapshotInv, Pages
<1> HIDE DEF l
<1>3. /\ shown["status"] = <<Phase(d), l>>
      /\ shown["title"] = <<Phase(d), d.session, l>>
      /\ tab = "overview" => shown[tab] = <<d.session, l>>
      /\ tab = "evidence" => shown[tab] = <<d.session, d.state, l>>
  BY <1>1, <1>2 DEF TextOf
<1>4. \A c \in {"status", "title", tab} : shown[c] # NoText /\ Language(shown[c]) = l
  <2>1. \A a, b, c : Language(<<a, b>>) = b /\ Language(<<a, b, c>>) = c
    BY DEF Language
  <2>2. \A a, b, c : <<a, b>> # NoText /\ <<a, b, c>> # NoText
    BY DEF NoText
  <2>3. QED
    BY <1>2, <1>3, <2>1, <2>2
<1>5. OneSnapshot(shown["status"], shown["title"], shown[tab])
  BY <1>1, <1>2, <1>3 DEF OneSnapshot, Agrees, Phase
<1>6. QED
  BY <1>4, <1>5 DEF l

\* refreshAllText, nativeTab and chooseUILanguage: whatever pages and languages were chosen,
\* the header, the title and the page agree and are in the language of the user.
THEOREM OneSnapshotIsShown == Spec => []WindowIsOneSnapshot
<1>1. Inv /\ SnapshotInv /\ [Next]_vars => SnapshotInv'
  BY SnapshotStep
<1>2. Init => SnapshotInv
  BY SnapshotInit
<1>3. SnapshotInv => WindowIsOneSnapshot
  BY WholeIsOneSnapshot
<1>4. QED
  BY <1>1, <1>2, <1>3, DashboardInvariant, PTL DEF Spec

\* nativeText and refreshAllText: a refresh in which nothing fails repairs the page, whatever
\* failed before it.
THEOREM WindowHeals == Spec => RefreshHeals
<1>1. ASSUME Inv, SnapshotInv, NEW page \in Pages, RefreshAllText(page), faults' = faults
      PROVE  \A c \in {"status", "title", page} \ missing :
               shown'[c] = TextOf(c, dash, UILanguage(manual))
  <2>1. ~Fault
    BY <1>1 DEF Inv, Types, Fault
  <2>2. Paint(page, UILanguage(manual), {})
    BY <1>1, <2>1 DEF RefreshAllText
  <2>3. QED
    BY <1>1, <2>2, PaintShows DEF Inv
<1>2. Inv /\ SnapshotInv /\ [Next]_vars =>
        [(Refresh \/ \E page \in Pages : NativeTab(page)) /\ faults' = faults =>
           \A c \in {"status", "title", tab'} \ missing :
             shown'[c] = TextOf(c, dash, UILanguage(manual))]_vars
  <2> SUFFICES ASSUME Inv, SnapshotInv, Refresh \/ \E page \in Pages : NativeTab(page),
                      faults' = faults
               PROVE  \A c \in {"status", "title", tab'} \ missing :
                        shown'[c] = TextOf(c, dash, UILanguage(manual))
    OBVIOUS
  <2>1. tab' \in Pages /\ RefreshAllText(tab')
    BY DEF Refresh, NativeTab, SnapshotInv
  <2>2. QED
    BY <1>1, <2>1
<1>3. Inv /\ SnapshotInv /\ [Next]_vars => SnapshotInv'
  BY SnapshotStep
<1>4. Init => SnapshotInv
  BY SnapshotInit
<1>5. QED
  BY <1>2, <1>3, <1>4, DashboardInvariant, PTL DEF Spec, RefreshHeals
=============================================================================
