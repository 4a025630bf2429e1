------------------------------ MODULE Dashboard ------------------------------
(***************************************************************************)
(* What the user sees: from the worker's files to the texts of the window   *)
(* (viewState, update and snap of main_windows.go; refreshAllText,           *)
(* nativeText, nativeTab, wndproc and startGUI of gui_windows.go; ui_phase). *)
(*                                                                         *)
(* In a GUI process the viewState goroutine polls the files, one file per    *)
(* step, and changes the dashboard; the window's thread copies a snapshot    *)
(* of it into native controls when a timer or a message says so.  Setting a  *)
(* control may fail, Wine may refuse to create one, and the process may die  *)
(* and be started again in safe mode.  A handler of the window's thread is   *)
(* one step.  Of the fields GAME, PID, SESSION and STATE are kept, which     *)
(* come from the worker; those of the Android side are read and shown alike. *)
(***************************************************************************)
EXTENDS Locale, Naturals, FiniteSets

CONSTANTS MaxSessions,    \* bound: sessions of the run
          MaxMishaps      \* bound: refused controls, access violations in a GUI process,
                          \* failed writes and failed SetWindowText, taken together

ASSUME BoundsAssumption == {MaxSessions, MaxMishaps} \subseteq Nat

VARIABLES latest, disk,     \* latest-session.json, and each session.json
          finishedOk, marker, stop,           \* the signs of the end
          saved,            \* GPU-Lab.language
          missing,          \* controls that CreateWindow refuses under this Wine
          stage, safe,      \* the GUI process and its guiSafeMode
          dash,             \* the dashboard
          view, picked, meta,                 \* viewState: where it is, what it has read
          quit,             \* WM_CLOSE is queued
          tab,              \* activeTab: the page that is shown
          manual,           \* manualLanguage
          last, shown,      \* nativeField.last, and the text a control really has
          native,           \* guiNativeStatus, the read-back of ui-health.json
          stumbles, crashes, faults           \* deaths by a missing control; by Wine; errors

worker == <<latest, disk, finishedOk>>
reader == <<dash, view, picked, meta>>
paint == <<last, shown, native>>
process == <<stage, safe, stumbles, crashes>>
vars == <<latest, disk, finishedOk, marker, stop, saved, missing, stage, safe, dash, view, picked,
          meta, quit, tab, manual, last, shown, native, stumbles, crashes, faults>>

Sessions == 1..MaxSessions
NoText == <<>>

\* pageSlots: of the five pages the overview has GAME and PID but no STATE, the evidence
\* page has SESSION and STATE.
Pages == {"overview", "evidence"}
Controls == Pages \cup {"status", "title"}
States == {"AGUARDANDO", "GRAVANDO", "FINALIZADO", "FINALIZANDO", "FALHA NO MONITOR"}
NewDashboard == [session |-> 0, state |-> "AGUARDANDO", running |-> FALSE, done |-> FALSE]

\* renderCapturePhase
Phase(d) == IF d.done THEN "complete"
            ELSE IF d.running \/ d.state = "GRAVANDO" THEN "recording"
            ELSE IF d.session # 0 THEN "preparing" ELSE "waiting"

\* refreshAllText: the text of a control, by what it depends on.
TextOf(c, d, language) == CASE c = "status"   -> <<Phase(d), language>>
                            [] c = "title"    -> <<Phase(d), d.session, language>>
                            [] c = "overview" -> <<d.session, language>>
                            [] c = "evidence" -> <<d.session, d.state, language>>

TypeOK ==
  /\ latest \in 0..MaxSessions /\ disk \in [Sessions -> {"absent", "active", "finished"}]
  /\ finishedOk \in BOOLEAN /\ marker \in BOOLEAN /\ stop \in BOOLEAN
  /\ safe \in BOOLEAN /\ quit \in BOOLEAN
  /\ saved \in Choices \cup {"none", "empty"} /\ manual \in Choices
  /\ missing \subseteq Controls \ {"title"}
  /\ stage \in {"none", "starting", "pumping"}
  /\ dash \in [session : 0..MaxSessions, state : States, running : BOOLEAN, done : BOOLEAN]
  /\ view \in {"poll", "read", "show", "post", "over"}
  /\ picked \in 0..MaxSessions /\ meta \in {"absent", "active", "finished"}
  /\ tab \in Pages
  /\ DOMAIN last = Controls /\ DOMAIN shown = Controls
  /\ native \in {"UNAVAILABLE", "UNVERIFIED_SAFE_MODE", "readback"}
  /\ stumbles \in Nat /\ crashes \in 0..MaxMishaps /\ faults \in 0..MaxMishaps

\* The memory of a process that has not started, or is gone.
NoMemory(nDash, nView, nPicked, nMeta, nQuit, nTab, nLast, nShown, nNative) ==
  /\ nDash = NewDashboard /\ nView = "poll" /\ nPicked = 0 /\ nMeta = "absent"
  /\ nQuit = FALSE /\ nTab = "overview" /\ nNative = "UNAVAILABLE"
  /\ nLast = [c \in Controls |-> NoText] /\ nShown = [c \in Controls |-> NoText]

Init == /\ latest = 0 /\ disk = [s \in Sessions |-> "absent"]
        /\ finishedOk = FALSE /\ marker = FALSE /\ stop = FALSE
        /\ saved = "none" /\ manual = "auto"
        /\ missing \in SUBSET (Controls \ {"title"}) /\ Cardinality(missing) <= MaxMishaps
        /\ stage = "none" /\ safe = FALSE
        /\ NoMemory(dash, view, picked, meta, quit, tab, last, shown, native)
        /\ stumbles = 0 /\ crashes = 0 /\ faults = 0

Mishap == crashes + faults + Cardinality(missing) < MaxMishaps
Fault == Mishap /\ faults' = faults + 1
RunIsOver == stop \/ marker \/ finishedOk

-----------------------------------------------------------------------------
(* The worker and the controller, by the files they write                    *)

\* observeSession names the session, writes its session.json, and writes it again at the
\* end; a write that fails leaves it as it was.
Announce == /\ latest < MaxSessions /\ latest' = latest + 1
            /\ \/ (latest \in Sessions => disk[latest] = "finished") /\ UNCHANGED faults
               \/ latest \in Sessions /\ disk[latest] # "finished" /\ Fault
            /\ UNCHANGED disk
Record == /\ latest \in Sessions
          /\ \/ disk[latest] = "absent" /\ disk' = [disk EXCEPT ![latest] = "active"]
             \/ disk[latest] = "active" /\ disk' = [disk EXCEPT ![latest] = "finished"]
          /\ UNCHANGED <<latest, faults>>
Outside == /\ \/ (Announce \/ Record) /\ ~finishedOk /\ ~marker /\ UNCHANGED <<finishedOk, marker>>
              \/ ~finishedOk /\ ~marker /\ finishedOk' = TRUE
                 /\ UNCHANGED <<latest, disk, marker, faults>>
              \/ ~marker /\ marker' = TRUE /\ UNCHANGED <<latest, disk, finishedOk, faults>>
           /\ UNCHANGED <<stop, saved, missing, process, reader, quit, tab, manual, paint>>

-----------------------------------------------------------------------------
(* viewState                                                                 *)

\* worker-exited.marker is looked for before finished.ok.  finished is set with the step
\* to "post", before WM_CLOSE is posted.  Nothing else happens between a look that finds
\* no end and the read of latest-session.json.
Poll == /\ view = "poll"
        /\ picked' = IF RunIsOver THEN picked ELSE latest
        /\ view' = IF RunIsOver THEN "post" ELSE IF latest = 0 THEN "poll" ELSE "read"
        /\ dash' = IF marker /\ ~stop THEN [dash EXCEPT !.state = "FALHA NO MONITOR"] ELSE dash
        /\ UNCHANGED <<meta, quit>>
PostClose == /\ view = "post"
             /\ view' = "over"
             /\ quit' = (quit \/ stage = "pumping")
             /\ UNCHANGED <<dash, picked, meta>>
ReadSession == /\ view = "read"
               /\ IF disk[picked] = "absent"
                  THEN view' = "poll" /\ picked' = 0 /\ UNCHANGED meta
                  ELSE view' = "show" /\ meta' = disk[picked] /\ UNCHANGED picked
               /\ UNCHANGED <<dash, quit>>
Attached(s) == [session |-> s, running |-> meta = "active", done |-> meta = "finished",
                state |-> IF meta = "active" THEN "GRAVANDO" ELSE "FINALIZADO"]
RereadingShow ==                    \* seeded defect: latest-session.json is read again
  /\ view = "show"
  /\ dash' = Attached(latest)
  /\ view' = "poll" /\ picked' = 0 /\ meta' = "absent"
  /\ UNCHANGED quit
Show == /\ view = "show"
        /\ dash' = Attached(picked)
        /\ view' = "poll" /\ picked' = 0 /\ meta' = "absent"
        /\ UNCHANGED quit

ViewState == /\ stage # "none"
             /\ Poll \/ PostClose \/ ReadSession \/ Show
             /\ UNCHANGED <<worker, marker, stop, saved, missing, process, tab, manual, paint,
                            faults>>

-----------------------------------------------------------------------------
(* The window's thread                                                       *)

\* refreshAllText: the header, the title and the page, from one snapshot.  A text is set
\* only if it differs from the last one that was set (nativeText); a set may fail.
Stale(d, page, language) == {c \in {"status", "title", page} \ missing :
                               last[c] # TextOf(c, d, language)}
Updated(texts, changed, d, language) ==
  [c \in Controls |-> IF c \in changed THEN TextOf(c, d, language) ELSE texts[c]]
HastyPaint(page, language, failed) ==      \* seeded defect: f.last is set before the call
  LET stale == Stale(dash, page, language)
  IN  /\ failed \subseteq stale
      /\ last' = Updated(last, stale, dash, language)
      /\ shown' = Updated(shown, stale \ failed, dash, language)
      /\ native' = IF safe THEN "UNVERIFIED_SAFE_MODE" ELSE "readback"
Paint(page, language, failed) ==
  LET stale == Stale(dash, page, language)
  IN  /\ failed \subseteq stale
      /\ last' = Updated(last, stale \ failed, dash, language)
      /\ shown' = Updated(shown, stale \ failed, dash, language)
      /\ native' = IF safe THEN "UNVERIFIED_SAFE_MODE" ELSE "readback"
RefreshAllText(page) ==
  \/ Paint(page, UILanguage(manual), {}) /\ UNCHANGED faults
  \/ Fault /\ \E c \in Controls : Paint(page, UILanguage(manual), {c})

\* The process ends; what it had in memory is gone.
ProcessEnds == /\ stage' = "none"
               /\ NoMemory(dash', view', picked', meta', quit', tab', last', shown', native')
               /\ UNCHANGED <<worker, marker, saved, missing, safe, manual>>

\* createNative leaves out what CreateWindow refuses.  Outside safe mode the refresh at
\* the end reads back two controls without asking whether they exist: the process dies.
ReadBack == {"status", "overview"}
BlindUIControls ==                  \* seeded defect: safe mode reads them back as well
  /\ stage = "starting"
  /\ \/ /\ missing \cap ReadBack # {}
        /\ stumbles' = stumbles + 1 /\ ProcessEnds
        /\ UNCHANGED <<stop, crashes, faults>>
     \/ /\ missing \cap ReadBack = {}
        /\ stage' = "pumping" /\ quit' = (view \in {"post", "over"})
        /\ RefreshAllText("overview")
        /\ UNCHANGED <<worker, marker, stop, saved, missing, safe, stumbles, crashes, reader, tab,
                       manual>>
CreateUIControls ==
  /\ stage = "starting"
  /\ \/ /\ ~safe /\ missing \cap ReadBack # {}
        /\ stumbles' = stumbles + 1 /\ ProcessEnds
        /\ UNCHANGED <<stop, crashes, faults>>
     \/ /\ safe \/ missing \cap ReadBack = {}
        /\ stage' = "pumping" /\ quit' = (view \in {"post", "over"})
        /\ RefreshAllText("overview")
        /\ UNCHANGED <<worker, marker, stop, saved, missing, safe, stumbles, crashes, reader, tab,
                       manual>>

\* What a handler of a standing window leaves alone.
InWindow == /\ stage = "pumping"
            /\ UNCHANGED <<worker, marker, missing, process, quit, view, picked, meta>>

\* WM_TIMER every 1.2 s, and WM_APP_REFRESH when repaint has posted one: a change within
\* 180 ms of the last posts nothing.
Refresh == /\ InWindow
           /\ RefreshAllText(tab)
           /\ UNCHANGED <<stop, saved, dash, tab, manual>>

\* nativeTab, from a click on a tab or the shortcut: the controls of the page are shown,
\* those of the others hidden, and all is refreshed.
UnrefreshedTab(page) ==                 \* seeded defect: the page is shown as it was left
  /\ InWindow
  /\ tab' = page
  /\ UNCHANGED <<stop, saved, dash, manual, paint, faults>>
NativeTab(page) == /\ InWindow
                   /\ tab' = page
                   /\ RefreshAllText(page)
                   /\ UNCHANGED <<stop, saved, dash, manual>>

\* chooseUILanguage, from an entry of the menu.  GPU-Lab.language is not replaced
\* atomically: a failed write leaves it as it was, or empty.  The handler refreshes twice,
\* so that a set which fails once is made good at once.
ChooseUILanguage(v) == /\ InWindow /\ manual' = v
                       /\ \/ saved' = v /\ UNCHANGED faults
                          \/ saved' \in {saved, "empty"} /\ Fault
                       /\ Paint(tab, UILanguage(v), {})
                       /\ UNCHANGED <<stop, dash, tab>>

\* shortcutAction "stop".  viewState, if it is past its look at stop.request, writes
\* another STATE over this one.
StopShortcut == /\ InWindow
                /\ stop' = TRUE
                /\ dash' = [dash EXCEPT !.state = "FINALIZANDO"]
                /\ UNCHANGED <<saved, tab, manual, paint, faults>>

\* WM_CLOSE, posted by viewState or asked for by the user: until viewState has seen the
\* end, it also stops the monitor.
WindowClosed == /\ stage = "pumping"
                /\ ProcessEnds
                /\ stop' = (stop \/ view \notin {"post", "over"})
                /\ UNCHANGED <<stumbles, crashes, faults>>
CloseWindow == quit /\ WindowClosed
UserCloses == ~quit /\ WindowClosed

-----------------------------------------------------------------------------
(* The process                                                               *)

\* startChild: every GUI after the first runs in safe mode (the first one as well if the
\* tester asks for it, which adds nothing here).
StartGUI == /\ stage = "none" /\ ~RunIsOver
            /\ stage' = "starting"
            /\ safe' = (crashes + stumbles > 0)
            /\ manual' = ChosenAtStart(saved)
            /\ UNCHANGED <<worker, marker, stop, saved, missing, reader, quit, tab, paint, stumbles,
                           crashes, faults>>
Crash == /\ stage # "none"
         /\ Mishap /\ crashes' = crashes + 1
         /\ ProcessEnds
         /\ UNCHANGED <<stop, stumbles, faults>>

Next == \/ Outside \/ ViewState \/ StartGUI \/ Crash
        \/ CreateUIControls \/ Refresh \/ StopShortcut \/ CloseWindow \/ UserCloses
        \/ \E page \in Pages : NativeTab(page)
        \/ \E v \in Choices : ChooseUILanguage(v)

Spec == Init /\ [][Next]_vars
-----------------------------------------------------------------------------
\* What the user sees at any moment comes from one snapshot and is in one language,
\* whatever pages and languages were chosen since: the header, the title bar and the one
\* visible page agree (FINALIZANDO and the failure of the monitor are no phases).
Language(text) == text[Len(text)]
OneSnapshot(status, title, page) ==
  /\ status[1] = title[1]
  /\ page[1] = title[2]
  /\ tab = "evidence" /\ page[2] = "AGUARDANDO" => status[1] = "waiting"
  /\ tab = "evidence" /\ page[2] = "GRAVANDO" => status[1] = "recording"
  /\ tab = "evidence" /\ page[2] = "FINALIZADO" => status[1] = "complete"
WindowIsOneSnapshot ==
  stage = "pumping" /\ faults = 0 /\ missing = {} =>
    /\ \A c \in {"status", "title", tab} :
         shown[c] # NoText /\ Language(shown[c]) = UILanguage(manual)
    /\ OneSnapshot(shown["status"], shown["title"], shown[tab])

\* The title never calls a session complete that the worker has not closed on disk, and
\* "reporting MUST NOT pretend readbacks occurred": the status that ui-health.json copies
\* is no read-back in safe mode.
CompleteIsTrue == stage = "pumping" /\ shown["title"] # NoText =>
                    (shown["title"][1] = "complete" => disk[shown["title"][2]] = "finished")
ReportsAreTrue == CompleteIsTrue /\ (safe => native # "readback")

\* A GUI that died is replaced by one that stays: a control that cannot be made kills at
\* most one process; and the language of the user is the one of the file, so that a crash
\* keeps it, unless the file could not be written.
RecoveryIsSafe ==
  /\ stumbles <= 1
  /\ faults = 0 /\ stage # "none" => manual = ChosenAtStart(saved)

\* A text that could not be set does not stay wrong, nor is it forgotten when the page
\* changes: the next refresh in which nothing fails (the timer's, at the latest) leaves every
\* control of the page with what the dashboard says then, whatever failed before it.
RefreshHeals ==
  [][(Refresh \/ \E page \in Pages : NativeTab(page)) /\ faults' = faults =>
       \A c \in {"status", "title", tab'} \ missing :
         shown'[c] = TextOf(c, dash, UILanguage(manual))]_vars
=============================================================================
