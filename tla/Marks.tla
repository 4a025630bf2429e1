-------------------------------- MODULE Marks --------------------------------
(***************************************************************************)
(* The shortcuts that leave a trace in the session: marker, screenshot and   *)
(* deep capture (recordMarker and recordDeepToggle of main_windows.go,       *)
(* shortcutAction and desktopScreenshot of gui_windows.go,                   *)
(* key_shortcuts.go), against the viewState goroutine, which moves the       *)
(* window to the next session, and against the death of the GUI process.     *)
(*                                                                         *)
(* currentSession and sessionPath are two variables behind markerMu.  A      *)
(* session is its number; 0 is none.                                         *)
(***************************************************************************)
EXTENDS Naturals, FiniteSets

CONSTANTS MaxSessions,    \* bound: sessions of the run
          MaxPresses,     \* bound: marker and screenshot shortcuts
          MaxToggles,     \* bound: deep shortcuts
          MaxDeaths,      \* bound: deaths of a GUI process
          MaxFaults       \* bound: files that cannot be written, screens not copied

ASSUME BoundsAssumption ==
  /\ MaxSessions \in Nat /\ MaxPresses \in Nat /\ MaxToggles \in Nat
  /\ MaxDeaths \in Nat /\ MaxFaults \in Nat

VARIABLES latest,             \* latest-session.json
          alive,              \* a GUI process runs
          lock,               \* markerMu: "free", or who holds it
          view, picked,       \* viewState: where it is, the session it has read
          name, path,         \* currentSession, sessionPath
          hand,               \* where the window's thread is in a shortcut
          shot, dir, session, \* its kind, its directory and the name it writes
          marks, images,      \* markers/*.json and screenshots/*.bmp
          presses, lost,      \* marks asked for, and those of them that left nothing: auxiliary
          deep, flag,         \* dashboard.Deep, deep-capture.flag
          toggled, unwritten, \* since this GUI started: deep used, flag not written: auxiliary
          toggles, deaths, faults

gui == <<view, picked, name, path>>
mark == <<shot, dir, session>>
capture == <<deep, flag, toggled, unwritten, toggles>>
vars == <<latest, alive, lock, view, picked, name, path, hand, shot, dir, session, marks,
          images, presses, lost, deep, flag, toggled, unwritten, toggles, deaths, faults>>

Sessions == 1..MaxSessions
Presses == 1..MaxPresses

TypeOK == /\ latest \in 0..MaxSessions /\ alive \in BOOLEAN
          /\ lock \in {"free", "view", "hand"}
          /\ view \in {"idle", "lock", "named"} /\ picked \in 0..MaxSessions
          /\ name \in 0..MaxSessions /\ path \in 0..MaxSessions
          /\ hand \in {"idle", "lock", "name", "shot", "write", "flag"}
          /\ shot \in BOOLEAN /\ dir \in 0..MaxSessions /\ session \in 0..MaxSessions
          /\ marks \subseteq [id : Presses, dir : Sessions, session : 0..MaxSessions]
          /\ images \subseteq Presses /\ lost \subseteq Presses
          /\ presses \in 0..MaxPresses /\ toggles \in 0..MaxToggles
          /\ deep \in BOOLEAN /\ flag \in BOOLEAN
          /\ toggled \in BOOLEAN /\ unwritten \in BOOLEAN
          /\ deaths \in 0..MaxDeaths /\ faults \in 0..MaxFaults

Init == /\ latest = 0 /\ alive = FALSE /\ lock = "free"
        /\ view = "idle" /\ picked = 0 /\ name = 0 /\ path = 0
        /\ hand = "idle" /\ shot = FALSE /\ dir = 0 /\ session = 0
        /\ marks = {} /\ images = {} /\ presses = 0 /\ lost = {}
        /\ deep = FALSE /\ flag = FALSE /\ toggled = FALSE /\ unwritten = FALSE
        /\ toggles = 0 /\ deaths = 0 /\ faults = 0

Fault == faults < MaxFaults /\ faults' = faults + 1

-----------------------------------------------------------------------------
(* The worker names a session; the GUI process starts and dies               *)

NewSession == /\ latest < MaxSessions /\ latest' = latest + 1
              /\ UNCHANGED <<alive, lock, gui, hand, mark, marks, images, presses, lost, capture,
                             deaths, faults>>

\* A new process knows nothing of the flag that an earlier one has left.
StartGUI == /\ ~alive
            /\ alive' = TRUE
            /\ UNCHANGED <<latest, lock, gui, hand, mark, marks, images, presses, lost, capture,
                           deaths, faults>>
InMark == hand \in {"lock", "name", "shot", "write"}
GuiDies == /\ alive /\ deaths < MaxDeaths /\ deaths' = deaths + 1
           /\ alive' = FALSE /\ lock' = "free"
           /\ view' = "idle" /\ picked' = 0 /\ name' = 0 /\ path' = 0
           /\ hand' = "idle" /\ shot' = FALSE /\ dir' = 0 /\ session' = 0
           /\ lost' = IF InMark THEN lost \cup {presses} ELSE lost
           /\ deep' = FALSE /\ toggled' = FALSE /\ unwritten' = FALSE
           /\ UNCHANGED <<latest, marks, images, presses, flag, toggles, faults>>

-----------------------------------------------------------------------------
(* viewState attaches the window to the session it has read                  *)

ReadLatest == /\ alive /\ view = "idle" /\ latest # 0
              /\ picked' = latest /\ view' = "lock"
              /\ UNCHANGED <<latest, alive, lock, name, path, hand, mark, marks, images, presses,
                             lost, capture, deaths, faults>>
AttachName == /\ alive /\ view = "lock" /\ lock = "free"
              /\ lock' = "view" /\ name' = picked /\ view' = "named"
              /\ UNCHANGED <<latest, alive, picked, path, hand, mark, marks, images, presses,
                             lost, capture, deaths, faults>>
AttachPath == /\ alive /\ view = "named"
              /\ lock' = "free" /\ path' = picked /\ view' = "idle" /\ picked' = 0
              /\ UNCHANGED <<latest, alive, name, hand, mark, marks, images, presses, lost,
                             capture, deaths, faults>>

-----------------------------------------------------------------------------
(* The window's thread                                                       *)

\* optionalShortcut, for WM_KEYDOWN: no key is ever registered globally
\* (setupGlobalHotkeys), so WM_HOTKEY never doubles one.  The panel and the stop of
\* Ctrl+A and Ctrl+E leave no trace in the session.
Shortcut(key, ctrl) == CASE ~ctrl      -> "none"
                         [] key = "B"  -> "marker"
                         [] key = "C"  -> "deep"
                         [] key = "D"  -> "screenshot"
                         [] OTHER      -> "none"
KeyDown(action) == /\ alive /\ hand = "idle"
                   /\ \E key \in {"A", "B", "C", "D", "E"}, ctrl \in BOOLEAN :
                        Shortcut(key, ctrl) = action

PressMark(action) == /\ KeyDown(action)
                     /\ presses < MaxPresses /\ presses' = presses + 1
                     /\ shot' = (action = "screenshot") /\ hand' = "lock"
                     /\ UNCHANGED <<latest, alive, lock, gui, dir, session, marks, images, lost,
                                    capture, deaths, faults>>

\* recordMarker takes the mutex and keeps it until the mark is written, the copy of the
\* screen included; before the first session there is nothing to mark.
UnlockedLoadPath ==                 \* seeded defect: the mutex is not taken
  /\ hand = "lock"
  /\ dir' = path
  /\ \/ path = 0 /\ hand' = "idle" /\ lost' = lost \cup {presses}
     \/ path # 0 /\ hand' = "name" /\ UNCHANGED lost
  /\ UNCHANGED <<latest, alive, lock, gui, shot, session, marks, images, presses, capture,
                 deaths, faults>>
LoadPath == /\ hand = "lock" /\ lock = "free"
            /\ dir' = path
            /\ \/ path = 0 /\ hand' = "idle" /\ lost' = lost \cup {presses} /\ UNCHANGED lock
               \/ path # 0 /\ hand' = "name" /\ lock' = "hand" /\ UNCHANGED lost
            /\ UNCHANGED <<latest, alive, gui, shot, session, marks, images, presses, capture,
                           deaths, faults>>
LoadName == /\ hand = "name"
            /\ session' = name
            /\ hand' = IF shot THEN "shot" ELSE "write"
            /\ UNCHANGED <<latest, alive, lock, gui, shot, dir, marks, images, presses, lost,
                           capture, deaths, faults>>

\* desktopScreenshot: without a copy of the screen there is no file, and the mark says so.
ImpatientTakeShot ==                \* seeded defect: no mark without an image
  /\ hand = "shot"
  /\ \/ images' = images \cup {presses} /\ hand' = "write" /\ UNCHANGED <<lock, faults>>
     \/ Fault /\ hand' = "idle" /\ lock' = "free" /\ UNCHANGED images
  /\ UNCHANGED <<latest, alive, gui, mark, marks, presses, lost, capture, deaths>>
TakeShot == /\ hand = "shot"
            /\ \/ images' = images \cup {presses} /\ UNCHANGED faults
               \/ Fault /\ UNCHANGED images
            /\ hand' = "write"
            /\ UNCHANGED <<latest, alive, lock, gui, mark, marks, presses, lost, capture, deaths>>
WriteMark == /\ hand = "write"
             /\ \/ /\ marks' = marks \cup {[id |-> presses, dir |-> dir, session |-> session]}
                   /\ UNCHANGED <<lost, faults>>
                \/ lost' = lost \cup {presses} /\ Fault /\ UNCHANGED marks
             /\ hand' = "idle" /\ lock' = "free"
             /\ UNCHANGED <<latest, alive, gui, mark, images, presses, capture, deaths>>

\* shortcutAction "deep" changes the dashboard; recordDeepToggle then makes the flag, which
\* is what the worker sees, equal to it (its line in events.jsonl changes nothing here).
PressDeep == /\ KeyDown("deep")
             /\ toggles < MaxToggles /\ toggles' = toggles + 1
             /\ deep' = ~deep /\ toggled' = TRUE /\ hand' = "flag"
             /\ UNCHANGED <<latest, alive, lock, gui, mark, marks, images, presses, lost, flag,
                            unwritten, deaths, faults>>
FlippedFlag ==                      \* seeded defect: the flag is flipped, not set
  /\ hand = "flag"
  /\ \/ flag' = ~flag /\ unwritten' = FALSE /\ UNCHANGED faults
     \/ unwritten' = TRUE /\ Fault /\ UNCHANGED flag
  /\ hand' = "idle"
  /\ UNCHANGED <<latest, alive, lock, gui, mark, marks, images, presses, lost, deep, toggled,
                 toggles, deaths>>
SetFlag == /\ hand = "flag"
           /\ \/ flag' = deep /\ unwritten' = FALSE /\ UNCHANGED faults
              \/ unwritten' = TRUE /\ Fault /\ UNCHANGED flag
           /\ hand' = "idle"
           /\ UNCHANGED <<latest, alive, lock, gui, mark, marks, images, presses, lost, deep,
                          toggled, toggles, deaths>>

Next == \/ NewSession \/ StartGUI \/ GuiDies
        \/ ReadLatest \/ AttachName \/ AttachPath
        \/ PressMark("marker") \/ PressMark("screenshot") \/ PressDeep
        \/ LoadPath \/ LoadName \/ TakeShot \/ WriteMark \/ SetFlag

Spec == Init /\ [][Next]_vars

-----------------------------------------------------------------------------
\* A mark names the session in whose directory it lies, although viewState replaces the
\* name and the directory one after the other while the user presses keys.
MarksNameTheirSession == \A m \in marks : m.session = m.dir

\* Every mark the user asked for is on disk, or being made, or was asked for before the
\* first session, or could not be written, or died with the process: a screen that cannot
\* be copied costs the image only.
MarksAreKept == \A id \in 1..presses :
                  \/ \E m \in marks : m.id = id
                  \/ id \in lost
                  \/ InMark /\ id = presses

\* Once the user has used the shortcut in a GUI process, the flag the worker obeys is the
\* one the window stands for, whatever an earlier process left, unless its last write
\* failed.
DeepIsFollowed == toggled /\ hand # "flag" /\ ~unwritten => flag = deep
=============================================================================
