----------------------------- MODULE MarksProofs -----------------------------
(***************************************************************************)
(* A mark lies in the directory of the session it names, none is forgotten,  *)
(* and the deep flag obeys the window: for any number of sessions, presses,  *)
(* toggles, deaths and faults.                                               *)
(***************************************************************************)
EXTENDS Marks, TLAPS

Writing == hand \in {"name", "shot", "write"}

\* The mutex makes one of the two variables of the session: they differ only while
\* viewState holds it, and the window's thread reads both while it holds it itself.
LockInv == /\ view = "named" <=> lock = "view"
           /\ Writing <=> lock = "hand"
           /\ view = "named" => picked = name
           /\ view # "named" => name = path
           /\ Writing => dir = path /\ dir # 0
           /\ hand \in {"shot", "write"} => session = dir

\* A mark in hand has a number, and a dead process holds none.
HandInv == /\ InMark => presses # 0
           /\ ~alive => hand = "idle" /\ view = "idle"

Inv == /\ TypeOK /\ LockInv /\ HandInv
       /\ MarksNameTheirSession /\ MarksAreKept /\ DeepIsFollowed

-----------------------------------------------------------------------------
\* No mark has been made and no flag is set.
LEMMA InvInit == ASSUME Init PROVE Inv
<1> 0 \in 0..MaxSessions /\ 0 \in 0..MaxPresses /\ 0 \in 0..MaxToggles
    /\ 0 \in 0..MaxDeaths /\ 0 \in 0..MaxFaults
  BY BoundsAssumption
<1>1. TypeOK
  BY DEF Init, TypeOK
<1>2. LockInv /\ HandInv /\ MarksNameTheirSession /\ MarksAreKept /\ DeepIsFollowed
  BY DEF Init, LockInv, HandInv, Writing, InMark, MarksNameTheirSession, MarksAreKept,
         DeepIsFollowed
<1>3. QED
  BY <1>1, <1>2 DEF Inv

\* The types are kept by every step, given where the hands are.
LEMMA TypedStep == ASSUME TypeOK, LockInv, HandInv, [Next]_vars PROVE TypeOK'
<1>a. InMark => presses \in Presses
  BY BoundsAssumption DEF TypeOK, HandInv, Presses
<1>b. Fault => faults' \in 0..MaxFaults
  BY BoundsAssumption DEF TypeOK, Fault
<1> USE BoundsAssumption DEF TypeOK, gui, mark, capture
<1>1. CASE UNCHANGED vars
  BY <1>1 DEF vars
<1>2. CASE NewSession
  BY <1>2 DEF NewSession
<1>3. CASE StartGUI
  BY <1>3 DEF StartGUI
<1>4. CASE GuiDies
  <2>1. lost' \subseteq Presses
    BY <1>4, <1>a DEF GuiDies
  <2>2. deaths' \in 0..MaxDeaths /\ 0 \in 0..MaxSessions
    BY <1>4 DEF GuiDies
  <2>3. QED
    BY <1>4, <2>1, <2>2 DEF GuiDies
<1>5. CASE ReadLatest
  BY <1>5 DEF ReadLatest
<1>6. CASE AttachName
  BY <1>6 DEF AttachName
<1>7. CASE AttachPath
  BY <1>7 DEF AttachPath
<1>8. ASSUME NEW action, PressMark(action) PROVE TypeOK'
  BY <1>8 DEF PressMark, KeyDown
<1>9. CASE PressDeep
  BY <1>9 DEF PressDeep, KeyDown
<1>10. CASE LoadPath
  <2>1. lost' \subseteq Presses
    BY <1>10, <1>a DEF LoadPath, InMark
  <2>2. QED
    BY <1>10, <2>1 DEF LoadPath
<1>11. CASE LoadName
  BY <1>11 DEF LoadName
<1>12. CASE TakeShot
  <2>1. images' \subseteq Presses
    BY <1>12, <1>a DEF TakeShot, InMark
  <2>2. faults' \in 0..MaxFaults
    BY <1>12, <1>b DEF TakeShot
  <2>3. QED
    BY <1>12, <2>1, <2>2 DEF TakeShot
<1>13. CASE WriteMark
  <2>1. presses \in Presses /\ dir \in Sessions
    BY <1>13, <1>a DEF WriteMark, InMark, LockInv, Writing, Sessions
  <2>2. marks' \subseteq [id : Presses, dir : Sessions, session : 0..MaxSessions]
    BY <1>13, <2>1 DEF WriteMark
  <2>3. lost' \subseteq Presses
    BY <1>13, <2>1 DEF WriteMark
  <2>4. faults' \in 0..MaxFaults
    BY <1>13, <1>b DEF WriteMark
  <2>5. QED
    BY <1>13, <2>2, <2>3, <2>4 DEF WriteMark
<1>14. CASE SetFlag
  <2>1. faults' \in 0..MaxFaults
    BY <1>14, <1>b DEF SetFlag
  <2>2. QED
    BY <1>14, <2>1 DEF SetFlag
<1>15. QED
  BY <1>1, <1>2, <1>3, <1>4, <1>5, <1>6, <1>7, <1>8, <1>9, <1>10, <1>11, <1>12, <1>13, <1>14
     DEF Next

\* So is the agreement of the mutex, the two variables and the hand.
LEMMA LockStep == ASSUME TypeOK, LockInv, HandInv, [Next]_vars PROVE LockInv' /\ HandInv'
<1> USE DEF TypeOK, LockInv, HandInv, Writing, InMark, gui, mark, capture
<1>1. CASE UNCHANGED vars
  BY <1>1 DEF vars
<1>2. CASE NewSession
  BY <1>2 DEF NewSession
<1>3. CASE StartGUI
  BY <1>3 DEF StartGUI
<1>4. CASE GuiDies
  BY <1>4 DEF GuiDies
<1>5. CASE ReadLatest
  BY <1>5 DEF ReadLatest
<1>6. CASE AttachName
  BY <1>6 DEF AttachName
<1>7. CASE AttachPath
  BY <1>7 DEF AttachPath
<1>8. ASSUME NEW action, PressMark(action) PROVE LockInv' /\ HandInv'
  BY <1>8 DEF PressMark, KeyDown
<1>9. CASE PressDeep
  BY <1>9 DEF PressDeep, KeyDown
<1>10. CASE LoadPath
  BY <1>10 DEF LoadPath
<1>11. CASE LoadName
  BY <1>11 DEF LoadName
<1>12. CASE TakeShot
  BY <1>12 DEF TakeShot
<1>13. CASE WriteMark
  BY <1>13 DEF WriteMark
<1>14. CASE SetFlag
  BY <1>14 DEF SetFlag
<1>15. QED
  BY <1>1, <1>2, <1>3, <1>4, <1>5, <1>6, <1>7, <1>8, <1>9, <1>10, <1>11, <1>12, <1>13, <1>14
     DEF Next

\* Only WriteMark adds a mark, and it holds the mutex.
LEMMA NamedStep ==
  ASSUME LockInv, MarksNameTheirSession, [Next]_vars
  PROVE MarksNameTheirSession'
<1>1. CASE WriteMark
  BY <1>1 DEF WriteMark, LockInv, MarksNameTheirSession
<1>2. CASE ~WriteMark
  <2>1. marks' = marks
    BY <1>2 DEF Next, vars, NewSession, StartGUI, GuiDies, ReadLatest, AttachName, AttachPath,
                PressMark, PressDeep, LoadPath, LoadName, TakeShot, SetFlag
  <2>2. QED
    BY <2>1 DEF MarksNameTheirSession
<1>3. QED
  BY <1>1, <1>2

\* A number given out is a mark in hand until it is on disk or lost.
LEMMA KeptStep ==
  ASSUME TypeOK, HandInv, MarksAreKept, [Next]_vars
  PROVE MarksAreKept'
<1> USE DEF MarksAreKept, InMark
<1>1. CASE UNCHANGED <<marks, lost, presses, hand>>
  BY <1>1
<1>2. CASE GuiDies
  BY <1>2 DEF GuiDies
<1>3. ASSUME NEW action, PressMark(action) PROVE MarksAreKept'
  BY <1>3 DEF PressMark, KeyDown, TypeOK
<1>4. CASE PressDeep \/ SetFlag
  <2>1. UNCHANGED <<marks, lost, presses>> /\ ~InMark
    BY <1>4 DEF PressDeep, KeyDown, SetFlag
  <2>2. QED
    BY <2>1
<1>5. CASE LoadPath
  BY <1>5 DEF LoadPath
<1>6. CASE LoadName \/ TakeShot
  BY <1>6 DEF LoadName, TakeShot
<1>7. CASE WriteMark
  <2>1. marks \subseteq marks' /\ lost \subseteq lost' /\ presses' = presses
    BY <1>7 DEF WriteMark
  <2>2. presses \in lost' \/ \E m \in marks' : m.id = presses
    <3> DEFINE new == [id |-> presses, dir |-> dir, session |-> session]
    <3>1. new.id = presses
      OBVIOUS
    <3>2. presses \in lost' \/ new \in marks'
      BY <1>7 DEF WriteMark
    <3>3. QED
      BY <3>1, <3>2
  <2>3. QED
    BY <2>1, <2>2
<1>8. CASE NewSession \/ StartGUI \/ ReadLatest \/ AttachName \/ AttachPath
  BY <1>1, <1>8 DEF NewSession, StartGUI, ReadLatest, AttachName, AttachPath
<1>9. CASE UNCHANGED vars
  BY <1>1, <1>9 DEF vars
<1>10. QED
  BY <1>2, <1>3, <1>4, <1>5, <1>6, <1>7, <1>8, <1>9 DEF Next

\* The flag is out of step with the window only between the two halves of a toggle.
LEMMA DeepStep ==
  ASSUME HandInv, DeepIsFollowed, [Next]_vars
  PROVE DeepIsFollowed'
<1> USE DEF DeepIsFollowed, capture
<1>1. CASE GuiDies \/ PressDeep \/ SetFlag
  BY <1>1 DEF GuiDies, PressDeep, SetFlag
<1>2. CASE UNCHANGED vars \/ NewSession \/ StartGUI \/ ReadLatest \/ AttachName \/ AttachPath
  BY <1>2 DEF vars, NewSession, StartGUI, ReadLatest, AttachName, AttachPath
<1>3. CASE LoadPath \/ LoadName \/ TakeShot \/ WriteMark
  BY <1>3 DEF LoadPath, LoadName, TakeShot, WriteMark
<1>4. ASSUME NEW action, PressMark(action) PROVE DeepIsFollowed'
  BY <1>4 DEF PressMark, KeyDown
<1>5. QED
  BY <1>1, <1>2, <1>3, <1>4 DEF Next

\* The invariant holds in every behaviour.
THEOREM MarksInvariant == Spec => []Inv
<1>1. Inv /\ [Next]_vars => Inv'
  BY TypedStep, LockStep, NamedStep, KeptStep, DeepStep DEF Inv
<1>2. QED
  BY InvInit, <1>1, PTL DEF Spec

\* Types of recordMarker, recordDeepToggle and viewState's attachment.
THEOREM MarksTyped == Spec => []TypeOK
BY MarksInvariant, PTL DEF Inv

\* recordMarker never files a mark under another session than the one it names, however
\* viewState interleaves.
THEOREM MarksAgree == Spec => []MarksNameTheirSession
BY MarksInvariant, PTL DEF Inv

\* recordMarker forgets no mark: neither a screen that cannot be copied nor a move to
\* another session costs one.
THEOREM NoMarkForgotten == Spec => []MarksAreKept
BY MarksInvariant, PTL DEF Inv

\* recordDeepToggle makes the flag of the worker equal to the window's.
THEOREM DeepObeys == Spec => []DeepIsFollowed
BY MarksInvariant, PTL DEF Inv
=============================================================================
