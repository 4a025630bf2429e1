--------------------------- MODULE CollectorProofs ---------------------------
(***************************************************************************)
(* No session is forgotten by a normal end, the RETURN tells the truth and   *)
(* survives one failure: for any sessions and any number of failures and     *)
(* interrupts.                                                               *)
(***************************************************************************)
EXTENDS Collector, WellFoundedInduction, TLAPS

Looping == {"start", "tick", "markers", "fallback", "stale", "except"}
Closing == {"finalize", "nogame", "return", "pour", "confirm", "emergency", "finish"}
Trouble == faults + interrupts >= 1
Twice == faults + interrupts >= 2
Begun == {s \in Own : win[s] # "absent"}

\* guarded_finalize is entered once; a second time after a Ctrl-C, or when the loop went on
\* after a stale heartbeat.  In an except clause nothing else can be raised and caught.
ControlInv ==
  /\ pc \in Looping => ~inFinal
  /\ pc \in Closing => inFinal
  /\ inFinal => rounds # "none"
  /\ ~inFinal /\ caught = "none" => /\ rounds # "first"
                                    /\ reason \in {"none", "STALE", "START"}
  /\ caught # "none" /\ pc \notin {"except", "end"} =>
       inFinal /\ reason \in {"INTERRUPT", "EXCEPTION"}
  /\ pc = "except" => caught # "none"
  /\ pc = "except" /\ caught = "error" => rounds # "first"

\* What is recorded has been published and copied, and belongs to this run; what is left
\* to visit is neither archived nor being archived.
EvidenceInv ==
  /\ todo \subseteq Begun \ archived
  /\ pc \in Archiving => cur \in Begun \ (archived \cup todo)
  /\ pc \in {"copy", "record", "note"} => cur \in zip
  /\ pc \in {"record", "note"} => cur \in physical
  /\ pc = "note" => cur \in record
  /\ archived \subseteq record
  /\ record \subseteq zip \cap physical \cap Begun
  /\ ReturnIsTruthful

\* An archive of a session that is not archived comes of an attempt that failed, so
\* without a failure pack_immutable never meets one.
InHand == IF pc \in {"copy", "record", "note"} THEN {cur} ELSE {}
TroubleInv == /\ Trouble \/ zip \subseteq archived \cup InHand
              /\ caught # "none" => Trouble

\* A RETURN that is not whole, outside the copy itself, had something go wrong; where the
\* host may end, one is there or two things went wrong.
Safe == emergency \/ Twice
ReturnInv ==
  /\ pc = "pour" => ret = "truncated"
  /\ pc = "confirm" => ret = "whole"
  /\ ret = "truncated" => pc = "pour" \/ Trouble
  /\ pc = "emergency" => Trouble
  /\ rounds = "later" /\ caught # "interrupt" =>
       Safe \/ (ret = "whole" /\ pc \notin {"pour", "confirm"})
  /\ pc = "finish" \/ (pc = "end" /\ reason # "START") => Safe \/ ret = "whole"

\* In the first finalization every recorded session that is not archived is still to be
\* tried, until each has failed; from there on nothing is recorded.
NoGameInv ==
  /\ noGame = "recorded" => rounds # "none"
  /\ inFinal /\ pc \in {"visit", "report"} => record \subseteq archived \cup failed \cup todo
  /\ inFinal /\ pc \in Archiving => record \subseteq archived \cup failed \cup todo \cup {cur}
  /\ pc = "nogame" => record \subseteq archived \cup failed
  /\ noGame = "recorded" /\ rounds # "later" =>
       record \subseteq failed /\ pc \in (Closing \ {"finalize", "nogame"}) \cup {"except", "end"}

\* After finished.ok no session begins, and each one is archived, has failed, or is
\* still on the list.
Owed == Begun \ (archived \cup failed)
Normal == reason = "WINDOWS_FINISHED" /\ caught = "none" /\ ~cut
LeftInv ==
  /\ finishedOk => worker = "done"
  /\ Normal =>
       /\ finishedOk
       /\ pc \in {"visit", "report"} => Owed \subseteq todo
       /\ pc \in Archiving => Owed \subseteq todo \cup {cur}
       /\ pc \in (Closing \ {"finalize"}) \cup {"end"} => Owed = {}

Inv == /\ TypeOK /\ ControlInv /\ EvidenceInv /\ TroubleInv /\ ReturnInv /\ NoGameInv
       /\ LeftInv

-----------------------------------------------------------------------------
(* The order of the names.                                                   *)

\* The order of the natural numbers is well founded.
LEMMA OrderOfNat ==
  \E R : IsWellFoundedOn(R, Nat) /\ \A x, y \in Nat : <<y, x>> \in R <=> y < x
<1> DEFINE R == OpToRel(<, Nat)
<1>1. \A x, y \in Nat : <<y, x>> \in R <=> y < x
  BY DEF OpToRel
<1>2. IsWellFoundedOn(R, Nat)
  BY ONLY NatLessThanWellFounded DEF R
<1>3. QED
  BY <1>1, <1>2

\* A nonempty set of natural numbers has a least element.
LEMMA LeastOf == ASSUME NEW S \in SUBSET Nat, S # {} PROVE \E m \in S : \A y \in S : m <= y
<1>1. PICK R : IsWellFoundedOn(R, Nat) /\ \A x, y \in Nat : <<y, x>> \in R <=> y < x
  BY ONLY OrderOfNat
<1>2. PICK m \in S : \A y \in S : ~(<<y, m>> \in R)
  BY ONLY <1>1, WFMin, S \subseteq Nat, S # {}
<1>3. ASSUME NEW y \in S PROVE m <= y
  <2>1. m \in Nat /\ y \in Nat /\ ~(<<y, m>> \in R)
    BY <1>2
  <2>2. ~(y < m)
    BY ONLY <1>1, <2>1
  <2>3. QED
    BY ONLY <2>1, <2>2
<1>4. QED
  BY <1>3

\* The next session to visit is one of those listed.
LEMMA FirstIsListed == ASSUME todo \subseteq Sids, todo # {} PROVE First \in todo
<1>1. todo \in SUBSET Nat
  BY SidsAssumption
<1>2. PICK m \in todo : \A y \in todo : m <= y
  BY <1>1, LeastOf
<1>3. QED
  BY <1>2 DEF First, Min

-----------------------------------------------------------------------------
\* The run begins with no archive, no record and no RETURN.
LEMMA InvInit == ASSUME Init PROVE Inv
<1>1. TypeOK
  <2>1. 0 \in 0..MaxFaults /\ 0 \in 0..MaxInterrupts
    BY BoundsAssumption
  <2>2. QED
    BY <2>1, KindsAssumption DEF Init, TypeOK, Archiving
<1>2. ControlInv /\ NoGameInv /\ LeftInv
  BY DEF Init, ControlInv, Looping, Closing, NoGameInv, LeftInv, Normal, Archiving
<1>3. EvidenceInv /\ ReturnInv /\ TroubleInv
  BY DEF Init, EvidenceInv, Archiving, ReturnIsTruthful, ReturnInv, TroubleInv
<1>4. QED
  BY <1>1, <1>2, <1>3 DEF Inv

-----------------------------------------------------------------------------
(* Failures, and the steps of archive_session.                               *)

\* What an error in a step of tick or finalize leaves behind it.
Struck ==
  /\ cur' = NoSid
  /\ \/ /\ inFinal /\ pc' = "report" /\ failed' = failed \cup {cur}
        /\ UNCHANGED <<todo, inFinal, reason, rounds, error, cut, caught>>
     \/ /\ ~inFinal /\ todo' = {}
        /\ UNCHANGED <<inFinal, reason, rounds, error, cut, failed>>
        /\ \/ pc' = "report" /\ caught' = caught
           \/ pc' = "except" /\ caught' = "error"

\* Whatever raises, it is one of these.
LEMMA RaisedStrikes ==
  ASSUME TypeOK, NEW fatal \in BOOLEAN, Raised(fatal)
  PROVE  Struck /\ (~fatal => caught' = caught)
BY DEF TypeOK, Raised, Throw, Leave, Struck, final

\* A failing operation counts as one.
LEMMA StepFailsStrikes ==
  ASSUME TypeOK, StepFails PROVE Struck /\ faults' = faults + 1
<1>1. PICK fatal \in BOOLEAN : Raised(fatal)
  BY DEF StepFails
<1>2. QED
  BY <1>1, RaisedStrikes DEF StepFails, Fault

\* The steps of archive_session and of its caller.
ArchiveStep == Build \/ Pack \/ CopyEvidence \/ Record \/ Note

\* Each goes on with the same session, ends with its record noted, or is struck by an
\* error; without a failure only an unexpected name or an earlier archive strikes.
LEMMA ArchivingSteps ==
  ASSUME TypeOK, ArchiveStep
  PROVE  /\ pc \in Archiving
         /\ UNCHANGED <<returns, windows, noGame, interrupts>>
         /\ \/ /\ UNCHANGED <<todo, cur, final, caught, archived, faults>>
               /\ \/ /\ pc = "build" /\ pc' = "pack"
                     /\ UNCHANGED <<zip, physical, record>>
                  \/ /\ pc = "pack" /\ pc' = "copy" /\ zip' = zip \cup {cur}
                     /\ UNCHANGED <<physical, record>>
                  \/ /\ pc = "copy" /\ pc' = "record" /\ physical' = physical \cup {cur}
                     /\ UNCHANGED <<zip, record>>
                  \/ /\ pc = "record" /\ pc' = "note" /\ record' = record \cup {cur}
                     /\ UNCHANGED <<zip, physical>>
            \/ /\ pc = "note" /\ pc' = "visit" /\ cur' = NoSid
               /\ archived' = archived \cup {cur}
               /\ UNCHANGED <<todo, final, caught, zip, physical, record, faults>>
            \/ /\ Struck /\ UNCHANGED <<physical, record>>
               /\ \/ /\ faults' = faults + 1 /\ zip' \in {zip, zip \cup {cur}}
                     /\ archived' = archived
                  \/ /\ faults' = faults + 1 /\ UNCHANGED zip
                     /\ pc = "note" /\ archived' = archived \cup {cur}
                  \/ /\ faults' = faults /\ UNCHANGED <<zip, archived>>
                     /\ \/ pc = "build" /\ caught' = caught
                        \/ pc = "pack" /\ cur \in zip
<1> USE DEF archiving, windows, files, returns, GoOn, Archiving
<1>f. StepFails => Struck /\ faults' = faults + 1
  BY StepFailsStrikes
<1>r. Raised(FALSE) => Struck /\ caught' = caught
  BY RaisedStrikes
<1>1. CASE Build
  BY <1>1, <1>f, <1>r DEF Build
<1>2. CASE Pack
  <2>1. (\E truncated \in BOOLEAN : Raised(truncated)) => Struck
    BY RaisedStrikes
  <2>2. QED
    BY <1>2, <1>f, <2>1 DEF Pack
<1>3. CASE CopyEvidence
  BY <1>3, <1>f DEF CopyEvidence
<1>4. CASE Record
  BY <1>4, <1>f DEF Record
<1>5. CASE Note
  <2>1. Fault /\ Raised(FALSE) => Struck /\ faults' = faults + 1
    BY <1>r DEF Fault
  <2>2. QED
    BY <1>5, <2>1 DEF Note, Leave
<1>6. QED
  BY <1>1, <1>2, <1>3, <1>4, <1>5 DEF ArchiveStep

-----------------------------------------------------------------------------
(* Windows, the clocks and the steps of the loop leave most of it alone.     *)

\* What the host does besides archiving: its loop, then guarded_finalize.
LoopStep == \/ Start \/ Tick \/ VisitInTick \/ VisitDone \/ Report
            \/ ReadMarkers \/ Fallback \/ CheckHeartbeat \/ Handle
FinalStep == \/ StartFinalize \/ VisitInFinal \/ DiagnosticsOnly \/ OpenReturn
             \/ PourReturn \/ ConfirmReturn \/ EmergencyArchive \/ EndFinalize

\* A step of the Windows side or a clock touches nothing of the host but its timers.
LEMMA WindowsOnly ==
  ASSUME Environment \/ Clock
  PROVE  /\ UNCHANGED <<files, returns, seen, archived, final, caught, place, pc, budget>>
         /\ worker = "done" => worker' = "done"
         /\ finishedOk' # finishedOk => finishedOk' /\ worker' = "done"
<1> USE DEF windows, files, returns, progress, final, place, budget, Host
<1>1. CASE WorkerStart \/ Attach \/ WorkerDies
  BY <1>1 DEF WorkerStart, Attach, WorkerDies
<1>2. ASSUME NEW s \in Own, Begin(s) \/ GameExits(s) \/ StopObserved(s) \/ SessionStuck(s)
      PROVE  /\ UNCHANGED <<files, returns, seen, archived, final, caught, place, pc, budget>>
             /\ UNCHANGED finishedOk /\ worker # "done"
  BY <1>2 DEF Begin, GameExits, StopObserved, SessionStuck
<1>3. CASE WorkerFinishes \/ UserStops \/ ControllerExits \/ HeartbeatStale
  BY <1>3 DEF WorkerFinishes, UserStops, ControllerExits, HeartbeatStale
<1>4. CASE SevenSeconds
  BY <1>4 DEF SevenSeconds
<1>5. ASSUME NEW s \in Sids, Age(s) \/ GracePasses(s)
      PROVE  /\ UNCHANGED <<files, returns, seen, archived, final, caught, place, pc, budget>>
             /\ UNCHANGED <<worker, finishedOk>>
  BY <1>5 DEF Age, GracePasses
<1>6. QED
  BY <1>1, <1>2, <1>3, <1>4, <1>5 DEF Environment, Clock

\* No session.json is taken back, and none appears once the worker has finished.
LEMMA WindowsBegin ==
  ASSUME TypeOK, Environment \/ Clock
  PROVE  Begun \subseteq Begun' /\ (worker = "done" => Begun' = Begun)
<1> USE DEF windows, Begun, Host
<1>1. CASE WorkerStart \/ Attach \/ WorkerDies
  BY <1>1 DEF WorkerStart, Attach, WorkerDies
<1>2. ASSUME NEW s \in Own, Begin(s) \/ GameExits(s) \/ StopObserved(s) \/ SessionStuck(s)
      PROVE  Begun \subseteq Begun' /\ worker # "done"
  BY <1>2 DEF Begin, GameExits, StopObserved, SessionStuck, TypeOK, Own
<1>3. CASE WorkerFinishes \/ UserStops \/ ControllerExits \/ HeartbeatStale
  BY <1>3 DEF WorkerFinishes, UserStops, ControllerExits, HeartbeatStale
<1>4. CASE SevenSeconds
  BY <1>4 DEF SevenSeconds
<1>5. ASSUME NEW s \in Sids, Age(s) \/ GracePasses(s) PROVE UNCHANGED win
  BY <1>5 DEF Age, GracePasses
<1>6. QED
  BY <1>1, <1>2, <1>3, <1>4, <1>5 DEF Environment, Clock

\* Only archive_session changes what is archived or recorded.
LEMMA HostQuiet ==
  ASSUME LoopStep \/ FinalStep \/ Interrupt
  PROVE  UNCHANGED <<zip, physical, record, archived, win, worker, finishedOk>>
<1> USE DEF windows, files, progress, still
<1>1. CASE Start \/ Tick \/ VisitInTick \/ VisitDone \/ Report
  BY <1>1 DEF Start, Tick, VisitInTick, VisitDone, Report
<1>2. CASE ReadMarkers \/ Fallback \/ CheckHeartbeat \/ Handle
  BY <1>2 DEF ReadMarkers, Fallback, CheckHeartbeat, Handle
<1>3. CASE FinalStep
  BY <1>3 DEF FinalStep, StartFinalize, VisitInFinal, DiagnosticsOnly, OpenReturn, PourReturn,
              ConfirmReturn, EmergencyArchive, EndFinalize
<1>4. CASE Interrupt
  BY <1>4 DEF Interrupt
<1>5. QED
  BY <1>1, <1>2, <1>3, <1>4 DEF LoopStep

-----------------------------------------------------------------------------
(* Types.                                                                    *)

\* A failure stays within its bound.
LEMMA FaultTyped == ASSUME TypeOK, Fault PROVE faults' \in 0..MaxFaults
BY BoundsAssumption DEF TypeOK, Fault

\* The Windows side and the clocks keep the types.
LEMMA WindowsTyped ==
  ASSUME TypeOK, Environment \/ Clock PROVE TypeOK'
<1> USE DEF TypeOK, windows, files, returns, progress, final, place, budget, Host
<1>1. CASE WorkerStart \/ Attach \/ WorkerDies
  BY <1>1 DEF WorkerStart, Attach, WorkerDies
<1>2. ASSUME NEW s \in Own, Begin(s) \/ GameExits(s) \/ StopObserved(s) \/ SessionStuck(s)
      PROVE  TypeOK'
  BY <1>2 DEF Begin, GameExits, StopObserved, SessionStuck, Own
<1>3. CASE WorkerFinishes \/ UserStops \/ ControllerExits \/ HeartbeatStale
  BY <1>3 DEF WorkerFinishes, UserStops, ControllerExits, HeartbeatStale
<1>4. CASE SevenSeconds
  BY <1>4 DEF SevenSeconds
<1>5. ASSUME NEW s \in Sids, Age(s) \/ GracePasses(s) PROVE TypeOK'
  BY <1>5 DEF Age, GracePasses
<1>6. QED
  BY <1>1, <1>2, <1>3, <1>4, <1>5 DEF Environment, Clock

\* So does archive_session, failing or not.
LEMMA ArchivingTyped == ASSUME TypeOK, ArchiveStep PROVE TypeOK'
<1>1. pc \in Archiving /\ cur \in Sids
  BY ArchivingSteps DEF TypeOK
<1>2. UNCHANGED <<win, aged, worker, finishedOk, batExit, stale, stop, noGame, ret, rows,
                  emergency, interrupts>>
  BY ArchivingSteps DEF windows, returns
<1>3. UNCHANGED <<seen, endSeen, deadline>>
  BY DEF ArchiveStep, Build, Pack, CopyEvidence, Record, Note, archiving
<1>4. faults' \in 0..MaxFaults
  <2>1. faults' = faults \/ Fault
    BY DEF ArchiveStep, Build, Pack, CopyEvidence, Record, Note, StepFails, GoOn
  <2>2. QED
    BY <2>1, FaultTyped DEF TypeOK
<1>5. zip' \subseteq Sids /\ physical' \subseteq Sids /\ record' \subseteq Sids
      /\ archived' \subseteq Sids
  BY <1>1, ArchivingSteps DEF TypeOK
<1> DEFINE HostTyped == /\ todo' \subseteq Sids /\ failed' \subseteq Sids
                        /\ UNCHANGED <<inFinal, reason, rounds, error, cut>>
                        /\ caught' \in {caught, "error"}
<1>6. CASE Struck
  <2>1. HostTyped /\ pc' \in {"report", "except"} /\ cur' = NoSid
    BY <1>1, <1>6 DEF Struck, TypeOK
  <2>2. QED
    BY <1>2, <1>3, <1>4, <1>5, <2>1 DEF TypeOK, Archiving
<1>7. CASE ~Struck
  <2>1. HostTyped
    BY <1>7, ArchivingSteps DEF TypeOK, final
  <2>2. \/ pc' \in {"pack", "copy", "record", "note"} /\ cur' = cur
        \/ pc' = "visit" /\ cur' = NoSid
    BY <1>7, ArchivingSteps
  <2>3. QED
    BY <1>1, <1>2, <1>3, <1>4, <1>5, <2>1, <2>2 DEF TypeOK, Archiving
<1>8. QED
  BY <1>6, <1>7

\* Every step keeps the types.
LEMMA TypedStep == ASSUME TypeOK, ControlInv, [Next]_vars PROVE TypeOK'
<1>f. Fault => faults' \in 0..MaxFaults
  BY FaultTyped
<1>v. todo # {} => First \in Sids
  BY FirstIsListed DEF TypeOK
<1>l. Listed \subseteq Sids
  BY DEF Listed
<1>s. StepFails => Struck /\ faults' \in 0..MaxFaults
  BY StepFailsStrikes, <1>f DEF StepFails
<1> USE DEF TypeOK, Archiving, windows, files, returns, progress, final, place, budget, still,
            Throw, Finalize, GuardedFinalize, GoOn, Leave, Breaks, CutShort
<1> DEFINE HostTyped ==
      /\ todo' \subseteq Sids /\ cur' = NoSid /\ failed' \subseteq Sids
      /\ inFinal' \in BOOLEAN /\ cut' \in BOOLEAN
      /\ reason' \in {reason, "WINDOWS_FINISHED", "BAT_EXIT", "STALE", "INTERRUPT", "EXCEPTION"}
      /\ rounds' \in {rounds, "first", "later"} /\ error' \in {error, "none"}
      /\ caught' \in {caught, "error"}
      /\ pc' \in {"finalize", "except", "fallback", "tick", "end"}
<1>1. CASE UNCHANGED vars
  BY <1>1 DEF vars
<1>2. CASE Interrupt
  <2>1. interrupts' \in 0..MaxInterrupts
    BY <1>2, BoundsAssumption DEF Interrupt
  <2>2. QED
    BY <1>2, <2>1 DEF Interrupt
<1>3. CASE Start
  BY <1>3, <1>f DEF Start
<1>4. CASE Tick
  <2>1. pc = "tick" /\ ~inFinal
    BY <1>4 DEF Tick, ControlInv, Looping
  <2>2. CASE StepFails
    BY <1>4, <1>s, <2>1, <2>2 DEF Tick, Struck
  <2>3. CASE ~StepFails
    BY <1>4, <1>l, <2>1, <2>3 DEF Tick
  <2>4. QED
    BY <2>2, <2>3
<1>5. CASE VisitInTick
  <2>1. CASE StepFails
    BY <1>5, <1>s, <1>v, <2>1 DEF VisitInTick, Struck
  <2>2. CASE ~StepFails
    BY <1>5, <1>f, <1>v, <2>2 DEF VisitInTick
  <2>3. QED
    BY <2>1, <2>2
<1>6. CASE VisitInFinal
  BY <1>6, <1>v DEF VisitInFinal
<1>7. CASE VisitDone
  BY <1>7, <1>f DEF VisitDone
<1>8. CASE Report
  <2>1. /\ todo' \in {todo, {}} /\ cur' = NoSid /\ UNCHANGED <<reason, rounds, failed>>
        /\ inFinal' \in BOOLEAN /\ error' \in {error, "os"} /\ cut' \in BOOLEAN
        /\ caught' \in {caught, "error"}
        /\ pc' \in {"visit", "markers", "return", "except"}
    BY <1>8 DEF Report
  <2>2. QED
    BY <1>8, <1>f, <2>1 DEF Report
<1>9. CASE ArchiveStep
  BY <1>9, ArchivingTyped
<1>10. CASE ReadMarkers \/ CheckHeartbeat \/ Handle
  <2>1. /\ pc \in {"markers", "stale", "except"} /\ cur = NoSid
        /\ faults' \in 0..MaxFaults
    BY <1>10, <1>f DEF ReadMarkers, CheckHeartbeat, Handle
  <2>2. ASSUME NEW why \in {"WINDOWS_FINISHED", "BAT_EXIT", "STALE", "INTERRUPT", "EXCEPTION"},
               Finalize(why)
        PROVE  HostTyped
    BY <2>1, <2>2
  <2>a. {todo, failed, {}} \subseteq SUBSET Sids /\ {inFinal, cut, FALSE} \subseteq BOOLEAN
    OBVIOUS
  <2>3. ASSUME Throw("error") PROVE HostTyped
    <3>1. /\ todo' = {} /\ cur' = NoSid /\ pc' = "except" /\ caught' = "error"
          /\ inFinal' = FALSE /\ UNCHANGED <<reason, rounds, error, cut, failed>>
      BY <2>3
    <3>2. QED
      BY ONLY <2>a, <3>1
  <2>4. ASSUME pc' \in {"fallback", "tick", "end"}, UNCHANGED <<place, final, caught>>
        PROVE  HostTyped
    <3>1. UNCHANGED <<todo, cur, inFinal, reason, rounds, error, cut, failed, caught>>
      BY <2>4
    <3>2. QED
      BY ONLY <2>1, <2>4, <2>a, <3>1
  <2>5. HostTyped
    <3>1. CASE ReadMarkers
      BY <3>1, <2>2, <2>3, <2>4 DEF ReadMarkers
    <3>2. CASE CheckHeartbeat
      BY <3>2, <2>2, <2>4 DEF CheckHeartbeat
    <3>3. CASE Handle
      BY <3>3, <2>2, <2>4 DEF Handle
    <3>4. QED
      BY <1>10, <3>1, <3>2, <3>3
  <2>6. UNCHANGED <<windows, files, returns, progress, interrupts>>
    BY <1>10 DEF ReadMarkers, CheckHeartbeat, Handle
  <2>7. QED
    BY <2>1, <2>5, <2>6
<1>13. CASE Fallback
  <2>1. /\ stop' \in {"none", "windows", "host"} /\ faults' \in 0..MaxFaults
        /\ deadline' \in {"none", "running", "passed"}
    BY <1>13, <1>f DEF Fallback
  <2>2. /\ todo' \in {todo, {}} /\ cur' = NoSid /\ failed' \in {failed, {}}
        /\ inFinal' \in BOOLEAN /\ reason' \in {reason, "HOST_POSTGAME"}
        /\ rounds' \in {rounds, "first", "later"} /\ error' \in {error, "none"}
        /\ cut' \in BOOLEAN /\ caught' \in {caught, "error"}
        /\ pc' \in {"stale", "finalize", "except"}
    BY <1>13 DEF Fallback
  <2>3. QED
    BY <1>13, <2>1, <2>2 DEF Fallback
<1>14. CASE StartFinalize
  <2>1. /\ todo' \subseteq Sids /\ cur' = NoSid
        /\ UNCHANGED <<inFinal, reason, rounds, failed, caught>>
        /\ error' \in {error, "os"} /\ cut' \in BOOLEAN /\ pc' \in {"visit", "return"}
    BY <1>14, <1>l DEF StartFinalize
  <2>2. QED
    BY <1>14, <1>f, <2>1 DEF StartFinalize
<1>15. CASE DiagnosticsOnly
  BY <1>15, <1>f DEF DiagnosticsOnly
<1>16. CASE OpenReturn
  BY <1>16, <1>f DEF OpenReturn
<1>17. CASE PourReturn \/ ConfirmReturn
  BY <1>17, <1>f DEF PourReturn, ConfirmReturn
<1>18. CASE EmergencyArchive \/ EndFinalize
  BY <1>18, <1>f DEF EmergencyArchive, EndFinalize
<1>19. CASE Clock \/ Environment
  BY <1>19, WindowsTyped
<1>20. QED
  BY <1>1, <1>2, <1>3, <1>4, <1>5, <1>6, <1>7, <1>8, <1>9, <1>10, <1>13,
     <1>14, <1>15, <1>16, <1>17, <1>18, <1>19 DEF Next, Step, ArchiveStep

\* The steps of Next, by what the lemmas above say of them.
LEMMA StepKinds ==
  ASSUME [Next]_vars
  PROVE  \/ UNCHANGED vars \/ Interrupt \/ Clock \/ Environment
         \/ ArchiveStep \/ LoopStep \/ FinalStep
BY DEF Next, Step, ArchiveStep, LoopStep, FinalStep

-----------------------------------------------------------------------------
(* Failures are counted.                                                     *)

\* Every step but an interrupt leaves the interrupts alone and counts at most one failure.
LEMMA Counted ==
  ASSUME TypeOK, [Next]_vars
  PROVE  \/ faults' = faults /\ interrupts' = interrupts
         \/ faults' = faults + 1 /\ interrupts' = interrupts
         \/ Interrupt /\ faults' = faults /\ interrupts' = interrupts + 1
<1> USE DEF budget, place, still, GoOn, Breaks, Finalize, Fault
<1>1. CASE UNCHANGED vars
  BY <1>1 DEF vars
<1>2. CASE Interrupt
  BY <1>2 DEF Interrupt
<1>3. CASE Clock \/ Environment
  BY <1>3, WindowsOnly
<1>4. CASE ArchiveStep
  BY <1>4, ArchivingSteps
<1>5. CASE LoopStep
  <2>1. CASE Start \/ Tick \/ VisitInTick \/ VisitDone \/ Report
    BY <2>1 DEF Start, Tick, VisitInTick, VisitDone, Report, StepFails
  <2>2. CASE ReadMarkers \/ Fallback \/ CheckHeartbeat \/ Handle
    BY <2>2 DEF ReadMarkers, Fallback, CheckHeartbeat, Handle
  <2>3. QED
    BY <1>5, <2>1, <2>2 DEF LoopStep
<1>6. CASE FinalStep
  BY <1>6 DEF FinalStep, StartFinalize, VisitInFinal, DiagnosticsOnly, OpenReturn, PourReturn,
              ConfirmReturn, EmergencyArchive, EndFinalize
<1>7. QED
  BY <1>1, <1>2, <1>3, <1>4, <1>5, <1>6, StepKinds

\* What went wrong once did go wrong, a failure now is one more.
LEMMA TroubleGrows ==
  ASSUME TypeOK, ControlInv, [Next]_vars
  PROVE  /\ Trouble => Trouble'
         /\ Twice => Twice'
         /\ faults' # faults \/ Interrupt => Trouble'
         /\ Trouble /\ (faults' # faults \/ Interrupt) => Twice'
<1>1. {faults, faults', interrupts, interrupts'} \subseteq Nat
  BY TypedStep DEF TypeOK
<1>2. Interrupt => interrupts' = interrupts + 1
  BY DEF Interrupt
<1>3. \/ faults' = faults /\ interrupts' = interrupts
      \/ faults' = faults + 1 /\ interrupts' = interrupts
      \/ Interrupt /\ faults' = faults /\ interrupts' = interrupts + 1
  BY Counted
<1>4. QED
  BY ONLY <1>1, <1>2, <1>3 DEF Trouble, Twice

-----------------------------------------------------------------------------
(* The control of the host.                                                  *)

\* Every step knows whether it is in guarded_finalize, how often, and why.
LEMMA ControlStep == ASSUME TypeOK, ControlInv, [Next]_vars PROVE ControlInv'
<1>s. StepFails => Struck
  BY StepFailsStrikes
<1> USE DEF ControlInv, Looping, Closing, Archiving, final, place, Throw, Finalize,
            GuardedFinalize, GoOn, Leave, Breaks
<1>1. CASE UNCHANGED vars
  BY <1>1 DEF vars
<1>2. CASE Interrupt
  BY <1>2 DEF Interrupt
<1>3. CASE Clock \/ Environment
  BY <1>3, WindowsOnly
<1>4. CASE ArchiveStep
  <2>1. pc \in Archiving
    BY <1>4, ArchivingSteps
  <2>2. CASE Struck
    BY <2>1, <2>2 DEF Struck, TypeOK
  <2>3. CASE ~Struck
    <3>1. UNCHANGED <<inFinal, reason, rounds, caught>>
      BY <1>4, <2>3, ArchivingSteps
    <3>2. pc' \in {"pack", "copy", "record", "note", "visit"}
      BY <1>4, <2>3, ArchivingSteps
    <3>3. QED
      BY <2>1, <3>1, <3>2
  <2>4. QED
    BY <2>2, <2>3
<1>5. CASE Start \/ Tick \/ VisitInTick
  <2>1. CASE StepFails /\ ~Start
    BY <1>5, <1>s, <2>1 DEF Tick, VisitInTick, Struck
  <2>2. CASE ~StepFails \/ Start
    BY <1>5, <2>2 DEF Start, Tick, VisitInTick
  <2>3. QED
    BY <2>1, <2>2
<1>6. CASE VisitDone \/ Report
  BY <1>6 DEF VisitDone, Report, CutShort
<1>7. CASE ReadMarkers
  BY <1>7 DEF ReadMarkers
<1>8. CASE CheckHeartbeat \/ Handle
  BY <1>8 DEF CheckHeartbeat, Handle
<1>9. CASE Fallback
  BY <1>9 DEF Fallback
<1>10. CASE StartFinalize \/ VisitInFinal \/ DiagnosticsOnly \/ OpenReturn
  BY <1>10 DEF StartFinalize, VisitInFinal, DiagnosticsOnly, OpenReturn, CutShort
<1>11. CASE PourReturn \/ ConfirmReturn \/ EmergencyArchive \/ EndFinalize
  BY <1>11 DEF PourReturn, ConfirmReturn, EmergencyArchive, EndFinalize
<1>12. QED
  BY <1>1, <1>2, <1>3, <1>4, <1>5, <1>6, <1>7, <1>8, <1>9, <1>10, <1>11, StepKinds
     DEF LoopStep, FinalStep

-----------------------------------------------------------------------------
(* What is recorded.                                                         *)

\* The sessions tick and finalize list have begun and are not archived.
LEMMA ListedBegun == Listed = Begun \ archived
BY DEF Listed, Begun, Own

\* Where the host goes on with the same sessions or with none.
LEMMA PlaceQuiet ==
  ASSUME TypeOK, ControlInv, LoopStep \/ FinalStep \/ Interrupt
  PROVE  \/ todo' = Listed /\ pc' = "visit"
         \/ todo' \subseteq todo /\ pc' \notin Archiving
         \/ /\ pc = "visit" /\ todo # {} /\ pc' = "build" /\ cur' = First
            /\ todo' = todo \ {First}
<1>s. StepFails /\ ~inFinal => todo' = {} /\ pc' \notin Archiving
  BY StepFailsStrikes DEF Struck, Archiving
<1> USE DEF Archiving, final, place, Throw, Finalize, GuardedFinalize, GoOn, Leave, Breaks
<1>1. CASE Start \/ Tick
  BY <1>1, <1>s DEF Start, Tick, ControlInv, Looping
<1>2. CASE VisitInTick
  BY <1>2, <1>s DEF VisitInTick
<1>3. CASE VisitDone \/ Report
  BY <1>3 DEF VisitDone, Report, CutShort
<1>4. CASE ReadMarkers \/ Fallback \/ CheckHeartbeat \/ Handle
  BY <1>4 DEF ReadMarkers, Fallback, CheckHeartbeat, Handle
<1>5. CASE FinalStep
  BY <1>5 DEF FinalStep, StartFinalize, VisitInFinal, DiagnosticsOnly, OpenReturn, PourReturn,
              ConfirmReturn, EmergencyArchive, EndFinalize, CutShort
<1>6. CASE Interrupt
  BY <1>6 DEF Interrupt
<1>7. QED
  BY <1>1, <1>2, <1>3, <1>4, <1>5, <1>6 DEF LoopStep

\* The index of the RETURN is written from the records there are.
LEMMA RowsWritten ==
  ASSUME LoopStep \/ FinalStep \/ Interrupt PROVE rows' = rows \/ rows' \subseteq record \cap zip
<1> USE DEF returns, still
<1>1. CASE Start \/ Tick \/ VisitInTick \/ VisitDone \/ Report
  BY <1>1 DEF Start, Tick, VisitInTick, VisitDone, Report
<1>2. CASE ReadMarkers \/ Fallback \/ CheckHeartbeat \/ Handle
  BY <1>2 DEF ReadMarkers, Fallback, CheckHeartbeat, Handle
<1>3. CASE StartFinalize \/ VisitInFinal \/ DiagnosticsOnly
  BY <1>3 DEF StartFinalize, VisitInFinal, DiagnosticsOnly
<1>4. CASE PourReturn \/ ConfirmReturn \/ EmergencyArchive \/ EndFinalize
  BY <1>4 DEF PourReturn, ConfirmReturn, EmergencyArchive, EndFinalize
<1>5. CASE OpenReturn
  BY <1>5 DEF OpenReturn
<1>6. CASE Interrupt
  BY <1>6 DEF Interrupt
<1>7. QED
  BY <1>1, <1>2, <1>3, <1>4, <1>5, <1>6 DEF LoopStep, FinalStep

\* Only Record writes a record, and it comes after Pack and CopyEvidence of the same
\* session.
LEMMA EvidenceStep ==
  ASSUME TypeOK, ControlInv, EvidenceInv, [Next]_vars PROVE EvidenceInv'
<1>t. TypeOK'
  BY TypedStep
<1> USE DEF EvidenceInv, ReturnIsTruthful
<1>1. CASE UNCHANGED vars
  BY <1>1 DEF vars, windows, files, returns, progress, place, Begun
<1>2. CASE Clock \/ Environment
  <2>1. UNCHANGED <<todo, cur, pc, zip, physical, record, archived, rows>>
    BY <1>2, WindowsOnly DEF files, returns, place
  <2>2. Begun \subseteq Begun'
    BY <1>2, WindowsBegin
  <2>3. QED
    BY <2>1, <2>2
<1>3. CASE LoopStep \/ FinalStep \/ Interrupt
  <2>1. UNCHANGED <<zip, physical, record, archived, Begun>>
    BY <1>3, HostQuiet DEF Begun
  <2>2. rows' \subseteq zip' \cap physical' \cap Own
    BY <1>3, <2>1, RowsWritten DEF Begun
  <2>3. CASE todo' = Listed /\ pc' = "visit"
    BY <2>1, <2>2, <2>3, ListedBegun DEF Archiving
  <2>4. CASE todo' \subseteq todo /\ pc' \notin Archiving
    BY <2>1, <2>2, <2>4 DEF Archiving
  <2>5. CASE /\ todo # {} /\ pc' = "build" /\ cur' = First /\ todo' = todo \ {First}
    <3>1. First \in todo
      BY <2>5, FirstIsListed DEF TypeOK
    <3>2. QED
      BY <2>1, <2>2, <2>5, <3>1
  <2>6. QED
    BY <1>3, <2>3, <2>4, <2>5, PlaceQuiet
<1>4. CASE ArchiveStep
  <2>1. pc \in Archiving /\ UNCHANGED <<rows, Begun>>
    BY <1>4, ArchivingSteps DEF returns, windows, Begun
  <2>2. CASE Struck
    <3>1. /\ UNCHANGED <<physical, record>> /\ zip \subseteq zip'
          /\ archived' \in {archived, archived \cup {cur}}
          /\ archived' = archived \/ pc = "note"
      BY <1>4, <2>2, ArchivingSteps DEF Struck, Archiving
    <3>2. pc' \notin Archiving /\ todo' \subseteq todo
      BY <2>2 DEF Struck, Archiving
    <3>3. QED
      BY <2>1, <3>1, <3>2 DEF Archiving
  <2>3. CASE ~Struck
    BY <1>4, <2>1, <2>3, ArchivingSteps DEF Archiving
  <2>4. QED
    BY <2>2, <2>3
<1>5. QED
  BY <1>1, <1>2, <1>3, <1>4, StepKinds

-----------------------------------------------------------------------------
(* Exceptions.                                                               *)

\* Where the host catches an exception, something went wrong before.
LEMMA CatchesTrouble ==
  ASSUME TypeOK, ControlInv, LoopStep \/ FinalStep \/ Interrupt
  PROVE  caught' = caught \/ faults' = faults + 1 \/ Interrupt
<1>s. StepFails => faults' = faults + 1
  BY StepFailsStrikes
<1> USE DEF final, Throw, Finalize, GuardedFinalize, GoOn, Breaks, Fault, CutShort
<1>1. CASE Start \/ Tick \/ VisitInTick \/ VisitDone \/ Report
  BY <1>1, <1>s DEF Start, Tick, VisitInTick, VisitDone, Report
<1>2. CASE ReadMarkers \/ Fallback \/ CheckHeartbeat \/ Handle
  BY <1>2 DEF ReadMarkers, Fallback, CheckHeartbeat, Handle
<1>3. CASE FinalStep
  BY <1>3 DEF FinalStep, StartFinalize, VisitInFinal, DiagnosticsOnly, OpenReturn, PourReturn,
              ConfirmReturn, EmergencyArchive, EndFinalize
<1>4. QED
  BY <1>1, <1>2, <1>3 DEF LoopStep

\* An archive that is not of an archived session, nor being copied, comes of a failure; so
\* pack_immutable meets one, and tick's caller its BadZipFile, only after one.
LEMMA TroubleStep ==
  ASSUME TypeOK, ControlInv, EvidenceInv, TroubleInv, [Next]_vars PROVE TroubleInv'
<1>t. Trouble => Trouble'
  BY TroubleGrows
<1>f. faults' = faults + 1 \/ Interrupt => Trouble'
  <2>1. faults' = faults + 1 => faults' # faults
    BY DEF TypeOK
  <2>2. QED
    BY <2>1, TroubleGrows
<1> USE DEF TroubleInv
<1>1. CASE UNCHANGED vars
  BY <1>1, <1>t DEF vars, files, progress, place, InHand
<1>2. CASE Clock \/ Environment
  BY <1>2, <1>t, WindowsOnly DEF files, place, InHand
<1>3. CASE LoopStep \/ FinalStep \/ Interrupt
  <2>1. UNCHANGED <<zip, archived>>
    BY <1>3, HostQuiet
  <2>2. caught' # "none" => Trouble'
    BY <1>3, <1>t, <1>f, CatchesTrouble
  <2>3. pc \notin {"copy", "record", "note"} \/ Interrupt
    BY <1>3 DEF LoopStep, FinalStep, Start, Tick, VisitInTick, VisitDone, Report, ReadMarkers,
                Fallback, CheckHeartbeat, Handle, StartFinalize, VisitInFinal, DiagnosticsOnly,
                OpenReturn, PourReturn, ConfirmReturn, EmergencyArchive, EndFinalize
  <2>4. QED
    BY <1>t, <1>f, <2>1, <2>2, <2>3 DEF InHand
<1>4. CASE ArchiveStep
  <2>1. CASE faults' = faults + 1
    BY <1>f, <2>1
  <2>2. CASE faults' # faults + 1
    <3>1. pc = "pack" /\ cur \in zip => Trouble
      BY DEF InHand, EvidenceInv, Archiving
    <3>2. CASE Struck
      BY <1>4, <1>t, <2>2, <3>1, <3>2, ArchivingSteps DEF Struck, InHand
    <3>3. CASE ~Struck
      BY <1>4, <1>t, <2>2, <3>3, ArchivingSteps DEF InHand, final
    <3>4. QED
      BY <3>2, <3>3
  <2>3. QED
    BY <2>1, <2>2
<1>5. QED
  BY <1>1, <1>2, <1>3, <1>4, StepKinds

-----------------------------------------------------------------------------
(* The RETURN.                                                               *)

\* Every way past a RETURN that is not whole is a failure or an interrupt, and every way
\* past the emergency one a second.
LEMMA ReturnStep ==
  ASSUME TypeOK, ControlInv, TroubleInv, ReturnInv, [Next]_vars PROVE ReturnInv'
<1>t. (Trouble => Trouble') /\ (Twice => Twice')
  BY TroubleGrows
<1>f. Fault \/ Interrupt => Trouble' /\ (Trouble => Twice')
  <2>1. Fault => faults' # faults
    BY DEF Fault, TypeOK
  <2>2. QED
    BY <2>1, TroubleGrows
<1>s. StepFails => Struck /\ Fault
  BY StepFailsStrikes DEF StepFails
<1>c. caught # "none" => Trouble
  BY DEF TroubleInv
<1> USE DEF ReturnInv, Safe
<1>1. CASE UNCHANGED vars
  BY <1>1, <1>t DEF vars, returns, final, budget
<1>2. CASE Clock \/ Environment
  BY <1>2, <1>t, WindowsOnly DEF returns, final
<1>3. CASE Interrupt
  <2>1. Trouble' /\ (Trouble => Twice') /\ UNCHANGED emergency
    BY <1>3, <1>f DEF Interrupt
  <2>2. CASE Throw("interrupt")
    BY <1>3, <2>1, <2>2 DEF Interrupt, Throw
  <2>3. CASE ~Throw("interrupt")
    <3>1. pc' = "end" /\ (caught # "none" => Twice') /\ UNCHANGED <<rounds, caught>>
      BY <1>3, <1>c, <2>1, <2>3 DEF Interrupt, Leave
    <3>2. caught = "none" => pc = "start" /\ reason' = "START"
      BY <1>3, <2>3 DEF Interrupt
    <3>3. QED
      BY <1>3, <1>t, <2>1, <3>1, <3>2 DEF Interrupt
  <2>4. QED
    BY <2>2, <2>3
<1>4. CASE ArchiveStep
  <2>1. UNCHANGED returns /\ pc \in Archiving
    BY <1>4, ArchivingSteps
  <2>2. CASE Struck
    <3>1. pc' \in {"report", "except"} /\ rounds' = rounds
      BY <2>2 DEF Struck
    <3>2. caught = "interrupt" => caught' = caught
      BY <2>1, <2>2 DEF Struck, ControlInv, Archiving
    <3>3. QED
      BY <1>t, <2>1, <3>1, <3>2 DEF returns, Archiving
  <2>3. CASE ~Struck
    <3>1. UNCHANGED <<reason, rounds, caught>>
      BY <1>4, <2>3, ArchivingSteps DEF final
    <3>2. pc' \in {"pack", "copy", "record", "note", "visit"}
      BY <1>4, <2>3, ArchivingSteps
    <3>3. QED
      BY <1>t, <2>1, <3>1, <3>2 DEF returns, Archiving
  <2>4. QED
    BY <2>2, <2>3
<1> USE DEF returns, final, place, still, Throw, Finalize, GuardedFinalize, GoOn, Leave, Breaks
<1>5. CASE Start \/ Tick \/ VisitInTick
  <2>1. CASE StepFails /\ ~Start
    <3>1. /\ pc \in {"tick", "visit"} /\ ~inFinal /\ UNCHANGED <<ret, emergency>>
          /\ pc' \in {"report", "except"} /\ rounds' = rounds
      BY <1>5, <1>s, <2>1 DEF Tick, VisitInTick, Struck, ControlInv, Looping
    <3>2. caught = "none"
      BY <3>1 DEF ControlInv, TypeOK
    <3>3. QED
      BY <1>t, <3>1, <3>2
  <2>2. CASE ~StepFails \/ Start
    BY <1>5, <1>t, <2>2 DEF Start, Tick, VisitInTick
  <2>3. QED
    BY <2>1, <2>2
<1>6. CASE VisitDone \/ Report
  <2>1. /\ pc \in {"visit", "report"} /\ UNCHANGED <<ret, emergency, rounds, reason>>
        /\ pc' \in {"visit", "markers", "nogame", "return", "except"}
        /\ caught' = caught \/ ~inFinal
    BY <1>6 DEF VisitDone, Report, CutShort
  <2>2. ~inFinal => caught = "none"
    BY <2>1 DEF ControlInv
  <2>3. QED
    BY <1>t, <2>1, <2>2
<1>7. CASE ReadMarkers \/ Fallback \/ CheckHeartbeat
  <2>1. ~inFinal /\ pc \in {"markers", "fallback", "stale"} /\ caught = "none"
    BY <1>7 DEF ReadMarkers, Fallback, CheckHeartbeat, ControlInv, Looping
  <2>2. rounds # "first"
    BY <2>1 DEF ControlInv
  <2>3. UNCHANGED returns
    BY <1>7 DEF ReadMarkers, Fallback, CheckHeartbeat
  <2>4. pc' \in {"finalize", "fallback", "stale", "tick", "except"}
    BY <1>7 DEF ReadMarkers, Fallback, CheckHeartbeat
  <2>5. rounds' = "later" => rounds = "later"
    BY <1>7, <2>2 DEF ReadMarkers, Fallback, CheckHeartbeat, TypeOK
  <2>6. QED
    BY <1>t, <2>1, <2>3, <2>4, <2>5
<1>8. CASE Handle
  <2>1. UNCHANGED <<returns, caught>> /\ pc = "except" /\ Trouble
    BY <1>8, <1>c DEF Handle, ControlInv
  <2>2. CASE Fault /\ pc' = "end" /\ UNCHANGED <<place, final, caught>>
    BY <1>t, <1>f, <2>1, <2>2
  <2>3. CASE GoOn("end") /\ caught = "error" /\ rounds # "none"
    BY <1>t, <2>1, <2>3 DEF ControlInv, TypeOK
  <2>4. CASE Finalize("INTERRUPT") /\ caught = "interrupt"
    BY <1>t, <2>1, <2>4
  <2>5. CASE Finalize("EXCEPTION") /\ rounds = "none"
    BY <1>t, <2>1, <2>5
  <2>6. QED
    BY <1>8, <2>2, <2>3, <2>4, <2>5 DEF Handle
<1>9. CASE StartFinalize \/ VisitInFinal \/ DiagnosticsOnly
  BY <1>9, <1>t DEF StartFinalize, VisitInFinal, DiagnosticsOnly, CutShort
<1>10. CASE OpenReturn
  BY <1>10, <1>t, <1>f DEF OpenReturn
<1>11. CASE PourReturn
  BY <1>11, <1>t, <1>f DEF PourReturn
<1>12. CASE ConfirmReturn
  BY <1>12, <1>t, <1>f DEF ConfirmReturn
<1>13. CASE EmergencyArchive
  BY <1>13, <1>t, <1>f DEF EmergencyArchive
<1>14. CASE EndFinalize
  BY <1>14, <1>t DEF EndFinalize
<1>15. QED
  BY <1>1, <1>2, <1>3, <1>4, <1>5, <1>6, <1>7, <1>8, <1>9, <1>10, <1>11, <1>12, <1>13, <1>14,
     StepKinds DEF LoopStep, FinalStep

-----------------------------------------------------------------------------
(* NO-GAME.                                                                  *)

\* The first finalization tries whatever is recorded and not archived; after
\* DiagnosticsOnly only a second one, or further ticks, lead back to the sessions.
LEMMA NoGameStep ==
  ASSUME TypeOK, ControlInv, EvidenceInv, NoGameInv, [Next]_vars PROVE NoGameInv'
<1>l. Listed = Begun \ archived
  BY ListedBegun
<1>s. StepFails => Struck
  BY StepFailsStrikes
<1> USE DEF NoGameInv
<1>1. CASE UNCHANGED vars
  BY <1>1 DEF vars, files, progress, final, place
<1>2. CASE Clock \/ Environment
  BY <1>2, WindowsOnly DEF files, final, place
<1>3. CASE ArchiveStep
  <2>1. pc \in Archiving /\ UNCHANGED noGame /\ ~(noGame = "recorded" /\ rounds # "later")
    BY <1>3, ArchivingSteps DEF Archiving, Closing
  <2>2. CASE Struck
    <3>1. UNCHANGED <<record, rounds, inFinal>> /\ archived \subseteq archived'
      BY <1>3, <2>2, ArchivingSteps DEF Struck, Archiving
    <3>2. QED
      BY <2>1, <2>2, <3>1 DEF Struck, Archiving
  <2>3. CASE ~Struck
    <3>1. UNCHANGED <<todo, inFinal, rounds, failed>>
      BY <1>3, <2>3, ArchivingSteps DEF final
    <3>2. \/ /\ pc' \in {"pack", "copy", "record", "note"} /\ cur' = cur
             /\ archived' = archived /\ record' \in {record, record \cup {cur}}
          \/ /\ pc' = "visit" /\ archived' = archived \cup {cur} /\ record' = record
      BY <1>3, <2>3, ArchivingSteps
    <3>3. QED
      BY <2>1, <3>1, <3>2 DEF Archiving
  <2>4. QED
    BY <2>2, <2>3
<1>q. ~ArchiveStep /\ (LoopStep \/ FinalStep \/ Interrupt) => UNCHANGED <<record, archived>>
  BY HostQuiet
<1> USE DEF files, final, place, still, Archiving, Closing, Throw, Finalize, GuardedFinalize,
            GoOn, Leave, Breaks
<1>4. CASE Interrupt
  BY <1>4, <1>q, HostQuiet DEF Interrupt
<1>5. CASE Start \/ Tick \/ VisitInTick
  <2>1. UNCHANGED <<record, archived, noGame, rounds>> /\ ~inFinal /\ inFinal' = FALSE
        /\ pc \in {"start", "tick", "visit"} /\ pc' # "nogame"
    <3>1. CASE StepFails /\ ~Start
      BY <1>5, <1>s, <3>1 DEF Tick, VisitInTick, Struck, progress, ControlInv, Looping
    <3>2. CASE ~StepFails \/ Start
      BY <1>5, <3>2 DEF Start, Tick, VisitInTick, progress, ControlInv, Looping
    <3>3. QED
      BY <3>1, <3>2
  <2>2. QED
    BY <2>1
<1>6. CASE VisitDone
  BY <1>6 DEF VisitDone, progress
<1>7. CASE Report
  BY <1>7 DEF Report, CutShort, progress
<1>8. CASE ReadMarkers \/ Fallback \/ CheckHeartbeat
  <2>1. UNCHANGED <<record, archived, noGame>> /\ pc \in {"markers", "fallback", "stale"}
        /\ pc' \in {"finalize", "fallback", "stale", "tick", "except"}
    BY <1>8 DEF ReadMarkers, Fallback, CheckHeartbeat
  <2>2. ~(noGame = "recorded" /\ rounds # "later")
    BY <2>1
  <2>3. rounds' = rounds \/ (rounds' = IF rounds = "none" THEN "first" ELSE "later")
    BY <1>8 DEF ReadMarkers, Fallback, CheckHeartbeat
  <2>4. QED
    BY <2>1, <2>2, <2>3 DEF TypeOK
<1>9. CASE Handle
  BY <1>9 DEF Handle, TypeOK
<1>10. CASE StartFinalize
  <2>1. CASE todo' = Listed /\ pc' = "visit"
    <3>1. UNCHANGED <<record, archived, failed, noGame, rounds>> /\ pc = "finalize"
      BY <1>10, <2>1 DEF StartFinalize, progress, Closing, CutShort
    <3>2. record \subseteq archived \cup todo'
      BY <1>l, <2>1 DEF EvidenceInv
    <3>3. QED
      BY <2>1, <3>1, <3>2
  <2>2. CASE CutShort
    BY <1>10, <2>2 DEF StartFinalize, progress, CutShort
  <2>3. QED
    BY <1>10, <2>1, <2>2 DEF StartFinalize
<1>11. CASE VisitInFinal
  BY <1>11 DEF VisitInFinal, progress
<1>12. CASE DiagnosticsOnly
  BY <1>12 DEF DiagnosticsOnly, progress, ControlInv
<1>13. CASE OpenReturn \/ PourReturn \/ ConfirmReturn \/ EmergencyArchive \/ EndFinalize
  BY <1>13 DEF OpenReturn, PourReturn, ConfirmReturn, EmergencyArchive, EndFinalize, progress
<1>14. QED
  BY <1>1, <1>2, <1>3, <1>4, <1>5, <1>6, <1>7, <1>8, <1>9, <1>10, <1>11, <1>12, <1>13,
     StepKinds DEF LoopStep, FinalStep

-----------------------------------------------------------------------------
(* What is left to archive.                                                  *)

\* Whatever a visit does, it takes a session off the list only by archiving it or noting
\* that it failed; an error that takes the others off as well is noted in cut.
LEMMA LeftStep ==
  ASSUME TypeOK, ControlInv, EvidenceInv, LeftInv, [Next]_vars PROVE LeftInv'
<1>l. Owed \subseteq Listed
  BY ListedBegun DEF Owed
<1>s. StepFails => Struck
  BY StepFailsStrikes
<1>q. LoopStep \/ FinalStep \/ Interrupt =>
        UNCHANGED <<worker, finishedOk, archived, Begun>>
  BY HostQuiet DEF Begun
<1>r. reason = "WINDOWS_FINISHED" /\ caught = "none" => inFinal
  BY DEF ControlInv
<1> USE DEF LeftInv, Normal
<1>1. CASE UNCHANGED vars
  <2>1. UNCHANGED Owed
    BY <1>1 DEF vars, windows, progress, final, Owed, Begun
  <2>2. QED
    BY <1>1, <2>1 DEF vars, windows, final, place
<1>2. CASE Clock \/ Environment
  <2>1. UNCHANGED <<pc, todo, cur, reason, caught, cut, archived, failed>>
    BY <1>2, WindowsOnly DEF place, final
  <2>2. finishedOk' => worker' = "done"
    BY <1>2, WindowsOnly
  <2>3. finishedOk => finishedOk'
    BY <1>2, WindowsOnly
  <2>4. finishedOk => Begun' = Begun
    BY <1>2, WindowsBegin
  <2>5. finishedOk => Owed' = Owed
    BY <2>1, <2>4 DEF Owed
  <2>6. QED
    BY <2>1, <2>2, <2>3, <2>5
<1>3. CASE ArchiveStep
  <2>1. pc \in Archiving /\ UNCHANGED <<worker, finishedOk, Begun>>
    BY <1>3, ArchivingSteps DEF windows, Begun
  <2>2. archived \subseteq archived'
    BY <1>3, ArchivingSteps
  <2>3. CASE Struck /\ inFinal
    <3>1. /\ failed' = failed \cup {cur} /\ pc' = "report"
          /\ UNCHANGED <<todo, reason, caught, cut>>
      BY <2>3 DEF Struck
    <3>2. Owed' \subseteq Owed \ {cur}
      BY <2>1, <2>2, <3>1 DEF Owed
    <3>3. QED
      BY <2>1, <3>1, <3>2 DEF Archiving, Closing
  <2>4. CASE Struck /\ ~inFinal
    <3>1. reason' = reason /\ caught' \in {caught, "error"}
      BY <2>4 DEF Struck
    <3>2. QED
      BY <1>r, <2>1, <2>4, <3>1
  <2>5. CASE ~Struck
    <3>1. UNCHANGED <<todo, reason, caught, cut, failed>>
      BY <1>3, <2>5, ArchivingSteps DEF final
    <3>2. \/ pc' \in {"pack", "copy", "record", "note"} /\ cur' = cur /\ archived' = archived
          \/ pc' = "visit" /\ archived' = archived \cup {cur}
      BY <1>3, <2>5, ArchivingSteps
    <3>3. CASE pc' \in {"pack", "copy", "record", "note"} /\ cur' = cur /\ archived' = archived
      <4>1. Owed' = Owed
        BY <2>1, <3>1, <3>3 DEF Owed
      <4>2. QED
        BY <2>1, <3>1, <3>3, <4>1 DEF Archiving, Closing
    <3>4. CASE pc' = "visit" /\ archived' = archived \cup {cur}
      <4>1. Owed' \subseteq Owed \ {cur}
        BY <2>1, <3>1, <3>4 DEF Owed
      <4>2. QED
        BY <2>1, <3>1, <3>4, <4>1 DEF Archiving, Closing
    <3>5. QED
      BY <3>2, <3>3, <3>4
  <2>6. QED
    BY <2>3, <2>4, <2>5
<1> USE DEF final, place, Throw, Finalize, GuardedFinalize, GoOn, Leave, Breaks
<1>4. CASE Interrupt
  <2>1. caught' # "none" \/ reason' = "START"
    BY <1>4 DEF Interrupt
  <2>2. QED
    BY <1>4, <1>q, <2>1
<1>5. CASE Start \/ Tick \/ VisitInTick
  <2>1. ~inFinal /\ (reason' = reason \/ reason' = "START")
    <3>1. CASE StepFails /\ ~Start
      BY <1>5, <1>s, <3>1 DEF Tick, VisitInTick, Struck, ControlInv, Looping
    <3>2. CASE ~StepFails \/ Start
      BY <1>5, <3>2 DEF Start, Tick, VisitInTick, ControlInv, Looping
    <3>3. QED
      BY <3>1, <3>2
  <2>2. caught' = "none" => caught = "none"
    <3>1. CASE StepFails /\ ~Start
      BY <1>5, <1>s, <3>1, <2>1 DEF Tick, VisitInTick, Struck
    <3>2. CASE ~StepFails \/ Start
      BY <1>5, <3>2 DEF Start, Tick, VisitInTick
    <3>3. QED
      BY <3>1, <3>2
  <2>3. QED
    BY <1>5, <1>q, <1>r, <2>1, <2>2 DEF LoopStep
<1>6. CASE VisitDone \/ Report
  <2>1. UNCHANGED <<worker, finishedOk>> /\ (UNCHANGED failed => UNCHANGED Owed)
    BY <1>6, <1>q DEF LoopStep, Owed
  <2>2. CASE VisitDone
    BY <2>1, <2>2 DEF VisitDone, Archiving, Closing
  <2>3. CASE Report /\ inFinal
    <3>1. CASE CutShort
      BY <2>1, <3>1 DEF CutShort
    <3>2. CASE GoOn("visit")
      BY <2>1, <2>3, <3>2 DEF Report, Archiving, Closing
    <3>3. QED
      BY <2>3, <3>1, <3>2 DEF Report
  <2>4. CASE Report /\ ~inFinal
    BY <1>r, <2>1, <2>4 DEF Report, Archiving, Closing
  <2>5. QED
    BY <1>6, <2>2, <2>3, <2>4
<1>7. CASE ReadMarkers \/ Fallback \/ CheckHeartbeat \/ Handle
  <2>1. UNCHANGED <<worker, finishedOk>>
    BY <1>7, <1>q DEF LoopStep
  <2>2. caught' = "none" => caught = "none"
    BY <1>7 DEF ReadMarkers, Fallback, CheckHeartbeat, Handle
  <2>3. ~inFinal
    BY <1>7 DEF ReadMarkers, Fallback, CheckHeartbeat, Handle, ControlInv, Looping
  <2>4. reason' = reason \/ reason' # "WINDOWS_FINISHED" \/ (finishedOk /\ pc' = "finalize")
    BY <1>7 DEF ReadMarkers, Fallback, CheckHeartbeat, Handle
  <2>5. QED
    BY <1>r, <2>1, <2>2, <2>3, <2>4 DEF Archiving, Closing
<1>8. CASE StartFinalize \/ VisitInFinal
  <2>1. UNCHANGED <<worker, finishedOk>> /\ (UNCHANGED failed => UNCHANGED Owed)
    BY <1>8, <1>q DEF FinalStep, Owed
  <2>2. CASE StartFinalize
    BY <1>l, <2>1, <2>2 DEF StartFinalize, CutShort, Archiving, Closing
  <2>3. CASE VisitInFinal
    BY <2>1, <2>3 DEF VisitInFinal, Archiving, Closing
  <2>4. QED
    BY <1>8, <2>2, <2>3
<1>9. CASE DiagnosticsOnly \/ OpenReturn \/ PourReturn \/ ConfirmReturn \/ EmergencyArchive
           \/ EndFinalize
  <2>1. UNCHANGED <<worker, finishedOk>> /\ (UNCHANGED failed => UNCHANGED Owed)
    BY <1>9, <1>q DEF FinalStep, Owed
  <2>2. /\ pc \in {"nogame", "return", "pour", "confirm", "emergency", "finish"}
        /\ pc' \in {"return", "pour", "confirm", "emergency", "finish", "end", "tick"}
        /\ UNCHANGED <<reason, caught, cut, failed>>
    BY <1>9 DEF DiagnosticsOnly, OpenReturn, PourReturn, ConfirmReturn, EmergencyArchive,
                EndFinalize
  <2>3. QED
    BY <2>1, <2>2 DEF Archiving, Closing
<1>10. QED
  BY <1>1, <1>2, <1>3, <1>4, <1>5, <1>6, <1>7, <1>8, <1>9, StepKinds DEF LoopStep, FinalStep

-----------------------------------------------------------------------------
\* The invariant holds in every behaviour.
THEOREM CollectorInvariant == Spec => []Inv
<1>1. Inv /\ [Next]_vars => Inv'
  BY TypedStep, ControlStep, EvidenceStep, TroubleStep, ReturnStep, NoGameStep, LeftStep
     DEF Inv
<1>2. QED
  BY InvInit, <1>1, PTL DEF Spec

\* The host's files and its memory keep their types.
THEOREM CollectorTyped == Spec => []TypeOK
BY CollectorInvariant, PTL DEF Inv

\* A run that ended by finished.ok, its finalize not cut short, leaves no session that was
\* neither archived nor reported as failed.
THEOREM NoneForgotten == Spec => []NothingForgotten
<1>1. Inv => NothingForgotten
  BY DEF Inv, LeftInv, Normal, NothingForgotten, Owed, Begun
<1>2. QED
  BY CollectorInvariant, <1>1, PTL

\* What RETURN-INDEX.json lists is published, copied and of this run.
THEOREM ReturnTellsTheTruth == Spec => []ReturnIsTruthful
<1>1. Inv => ReturnIsTruthful
  BY DEF Inv, EvidenceInv
<1>2. QED
  BY CollectorInvariant, <1>1, PTL

\* One failing operation or one Ctrl-C after the start of the host leaves a RETURN or its
\* emergency substitute.
THEOREM ReturnSurvives == Spec => []OneFailureKeepsReturn
<1>1. Inv => OneFailureKeepsReturn
  <2>1. ASSUME TypeOK PROVE {faults, interrupts} \subseteq Nat
    BY <2>1 DEF TypeOK
  <2>2. QED
    BY <2>1 DEF Inv, ReturnInv, Safe, Twice, OneFailureKeepsReturn
<1>2. QED
  BY CollectorInvariant, <1>1, PTL

\* A first finalization finds a run with games or NO-GAME, whatever fails in it; it finds
\* both only if the session it archived before a Ctrl-C fails when it is archived again.
THEOREM NoGameOrGames == Spec => []NoGameExcludesGames
<1>1. Inv => NoGameExcludesGames
  BY DEF Inv, NoGameInv, NoGameExcludesGames
<1>2. QED
  BY CollectorInvariant, <1>1, PTL
=============================================================================
