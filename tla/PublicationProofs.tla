-------------------------- MODULE PublicationProofs --------------------------
(***************************************************************************)
(* Proofs about Publication, for any number of publishers and contents, any *)
(* mixture of hard links and copies, any number of errors (the handlers'    *)
(* own included) and process deaths.  All but TypeCorrect and               *)
(* NoTruncatedLeft assume that the two opens of the copy either succeed or  *)
(* find the name taken (OpenMayFail = FALSE): without it the error path     *)
(* removes a file it did not create, as MCPublicationReopen.cfg shows.      *)
(***************************************************************************)
EXTENDS Publication, TLAPS

\* Every variable keeps its type: the calls never leave their steps, the bounded
\* counters never pass their bounds.
THEOREM TypeCorrect == Spec => []TypeOK
<1>1. Init => TypeOK
  BY BoundsAssumption DEF Init, TypeOK, Files, Steps, Outside, Outcomes, Absent
<1>2. TypeOK /\ [Next]_vars => TypeOK'
  <2> SUFFICES ASSUME TypeOK, [Next]_vars PROVE TypeOK'
    OBVIOUS
  <2> USE DEF TypeOK, Files, Steps, Outside, Outcomes, Absent, Partial, Whole, Goto,
              End, Raise, Refusal
  <2>1. ASSUME NEW p \in Publishers, NEW c \in Contents, Call(p, c)
        PROVE  TypeOK'
    BY <2>1 DEF Call
  <2>2. ASSUME NEW p \in Publishers, LookUp(p)
        PROVE  TypeOK'
    <3>1. NextLookup[pc[p]] \in {"retry", "stage"}
      BY <2>2 DEF LookUp, NextLookup
    <3>2. QED
      BY <2>2, <3>1 DEF LookUp
  <2>3. ASSUME NEW p \in Publishers, Stage(p) \/ Cleanup(p)
        PROVE  TypeOK'
    <3>1. CASE Stage(p)
      BY <3>1 DEF Stage
    <3>2. CASE Cleanup(p) /\ UNCHANGED <<outcome, faults>>
      BY <3>2 DEF Cleanup
    <3>3. CASE Cleanup(p) /\ faults < MaxFaults /\ faults' = faults + 1 /\ End(p, "error")
      BY <3>3, BoundsAssumption DEF Cleanup
    <3>4. QED
      BY <2>3, <3>1, <3>2, <3>3 DEF Cleanup
  <2>4. ASSUME NEW p \in Publishers, Link(p)
        PROVE  TypeOK'
    BY <2>4 DEF Link
  <2>5. ASSUME NEW p \in Publishers, OpenCopy(p)
        PROVE  TypeOK'
    BY <2>5, BoundsAssumption DEF OpenCopy
  <2>6. ASSUME NEW p \in Publishers, Pour(p) \/ Check(p)
        PROVE  TypeOK'
    <3>1. CASE Pour(p)
      BY <3>1 DEF Pour
    <3>2. CASE Check(p)
      BY <3>2 DEF Check
    <3>3. QED
      BY <2>6, <3>1, <3>2
  <2>7. ASSUME NEW p \in Publishers, Undo(p)
        PROVE  TypeOK'
    <3>1. CASE dest' = Absent /\ UNCHANGED <<outcome, mishaps, faults>>
      BY <2>7, <3>1 DEF Undo
    <3>2. CASE /\ faults < MaxFaults
               /\ faults' = faults + 1
               /\ mishaps' = mishaps \cup {"unlink"}
               /\ End(p, "error")
               /\ UNCHANGED dest
      BY <2>7, <3>2, BoundsAssumption DEF Undo
    <3>3. QED
      BY <2>7, <3>1, <3>2 DEF Undo
  <2>8. ASSUME NEW p \in Publishers, Verify(p) \/ Digest(p)
        PROVE  TypeOK'
    BY <2>8 DEF Verify, Digest
  <2>9. ASSUME NEW p \in Publishers, Fault(p)
        PROVE  TypeOK'
    BY <2>9, BoundsAssumption DEF Fault
  <2>10. ASSUME NEW p \in Publishers, Kill(p)
         PROVE  TypeOK'
    BY <2>10, BoundsAssumption DEF Kill
  <2>11. CASE UNCHANGED vars
    BY <2>11 DEF vars
  <2>12. QED
    BY <2>1, <2>2, <2>3, <2>4, <2>5, <2>6, <2>7, <2>8, <2>9, <2>10, <2>11
       DEF Next, Advance
<1>3. QED
  BY <1>1, <1>2, PTL DEF Spec

-----------------------------------------------------------------------------
(***************************************************************************)
(* The inductive invariant.  A call that is copying owns the file under the *)
(* name (Ownership), truncated at first, whole from the last byte on: that  *)
(* is what makes its error path remove no file but its own, and it is the   *)
(* part SuccessMeansPublished lacks.  A whole file is removed only after an *)
(* error between its last byte and the end of its verification (Doubted);   *)
(* without one a call past its last verification has a verified archive.    *)
(***************************************************************************)
Ownership(p) == /\ pc[p] = "pour" => dest = Partial(p)
                /\ pc[p] = "check" => dest = Whole(p)
                /\ pc[p] = "undo" => dest = Partial(p) \/ dest = Whole(p)
Doubted(p) == pc[p] = "undo" /\ dest.st = "whole" => "late" \in mishaps
Confirmed(p) == pc[p] \in {"reply", "digest"} \/ outcome[p] = "ok"
                  => Verified(p) \/ "late" \in mishaps
Quiet(p) == outcome[p] = "ok" => pc[p] \in {"cleanup", "idle"}
Packing(p) == pc[p] # "idle" /\ pc[p] # "cleanup" => work[p] \in Contents
Meaningful == dest.st = "whole" => dest.data \in Contents /\ dest.by \in Publishers
Filled == dest.st = "partial" => dest.data = NoData

IInv == /\ TypeOK
        /\ Meaningful
        /\ Filled
        /\ \A p \in Publishers :
             Ownership(p) /\ Doubted(p) /\ Confirmed(p) /\ Quiet(p) /\ Packing(p)

\* Nobody has the final name at first.
LEMMA InitIInv == Init => IInv
BY BoundsAssumption
   DEF Init, IInv, TypeOK, Files, Steps, Outside, Outcomes, Absent, Meaningful, Filled,
       Ownership, Doubted, Confirmed, Quiet, Packing

\* A step that leaves the file and the other calls alone keeps their part of IInv.
LEMMA StepIInv ==
  ASSUME OpenMayFail = FALSE, TypeOK', IInv, [Next]_vars
  PROVE  IInv'
<1> USE DEF IInv, TypeOK, Files, Steps, Outside, Absent, Partial, Whole, Meaningful,
            Filled, Ownership, Doubted, Confirmed, Quiet, Packing, Verified, Refusal, Goto,
            End, Raise
<1>1. ASSUME NEW p \in Publishers, NEW c \in Contents, Call(p, c)
      PROVE  IInv'
  BY <1>1 DEF Call
<1>2. ASSUME NEW p \in Publishers, LookUp(p)
      PROVE  IInv'
  <2>1. NextLookup[pc[p]] \in {"retry", "stage"}
    BY <1>2 DEF LookUp, NextLookup
  <2>2. QED
    BY <1>2, <2>1 DEF LookUp
<1>3. ASSUME NEW p \in Publishers, Stage(p) \/ Cleanup(p)
      PROVE  IInv'
  BY <1>3 DEF Stage, Cleanup
<1>4. ASSUME NEW p \in Publishers, Link(p)
      PROVE  IInv'
  BY <1>4, PublishersAssumption DEF Link
<1>5. ASSUME NEW p \in Publishers, OpenCopy(p)
      PROVE  IInv'
  BY <1>5, PublishersAssumption DEF OpenCopy
<1>6. ASSUME NEW p \in Publishers, Pour(p)
      PROVE  IInv'
  BY <1>6, PublishersAssumption DEF Pour
<1>7. ASSUME NEW p \in Publishers, Check(p)
      PROVE  IInv'
  BY <1>7 DEF Check
<1>8. ASSUME NEW p \in Publishers, Undo(p)
      PROVE  IInv'
  BY <1>8 DEF Undo
<1>9. ASSUME NEW p \in Publishers, Verify(p) \/ Digest(p)
      PROVE  IInv'
  BY <1>9 DEF Verify, Digest
<1>10. ASSUME NEW p \in Publishers, Fault(p)
       PROVE  IInv'
  BY <1>10 DEF Fault
<1>11. ASSUME NEW p \in Publishers, Kill(p)
       PROVE  IInv'
  BY <1>11 DEF Kill
<1>12. CASE UNCHANGED vars
  BY <1>12 DEF vars
<1>13. QED
  BY <1>1, <1>2, <1>3, <1>4, <1>5, <1>6, <1>7, <1>8, <1>9, <1>10, <1>11, <1>12
     DEF Next, Advance

\* Whoever fills, checks or removes the final name owns the file there, and a whole
\* file is on its way out only after a late error (pack_immutable, when the opens of
\* its copy fail only because the name is taken).
THEOREM Invariance == ASSUME OpenMayFail = FALSE PROVE Spec => []IInv
<1>1. TypeOK' /\ IInv /\ [Next]_vars => IInv'
  BY StepIInv
<1>2. QED
  BY InitIInv, TypeCorrect, <1>1, PTL DEF Spec

\* As long as no error strikes a copy between its last byte and the end of its
\* verification, a publisher that was told its archive is published has that archive,
\* complete and with its own content, under the name.
THEOREM Success ==
  ASSUME OpenMayFail = FALSE PROVE Spec => []SuccessMeansPublished
<1>1. IInv => SuccessMeansPublished
  BY DEF IInv, SuccessMeansPublished, Confirmed
<1>2. QED
  BY Invariance, <1>1, PTL

\* The handler of p removes a whole file only if p made it.
Removal(p) == dest' = Absent /\ dest.by = p /\ pc[p] = "undo" /\ pc'[p] = "cleanup"

\* A complete archive is replaced or truncated by nobody, and removed by nobody but
\* the handler of its own creator, after a late error.
LEMMA WholeStays ==
  ASSUME OpenMayFail = FALSE, IInv, [Next]_vars, dest.st = "whole", dest' # dest
  PROVE  /\ "late" \in mishaps
         /\ receipt' = receipt
         /\ mishaps' = mishaps
         /\ \E p \in Publishers : Removal(p)
<1> USE DEF IInv, Ownership, Doubted, Partial, Whole, Goto, Raise
<1>1. ASSUME NEW p \in Publishers, Undo(p)
      PROVE  "late" \in mishaps /\ receipt' = receipt /\ mishaps' = mishaps /\ Removal(p)
  BY <1>1 DEF Undo, TypeOK, Removal
<1>2. ASSUME NEW p \in Publishers, Link(p) \/ OpenCopy(p) \/ Pour(p)
      PROVE  FALSE
  BY <1>2 DEF Link, OpenCopy, Pour
<1>3. ASSUME NEW p \in Publishers,
             \/ LookUp(p) \/ Stage(p) \/ Check(p) \/ Verify(p) \/ Digest(p)
             \/ Cleanup(p) \/ Fault(p) \/ Kill(p) \/ \E c \in Contents : Call(p, c)
      PROVE  FALSE
  BY <1>3 DEF LookUp, Stage, Check, Verify, Digest, Cleanup, Fault, Kill, Call
<1>4. CASE UNCHANGED vars
  BY <1>4 DEF vars
<1>5. QED
  BY <1>1, <1>2, <1>3, <1>4 DEF Next, Advance

\* A complete archive is never replaced, and removed only by the handler of the call
\* that was creating it (the comment at gpu_lab_collector.py:336), under the same
\* hypothesis.
THEOREM NeverReplaced == ASSUME OpenMayFail = FALSE PROVE Spec => ArchiveStays
<1> DEFINE Stays == dest.st = "whole" /\ dest' # dest =>
                      dest' = Absent /\ pc[dest.by] = "undo" /\ pc'[dest.by] # "undo"
<1>1. IInv /\ [Next]_vars => [Stays]_vars
  BY WholeStays DEF Removal
<1>2. QED
  BY Invariance, <1>1, PTL DEF Spec, ArchiveStays

\* No error path simply leaves a truncated archive under the final name, whatever
\* fails and wherever: a killed writer does, or one whose removal fails too.
THEOREM NoTruncatedLeft == Spec => NoPartialLeftBehind
<1> DEFINE Kept == \A p \in Publishers :
      Copying(p) /\ dest' = dest => \/ pc'[p] \in {"pour", "undo"}
                                    \/ kills' > kills
                                    \/ pc[p] = "undo" /\ faults' > faults
<1>1. TypeOK /\ [Next]_vars => [Kept]_vars
  <2> SUFFICES ASSUME TypeOK, Next, NEW p \in Publishers, Copying(p), dest' = dest
               PROVE  \/ pc'[p] \in {"pour", "undo"}
                      \/ kills' > kills
                      \/ pc[p] = "undo" /\ faults' > faults
    OBVIOUS
  <2> USE DEF TypeOK, Copying, Partial, Absent, Whole, Goto, Raise
  <2>1. ASSUME NEW q \in Publishers, Pour(q)
        PROVE  pc'[p] \in {"pour", "undo"}
    BY <2>1 DEF Pour
  <2>2. ASSUME NEW q \in Publishers, Undo(q)
        PROVE  pc'[p] \in {"pour", "undo"} \/ (pc[p] = "undo" /\ faults' > faults)
    BY <2>2 DEF Undo
  <2>3. ASSUME NEW q \in Publishers, Kill(q)
        PROVE  kills' > kills
    BY <2>3 DEF Kill
  <2>4. ASSUME NEW q \in Publishers, Link(q) \/ OpenCopy(q) \/ Fault(q)
        PROVE  pc'[p] \in {"pour", "undo"}
    BY <2>4 DEF Link, OpenCopy, Fault
  <2>5. ASSUME NEW q \in Publishers,
               \/ LookUp(q) \/ Stage(q) \/ Check(q) \/ Verify(q) \/ Digest(q)
               \/ Cleanup(q) \/ \E c \in Contents : Call(q, c)
        PROVE  pc'[p] \in {"pour", "undo"}
    BY <2>5 DEF LookUp, Stage, Check, Verify, Digest, Cleanup, Call
  <2>6. QED
    BY <2>1, <2>2, <2>3, <2>4, <2>5 DEF Next, Advance
<1>2. QED
  BY TypeCorrect, <1>1, PTL DEF Spec, NoPartialLeftBehind

-----------------------------------------------------------------------------
\* The detailed publication implements the write-once name: the step that makes the
\* file complete is Publish, provisional for a copy and settled for a link; the end
\* of the copy's verification, a removal that fails and a death are Settle; a late
\* error is Doubt, the handler's removal Withdraw, the digest Confirm; every other
\* step is a stutter.
THEOREM Refinement == ASSUME OpenMayFail = FALSE PROVE Spec => ImplementsWriteOnce
<1> DEFINE name == IF dest.st = "whole" THEN dest.data ELSE NoData
           maker == IF dest.st = "whole" /\ pc[dest.by] \in {"check", "undo"}
                    THEN dest.by ELSE Nobody
           late == "late" \in mishaps
           Stutter == name' = name /\ maker' = maker /\ late' = late /\ receipt' = receipt
<1>1. Init => Promise!Init
  BY DEF Init, Promise!Init, Absent
<1>2. IInv /\ IInv' /\ [Next]_vars => [Promise!Next]_(Promise!vars)
  <2> SUFFICES ASSUME IInv, IInv', [Next]_vars
               PROVE  Promise!Next \/ Stutter
    BY DEF Promise!vars
  <2> USE DEF Goto, End, Raise
  <2>1. ASSUME NEW p \in Publishers, Digest(p)
        PROVE  Promise!Next \/ Stutter
    <3>1. maker' = maker /\ late' = late /\ name' = name
      BY <2>1 DEF Digest, IInv, TypeOK, Meaningful, Ownership, Partial, Whole
    <3>2. CASE dest.st = "absent"
      BY <2>1, <3>1, <3>2 DEF Digest
    <3>3. CASE dest.st # "absent"
      <4>1. name = dest.data
        <5>1. CASE dest.st = "whole"
          BY <5>1
        <5>2. CASE dest.st = "partial"
          BY <5>2 DEF IInv, Filled
        <5>3. QED
          BY <3>3, <5>1, <5>2 DEF IInv, TypeOK, Files
      <4>2. name # NoData \/ late
        BY <2>1, ContentsAssumption DEF Digest, IInv, Confirmed, Verified, Meaningful
      <4>3. receipt' = [receipt EXCEPT ![p] = name]
        BY <2>1, <3>3, <4>1 DEF Digest
      <4>4. Promise!Confirm(p)
        BY <3>1, <4>2, <4>3 DEF Promise!Confirm
      <4>5. QED
        BY <4>4 DEF Promise!Next
    <3>4. QED
      BY <3>2, <3>3
  <2>2. ASSUME NEW p \in Publishers, Link(p) \/ OpenCopy(p) \/ Pour(p)
        PROVE  Promise!Next \/ Stutter
    <3>1. receipt' = receipt /\ late' = late
      BY <2>2 DEF Link, OpenCopy, Pour
    <3>2. CASE dest' = dest
      <4>1. maker' = maker
        BY <2>2, <3>2 DEF Link, OpenCopy, Pour, IInv, TypeOK, Meaningful, Ownership,
                          Partial, Whole
      <4>2. QED
        BY <3>1, <3>2, <4>1
    <3>3. CASE dest' # dest
      <4>1. dest.st # "whole"
        BY <2>2, <3>3 DEF Link, OpenCopy, Pour, Partial
      <4>2. CASE dest'.st = "whole"
        <5>1. dest'.data \in Contents /\ dest'.by \in Publishers
          BY <4>2 DEF IInv, Meaningful
        <5>2. Promise!Publish(dest'.data, maker')
          BY <3>1, <4>1, <4>2, <5>1 DEF Promise!Publish
        <5>3. maker' \in Publishers \cup {Nobody}
          BY <5>1
        <5>4. QED
          BY <5>1, <5>2, <5>3 DEF Promise!Next
      <4>3. CASE dest'.st # "whole"
        BY <3>1, <4>1, <4>3
      <4>4. QED
        BY <4>2, <4>3
    <3>4. QED
      BY <3>2, <3>3
  <2>3. ASSUME NEW p \in Publishers, Undo(p)
        PROVE  Promise!Next \/ Stutter
    <3>1. receipt' = receipt /\ late' = late
      BY <2>3 DEF Undo
    <3>2. CASE dest.st = "whole"
      <4>1. maker = p /\ p # Nobody /\ late
        BY <2>3, <3>2, PublishersAssumption
           DEF Undo, IInv, Ownership, Doubted, Partial, Whole
      <4>2. maker' = Nobody
        BY <2>3, <4>1 DEF Undo, IInv, TypeOK, Absent
      <4>3. CASE dest' = Absent
        <5>1. name' = NoData
          BY <4>3 DEF Absent
        <5>2. Promise!Withdraw
          BY <3>1, <4>1, <4>2, <5>1 DEF Promise!Withdraw
        <5>3. QED
          BY <5>2 DEF Promise!Next
      <4>4. CASE dest' = dest
        <5>1. Promise!Settle
          BY <3>1, <4>2, <4>4 DEF Promise!Settle
        <5>2. QED
          BY <5>1 DEF Promise!Next
      <4>5. QED
        BY <2>3, <4>3, <4>4 DEF Undo
    <3>3. CASE dest.st # "whole"
      BY <2>3, <3>1, <3>3 DEF Undo, Absent
    <3>4. QED
      BY <3>2, <3>3
  <2>4. ASSUME NEW p \in Publishers, Fault(p)
        PROVE  Promise!Next \/ Stutter
    <3>1. receipt' = receipt /\ name' = name
      BY <2>4 DEF Fault
    <3>2. CASE pc[p] = "check"
      <4>1. maker = p /\ maker' = p /\ late' = TRUE /\ p # Nobody
        BY <2>4, <3>2, PublishersAssumption
           DEF Fault, IInv, TypeOK, Ownership, Whole, Outside
      <4>2. Promise!Doubt
        BY <3>1, <4>1 DEF Promise!Doubt
      <4>3. QED
        BY <4>2 DEF Promise!Next
    <3>3. CASE pc[p] # "check"
      <4>1. late' = late
        BY <2>4, <3>3 DEF Fault
      <4>2. maker' = maker
        BY <2>4, <3>3 DEF Fault, IInv, TypeOK, Meaningful, Ownership, Partial
      <4>3. QED
        BY <3>1, <4>1, <4>2
    <3>4. QED
      BY <3>2, <3>3
  <2>5. ASSUME NEW p \in Publishers, Check(p) \/ Kill(p)
        PROVE  Promise!Next \/ Stutter
    <3>1. receipt' = receipt /\ late' = late /\ name' = name
      BY <2>5 DEF Check, Kill
    <3>2. maker' = maker \/ maker' = Nobody
      BY <2>5 DEF Check, Kill, IInv, TypeOK, Meaningful
    <3>3. CASE maker' = Nobody
      BY <3>1, <3>3 DEF Promise!Settle, Promise!Next
    <3>4. QED
      BY <3>1, <3>2, <3>3
  <2>6. ASSUME NEW p \in Publishers,
               \/ LookUp(p) \/ Stage(p) \/ Verify(p) \/ Cleanup(p)
               \/ \E c \in Contents : Call(p, c)
        PROVE  Stutter
    <3>1. receipt' = receipt /\ late' = late /\ dest' = dest
      BY <2>6 DEF LookUp, Stage, Verify, Cleanup, Call
    <3>2. \A q \in Publishers : pc'[q] \in {"check", "undo"} <=> pc[q] \in {"check", "undo"}
      BY <2>6 DEF LookUp, Stage, Verify, Cleanup, Call, IInv, TypeOK, NextLookup
    <3>3. QED
      BY <3>1, <3>2 DEF IInv, Meaningful
  <2>7. CASE UNCHANGED vars
    BY <2>7 DEF vars
  <2>8. QED
    BY <2>1, <2>2, <2>3, <2>4, <2>5, <2>6, <2>7 DEF Next, Advance
<1>3. QED
  BY <1>1, <1>2, Invariance, PTL DEF Spec, ImplementsWriteOnce, Promise!Spec
=============================================================================
