----------------------------- MODULE Publication -----------------------------
(***************************************************************************)
(* pack_immutable of gpu_lab_collector.py, step by step: publishers that    *)
(* put an archive under ONE final name of GPU-Lab/Logs.  The archive is     *)
(* written to a private staging file, verified, then hard-linked to the     *)
(* final name or, where the file system refuses links (Android shared       *)
(* storage), copied into an exclusively created file.  Any step may raise,  *)
(* the handlers' own steps included, and any process may be killed between  *)
(* two steps.                                                              *)
(*                                                                         *)
(* The bytes of an archive are abstracted to its content (the inventory of  *)
(* hashes verified_zip compares) and to whether the file is complete: a     *)
(* truncated ZIP is no ZIP to verified_zip.  The staging file has a random  *)
(* name nobody else ever looks up: pc says how far it is.                   *)
(***************************************************************************)
EXTENDS Naturals

CONSTANTS Publishers,      \* collector processes publishing under the name
          Contents,        \* work-tree contents a call may be asked to pack
          Nobody, NoData,  \* not a publisher, not a content
          LinkOutcomes,    \* what os.link may do: subset of LinkResults
          OpenMayFail,     \* may an open of the copy fail with the name free or not?
          MaxFaults,       \* bound: errors in a behaviour
          MaxKills         \* bound: process deaths in a behaviour

LinkResults == {"linked", "refused"}

ASSUME PublishersAssumption == Nobody \notin Publishers
ASSUME ContentsAssumption == NoData \notin Contents
ASSUME LinkAssumption == LinkOutcomes \subseteq LinkResults
ASSUME OpenAssumption == OpenMayFail \in BOOLEAN
ASSUME BoundsAssumption == MaxFaults \in Nat /\ MaxKills \in Nat

VARIABLES dest,      \* the file under the final name
          pc,        \* where each call stands
          work,      \* the content each call packs
          outcome,   \* how each publisher's last call ended or is about to end
          receipt,   \* (auxiliary) the content whose digest was last returned
          mishaps,   \* (auxiliary) the errors that leave a trace under the name
          faults, kills

vars == <<dest, pc, work, outcome, receipt, mishaps, faults, kills>>

Absent == [st |-> "absent", by |-> Nobody, data |-> NoData]
Partial(p) == [st |-> "partial", by |-> p, data |-> NoData]
Whole(p) == [st |-> "whole", by |-> p, data |-> work[p]]

Files == [st : {"absent", "partial", "whole"},
          by : Publishers \cup {Nobody}, data : Contents \cup {NoData}]
\* Before the try with the staging file there is nothing to clean up.
Outside == {"idle", "canonical", "retry", "reply"}
Steps == Outside \cup {"stage", "link", "copy", "pour", "check", "undo", "verify",
                       "digest", "cleanup"}
\* "error" is an OSError or ValueError, which the host's loop survives (tick is tried
\* again); "fatal" is a BadZipFile or a Ctrl-C, which ends the host.
Outcomes == {"none", "ok", "error", "fatal", "killed"}

TypeOK == /\ dest \in Files
          /\ pc \in [Publishers -> Steps]
          /\ work \in [Publishers -> Contents \cup {NoData}]
          /\ outcome \in [Publishers -> Outcomes]
          /\ receipt \in [Publishers -> Contents \cup {NoData}]
          /\ mishaps \subseteq {"late", "unlink"}
          /\ faults \in 0..MaxFaults
          /\ kills \in 0..MaxKills

Init == /\ dest = Absent
        /\ pc = [p \in Publishers |-> "idle"]
        /\ work = [p \in Publishers |-> NoData]
        /\ outcome = [p \in Publishers |-> "none"]
        /\ receipt = [p \in Publishers |-> NoData]
        /\ mishaps = {}
        /\ faults = 0
        /\ kills = 0

Goto(p, step) == pc' = [pc EXCEPT ![p] = step]
End(p, result) == outcome' = [outcome EXCEPT ![p] = result]

\* verified_zip(dest, files) returns: complete, and every hash is the expected one.
Verified(p) == dest.st = "whole" /\ dest.data = work[p]
\* What it raises else: BadZipFile of a truncated file, ValueError or OSError.
Refusal == IF dest.st = "partial" THEN "fatal" ELSE "error"

\* Leave the call with an exception, through "finally: staging.unlink" in the try.
Raise(p, result) ==
  /\ Goto(p, IF pc[p] \in Outside THEN "idle" ELSE "cleanup")
  /\ End(p, result)

-----------------------------------------------------------------------------
\* tick, or a later finalize, packs a session it holds no record of, with the
\* evidence of the moment.
Call(p, c) ==
  /\ pc[p] = "idle"
  /\ Goto(p, "canonical")
  /\ work' = [work EXCEPT ![p] = c]
  /\ End(p, "none")
  /\ UNCHANGED <<dest, receipt, mishaps, faults, kills>>

\* The name is looked up once before the loop and once inside it.
NextLookup == [canonical |-> "retry", retry |-> "stage"]
UnverifiedLookUp(p) ==                    \* seeded defect: an existing file is trusted
  /\ pc[p] \in {"canonical", "retry"}
  /\ IF dest.st = "absent" THEN Goto(p, NextLookup[pc[p]]) ELSE Goto(p, "reply")
  /\ UNCHANGED <<dest, work, outcome, receipt, mishaps, faults, kills>>
LookUp(p) ==
  /\ pc[p] \in {"canonical", "retry"}
  /\ \/ dest.st = "absent" /\ Goto(p, NextLookup[pc[p]]) /\ UNCHANGED outcome
     \/ Verified(p) /\ Goto(p, "reply") /\ UNCHANGED outcome
     \/ dest.st # "absent" /\ ~Verified(p) /\ Raise(p, Refusal)
  /\ UNCHANGED <<dest, work, receipt, mishaps, faults, kills>>

\* The staging file is created, filled, synced and verified: all or an error (Fault).
Stage(p) ==
  /\ pc[p] = "stage"
  /\ Goto(p, "link")
  /\ UNCHANGED <<dest, work, outcome, receipt, mishaps, faults, kills>>

\* The link gives the staged file its final name in one step, or is refused
\* (no os.link, or an errno of the tolerated list), or finds the name taken.
Link(p) ==
  /\ pc[p] = "link"
  /\ \/ /\ "linked" \in LinkOutcomes
        /\ dest.st = "absent"
        /\ dest' = Whole(p)
        /\ Goto(p, "verify")
        /\ UNCHANGED outcome
     \/ /\ "linked" \in LinkOutcomes
        /\ dest.st # "absent"
        /\ Raise(p, "error")
        /\ UNCHANGED dest
     \/ /\ "refused" \in LinkOutcomes
        /\ Goto(p, "copy")
        /\ UNCHANGED <<dest, outcome>>
  /\ UNCHANGED <<work, receipt, mishaps, faults, kills>>

TruncatingOpenCopy(p) ==                    \* seeded defect: "wb" instead of "xb"
  /\ pc[p] = "copy"
  /\ dest' = Partial(p)
  /\ Goto(p, "pour")
  /\ UNCHANGED <<work, outcome, receipt, mishaps, faults, kills>>
\* with staging.open("rb") as src, dest.open("xb") as dst.  Any failure of an open
\* but FileExistsError reaches the handler that removes dest, whoever made it.
OpenCopy(p) ==
  /\ pc[p] = "copy"
  /\ \/ /\ dest.st = "absent"
        /\ dest' = Partial(p)
        /\ Goto(p, "pour")
        /\ UNCHANGED <<outcome, faults>>
     \/ /\ dest.st # "absent"
        /\ Raise(p, "error")
        /\ UNCHANGED <<dest, faults>>
     \/ /\ OpenMayFail
        /\ faults < MaxFaults
        /\ faults' = faults + 1
        /\ Goto(p, "undo")
        /\ End(p, "error")
        /\ UNCHANGED dest
  /\ UNCHANGED <<work, receipt, mishaps, kills>>

\* The last block reaches the file: it is a whole archive for whoever looks now.  If
\* the name was unlinked meanwhile the bytes go to a nameless file.
Pour(p) ==
  /\ pc[p] = "pour"
  /\ dest' = IF dest = Partial(p) THEN Whole(p) ELSE dest
  /\ Goto(p, "check")
  /\ UNCHANGED <<work, outcome, receipt, mishaps, faults, kills>>

\* fsync, close and verified_zip(dest), still inside the try of the copy.
Check(p) ==
  /\ pc[p] = "check"
  /\ \/ Verified(p) /\ Goto(p, "verify") /\ UNCHANGED outcome
     \/ ~Verified(p) /\ Goto(p, "undo") /\ End(p, Refusal)
  /\ UNCHANGED <<dest, work, receipt, mishaps, faults, kills>>

ForgetfulUndo(p) ==                    \* seeded defect: the truncated copy stays
  /\ pc[p] = "undo"
  /\ Goto(p, "cleanup")
  /\ UNCHANGED <<dest, work, outcome, receipt, mishaps, faults, kills>>
\* except BaseException: dest.unlink(missing_ok=True); raise.  The removal may fail
\* itself: its OSError replaces the first error and the file stays.
Undo(p) ==
  /\ pc[p] = "undo"
  /\ Goto(p, "cleanup")
  /\ \/ dest' = Absent /\ UNCHANGED <<outcome, mishaps, faults>>
     \/ /\ faults < MaxFaults
        /\ faults' = faults + 1
        /\ mishaps' = mishaps \cup {"unlink"}
        /\ End(p, "error")
        /\ UNCHANGED dest
  /\ UNCHANGED <<work, receipt, kills>>

Verify(p) ==
  /\ pc[p] = "verify"
  /\ \/ Verified(p) /\ Goto(p, "digest") /\ UNCHANGED outcome
     \/ ~Verified(p) /\ Raise(p, Refusal)
  /\ UNCHANGED <<dest, work, receipt, mishaps, faults, kills>>

\* return dest, digest(dest), len(files): the digest of whatever is there now.
Digest(p) ==
  /\ pc[p] \in {"reply", "digest"}
  /\ \/ /\ dest.st # "absent"
        /\ receipt' = [receipt EXCEPT ![p] = dest.data]
        /\ Goto(p, IF pc[p] = "reply" THEN "idle" ELSE "cleanup")
        /\ End(p, "ok")
     \/ /\ dest.st = "absent"
        /\ Raise(p, "error")
        /\ UNCHANGED receipt
  /\ UNCHANGED <<dest, work, mishaps, faults, kills>>

\* finally: staging.unlink(missing_ok=True), which may raise after all went well.
Cleanup(p) ==
  /\ pc[p] = "cleanup"
  /\ Goto(p, "idle")
  /\ \/ UNCHANGED <<outcome, faults>>
     \/ faults < MaxFaults /\ faults' = faults + 1 /\ End(p, "error")
  /\ UNCHANGED <<dest, work, receipt, mishaps, kills>>

-----------------------------------------------------------------------------
\* An OSError, a failed verification or a Ctrl-C.  From the first byte of the copy to
\* the end of its verification the handler removes the file, a whole one included;
\* elsewhere the error just propagates.
Fault(p) ==
  /\ faults < MaxFaults
  /\ faults' = faults + 1
  /\ \E result \in {"error", "fatal"} :
       \/ /\ pc[p] \in Steps \ {"idle", "copy", "pour", "check", "undo", "cleanup"}
          /\ Raise(p, result)
       \/ /\ pc[p] \in {"pour", "check"}
          /\ Goto(p, "undo")
          /\ End(p, result)
  /\ mishaps' = IF pc[p] = "check" THEN mishaps \cup {"late"} ELSE mishaps
  /\ UNCHANGED <<dest, work, receipt, kills>>

\* The process dies: no handler runs, files stay.
Kill(p) ==
  /\ kills < MaxKills
  /\ kills' = kills + 1
  /\ Goto(p, "idle")
  /\ End(p, "killed")
  /\ UNCHANGED <<dest, work, receipt, mishaps, faults>>

Advance(p) == \/ LookUp(p) \/ Stage(p) \/ Link(p) \/ OpenCopy(p) \/ Pour(p)
              \/ Check(p) \/ Undo(p) \/ Verify(p) \/ Digest(p) \/ Cleanup(p)

Next == \E p \in Publishers : \/ \E c \in Contents : Call(p, c)
                              \/ Advance(p)
                              \/ Fault(p)
                              \/ Kill(p)

Spec == Init /\ [][Next]_vars

\* A call runs to its end.  The loop of a living host packs a session until it is
\* published; whether a host that ended is followed by another is the user's affair.
Due(p) == outcome[p] \in {"none", "error"} /\ \E c \in Contents : Call(p, c)
Fairness == \A p \in Publishers : WF_vars(Advance(p)) /\ WF_vars(Due(p))
FairSpec == Spec /\ Fairness

-----------------------------------------------------------------------------
\* A call that reported success really has its own, complete archive under the
\* name, and that stays so whatever the other publishers do, unless an error struck
\* some copy between its last byte and the end of its verification (late): then a
\* call that met that whole archive reported what its creator removes afterwards.
SuccessMeansPublished ==
  \A p \in Publishers : outcome[p] = "ok" => Verified(p) \/ "late" \in mishaps

\* A call gives up the truncated file it is filling only by completing or removing
\* it, by being killed or by failing to remove it: no error path of pack_immutable
\* simply leaves a broken archive under the name.
Copying(p) == dest = Partial(p) /\ pc[p] \in {"pour", "undo"}
NoPartialLeftBehind ==
  [][\A p \in Publishers :
       Copying(p) /\ dest' = dest => \/ pc'[p] \in {"pour", "undo"}
                                     \/ kills' > kills
                                     \/ pc[p] = "undo" /\ faults' > faults]_vars

\* With finitely many errors an archive ends up under the name for good, unless a
\* writer was killed in the middle of a copy or could not remove its truncated file
\* (that file then blocks the name), or nobody packs the session any more: a publisher
\* that meets the truncated file of another one's copy in progress gets a BadZipFile
\* and its host ends, one that met a whole archive that was then removed (late) was
\* told "ok" and does not try again.
BlockedForGood == /\ kills > 0 \/ "unlink" \in mishaps
                  /\ dest.st = "partial"
                  /\ ~Copying(dest.by)
Abandoned == /\ dest.st = "absent"
             /\ \A p \in Publishers : \/ outcome[p] \in {"fatal", "killed"}
                                      \/ outcome[p] = "ok" /\ "late" \in mishaps
EventuallyPublished ==
  <>[](dest.st = "whole") \/ <>[]BlockedForGood \/ <>[]Abandoned

\* A complete archive is never replaced, truncated or removed but by the handler of
\* the call that is creating it (pack_immutable's comment "Never truncate or replace
\* a prior archive; remove incomplete own destination").
ArchiveStays ==
  [][dest.st = "whole" /\ dest' # dest =>
       dest' = Absent /\ pc[dest.by] = "undo" /\ pc'[dest.by] # "undo"]_vars

\* The publishers together implement a write-once name, whose content is provisional
\* until the copy that brought it has been verified.
Promise == INSTANCE WriteOnce WITH
             published <- IF dest.st = "whole" THEN dest.data ELSE NoData,
             owner <- IF dest.st = "whole" /\ pc[dest.by] \in {"check", "undo"}
                      THEN dest.by ELSE Nobody,
             doubted <- "late" \in mishaps
ImplementsWriteOnce == Promise!Spec
=============================================================================
