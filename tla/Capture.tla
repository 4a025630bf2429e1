------------------------------- MODULE Capture -------------------------------
(***************************************************************************)
(* capture_sources of gpu_lab_collector.py against programs that go on      *)
(* writing their logs: Wine, DXVK or the game append to a file, rewrite     *)
(* it or copy another over it while it is hashed and copied.                 *)
(*                                                                         *)
(* A file is a sequence of blocks (the 1 MiB reads of the code), a block is  *)
(* the number of the write that made it, and a SHA-256 is the content        *)
(* itself.  The clock of the file system is coarse: a write may leave        *)
(* st_mtime_ns as it was.                                                    *)
(***************************************************************************)
EXTENDS Naturals, Sequences

CONSTANTS Sources,      \* number of sources selected for a session
          MaxBlocks,    \* bound: blocks of a file
          MaxWrites,    \* bound: writes by other programs
          MaxFaults     \* bound: OSErrors met by the capture

ASSUME BoundsAssumption ==
  {Sources, MaxBlocks, MaxWrites, MaxFaults} \subseteq Nat /\ MaxBlocks # 0

VARIABLES file, mtime,       \* the sources
          history,           \* the contents each source has had: auxiliary
          moved,             \* sources written while they were captured: auxiliary
          pick, pc, attempt, \* where the capture stands
          hash,              \* dedup_hash of the source
          buffer, before,    \* blocks read, and the stat before the copy
          dst,               \* the copies in the work tree
          entries, omitted, errors,    \* the report
          seen,              \* seen_contents: <<size at the scan, hash>> -> source
          kept,              \* copies that could not be removed
          writes, faults

outside == <<file, mtime, history, moved, writes>>
report == <<entries, omitted, errors, seen>>
vars == <<file, mtime, history, moved, pick, pc, attempt, hash, buffer, before, dst,
          entries, omitted, errors, seen, kept, writes, faults>>

Paths == 1..Sources              \* in the order of select_sources
NoFile == <<MaxWrites + 1>>       \* not a content: a block no write makes
Scanned == 1                     \* the size of every source at the scan
Contents == UNION {[1..n -> 0..MaxWrites] : n \in 0..MaxBlocks}
Reading == {"hash", "copy", "check"}

TypeOK == /\ file \in [Paths -> Contents]
          /\ mtime \in [Paths -> 0..MaxWrites]
          /\ history \in [Paths -> SUBSET Contents]
          /\ \A p \in Paths : file[p] \in history[p]
          /\ moved \subseteq Paths /\ kept \subseteq Paths
          /\ pick \in Nat /\ pick - 1 \in {0} \cup Paths
          /\ pc \in Reading \cup {"stat", "compare", "done"}
          /\ attempt \in {0, 1}
          /\ hash \in Contents /\ buffer \in Contents
          /\ before \in [size : 0..MaxBlocks, mtime : 0..MaxWrites]
          /\ dst \in [Paths -> Contents \cup {NoFile}]
          /\ DOMAIN entries \subseteq Paths /\ DOMAIN omitted \subseteq Paths
          /\ errors \subseteq Paths
          /\ writes \in 0..MaxWrites /\ faults \in 0..MaxFaults

\* The sources are identical when the capture begins: aliases of one log, or copies.
Init == /\ file = [p \in Paths |-> <<0>>] /\ mtime = [p \in Paths |-> 0]
        /\ history = [p \in Paths |-> {<<0>>}] /\ moved = {}
        /\ pick = 1 /\ attempt = 0
        /\ pc = IF 1 \in Paths THEN "hash" ELSE "done"
        /\ hash = <<>> /\ buffer = <<>> /\ before = [size |-> 0, mtime |-> 0]
        /\ dst = [p \in Paths |-> NoFile]
        /\ entries = <<>> /\ omitted = <<>> /\ errors = {} /\ seen = <<>>
        /\ kept = {} /\ writes = 0 /\ faults = 0

Stat(p) == [size |-> Len(file[p]), mtime |-> mtime[p]]
With(f, x, y) == [z \in DOMAIN f \cup {x} |-> IF z = x THEN y ELSE f[z]]

-----------------------------------------------------------------------------
\* Another program appends a block, rewrites one, or copies a source over another.
Write(p) ==
  /\ writes < MaxWrites
  /\ writes' = writes + 1
  /\ \/ Len(file[p]) < MaxBlocks /\ file' = [file EXCEPT ![p] = Append(@, writes')]
     \/ \E b \in DOMAIN file[p] : file' = [file EXCEPT ![p][b] = writes']
     \/ \E q \in Paths \ {p} : file' = [file EXCEPT ![p] = file[q]]
  /\ mtime' \in {mtime, [mtime EXCEPT ![p] = writes']}
  /\ history' = [history EXCEPT ![p] = @ \cup {file'[p]}]
  /\ moved' = IF p = pick /\ pc # "done" THEN moved \cup {p} ELSE moved
  /\ UNCHANGED <<pick, pc, attempt, hash, buffer, before, dst, report, kept, faults>>

-----------------------------------------------------------------------------
\* One block of digest(path) or of the copy.
Read ==
  /\ pc \in Reading
  /\ Len(buffer) < Len(file[pick])
  /\ buffer' = Append(buffer, file[pick][Len(buffer) + 1])
  /\ UNCHANGED <<outside, pick, pc, attempt, hash, before, dst, report, kept, faults>>

AtEnd == Len(buffer) >= Len(file[pick])

NextPick == /\ pick' = pick + 1
            /\ pc' = IF pick + 1 \in Paths THEN "hash" ELSE "done"
            /\ attempt' = 0 /\ buffer' = <<>>

\* The content of a source decides whether it is an alias of one already captured.
SizeOnlyHashed ==                    \* seeded defect: the content is not part of the key
  /\ pc = "hash" /\ AtEnd
  /\ hash' = buffer
  /\ IF \E q \in Paths : q < pick /\ q \in DOMAIN entries
     THEN /\ omitted' = With(omitted, pick,
                             [sha |-> hash', at |-> CHOOSE q \in DOMAIN entries : q < pick])
          /\ NextPick
     ELSE pc' = "stat" /\ buffer' = <<>> /\ UNCHANGED <<pick, attempt, omitted>>
  /\ UNCHANGED <<outside, before, dst, entries, errors, seen, kept, faults>>
Hashed ==
  /\ pc = "hash" /\ AtEnd
  /\ hash' = buffer
  /\ IF <<Scanned, buffer>> \in DOMAIN seen
     THEN /\ omitted' = With(omitted, pick, [sha |-> buffer, at |-> seen[<<Scanned, buffer>>]])
          /\ NextPick
     ELSE pc' = "stat" /\ buffer' = <<>> /\ UNCHANGED <<pick, attempt, omitted>>
  /\ UNCHANGED <<outside, before, dst, entries, errors, seen, kept, faults>>

\* before = path.stat(), and the destination is opened "wb".
StatBefore ==
  /\ pc = "stat"
  /\ before' = Stat(pick)
  /\ dst' = [dst EXCEPT ![pick] = <<>>]
  /\ pc' = "copy"
  /\ UNCHANGED <<outside, pick, attempt, hash, buffer, report, kept, faults>>

Copied ==
  /\ pc = "copy" /\ AtEnd
  /\ dst' = [dst EXCEPT ![pick] = buffer]
  /\ pc' = "compare" /\ buffer' = <<>>
  /\ UNCHANGED <<outside, pick, attempt, hash, before, report, kept, faults>>

\* An attempt that failed: there are two.  After the second the copy is removed; an
\* error of that removal is ignored.
LeavingAttempt ==                    \* seeded defect: the rejected copy is not removed
  /\ buffer' = <<>>
  /\ IF attempt = 0
     THEN attempt' = 1 /\ pc' = "stat" /\ UNCHANGED <<pick, errors, dst, kept>>
     ELSE errors' = errors \cup {pick} /\ NextPick /\ UNCHANGED <<dst, kept>>
FailAttempt ==
  /\ buffer' = <<>>
  /\ IF attempt = 0
     THEN attempt' = 1 /\ pc' = "stat" /\ UNCHANGED <<pick, errors, dst, kept>>
     ELSE /\ errors' = errors \cup {pick} /\ NextPick
          /\ \/ dst' = [dst EXCEPT ![pick] = NoFile] /\ UNCHANGED kept
             \/ dst[pick] # NoFile /\ kept' = kept \cup {pick} /\ UNCHANGED dst

\* after = path.stat(): the stat is the one before, and the copy has its size.
Compare ==
  /\ pc = "compare"
  /\ IF Stat(pick) = before /\ Len(dst[pick]) = before.size
     THEN pc' = "check" /\ buffer' = <<>> /\ UNCHANGED <<pick, attempt, errors, dst, kept>>
     ELSE FailAttempt
  /\ UNCHANGED <<outside, hash, before, entries, omitted, seen, faults>>

\* digest(path) is the hash of the copy: the source is recorded, under the key that was
\* computed before the copy.
TrustingChecked ==                    \* seeded defect: the stat alone is trusted
  /\ pc = "check" /\ AtEnd
  /\ entries' = With(entries, pick, dst[pick])
  /\ seen' = With(seen, <<Scanned, hash>>, pick)
  /\ NextPick
  /\ UNCHANGED <<outside, hash, before, dst, omitted, errors, kept, faults>>
ForgetfulChecked ==                    \* seeded defect: the report forgets the file
  /\ pc = "check" /\ AtEnd
  /\ IF buffer = dst[pick]
     THEN NextPick /\ UNCHANGED <<entries, seen, errors, dst, kept>>
     ELSE FailAttempt /\ UNCHANGED <<entries, seen>>
  /\ UNCHANGED <<outside, hash, before, omitted, faults>>
Checked ==
  /\ pc = "check" /\ AtEnd
  /\ IF buffer = dst[pick]
     THEN /\ entries' = With(entries, pick, dst[pick])
          /\ seen' = With(seen, <<Scanned, hash>>, pick)
          /\ NextPick
          /\ UNCHANGED <<errors, dst, kept>>
     ELSE FailAttempt /\ UNCHANGED <<entries, seen>>
  /\ UNCHANGED <<outside, hash, before, omitted, faults>>

\* An OSError: while the source is hashed it is given up, later the attempt fails.
Fault ==
  /\ pc # "done"
  /\ faults < MaxFaults
  /\ faults' = faults + 1
  /\ \/ pc = "hash" /\ errors' = errors \cup {pick} /\ NextPick /\ UNCHANGED <<dst, kept>>
     \/ pc # "hash" /\ FailAttempt
  /\ UNCHANGED <<outside, hash, before, entries, omitted, seen>>

Next == \/ \E p \in Paths : Write(p)
        \/ Read \/ Hashed \/ StatBefore \/ Copied \/ Compare \/ Checked \/ Fault

Spec == Init /\ [][Next]_vars

-----------------------------------------------------------------------------
\* "source_verified": the bytes in the archive are bytes the source had at one moment,
\* never a mixture of blocks of before and after a write -- while no old content comes back
\* by way of two other sources, copied over this one between two blocks.
VerifiedIsReal == \A p \in DOMAIN entries : entries[p] \in history[p] /\ dst[p] = entries[p]

\* Every selected source is accounted for, once: captured, omitted as an alias, or
\* reported as an error.
EverySourceAccounted ==
  pc = "done" =>
    \A p \in Paths : (IF p \in DOMAIN entries THEN 1 ELSE 0)
                     + (IF p \in DOMAIN omitted THEN 1 ELSE 0)
                     + (IF p \in errors THEN 1 ELSE 0) = 1

\* No file enters the archive that was not verified, unless it could not be removed.
NothingUnverified ==
  pc = "done" => \A p \in Paths : dst[p] # NoFile => p \in DOMAIN entries \cup kept

\* A source omitted as an alias is in the archive under the name the report gives, with
\* the reported SHA-256 -- unless that other source was written between its hash and its
\* copy, for seen_contents keeps the hash of before the copy.
AliasIsArchived ==
  \A p \in DOMAIN omitted :
    LET q == omitted[p].at IN q \in DOMAIN entries /\ (entries[q] = omitted[p].sha \/ q \in moved)
=============================================================================
