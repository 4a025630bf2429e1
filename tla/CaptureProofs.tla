---------------------------- MODULE CaptureProofs ----------------------------
(***************************************************************************)
(* What capture_sources reports is complete and consistent, for any number   *)
(* of sources, writes by other programs and faults: every source is          *)
(* accounted for once, nothing unverified stays in the work tree, an alias   *)
(* points at a file that has the reported hash, and what is called verified   *)
(* is a content its source had.                                              *)
(***************************************************************************)
EXTENDS Capture, SequenceTheorems, TLAPS

\* While sources are left, one of them is being captured.
PickInv == IF pc = "done" THEN pick = Sources + 1 ELSE pick \in Paths

\* The report has exactly the sources before the current one, each in one place.
CountInv ==
  \A p \in Paths :
    /\ p < pick => \/ p \in DOMAIN entries /\ p \notin DOMAIN omitted /\ p \notin errors
                   \/ p \notin DOMAIN entries /\ p \in DOMAIN omitted /\ p \notin errors
                   \/ p \notin DOMAIN entries /\ p \notin DOMAIN omitted /\ p \in errors
    /\ p >= pick => p \notin DOMAIN entries /\ p \notin DOMAIN omitted /\ p \notin errors

\* A file in the work tree is verified, could not be removed, or is being copied.
CopyInv == \A p \in Paths :
             dst[p] # NoFile => \/ p \in DOMAIN entries \/ p \in kept
                                \/ p = pick /\ pc \notin {"hash", "done"}

\* A source nobody has written since its capture began: what was read of it is a prefix
\* of it, and its hash is its content.
PrefixInv == pc # "done" /\ pick \notin moved =>
               /\ Len(buffer) <= Len(file[pick])
               /\ \A i \in 1..Len(buffer) : buffer[i] = file[pick][i]
               /\ pc # "hash" => hash = file[pick]

\* seen_contents leads to a file of the archive with that hash, unless the file's source
\* was written during its capture.
SeenInv == \A k \in DOMAIN seen :
             seen[k] \in DOMAIN entries /\ (entries[seen[k]] = k[2] \/ seen[k] \in moved)

Inv == TypeOK /\ PickInv /\ CountInv /\ CopyInv /\ PrefixInv /\ SeenInv /\ AliasIsArchived

Blocks == 0..MaxWrites

-----------------------------------------------------------------------------
\* A content is a sequence of blocks.
LEMMA ContentsAre ==
  ASSUME NEW c PROVE c \in Contents <=> c \in Seq(Blocks) /\ Len(c) <= MaxBlocks
<1>1. ASSUME c \in Contents PROVE c \in Seq(Blocks) /\ Len(c) <= MaxBlocks
  <2>1. PICK n \in 0..MaxBlocks : c \in [1..n -> Blocks]
    BY <1>1 DEF Contents, Blocks
  <2>2. c \in Seq(Blocks)
    BY <2>1, SeqDef, BoundsAssumption
  <2>3. Len(c) \in Nat /\ 1..Len(c) = 1..n
    BY <2>1, <2>2, LenProperties
  <2>4. QED
    BY <2>1, <2>2, <2>3, BoundsAssumption
<1>2. ASSUME c \in Seq(Blocks), Len(c) <= MaxBlocks PROVE c \in Contents
  <2>1. Len(c) \in 0..MaxBlocks /\ c \in [1..Len(c) -> Blocks]
    BY <1>2, LenProperties, BoundsAssumption
  <2>2. QED
    BY <2>1 DEF Contents, Blocks
<1>3. QED
  BY <1>1, <1>2

\* An empty file is a content.
LEMMA EmptyContent == <<>> \in Contents
<1>1. <<>> \in Seq(Blocks) /\ Len(<<>>) = 0
  BY EmptySeq
<1>2. Len(<<>>) <= MaxBlocks
  BY <1>1, BoundsAssumption
<1>3. QED
  BY ONLY <1>1, <1>2, ContentsAre

\* The block that is read next is a block.
LEMMA NextBlock ==
  ASSUME NEW c \in Contents, NEW b \in Contents, Len(b) < Len(c)
  PROVE  /\ Append(b, c[Len(b) + 1]) \in Contents
         /\ Len(Append(b, c[Len(b) + 1])) = Len(b) + 1
         /\ \A i \in 1..Len(b) : Append(b, c[Len(b) + 1])[i] = b[i]
         /\ Append(b, c[Len(b) + 1])[Len(b) + 1] = c[Len(b) + 1]
<1>1. c \in Seq(Blocks) /\ b \in Seq(Blocks) /\ Len(c) <= MaxBlocks
  BY ContentsAre
<1>2. Len(b) + 1 \in 1..Len(c)
  BY <1>1
<1>3. c[Len(b) + 1] \in Blocks
  BY <1>1, <1>2, ElementOfSeq
<1>4. Append(b, c[Len(b) + 1]) \in Seq(Blocks) /\ Len(Append(b, c[Len(b) + 1])) = Len(b) + 1
  BY <1>1, <1>3
<1>5. Append(b, c[Len(b) + 1]) \in Contents
  <2>1. Len(Append(b, c[Len(b) + 1])) <= MaxBlocks
    BY <1>1, <1>2, <1>4, BoundsAssumption
  <2>2. QED
    BY ONLY <1>4, <2>1, ContentsAre
<1>6. QED
  BY <1>1, <1>3, <1>4, <1>5

\* A whole prefix of a content is the content.
LEMMA WholePrefix ==
  ASSUME NEW c \in Contents, NEW b \in Contents, Len(b) = Len(c),
         \A i \in 1..Len(b) : b[i] = c[i]
  PROVE  b = c
BY ContentsAre, SeqEqual

-----------------------------------------------------------------------------
\* Before the first source nothing has been copied or counted.
LEMMA InvInit == ASSUME Init PROVE Inv
<1>1. <<0>> \in Contents
  <2>1. <<0>> \in Seq(Blocks) /\ Len(<<0>>) = 1
    BY BoundsAssumption DEF Blocks
  <2>2. Len(<<0>>) <= MaxBlocks
    BY <2>1, BoundsAssumption
  <2>3. QED
    BY ONLY <2>1, <2>2, ContentsAre
<1>2. 0 \in 0..MaxWrites /\ 0 \in 0..MaxFaults /\ 0 \in 0..MaxBlocks
  BY BoundsAssumption
<1>3. Init!1 /\ pick = 1 /\ PickInv
  BY BoundsAssumption DEF Init, PickInv, Paths
<1>4. DOMAIN entries = {} /\ DOMAIN omitted = {} /\ DOMAIN seen = {}
  BY DEF Init
<1>5. TypeOK
  <2>1. /\ file \in [Paths -> Contents] /\ history \in [Paths -> SUBSET Contents]
        /\ \A p \in Paths : file[p] \in history[p]
    BY <1>1 DEF Init
  <2>2. pick \in Nat /\ pick - 1 \in {0} \cup Paths
    BY DEF Init
  <2>3. hash \in Contents /\ buffer \in Contents
    BY EmptyContent DEF Init
  <2>4. dst \in [Paths -> Contents \cup {NoFile}]
    BY DEF Init
  <2>5. mtime \in [Paths -> 0..MaxWrites] /\ before \in [size : 0..MaxBlocks, mtime : 0..MaxWrites]
    BY <1>2 DEF Init
  <2>6. QED
    BY <1>2, <1>4, <2>1, <2>2, <2>3, <2>4, <2>5 DEF Init, TypeOK, Reading
<1>6. CountInv /\ SeenInv /\ AliasIsArchived
  BY <1>3, <1>4 DEF Init, CountInv, SeenInv, AliasIsArchived, Paths
<1>7. CopyInv
  BY DEF Init, CopyInv
<1>8. PrefixInv
  <2>1. CASE 1 \in Paths
    BY <1>1, <2>1, ContentsAre DEF Init, PrefixInv
  <2>2. CASE 1 \notin Paths
    BY <2>2 DEF Init, PrefixInv
  <2>3. QED
    BY <2>1, <2>2
<1>9. QED
  BY <1>3, <1>5, <1>6, <1>7, <1>8 DEF Inv

\* Another program writes.
LEMMA TypedWrite ==
  ASSUME TypeOK, NEW p \in Paths, Write(p) PROVE TypeOK'
<1>1. file'[p] \in Contents /\ \A q \in Paths \ {p} : file'[q] = file[q]
  <2>0. /\ file[p] \in Seq(Blocks) /\ Len(file[p]) \in Nat /\ Len(file[p]) <= MaxBlocks
        /\ DOMAIN file[p] = 1..Len(file[p]) /\ writes' \in Blocks
        /\ file \in [Paths -> Contents]
    <3>1. file[p] \in Contents
      BY DEF TypeOK
    <3>2. file[p] \in Seq(Blocks) /\ Len(file[p]) <= MaxBlocks
      BY <3>1, ContentsAre
    <3>3. writes' \in Blocks
      BY BoundsAssumption DEF TypeOK, Write, Blocks
    <3>4. QED
      BY <3>2, <3>3, LenProperties DEF TypeOK
  <2>1. CASE Len(file[p]) < MaxBlocks /\ file' = [file EXCEPT ![p] = Append(@, writes')]
    <3>1. /\ Append(file[p], writes') \in Seq(Blocks)
          /\ Len(Append(file[p], writes')) = Len(file[p]) + 1
      BY <2>0
    <3>2. Len(Append(file[p], writes')) <= MaxBlocks
      BY <2>0, <2>1, <3>1, BoundsAssumption
    <3>3. Append(file[p], writes') \in Contents
      BY ONLY <3>1, <3>2, ContentsAre
    <3>4. QED
      BY <2>0, <2>1, <3>3
  <2>2. CASE \E b \in DOMAIN file[p] : file' = [file EXCEPT ![p][b] = writes']
    <3>1. PICK b \in 1..Len(file[p]) : file' = [file EXCEPT ![p][b] = writes']
      BY <2>0, <2>2
    <3>2. file' = [file EXCEPT ![p] = [file[p] EXCEPT ![b] = writes']]
      BY <3>1
    <3>3. /\ [file[p] EXCEPT ![b] = writes'] \in Seq(Blocks)
          /\ Len([file[p] EXCEPT ![b] = writes']) = Len(file[p])
      BY <2>0, ExceptSeq
    <3>4. [file[p] EXCEPT ![b] = writes'] \in Contents
      BY <2>0, <3>3, ContentsAre
    <3>5. QED
      BY <2>0, <3>2, <3>4
  <2>3. CASE \E q \in Paths \ {p} : file' = [file EXCEPT ![p] = file[q]]
    BY <2>0, <2>3
  <2>4. QED
    BY <2>1, <2>2, <2>3 DEF Write
<1>2. file' \in [Paths -> Contents]
  <2>1. file' = [file EXCEPT ![p] = file'[p]]
    BY <1>1 DEF Write, TypeOK
  <2>2. QED
    BY <1>1, <2>1 DEF TypeOK
<1>3. mtime' \in [Paths -> 0..MaxWrites] /\ writes' \in 0..MaxWrites
  <2>1. writes' \in 0..MaxWrites
    BY BoundsAssumption DEF TypeOK, Write
  <2>2. mtime' \in {mtime, [mtime EXCEPT ![p] = writes']} /\ mtime \in [Paths -> 0..MaxWrites]
    BY DEF TypeOK, Write
  <2>3. QED
    BY <2>1, <2>2
<1>4. history' \in [Paths -> SUBSET Contents] /\ \A q \in Paths : file'[q] \in history'[q]
  <2>1. history' = [history EXCEPT ![p] = @ \cup {file'[p]}]
    BY DEF Write
  <2>2. history \in [Paths -> SUBSET Contents] /\ \A q \in Paths : file[q] \in history[q]
    BY DEF TypeOK
  <2>3. QED
    BY <1>1, <2>1, <2>2
<1>5. moved' \subseteq Paths
  BY DEF TypeOK, Write
<1>6. QED
  BY <1>2, <1>3, <1>4, <1>5 DEF TypeOK, Write, report

\* With adds or replaces one entry.
LEMMA WithIs ==
  ASSUME NEW f, NEW x, NEW y
  PROVE  /\ DOMAIN With(f, x, y) = DOMAIN f \cup {x}
         /\ With(f, x, y)[x] = y
         /\ \A z \in DOMAIN f \ {x} : With(f, x, y)[z] = f[z]
BY DEF With

\* The next source, or the end.
LEMMA Advance ==
  ASSUME TypeOK, PickInv, pc # "done", NextPick
  PROVE  /\ pick \in Paths /\ pick' = pick + 1 /\ pick' \in Nat /\ pick' - 1 \in {0} \cup Paths
         /\ pc' \in {"hash", "done"} /\ attempt' = 0 /\ buffer' = <<>>
         /\ PickInv'
BY BoundsAssumption DEF TypeOK, PickInv, NextPick, Paths

\* A failed attempt leaves the copy to be made again, or gives the source up.
LEMMA Failed ==
  ASSUME TypeOK, PickInv, pc # "done", FailAttempt
  PROVE  /\ buffer' = <<>>
         /\ dst' \in [Paths -> Contents \cup {NoFile}] /\ kept' \subseteq Paths
         /\ \A p \in Paths \ {pick} : dst'[p] = dst[p]
         /\ \/ /\ pc' = "stat" /\ attempt' = 1 /\ pick' = pick /\ errors' = errors
               /\ UNCHANGED <<dst, kept>>
            \/ /\ pc' \in {"hash", "done"} /\ attempt' = 0 /\ pick' = pick + 1
               /\ pick' \in Nat /\ pick' - 1 \in {0} \cup Paths
               /\ errors' = errors \cup {pick} /\ kept \subseteq kept'
               /\ dst'[pick] # NoFile => pick \in kept'
         /\ PickInv' /\ pick \in Paths
<1>1. dst \in [Paths -> Contents \cup {NoFile}] /\ kept \subseteq Paths /\ pick \in Paths
  BY DEF TypeOK, PickInv
<1>2. CASE attempt = 0
  BY <1>1, <1>2 DEF FailAttempt, PickInv
<1>3. CASE attempt # 0
  <2>1. NextPick /\ errors' = errors \cup {pick}
    BY <1>3 DEF FailAttempt
  <2>2. \/ dst' = [dst EXCEPT ![pick] = NoFile] /\ kept' = kept
        \/ dst[pick] # NoFile /\ kept' = kept \cup {pick} /\ dst' = dst
    BY <1>3 DEF FailAttempt
  <2>3. QED
    BY <1>1, <2>1, <2>2, Advance
<1>4. QED
  BY <1>2, <1>3

\* Types, and the place of the capture, are kept by every step.
LEMMA TypedStep == ASSUME TypeOK, PickInv, [Next]_vars PROVE TypeOK' /\ PickInv'
<1> USE DEF outside, report
<1>a. pc # "done" => pick \in Paths /\ file[pick] \in Contents
  BY DEF TypeOK, PickInv
<1>1. CASE UNCHANGED vars
  BY <1>1 DEF vars, TypeOK, PickInv
<1>2. ASSUME NEW p \in Paths, Write(p) PROVE TypeOK' /\ PickInv'
  <2>1. PickInv'
    BY <1>2 DEF Write, PickInv
  <2>2. QED
    BY <1>2, <2>1, TypedWrite
<1>3. CASE Read
  <2>1. buffer' \in Contents
    BY <1>3, <1>a, NextBlock DEF Read, Reading, TypeOK
  <2>2. QED
    BY <1>3, <2>1 DEF Read, Reading, TypeOK, PickInv
<1>4. CASE Hashed
  <2>1. CASE <<Scanned, buffer>> \in DOMAIN seen
    <3>1. NextPick /\ DOMAIN omitted' = DOMAIN omitted \cup {pick}
      BY <1>4, <2>1, WithIs DEF Hashed
    <3>2. QED
      BY <1>4, <1>a, <3>1, Advance, EmptyContent DEF Hashed, TypeOK
  <2>2. CASE <<Scanned, buffer>> \notin DOMAIN seen
    BY <1>4, <2>2, EmptyContent DEF Hashed, TypeOK, PickInv
  <2>3. QED
    BY <2>1, <2>2
<1>5. CASE StatBefore
  <2>1. Len(file[pick]) \in 0..MaxBlocks /\ mtime[pick] \in 0..MaxWrites
    BY <1>5, <1>a, ContentsAre, LenProperties, BoundsAssumption DEF StatBefore, TypeOK
  <2>2. before' \in [size : 0..MaxBlocks, mtime : 0..MaxWrites]
    BY <1>5, <2>1 DEF StatBefore, Stat
  <2>3. dst' \in [Paths -> Contents \cup {NoFile}]
    BY <1>5, EmptyContent DEF StatBefore, TypeOK
  <2>4. TypeOK'
    BY <1>5, <2>2, <2>3 DEF StatBefore, TypeOK, Reading
  <2>5. QED
    BY <1>5, <2>4 DEF StatBefore, PickInv
<1>6. CASE Copied
  <2>1. dst' \in [Paths -> Contents \cup {NoFile}]
    BY <1>6 DEF Copied, TypeOK
  <2>2. QED
    BY <1>6, <2>1, EmptyContent DEF Copied, TypeOK, PickInv
<1>7. CASE Compare
  <2>1. CASE FailAttempt
    BY <1>7, <2>1, Failed, EmptyContent DEF Compare, TypeOK, Reading
  <2>2. CASE ~FailAttempt
    BY <1>7, <2>2, EmptyContent DEF Compare, TypeOK, PickInv, Reading
  <2>3. QED
    BY <2>1, <2>2
<1>8. CASE Checked
  <2>1. CASE buffer = dst[pick]
    <3>1. NextPick /\ DOMAIN entries' = DOMAIN entries \cup {pick}
      <4>1. NextPick /\ entries' = With(entries, pick, dst[pick])
        BY <1>8, <2>1 DEF Checked
      <4>2. QED
        BY <4>1, WithIs
    <3>2. QED
      BY <1>8, <2>1, <3>1, Advance, EmptyContent DEF Checked, TypeOK, Reading
  <2>2. CASE buffer # dst[pick]
    BY <1>8, <2>2, Failed, EmptyContent DEF Checked, TypeOK, Reading
  <2>3. QED
    BY <2>1, <2>2
<1>9. CASE Fault
  <2>0. faults' \in 0..MaxFaults
    BY <1>9, BoundsAssumption DEF Fault, TypeOK
  <2>1. CASE pc = "hash"
    BY <1>9, <2>0, <2>1, Advance, EmptyContent DEF Fault, TypeOK, Reading
  <2>2. CASE pc # "hash"
    BY <1>9, <2>0, <2>2, Failed, EmptyContent DEF Fault, TypeOK, Reading
  <2>3. QED
    BY <2>1, <2>2
<1>10. QED
  BY <1>1, <1>2, <1>3, <1>4, <1>5, <1>6, <1>7, <1>8, <1>9 DEF Next

\* Every source before the current one is in one place of the report.
LEMMA CountStep ==
  ASSUME TypeOK, PickInv, CountInv, [Next]_vars PROVE CountInv'
<1> USE DEF outside, report, CountInv
<1>0. \A p \in Paths : p \in Nat
  BY BoundsAssumption DEF Paths
<1>1. CASE UNCHANGED <<pick, entries, omitted, errors>>
  BY <1>1
<1>2. CASE Hashed /\ NextPick
  <2>1. DOMAIN omitted' = DOMAIN omitted \cup {pick}
    <3>1. omitted' = With(omitted, pick, [sha |-> buffer, at |-> seen[<<Scanned, buffer>>]])
      BY <1>2, <1>0, Advance DEF Hashed
    <3>2. QED
      BY <3>1, WithIs
  <2>2. pick \in Paths /\ pick' = pick + 1 /\ entries' = entries /\ errors' = errors
    BY <1>2, Advance DEF Hashed
  <2>3. QED
    BY <1>0, <2>1, <2>2
<1>3. CASE Checked /\ buffer = dst[pick]
  <2>1. entries' = With(entries, pick, dst[pick]) /\ NextPick
    BY <1>3 DEF Checked
  <2>2. DOMAIN entries' = DOMAIN entries \cup {pick}
    BY <2>1, WithIs
  <2>3. pick \in Paths /\ pick' = pick + 1 /\ omitted' = omitted /\ errors' = errors
    BY <1>3, <2>1, Advance DEF Checked
  <2>4. QED
    BY <1>0, <2>2, <2>3
<1>4. CASE FailAttempt /\ pc # "done" /\ UNCHANGED <<entries, omitted>>
  BY <1>0, <1>4, Failed
<1>5. CASE Fault /\ pc = "hash"
  BY <1>0, <1>5, Advance DEF Fault
<1>6. QED
  <2>1. CASE UNCHANGED vars \/ Read \/ StatBefore \/ Copied \/ \E p \in Paths : Write(p)
    BY <1>1, <2>1 DEF vars, Read, StatBefore, Copied, Write
  <2>2. CASE Hashed
    BY <1>1, <1>2, <2>2 DEF Hashed
  <2>3. CASE Compare
    BY <1>1, <1>4, <2>3 DEF Compare
  <2>4. CASE Checked
    BY <1>3, <1>4, <2>4 DEF Checked
  <2>5. CASE Fault
    BY <1>4, <1>5, <2>5 DEF Fault
  <2>6. QED
    BY <2>1, <2>2, <2>3, <2>4, <2>5 DEF Next

\* No copy that was not verified is left behind, but those that could not be removed.
LEMMA CopyStep ==
  ASSUME TypeOK, PickInv, CopyInv, [Next]_vars PROVE CopyInv'
<1> USE DEF outside, report, CopyInv
<1>1. CASE UNCHANGED <<pick, pc, dst, kept, entries>>
  BY <1>1
<1>2. CASE Hashed
  BY <1>2 DEF Hashed
<1>3. CASE StatBefore \/ Copied
  BY <1>3 DEF StatBefore, Copied, PickInv, TypeOK
<1>4. CASE FailAttempt /\ pc # "done" /\ UNCHANGED entries
  BY <1>4, Failed
<1>5. CASE Compare /\ ~FailAttempt
  BY <1>5 DEF Compare
<1>6. CASE Checked /\ buffer = dst[pick]
  <2>1. DOMAIN entries' = DOMAIN entries \cup {pick} /\ UNCHANGED <<dst, kept>>
    <3>1. entries' = With(entries, pick, dst[pick]) /\ UNCHANGED <<dst, kept>>
      BY <1>6 DEF Checked
    <3>2. QED
      BY <3>1, WithIs
  <2>2. QED
    BY <2>1
<1>7. CASE Fault /\ pc = "hash"
  BY <1>7 DEF Fault
<1>8. QED
  <2>1. CASE UNCHANGED vars \/ Read \/ \E p \in Paths : Write(p)
    BY <1>1, <2>1 DEF vars, Read, Write
  <2>2. CASE Compare
    BY <1>4, <1>5, <2>2 DEF Compare
  <2>3. CASE Checked
    BY <1>4, <1>6, <2>3 DEF Checked
  <2>4. CASE Fault
    BY <1>4, <1>7, <2>4 DEF Fault
  <2>5. QED
    BY <1>2, <1>3, <2>1, <2>2, <2>3, <2>4 DEF Next

\* Nothing has been read yet.
LEMMA FreshPrefix ==
  ASSUME TypeOK', PickInv', buffer' = <<>>, pc' = "hash" \/ pc' = "done"
  PROVE  PrefixInv'
<1>1. CASE pc' = "done"
  BY <1>1 DEF PrefixInv
<1>2. CASE pc' = "hash"
  <2>1. file'[pick'] \in Seq(Blocks) /\ Len(file'[pick']) \in Nat
    BY <1>2, ContentsAre DEF TypeOK, PickInv
  <2>2. QED
    BY <1>2, <2>1 DEF PrefixInv
<1>3. QED
  BY <1>1, <1>2

\* What was read of an unmoved source is a prefix of it.
LEMMA PrefixStep ==
  ASSUME TypeOK, PickInv, PrefixInv, [Next]_vars PROVE PrefixInv'
<1> USE DEF outside, report
<1>0. TypeOK' /\ PickInv'
  BY TypedStep
<1>a. pc # "done" => pick \in Paths /\ file[pick] \in Contents /\ Len(file[pick]) \in Nat
  BY ContentsAre DEF TypeOK, PickInv
<1>b. buffer \in Contents /\ Len(buffer) \in Nat
  BY ContentsAre DEF TypeOK
<1>1. CASE UNCHANGED <<file, moved, pick, pc, buffer, hash>>
  BY <1>1 DEF PrefixInv
<1>2. ASSUME NEW p \in Paths, Write(p) PROVE PrefixInv'
  <2>1. CASE p = pick
    BY <1>2, <2>1 DEF Write, PrefixInv
  <2>2. CASE p # pick /\ pc # "done"
    <3>1. file'[pick] = file[pick]
      BY <1>2, <1>a, <2>2 DEF Write, TypeOK
    <3>2. QED
      BY <1>2, <2>2, <3>1 DEF Write, PrefixInv
  <2>3. CASE pc = "done"
    BY <1>2, <2>3 DEF Write, PrefixInv
  <2>4. QED
    BY <2>1, <2>2, <2>3
<1>3. CASE Read
  <2>1. /\ Len(buffer') = Len(buffer) + 1
        /\ \A i \in 1..Len(buffer) : buffer'[i] = buffer[i]
        /\ buffer'[Len(buffer) + 1] = file[pick][Len(buffer) + 1]
    BY <1>3, <1>a, <1>b, NextBlock DEF Read, Reading
  <2>2. UNCHANGED <<file, moved, pick, pc, hash>> /\ Len(buffer) < Len(file[pick]) /\ pc # "done"
    BY <1>3 DEF Read, Reading
  <2>3. QED
    BY <1>a, <1>b, <2>1, <2>2 DEF PrefixInv
<1>4. CASE Hashed
  <2>1. CASE NextPick
    BY <1>0, <1>4, <2>1, Advance, FreshPrefix DEF Hashed
  <2>2. CASE ~NextPick
    <3>1. UNCHANGED <<file, moved, pick>> /\ pc' = "stat" /\ buffer' = <<>> /\ hash' = buffer
      BY <1>4, <2>2 DEF Hashed
    <3>2. ASSUME pick \notin moved PROVE buffer = file[pick]
      <4>1. /\ Len(buffer) >= Len(file[pick]) /\ Len(buffer) <= Len(file[pick])
            /\ \A i \in 1..Len(buffer) : buffer[i] = file[pick][i]
        BY <1>4, <3>2 DEF Hashed, AtEnd, PrefixInv
      <4>2. QED
        BY <1>a, <1>b, <1>4, <4>1, WholePrefix DEF Hashed
    <3>3. pc = "hash"
      BY <1>4 DEF Hashed
    <3>4. QED
      BY <1>a, <3>1, <3>2, <3>3 DEF PrefixInv
  <2>3. QED
    BY <2>1, <2>2
<1>5. CASE StatBefore
  BY <1>5 DEF StatBefore, PrefixInv
<1>6. CASE Copied \/ (Compare /\ ~FailAttempt)
  BY <1>6, <1>a DEF Copied, Compare, PrefixInv
<1>7. CASE FailAttempt /\ pc # "done" /\ pc # "hash" /\ UNCHANGED <<file, moved, hash>>
  <2>1. CASE pc' = "stat" /\ pick' = pick
    BY <1>7, <1>a, <2>1, Failed DEF PrefixInv
  <2>2. CASE pc' \in {"hash", "done"}
    BY <1>0, <1>7, <2>2, Failed, FreshPrefix
  <2>3. QED
    BY <1>7, <2>1, <2>2, Failed
<1>8. CASE (Checked /\ buffer = dst[pick]) \/ (Fault /\ pc = "hash")
  <2>1. NextPick /\ pc # "done"
    BY <1>8 DEF Checked, Fault
  <2>2. QED
    BY <1>0, <2>1, Advance, FreshPrefix
<1>9. QED
  <2>1. CASE UNCHANGED vars
    BY <1>1, <2>1 DEF vars
  <2>2. CASE Compare
    BY <1>6, <1>7, <2>2 DEF Compare
  <2>3. CASE Checked
    <3>1. CASE buffer = dst[pick]
      BY <1>8, <2>3, <3>1
    <3>2. CASE buffer # dst[pick]
      BY <1>7, <2>3, <3>2 DEF Checked
    <3>3. QED
      BY <3>1, <3>2
  <2>4. CASE Fault
    BY <1>7, <1>8, <2>4 DEF Fault
  <2>5. CASE Copied
    BY <1>6, <2>5
  <2>6. QED
    BY <1>2, <1>3, <1>4, <1>5, <2>1, <2>2, <2>3, <2>4, <2>5 DEF Next

\* The copy that is recorded has the hash under which seen_contents files it.
LEMMA RecordedHash ==
  ASSUME TypeOK, PickInv, PrefixInv, Checked, buffer = dst[pick], pick \notin moved
  PROVE  dst[pick] = hash
<1>1. pick \in Paths /\ file[pick] \in Contents /\ buffer \in Contents /\ pc = "check"
  BY DEF TypeOK, PickInv, Checked
<1>2. /\ Len(buffer) >= Len(file[pick]) /\ Len(buffer) <= Len(file[pick])
      /\ \A i \in 1..Len(buffer) : buffer[i] = file[pick][i]
      /\ hash = file[pick]
  BY <1>1 DEF Checked, AtEnd, PrefixInv
<1>3. Len(buffer) \in Nat /\ Len(file[pick]) \in Nat
  BY <1>1, ContentsAre
<1>4. QED
  BY <1>1, <1>2, <1>3, WholePrefix

\* The entries, the hashes known and the aliases stay consistent.
LEMMA SeenStep ==
  ASSUME TypeOK, PickInv, CountInv, PrefixInv, SeenInv, AliasIsArchived, [Next]_vars
  PROVE  SeenInv' /\ AliasIsArchived'
<1> USE DEF outside, report
<1>0. pc # "done" => pick \in Paths /\ pick \notin DOMAIN entries
  BY BoundsAssumption DEF PickInv, CountInv, Paths
<1>1. CASE UNCHANGED <<entries, omitted, seen>> /\ moved \subseteq moved'
  BY <1>1 DEF SeenInv, AliasIsArchived
<1>2. CASE Hashed
  <2>1. UNCHANGED <<entries, seen, moved>>
    BY <1>2 DEF Hashed
  <2>2. CASE <<Scanned, buffer>> \in DOMAIN seen
    <3> DEFINE alias == [sha |-> buffer, at |-> seen[<<Scanned, buffer>>]]
    <3>1. omitted' = With(omitted, pick, alias)
      BY <1>2, <2>2 DEF Hashed
    <3>2. alias.at \in DOMAIN entries /\ (entries[alias.at] = alias.sha \/ alias.at \in moved)
      BY <2>2 DEF SeenInv
    <3>3. /\ DOMAIN omitted' = DOMAIN omitted \cup {pick} /\ omitted'[pick] = alias
          /\ \A z \in DOMAIN omitted \ {pick} : omitted'[z] = omitted[z]
      BY <3>1 DEF With
    <3> HIDE DEF alias
    <3>4. QED
      BY <2>1, <3>2, <3>3 DEF SeenInv, AliasIsArchived
  <2>3. CASE <<Scanned, buffer>> \notin DOMAIN seen
    BY <1>1, <1>2, <2>1, <2>3 DEF Hashed
  <2>4. QED
    BY <2>2, <2>3
<1>3. CASE Checked /\ buffer = dst[pick]
  <2>1. /\ entries' = With(entries, pick, dst[pick])
        /\ seen' = With(seen, <<Scanned, hash>>, pick)
        /\ UNCHANGED <<omitted, moved>> /\ pc # "done"
    BY <1>3 DEF Checked
  <2>2. /\ DOMAIN entries' = DOMAIN entries \cup {pick} /\ entries'[pick] = dst[pick]
        /\ \A z \in DOMAIN entries \ {pick} : entries'[z] = entries[z]
    BY <2>1 DEF With
  <2>3. /\ DOMAIN seen' = DOMAIN seen \cup {<<Scanned, hash>>} /\ seen'[<<Scanned, hash>>] = pick
        /\ \A z \in DOMAIN seen \ {<<Scanned, hash>>} : seen'[z] = seen[z]
    BY <2>1 DEF With
  <2>4. dst[pick] = hash \/ pick \in moved
    BY <1>3, RecordedHash
  <2>5. AliasIsArchived'
    BY <1>0, <2>1, <2>2 DEF AliasIsArchived
  <2>6. ASSUME NEW k \in DOMAIN seen'
        PROVE seen'[k] \in DOMAIN entries' /\ (entries'[seen'[k]] = k[2] \/ seen'[k] \in moved')
    <3>1. CASE k = <<Scanned, hash>>
      BY <2>1, <2>2, <2>3, <2>4, <3>1
    <3>2. CASE k # <<Scanned, hash>>
      BY <1>0, <2>1, <2>2, <2>3, <2>6, <3>2 DEF SeenInv
    <3>3. QED
      BY <3>1, <3>2
  <2>7. QED
    BY <2>5, <2>6 DEF SeenInv
<1>4. QED
  <2>1. CASE UNCHANGED vars \/ Read \/ StatBefore \/ Copied \/ Compare \/ Fault
    BY <1>1, <2>1 DEF vars, Read, StatBefore, Copied, Compare, Fault
  <2>2. ASSUME NEW p \in Paths, Write(p) PROVE SeenInv' /\ AliasIsArchived'
    BY <1>1, <2>2 DEF Write
  <2>3. CASE Checked
    <3>1. CASE buffer = dst[pick]
      BY <1>3, <2>3, <3>1
    <3>2. CASE buffer # dst[pick]
      BY <1>1, <2>3, <3>2 DEF Checked
    <3>3. QED
      BY <3>1, <3>2
  <2>4. QED
    BY <1>2, <2>1, <2>2, <2>3 DEF Next

-----------------------------------------------------------------------------
\* The invariant holds in every behaviour.
THEOREM CaptureInvariant == Spec => []Inv
<1>1. Inv /\ [Next]_vars => Inv'
  BY TypedStep, CountStep, CopyStep, PrefixStep, SeenStep DEF Inv
<1>2. QED
  BY InvInit, <1>1, PTL DEF Spec

\* capture_sources keeps the types of its report and of its work tree.
THEOREM CaptureTyped == Spec => []TypeOK
BY CaptureInvariant, PTL DEF Inv

\* capture_sources reports every source it was given, and none twice.
THEOREM AllAccounted == Spec => []EverySourceAccounted
<1>1. Inv => EverySourceAccounted
  BY BoundsAssumption DEF Inv, PickInv, CountInv, EverySourceAccounted, Paths
<1>2. QED
  BY CaptureInvariant, <1>1, PTL

\* A copy whose verification failed never reaches the archive, whatever the other
\* programs do, but for a file that could not be removed.
THEOREM OnlyVerified == Spec => []NothingUnverified
<1>1. Inv => NothingUnverified
  BY DEF Inv, CopyInv, NothingUnverified
<1>2. QED
  BY CaptureInvariant, <1>1, PTL

\* The alias table of capture_sources is true but for sources written meanwhile.
THEOREM AliasesHold == Spec => []AliasIsArchived
BY CaptureInvariant, PTL DEF Inv

-----------------------------------------------------------------------------
(* A captured file is a content its source had at one moment.  The copy takes  *)
(* its blocks from the file of the moment, and so does the hash that verifies  *)
(* it; a mixture passes only if an old content comes back, and that takes two  *)
(* more files, which other programs copy over the source.                       *)

\* The blocks of b from lo + 1 to hi are those of c.
Has(c, b, lo, hi) == \A j \in lo + 1..hi : j \in DOMAIN c /\ c[j] = b[j]

\* From lo + 1 on b can be read of f, and then of g.
Mixed(f, g, b, lo) == \E r \in lo..Len(b) : Has(f, b, lo, r) /\ Has(g, b, r, Len(b))

\* A content that begins with b and has whatever f and g both have after it.
Witness(h, f, g, b) ==
  /\ Has(h, b, 0, Len(b)) /\ Len(h) <= Len(f)
  /\ \A j \in DOMAIN f \cap DOMAIN g :
       j > Len(b) /\ g[j] = f[j] => j \in DOMAIN h /\ h[j] = g[j]

\* What is copied, b, was a beginning of a content in H if it still can be read.
CopySound(H, f, g, b) == Mixed(f, g, b, 0) => \E h \in H : Witness(h, f, g, b)

\* The copy d, of which the hash has read as many blocks as b has, was a content in H if
\* the rest of it can be read.
CheckSound(H, f, g, b, d) ==
  Has(d, b, 0, Len(b)) /\ Mixed(f, g, d, Len(b)) => d \in H

\* No block is of a write to come.
Old(c, w) == \A j \in DOMAIN c : c[j] <= w

\* d is c, or c with blocks of the write w.
Later(c, d, w) == /\ Len(c) <= Len(d)
                  /\ \A j \in DOMAIN d : d[j] = w \/ (j \in DOMAIN c /\ d[j] = c[j])

FreshInv == /\ \A p \in Paths : Old(file[p], writes)
            /\ Old(buffer, writes)
            /\ pc \in {"compare", "check"} => Old(dst[pick], writes)
            /\ pc \in {"stat", "compare"} => buffer = <<>>

CopyingInv == pc = "copy" =>
                \A q \in Paths : CopySound(history[pick], file[pick], file[q], buffer)

CheckingInv == pc \in {"compare", "check"} =>
                 \A q \in Paths :
                   CheckSound(history[pick], file[pick], file[q], buffer, dst[pick])

\* A step in which no source becomes a copy of another: what it writes has new blocks.
NoCopy == \A p \in Paths :
            file'[p] = file[p] \/ \E j \in DOMAIN file'[p] : file'[p][j] = writes'

RealInv == FreshInv /\ CopyingInv /\ CheckingInv /\ VerifiedIsReal

\* A file that can be read to the end of b begins with b.
LEMMA MixedSame ==
  ASSUME NEW f \in Seq(Nat), NEW b \in Seq(Nat), Mixed(f, f, b, 0) PROVE Has(f, b, 0, Len(b))
BY DEF Mixed, Has

\* The file itself is the witness when the other source has the same content.
LEMMA CopySame ==
  ASSUME NEW H, NEW f \in Seq(Nat), NEW b \in Seq(Nat), f \in H
  PROVE  CopySound(H, f, f, b)
BY MixedSame DEF CopySound, Witness

\* When nothing has been copied, the file itself is the witness.
LEMMA CopyStart ==
  ASSUME NEW H, NEW f \in Seq(Nat), NEW g \in Seq(Nat), f \in H
  PROVE  CopySound(H, f, g, <<>>)
<1>1. Witness(f, f, g, <<>>)
  BY EmptySeq DEF Witness, Has
<1>2. QED
  BY <1>1 DEF CopySound

\* Blocks of a new write make nothing readable that was not readable before.
LEMMA MixedLater ==
  ASSUME NEW f \in Seq(Nat), NEW f2 \in Seq(Nat), NEW g \in Seq(Nat), NEW g2 \in Seq(Nat),
         NEW b \in Seq(Nat), NEW lo \in Nat, NEW w \in Nat, NEW v \in Nat, v = w + 1,
         Later(f, f2, v), Later(g, g2, v), Old(b, w), Mixed(f2, g2, b, lo)
  PROVE  Mixed(f, g, b, lo)
<1>1. PICK r \in lo..Len(b) : Has(f2, b, lo, r) /\ Has(g2, b, r, Len(b))
  BY DEF Mixed
<1>2. \A j \in 1..Len(b) : b[j] \in Nat /\ b[j] # v
  BY DEF Old
<1>3. Has(f, b, lo, r)
  <2> SUFFICES ASSUME NEW j \in lo + 1..r PROVE j \in DOMAIN f /\ f[j] = b[j]
    BY DEF Has
  <2>1. j \in DOMAIN f2 /\ f2[j] = b[j]
    BY <1>1 DEF Has
  <2>2. b[j] # v
    BY <1>2
  <2>3. QED
    BY <2>1, <2>2 DEF Later
<1>4. Has(g, b, r, Len(b))
  <2> SUFFICES ASSUME NEW j \in r + 1..Len(b) PROVE j \in DOMAIN g /\ g[j] = b[j]
    BY DEF Has
  <2>1. j \in DOMAIN g2 /\ g2[j] = b[j]
    BY <1>1 DEF Has
  <2>2. b[j] # v
    BY <1>2
  <2>3. QED
    BY <2>1, <2>2 DEF Later
<1>5. QED
  BY <1>1, <1>3, <1>4 DEF Mixed

\* A write to one of two files leaves the witness of the copy.
LEMMA CopyLater ==
  ASSUME NEW f \in Seq(Nat), NEW f2 \in Seq(Nat), NEW g \in Seq(Nat), NEW g2 \in Seq(Nat),
         NEW b \in Seq(Nat), NEW w \in Nat, NEW v \in Nat, v = w + 1,
         NEW H \in SUBSET Seq(Nat), NEW H2, H \subseteq H2,
         Later(f, f2, v), Later(g, g2, v), f2 = f \/ g2 = g,
         Old(f, w), Old(g, w), Old(b, w), CopySound(H, f, g, b)
  PROVE  CopySound(H2, f2, g2, b)
<1> SUFFICES ASSUME Mixed(f2, g2, b, 0) PROVE \E h \in H2 : Witness(h, f2, g2, b)
  BY DEF CopySound
<1>1. Mixed(f, g, b, 0)
  BY MixedLater
<1>2. PICK h \in H : Witness(h, f, g, b)
  BY <1>1 DEF CopySound
<1>3. Len(h) <= Len(f2)
  BY <1>2 DEF Witness, Later
<1>4. ASSUME NEW j \in DOMAIN f2 \cap DOMAIN g2, j > Len(b), g2[j] = f2[j]
      PROVE  j \in DOMAIN h /\ h[j] = g2[j]
  <2>1. g2[j] # v
    <3>1. CASE f2 = f
      BY <1>4, <3>1 DEF Old
    <3>2. CASE g2 = g
      BY <1>4, <3>2 DEF Old
    <3>3. QED
      BY <3>1, <3>2
  <2>2. j \in DOMAIN f \cap DOMAIN g /\ f2[j] = f[j] /\ g2[j] = g[j]
    BY <1>4, <2>1 DEF Later
  <2>3. QED
    BY <1>2, <1>4, <2>2 DEF Witness
<1>5. Witness(h, f2, g2, b)
  BY <1>2, <1>3, <1>4 DEF Witness
<1>6. QED
  BY <1>2, <1>5

\* A block is read of the file: the witness has it as well.
LEMMA CopyRead ==
  ASSUME NEW f \in Seq(Nat), NEW g \in Seq(Nat), NEW b \in Seq(Nat), NEW c \in Seq(Nat),
         NEW H, f \in H, Len(b) < Len(f), Len(c) = Len(b) + 1,
         \A i \in 1..Len(b) : c[i] = b[i], c[Len(b) + 1] = f[Len(b) + 1],
         CopySound(H, f, g, b)
  PROVE  CopySound(H, f, g, c)
<1> SUFFICES ASSUME Mixed(f, g, c, 0) PROVE \E h \in H : Witness(h, f, g, c)
  BY DEF CopySound
<1>1. PICK r \in 0..Len(c) : Has(f, c, 0, r) /\ Has(g, c, r, Len(c))
  BY DEF Mixed
<1>2. CASE r = Len(c)
  BY <1>1, <1>2 DEF Witness
<1>3. CASE r # Len(c)
  <2>1. r \in 0..Len(b) /\ Has(f, b, 0, r) /\ Has(g, b, r, Len(b))
    BY <1>1, <1>3 DEF Has
  <2>2. PICK h \in H : Witness(h, f, g, b)
    BY <2>1 DEF CopySound, Mixed
  <2>3. Len(c) \in DOMAIN f \cap DOMAIN g /\ g[Len(c)] = c[Len(c)] /\ f[Len(c)] = c[Len(c)]
    BY <1>1, <1>3 DEF Has
  <2>4. Len(c) \in DOMAIN h /\ h[Len(c)] = c[Len(c)]
    <3>1. Len(c) > Len(b) /\ g[Len(c)] = f[Len(c)]
      BY <2>3
    <3>2. Len(c) \in DOMAIN h /\ h[Len(c)] = g[Len(c)]
      BY <2>2, <2>3, <3>1 DEF Witness
    <3>3. QED
      BY <2>3, <3>2
  <2>5. Has(h, c, 0, Len(c))
    BY <2>2, <2>4 DEF Witness, Has
  <2>6. Witness(h, f, g, c)
    BY <2>2, <2>5 DEF Witness
  <2>7. QED
    BY <2>2, <2>6
<1>4. QED
  BY <1>2, <1>3

\* The file has no more blocks than were copied: the copy is the witness.
LEMMA CopyEnd ==
  ASSUME NEW f \in Seq(Nat), NEW g \in Seq(Nat), NEW b \in Seq(Nat), NEW H \in SUBSET Seq(Nat),
         Len(b) >= Len(f), CopySound(H, f, g, b)
  PROVE  CheckSound(H, f, g, <<>>, b)
<1> SUFFICES ASSUME Mixed(f, g, b, 0) PROVE b \in H
  BY EmptySeq DEF CheckSound
<1>1. PICK h \in H : Witness(h, f, g, b)
  BY DEF CopySound
<1>2. h \in Seq(Nat) /\ Len(h) <= Len(b) /\ \A j \in 1..Len(b) : j \in DOMAIN h /\ h[j] = b[j]
  BY <1>1 DEF Witness, Has
<1>3. Len(h) = Len(b)
  <2>1. Len(b) = 0 \/ Len(b) \in DOMAIN h
    BY <1>2
  <2>2. QED
    BY <1>2, <2>1
<1>4. h = b
  BY <1>2, <1>3, SeqEqual
<1>5. QED
  BY <1>1, <1>4

\* A write makes nothing readable that would verify a copy.
LEMMA CheckLater ==
  ASSUME NEW f \in Seq(Nat), NEW f2 \in Seq(Nat), NEW g \in Seq(Nat), NEW g2 \in Seq(Nat),
         NEW b \in Seq(Nat), NEW d \in Seq(Nat), NEW w \in Nat, NEW v \in Nat, v = w + 1,
         NEW H, NEW H2, H \subseteq H2,
         Later(f, f2, v), Later(g, g2, v), Old(d, w), CheckSound(H, f, g, b, d)
  PROVE  CheckSound(H2, f2, g2, b, d)
<1>1. Len(b) \in Nat
  OBVIOUS
<1>2. Mixed(f2, g2, d, Len(b)) => Mixed(f, g, d, Len(b))
  BY <1>1, MixedLater
<1>3. QED
  BY <1>2 DEF CheckSound

\* A file that now has the content of the other verifies no more than the two did.
LEMMA CheckOther ==
  ASSUME NEW f \in Seq(Nat), NEW g \in Seq(Nat), NEW b \in Seq(Nat), NEW d \in Seq(Nat),
         NEW H, NEW H2, H \subseteq H2, CheckSound(H, f, g, b, d)
  PROVE  CheckSound(H2, g, g, b, d)
<1> SUFFICES ASSUME Has(d, b, 0, Len(b)), Mixed(g, g, d, Len(b)) PROVE d \in H
  BY DEF CheckSound
<1>0. Len(b) \in Nat /\ Len(d) \in Nat /\ Len(b) \in Len(b)..Len(d)
  <2>1. Len(b) = 0 \/ Len(b) \in DOMAIN d
    BY DEF Has
  <2>2. QED
    BY <2>1
<1>1. Has(g, d, Len(b), Len(d))
  <2>1. PICK r \in Len(b)..Len(d) : Has(g, d, Len(b), r) /\ Has(g, d, r, Len(d))
    BY DEF Mixed
  <2>2. QED
    BY <2>1 DEF Has
<1>2. Has(f, d, Len(b), Len(b))
  BY <1>0 DEF Has
<1>3. Mixed(f, g, d, Len(b))
  BY <1>0, <1>1, <1>2 DEF Mixed
<1>4. QED
  BY <1>3 DEF CheckSound

\* The hash reads a block of the file: when it is the block of the copy, the file has it.
LEMMA CheckRead ==
  ASSUME NEW f \in Seq(Nat), NEW g \in Seq(Nat), NEW b \in Seq(Nat), NEW c \in Seq(Nat),
         NEW d \in Seq(Nat), NEW H, Len(b) < Len(f), Len(c) = Len(b) + 1,
         \A i \in 1..Len(b) : c[i] = b[i], c[Len(b) + 1] = f[Len(b) + 1],
         CheckSound(H, f, g, b, d)
  PROVE  CheckSound(H, f, g, c, d)
<1> SUFFICES ASSUME Has(d, c, 0, Len(c)), Mixed(f, g, d, Len(c)) PROVE d \in H
  BY DEF CheckSound
<1>1. Has(d, b, 0, Len(b)) /\ Len(c) \in DOMAIN f /\ f[Len(c)] = d[Len(c)]
  BY DEF Has
<1>2. PICK r \in Len(c)..Len(d) : Has(f, d, Len(c), r) /\ Has(g, d, r, Len(d))
  BY DEF Mixed
<1>3. r \in Len(b)..Len(d) /\ Has(f, d, Len(b), r)
  BY <1>1, <1>2 DEF Has
<1>4. Mixed(f, g, d, Len(b))
  BY <1>2, <1>3 DEF Mixed
<1>5. QED
  BY <1>1, <1>4 DEF CheckSound

\* A copy whose hash is that of what was read of the file was a content of it.
LEMMA CheckEnd ==
  ASSUME NEW f, NEW g, NEW d \in Seq(Nat), NEW H, CheckSound(H, f, g, d, d)
  PROVE  d \in H
<1>1. Has(d, d, 0, Len(d)) /\ Mixed(f, g, d, Len(d))
  BY DEF Has, Mixed
<1>2. QED
  BY <1>1 DEF CheckSound

\* A content is made of numbers of writes.
LEMMA ContentIsNumbers == \A c \in Contents : c \in Seq(Nat)
<1> SUFFICES ASSUME NEW c \in Contents PROVE c \in Seq(Nat)
  OBVIOUS
<1>1. c \in Seq(Blocks) /\ Blocks \subseteq Nat
  BY ContentsAre DEF Blocks
<1>2. Len(c) \in Nat /\ c \in [1..Len(c) -> Nat]
  BY <1>1, LenProperties
<1>3. QED
  BY <1>2, SeqDef

\* Files, copies and histories are made of numbers of writes.
LEMMA Numbers ==
  ASSUME TypeOK
  PROVE  /\ writes \in Nat /\ buffer \in Seq(Nat)
         /\ \A p \in Paths : /\ file[p] \in Seq(Nat) /\ dst[p] \in Seq(Nat)
                             /\ history[p] \in SUBSET Seq(Nat) /\ file[p] \in history[p]
<1>1. NoFile \in Seq(Nat)
  BY BoundsAssumption DEF NoFile
<1>2. QED
  BY <1>1, ContentIsNumbers, BoundsAssumption DEF TypeOK

\* What a write does to a file: new blocks, or the content of another source.
LEMMA WriteIs ==
  ASSUME TypeOK, FreshInv, NEW p \in Paths, Write(p)
  PROVE  /\ writes' = writes + 1 /\ Old(file'[p], writes')
         /\ \A q \in Paths \ {p} : file'[q] = file[q]
         /\ \/ Later(file[p], file'[p], writes')
            \/ \E q \in Paths \ {p} : file'[p] = file[q]
         /\ \A q \in Paths : history[q] \subseteq history'[q]
<1>0. /\ file[p] \in Seq(Nat) /\ writes \in Nat /\ writes' = writes + 1
      /\ file \in [Paths -> Contents] /\ history \in [Paths -> SUBSET Contents]
      /\ \A q \in Paths : file[q] \in Seq(Nat) /\ Old(file[q], writes)
  BY Numbers DEF TypeOK, FreshInv, Write
<1>1. \A q \in Paths : history[q] \subseteq history'[q]
  BY <1>0 DEF Write
<1>2. CASE file' = [file EXCEPT ![p] = Append(@, writes')]
  <2>1. file'[p] = Append(file[p], writes') /\ \A q \in Paths \ {p} : file'[q] = file[q]
    BY <1>0, <1>2
  <2>2. /\ Len(file'[p]) = Len(file[p]) + 1 /\ DOMAIN file'[p] = 1..Len(file[p]) + 1
        /\ \A j \in 1..Len(file[p]) : file'[p][j] = file[p][j]
        /\ file'[p][Len(file[p]) + 1] = writes'
    BY <1>0, <2>1
  <2>3. Later(file[p], file'[p], writes')
    BY <1>0, <2>2 DEF Later
  <2>4. Old(file'[p], writes')
    BY <1>0, <2>3 DEF Later, Old
  <2>5. QED
    BY <1>0, <1>1, <2>1, <2>3, <2>4
<1>3. CASE \E b \in DOMAIN file[p] : file' = [file EXCEPT ![p][b] = writes']
  <2>1. PICK b \in DOMAIN file[p] : file' = [file EXCEPT ![p] = [file[p] EXCEPT ![b] = writes']]
    BY <1>3
  <2>2. /\ file'[p] = [file[p] EXCEPT ![b] = writes']
        /\ \A q \in Paths \ {p} : file'[q] = file[q]
    BY <1>0, <2>1
  <2>3. file'[p] \in Seq(Nat) /\ Len(file'[p]) = Len(file[p])
    BY <1>0, <2>1, <2>2, ExceptSeq
  <2>4. Later(file[p], file'[p], writes')
    BY <1>0, <2>2, <2>3 DEF Later
  <2>5. Old(file'[p], writes')
    <3>1. \A j \in DOMAIN file[p] : file[p][j] \in Nat /\ file[p][j] <= writes
      BY <1>0 DEF Old
    <3>2. \A j \in DOMAIN file'[p] : file'[p][j] = writes'
                                     \/ (j \in DOMAIN file[p] /\ file'[p][j] = file[p][j])
      BY <2>4 DEF Later
    <3>3. writes \in Nat /\ writes' = writes + 1
      BY <1>0
    <3>4. \A j \in DOMAIN file'[p] : file'[p][j] <= writes'
      BY ONLY <3>1, <3>2, <3>3
    <3>5. QED
      BY <3>4 DEF Old
  <2>6. QED
    BY <1>0, <1>1, <2>2, <2>4, <2>5
<1>4. CASE \E q \in Paths \ {p} : file' = [file EXCEPT ![p] = file[q]]
  <2>1. PICK q \in Paths \ {p} : file' = [file EXCEPT ![p] = file[q]]
    BY <1>4
  <2>2. file'[p] = file[q] /\ \A t \in Paths \ {p} : file'[t] = file[t]
    BY <1>0, <2>1
  <2>3. Old(file'[p], writes')
    <3>1. file[q] \in Seq(Nat) /\ Old(file[q], writes)
      BY <1>0, <2>1
    <3>2. QED
      BY <1>0, <2>2, <3>1 DEF Old
  <2>4. QED
    BY <1>0, <1>1, <2>1, <2>2, <2>3
<1>5. QED
  BY <1>2, <1>3, <1>4 DEF Write

\* No block of a write to come is anywhere.
LEMMA FreshStep ==
  ASSUME TypeOK, PickInv, FreshInv, [Next]_vars PROVE FreshInv'
<1> USE DEF outside, report
<1>0. writes \in Nat /\ buffer \in Seq(Nat) /\ Old(<<>>, writes)
  BY Numbers DEF Old
<1>1. CASE UNCHANGED <<file, writes, pick, pc, buffer, dst>>
  BY <1>1 DEF FreshInv
<1>2. ASSUME NEW p \in Paths, Write(p) PROVE FreshInv'
  <2>1. \A q \in Paths : Old(file'[q], writes')
    <3> SUFFICES ASSUME NEW q \in Paths PROVE Old(file'[q], writes')
      OBVIOUS
    <3>1. file[q] \in Seq(Nat) /\ Old(file[q], writes)
      BY Numbers DEF FreshInv
    <3>2. QED
      BY <1>0, <1>2, <3>1, WriteIs DEF Old
  <2>2. Old(buffer', writes')
    BY <1>0, <1>2, WriteIs DEF Write, FreshInv, Old
  <2>3. pc' \in {"compare", "check"} => Old(dst'[pick'], writes')
    <3> SUFFICES ASSUME pc \in {"compare", "check"} PROVE Old(dst[pick], writes + 1)
      BY <1>2, WriteIs DEF Write
    <3>1. dst[pick] \in Seq(Nat) /\ Old(dst[pick], writes)
      BY Numbers DEF PickInv, FreshInv
    <3>2. QED
      BY <1>0, <3>1 DEF Old
  <2>4. pc' \in {"stat", "compare"} => buffer' = <<>>
    BY <1>2 DEF Write, FreshInv
  <2>5. QED
    BY <2>1, <2>2, <2>3, <2>4 DEF FreshInv
<1>3. CASE Read
  <2>1. pick \in Paths /\ file[pick] \in Contents /\ buffer \in Contents
    BY <1>3 DEF Read, Reading, PickInv, TypeOK
  <2>2. Old(buffer', writes)
    <3>1. /\ DOMAIN buffer' = 1..Len(buffer) + 1
          /\ \A i \in 1..Len(buffer) : buffer'[i] = buffer[i]
          /\ buffer'[Len(buffer) + 1] = file[pick][Len(buffer) + 1]
          /\ Len(buffer) + 1 \in DOMAIN file[pick]
      BY <1>3, <2>1, NextBlock, ContentsAre DEF Read
    <3>2. QED
      BY <1>0, <2>1, <3>1 DEF FreshInv, Old
  <2>3. QED
    BY <1>3, <2>2 DEF Read, Reading, FreshInv
<1>4. CASE Hashed
  BY <1>0, <1>4 DEF Hashed, NextPick, FreshInv
<1>5. CASE StatBefore
  BY <1>5 DEF StatBefore, FreshInv
<1>6. CASE Copied
  <2>1. dst'[pick'] = buffer
    BY <1>6 DEF Copied, PickInv, TypeOK
  <2>2. QED
    BY <1>0, <1>6, <2>1 DEF Copied, FreshInv
<1>7. CASE FailAttempt /\ pc # "done" /\ UNCHANGED <<file, writes>>
  BY <1>0, <1>7, Failed DEF FreshInv
<1>8. CASE Compare /\ ~FailAttempt
  BY <1>0, <1>8 DEF Compare, FreshInv
<1>9. CASE NextPick /\ pc # "done" /\ UNCHANGED <<file, writes>>
  BY <1>0, <1>9, Advance DEF FreshInv
<1>10. QED
  <2>1. CASE UNCHANGED vars
    BY <1>1, <2>1 DEF vars
  <2>2. CASE Compare
    BY <1>7, <1>8, <2>2 DEF Compare
  <2>3. CASE Checked
    BY <1>7, <1>9, <2>3 DEF Checked
  <2>4. CASE Fault
    BY <1>7, <1>9, <2>4 DEF Fault
  <2>5. QED
    BY <1>2, <1>3, <1>4, <1>5, <1>6, <2>1, <2>2, <2>3, <2>4 DEF Next

\* A write that copies no source leaves new blocks.
LEMMA NoCopyIsLater ==
  ASSUME TypeOK, FreshInv, NEW p \in Paths, Write(p), NoCopy
  PROVE  Later(file[p], file'[p], writes')
<1>1. file[p] \in Seq(Nat) /\ writes \in Nat
  BY Numbers
<1>2. CASE file'[p] = file[p]
  BY <1>1, <1>2 DEF Later
<1>3. CASE \E j \in DOMAIN file'[p] : file'[p][j] = writes'
  <2>1. ASSUME NEW q \in Paths, file'[p] = file[q] PROVE FALSE
    <3>1. Old(file'[p], writes) /\ file'[p] \in Seq(Nat)
      BY <2>1, Numbers DEF FreshInv
    <3>2. QED
      BY <1>1, <1>3, <3>1 DEF Old, Write
  <2>2. QED
    BY <2>1, WriteIs
<1>4. QED
  BY <1>2, <1>3 DEF NoCopy

\* With two sources, another program that copies one over another makes them equal.
LEMMA OtherIs ==
  ASSUME Sources <= 2, NEW p \in Paths, NEW q \in Paths \ {p}, NEW r \in Paths
  PROVE  r = p \/ r = q
BY BoundsAssumption DEF Paths

\* A file that is left alone is later than itself.
LEMMA LaterSame == ASSUME NEW f \in Seq(Nat), NEW w PROVE Later(f, f, w)
BY DEF Later

\* The copy that is being made stays a beginning of a content its source had.
LEMMA CopyingStep ==
  ASSUME Sources <= 2 \/ NoCopy, TypeOK, TypeOK', PickInv, FreshInv, CopyingInv, [Next]_vars
  PROVE  CopyingInv'
<1> USE DEF outside, report
<1>1. CASE UNCHANGED <<file, history, pick, pc, buffer>>
  BY <1>1 DEF CopyingInv
<1>2. ASSUME NEW p \in Paths, Write(p), pc = "copy" PROVE CopyingInv'
  <2> SUFFICES ASSUME NEW q \in Paths
               PROVE  CopySound(history'[pick], file'[pick], file'[q], buffer)
    BY <1>2 DEF CopyingInv, Write
  <2>1. /\ pick \in Paths /\ writes \in Nat /\ writes' \in Nat /\ writes' = writes + 1
        /\ buffer \in Seq(Nat)
        /\ file[pick] \in Seq(Nat) /\ file[q] \in Seq(Nat) /\ history[pick] \in SUBSET Seq(Nat)
        /\ Old(file[pick], writes) /\ Old(file[q], writes) /\ Old(buffer, writes)
        /\ CopySound(history[pick], file[pick], file[q], buffer)
    BY <1>2, Numbers DEF PickInv, FreshInv, CopyingInv, Write
  <2>2. /\ file'[pick] \in Seq(Nat) /\ file'[q] \in Seq(Nat) /\ file'[pick] \in history'[pick]
        /\ history'[pick] \in SUBSET Seq(Nat)
    <3>1. \A c \in Contents : c \in Seq(Nat)
      BY ContentIsNumbers
    <3>2. QED
      BY <2>1, <3>1 DEF TypeOK
  <2>3. history[pick] \subseteq history'[pick]
    BY <1>2, <2>1, WriteIs
  <2>4. CASE file'[q] = file'[pick]
    BY <2>1, <2>2, <2>4, CopySame
  <2>5. CASE q # pick /\ Later(file[p], file'[p], writes')
    <3>1. Later(file[pick], file'[pick], writes') /\ Later(file[q], file'[q], writes')
      BY <1>2, <2>1, <2>5, WriteIs, LaterSame
    <3>2. file'[pick] = file[pick] \/ file'[q] = file[q]
      BY <1>2, <2>1, <2>5, WriteIs
    <3>3. QED
      BY ONLY <2>1, <2>2, <2>3, <3>1, <3>2, CopyLater
  <2>6. CASE Sources <= 2 /\ q # pick /\ \E t \in Paths \ {p} : file'[p] = file[t]
    <3>1. PICK t \in Paths \ {p} : file'[p] = file[t] /\ file'[t] = file[t]
      BY <1>2, <2>6, WriteIs
    <3>2. file'[q] = file'[pick]
      BY <2>1, <2>6, <3>1, OtherIs
    <3>3. QED
      BY <2>4, <3>2
  <2>7. QED
    BY <1>2, <2>4, <2>5, <2>6, WriteIs, NoCopyIsLater
<1>3. ASSUME Read, pc = "copy" PROVE CopyingInv'
  <2> SUFFICES ASSUME NEW q \in Paths
               PROVE  CopySound(history[pick], file[pick], file[q], buffer')
    BY <1>3 DEF CopyingInv, Read
  <2>1. /\ pick \in Paths /\ buffer \in Contents /\ file[pick] \in Contents
        /\ buffer \in Seq(Nat) /\ file[pick] \in Seq(Nat) /\ file[q] \in Seq(Nat)
        /\ file[pick] \in history[pick]
        /\ CopySound(history[pick], file[pick], file[q], buffer)
    BY <1>3, Numbers DEF PickInv, CopyingInv, TypeOK
  <2>2. /\ Len(buffer) < Len(file[pick]) /\ Len(buffer') = Len(buffer) + 1
        /\ \A i \in 1..Len(buffer) : buffer'[i] = buffer[i]
        /\ buffer'[Len(buffer) + 1] = file[pick][Len(buffer) + 1]
    BY <1>3, <2>1, NextBlock DEF Read
  <2>3. buffer' \in Seq(Nat)
    BY ContentIsNumbers DEF TypeOK
  <2>4. QED
    BY <2>1, <2>2, <2>3, CopyRead
<1>4. CASE StatBefore
  <2> SUFFICES ASSUME NEW q \in Paths
               PROVE  CopySound(history[pick], file[pick], file[q], <<>>)
    BY <1>4 DEF CopyingInv, StatBefore, FreshInv
  <2>1. pick \in Paths
    BY <1>4 DEF StatBefore, PickInv
  <2>2. QED
    BY <2>1, Numbers, CopyStart
<1>5. CASE FailAttempt /\ pc # "done"
  BY <1>5, Failed DEF CopyingInv
<1>6. CASE Hashed \/ Copied \/ Compare \/ Checked \/ Fault
  BY <1>5, <1>6 DEF Hashed, Copied, Compare, Checked, Fault, NextPick, CopyingInv
<1>7. QED
  <2>1. CASE UNCHANGED vars
    BY <1>1, <2>1 DEF vars
  <2>2. ASSUME NEW p \in Paths, Write(p) PROVE CopyingInv'
    BY <1>2, <2>2 DEF Write, CopyingInv
  <2>3. CASE Read
    BY <1>3, <2>3 DEF Read, CopyingInv
  <2>4. QED
    BY <1>4, <1>6, <2>1, <2>2, <2>3 DEF Next

\* The copy that is being verified stays a content its source had, if it is verified.
LEMMA CheckingStep ==
  ASSUME Sources <= 2 \/ NoCopy, TypeOK, TypeOK', PickInv, FreshInv, CopyingInv, CheckingInv, [Next]_vars
  PROVE  CheckingInv'
<1> USE DEF outside, report
<1>1. CASE UNCHANGED <<file, history, pick, pc, buffer, dst>>
  BY <1>1 DEF CheckingInv
<1>2. ASSUME NEW p \in Paths, Write(p), pc \in {"compare", "check"} PROVE CheckingInv'
  <2> SUFFICES ASSUME NEW q \in Paths
               PROVE  CheckSound(history'[pick], file'[pick], file'[q], buffer, dst[pick])
    BY <1>2 DEF CheckingInv, Write
  <2>1. /\ pick \in Paths /\ writes \in Nat /\ writes' \in Nat /\ writes' = writes + 1
        /\ buffer \in Seq(Nat) /\ dst[pick] \in Seq(Nat)
        /\ Old(dst[pick], writes)
        /\ \A t \in Paths :
             /\ file[t] \in Seq(Nat)
             /\ CheckSound(history[pick], file[pick], file[t], buffer, dst[pick])
    BY <1>2, Numbers DEF PickInv, FreshInv, CheckingInv, Write
  <2>2. file'[pick] \in Seq(Nat) /\ file'[q] \in Seq(Nat)
    BY <2>1, ContentIsNumbers DEF TypeOK
  <2>3. history[pick] \subseteq history'[pick]
    BY <1>2, <2>1, WriteIs
  <2>4. CASE Later(file[p], file'[p], writes')
    <3>1. Later(file[pick], file'[pick], writes') /\ Later(file[q], file'[q], writes')
      BY <1>2, <2>1, <2>4, WriteIs, LaterSame
    <3>2. QED
      BY ONLY <2>1, <2>2, <2>3, <3>1, CheckLater
  <2>5. CASE Sources <= 2 /\ \E t \in Paths \ {p} : file'[p] = file[t]
    <3>1. PICK t \in Paths \ {p} : file'[p] = file[t] /\ file'[t] = file[t]
      BY <1>2, <2>5, WriteIs
    <3>2. file'[pick] = file[t] /\ file'[q] = file[t]
      BY <2>1, <2>5, <3>1, OtherIs
    <3>3. QED
      BY <2>1, <2>3, <3>2, CheckOther
  <2>6. QED
    BY <1>2, <2>4, <2>5, WriteIs, NoCopyIsLater
<1>3. ASSUME Read, pc = "check" PROVE CheckingInv'
  <2> SUFFICES ASSUME NEW q \in Paths
               PROVE  CheckSound(history[pick], file[pick], file[q], buffer', dst[pick])
    BY <1>3 DEF CheckingInv, Read
  <2>1. /\ pick \in Paths /\ buffer \in Contents /\ file[pick] \in Contents
        /\ buffer \in Seq(Nat) /\ file[pick] \in Seq(Nat) /\ file[q] \in Seq(Nat)
        /\ dst[pick] \in Seq(Nat)
        /\ CheckSound(history[pick], file[pick], file[q], buffer, dst[pick])
    BY <1>3, Numbers DEF PickInv, CheckingInv, TypeOK
  <2>2. /\ Len(buffer) < Len(file[pick]) /\ Len(buffer') = Len(buffer) + 1
        /\ \A i \in 1..Len(buffer) : buffer'[i] = buffer[i]
        /\ buffer'[Len(buffer) + 1] = file[pick][Len(buffer) + 1]
    BY <1>3, <2>1, NextBlock DEF Read
  <2>3. buffer' \in Seq(Nat)
    BY ContentIsNumbers DEF TypeOK
  <2>4. QED
    BY <2>1, <2>2, <2>3, CheckRead
<1>4. CASE Copied
  <2>1. pick \in Paths /\ pc = "copy"
    BY <1>4 DEF Copied, PickInv
  <2>2. dst'[pick] = buffer
    BY <1>4, <2>1 DEF Copied, TypeOK
  <2> SUFFICES ASSUME NEW q \in Paths
               PROVE  CheckSound(history[pick], file[pick], file[q], <<>>, buffer)
    BY <1>4, <2>2 DEF CheckingInv, Copied
  <2>3. CopySound(history[pick], file[pick], file[q], buffer)
    BY <2>1 DEF CopyingInv
  <2>4. Len(buffer) >= Len(file[pick])
    BY <1>4 DEF Copied, AtEnd
  <2>5. QED
    BY <2>1, <2>3, <2>4, Numbers, CopyEnd
<1>5. CASE FailAttempt /\ pc # "done"
  BY <1>5, Failed DEF CheckingInv
<1>6. CASE Compare /\ ~FailAttempt
  <2>1. pc = "compare" /\ UNCHANGED <<file, history, pick, dst>> /\ buffer' = buffer
    BY <1>6 DEF Compare, FreshInv
  <2>2. QED
    BY <2>1 DEF CheckingInv
<1>7. CASE Hashed \/ StatBefore \/ Checked \/ Fault
  BY <1>5, <1>7 DEF Hashed, StatBefore, Checked, Fault, NextPick, CheckingInv
<1>8. QED
  <2>1. CASE UNCHANGED vars
    BY <1>1, <2>1 DEF vars
  <2>2. ASSUME NEW p \in Paths, Write(p) PROVE CheckingInv'
    BY <1>2, <2>2 DEF Write, CheckingInv
  <2>3. CASE Read
    BY <1>3, <2>3 DEF Read, Reading, CheckingInv
  <2>4. CASE Compare
    BY <1>5, <1>6, <2>4 DEF Compare
  <2>5. QED
    BY <1>4, <1>7, <2>1, <2>2, <2>3, <2>4 DEF Next

\* What is recorded was a content of its source, and no later step changes the copy.
LEMMA RealStep ==
  ASSUME TypeOK, PickInv, CountInv, CheckingInv, VerifiedIsReal, [Next]_vars
  PROVE  VerifiedIsReal'
<1> USE DEF outside, report
<1>0. /\ pc # "done" => pick \in Paths /\ pick \notin DOMAIN entries
      /\ DOMAIN entries \subseteq Paths
  BY BoundsAssumption DEF PickInv, CountInv, Paths, TypeOK
<1>1. CASE UNCHANGED <<entries, history>> /\ \A p \in Paths \ {pick} : dst'[p] = dst[p]
  <2>1. CASE pc = "done"
    BY <1>0, <1>1, <2>1, BoundsAssumption DEF VerifiedIsReal, PickInv, Paths
  <2>2. CASE pc # "done"
    BY <1>0, <1>1, <2>2 DEF VerifiedIsReal
  <2>3. QED
    BY <2>1, <2>2
<1>2. ASSUME NEW p \in Paths, Write(p) PROVE VerifiedIsReal'
  <2>1. \A q \in Paths : history[q] \subseteq history'[q]
    BY <1>2 DEF Write, TypeOK
  <2>2. QED
    BY <1>0, <1>2, <2>1 DEF Write, VerifiedIsReal
<1>3. CASE Checked /\ buffer = dst[pick]
  <2>1. /\ entries' = With(entries, pick, dst[pick]) /\ UNCHANGED <<dst, history>>
        /\ pc = "check"
    BY <1>3 DEF Checked
  <2>2. /\ DOMAIN entries' = DOMAIN entries \cup {pick} /\ entries'[pick] = dst[pick]
        /\ \A z \in DOMAIN entries \ {pick} : entries'[z] = entries[z]
    BY <2>1 DEF With
  <2>3. dst[pick] \in history[pick]
    <3>1. CheckSound(history[pick], file[pick], file[pick], dst[pick], dst[pick])
      BY <1>0, <1>3, <2>1 DEF CheckingInv
    <3>2. dst[pick] \in Seq(Nat)
      BY <1>0, <2>1, Numbers
    <3>3. QED
      BY <3>1, <3>2, CheckEnd
  <2>4. QED
    BY <2>1, <2>2, <2>3 DEF VerifiedIsReal
<1>4. CASE FailAttempt /\ pc # "done" /\ UNCHANGED <<entries, history>>
  BY <1>1, <1>4, Failed
<1>5. QED
  <2>1. CASE UNCHANGED vars \/ Read \/ Hashed
    BY <1>1, <2>1 DEF vars, Read, Hashed
  <2>2. CASE StatBefore \/ Copied
    BY <1>1, <2>2 DEF StatBefore, Copied, TypeOK
  <2>3. CASE Compare
    BY <1>1, <1>4, <2>3 DEF Compare
  <2>4. CASE Checked
    BY <1>3, <1>4, <2>4 DEF Checked
  <2>5. CASE Fault
    BY <1>1, <1>4, <2>5 DEF Fault
  <2>6. QED
    BY <1>2, <2>1, <2>2, <2>3, <2>4, <2>5 DEF Next

\* Nothing has been read or recorded.
LEMMA RealInit == ASSUME Init PROVE FreshInv /\ CopyingInv /\ CheckingInv /\ VerifiedIsReal
<1>1. \A p \in Paths : Old(file[p], writes)
  BY DEF Init, Old
<1>2. Old(buffer, writes) /\ pc \in {"hash", "done"}
  BY DEF Init, Old
<1>3. QED
  BY <1>1, <1>2 DEF Init, FreshInv, CopyingInv, CheckingInv, VerifiedIsReal

\* RealInv is kept while there are two sources, or no copies.
LEMMA RealInvStep ==
  ASSUME Sources <= 2 \/ NoCopy, Inv, Inv', RealInv, [Next]_vars PROVE RealInv'
BY FreshStep, CopyingStep, CheckingStep, RealStep DEF Inv, RealInv

\* With at most two sources, a file reported as verified is a content its source had at
\* one moment, however other programs write while it is hashed, copied and hashed again.
THEOREM VerifiedWasThere ==
  ASSUME Sources <= 2 PROVE Spec => []VerifiedIsReal
<1>1. Init => RealInv
  BY RealInit DEF RealInv
<1>2. Inv /\ Inv' /\ RealInv /\ [Next]_vars => RealInv'
  BY RealInvStep
<1>3. RealInv => VerifiedIsReal
  BY DEF RealInv
<1>4. QED
  BY CaptureInvariant, <1>1, <1>2, <1>3, PTL DEF Spec

\* With any number of sources the same holds of every behaviour in which the other
\* programs append to their logs and rewrite them, and copy none over another.
THEOREM VerifiedWithoutCopies == Spec /\ [][NoCopy]_vars => []VerifiedIsReal
<1>1. Init => RealInv
  BY RealInit DEF RealInv
<1>2. Inv /\ Inv' /\ RealInv /\ [Next]_vars /\ [NoCopy]_vars => RealInv'
  <2>1. UNCHANGED vars => NoCopy
    BY DEF vars, NoCopy
  <2>2. QED
    BY <2>1, RealInvStep
<1>3. RealInv => VerifiedIsReal
  BY DEF RealInv
<1>4. QED
  BY CaptureInvariant, <1>1, <1>2, <1>3, PTL DEF Spec
=============================================================================
