---------------------------- MODULE MonitorProofs ----------------------------
(***************************************************************************)
(* The worker keeps to its role, records no process twice, reports an exit   *)
(* only of a game that has gone and prefers a new game to an old one: for    *)
(* any PIDs, executables, births, wrong observations and faults.             *)
(***************************************************************************)
EXTENDS Monitor, FiniteSetTheorems, WellFoundedInduction, TLAPS

SessionRecord == [of : Target,
                  state : {"active", "finished"},
                  reason : {"none", ExitReason, StopReason},
                  failed : BOOLEAN]

\* Where the worker stands says what it holds.
Holding == pc \in {"reserve", "telemetry", "observe"}
InSession == pc \in {"telemetry", "observe"}
PlaceInv == /\ sessions \in Seq(SessionRecord)
            /\ Holding => target \in Target
            /\ InSession => sessions # <<>> /\ sessions[Current].of = target
            /\ InSession <=> LatestSession = "active"
            /\ exited => pc = "ended"
            /\ finished => pc = "done"
            /\ pc = "close" => stop \/ idle = "long"

\* What was opened held the PID, and its birth was read or not.
Opened(game) == /\ game.opened \in DOMAIN births /\ births[game.opened].pid = game.pid
                /\ game.birth \in {0, game.opened}

\* A PID has one holder; what the worker took from its snapshot held that PID then.
HolderInv == /\ booted \in 0..Len(births)
             /\ \A m, n \in running : births[m].pid = births[n].pid => m = n
             /\ \A p \in Pids : snap[p] # Nobody =>
                  snap[p] \in DOMAIN births /\ births[snap[p]].pid = p
             /\ target.named # Nobody =>
                  target.named \in DOMAIN births /\ births[target.named].pid = target.pid
             /\ target # NoTarget => Opened(target)
             /\ \A i \in DOMAIN sessions :
                  sessions[i].of.named \in DOMAIN births /\ Opened(sessions[i].of)

\* A key recorded in a session, or about to be, is among the seen ones, and no other
\* session has it.
KeyOf(game) == Key(game.pid, game.opened, game.birth)
KeyInv == /\ \A i \in DOMAIN sessions : KeyOf(sessions[i].of) \in seen
          /\ \A i, j \in DOMAIN sessions :
               i # j => KeyOf(sessions[i].of) # KeyOf(sessions[j].of)
          /\ pc = "reserve" =>
               /\ KeyOf(target) \in seen
               /\ \A i \in DOMAIN sessions : KeyOf(sessions[i].of) # KeyOf(target)

\* Misses are counted from nothing in every session, and the third ends it.
CountInv == /\ pc = "observe" => missing <= 2
            /\ pc \notin {"observe", "ended"} => missing = 0 /\ spurious = 0

\* While the recorded game runs, the misses in a row are wrong observations in a row.
MissInv == /\ pc = "observe" /\ target.named \in running => missing <= spurious
           /\ ExitMeansGone

\* A process launched since the baseline has none of its PIDs.
FreshInv == pc # "boot" => \A n \in DOMAIN births : n > booted => births[n].pid \notin baseline

Inv == TypeOK /\ PlaceInv /\ CountInv /\ HolderInv /\ KeyInv

\* What a sequence over S holds is in S.
LEMMA ElementOf == ASSUME NEW S, NEW s \in Seq(S) PROVE \A i \in DOMAIN s : s[i] \in S
OBVIOUS

-----------------------------------------------------------------------------
(* Who holds a PID, and which game is the best.                              *)

\* The order of the natural numbers is well founded.
LEMMA OrderOfNat ==
  \E R : IsWellFoundedOn(R, Nat) /\ \A x, y \in Nat : <<y, x>> \in R <=> y < x
<1> DEFINE R == OpToRel(<, Nat)
<1>1. \A x, y \in Nat : <<y, x>> \in R <=> y < x
  BY DEF OpToRel
<1>2. IsWellFoundedOn(R, Nat)
  BY ONLY NatLessThanWellFounded DEF R
<1>3. QED
  BY <1>1, <1>2

\* A nonempty set of natural numbers has a least element.
LEMMA LeastOf == ASSUME NEW S \in SUBSET Nat, S # {} PROVE \E m \in S : \A y \in S : m <= y
<1>1. PICK R : IsWellFoundedOn(R, Nat) /\ \A x, y \in Nat : <<y, x>> \in R <=> y < x
  BY ONLY OrderOfNat
<1>2. PICK m \in S : \A y \in S : ~(<<y, m>> \in R)
  BY ONLY <1>1, WFMin, S \subseteq Nat, S # {}
<1>3. ASSUME NEW y \in S PROVE m <= y
  <2>1. m \in Nat /\ y \in Nat /\ ~(<<y, m>> \in R)
    BY <1>2
  <2>2. ~(y < m)
    BY ONLY <1>1, <2>1
  <2>3. QED
    BY ONLY <2>1, <2>2
<1>4. QED
  BY <1>3

\* A nonempty set of numbers up to a bound has a greatest element.
LEMMA GreatestOf ==
  ASSUME NEW b \in Nat, NEW S \in SUBSET (0..b), S # {}
  PROVE  \E m \in S : \A y \in S : y <= m
<1> DEFINE T == {b - y : y \in S}
<1>1. T \in SUBSET Nat /\ T # {}
  <2>1. \A y \in S : b - y \in Nat
    OBVIOUS
  <2>2. PICK y \in S : TRUE
    OBVIOUS
  <2>3. b - y \in T
    OBVIOUS
  <2>4. \A u \in T : u \in Nat
    BY <2>1
  <2>5. QED
    BY <2>3, <2>4
<1>2. PICK t \in T : \A u \in T : t <= u
  <2> HIDE DEF T
  <2>1. QED
    BY <1>1, LeastOf
<1>3. PICK m \in S : t = b - m
  BY <1>2
<1>4. ASSUME NEW y \in S PROVE y <= m
  <2>1. b - y \in T /\ y \in 0..b /\ m \in 0..b
    BY <1>3
  <2>2. b - m <= b - y
    BY ONLY <1>2, <1>3, <2>1
  <2>3. QED
    BY ONLY <2>1, <2>2, b \in Nat
<1>5. QED
  BY <1>4

\* Holder names the running process of a PID, or nobody when there is none.
LEMMA HolderFacts ==
  ASSUME TypeOK, NEW pid
  PROVE  /\ Holder(pid) \in {Nobody} \cup Births
         /\ Holder(pid) # Nobody => Holder(pid) \in running /\ births[Holder(pid)].pid = pid
         /\ \A n \in running : births[n].pid = pid => Holder(pid) # Nobody
<1>1. running \subseteq Births
  BY BoundsAssumption DEF TypeOK, Births
<1>2. 0 \notin Births
  BY BoundsAssumption DEF Births
<1>3. CASE \E n \in running : births[n].pid = pid
  <2>1. Holder(pid) \in running /\ births[Holder(pid)].pid = pid
    BY <1>3 DEF Holder
  <2>2. QED
    BY <1>1, <1>2, <2>1 DEF Nobody
<1>4. CASE ~\E n \in running : births[n].pid = pid
  BY <1>4 DEF Holder
<1>5. QED
  BY <1>3, <1>4

\* A nonempty finite set of numbers has a greatest element: the one with the fewest
\* above it.
LEMMA GreatestOfFinite ==
  ASSUME NEW S \in SUBSET Nat, IsFiniteSet(S), S # {}
  PROVE  \E m \in S : \A y \in S : y <= m
<1> DEFINE Above(x) == {y \in S : y > x}
           T == {Cardinality(Above(x)) : x \in S}
<1>1. \A x \in S : IsFiniteSet(Above(x)) /\ Cardinality(Above(x)) \in Nat
  BY FS_Subset, FS_CardinalityType
<1>2. T \in SUBSET Nat /\ T # {}
  BY <1>1
<1>3. PICK t \in T : \A u \in T : t <= u
  <2> HIDE DEF T
  <2>1. QED
    BY <1>2, LeastOf
<1>4. PICK m \in S : t = Cardinality(Above(m))
  BY <1>3
<1>5. ASSUME NEW y \in S, y > m PROVE FALSE
  <2>1. Above(y) \subseteq Above(m) /\ y \in Above(m) /\ y \notin Above(y)
    BY <1>5, <1>4
  <2> HIDE DEF Above
  <2>2. /\ Cardinality(Above(y)) <= Cardinality(Above(m))
        /\ Cardinality(Above(y)) # Cardinality(Above(m))
    BY <1>1, <1>4, <2>1, FS_Subset
  <2>3. t <= Cardinality(Above(y))
    BY <1>3
  <2>4. Cardinality(Above(y)) \in Nat /\ Cardinality(Above(m)) \in Nat
    BY <1>1, <1>4
  <2>5. QED
    BY ONLY <1>4, <2>2, <2>3, <2>4
<1>6. QED
  <2>1. \A y \in S : y \in Nat /\ m \in Nat
    BY <1>4
  <2>2. QED
    BY <1>4, <1>5, <2>1

\* Of finitely many PIDs that qualify, those not in the baseline come first, then those
\* with the greatest birth that was read, then the greatest PID.
LEMMA FiniteHolders ==
  ASSUME TypeOK PROVE IsFiniteSet({p \in Pids : Holder(p) # Nobody})
<1>1. IsFiniteSet(running)
  <2>1. running \subseteq 1..MaxBirths /\ MaxBirths \in Nat
    BY BoundsAssumption DEF TypeOK
  <2>2. IsFiniteSet(1..MaxBirths)
    BY <2>1, FS_Interval
  <2>3. QED
    BY <2>1, <2>2, FS_Subset
<1> DEFINE pidOf == {births[n].pid : n \in running}
<1>2. IsFiniteSet(pidOf)
  <2> DEFINE f == [n \in running |-> births[n].pid]
  <2>1. f \in Surjection(running, pidOf)
    BY DEF Surjection
  <2> HIDE DEF f, pidOf
  <2>2. QED
    BY ONLY <1>1, <2>1, FS_Surjection
<1>3. {p \in Pids : Holder(p) # Nobody} \subseteq pidOf
  BY HolderFacts
<1>4. QED
  BY ONLY <1>2, <1>3, FS_Subset

\* selectGame's sort puts a qualifying process first, and everything else behind it.
LEMMA BestIsFirst ==
  ASSUME TypeOK, NEW look, \E p \in Pids : Eligible(p, look)
  PROVE  /\ BestPid(look) \in Pids /\ Eligible(BestPid(look), look)
         /\ \A q \in Pids \ {BestPid(look)} :
              Eligible(q, look) => Before(BestPid(look), q, look)
<1> DEFINE All == {p \in Pids : Eligible(p, look)}
           Top == IF All \ baseline # {} THEN All \ baseline ELSE All
           B(p) == Birth(p, look)
           Ranks == {B(p) : p \in Top}
<1>1. Top # {} /\ Top \subseteq All
  OBVIOUS
<1>b. \A p \in Pids : B(p) \in 0..MaxBirths
  BY HolderFacts, BoundsAssumption DEF Births, Nobody, Birth
<1>2. Ranks \in SUBSET (0..MaxBirths) /\ Ranks # {} /\ MaxBirths \in Nat
  <2> HIDE DEF B
  <2>1. \A n \in Ranks : n \in 0..MaxBirths
    BY <1>1, <1>b
  <2>2. PICK p \in Top : TRUE
    BY <1>1
  <2>3. B(p) \in Ranks
    OBVIOUS
  <2>4. MaxBirths \in Nat
    BY BoundsAssumption
  <2>5. QED
    BY <2>1, <2>3, <2>4
<1>3. PICK m \in Ranks : \A n \in Ranks : n <= m
  <2> HIDE DEF Ranks
  <2>1. QED
    BY <1>2, GreatestOf
<1> DEFINE Newest == {p \in Top : B(p) = m}
<1>4. Newest \in SUBSET Nat /\ Newest # {} /\ IsFiniteSet(Newest)
  <2>1. Newest \subseteq {p \in Pids : Holder(p) # Nobody}
    BY <1>1 DEF Eligible
  <2>2. Newest # {}
    BY <1>3
  <2>3. Newest \in SUBSET Nat
    BY <2>1, PidsAssumption
  <2>4. IsFiniteSet(Newest)
    BY ONLY <2>1, FiniteHolders, TypeOK, FS_Subset
  <2>5. QED
    BY <2>2, <2>3, <2>4
<1>5. PICK p \in Newest : \A q \in Newest : q <= p
  <2> HIDE DEF Newest
  <2>1. QED
    BY <1>4, GreatestOfFinite
<1>6. p \in Pids /\ Eligible(p, look)
  BY <1>1, <1>5
<1>7. ASSUME NEW q \in Pids \ {p}, Eligible(q, look) PROVE Before(p, q, look)
  <2>1. CASE q \in Top
    <3>1. B(q) \in Ranks /\ B(p) = m
      BY <2>1, <1>5
    <3>2. B(p) >= B(q)
      <4>1. B(q) <= m /\ B(q) \in 0..MaxBirths /\ m \in 0..MaxBirths /\ MaxBirths \in Nat
        BY <1>2, <1>3, <3>1
      <4>2. QED
        BY ONLY <3>1, <4>1
    <3>3. B(p) = B(q) => p > q
      <4>1. p \in Nat /\ q \in Nat /\ p # q
        BY <1>6, <1>7, PidsAssumption
      <4>2. B(p) = B(q) => q <= p
        BY <1>5, <2>1, <3>1
      <4>3. QED
        BY ONLY <4>1, <4>2
    <3>4. p \in baseline <=> q \in baseline
      BY <1>5, <2>1
    <3>5. QED
      BY ONLY <3>2, <3>3, <3>4 DEF Before
  <2>2. CASE q \notin Top
    <3>1. p \notin baseline /\ q \in baseline
      BY <1>5, <1>7, <2>2
    <3>2. QED
      BY <3>1 DEF Before
  <2>3. QED
    BY <2>1, <2>2
<1>8. QED
  <2> HIDE DEF All, Top, Ranks, Newest, B
  <2>1. QED
    BY <1>6, <1>7 DEF BestPid

-----------------------------------------------------------------------------
(* The worker's steps, seen from its sessions.                               *)

Closed(reason) == [sessions EXCEPT ![Current].state = "finished",
                                   ![Current].reason = reason]
Broken == [sessions EXCEPT ![Current].failed = TRUE]

\* A session is announced once, and ends once: with a reason, or with a failure.
LEMMA SessionSteps ==
  ASSUME [Next]_vars
  PROVE  \/ /\ UNCHANGED sessions
            /\ InSession <=> InSession'
            /\ pc' = "reserve" => pc \in {"examine", "reserve"}
         \/ /\ pc = "reserve" /\ pc' = "telemetry"
            /\ sessions' = Append(sessions, Session)
         \/ /\ pc = "reserve" /\ pc' = "ended" /\ UNCHANGED sessions
         \/ /\ InSession /\ pc' = "ended"
            /\ sessions' = Broken
         \/ /\ pc = "observe" /\ pc' = "ended" /\ stop
            /\ sessions' = Closed(StopReason)
         \/ /\ pc = "observe" /\ pc' = "ended" /\ exited'
            /\ missing' >= 3 /\ ObservePoll
            /\ sessions' = Closed(ExitReason)
<1> USE DEF InSession, env, budget, looks, choice
<1>1. CASE UNCHANGED vars
  BY <1>1 DEF vars
<1>2. CASE Environment
  BY <1>2 DEF Environment, Launch, Exit, EightSeconds, FifteenSeconds, RequestStop
<1>3. CASE Boot \/ Poll \/ Ended \/ Close
  BY <1>3 DEF Boot, Poll, Scan, Ended, Close
<1>4. CASE Examine
  BY <1>4 DEF Examine, ExamineWith, Attach
<1>5. CASE Announce
  BY <1>5 DEF Announce, Fail
<1>6. CASE OpenTelemetry
  BY <1>6 DEF OpenTelemetry, Fail, Broken
<1>7. CASE ObserveStop
  BY <1>7 DEF ObserveStop, WriteSessionEnd, Broken, Closed
<1>8. CASE ObservePoll
  <2>1. CASE missing' >= 3
    BY <1>8, <2>1 DEF ObservePoll, CountMiss, EndAfter, WriteSessionEnd, Broken, Closed
  <2>2. CASE ~(missing' >= 3)
    BY <1>8, <2>2 DEF ObservePoll, CountMiss, EndAfter
  <2>3. QED
    BY <2>1, <2>2
<1>9. QED
  BY <1>1, <1>2, <1>3, <1>4, <1>5, <1>6, <1>7, <1>8 DEF Next, Worker

\* What a step of another kind leaves alone.
LEMMA TargetSteps ==
  ASSUME [Next]_vars
  PROVE  \/ UNCHANGED <<target, seen>> /\ (Holding' => Holding)
         \/ Examine /\ pc' = "reserve"
         \/ Ended
<1> USE DEF Holding, env, budget, looks, choice
<1>1. CASE UNCHANGED vars
  BY <1>1 DEF vars
<1>2. CASE Environment
  BY <1>2 DEF Environment, Launch, Exit, EightSeconds, FifteenSeconds, RequestStop
<1>3. CASE Boot \/ Poll \/ Close
  BY <1>3 DEF Boot, Poll, Scan, Close
<1>4. CASE Examine
  BY <1>4 DEF Examine, ExamineWith, Attach
<1>5. CASE Announce \/ OpenTelemetry \/ ObserveStop
  BY <1>5 DEF Announce, OpenTelemetry, ObserveStop
<1>6. CASE ObservePoll
  BY <1>6 DEF ObservePoll
<1>7. QED
  BY <1>1, <1>2, <1>3, <1>4, <1>5, <1>6 DEF Next, Worker

\* selectGame's choice as it is attached: a process of the snapshot, under its PID.
LEMMA AttachStep ==
  ASSUME TypeOK, NEW look, ExamineWith(look), pc' = "reserve"
  PROVE  /\ target' = Best(look) /\ target' \in Target
         /\ target'.pid = BestPid(look) /\ BestPid(look) \in Pids
         /\ target'.named = snap[BestPid(look)] /\ snap[BestPid(look)] # Nobody
         /\ target'.opened = Holder(BestPid(look)) /\ Holder(BestPid(look)) # Nobody
         /\ target'.birth = Birth(BestPid(look), look)
         /\ seen' = seen \cup {KeyOf(target')} /\ KeyOf(target') \notin seen
         /\ KeyOf(target') \in Pids \X Exes \X (0..MaxBirths)
<1> DEFINE p == BestPid(look)
<1>1. (\E q \in Pids : Eligible(q, look)) /\ Attach(Best(look))
  BY DEF ExamineWith
<1>2. p \in Pids /\ Eligible(p, look)
  BY <1>1, BestIsFirst
<1>3. snap[p] \in Births /\ Holder(p) \in Births /\ Holder(p) \in running
  BY <1>2, HolderFacts DEF TypeOK, Eligible
<1>4. Birth(p, look) \in 0..MaxBirths
  BY <1>3, BoundsAssumption DEF Birth, Births
<1>5. births[Holder(p)] \in [pid : Pids, exe : Exes]
  <2>1. births \in Seq([pid : Pids, exe : Exes]) /\ Holder(p) \in DOMAIN births
    BY <1>3 DEF TypeOK
  <2>2. QED
    BY ONLY <2>1, ElementOf
<1> HIDE DEF p
<1>6. target' = [pid |-> p, named |-> snap[p], opened |-> Holder(p), birth |-> Birth(p, look)]
  BY <1>1 DEF Attach, Best, p
<1>7. target' \in Target
  BY ONLY <1>2, <1>3, <1>4, <1>6 DEF Target
<1>8. /\ target'.pid = p /\ target'.named = snap[p]
      /\ target'.opened = Holder(p) /\ target'.birth = Birth(p, look)
  BY ONLY <1>6
<1>k. KeyOf(target') = <<p, ExeOf(Holder(p)), Birth(p, look)>>
  BY <1>8 DEF KeyOf, Key
<1>9. KeyOf(target') \notin seen
  BY <1>2, <1>k DEF Eligible, Key
<1>10. KeyOf(target') \in Pids \X Exes \X (0..MaxBirths)
  BY <1>2, <1>4, <1>5, <1>k DEF ExeOf
<1>11. seen' = seen \cup {KeyOf(target')} /\ target' = Best(look)
  BY <1>1 DEF Attach, KeyOf
<1>12. QED
  BY <1>2, <1>3, <1>7, <1>8, <1>9, <1>10, <1>11, <1>6 DEF Eligible, p

-----------------------------------------------------------------------------
(* The sequence of the sessions.                                             *)

\* Closing or breaking a session changes the last one only, and not whose it is.
LEMMA LastChanged ==
  ASSUME sessions \in Seq(SessionRecord), sessions # <<>>,
         \/ sessions' = Broken
         \/ \E r \in {ExitReason, StopReason} : sessions' = Closed(r)
  PROVE  /\ sessions' \in Seq(SessionRecord)
         /\ Len(sessions') = Len(sessions) /\ Current' = Current
         /\ Current \in DOMAIN sessions
         /\ \A i \in DOMAIN sessions : /\ sessions'[i].of = sessions[i].of
                                       /\ i # Current => sessions'[i] = sessions[i]
         /\ sessions' = Broken =>
              /\ sessions'[Current].failed = TRUE
              /\ sessions'[Current].reason = sessions[Current].reason
         /\ \A r \in {ExitReason, StopReason} : sessions' = Closed(r) =>
              /\ sessions'[Current].reason = r /\ sessions'[Current].state = "finished"
              /\ sessions'[Current].failed = sessions[Current].failed
<1>1. Current \in DOMAIN sessions /\ sessions[Current] \in SessionRecord
  BY DEF Current
<1>2. PICK new \in SessionRecord :
        /\ sessions' = [sessions EXCEPT ![Current] = new]
        /\ new.of = sessions[Current].of
        /\ sessions' = Broken => new.failed = TRUE /\ new.reason = sessions[Current].reason
        /\ \A r \in {ExitReason, StopReason} : sessions' = Closed(r) =>
             new.reason = r /\ new.state = "finished" /\ new.failed = sessions[Current].failed
  <2>1. CASE sessions' = Broken
    <3> DEFINE b == [sessions[Current] EXCEPT !.failed = TRUE]
    <3>1. b \in SessionRecord /\ b.of = sessions[Current].of /\ b.failed = TRUE
          /\ b.reason = sessions[Current].reason /\ b.state = sessions[Current].state
      BY <1>1 DEF SessionRecord
    <3>2. sessions' = [sessions EXCEPT ![Current] = b]
      BY <2>1 DEF Broken
    <3>3. ASSUME NEW r \in {ExitReason, StopReason}, sessions' = Closed(r)
          PROVE  b.reason = r /\ b.state = "finished" /\ b.failed = sessions[Current].failed
      <4>1. sessions'[Current] = b
        BY <1>1, <3>2
      <4>2. sessions'[Current] = [sessions[Current] EXCEPT !.state = "finished", !.reason = r]
        BY <1>1, <3>3 DEF Closed
      <4>3. QED
        BY <1>1, <4>1, <4>2 DEF SessionRecord
    <3>4. QED
      BY <3>1, <3>2, <3>3
  <2>2. ASSUME NEW q \in {ExitReason, StopReason}, sessions' = Closed(q)
        PROVE  \E new \in SessionRecord :
                 /\ sessions' = [sessions EXCEPT ![Current] = new]
                 /\ new.of = sessions[Current].of
                 /\ sessions' = Broken => new.failed = TRUE /\ new.reason = sessions[Current].reason
                 /\ \A r \in {ExitReason, StopReason} : sessions' = Closed(r) =>
                      new.reason = r /\ new.state = "finished"
                      /\ new.failed = sessions[Current].failed
    <3> DEFINE c == [sessions[Current] EXCEPT !.state = "finished", !.reason = q]
    <3>1. c \in SessionRecord /\ c.of = sessions[Current].of /\ c.reason = q
          /\ c.state = "finished" /\ c.failed = sessions[Current].failed
      BY <1>1 DEF SessionRecord
    <3>2. sessions' = [sessions EXCEPT ![Current] = c]
      BY <1>1, <2>2 DEF Closed
    <3>3. sessions'[Current] = c
      BY <1>1, <3>2
    <3>4. sessions' = Broken => c.failed = TRUE /\ c.reason = sessions[Current].reason
      <4>1. ASSUME sessions' = Broken
            PROVE  sessions'[Current] = [sessions[Current] EXCEPT !.failed = TRUE]
        BY <1>1, <4>1 DEF Broken
      <4>2. QED
        BY <1>1, <3>3, <4>1 DEF SessionRecord
    <3>5. ASSUME NEW r \in {ExitReason, StopReason}, sessions' = Closed(r) PROVE c.reason = r
      <4>1. sessions'[Current] = [sessions[Current] EXCEPT !.state = "finished", !.reason = r]
        BY <1>1, <3>5 DEF Closed
      <4>2. QED
        BY <1>1, <3>3, <4>1 DEF SessionRecord
    <3>6. QED
      BY <3>1, <3>2, <3>4, <3>5
  <2>3. QED
    BY <2>1, <2>2
<1>3. sessions' \in Seq(SessionRecord) /\ Len(sessions') = Len(sessions)
  BY <1>1, <1>2
<1>4. sessions'[Current] = new
  BY <1>1, <1>2
<1>5. \A i \in DOMAIN sessions : i # Current => sessions'[i] = sessions[i]
  BY <1>2
<1>6. QED
  BY <1>1, <1>2, <1>3, <1>4, <1>5 DEF Current

\* A new session is the last one, and the others are as they were.
LEMMA Announced ==
  ASSUME PlaceInv, pc = "reserve", sessions' = Append(sessions, Session)
  PROVE  /\ sessions' \in Seq(SessionRecord)
         /\ Len(sessions') = Len(sessions) + 1 /\ Current' = Len(sessions) + 1
         /\ Current' \in DOMAIN sessions' /\ sessions'[Current'] = Session
         /\ \A i \in DOMAIN sessions : i \in DOMAIN sessions' /\ sessions'[i] = sessions[i]
         /\ \A i \in DOMAIN sessions' : i \in DOMAIN sessions \/ i = Current'
<1>1. Session \in SessionRecord
  BY DEF PlaceInv, Holding, Session, SessionRecord
<1>2. sessions \in Seq(SessionRecord)
  BY DEF PlaceInv
<1>3. QED
  BY <1>1, <1>2 DEF Current

\* Where the worker stands after a step, and what it holds there.
LEMMA PlaceStep == ASSUME TypeOK, PlaceInv, [Next]_vars PROVE PlaceInv'
<1>1. Holding' => target' \in Target
  <2>1. CASE UNCHANGED <<target, seen>> /\ (Holding' => Holding)
    BY <2>1 DEF PlaceInv
  <2>2. CASE Examine /\ pc' = "reserve"
    BY <2>2, AttachStep DEF Examine
  <2>3. CASE Ended
    BY <2>3 DEF Ended, Holding
  <2>4. QED
    BY <2>1, <2>2, <2>3, TargetSteps
<1>2. /\ sessions' \in Seq(SessionRecord)
      /\ InSession' => sessions' # <<>> /\ sessions'[Current'].of = target'
      /\ InSession' <=> LatestSession' = "active"
  <2> USE DEF PlaceInv, InSession
  <2>1. CASE /\ UNCHANGED sessions
             /\ InSession <=> InSession'
             /\ pc' = "reserve" => pc \in {"examine", "reserve"}
    <3>1. UNCHANGED <<Current, LatestSession>>
      BY <2>1 DEF Current, LatestSession
    <3>2. InSession' => target' = target
      BY <2>1, TargetSteps DEF Holding, Ended
    <3>3. QED
      BY <2>1, <3>1, <3>2
  <2>2. CASE /\ pc = "reserve" /\ pc' = "telemetry"
             /\ sessions' = Append(sessions, Session)
    <3>1. target' = target
      BY <2>2, TargetSteps DEF Ended
    <3>2. sessions' \in Seq(SessionRecord) /\ sessions' # <<>> /\ sessions'[Current'] = Session
      BY <2>2, Announced
    <3>3. LatestSession' = "active"
      BY <3>2 DEF LatestSession, Session
    <3>4. Session.of = target
      BY DEF Session
    <3>5. sessions' # <<>> /\ sessions'[Current'].of = target'
      BY ONLY <3>1, <3>2, <3>4
    <3>6. InSession'
      BY <2>2
    <3>7. QED
      BY ONLY <3>2, <3>3, <3>5, <3>6
  <2>3. CASE pc = "reserve" /\ pc' = "ended" /\ UNCHANGED sessions
    BY <2>3 DEF LatestSession, Current
  <2>4. CASE InSession /\ pc' = "ended" /\ sessions' = Broken
    <3>0. sessions \in Seq(SessionRecord) /\ sessions # <<>>
      BY <2>4
    <3>1. sessions' \in Seq(SessionRecord) /\ sessions' # <<>> /\ sessions'[Current'].failed = TRUE
      <4>1. /\ sessions' \in Seq(SessionRecord) /\ Len(sessions') = Len(sessions)
            /\ Current' = Current /\ sessions'[Current].failed = TRUE
        BY ONLY <2>4, <3>0, LastChanged
      <4>2. QED
        BY <3>0, <4>1
    <3>2. LatestSession' # "active"
      BY <3>1 DEF LatestSession
    <3>3. QED
      BY <2>4, <3>1, <3>2
  <2>5. CASE /\ pc = "observe" /\ pc' = "ended"
             /\ \E r \in {ExitReason, StopReason} : sessions' = Closed(r)
    <3>1. sessions' \in Seq(SessionRecord) /\ sessions'[Current'].state = "finished"
      BY <2>5, LastChanged
    <3>2. LatestSession' # "active"
      BY <3>1 DEF LatestSession
    <3>3. QED
      BY <2>5, <3>1, <3>2
  <2>6. QED
    BY <2>1, <2>2, <2>3, <2>4, <2>5, SessionSteps
<1>3. /\ exited' => pc' = "ended"
      /\ finished' => pc' = "done"
      /\ pc' = "close" => stop' \/ idle' = "long"
  <2> USE DEF PlaceInv, env, budget, looks, choice
  <2>1. CASE UNCHANGED vars
    BY <2>1 DEF vars
  <2>2. CASE Environment
    <3>1. UNCHANGED <<pc, exited, finished>> /\ (stop => stop') /\ (idle = "long" => idle' = "long")
      <4>1. ASSUME NEW pid \in Pids, NEW exe \in Exes, Launch(pid, exe)
            PROVE  UNCHANGED <<pc, exited, finished, stop, idle>>
        BY <4>1 DEF Launch
      <4>2. ASSUME NEW n \in Births, Exit(n) PROVE UNCHANGED <<pc, exited, finished, stop, idle>>
        BY <4>2 DEF Exit
      <4>3. CASE EightSeconds \/ FifteenSeconds \/ RequestStop
        BY <4>3 DEF EightSeconds, FifteenSeconds, RequestStop
      <4>4. QED
        BY <2>2, <4>1, <4>2, <4>3 DEF Environment
    <3>2. QED
      BY <3>1
  <2>3. CASE Boot \/ Poll \/ Ended \/ Close
    BY <2>3 DEF Boot, Poll, Scan, Ended, Close
  <2>4. CASE Examine
    BY <2>4 DEF Examine, ExamineWith, Attach
  <2>5. CASE Announce \/ OpenTelemetry \/ ObserveStop
    BY <2>5 DEF Announce, OpenTelemetry, ObserveStop, Fail
  <2>6. CASE ObservePoll
    BY <2>6 DEF ObservePoll, CountMiss, EndAfter
  <2>7. QED
    BY <2>1, <2>2, <2>3, <2>4, <2>5, <2>6 DEF Next, Worker
<1>4. QED
  BY <1>1, <1>2, <1>3 DEF PlaceInv

\* The types are kept: the sessions have theirs from PlaceInv.
LEMMA TypedStep == ASSUME TypeOK, PlaceInv, CountInv, [Next]_vars PROVE TypeOK'
<1>s. \A i \in DOMAIN sessions' :
        sessions'[i] \in [of : Target,
                          state : {"active", "finished"},
                          reason : {"none", ExitReason, StopReason},
                          failed : BOOLEAN]
  <2>1. sessions' \in Seq(SessionRecord)
    BY PlaceStep DEF PlaceInv
  <2>2. \A i \in DOMAIN sessions' : sessions'[i] \in SessionRecord
    BY ONLY <2>1, ElementOf
  <2>3. QED
    BY ONLY <2>2 DEF SessionRecord
<1>b. {MaxBirths, MaxFaults, MaxSpurious, MaxMisread} \subseteq Nat
  BY BoundsAssumption
<1>m. ASSUME misread \in 0..MaxMisread, Misread PROVE misread' \in 0..MaxMisread
  BY <1>m, <1>b DEF Misread
<1>h. \A p \in Pids : Holder(p) \in {Nobody} \cup Births
  BY HolderFacts
<1>f. \/ faults' = faults
      \/ faults < MaxFaults /\ faults' = faults + 1
  <2> USE DEF env, budget, looks, choice
  <2>1. CASE UNCHANGED vars
    BY <2>1 DEF vars
  <2>2. CASE Environment
    BY <2>2 DEF Environment, Launch, Exit, EightSeconds, FifteenSeconds, RequestStop
  <2>3. CASE Boot \/ Poll \/ Ended \/ Close \/ Examine
    BY <2>3 DEF Boot, Poll, Scan, Ended, Close, Examine, ExamineWith
  <2>4. CASE Announce \/ OpenTelemetry \/ ObserveStop
    BY <2>4 DEF Announce, OpenTelemetry, ObserveStop, Fail, WriteSessionEnd
  <2>5. CASE ObservePoll
    BY <2>5 DEF ObservePoll, CountMiss, EndAfter, WriteSessionEnd
  <2>6. QED
    BY <2>1, <2>2, <2>3, <2>4, <2>5 DEF Next, Worker
<1>g. faults' \in 0..MaxFaults
  BY <1>b, <1>f DEF TypeOK
<1> HIDE DEF Current
<1> USE DEF TypeOK, env, budget, looks, choice
<1>1. CASE UNCHANGED vars
  BY <1>1 DEF vars
<1>2. ASSUME NEW pid \in Pids, NEW exe \in Exes, Launch(pid, exe) PROVE TypeOK'
  <2>1. /\ births' \in Seq([pid : Pids, exe : Exes]) /\ Len(births') <= MaxBirths
        /\ running' \subseteq DOMAIN births'
    BY <1>2, <1>b DEF Launch
  <2>2. QED
    BY <1>2, <2>1, <1>s DEF Launch
<1>3. ASSUME NEW n \in Births, Exit(n) PROVE TypeOK'
  BY <1>3 DEF Exit
<1>4. CASE EightSeconds \/ FifteenSeconds \/ RequestStop
  BY <1>4 DEF EightSeconds, FifteenSeconds, RequestStop
<1>5. CASE Boot
  <2>1. booted' \in 0..MaxBirths
    <3>1. Len(births) \in Nat /\ Len(births) <= MaxBirths /\ MaxBirths \in Nat
      BY <1>b
    <3>2. QED
      BY <1>5, <3>1 DEF Boot
  <2>2. baseline' \subseteq Pids
    <3>1. \A n \in running : births[n].pid \in Pids
      <4>1. births \in Seq([pid : Pids, exe : Exes]) /\ running \subseteq DOMAIN births
        OBVIOUS
      <4>2. \A n \in DOMAIN births : births[n] \in [pid : Pids, exe : Exes]
        BY ONLY <4>1, ElementOf
      <4>3. QED
        BY ONLY <4>1, <4>2
    <3>2. QED
      BY ONLY <1>5, <3>1 DEF Boot
  <2>3. misread' \in 0..MaxMisread
    BY ONLY <1>5, <1>m, <1>b, misread \in 0..MaxMisread DEF Boot
  <2>4. QED
    BY <1>5, <2>1, <2>2, <2>3 DEF Boot
<1>6. CASE Poll
  <2>1. snap' \in [Pids -> {Nobody} \cup Births]
    BY <1>6, <1>h DEF Poll, Scan
  <2>2. QED
    BY <1>6, <2>1 DEF Poll, Scan
<1>7. ASSUME NEW look \in Looks, ExamineWith(look) PROVE TypeOK'
  <2>1. snap' \in [Pids -> {Nobody} \cup Births]
    BY <1>7 DEF ExamineWith, NoSnapshot
  <2>m. misread' \in 0..MaxMisread
    BY ONLY <1>7, <1>m, <1>b, misread \in 0..MaxMisread DEF ExamineWith
  <2>2. CASE pc' = "reserve"
    <3>1. /\ target' \in Target
          /\ seen' \subseteq Pids \X Exes \X (0..MaxBirths)
      BY <1>7, <2>2, AttachStep
    <3>2. last' \in Pids /\ stability' = 3
      BY <1>7, <2>2, BestIsFirst DEF ExamineWith, Attach
    <3>3. QED
      BY <1>7, <2>1, <2>m, <2>2, <3>1, <3>2 DEF ExamineWith
  <2>3. CASE pc' # "reserve"
    <3>1. UNCHANGED <<seen, target>> /\ pc' = "loop"
      BY <1>7, <2>3 DEF ExamineWith, Attach
    <3>2. last' \in {Nobody} \cup Pids /\ stability' \in 0..3
      BY <1>7, <2>3, BestIsFirst DEF ExamineWith, Attach
    <3>3. QED
      BY <1>7, <2>1, <2>m, <3>1, <3>2 DEF ExamineWith
  <2>4. QED
    BY <2>2, <2>3
<1>8. CASE Announce \/ OpenTelemetry
  BY <1>8, <1>s, <1>g DEF Announce, OpenTelemetry, Fail
<1>9. CASE ObserveStop
  BY <1>9, <1>s, <1>g DEF ObserveStop
<1>10. CASE ObservePoll
  <2>1. missing' \in 0..3
    BY <1>10 DEF ObservePoll, CountMiss, CountInv
  <2>2. spurious' \in 0..MaxSpurious /\ misread' \in 0..MaxMisread
    <3>1. /\ spurious' = 0 \/ (spurious < MaxSpurious /\ spurious' = spurious + 1)
          /\ misread' = misread \/ Misread
      BY <1>10 DEF ObservePoll
    <3>2. spurious \in 0..MaxSpurious /\ misread \in 0..MaxMisread
      OBVIOUS
    <3>3. misread' \in 0..MaxMisread
      BY ONLY <1>m, <3>1, <3>2
    <3>4. QED
      BY ONLY <1>b, <3>1, <3>2, <3>3
  <2>3. exited' \in BOOLEAN /\ pc' \in {"observe", "ended"}
    BY <1>10 DEF ObservePoll, CountMiss, EndAfter
  <2>4. QED
    BY <1>10, <1>s, <1>g, <2>1, <2>2, <2>3 DEF ObservePoll
<1>11. CASE Ended
  <2>1. /\ target' \in {NoTarget} \cup Target
        /\ spurious' \in 0..MaxSpurious /\ missing' \in 0..3
    BY <1>11, <1>b DEF Ended, NoTarget
  <2>2. QED
    BY <1>11, <2>1 DEF Ended
<1>12. CASE Close
  BY <1>12, <1>g DEF Close
<1>13. QED
  BY <1>1, <1>2, <1>3, <1>4, <1>5, <1>6, <1>7, <1>8, <1>9, <1>10, <1>11, <1>12
     DEF Next, Worker, Environment, Examine

\* A session begins without misses, and goes on with at most two.
LEMMA CountStep == ASSUME TypeOK, CountInv, [Next]_vars PROVE CountInv'
<1> USE DEF CountInv, env, budget, looks, choice
<1>1. CASE UNCHANGED vars
  BY <1>1 DEF vars
<1>2. CASE Environment
  <2>1. UNCHANGED <<pc, missing, spurious>>
    BY <1>2 DEF Environment, Launch, Exit, EightSeconds, FifteenSeconds, RequestStop
  <2>2. QED
    BY <2>1
<1>3. CASE Boot \/ Poll \/ Ended \/ Close
  BY <1>3 DEF Boot, Poll, Scan, Ended, Close
<1>4. CASE Examine
  BY <1>4 DEF Examine, ExamineWith, Attach
<1>5. CASE Announce \/ OpenTelemetry \/ ObserveStop
  BY <1>5 DEF Announce, OpenTelemetry, ObserveStop, Fail
<1>6. CASE ObservePoll
  <2>1. missing' \in Nat /\ (missing' >= 3 => pc' = "ended") /\ pc' \in {"observe", "ended"}
    BY <1>6 DEF ObservePoll, CountMiss, EndAfter, TypeOK
  <2>2. QED
    BY <2>1
<1>7. QED
  BY <1>1, <1>2, <1>3, <1>4, <1>5, <1>6 DEF Next, Worker

-----------------------------------------------------------------------------
(* Processes and their PIDs.                                                 *)

\* Births are only added, and only a new one starts to run, under a PID nobody holds.
LEMMA BirthsGrow ==
  ASSUME TypeOK, [Next]_vars
  PROVE  /\ Len(births) \in Nat /\ Len(births') \in Nat /\ Len(births) <= Len(births')
         /\ \A n \in DOMAIN births : n \in DOMAIN births' /\ births'[n] = births[n]
         /\ \A n \in running' : n \in running \/ n \notin DOMAIN births
         /\ \/ running' \subseteq running
            \/ \E n : /\ running' \subseteq running \cup {n}
                      /\ \A m \in running : births[m].pid # births'[n].pid
<1>t. births \in Seq([pid : Pids, exe : Exes]) /\ running \subseteq DOMAIN births
  BY DEF TypeOK
<1> USE DEF env, budget, looks, choice
<1>1. CASE UNCHANGED env
  BY <1>1, <1>t
<1>2. ASSUME NEW n \in Births, Exit(n)
      PROVE UNCHANGED births /\ running' \subseteq running
  BY <1>2 DEF Exit
<1>3. ASSUME NEW pid \in Pids, NEW exe \in Exes, Launch(pid, exe)
      PROVE  /\ Len(births) \in Nat /\ Len(births') = Len(births) + 1
             /\ \A n \in DOMAIN births : n \in DOMAIN births' /\ births'[n] = births[n]
             /\ running' = running \cup {Len(births')} /\ Len(births') \notin DOMAIN births
             /\ \A m \in running : births[m].pid # births'[Len(births')].pid
  <2>1. births' = Append(births, [pid |-> pid, exe |-> exe]) /\ Holder(pid) = Nobody
        /\ running' = running \cup {Len(births')}
    BY <1>3 DEF Launch
  <2>2. /\ Len(births) \in Nat /\ Len(births') = Len(births) + 1
        /\ \A n \in DOMAIN births : n \in DOMAIN births' /\ births'[n] = births[n]
        /\ Len(births') \notin DOMAIN births
        /\ births'[Len(births')] = [pid |-> pid, exe |-> exe]
    BY <1>t, <2>1
  <2>3. \A m \in running : births[m].pid # pid
    BY <2>1, HolderFacts
  <2>4. QED
    BY <2>1, <2>2, <2>3
<1>4. UNCHANGED env \/ (\E n \in Births : Exit(n))
        \/ \E pid \in Pids, exe \in Exes : Launch(pid, exe)
  <2>1. CASE UNCHANGED vars
    BY <2>1 DEF vars
  <2>2. CASE Boot \/ Poll \/ Ended \/ Close \/ Examine \/ Announce \/ OpenTelemetry
    BY <2>2 DEF Boot, Poll, Scan, Ended, Close, Examine, ExamineWith, Announce, OpenTelemetry
  <2>3. CASE ObserveStop \/ ObservePoll
    BY <2>3 DEF ObserveStop, ObservePoll
  <2>4. CASE EightSeconds \/ FifteenSeconds \/ RequestStop
    BY <2>4 DEF EightSeconds, FifteenSeconds, RequestStop
  <2>5. QED
    BY <2>1, <2>2, <2>3, <2>4 DEF Next, Worker, Environment
<1>5. CASE \E n \in Births : Exit(n)
  BY <1>t, <1>2, <1>5
<1>6. ASSUME NEW pid \in Pids, NEW exe \in Exes, Launch(pid, exe)
      PROVE  /\ Len(births) <= Len(births') /\ Len(births') \in Nat
             /\ \A n \in running' : n \in running \/ n \notin DOMAIN births
             /\ \E n : /\ running' \subseteq running \cup {n}
                       /\ \A m \in running : births[m].pid # births'[n].pid
  <2> DEFINE k == Len(births')
  <2>1. /\ running' \subseteq running \cup {k} /\ \A m \in running : births[m].pid # births'[k].pid
    BY <1>3, <1>6
  <2>2. QED
    <3>1. Len(births) <= Len(births') /\ Len(births') \in Nat
      BY <1>3, <1>6
    <3>2. \A n \in running' : n \in running \/ n \notin DOMAIN births
      BY <1>3, <1>6
    <3> HIDE DEF k
    <3>3. QED
      BY <2>1, <3>1, <3>2
<1>7. QED
  BY <1>1, <1>3, <1>4, <1>5, <1>6

\* The processes of the sessions are those of before, and that of a new one.
LEMMA SameProcesses ==
  ASSUME TypeOK, PlaceInv, [Next]_vars
  PROVE  \A i \in DOMAIN sessions' :
           \/ i \in DOMAIN sessions /\ sessions'[i].of = sessions[i].of
           \/ /\ pc = "reserve" /\ pc' = "telemetry"
              /\ i \notin DOMAIN sessions /\ sessions'[i].of = target /\ i = Len(sessions')
<1>1. sessions \in Seq(SessionRecord) /\ (InSession => sessions # <<>>)
  BY DEF PlaceInv
<1>2. CASE UNCHANGED sessions
  BY <1>2
<1>3. CASE pc = "reserve" /\ pc' = "telemetry" /\ sessions' = Append(sessions, Session)
  <2>1. Session.of = target
    BY DEF Session
  <2>2. QED
    BY ONLY <1>1, <1>3, <2>1
<1>4. CASE InSession /\ (sessions' = Broken \/ \E r \in {ExitReason, StopReason} : sessions' = Closed(r))
  <2>1. /\ sessions' \in Seq(SessionRecord) /\ Len(sessions') = Len(sessions)
        /\ \A i \in DOMAIN sessions : sessions'[i].of = sessions[i].of
    BY ONLY <1>1, <1>4, LastChanged
  <2>2. DOMAIN sessions' = DOMAIN sessions
    BY ONLY <1>1, <2>1
  <2>3. QED
    BY <2>1, <2>2
<1>5. QED
  BY <1>2, <1>3, <1>4, SessionSteps DEF InSession

\* A step changes who runs under a PID only by starting or ending that process.
LEMMA HolderStep == ASSUME TypeOK, PlaceInv, HolderInv, [Next]_vars PROVE HolderInv'
<1>1. \A m, n \in running' : births'[m].pid = births'[n].pid => m = n
  <2>1. running \subseteq DOMAIN births
    BY DEF TypeOK
  <2>2. QED
    BY <2>1, BirthsGrow DEF HolderInv
<1>2. booted' \in 0..Len(births')
  <2>1. booted' = booted \/ (booted' = Len(births) /\ UNCHANGED births)
    <3> USE DEF env, budget, looks, choice
    <3>1. CASE UNCHANGED vars
      BY <3>1 DEF vars
    <3>2. CASE Environment
      BY <3>2 DEF Environment, Launch, Exit, EightSeconds, FifteenSeconds, RequestStop
    <3>3. CASE Boot \/ Poll \/ Ended \/ Close \/ Examine
      BY <3>3 DEF Boot, Poll, Scan, Ended, Close, Examine, ExamineWith
    <3>4. CASE Announce \/ OpenTelemetry \/ ObserveStop
      BY <3>4 DEF Announce, OpenTelemetry, ObserveStop
    <3>5. CASE ObservePoll
      BY <3>5 DEF ObservePoll
    <3>6. QED
      BY <3>1, <3>2, <3>3, <3>4, <3>5 DEF Next, Worker
  <2>2. Len(births) \in Nat /\ Len(births') \in Nat /\ Len(births) <= Len(births')
    BY BirthsGrow
  <2>3. booted \in 0..Len(births)
    BY DEF HolderInv
  <2>4. QED
    BY ONLY <2>1, <2>2, <2>3
<1>3. \A p \in Pids : snap'[p] # Nobody => snap'[p] \in DOMAIN births' /\ births'[snap'[p]].pid = p
  <2>1. \/ snap' = snap
        \/ snap' = NoSnapshot
        \/ snap' = [p \in Pids |-> Holder(p)]
    <3> USE DEF env, budget, looks, choice
    <3>1. CASE UNCHANGED vars
      BY <3>1 DEF vars
    <3>2. CASE Environment
      BY <3>2 DEF Environment, Launch, Exit, EightSeconds, FifteenSeconds, RequestStop
    <3>3. CASE Boot \/ Poll \/ Ended \/ Close \/ Examine
      BY <3>3 DEF Boot, Poll, Scan, Ended, Close, Examine, ExamineWith
    <3>4. CASE Announce \/ OpenTelemetry \/ ObserveStop
      BY <3>4 DEF Announce, OpenTelemetry, ObserveStop
    <3>5. CASE ObservePoll
      BY <3>5 DEF ObservePoll
    <3>6. QED
      BY <3>1, <3>2, <3>3, <3>4, <3>5 DEF Next, Worker
  <2>2. \A p \in Pids : snap'[p] # Nobody => snap'[p] \in DOMAIN births /\ births[snap'[p]].pid = p
    <3>1. CASE snap' = snap
      BY <3>1 DEF HolderInv
    <3>2. CASE snap' = NoSnapshot
      BY <3>2 DEF NoSnapshot
    <3>3. CASE snap' = [p \in Pids |-> Holder(p)]
      BY <3>3, HolderFacts DEF TypeOK
    <3>4. QED
      BY <2>1, <3>1, <3>2, <3>3
  <2>3. QED
    BY <2>2, BirthsGrow
<1>4. target'.named # Nobody =>
        target'.named \in DOMAIN births' /\ births'[target'.named].pid = target'.pid
  <2>1. CASE UNCHANGED target
    BY <2>1, BirthsGrow DEF HolderInv
  <2>2. CASE Examine /\ pc' = "reserve"
    <3>1. PICK p \in Pids : target'.named = snap[p] /\ target'.pid = p /\ snap[p] # Nobody
      BY <2>2, AttachStep DEF Examine
    <3>2. snap[p] \in DOMAIN births /\ births[snap[p]].pid = p
      BY <3>1 DEF HolderInv
    <3>3. QED
      BY <3>1, <3>2, BirthsGrow
  <2>3. CASE Ended
    BY <2>3 DEF Ended, NoTarget
  <2>4. QED
    BY <2>1, <2>2, <2>3, TargetSteps
<1>5. ASSUME target' # NoTarget PROVE Opened(target)'
  <2>1. CASE UNCHANGED target
    <3>1. Opened(target)
      BY <1>5, <2>1 DEF HolderInv
    <3>2. QED
      BY <2>1, <3>1, BirthsGrow DEF Opened
  <2>2. CASE Examine /\ pc' = "reserve"
    <3>1. PICK look : ExamineWith(look)
      BY <2>2 DEF Examine
    <3> DEFINE p == BestPid(look)
    <3>2. /\ target'.pid = p /\ target'.opened = Holder(p) /\ Holder(p) # Nobody
          /\ target'.birth = Birth(p, look)
      BY <2>2, <3>1, AttachStep
    <3> HIDE DEF p
    <3>3. Holder(p) \in DOMAIN births /\ births[Holder(p)].pid = p
      BY <3>2, HolderFacts DEF TypeOK
    <3>4. Birth(p, look) \in {0, Holder(p)}
      BY DEF Birth
    <3>5. QED
      BY <3>2, <3>3, <3>4, BirthsGrow DEF Opened
  <2>3. CASE Ended
    BY <1>5, <2>3 DEF Ended
  <2>4. QED
    BY <2>1, <2>2, <2>3, TargetSteps
<1>6. ASSUME NEW i \in DOMAIN sessions'
      PROVE  sessions'[i].of.named \in DOMAIN births' /\ Opened(sessions[i].of)'
  <2> DEFINE game == sessions'[i].of
  <2>1. game.named \in DOMAIN births /\ Opened(game)
    <3>1. CASE i \in DOMAIN sessions /\ game = sessions[i].of
      BY <3>1 DEF HolderInv
    <3>2. CASE pc = "reserve" /\ game = target
      <4>1. target \in Target
        BY <3>2 DEF PlaceInv, Holding
      <4>2. target.named # Nobody /\ target # NoTarget
        BY <4>1, BoundsAssumption DEF Target, Births, Nobody, NoTarget
      <4>3. QED
        BY <3>2, <4>2 DEF HolderInv
    <3>3. QED
      BY <3>1, <3>2, SameProcesses
  <2>2. \A n \in DOMAIN births : n \in DOMAIN births' /\ births'[n] = births[n]
    BY BirthsGrow
  <2>3. game.named \in DOMAIN births'
    BY <2>1, <2>2
  <2>4. /\ game.opened \in DOMAIN births' /\ births'[game.opened].pid = game.pid
        /\ game.birth \in {0, game.opened}
    BY <2>1, <2>2 DEF Opened
  <2>5. QED
    BY <2>3, <2>4 DEF Opened
<1>7. QED
  BY <1>1, <1>2, <1>3, <1>4, <1>5, <1>6 DEF HolderInv

\* The key of a game that was opened stays what it was.
LEMMA KeyStays ==
  ASSUME TypeOK, [Next]_vars, NEW game, Opened(game)
  PROVE  <<game.pid, births'[game.opened].exe, game.birth>> = KeyOf(game)
<1>1. births'[game.opened] = births[game.opened]
  BY BirthsGrow DEF Opened
<1>2. QED
  BY <1>1 DEF KeyOf, Key, ExeOf

\* The seen set grows, and a key is attached only when it is not in it.
LEMMA KeyStep == ASSUME TypeOK, PlaceInv, HolderInv, KeyInv, [Next]_vars PROVE KeyInv'
<1> DEFINE keyOf(game) == <<game.pid, births'[game.opened].exe, game.birth>>
<1>k. ASSUME NEW game PROVE KeyOf(game)' = keyOf(game')
  BY DEF KeyOf, Key, ExeOf
<1>r. pc = "reserve" => Opened(target)
  <2>1. pc = "reserve" => target \in Target
    BY DEF PlaceInv, Holding
  <2>2. pc = "reserve" => target # NoTarget
    BY <2>1, BoundsAssumption DEF Target, Births, NoTarget, Nobody
  <2>3. QED
    BY <2>2 DEF HolderInv
<1>t. pc = "reserve" => keyOf(target) = KeyOf(target)
  BY <1>r, KeyStays
<1>s. \A i \in DOMAIN sessions : keyOf(sessions[i].of) = KeyOf(sessions[i].of)
  BY KeyStays DEF HolderInv
<1>n. ASSUME NEW i \in DOMAIN sessions'
      PROVE  \/ i \in DOMAIN sessions /\ keyOf(sessions'[i].of) = KeyOf(sessions[i].of)
             \/ /\ pc = "reserve" /\ pc' = "telemetry" /\ i = Len(sessions')
                /\ keyOf(sessions'[i].of) = KeyOf(target)
  BY <1>s, <1>t, SameProcesses
<1> HIDE DEF keyOf
<1>1. seen \subseteq seen'
  <2>1. CASE Examine /\ pc' = "reserve"
    BY <2>1, AttachStep DEF Examine
  <2>2. CASE Ended
    BY <2>2 DEF Ended, choice
  <2>3. QED
    BY <2>1, <2>2, TargetSteps
<1>2. \A i \in DOMAIN sessions' : keyOf(sessions'[i].of) \in seen'
  BY <1>1, <1>n DEF KeyInv
<1>3. \A i, j \in DOMAIN sessions' : i # j => keyOf(sessions'[i].of) # keyOf(sessions'[j].of)
  BY <1>n DEF KeyInv
<1>4. pc' = "reserve" =>
        /\ keyOf(target') \in seen'
        /\ \A i \in DOMAIN sessions' : keyOf(sessions'[i].of) # keyOf(target')
  <2>1. CASE Examine /\ pc' = "reserve"
    <3>1. KeyOf(target') \in seen' /\ KeyOf(target') \notin seen
      BY <2>1, AttachStep DEF Examine
    <3>2. UNCHANGED <<sessions, births>>
      BY <2>1 DEF Examine, ExamineWith, env
    <3>3. keyOf(target') = KeyOf(target')
      BY <3>2 DEF keyOf, KeyOf, Key, ExeOf
    <3>4. QED
      BY <3>1, <3>2, <3>3, <1>s DEF KeyInv
  <2>2. CASE pc' = "reserve" /\ ~Examine
    <3>1. pc = "reserve" /\ UNCHANGED <<sessions, target, seen>>
      BY <2>2, TargetSteps, SessionSteps DEF Ended, Holding, InSession, ObservePoll
    <3>2. QED
      BY <3>1, <1>s, <1>t DEF KeyInv
  <2>3. QED
    BY <2>1, <2>2
<1>5. QED
  BY <1>2, <1>3, <1>4 DEF KeyInv, KeyOf, Key, ExeOf, keyOf

\* Different keys of one process: its birth was read for one of them only.
LEMMA KeysOfOne == ASSUME HolderInv, KeyInv PROVE NeverRecordedTwice
<1> SUFFICES ASSUME NEW i \in DOMAIN sessions, NEW j \in DOMAIN sessions, i # j,
                    sessions[i].of.opened = sessions[j].of.opened
             PROVE  (sessions[i].of.birth = 0) # (sessions[j].of.birth = 0)
  BY DEF NeverRecordedTwice
<1>1. Opened(sessions[i].of) /\ Opened(sessions[j].of)
  BY DEF HolderInv
<1>2. KeyOf(sessions[i].of) # KeyOf(sessions[j].of)
  BY DEF KeyInv
<1>3. sessions[i].of.birth # sessions[j].of.birth
  BY <1>1, <1>2 DEF Opened, KeyOf, Key
<1>4. QED
  BY <1>1, <1>3 DEF Opened

-----------------------------------------------------------------------------
\* Nothing is recorded yet.
LEMMA InvInit == ASSUME Init PROVE Inv
<1>b. {MaxBirths, MaxFaults, MaxSpurious, MaxMisread} \subseteq Nat
  BY BoundsAssumption
<1>1. TypeOK
  <2>1. births \in Seq([pid : Pids, exe : Exes]) /\ Len(births) <= MaxBirths
    BY <1>b DEF Init
  <2>2. NoTarget \in {NoTarget} \cup Target
        /\ NoSnapshot \in [Pids -> {Nobody} \cup Births]
    BY DEF NoTarget, NoSnapshot
  <2>3. 0 \in 0..MaxBirths /\ 0 \in 0..MaxSpurious /\ 0 \in 0..MaxMisread /\ 0 \in 0..MaxFaults
        /\ 0 \in 0..3
    BY <1>b
  <2>4. sessions = <<>>
    BY DEF Init
  <2>5. \A i \in DOMAIN sessions :
          sessions[i] \in [of : Target,
                           state : {"active", "finished"},
                           reason : {"none", ExitReason, StopReason},
                           failed : BOOLEAN]
    BY ONLY <2>4
  <2> HIDE DEF NoTarget, NoSnapshot
  <2>6. QED
    BY <2>1, <2>2, <2>3, <2>5 DEF Init, TypeOK
<1>2. PlaceInv
  <2>1. <<>> \in Seq(SessionRecord)
    OBVIOUS
  <2>2. QED
    BY <2>1 DEF Init, PlaceInv, Holding, InSession, LatestSession
<1>3. CountInv
  BY DEF Init, CountInv
<1>4. HolderInv
  BY DEF Init, HolderInv, NoSnapshot, NoTarget
<1>5. KeyInv
  BY DEF Init, KeyInv
<1>6. QED
  BY <1>1, <1>2, <1>3, <1>4, <1>5 DEF Inv

\* The invariant of the worker holds in every behaviour.
THEOREM MonitorInvariant == Spec => []Inv
<1>1. Inv /\ [Next]_vars => Inv'
  BY TypedStep, PlaceStep, CountStep, HolderStep, KeyStep DEF Inv
<1>2. QED
  BY InvInit, <1>1, PTL DEF Spec

\* The worker's memory and its session directory keep their types.
THEOREM MonitorTyped == Spec => []TypeOK
BY MonitorInvariant, PTL DEF Inv

\* monitor attaches to no process twice, whatever became of its first session, except once
\* more when its birth was read for one of the two sessions and not for the other.
THEOREM RecordedOnce == Spec => []NeverRecordedTwice
<1>1. Inv => NeverRecordedTwice
  BY KeysOfOne DEF Inv
<1>2. QED
  BY MonitorInvariant, <1>1, PTL

-----------------------------------------------------------------------------
(* The exit of a game.                                                       *)

\* While the recorded process runs its PID is held by it, so a true look finds it there.
LEMMA RunningIsPresent ==
  ASSUME TypeOK, HolderInv, target.named \in running PROVE Present
<1>1. target.named # Nobody /\ target.named \in DOMAIN births
  BY DEF TypeOK, Nobody
<1>2. births[target.named].pid = target.pid
  BY <1>1 DEF HolderInv
<1>3. Holder(target.pid) # Nobody /\ Holder(target.pid) \in running
      /\ births[Holder(target.pid)].pid = target.pid
  BY <1>2, HolderFacts
<1>4. Holder(target.pid) = target.named
  BY <1>2, <1>3 DEF HolderInv
<1>5. QED
  BY <1>3, <1>4 DEF Present, ExeOf

\* No miss has been counted yet.
LEMMA MissInit == ASSUME Init PROVE MissInv
BY DEF Init, MissInv, ExitMeansGone

\* Up to two wrong observations in a row do not reach the third miss.
LEMMA MissStep ==
  ASSUME MaxSpurious <= 2, Inv, MissInv, [Next]_vars PROVE MissInv'
<1>i. TypeOK /\ PlaceInv /\ CountInv /\ HolderInv /\ KeyInv
  BY DEF Inv
<1>r. \A n \in DOMAIN births : n \in running' => n \in running
  BY <1>i, BirthsGrow
<1>p. ASSUME ObservePoll, target.named \in running
      PROVE  missing' <= spurious' /\ spurious' <= 2 /\ missing' \in Nat /\ spurious' \in Nat
  <2>1. Present
    BY <1>i, <1>p, RunningIsPresent
  <2>2. missing \in 0..3 /\ spurious \in 0..MaxSpurious /\ MaxSpurious \in Nat
    BY <1>i, BoundsAssumption DEF TypeOK
  <2>3. missing <= spurious /\ pc = "observe"
    BY <1>p DEF MissInv, ObservePoll
  <2>4. \/ missing' = 0 /\ spurious' = 0
        \/ missing' = missing + 1 /\ spurious' = spurious + 1 /\ spurious < MaxSpurious
    BY <1>p, <2>1 DEF ObservePoll, CountMiss
  <2>5. QED
    BY <2>2, <2>3, <2>4
<1>1. pc' = "observe" /\ target'.named \in running' => missing' <= spurious'
  <2> SUFFICES ASSUME pc' = "observe", target'.named \in running' PROVE missing' <= spurious'
    OBVIOUS
  <2>1. target' = target /\ Holding
    BY TargetSteps DEF Holding, Ended
  <2>2. target.named \in DOMAIN births
    <3>1. target.named \in Births
      BY <1>i, <2>1 DEF PlaceInv, Target
    <3>2. QED
      BY <1>i, <3>1, BoundsAssumption DEF HolderInv, Births, Nobody
  <2>3. target.named \in running
    BY <1>r, <2>1, <2>2
  <2>4. CASE ObservePoll
    BY <1>p, <2>3, <2>4
  <2>5. CASE ~ObservePoll
    <3>1. UNCHANGED <<missing, spurious>> /\ (pc = "observe" \/ pc = "telemetry")
      <4> USE <2>5 DEF env, budget, looks, choice
      <4>1. CASE UNCHANGED vars
        BY <4>1 DEF vars
      <4>2. CASE Environment
        BY <4>2 DEF Environment, Launch, Exit, EightSeconds, FifteenSeconds, RequestStop
      <4>3. CASE Boot \/ Poll \/ Ended \/ Close \/ Examine
        BY <4>3 DEF Boot, Poll, Scan, Ended, Close, Examine, ExamineWith, Attach
      <4>4. CASE Announce \/ OpenTelemetry \/ ObserveStop
        BY <4>4 DEF Announce, OpenTelemetry, ObserveStop, Fail
      <4>5. QED
        BY <4>1, <4>2, <4>3, <4>4 DEF Next, Worker
    <3>2. CASE pc = "observe"
      BY <2>3, <3>1, <3>2 DEF MissInv
    <3>3. CASE pc = "telemetry"
      BY <1>i, <3>1, <3>3 DEF CountInv
    <3>4. QED
      BY <3>1, <3>2, <3>3
  <2>6. QED
    BY <2>4, <2>5
<1>2. ExitMeansGone'
  <2> SUFFICES ASSUME NEW i \in DOMAIN sessions', sessions'[i].reason = ExitReason
               PROVE  sessions'[i].of.named \notin running'
    BY DEF ExitMeansGone
  <2>1. sessions \in Seq(SessionRecord) /\ (InSession => sessions # <<>> /\ sessions[Current].of = target)
    BY <1>i DEF PlaceInv
  <2>2. CASE i \in DOMAIN sessions /\ sessions[i].reason = ExitReason
             /\ sessions'[i].of = sessions[i].of
    BY <1>i, <1>r, <2>2 DEF MissInv, ExitMeansGone, HolderInv
  <2>3. CASE UNCHANGED sessions
    BY <2>2, <2>3
  <2>4. CASE sessions' = Append(sessions, Session)
    <3>1. Session.reason = "none" /\ ExitReason # "none"
      BY DEF Session, ExitReason
    <3>2. i \in DOMAIN sessions /\ sessions'[i] = sessions[i]
      BY ONLY <2>1, <2>4, <3>1, sessions'[i].reason = ExitReason, i \in DOMAIN sessions'
    <3>3. QED
      BY <2>2, <3>2
  <2>5. CASE InSession /\ (sessions' = Broken \/ \E r \in {ExitReason, StopReason} : sessions' = Closed(r))
    <3>1. /\ Len(sessions') = Len(sessions) /\ sessions' \in Seq(SessionRecord)
          /\ Current \in DOMAIN sessions
          /\ \A j \in DOMAIN sessions : /\ sessions'[j].of = sessions[j].of
                                        /\ j # Current => sessions'[j] = sessions[j]
          /\ sessions' = Broken => sessions'[Current].reason = sessions[Current].reason
          /\ \A r \in {ExitReason, StopReason} : sessions' = Closed(r) =>
               sessions'[Current].reason = r
      BY ONLY <2>1, <2>5, LastChanged
    <3>2. i \in DOMAIN sessions
      BY ONLY <2>1, <3>1, i \in DOMAIN sessions'
    <3>3. CASE i # Current \/ sessions' = Broken \/ sessions[i].reason = ExitReason
      BY <2>2, <3>1, <3>2, <3>3
    <3>4. CASE i = Current /\ sessions' = Closed(StopReason)
      <4>1. StopReason # ExitReason
        BY DEF StopReason, ExitReason
      <4>2. QED
        BY <3>1, <3>4, <4>1
    <3>5. CASE /\ i = Current /\ sessions' = Closed(ExitReason) /\ sessions' # Broken
               /\ sessions[i].reason # ExitReason
      <4>1. ObservePoll /\ missing' >= 3
        <5>1. sessions' # Closed(StopReason)
          <6>1. StopReason # ExitReason
            BY DEF StopReason, ExitReason
          <6>2. QED
            BY <3>1, <3>5, <6>1
        <5>2. sessions' # sessions
          BY <3>5
        <5>3. sessions' # Append(sessions, Session)
          BY ONLY <2>1, <3>1
        <5>4. QED
          BY <2>5, <3>5, <5>1, <5>2, <5>3, SessionSteps DEF InSession
      <4>2. target.named \notin running
        <5>1. ASSUME target.named \in running PROVE FALSE
          <6>1. missing' <= spurious' /\ spurious' <= 2 /\ missing' \in Nat /\ spurious' \in Nat
            BY <1>p, <4>1, <5>1
          <6>2. QED
            BY ONLY <4>1, <6>1
        <5>2. QED
          BY <5>1
      <4>3. sessions'[i].of.named = target.named
        BY <2>1, <2>5, <3>1, <3>5
      <4>4. target.named \in DOMAIN births
        BY <1>i, <2>1, <2>5, <3>1 DEF HolderInv
      <4>5. QED
        BY <1>r, <4>2, <4>3, <4>4
    <3>6. QED
      BY <2>5, <3>3, <3>4, <3>5
  <2>6. QED
    BY <2>3, <2>4, <2>5, SessionSteps DEF InSession
<1>3. QED
  BY <1>1, <1>2 DEF MissInv

\* "Require three consecutive misses": an exit is reported only of a game that is gone,
\* as long as no more than two looks in a row are wrong.
THEOREM ExitIsTrue == ASSUME MaxSpurious <= 2 PROVE Spec => []ExitMeansGone
<1>1. Inv /\ MissInv /\ [Next]_vars => MissInv'
  BY MissStep
<1>2. MissInv => ExitMeansGone
  BY DEF MissInv
<1>3. QED
  BY MissInit, MonitorInvariant, <1>1, <1>2, PTL DEF Spec

-----------------------------------------------------------------------------
(* New games before old ones.                                                *)

\* A process launched later takes no PID of the baseline.
LEMMA FreshStep ==
  ASSUME BaselineReused = FALSE, TypeOK, FreshInv, [Next]_vars PROVE FreshInv'
<1> USE DEF FreshInv, env, budget, looks, choice
<1>t. births \in Seq([pid : Pids, exe : Exes])
  BY DEF TypeOK
<1>1. CASE UNCHANGED vars
  BY <1>1 DEF vars
<1>2. ASSUME NEW pid \in Pids, NEW exe \in Exes, Launch(pid, exe) PROVE FreshInv'
  <2>1. /\ births' = Append(births, [pid |-> pid, exe |-> exe])
        /\ pid \notin baseline /\ UNCHANGED <<pc, booted, baseline>>
    BY <1>2 DEF Launch
  <2>2. \A n \in DOMAIN births' : \/ n \in DOMAIN births /\ births'[n] = births[n]
                                  \/ births'[n] = [pid |-> pid, exe |-> exe]
    BY ONLY <1>t, <2>1
  <2>3. QED
    BY <2>1, <2>2
<1>3. CASE (\E n \in Births : Exit(n)) \/ EightSeconds \/ FifteenSeconds \/ RequestStop
  BY <1>3 DEF Exit, EightSeconds, FifteenSeconds, RequestStop
<1>4. CASE Boot
  <2>1. births' = births /\ booted' = Len(births)
    BY <1>4 DEF Boot
  <2>2. \A n \in DOMAIN births' : ~(n > booted')
    BY ONLY <1>t, <2>1
  <2>3. QED
    BY <2>2
<1>5. CASE Poll \/ Ended \/ Close
  BY <1>5 DEF Poll, Scan, Ended, Close
<1>6. CASE Examine
  BY <1>6 DEF Examine, ExamineWith, Attach
<1>7. CASE Announce \/ OpenTelemetry \/ ObserveStop
  BY <1>7 DEF Announce, OpenTelemetry, ObserveStop
<1>8. CASE ObservePoll
  BY <1>8 DEF ObservePoll
<1>9. QED
  BY <1>1, <1>2, <1>3, <1>4, <1>5, <1>6, <1>7, <1>8 DEF Next, Worker, Environment

\* A waiting new game qualifies, so the sort puts a new game first.
LEMMA NewFirst ==
  ASSUME Inv, FreshInv, NEW look, ExamineWith(look), pc' = "reserve",
         ~Launched(target'.opened), NEW n \in running, Launched(n), Waiting(n, look)
  PROVE  FALSE
<1>i. TypeOK /\ HolderInv
  BY DEF Inv
<1> DEFINE q == births[n].pid
           p == BestPid(look)
<1>2. target'.opened = Holder(p)
  BY <1>i, AttachStep
<1>3. n \in DOMAIN births /\ births \in Seq([pid : Pids, exe : Exes]) /\ n \in Births
  BY <1>i, BoundsAssumption DEF TypeOK, Births
<1>4. q \in Pids
  <2>1. births[n] \in [pid : Pids, exe : Exes]
    BY ONLY <1>3, ElementOf
  <2>2. QED
    BY <2>1
<1>5. q \notin baseline
  BY <1>3 DEF FreshInv, Launched
<1>8. Holder(q) = n /\ Birth(q, look) = n
  BY DEF Waiting, Birth
<1>6. Eligible(q, look)
  <2>1. n # Nobody
    BY <1>3, BoundsAssumption DEF Births, Nobody
  <2>2. Key(q, Holder(q), Birth(q, look)) \notin seen
    BY <1>8 DEF Waiting, Attached
  <2>3. QED
    BY <1>5, <1>8, <2>1, <2>2 DEF Eligible, Waiting
<1>7. p \in Pids /\ Eligible(p, look) /\ (q # p => Before(p, q, look))
  BY <1>i, <1>4, <1>6, BestIsFirst
<1>9. q # p
  BY <1>2, <1>8
<1> HIDE DEF p, q
<1>11. Holder(p) \in Births
  BY <1>i, <1>7, HolderFacts DEF Eligible
<1>10. Holder(p) >= n
  <2>1. Birth(p, look) >= n
    BY <1>5, <1>7, <1>8, <1>9 DEF Before
  <2>2. Birth(p, look) \in {0, Holder(p)}
    BY DEF Birth
  <2>3. n \in Nat /\ n > 0 /\ Holder(p) \in Nat
    BY <1>3, <1>11, BoundsAssumption DEF Births
  <2>4. QED
    BY ONLY <2>1, <2>2, <2>3
<1>12. Holder(p) > booted
  <2>1. n > booted
    BY DEF Launched
  <2>2. booted \in Nat /\ n \in Nat /\ Holder(p) \in Nat
    BY <1>i, <1>3, <1>11, BoundsAssumption DEF TypeOK, Births
  <2>3. QED
    BY ONLY <1>10, <2>1, <2>2
<1>13. QED
  BY <1>2, <1>12 DEF Launched

\* "Prefer a newly launched game over previously running candidates" is true where a PID
\* of the baseline is not given to a new process.
THEOREM NewGamesFirst == ASSUME BaselineReused = FALSE PROVE Spec => NewGamePreferred
<1>1. Init => FreshInv
  BY DEF Init, FreshInv
<1>2. Inv /\ FreshInv /\ [Next]_vars => FreshInv'
  BY FreshStep DEF Inv
<1>3. Inv /\ FreshInv /\ [Next]_vars =>
        [\A look \in Looks :
           ExamineWith(look) /\ pc' = "reserve" /\ ~Launched(target'.opened) =>
             ~\E n \in running : Launched(n) /\ Waiting(n, look)]_vars
  BY NewFirst
<1>4. QED
  BY <1>1, <1>2, <1>3, MonitorInvariant, PTL DEF Spec, NewGamePreferred

-----------------------------------------------------------------------------
(* The role.                                                                 *)

Due == stop \/ exited \/ idle # "none"

\* What the end of a session looks like from outside.
LEMMA EndSeen ==
  ASSUME PlaceInv, InSession
  PROVE  /\ sessions' = Broken => LatestSession' = "stuck"
         /\ sessions' = Closed(ExitReason) => LatestSession' = "exited"
         /\ sessions' = Closed(StopReason) => LatestSession' = "stopped"
<1>1. sessions \in Seq(SessionRecord) /\ sessions # <<>> /\ LatestSession = "active"
  BY DEF PlaceInv
<1>2. sessions[Current].failed = FALSE
  <2>1. sessions[Current] \in SessionRecord
    BY ONLY <1>1 DEF Current
  <2>2. ~sessions[Current].failed
    BY <1>1 DEF LatestSession
  <2>3. QED
    BY <2>1, <2>2 DEF SessionRecord
<1>3. ASSUME sessions' = Broken \/ \E r \in {ExitReason, StopReason} : sessions' = Closed(r)
      PROVE  sessions' # <<>> /\ Current' = Current
  <2>1. /\ sessions' \in Seq(SessionRecord) /\ Len(sessions') = Len(sessions)
        /\ Current' = Current
    BY ONLY <1>1, <1>3, LastChanged
  <2>2. QED
    BY <1>1, <2>1
<1>4. ASSUME sessions' = Broken PROVE LatestSession' = "stuck"
  <2>1. sessions'[Current].failed = TRUE
    BY ONLY <1>1, <1>4, LastChanged
  <2>2. QED
    BY <1>3, <1>4, <2>1 DEF LatestSession
<1>5. ASSUME NEW r \in {ExitReason, StopReason}, sessions' = Closed(r)
      PROVE  LatestSession' = IF r = ExitReason THEN "exited" ELSE "stopped"
  <2>1. /\ sessions'[Current].reason = r /\ sessions'[Current].state = "finished"
        /\ sessions'[Current].failed = sessions[Current].failed
    BY ONLY <1>1, <1>5, LastChanged
  <2>2. QED
    BY <1>2, <1>3, <1>5, <2>1 DEF LatestSession
<1>6. ExitReason # StopReason
  BY DEF ExitReason, StopReason
<1>7. QED
  BY <1>4, <1>5, <1>6

\* Every step of the worker is a step of its role, or none.
LEMMA RoleStep ==
  ASSUME PlaceInv, PlaceInv', TypeOK, [Next]_vars PROVE [Role!Next]_(Role!vars)
<1> USE DEF Due, env, budget, looks, choice
<1>a. ~InSession => LatestSession # "active"
  BY DEF PlaceInv
<1>n. exited => pc = "ended"
  BY DEF PlaceInv
<1>s. ASSUME UNCHANGED <<sessions, finished>>, Due' = Due PROVE UNCHANGED Role!vars
  BY <1>s DEF Role!vars, LatestSession, Current
<1>e. ASSUME InSession, UNCHANGED finished,
             \/ sessions' = Broken /\ (Due' \/ Due' = Due)
             \/ sessions' = Closed(ExitReason) /\ Due'
             \/ sessions' = Closed(StopReason) /\ Due /\ Due'
      PROVE  Role!EndSession
  <2>1. LatestSession = "active"
    BY <1>e DEF PlaceInv
  <2>2. QED
    BY <1>e, <2>1, EndSeen DEF Role!EndSession
<1>1. CASE UNCHANGED vars
  BY <1>1, <1>s DEF vars
<1>2. CASE Environment
  <2>1. UNCHANGED <<sessions, finished, exited>>
        /\ (\/ UNCHANGED <<stop, idle>>
            \/ UNCHANGED stop /\ idle = "short" /\ idle' = "long"
            \/ stop' = TRUE /\ UNCHANGED idle)
    BY <1>2 DEF Environment, Launch, Exit, EightSeconds, FifteenSeconds, RequestStop
  <2>2. CASE stop' = TRUE
    BY <2>1, <2>2 DEF Role!Next, Role!Ask, LatestSession, Current
  <2>3. CASE stop' # TRUE
    BY <2>1, <2>3, <1>s
  <2>4. QED
    BY <2>2, <2>3
<1>3. CASE Boot \/ Poll
  BY <1>3, <1>s DEF Boot, Poll, Scan
<1>4. CASE Examine
  BY <1>4, <1>s DEF Examine, ExamineWith
<1>5. CASE Announce
  <2>1. CASE sessions' = Append(sessions, Session) /\ pc' = "telemetry" /\ UNCHANGED <<exited, faults>>
    <3>1. LatestSession' = "active" /\ LatestSession # "active" /\ ~finished
      BY <1>5, <2>1, <1>a DEF PlaceInv, InSession, Announce
    <3>2. Due' = Due /\ UNCHANGED finished
      BY <1>5, <2>1 DEF Announce
    <3>3. QED
      BY <3>1, <3>2 DEF Role!Next, Role!Attach
  <2>2. CASE Fail /\ UNCHANGED sessions
    BY <1>5, <2>2, <1>n, <1>s DEF Announce, Fail
  <2>3. QED
    BY <1>5, <2>1, <2>2 DEF Announce
<1>6. CASE OpenTelemetry
  <2>1. CASE UNCHANGED <<exited, faults, sessions>>
    BY <1>6, <2>1, <1>s DEF OpenTelemetry
  <2>2. CASE Fail /\ sessions' = Broken
    <3>1. InSession /\ Due' = Due /\ UNCHANGED finished
      BY <1>6, <2>2, <1>n DEF OpenTelemetry, Fail, InSession
    <3>2. QED
      BY <2>2, <3>1, <1>e DEF Role!Next
  <2>3. QED
    BY <1>6, <2>1, <2>2 DEF OpenTelemetry, Broken
<1>7. CASE ObserveStop
  <2>1. InSession /\ Due /\ Due' /\ UNCHANGED finished
        /\ (sessions' = Broken \/ sessions' = Closed(StopReason))
    BY <1>7 DEF ObserveStop, WriteSessionEnd, InSession, Broken, Closed
  <2>2. QED
    BY <2>1, <1>e DEF Role!Next
<1>8. CASE ObservePoll
  <2>1. CASE missing' >= 3
    <3>1. InSession /\ Due' /\ UNCHANGED finished
          /\ (sessions' = Broken \/ sessions' = Closed(ExitReason))
      BY <1>8, <2>1 DEF ObservePoll, CountMiss, EndAfter, WriteSessionEnd, InSession, Broken,
                        Closed
    <3>2. QED
      BY <3>1, <1>e DEF Role!Next
  <2>2. CASE ~(missing' >= 3)
    <3>1. UNCHANGED <<sessions, exited, stop, idle, finished>>
      BY <1>8, <2>2 DEF ObservePoll, CountMiss, EndAfter
    <3>2. QED
      BY <3>1, <1>s
  <2>3. QED
    BY <2>1, <2>2
<1>9. CASE Ended
  BY <1>9, <1>s DEF Ended
<1>10. CASE Close
  <2>1. UNCHANGED <<sessions, stop, exited, idle>> /\ pc = "close"
    BY <1>10 DEF Close
  <2>2. CASE UNCHANGED finished
    BY <2>1, <2>2, <1>s
  <2>3. CASE finished' = TRUE
    <3>1. Due /\ LatestSession # "active" /\ ~finished
      BY <2>1, <1>a DEF PlaceInv, InSession
    <3>2. LatestSession' = LatestSession /\ Due' = Due
      BY <2>1 DEF LatestSession, Current
    <3>3. QED
      BY <2>3, <3>1, <3>2 DEF Role!Next, Role!Finish
  <2>4. QED
    BY <1>10, <2>2, <2>3 DEF Close
<1>11. QED
  BY <1>1, <1>2, <1>3, <1>4, <1>5, <1>6, <1>7, <1>8, <1>9, <1>10 DEF Next, Worker

\* The worker implements the role that the supervisor's processes rely on.
THEOREM KeepsItsRole == Spec => ImplementsRole
<1>1. Init => Role!Init
  BY DEF Init, Role!Init, LatestSession
<1>2. Inv /\ Inv' /\ [Next]_vars => [Role!Next]_(Role!vars)
  BY RoleStep DEF Inv
<1>3. QED
  BY <1>1, <1>2, MonitorInvariant, PTL DEF Spec, ImplementsRole, Role!Spec
=============================================================================
