---------------------------- MODULE SchedulerProofs ----------------------------
(***************************************************************************)
(* What the night's processes can do to each other's files, for any number *)
(* of processes, causes, reports and pods and any bounds of a night.       *)
(*                                                                         *)
(* RefineryInv says what the refinery's files hold and what a process      *)
(* holds that is about to append to them; TickInv says of every tick of a  *)
(* watcher what it has stored, what it has told and what it has yet to     *)
(* tell.  Both are inductive, the second on top of the first.              *)
(***************************************************************************)
EXTENDS Scheduler, FiniteSetTheorems, SequenceTheorems, WellFoundedInduction, TLAPS

(* A set listed by SetToSeq: every element, once.                          *)
LEMMA ListOfSet ==
  ASSUME NEW S, IsFiniteSet(S)
  PROVE  /\ SetToSeq(S) \in Seq(S)
         /\ {SetToSeq(S)[i] : i \in 1 .. Len(SetToSeq(S))} = S
<1> DEFINE n == Cardinality(S)
<1>1. n \in Nat /\ ExistsBijection(1 .. n, S)
  BY FS_CardinalityType
<1>2. PICK f \in [1 .. n -> S] : IsInjective(f)
  BY <1>1 DEF ExistsBijection, Bijection, Injection
<1>3. SetToSeq(S) \in [1 .. n -> S] /\ IsInjective(SetToSeq(S))
  BY <1>2 DEF SetToSeq
<1>4. SetToSeq(S) \in Injection(1 .. n, S)
  BY <1>3 DEF Injection
<1>5. Cardinality(1 .. n) = n
  BY <1>1, FS_Interval
<1>6. SetToSeq(S) \in Surjection(1 .. n, S)
  BY <1>4, <1>5, FS_Injection
<1>7. SetToSeq(S) \in Seq(S) /\ Len(SetToSeq(S)) = n
  BY <1>1, <1>3, SeqDef
<1> QED  BY <1>6, <1>7 DEF Surjection

(* The n largest of a set of numbers are n numbers, if it has that many.   *)
LEMMA LargestAreMany ==
  ASSUME NEW D \in SUBSET Int, IsFiniteSet(D), NEW n \in Nat, n <= Cardinality(D)
  PROVE  Cardinality({d \in D : Cardinality({f \in D : f > d}) < n}) = n
<1> DEFINE Above(d) == {f \in D : f > d}
           rank == [d \in D |-> Cardinality(Above(d))]
           m == Cardinality(D)
           largest == {d \in D : Cardinality(Above(d)) < n}
<1>1. m \in Nat
  BY FS_CardinalityType
<1>2. \A d \in D : IsFiniteSet(Above(d)) /\ Cardinality(Above(d)) \in 0 .. m - 1
  <2> TAKE d \in D
  <2>1. IsFiniteSet(D \ {d}) /\ Cardinality(D \ {d}) = m - 1
    BY FS_RemoveElement
  <2>2. Above(d) \in SUBSET (D \ {d})
    OBVIOUS
  <2>3. IsFiniteSet(Above(d)) /\ Cardinality(Above(d)) <= m - 1
    BY <2>1, <2>2, FS_Subset
  <2>4. Cardinality(Above(d)) \in Nat
    BY <2>3, FS_CardinalityType
  <2> QED  BY <1>1, <2>3, <2>4
<1>3. \A d, e \in D : d < e => Cardinality(Above(e)) < Cardinality(Above(d))
  <2> SUFFICES ASSUME NEW d \in D, NEW e \in D, d < e
               PROVE  Cardinality(Above(e)) < Cardinality(Above(d))
    OBVIOUS
  <2>1. Above(e) \in SUBSET Above(d) /\ e \in Above(d) /\ e \notin Above(e)
    <3>1. d \in Int /\ e \in Int /\ \A f \in D : f \in Int
      OBVIOUS
    <3>2. \A f \in D : f > e => f > d
      BY <3>1
    <3>3. e > d /\ ~(e > e)
      BY <3>1
    <3>4. \A f \in Above(e) : f \in Above(d)
      BY <3>2
    <3> QED  BY <3>3, <3>4
  <2>2. Cardinality(Above(e)) <= Cardinality(Above(d)) /\ Cardinality(Above(e)) # Cardinality(Above(d))
    <3> HIDE DEF Above
    <3> QED  BY <1>2, <2>1, FS_Subset
  <2>3. Cardinality(Above(e)) \in Int /\ Cardinality(Above(d)) \in Int
    BY <1>2
  <2> QED  BY <2>2, <2>3
<1> HIDE DEF Above
<1>4. rank \in Injection(D, 0 .. m - 1)
  <2>1. rank \in [D -> 0 .. m - 1]
    BY <1>2
  <2>2. ASSUME NEW d \in D, NEW e \in D, rank[d] = rank[e] PROVE d = e
    <3>1. d \in Int /\ e \in Int /\ Cardinality(Above(d)) \in Int
      BY <1>2
    <3>2. ~(d < e) /\ ~(e < d)
      BY <1>3, <2>2, <3>1, <1>2
    <3> QED  BY <3>1, <3>2
  <2> QED  BY <2>1, <2>2 DEF Injection, IsInjective
<1>5. IsFiniteSet(0 .. m - 1) /\ Cardinality(0 .. m - 1) = m
  <2> HIDE DEF m
  <2>1. m - 1 \in Int /\ (0 > m - 1 <=> m = 0)
    BY <1>1
  <2> QED  BY <1>1, <2>1, FS_Interval
<1>6. rank \in Surjection(D, 0 .. m - 1)
  BY <1>4, <1>5, FS_Injection
<1>7. [d \in largest |-> rank[d]] \in Bijection(largest, 0 .. n - 1)
  <2> DEFINE top == [d \in largest |-> rank[d]]
  <2>1. top \in [largest -> 0 .. n - 1]
    <3>1. \A d \in largest : rank[d] \in Nat /\ rank[d] < n
      BY <1>2
    <3>2. \A d \in largest : rank[d] \in 0 .. n - 1
      BY <3>1
    <3> HIDE DEF rank, largest
    <3> QED  BY <3>2
  <2>2. IsInjective(top)
    BY <1>4 DEF Injection, IsInjective
  <2>3. \A k \in 0 .. n - 1 : \E d \in largest : top[d] = k
    <3> TAKE k \in 0 .. n - 1
    <3>1. k \in 0 .. m - 1
      BY <1>1
    <3>2. PICK d \in D : rank[d] = k
      BY <1>6, <3>1 DEF Surjection
    <3> QED  BY <3>2
  <2> QED  BY <2>1, <2>2, <2>3 DEF Bijection, Injection, Surjection
<1>8. IsFiniteSet(largest)
  BY FS_Subset
<1>9. Cardinality(0 .. n - 1) = Cardinality(largest)
  BY <1>7, <1>8, FS_Bijection DEF ExistsBijection
<1>10. Cardinality(0 .. n - 1) = n
  BY FS_Interval
<1> QED  BY <1>9, <1>10 DEF Above

(* A rule earned its promotion as of the first `seen` rows of the passes.  *)
Earned(rule, seen) ==
  \/ RecordedTwice(rule)
  \/ LET rows == {i \in PassesOf(rule) : i <= seen}
         days == {passes[i].day : i \in rows}
         last == {d \in days : Cardinality({f \in days : f > d}) < Threshold}
     IN  /\ Cardinality(last) = Threshold
         /\ \A i \in rows : passes[i].day \in last => passes[i].passed

Pass == [day : Nat, rule : Causes, passed : BOOLEAN]

(* The count of consecutivePasses, with a row a day, is a count of days.   *)
LEMMA ConsecutiveIsEarned ==
  ASSUME passes \in Seq(Pass), NEW rule, ConsecutivePasses(rule) >= Threshold
  PROVE  Earned(rule, Len(passes))
<1> SUFFICES ASSUME ~RecordedTwice(rule) PROVE Earned(rule, Len(passes))
  BY DEF Earned
<1> DEFINE rows == {i \in PassesOf(rule) : i <= Len(passes)}
           day == [i \in rows |-> passes[i].day]
           days == {passes[i].day : i \in rows}
           last == {d \in days : Cardinality({f \in days : f > d}) < Threshold}
           counted == {i \in PassesOf(rule) :
                         /\ passes[i].passed
                         /\ \A j \in PassesOf(rule) : Newer(j, i) => passes[j].passed}
<1>1. Len(passes) \in Nat /\ Threshold \in Nat
  BY RefineryAssumption
<1>2. rows = PassesOf(rule) /\ rows \in SUBSET (1 .. Len(passes))
  BY <1>1 DEF PassesOf
<1>3. IsFiniteSet(rows)
  <2>1. IsFiniteSet(1 .. Len(passes))
    BY <1>1, FS_Interval
  <2> QED  BY <1>2, <2>1, FS_Subset
<1>4. \A i \in rows : passes[i].day \in Int /\ i \in Int
  <2>1. \A i \in 1 .. Len(passes) : passes[i] \in Pass
    BY <1>1, ElementOfSeq
  <2> QED  BY <1>1, <1>2, <2>1 DEF Pass
<1>5. \A i, j \in rows : passes[i].day = passes[j].day => i = j
  BY <1>2 DEF RecordedTwice
<1>6. day \in Bijection(rows, days)
  BY <1>5 DEF Bijection, Injection, Surjection, IsInjective
<1>7. IsFiniteSet(days) /\ Cardinality(days) = Cardinality(rows)
  BY <1>3, <1>6, FS_Bijection DEF ExistsBijection
<1>8. counted \in SUBSET rows /\ IsFiniteSet(counted) /\ Cardinality(counted) <= Cardinality(rows)
  BY <1>2, <1>3, FS_Subset
<1>9. /\ Cardinality(counted) \in Nat /\ Cardinality(counted) >= Threshold
      /\ Cardinality(rows) \in Nat
  BY <1>3, <1>8, FS_CardinalityType DEF ConsecutivePasses
<1>10. Cardinality(last) = Threshold
  <2>1. days \in SUBSET Int /\ Threshold <= Cardinality(days)
    BY <1>1, <1>4, <1>7, <1>8, <1>9
  <2> QED  BY <1>1, <1>7, <2>1, LargestAreMany
<1>11. ASSUME NEW i \in rows, passes[i].day \in last, ~passes[i].passed PROVE FALSE
  <2> DEFINE later == {f \in days : f > passes[i].day}
  <2>1. \A c \in counted : passes[c].day > passes[i].day
    <3> TAKE c \in counted
    <3>1. c \in rows /\ c # i /\ ~Newer(i, c)
      BY <1>2, <1>8, <1>11
    <3>2. passes[c].day # passes[i].day /\ ~(passes[i].day > passes[c].day)
      BY <1>5, <3>1 DEF Newer
    <3> QED  BY <1>4, <3>1, <3>2
  <2>2. [c \in counted |-> passes[c].day] \in Injection(counted, later)
    BY <1>5, <1>8, <2>1 DEF Injection, IsInjective
  <2>3. IsFiniteSet(later)
    BY <1>7, FS_Subset
  <2>4. Cardinality(counted) <= Cardinality(later) /\ Cardinality(later) \in Nat
    BY <2>2, <2>3, FS_Injection, FS_CardinalityType
  <2>5. Cardinality(later) < Threshold
    BY <1>11
  <2> QED  BY <1>1, <1>9, <2>4, <2>5
<1> QED  BY <1>10, <1>11 DEF Earned

(* Rows are only ever appended, and what was earned stays earned.          *)
LEMMA EarnedStays ==
  ASSUME passes \in Seq(Pass), passes' \in Seq(Pass), Len(passes) <= Len(passes'),
         \A i \in 1 .. Len(passes) : passes'[i] = passes[i],
         NEW rule, NEW seen \in Nat, seen <= Len(passes), Earned(rule, seen)
  PROVE  Earned(rule, seen)'
<1>1. Len(passes) \in Nat /\ Len(passes') \in Nat
  OBVIOUS
<1>2. PassesOf(rule) \subseteq PassesOf(rule)'
  BY <1>1 DEF PassesOf
<1>3. CASE RecordedTwice(rule)
  <2>1. RecordedTwice(rule)'
    BY <1>1, <1>2, <1>3 DEF RecordedTwice, PassesOf
  <2> QED  BY <2>1 DEF Earned
<1>4. CASE ~RecordedTwice(rule)
  <2> DEFINE rows == {i \in PassesOf(rule) : i <= seen}
             days == {passes[i].day : i \in rows}
             last == {d \in days : Cardinality({f \in days : f > d}) < Threshold}
             rows1 == {i \in PassesOf(rule)' : i <= seen}
             days1 == {passes'[i].day : i \in rows1}
             last1 == {d \in days1 : Cardinality({f \in days1 : f > d}) < Threshold}
  <2>1. /\ Cardinality(last) = Threshold
        /\ \A i \in rows : passes[i].day \in last => passes[i].passed
    BY <1>4 DEF Earned
  <2>2. rows1 = rows
    BY <1>1 DEF PassesOf
  <2>3. \A i \in rows : passes'[i] = passes[i]
    BY <1>1 DEF PassesOf
  <2>4. days1 = days
    BY <2>2, <2>3
  <2>5. last1 = last
    BY <2>4
  <2> HIDE DEF rows, days, last
  <2>6. /\ Cardinality(last1) = Threshold
        /\ \A i \in rows1 : passes'[i].day \in last1 => passes'[i].passed
    BY <2>1, <2>2, <2>3, <2>5
  <2> QED  BY <2>6 DEF Earned
<1> QED  BY <1>3, <1>4

-----------------------------------------------------------------------------
(* The refinery: what its files hold, and what a process that is about to  *)
(* append to them holds.                                                   *)

Proposal == [rule : Causes, examples : SUBSET Nat]

FilesOK ==
  /\ now \in Nat /\ archived \in Nat
  /\ log \in Seq([cause : Causes, at : Nat])
  /\ proposals \in Seq(Proposal)
  /\ passes \in Seq(Pass)

IsProcess(r) ==
  r = [job |-> r.job, pc |-> r.pc, rule |-> r.rule, since |-> r.since,
       signals |-> r.signals, result |-> r.result, todo |-> r.todo, seen |-> r.seen,
       sending |-> r.sending, posted |-> r.posted]

Promoting == {"evaluate", "read", "record", "load", "consider", "promote", "announce"}

(* Which jobs come to which step.                                          *)
Where(r) ==
  /\ r.pc = "idle" => r = Idle
  /\ r.pc \in {"harvest", "append"} => r.job = "propose"
  /\ r.pc \in {"check", "write"} => r.job = "promote"
  /\ r.pc \in {"look", "bury"} => r.job = "revoke"
  /\ r.pc \in {"build", "post"} => r.job = "eval-export"
  /\ r.pc \in Promoting => r.job \in {"auto-promote", Review}
  /\ r.pc = "output" => r.job = Review
  /\ r.pc = "prior" => r.job = Portfolio
  /\ r.pc \in {"run", "alerts"} => r.job \in Watched

ProcOK(p) ==
  /\ IsProcess(proc[p]) /\ Where(proc[p])
  /\ proc[p].pc = "append" => proc[p].sending \in Seq(Proposal)
  /\ proc[p].pc = "read" => /\ IsFiniteSet(proc[p].result)
                            /\ \A r \in proc[p].result : r.rule \in Causes
  /\ proc[p].pc = "record" => proc[p].todo \in Seq(Pass)
  /\ proc[p].pc \in {"promote", "announce"} =>
       /\ proc[p].seen \in Nat /\ proc[p].seen <= Len(passes)
       /\ Earned(proc[p].rule, proc[p].seen)
  /\ proc[p].posted \subseteq dataset

PromotionsOK ==
  \A e \in promotions : e.seen \in Nat /\ e.seen <= Len(passes) /\ Earned(e.rule, e.seen)

RefineryInv ==
  /\ FilesOK
  /\ proc = [p \in Procs |-> proc[p]]
  /\ \A p \in Procs : ProcOK(p)
  /\ PromotionsOK
  /\ RecordedWasSent

LEMMA RefineryStarts ==
  ASSUME RefineryInit PROVE RefineryInv
<1> USE DEF RefineryInit
<1>1. FilesOK
  BY EmptySeq DEF FilesOK
<1>2. ASSUME NEW p \in Procs PROVE ProcOK(p)
  BY DEF ProcOK, IsProcess, Where, Idle, Promoting
<1> QED  BY <1>1, <1>2 DEF RefineryInv, PromotionsOK, RecordedWasSent

(* The files grow, and what the other processes hold stays as it was.      *)
Grown ==
  /\ FilesOK'
  /\ Len(passes) <= Len(passes')
  /\ \A i \in 1 .. Len(passes) : passes'[i] = passes[i]
  /\ dataset \subseteq dataset'

LEMMA Unmoved ==
  ASSUME RefineryInv, Grown, NEW p \in Procs, proc'[p] = proc[p]
  PROVE  ProcOK(p)'
<1>1. /\ passes \in Seq(Pass) /\ passes' \in Seq(Pass)
      /\ Len(passes) \in Nat /\ Len(passes') \in Nat
  BY DEF RefineryInv, FilesOK, Grown
<1>2. ProcOK(p)
  BY DEF RefineryInv
<1>3. ASSUME proc[p].pc \in {"promote", "announce"}
      PROVE  Earned(proc[p].rule, proc[p].seen)' /\ proc[p].seen <= Len(passes')
  <2>1. PICK rule, seen : rule = proc[p].rule /\ seen = proc[p].seen
    OBVIOUS
  <2>2. seen \in Nat /\ seen <= Len(passes) /\ Earned(rule, seen)
    BY <1>2, <1>3, <2>1 DEF ProcOK
  <2>3. Earned(rule, seen)'
    BY <1>1, <2>2, EarnedStays DEF Grown
  <2>4. proc'[p].rule = rule /\ proc'[p].seen = seen
    BY <2>1
  <2>5. Earned(proc[p].rule, proc[p].seen)'
    BY <2>3, <2>4 DEF Earned, RecordedTwice, PassesOf
  <2> QED  BY <1>1, <2>1, <2>2, <2>5 DEF Grown
<1> QED  BY <1>2, <1>3 DEF ProcOK, Grown

LEMMA PromotionStays ==
  ASSUME RefineryInv, Grown, NEW e \in promotions
  PROVE  e.seen \in Nat /\ e.seen <= Len(passes') /\ Earned(e.rule, e.seen)'
<1>1. /\ passes \in Seq(Pass) /\ passes' \in Seq(Pass)
      /\ Len(passes) \in Nat /\ Len(passes') \in Nat
  BY DEF RefineryInv, FilesOK, Grown
<1>2. PICK rule, seen : rule = e.rule /\ seen = e.seen
  OBVIOUS
<1>3. seen \in Nat /\ seen <= Len(passes) /\ Earned(rule, seen)
  BY <1>2 DEF RefineryInv, PromotionsOK
<1>4. Earned(rule, seen)'
  BY <1>1, <1>3, EarnedStays DEF Grown
<1> QED  BY <1>1, <1>2, <1>3, <1>4 DEF Grown

(* A step that appends to the files, or leaves them alone.                 *)
LEMMA GrowthKeeps ==
  ASSUME RefineryInv, Grown, proc' = [p \in Procs |-> proc'[p]],
         \A p \in Procs : proc'[p] = proc[p] \/ ProcOK(p)', exported' \subseteq dataset',
         \A e \in promotions' \ promotions :
           e.seen \in Nat /\ e.seen <= Len(passes') /\ Earned(e.rule, e.seen)'
  PROVE  RefineryInv'
<1>1. \A p \in Procs : ProcOK(p)'
  BY Unmoved
<1>2. PromotionsOK'
  BY PromotionStays DEF PromotionsOK
<1> QED  BY <1>1, <1>2 DEF RefineryInv, RecordedWasSent, Grown

LEMMA StepOfOne ==
  ASSUME RefineryInv, Grown, NEW p \in Procs,
         \A q \in Procs \ {p} : proc'[q] = proc[q], proc' = [q \in Procs |-> proc'[q]],
         ProcOK(p)', exported' \subseteq dataset',
         \A e \in promotions' \ promotions :
           e.seen \in Nat /\ e.seen <= Len(passes') /\ Earned(e.rule, e.seen)'
  PROVE  RefineryInv'
BY GrowthKeeps

LEMMA FilesKept ==
  ASSUME RefineryInv,
         UNCHANGED <<log, archived, proposals, passes, dataset>>, now' \in Nat
  PROVE  Grown
<1>1. Len(passes) \in Nat
  BY DEF RefineryInv, FilesOK
<1> QED  BY <1>1 DEF RefineryInv, FilesOK, Grown

(* Where a step of the refinery may lead.                                  *)
Moves(p) ==
  /\ \A q \in Procs \ {p} : proc'[q] = proc[q]
  /\ proc' = [q \in Procs |-> proc'[q]]
  /\ proc[p].pc \notin {"idle", "run", "prior", "alerts", "output"}
  /\ \/ proc'[p] = Idle /\ proc[p].job \notin Watched
     \/ /\ proc'[p].job = proc[p].job
        /\ proc'[p].pc \notin {"idle", "run", "prior", "alerts"}

LEMMA HarvestMoves ==
  ASSUME RefineryInv, NEW p \in Procs, Harvest(p) PROVE RefineryInv' /\ Moves(p)
<1> DEFINE rows == {[rule |-> c, examples |-> Examples(c, 0)] : c \in Signals(0)}
<1>1. proc' = [proc EXCEPT ![p].sending = SetToSeq(rows), ![p].pc = "append"]
  BY DEF Harvest
<1>2. ProcOK(p) /\ proc = [q \in Procs |-> proc[q]] /\ proc[p].pc = "harvest"
  BY DEF RefineryInv, Harvest
<1>3. Grown
  BY FilesKept DEF Harvest, RefineryInv, FilesOK
<1>4. SetToSeq(rows) \in Seq(Proposal)
  <2>1. \A c \in Signals(0) : c \in Causes /\ Examples(c, 0) \subseteq Nat
    <3>1. Len(log) \in Nat /\ archived \in Nat
      BY DEF RefineryInv, FilesOK
    <3> QED  BY <3>1 DEF Signals, Examples, Oldest, EventsOf, Harvested
  <2>2. rows \subseteq Proposal
    BY <2>1 DEF Proposal
  <2>3. IsFiniteSet(Signals(0))
    BY <2>1, RefineryAssumption, FS_Subset
  <2>4. [c \in Signals(0) |-> [rule |-> c, examples |-> Examples(c, 0)]]
           \in Surjection(Signals(0), rows)
    BY DEF Surjection
  <2>5. IsFiniteSet(rows)
    BY <2>3, <2>4, FS_Surjection
  <2> HIDE DEF rows
  <2> QED  BY <2>2, <2>5, ListOfSet, SeqMonotonic
<1> HIDE DEF rows
<1>5. ProcOK(p)'
  BY <1>1, <1>2, <1>3, <1>4 DEF ProcOK, IsProcess, Where, Promoting, Grown
<1>6. Moves(p)
  BY <1>1, <1>2 DEF Moves, ProcOK, IsProcess
<1> QED  BY <1>1, <1>3, <1>5, <1>6, StepOfOne DEF Harvest, Moves, RefineryInv, RecordedWasSent

LEMMA AppendMoves ==
  ASSUME RefineryInv, NEW p \in Procs, AppendProposal(p) PROVE RefineryInv' /\ Moves(p)
<1>2. /\ ProcOK(p) /\ proc = [q \in Procs |-> proc[q]] /\ proc[p].pc = "append"
      /\ proc[p].sending \in Seq(Proposal) /\ proc[p].job = "propose"
  BY DEF RefineryInv, AppendProposal, ProcOK, Where
<1>3. CASE proc[p].sending = <<>>
  <2>1. Grown /\ proc' = [proc EXCEPT ![p] = Idle]
    BY <1>3, FilesKept DEF AppendProposal, RefineryInv, FilesOK, Done
  <2>2. ProcOK(p)' /\ Moves(p)
    BY <1>2, <2>1 DEF ProcOK, IsProcess, Where, Promoting, Moves, Idle, Watched, Review, Portfolio,
                      Radar, IdleKiller
  <2> QED  BY <2>1, <2>2, StepOfOne DEF AppendProposal, Moves, RefineryInv, RecordedWasSent
<1>4. CASE proc[p].sending # <<>>
  <2>1. /\ proposals' = WithProposal(Head(proc[p].sending))
        /\ proc' = [proc EXCEPT ![p].sending = Tail(@)]
    BY <1>4 DEF AppendProposal
  <2>2. Head(proc[p].sending) \in Proposal /\ Tail(proc[p].sending) \in Seq(Proposal)
    BY <1>2, <1>4, HeadTailProperties
  <2>3. proposals' \in Seq(Proposal)
    <3>1. proposals \in Seq(Proposal) /\ Len(proposals) \in Nat
      BY DEF RefineryInv, FilesOK
    <3> DEFINE row == Head(proc[p].sending)
               changed1 == [k \in 1 .. Len(proposals) |->
                              IF proposals[k].rule = row.rule THEN row ELSE proposals[k]]
    <3>2. \A k \in 1 .. Len(proposals) : proposals[k] \in Proposal
      BY <3>1, ElementOfSeq
    <3>3. changed1 \in [1 .. Len(proposals) -> Proposal]
      BY <2>2, <3>2
    <3>4. changed1 \in Seq(Proposal)
      BY <3>1, <3>3, SeqDef
    <3>5. Append(proposals, row) \in Seq(Proposal)
      BY <2>2, <3>1, AppendProperties
    <3> QED  BY <2>1, <3>4, <3>5 DEF WithProposal
  <2>4. Grown
    BY <2>3 DEF AppendProposal, Grown, RefineryInv, FilesOK
  <2>5. ProcOK(p)' /\ Moves(p)
    BY <1>2, <2>1, <2>2, <2>4 DEF ProcOK, IsProcess, Where, Promoting, Moves, Grown
  <2> QED  BY <2>4, <2>5, StepOfOne DEF AppendProposal, Moves, RefineryInv, RecordedWasSent
<1> QED  BY <1>3, <1>4

(* Steps that read the files, and steps that append to one of the others.  *)
LEMMA LookMoves ==
  ASSUME RefineryInv, NEW p \in Procs,
         CheckPromotion(p) \/ WriteRule(p) \/ CheckRevocation(p) \/ WriteTombstone(p)
  PROVE  RefineryInv' /\ Moves(p)
<1>1. /\ ProcOK(p) /\ proc = [q \in Procs |-> proc[q]]
      /\ proc[p].pc \in {"check", "write", "look", "bury"}
      /\ proc[p].job \in {"promote", "revoke"}
  BY DEF RefineryInv, CheckPromotion, WriteRule, CheckRevocation, WriteTombstone, ProcOK, Where
<1>2. Grown /\ promotions' = promotions /\ exported' = exported
  BY FilesKept DEF CheckPromotion, WriteRule, CheckRevocation, WriteTombstone, RefineryInv, FilesOK
<1>3. \/ proc' = [proc EXCEPT ![p] = Idle]
      \/ proc[p].pc = "check" /\ proc' = [proc EXCEPT ![p].pc = "write"]
      \/ proc[p].pc = "look" /\ proc' = [proc EXCEPT ![p].pc = "bury"]
  BY DEF CheckPromotion, WriteRule, CheckRevocation, WriteTombstone, Goto, Done
<1>4. ProcOK(p)' /\ Moves(p)
  <2>1. CASE proc' = [proc EXCEPT ![p] = Idle]
    BY <1>1, <2>1 DEF ProcOK, IsProcess, Where, Promoting, Moves, Idle, Watched, Review, Portfolio,
                      Radar, IdleKiller
  <2>2. CASE proc[p].pc = "check" /\ proc' = [proc EXCEPT ![p].pc = "write"]
    BY <1>1, <1>2, <2>2 DEF ProcOK, IsProcess, Where, Promoting, Moves, Grown
  <2>3. CASE proc[p].pc = "look" /\ proc' = [proc EXCEPT ![p].pc = "bury"]
    BY <1>1, <1>2, <2>3 DEF ProcOK, IsProcess, Where, Promoting, Moves, Grown
  <2> QED  BY <1>3, <2>1, <2>2, <2>3
<1> QED  BY <1>2, <1>4, StepOfOne DEF Moves, RefineryInv, RecordedWasSent, Grown

(* An evaluation is a finite set of results, each of a proposed rule.      *)
LEMMA EvaluationIsFinite ==
  ASSUME RefineryInv
  PROVE  IsFiniteSet(EvalDataset) /\ \A r \in EvalDataset : r.rule \in Causes
<1>1. proposals \in Seq(Proposal) /\ Len(proposals) \in Nat
  BY DEF RefineryInv, FilesOK
<1> DEFINE reached == {k \in 1 .. Len(proposals) : ItemsBefore(k) <= MaxItems}
           items(k) == Oldest(MaxItems - ItemsBefore(k), proposals[k].examples)
           regressed(k) == {i \in items(k) : i > archived /\ ~Matches(proposals[k].rule)}
           row(k) == [rule |-> proposals[k].rule, total |-> Cardinality(items(k)),
                      regressed |-> Cardinality(regressed(k))]
<1>2. EvalDataset = {row(k) : k \in reached}
  BY DEF EvalDataset
<1>3. IsFiniteSet(reached) /\ \A k \in reached : row(k).rule = proposals[k].rule
  <2>1. IsFiniteSet(1 .. Len(proposals)) /\ reached \in SUBSET (1 .. Len(proposals))
    BY <1>1, FS_Interval
  <2>2. \A k \in reached : row(k).rule = proposals[k].rule
    OBVIOUS
  <2> QED  BY <2>1, <2>2, FS_Subset
<1>4. \A k \in reached : proposals[k] \in Proposal
  BY <1>1, ElementOfSeq
<1> HIDE DEF row, reached
<1>5. [k \in reached |-> row(k)] \in Surjection(reached, {row(k) : k \in reached})
  BY DEF Surjection
<1>6. IsFiniteSet({row(k) : k \in reached})
  BY <1>3, <1>5, FS_Surjection
<1> QED  BY <1>2, <1>3, <1>4, <1>6 DEF Proposal

LEMMA EvaluateMoves ==
  ASSUME RefineryInv, NEW p \in Procs, Evaluate(p) PROVE RefineryInv' /\ Moves(p)
<1>1. /\ ProcOK(p) /\ proc = [q \in Procs |-> proc[q]] /\ proc[p].pc = "evaluate"
      /\ proc[p].job \in {"auto-promote", Review}
  BY DEF RefineryInv, Evaluate, ProcOK, Where, Promoting
<1>2. Grown /\ promotions' = promotions /\ exported' = exported
  BY FilesKept DEF Evaluate, RefineryInv, FilesOK
<1>3. proc' = [proc EXCEPT ![p].result = EvalDataset, ![p].signals = Signals(proc[p].since),
                           ![p].pc = "read"]
  BY DEF Evaluate
<1>4. IsFiniteSet(EvalDataset) /\ \A r \in EvalDataset : r.rule \in Causes
  BY EvaluationIsFinite
<1>5. ProcOK(p)' /\ Moves(p)
  BY <1>1, <1>2, <1>3, <1>4 DEF ProcOK, IsProcess, Where, Promoting, Moves, Grown
<1> QED  BY <1>2, <1>5, StepOfOne DEF Moves, RefineryInv, RecordedWasSent, Grown

LEMMA TodayIsADay == ASSUME now \in Nat PROVE Today \in Nat
BY RefineryAssumption DEF Today, Day

LEMMA ReadMoves ==
  ASSUME RefineryInv, NEW p \in Procs, ReadPasses(p) PROVE RefineryInv' /\ Moves(p)
<1>1. /\ ProcOK(p) /\ proc = [q \in Procs |-> proc[q]] /\ proc[p].pc = "read"
      /\ proc[p].job \in {"auto-promote", Review}
  BY DEF RefineryInv, ReadPasses, ProcOK, Where, Promoting
<1>2. Grown /\ promotions' = promotions /\ exported' = exported
  BY FilesKept DEF ReadPasses, RefineryInv, FilesOK
<1> DEFINE rows == PassRows(proc[p].result, Today, RecordedOn(Today))
<1>3. proc' = [proc EXCEPT ![p].todo = rows, ![p].pc = "record"]
  BY DEF ReadPasses
<1>4. rows \in Seq(Pass)
  <2> DEFINE fresh == {e \in proc[p].result : e.rule \notin RecordedOn(Today)}
             row(r) == [day |-> Today, rule |-> r.rule,
                        passed |-> r.regressed = 0 /\ r.total > 0]
  <2>1. IsFiniteSet(fresh) /\ \A r \in fresh : r.rule \in Causes
    BY <1>1, FS_Subset DEF ProcOK
  <2>2. \A r \in fresh : row(r) \in Pass
    BY <2>1, TodayIsADay DEF Pass, RefineryInv, FilesOK
  <2>3. rows = SetToSeq({row(r) : r \in fresh})
    BY DEF PassRows
  <2> HIDE DEF fresh, row, rows
  <2>4. [r \in fresh |-> row(r)] \in Surjection(fresh, {row(r) : r \in fresh})
    BY DEF Surjection
  <2>5. IsFiniteSet({row(r) : r \in fresh}) /\ {row(r) : r \in fresh} \subseteq Pass
    BY <2>1, <2>2, <2>4, FS_Surjection
  <2> QED  BY <2>3, <2>5, ListOfSet, SeqMonotonic
<1> HIDE DEF rows
<1>5. ProcOK(p)' /\ Moves(p)
  BY <1>1, <1>2, <1>3, <1>4 DEF ProcOK, IsProcess, Where, Promoting, Moves, Grown
<1> QED  BY <1>2, <1>5, StepOfOne DEF Moves, RefineryInv, RecordedWasSent, Grown

LEMMA RecordMoves ==
  ASSUME RefineryInv, NEW p \in Procs, RecordPasses(p) PROVE RefineryInv' /\ Moves(p)
<1>1. /\ ProcOK(p) /\ proc = [q \in Procs |-> proc[q]] /\ proc[p].pc = "record"
      /\ proc[p].job \in {"auto-promote", Review}
      /\ passes \in Seq(Pass) /\ proc[p].todo \in Seq(Pass)
  BY DEF RefineryInv, FilesOK, RecordPasses, ProcOK, Where, Promoting
<1>2. proc' = [proc EXCEPT ![p].pc = "load"]
  BY DEF RecordPasses, Goto
<1>3. Grown
  <2>1. passes' = passes \o proc[p].todo
    BY DEF RecordPasses
  <2>2. /\ passes' \in Seq(Pass) /\ Len(passes) <= Len(passes')
        /\ \A i \in 1 .. Len(passes) : passes'[i] = passes[i]
    BY <1>1, <2>1, ConcatProperties
  <2> QED  BY <2>2 DEF RecordPasses, Grown, RefineryInv, FilesOK
<1>4. ProcOK(p)' /\ Moves(p)
  BY <1>1, <1>2, <1>3 DEF ProcOK, IsProcess, Where, Promoting, Moves, Grown
<1> QED  BY <1>3, <1>4, StepOfOne DEF RecordPasses, Moves, RefineryInv, RecordedWasSent, Grown

LEMMA ConsiderMoves ==
  ASSUME RefineryInv, NEW p \in Procs, Consider(p) PROVE RefineryInv' /\ Moves(p)
<1>1. /\ ProcOK(p) /\ proc = [q \in Procs |-> proc[q]] /\ proc[p].pc = "consider"
      /\ proc[p].job \in {"auto-promote", Review}
      /\ passes \in Seq(Pass) /\ Len(passes) \in Nat
  BY DEF RefineryInv, FilesOK, Consider, ProcOK, Where, Promoting
<1>2. Grown /\ promotions' = promotions /\ exported' = exported /\ passes' = passes
  BY FilesKept DEF Consider, RefineryInv, FilesOK
<1>3. PICK rule, promote, seen :
        /\ promote = (ConsecutivePasses(rule) >= Threshold /\ rule \notin ActiveRules)
        /\ promote \in BOOLEAN /\ seen = Len(passes)
        /\ proc' = [proc EXCEPT ![p].todo = Tail(@), ![p].rule = IF promote THEN rule ELSE NoCause,
                                ![p].seen = seen,
                                ![p].pc = IF promote THEN "promote" ELSE "consider"]
  BY DEF Consider
<1>4. promote => Earned(rule, seen)'
  <2>1. promote => Earned(rule, seen)
    BY <1>1, <1>3, ConsecutiveIsEarned
  <2> QED  BY <1>1, <1>2, <1>3, <2>1, EarnedStays DEF Grown
<1>5. Moves(p)
  BY <1>1, <1>3 DEF Moves, ProcOK, IsProcess
<1>6. ProcOK(p)'
  <2>1. /\ proc'[p].pc \in {"promote", "consider"} /\ proc'[p].job = proc[p].job
        /\ proc'[p].posted = proc[p].posted /\ IsProcess(proc[p])'
    BY <1>1, <1>3 DEF ProcOK, IsProcess
  <2>2. proc'[p].pc \in {"promote", "announce"} =>
          /\ proc'[p].seen = seen /\ proc'[p].rule = rule /\ Earned(rule, seen)'
    BY <1>1, <1>3, <1>4 DEF ProcOK, IsProcess
  <2>3. proc'[p].pc \in {"promote", "announce"} => Earned(proc[p].rule, proc[p].seen)'
    BY <2>2 DEF Earned, RecordedTwice, PassesOf
  <2>4. Where(proc[p])'
    BY <1>1, <2>1 DEF Where, Promoting
  <2>5. seen \in Nat /\ seen = Len(passes')
    BY <1>1, <1>2, <1>3
  <2> QED  BY <1>1, <1>2, <2>1, <2>2, <2>3, <2>4, <2>5 DEF ProcOK, Grown
<1> QED  BY <1>2, <1>5, <1>6, StepOfOne DEF Moves, RefineryInv, RecordedWasSent, Grown

(* The rest of a promotion pass.                                           *)
LEMMA PromoteMoves ==
  ASSUME RefineryInv, NEW p \in Procs, LoadCandidates(p) \/ Promote(p) \/ Returned(p)
  PROVE  RefineryInv' /\ Moves(p)
<1>1. /\ ProcOK(p) /\ proc = [q \in Procs |-> proc[q]]
      /\ proc[p].pc \in {"load", "promote", "consider"}
      /\ proc[p].job \in {"auto-promote", Review}
  BY DEF RefineryInv, LoadCandidates, Promote, Returned, ProcOK, Where, Promoting
<1>2. /\ Grown /\ promotions' = promotions /\ exported' = exported /\ passes' = passes
      /\ \A seen \in Nat : seen <= Len(passes) =>
           \A rule : Earned(rule, seen) => Earned(rule, seen)'
  <2>1. Grown /\ promotions' = promotions /\ exported' = exported /\ passes' = passes
    BY FilesKept DEF LoadCandidates, Promote, Returned, RefineryInv, FilesOK
  <2>2. passes \in Seq(Pass) /\ passes' \in Seq(Pass)
    BY <2>1 DEF RefineryInv, FilesOK, Grown
  <2> QED  BY <2>1, <2>2, EarnedStays DEF Grown
<1>3. \/ proc' = [proc EXCEPT ![p].todo = Candidates, ![p].pc = "consider"]
      \/ proc[p].pc = "promote" /\ proc' = [proc EXCEPT ![p].pc = "announce"]
      \/ proc[p].job = "auto-promote" /\ proc' = [proc EXCEPT ![p] = Idle]
      \/ proc[p].job = Review /\ proc' = [proc EXCEPT ![p].pc = "output"]
  BY <1>1 DEF LoadCandidates, Promote, Returned, Goto, Done
<1>4. ProcOK(p)' /\ Moves(p)
  <2>1. CASE proc' = [proc EXCEPT ![p].todo = Candidates, ![p].pc = "consider"]
    BY <1>1, <1>2, <2>1 DEF ProcOK, IsProcess, Where, Promoting, Moves, Grown
  <2>2. CASE proc[p].pc = "promote" /\ proc' = [proc EXCEPT ![p].pc = "announce"]
    <3>1. PICK rule, seen : rule = proc[p].rule /\ seen = proc[p].seen
      OBVIOUS
    <3>2. seen \in Nat /\ seen <= Len(passes') /\ Earned(rule, seen)'
      BY <1>1, <1>2, <2>2, <3>1 DEF ProcOK
    <3>3. proc'[p].rule = rule /\ proc'[p].seen = seen
      BY <1>1, <2>2, <3>1 DEF ProcOK, IsProcess
    <3>4. Earned(proc[p].rule, proc[p].seen)'
      BY <3>2, <3>3 DEF Earned, RecordedTwice, PassesOf
    <3> QED  BY <1>1, <1>2, <2>2, <3>2, <3>3, <3>4
             DEF ProcOK, IsProcess, Where, Promoting, Moves, Grown
  <2>3. CASE proc[p].job = "auto-promote" /\ proc' = [proc EXCEPT ![p] = Idle]
    BY <1>1, <2>3 DEF ProcOK, IsProcess, Where, Promoting, Moves, Idle, Watched, Review, Portfolio,
                      Radar, IdleKiller
  <2>4. CASE proc[p].job = Review /\ proc' = [proc EXCEPT ![p].pc = "output"]
    BY <1>1, <1>2, <2>4 DEF ProcOK, IsProcess, Where, Promoting, Moves, Grown
  <2> QED  BY <1>3, <2>1, <2>2, <2>3, <2>4
<1> QED  BY <1>2, <1>4, StepOfOne DEF Moves, RefineryInv, RecordedWasSent, Grown

LEMMA AnnounceMoves ==
  ASSUME RefineryInv, NEW p \in Procs, Announce(p) PROVE RefineryInv' /\ Moves(p)
<1>1. /\ ProcOK(p) /\ proc = [q \in Procs |-> proc[q]] /\ proc[p].pc = "announce"
      /\ proc[p].job \in {"auto-promote", Review}
  BY DEF RefineryInv, Announce, ProcOK, Where, Promoting
<1>2. Grown /\ exported' = exported /\ passes' = passes
  BY FilesKept DEF Announce, RefineryInv, FilesOK
<1>3. proc' = [proc EXCEPT ![p].pc = "consider"]
  BY DEF Announce, Goto
<1>4. ProcOK(p)' /\ Moves(p)
  BY <1>1, <1>2, <1>3 DEF ProcOK, IsProcess, Where, Promoting, Moves, Grown
<1>5. ASSUME NEW e \in promotions' \ promotions
      PROVE  e.seen \in Nat /\ e.seen <= Len(passes') /\ Earned(e.rule, e.seen)'
  <2>1. PICK rule, seen : rule = proc[p].rule /\ seen = proc[p].seen
    OBVIOUS
  <2>2. seen \in Nat /\ seen <= Len(passes) /\ Earned(rule, seen)
    BY <1>1, <2>1 DEF ProcOK
  <2>3. passes \in Seq(Pass) /\ passes' \in Seq(Pass)
    BY <1>2 DEF RefineryInv, FilesOK, Grown
  <2>4. Earned(rule, seen)'
    BY <1>2, <2>2, <2>3, EarnedStays DEF Grown
  <2>5. e = [rule |-> rule, seen |-> seen]
    BY <1>5, <2>1 DEF Announce
  <2>6. e.rule = rule /\ e.seen = seen
    BY <2>5
  <2> QED  BY <1>2, <2>2, <2>4, <2>6
<1> QED  BY <1>2, <1>4, <1>5, StepOfOne DEF Moves, RefineryInv, RecordedWasSent, Grown

(* An export: what it records is what it posted.                           *)
LEMMA ExportMoves ==
  ASSUME RefineryInv, NEW p \in Procs, BuildItems(p) \/ PostItem(p) \/ RecordExports(p)
  PROVE  RefineryInv' /\ Moves(p)
<1>1. /\ ProcOK(p) /\ proc = [q \in Procs |-> proc[q]] /\ proc[p].pc \in {"build", "post"}
      /\ proc[p].job = "eval-export" /\ proc[p].posted \subseteq dataset
      /\ exported \subseteq dataset
  BY DEF RefineryInv, BuildItems, PostItem, RecordExports, ProcOK, Where, RecordedWasSent
<1>2. /\ UNCHANGED <<now, log, archived, proposals, passes, promotions>>
      /\ dataset \subseteq dataset' /\ exported' \subseteq dataset'
  BY <1>1 DEF BuildItems, PostItem, RecordExports
<1>3. Grown
  BY <1>2, FilesKept DEF RefineryInv, FilesOK, Grown
<1>4. \/ \E items : proc' = [proc EXCEPT ![p].sending = items, ![p].pc = "post"]
      \/ proc[p].pc = "post" /\ \E items, posted :
           /\ proc' = [proc EXCEPT ![p].sending = items, ![p].posted = posted]
           /\ posted \subseteq dataset'
      \/ proc' = [proc EXCEPT ![p] = Idle]
  <2>1. CASE BuildItems(p)
    BY <2>1 DEF BuildItems
  <2>2. CASE PostItem(p)
    <3> DEFINE item == Head(proc[p].sending)
    <3>1. \/ /\ dataset' = dataset \cup {item}
             /\ proc' = [proc EXCEPT ![p].sending = Tail(@), ![p].posted = @ \cup {item}]
          \/ /\ UNCHANGED dataset
             /\ proc' = [proc EXCEPT ![p].sending = Tail(@)]
      BY <2>2 DEF PostItem
    <3>2. proc[p].pc = "post"
      BY <2>2 DEF PostItem
    <3>3. proc[p] = [proc[p] EXCEPT !.posted = proc[p].posted]
      BY <1>1 DEF ProcOK, IsProcess
    <3>4. CASE UNCHANGED dataset /\ proc' = [proc EXCEPT ![p].sending = Tail(@)]
      <4>1. proc' = [proc EXCEPT ![p].sending = Tail(proc[p].sending),
                                 ![p].posted = proc[p].posted]
        BY <1>1, <3>4 DEF ProcOK, IsProcess
      <4> QED  BY <1>1, <3>2, <3>4, <4>1
    <3>5. CASE /\ dataset' = dataset \cup {item}
               /\ proc' = [proc EXCEPT ![p].sending = Tail(@), ![p].posted = @ \cup {item}]
      <4>1. proc[p].posted \cup {item} \subseteq dataset'
        BY <1>1, <3>5
      <4>2. proc' = [proc EXCEPT ![p].sending = Tail(proc[p].sending),
                                 ![p].posted = proc[p].posted \cup {item}]
        BY <1>1, <3>5 DEF ProcOK, IsProcess
      <4> HIDE DEF item
      <4> QED  BY <3>2, <4>1, <4>2
    <3> QED  BY <3>1, <3>4, <3>5
  <2>3. CASE RecordExports(p)
    BY <2>3 DEF RecordExports, Done
  <2> QED  BY <2>1, <2>2, <2>3
<1>5. ProcOK(p)' /\ Moves(p)
  <2>1. CASE \E items : proc' = [proc EXCEPT ![p].sending = items, ![p].pc = "post"]
    BY <1>1, <1>2, <2>1 DEF ProcOK, IsProcess, Where, Promoting, Moves
  <2>2. CASE proc[p].pc = "post" /\ \E items, posted :
               /\ proc' = [proc EXCEPT ![p].sending = items, ![p].posted = posted]
               /\ posted \subseteq dataset'
    BY <1>1, <2>2 DEF ProcOK, IsProcess, Where, Promoting, Moves
  <2>3. CASE proc' = [proc EXCEPT ![p] = Idle]
    BY <1>1, <2>3 DEF ProcOK, IsProcess, Where, Promoting, Moves, Idle, Watched, Review, Portfolio,
                      Radar, IdleKiller
  <2> QED  BY <1>4, <2>1, <2>2, <2>3
<1> QED  BY <1>2, <1>3, <1>5, StepOfOne DEF Moves

LEMMA RefineryStepMoves ==
  ASSUME RefineryInv, NEW p \in Procs, RefineryStep(p) PROVE RefineryInv' /\ Moves(p)
BY HarvestMoves, AppendMoves, LookMoves, EvaluateMoves, ReadMoves, RecordMoves, ConsiderMoves,
   PromoteMoves, AnnounceMoves, ExportMoves DEF RefineryStep

(* The files are touched by nothing but the refinery and its world.        *)
FilesUnchanged ==
  UNCHANGED <<log, archived, proposals, passes, exported, dataset, promotions>>

LEMMA OutsideKeeps ==
  ASSUME RefineryInv, FilesUnchanged, now' \in Nat, proc' = [p \in Procs |-> proc'[p]],
         \A p \in Procs : proc'[p] = proc[p] \/ ProcOK(p)'
  PROVE  RefineryInv'
<1>1. Grown
  BY FilesKept DEF FilesUnchanged
<1> QED  BY <1>1, GrowthKeeps DEF RefineryInv, RecordedWasSent, FilesUnchanged

LEMMA WorldKeeps ==
  ASSUME RefineryInv,
         \/ \E c \in Causes : Fail(c)
         \/ \E n \in 1 .. Len(log) : Archive(n)
         \/ Strike
  PROVE  RefineryInv'
<1>1. /\ log \in Seq([cause : Causes, at : Nat]) /\ now \in Nat /\ archived \in Nat
      /\ Len(passes) \in Nat
  BY DEF RefineryInv, FilesOK
<1>2. /\ UNCHANGED <<proposals, passes, exported, dataset, promotions, proc>>
      /\ log' \in Seq([cause : Causes, at : Nat]) /\ now' \in Nat /\ archived' \in Nat
  <2>1. ASSUME NEW c \in Causes, Fail(c)
        PROVE  log' \in Seq([cause : Causes, at : Nat])
    <3>1. [cause |-> c, at |-> now] \in [cause : Causes, at : Nat]
      BY <1>1
    <3> QED  BY <1>1, <2>1, <3>1, AppendProperties DEF Fail
  <2>2. ASSUME NEW n \in 1 .. Len(log), Archive(n)
        PROVE  archived' \in Nat
    BY <1>1, <2>2 DEF Archive
  <2>3. CASE \E c \in Causes : Fail(c)
    BY <1>1, <2>1, <2>3 DEF Fail
  <2>4. CASE \E n \in 1 .. Len(log) : Archive(n)
    BY <1>1, <2>2, <2>4 DEF Archive
  <2>5. CASE Strike
    BY <1>1, <2>5 DEF Strike
  <2> QED  BY <2>3, <2>4, <2>5
<1>3. Grown
  BY <1>1, <1>2 DEF RefineryInv, FilesOK, Grown
<1> QED  BY <1>2, <1>3, GrowthKeeps DEF RefineryInv, RecordedWasSent

LEMMA IdleIsOK ==
  ASSUME NEW p \in Procs, proc'[p] = Idle PROVE ProcOK(p)'
BY DEF ProcOK, IsProcess, Where, Idle, Promoting

LEMMA BeginKeeps ==
  ASSUME RefineryInv, NEW p \in Procs, NEW job, NEW pc, NEW rule, Begin(p, job, pc, rule),
         FilesUnchanged, now' = now,
         \/ pc = "run" /\ job \in Watched
         \/ <<job, pc>> \in {<<"propose", "harvest">>, <<"promote", "check">>, <<"revoke", "look">>,
                             <<"auto-promote", "evaluate">>, <<"eval-export", "build">>}
  PROVE  /\ RefineryInv' /\ proc[p].pc = "idle"
         /\ proc'[p].job = job /\ proc'[p].pc = pc
         /\ \A q \in Procs \ {p} : proc'[q] = proc[q]
<1>1. proc = [q \in Procs |-> proc[q]] /\ now \in Nat
  BY DEF RefineryInv, FilesOK
<1>2. /\ proc' = [proc EXCEPT ![p] = [Idle EXCEPT !.job = job, !.pc = pc, !.rule = rule]]
      /\ proc[p].pc = "idle"
  BY DEF Begin
<1>3. ProcOK(p)' /\ proc'[p].job = job /\ proc'[p].pc = pc
  BY <1>1, <1>2 DEF ProcOK, IsProcess, Where, Idle, Promoting
<1> QED  BY <1>1, <1>2, <1>3, OutsideKeeps

(* Where a step of a watcher may lead.                                     *)
Ticks(p) ==
  /\ \A q \in Procs \ {p} : proc'[q] = proc[q]
  /\ proc' = [q \in Procs |-> proc'[q]]
  /\ proc[p].pc \in {"run", "prior", "output", "alerts"} /\ proc[p].job \in Watched
  /\ \/ proc'[p] = Idle
     \/ proc'[p].job = proc[p].job /\ proc'[p].pc # "idle"

LEMMA WatcherStepKeeps ==
  ASSUME RefineryInv, NEW p \in Procs, WatcherStep(p)
  PROVE  RefineryInv' /\ Ticks(p) /\ FilesUnchanged /\ now' = now
<1>1. /\ proc = [q \in Procs |-> proc[q]] /\ now \in Nat
      /\ ProcOK(p)
  BY DEF RefineryInv, FilesOK
<1>2. FilesUnchanged /\ now' = now
  BY DEF WatcherStep, WatcherThrows, ReviewActivity, ReviewOutput, Inventory, DiffWithPrior, RadarTick,
         IdleKillerTick, AppendAlert, AppendResult, WorldUnchanged, FilesUnchanged, refineryVars
<1>3. /\ proc[p].pc \in {"run", "prior", "output", "alerts"} /\ proc[p].job \in Watched
      /\ \/ proc' = [proc EXCEPT ![p] = Idle]
         \/ proc' = [proc EXCEPT ![p].pc = "alerts"]
         \/ proc[p].job = Portfolio /\ proc' = [proc EXCEPT ![p].pc = "prior"]
         \/ /\ proc[p].job = Review
            /\ \E since : proc' = [proc EXCEPT ![p].since = since, ![p].pc = "evaluate"]
         \/ proc' = proc
  <2>1. CASE WatcherThrows(p) \/ AppendResult(p)
    BY <1>1, <2>1 DEF WatcherThrows, AppendResult, Done, ProcOK, Where, Watched
  <2>2. CASE ReviewActivity(p)
    BY <1>1, <2>2 DEF ReviewActivity, Watched
  <2>3. CASE ReviewOutput(p) \/ DiffWithPrior(p)
    BY <1>1, <2>3 DEF ReviewOutput, DiffWithPrior, Decide, Goto, ProcOK, Where, Watched
  <2>4. CASE Inventory(p) \/ RadarTick(p) \/ IdleKillerTick(p)
    BY <1>1, <2>4 DEF Inventory, RadarTick, IdleKillerTick, Decide, Goto, ProcOK, Where, Watched
  <2>5. CASE AppendAlert(p)
    BY <1>1, <2>5 DEF AppendAlert, refineryVars, ProcOK, Where
  <2> QED  BY <2>1, <2>2, <2>3, <2>4, <2>5 DEF WatcherStep
<1>4. (ProcOK(p)' /\ Ticks(p)) \/ proc' = proc
  <2>1. CASE proc' = [proc EXCEPT ![p] = Idle]
    BY <1>1, <1>3, <2>1, IdleIsOK DEF Ticks
  <2>2. CASE proc' = [proc EXCEPT ![p].pc = "alerts"]
    BY <1>1, <1>2, <1>3, <2>2 DEF Ticks, ProcOK, IsProcess, Where, Promoting, FilesUnchanged
  <2>3. CASE proc[p].job = Portfolio /\ proc' = [proc EXCEPT ![p].pc = "prior"]
    BY <1>1, <1>2, <1>3, <2>3 DEF Ticks, ProcOK, IsProcess, Where, Promoting, FilesUnchanged
  <2>4. CASE /\ proc[p].job = Review
             /\ \E since : proc' = [proc EXCEPT ![p].since = since, ![p].pc = "evaluate"]
    <3>1. PICK since : proc' = [proc EXCEPT ![p].since = since, ![p].pc = "evaluate"]
      BY <2>4
    <3>2. /\ proc'[p].pc = "evaluate" /\ proc'[p].job = Review
          /\ proc'[p].posted = proc[p].posted /\ IsProcess(proc[p])'
      BY <1>1, <2>4, <3>1 DEF ProcOK, IsProcess
    <3>3. ProcOK(p)'
      BY <1>1, <1>2, <3>2 DEF ProcOK, Where, Promoting, FilesUnchanged
    <3>4. Ticks(p)
      BY <1>1, <1>3, <2>4, <3>1, <3>2 DEF Ticks
    <3> QED  BY <3>3, <3>4
  <2> QED  BY <1>3, <2>1, <2>2, <2>3, <2>4
<1>5. Ticks(p)
  BY <1>1, <1>3, <1>4 DEF Ticks
<1> QED  BY <1>1, <1>2, <1>4, <1>5, OutsideKeeps DEF Ticks

LEMMA RunKeeps ==
  ASSUME RefineryInv, NEW p \in Procs, NEW watcher \in Watched, NEW owner, NEW dryRun,
         RunWatcher(p, watcher, owner, dryRun)
  PROVE  RefineryInv'
BY BeginKeeps DEF RunWatcher, FilesUnchanged

LEMMA StartKeeps ==
  ASSUME RefineryInv, NEW p \in Procs, Start(p) PROVE RefineryInv'
<1>1. ASSUME UNCHANGED nightVars PROVE RefineryInv'
  <2>1. /\ proc = [q \in Procs |-> proc[q]] /\ now \in Nat
    BY DEF RefineryInv, FilesOK
  <2> QED  BY <1>1, <2>1, OutsideKeeps DEF nightVars, refineryVars, FilesUnchanged
<1>2. CASE FireCron(p)
  BY <1>1, <1>2, RunKeeps DEF FireCron, Watched
<1>3. ASSUME NEW w \in DOMAIN Interval, FireInterval(p, w) PROVE RefineryInv'
  <2>1. w \in Watched
    BY SchedulerAssumption
  <2> QED  BY <1>1, <1>3, <2>1, RunKeeps DEF FireInterval
<1>4. CASE LaunchReview(p)
  BY <1>4, RunKeeps DEF LaunchReview, Watched
<1>5. ASSUME NEW w \in Watched, NEW dryRun \in BOOLEAN, ShellWatcher(p, w, dryRun) PROVE RefineryInv'
  BY <1>5, RunKeeps DEF ShellWatcher
<1>6. ASSUME NEW job, NEW pc, NEW rule, ShellRefinery(p, job, pc, rule),
             <<job, pc>> \in {<<"propose", "harvest">>, <<"promote", "check">>, <<"revoke", "look">>,
                             <<"auto-promote", "evaluate">>, <<"eval-export", "build">>}
      PROVE  RefineryInv'
  BY <1>6, BeginKeeps DEF ShellRefinery, FilesUnchanged
<1> QED  BY <1>2, <1>3, <1>4, <1>5, <1>6 DEF Start, RefineryPropose, RefineryPromote, RefineryRevoke,
            RefineryAutoPromote, RefineryEvalExport

LEMMA RefineryInvariant == Spec => []RefineryInv
<1>1. Init => RefineryInv
  BY RefineryStarts DEF Init, WatchersInit
<1>2. RefineryInv /\ [Next]_vars => RefineryInv'
  <2> SUFFICES ASSUME RefineryInv, [Next]_vars PROVE RefineryInv'
    OBVIOUS
  <2>1. proc = [q \in Procs |-> proc[q]] /\ now \in Nat
    BY DEF RefineryInv, FilesOK
  <2>2. ASSUME NEW p \in Procs, Step(p) PROVE RefineryInv'
    BY <2>2, RefineryStepMoves, WatcherStepKeeps DEF Step
  <2>3. ASSUME NEW p \in Procs, Start(p) PROVE RefineryInv'
    BY <2>3, StartKeeps
  <2>4. ASSUME NEW p \in Procs, Die(p) PROVE RefineryInv'
    BY <2>1, <2>4, IdleIsOK, OutsideKeeps DEF Die, Done, FilesUnchanged
  <2>5. CASE StartScheduler \/ UNCHANGED vars
    BY <2>1, <2>5, OutsideKeeps DEF StartScheduler, vars, nightVars, refineryVars, FilesUnchanged
  <2>6. CASE StopScheduler
    BY <2>1, <2>6, IdleIsOK, OutsideKeeps DEF StopScheduler, FilesUnchanged
  <2>7. CASE World
    <3>1. CASE \/ \E c \in Causes : Fail(c)
               \/ \E n \in 1 .. Len(log) : Archive(n)
               \/ Strike
      BY <3>1, WorldKeeps
    <3>2. CASE \/ \E cs \in SUBSET Causes : Release(cs)
               \/ \E w \in Watched : ToggleKillSwitch(w)
               \/ \E r \in Reports : ReportChanges(r)
      BY <2>1, <3>2, OutsideKeeps DEF Release, ToggleKillSwitch, ReportChanges, refineryVars,
                                      FilesUnchanged
    <3> QED  BY <2>7, <3>1, <3>2 DEF World
  <2> QED  BY <2>2, <2>3, <2>4, <2>5, <2>6, <2>7 DEF Next
<1> QED  BY <1>1, <1>2, PTL DEF Spec

(* What the refinery's files say happened did happen, whatever processes   *)
(* evaluate, promote, export and die at the same time.                     *)
THEOREM RecordsAlwaysTrue == Spec => []RefineryRecordsAreTrue
<1>1. RefineryInv => RefineryRecordsAreTrue
  BY DEF RefineryInv, RefineryRecordsAreTrue, PromotionsAreEarned, PromotionsOK, Earned
<1> QED  BY <1>1, RefineryInvariant, PTL

-----------------------------------------------------------------------------
(* The watchers: the tick of each process, and what the stored snapshots   *)
(* and new-stale alerts say of the ticks that stored them.                 *)

Row == [session : Nat, reports : SUBSET Reports, had : Nat]

TickFiles ==
  /\ begun \in Nat /\ stale \subseteq Reports
  /\ snapshots \in Seq(Row)
  /\ \A k \in 1 .. Len(snapshots) : snapshots[k].session \in 1 .. begun
  /\ told \subseteq [session : 1 .. begun, report : Reports]
  /\ ended \subseteq 1 .. begun

IsTick(t) ==
  t = [session |-> t.session, owner |-> t.owner, dryRun |-> t.dryRun, decision |-> t.decision,
       alerts |-> t.alerts, snapshot |-> t.snapshot, had |-> t.had]

OtherAlerts == Pods \cup {Review, Radar}

Reported(session) == {t.report : t \in {t \in told : t.session = session}}

Stored(session) == \E k \in 1 .. Len(snapshots) : snapshots[k].session = session

Difference(k) == snapshots[k].reports \ snapshots[k - 1].reports

(* The last snapshot is the one that the tick of p would follow.           *)
WouldFollow(p) ==
  LET n == Len(snapshots)
  IN  /\ n > 0 /\ tick[p].had = n
      /\ \A j \in 1 .. n - 1 : snapshots[j].session < snapshots[n].session
      /\ snapshots[n].session \in begun - SessionLimit + 1 .. tick[p].session - 1

(* A tick that has compared and has not stored its snapshot yet.           *)
Compared(p) ==
  /\ tick[p].alerts # <<>> /\ Head(tick[p].alerts) = "snapshot"
  /\ Tail(tick[p].alerts) \in Seq(Reports)
  /\ WouldFollow(p) =>
       ToSet(Tail(tick[p].alerts)) = tick[p].snapshot \ snapshots[Len(snapshots)].reports

PortfolioOK(p) ==
  /\ proc[p].pc \in {"run", "prior", "alerts"}
  /\ \/ proc[p].pc = "alerts" /\ tick[p].alerts \in Seq(Reports)
     \/ /\ ~Stored(tick[p].session) /\ Reported(tick[p].session) = {}
        /\ proc[p].pc = "alerts" => Compared(p)
        /\ proc[p].pc # "alerts" => tick[p].alerts = <<>>

Alone(p) ==
  \A q \in Procs \ {p} :
    proc[q].job \in Watched => tick[q].session # tick[p].session

TickOK(p) ==
  /\ IsTick(tick[p])
  /\ proc[p].job \notin Watched => tick[p] = NoTick
  /\ proc[p].job \in Watched =>
       /\ tick[p].session \in 1 .. begun /\ tick[p].session \notin ended
       /\ tick[p].had \in 0 .. Len(snapshots) /\ tick[p].snapshot \subseteq Reports
       /\ Alone(p)
  /\ proc[p].job \in Watched \ {Portfolio} =>
       tick[p].alerts \in Seq(OtherAlerts) /\ ~Stored(tick[p].session)
  /\ proc[p].job = Portfolio => PortfolioOK(p)

(* What a tick has told, and has yet to tell, is the difference.           *)
RowOK(k) ==
  FollowsPrevious(k) =>
    /\ snapshots[k].session \in ended => Reported(snapshots[k].session) = Difference(k)
    /\ \A p \in Procs :
         proc[p].job = Portfolio /\ tick[p].session = snapshots[k].session =>
           Reported(snapshots[k].session) \cup ToSet(tick[p].alerts) = Difference(k)

TickInv ==
  /\ TickFiles
  /\ tick = [p \in Procs |-> tick[p]]
  /\ \A p \in Procs : TickOK(p)
  /\ \A k \in 1 .. Len(snapshots) : RowOK(k)


LEMMA IdleTickIsOK ==
  ASSUME NEW p \in Procs, proc'[p] = Idle, tick'[p] = NoTick PROVE TickOK(p)'
BY DEF TickOK, IsTick, NoTick, Idle, Watched, Review, Portfolio, Radar, IdleKiller

LEMMA TicksStart ==
  ASSUME Init PROVE TickInv
<1> USE DEF Init, WatchersInit, RefineryInit
<1>1. TickFiles
  BY EmptySeq DEF TickFiles
<1>2. ASSUME NEW p \in Procs PROVE TickOK(p)
  BY DEF TickOK, IsTick, NoTick, Idle, Watched, Review, Portfolio, Radar, IdleKiller
<1> QED  BY <1>1, <1>2 DEF TickInv

(* A later session takes the previous snapshot out of reach, never into    *)
(* it.                                                                     *)
LEMMA FollowedBefore ==
  ASSUME TickFiles, snapshots' = snapshots, begun' \in Nat, begun <= begun',
         NEW k \in 1 .. Len(snapshots), FollowsPrevious(k)'
  PROVE  FollowsPrevious(k)
<1>1. Len(snapshots) \in Nat /\ \A j \in 1 .. Len(snapshots) : snapshots[j].session \in Nat
  <2>1. Len(snapshots) \in Nat /\ begun \in Nat
    BY DEF TickFiles
  <2> QED  BY <2>1 DEF TickFiles
<1>2. SessionLimit \in Nat /\ begun \in Nat
  BY WatcherAssumption DEF TickFiles
<1> QED  BY <1>1, <1>2 DEF FollowsPrevious

(* What a step that leaves the snapshots and the told alerts alone keeps   *)
(* of the processes it does not touch.                                     *)
LEMMA OthersStay ==
  ASSUME TickInv, UNCHANGED <<snapshots, told, ended>>, begun' \in Nat, begun <= begun',
         NEW p \in Procs, proc'[p] = proc[p], tick'[p] = tick[p],
         proc[p].job \in Watched => Alone(p)'
  PROVE  TickOK(p)'
<1>1. TickOK(p) /\ TickFiles /\ begun \in Nat /\ Len(snapshots) \in Nat
  BY DEF TickInv, TickFiles
<1>2. IsTick(tick[p])' /\ (proc'[p].job \notin Watched => tick'[p] = NoTick)
  BY <1>1 DEF TickOK, IsTick
<1>3. ASSUME proc[p].job \in Watched
      PROVE  /\ tick'[p].session \in 1 .. begun' /\ tick'[p].session \notin ended'
             /\ tick'[p].had \in 0 .. Len(snapshots') /\ tick'[p].snapshot \subseteq Reports
             /\ Alone(p)'
  BY <1>1, <1>3 DEF TickOK
<1>4. ASSUME proc[p].job \in Watched \ {Portfolio}
      PROVE  tick'[p].alerts \in Seq(OtherAlerts) /\ ~Stored(tick[p].session)'
  BY <1>1, <1>4 DEF TickOK, Stored
<1>5. ASSUME proc[p].job = Portfolio PROVE PortfolioOK(p)'
  <2>1. PortfolioOK(p)
    BY <1>1, <1>5 DEF TickOK
  <2>2. WouldFollow(p)' => WouldFollow(p)
    <3>1. /\ SessionLimit \in Nat /\ tick[p].session \in Nat
          /\ \A j \in 1 .. Len(snapshots) : snapshots[j].session \in Nat
      BY <1>1, <1>3, <1>5, WatcherAssumption DEF TickFiles, Watched
    <3> QED  BY <1>1, <3>1 DEF WouldFollow
  <2>3. Compared(p) => Compared(p)'
    BY <2>2 DEF Compared
  <2>4. /\ ~Stored(tick[p].session) => ~Stored(tick[p].session)'
        /\ Reported(tick[p].session)' = Reported(tick[p].session)
    BY DEF Stored, Reported
  <2> QED  BY <2>1, <2>3, <2>4 DEF PortfolioOK
<1> QED  BY <1>2, <1>3, <1>4, <1>5 DEF TickOK

(* A step after which each process is where it was, or idle, or in a tick  *)
(* that has not stored anything.                                           *)
LEMMA TicksKept ==
  ASSUME TickInv, UNCHANGED <<snapshots, told, ended>>, begun' \in Nat, begun <= begun',
         stale' \subseteq Reports, tick' = [p \in Procs |-> tick'[p]],
         \A p \in Procs : \/ proc'[p] = proc[p] /\ tick'[p] = tick[p]
                          \/ proc'[p] = Idle /\ tick'[p] = NoTick
                          \/ TickOK(p)' /\ ~Stored(tick'[p].session)
  PROVE  TickInv'
<1>1. TickFiles'
  <2>1. begun \in Nat
    BY DEF TickInv, TickFiles
  <2>2. 1 .. begun \subseteq 1 .. begun'
    BY <2>1
  <2>3. told' \subseteq [session : 1 .. begun', report : Reports] /\ ended' \subseteq 1 .. begun'
    BY <2>2 DEF TickInv, TickFiles
  <2> QED  BY <2>2, <2>3 DEF TickInv, TickFiles
<1>2. \A p \in Procs : TickOK(p)'
  <2> SUFFICES ASSUME NEW p \in Procs, proc'[p] = proc[p], tick'[p] = tick[p] PROVE TickOK(p)'
    BY IdleTickIsOK
  <2>1. ASSUME proc[p].job \in Watched, NEW q \in Procs \ {p}, proc'[q].job \in Watched
        PROVE  tick'[q].session # tick'[p].session
    <3>1. CASE proc'[q] = proc[q] /\ tick'[q] = tick[q]
      BY <2>1, <3>1 DEF TickInv, TickOK, Alone
    <3>2. CASE proc'[q] = Idle
      BY <2>1, <3>2 DEF Idle, Watched, Review, Portfolio, Radar, IdleKiller
    <3>3. CASE TickOK(q)'
      BY <2>1, <3>3 DEF TickOK, Alone
    <3> QED  BY <3>1, <3>2, <3>3
  <2>2. proc[p].job \in Watched => Alone(p)'
    BY <2>1 DEF Alone
  <2> QED  BY <2>2, OthersStay
<1>3. \A k \in 1 .. Len(snapshots') : RowOK(k)'
  <2> SUFFICES ASSUME NEW k \in 1 .. Len(snapshots), FollowsPrevious(k)'
               PROVE  RowOK(k)'
    BY DEF RowOK
  <2>1. FollowsPrevious(k) /\ RowOK(k)
    BY FollowedBefore DEF TickInv
  <2> DEFINE s == snapshots[k].session
  <2>2. s' = s /\ Reported(s)' = Reported(s) /\ Difference(k)' = Difference(k)
    BY DEF Reported, Difference
  <2>3. s' \in ended' => Reported(s)' = Difference(k)'
    BY <2>1, <2>2 DEF RowOK
  <2>4. ASSUME NEW p \in Procs, proc'[p].job = Portfolio, tick'[p].session = s
        PROVE  Reported(s)' \cup ToSet(tick'[p].alerts) = Difference(k)'
    <3>1. proc'[p] # Idle
      BY <2>4 DEF Idle, Portfolio
    <3>2. Stored(s)
      BY DEF Stored
    <3>3. proc'[p] = proc[p] /\ tick'[p] = tick[p]
      BY <2>4, <3>1, <3>2
    <3> QED  BY <2>1, <2>2, <2>4, <3>3 DEF RowOK
  <2> QED  BY <2>2, <2>3, <2>4 DEF RowOK
<1> QED  BY <1>1, <1>2, <1>3 DEF TickInv


LEMMA NothingStoredYet ==
  ASSUME TickInv, NEW p \in Procs, proc[p].job # Portfolio PROVE ~Stored(tick[p].session)
<1>1. TickOK(p) /\ \A k \in 1 .. Len(snapshots) : snapshots[k].session \in 1 .. begun
  BY DEF TickInv, TickFiles
<1>2. CASE proc[p].job \in Watched
  BY <1>1, <1>2 DEF TickOK
<1>3. CASE proc[p].job \notin Watched
  <2>1. tick[p].session = 0
    BY <1>1, <1>3 DEF TickOK, NoTick
  <2>2. \A k \in 1 .. Len(snapshots) : snapshots[k].session # 0
    BY <1>1
  <2> QED  BY <2>1, <2>2 DEF Stored
<1> QED  BY <1>2, <1>3

LEMMA RefineryTicks ==
  ASSUME TickInv, NEW p \in Procs, Moves(p), UNCHANGED watcherVars PROVE TickInv'
<1>1. /\ UNCHANGED <<tick, begun, stale, snapshots, told, ended>> /\ begun \in Nat
      /\ TickOK(p) /\ tick = [q \in Procs |-> tick[q]]
  BY DEF watcherVars, TickInv, TickFiles
<1>2. CASE proc'[p] = Idle /\ proc[p].job \notin Watched
  <2>1. tick'[p] = NoTick
    BY <1>1, <1>2 DEF TickOK
  <2> QED  BY <1>1, <1>2, <2>1, TicksKept DEF Moves, TickInv, TickFiles
<1>3. CASE /\ proc'[p].job = proc[p].job
           /\ proc'[p].pc \notin {"idle", "run", "prior", "alerts"}
  <2>1. proc[p].job # Portfolio
    BY <1>1 DEF TickOK, PortfolioOK, Moves
  <2>2. ~Stored(tick[p].session) /\ ~Stored(tick[p].session)'
    BY <1>1, <2>1, NothingStoredYet DEF Stored
  <2>3. proc[p].job \in Watched => Alone(p)'
    BY <1>1, <1>3 DEF TickOK, Alone, Moves
  <2>4. TickOK(p)'
    BY <1>1, <1>3, <2>1, <2>2, <2>3 DEF TickOK, IsTick
  <2> QED  BY <1>1, <2>2, <2>4, TicksKept DEF Moves, TickInv, TickFiles
<1> QED  BY <1>2, <1>3 DEF Moves

LEMMA RunTicks ==
  ASSUME TickInv, RefineryInv, NEW p \in Procs, NEW watcher \in Watched, NEW owner, NEW dryRun,
         RunWatcher(p, watcher, owner, dryRun)
  PROVE  /\ TickInv' /\ proc[p].pc = "idle" /\ proc'[p].job = watcher /\ tick'[p].owner = owner
         /\ \A q \in Procs \ {p} : proc'[q] = proc[q] /\ tick'[q] = tick[q]
<1>1. /\ proc[p].pc = "idle" /\ proc'[p].job = watcher /\ proc'[p].pc = "run"
      /\ \A q \in Procs \ {p} : proc'[q] = proc[q]
  BY BeginKeeps DEF RunWatcher, FilesUnchanged
<1>2. /\ tick' = [tick EXCEPT ![p] = [NoTick EXCEPT !.session = begun + 1, !.owner = owner,
                                         !.dryRun = dryRun, !.had = Len(snapshots)]]
      /\ begun' = begun + 1 /\ UNCHANGED <<stale, snapshots, told, ended>>
  BY DEF RunWatcher
<1>3. /\ tick = [q \in Procs |-> tick[q]] /\ begun \in Nat /\ TickFiles
      /\ Len(snapshots) \in Nat
  BY DEF TickInv, TickFiles
<1>4. /\ IsTick(tick[p])' /\ tick'[p].session = begun + 1 /\ tick'[p].had = Len(snapshots)
      /\ tick'[p].alerts = <<>> /\ tick'[p].snapshot = {} /\ tick'[p].owner = owner
      /\ \A q \in Procs \ {p} : tick'[q] = tick[q]
      /\ tick' = [q \in Procs |-> tick'[q]]
  BY <1>2, <1>3 DEF NoTick, IsTick
<1>5. ~Stored(begun + 1) /\ Reported(begun + 1) = {} /\ begun + 1 \notin ended
  <2>1. begun + 1 \notin 1 .. begun
    BY <1>3
  <2> QED  BY <1>3, <2>1 DEF TickFiles, Stored, Reported
<1>6. \A q \in Procs \ {p} : proc[q].job \in Watched => tick[q].session # begun + 1
  BY <1>3 DEF TickInv, TickOK
<1>7. TickOK(p)'
  <2>1. Alone(p)'
    BY <1>1, <1>4, <1>6 DEF Alone
  <2>2. ~Stored(tick[p].session)' /\ Reported(tick[p].session)' = {}
    BY <1>2, <1>4, <1>5 DEF Stored, Reported
  <2>3. <<>> \in Seq(OtherAlerts)
    BY EmptySeq
  <2>4. PortfolioOK(p)'
    BY <1>1, <1>4, <2>2 DEF PortfolioOK
  <2>5. tick'[p].session \in 1 .. begun' /\ tick'[p].had \in 0 .. Len(snapshots')
    BY <1>2, <1>3, <1>4
  <2>6. tick'[p].session \notin ended' /\ tick'[p].snapshot \subseteq Reports
    BY <1>2, <1>4, <1>5
  <2> QED  BY <1>1, <1>4, <2>1, <2>2, <2>3, <2>4, <2>5, <2>6 DEF TickOK
<1>8. TickInv'
  BY <1>1, <1>2, <1>3, <1>4, <1>5, <1>7, TicksKept DEF TickFiles
<1> QED  BY <1>1, <1>4, <1>8

(* A step of a watcher that appends nothing.                               *)
LEMMA OneTicks ==
  ASSUME TickInv, RefineryInv, NEW p \in Procs, Ticks(p), WorldUnchanged, proc'[p] # Idle,
         proc'[p].pc # "idle", tick' = [q \in Procs |-> tick'[q]],
         \A q \in Procs \ {p} : tick'[q] = tick[q],
         IsTick(tick'[p]), tick'[p].session = tick[p].session, tick'[p].had = tick[p].had,
         tick'[p].snapshot \subseteq Reports,
         proc[p].job # Portfolio => tick'[p].alerts \in Seq(OtherAlerts),
         proc[p].job = Portfolio =>
           /\ ~Stored(tick[p].session) /\ Reported(tick[p].session) = {}
           /\ PortfolioOK(p)'
  PROVE  TickInv'
<1>1. /\ UNCHANGED <<begun, stale, snapshots, told, ended>> /\ begun \in Nat /\ TickOK(p)
      /\ proc'[p].job = proc[p].job /\ proc[p].job \in Watched /\ stale \subseteq Reports
  BY DEF WorldUnchanged, TickInv, TickFiles, Ticks
<1>2. Alone(p)'
  BY <1>1 DEF TickOK, Alone, Ticks
<1>3. ~Stored(tick[p].session) /\ ~Stored(tick[p].session)'
  BY <1>1, NothingStoredYet DEF Stored
<1>4. TickOK(p)'
  BY <1>1, <1>2, <1>3 DEF TickOK, IsTick
<1> QED  BY <1>1, <1>3, <1>4, TicksKept DEF Ticks


LEMMA DecideTicks ==
  ASSUME TickInv, RefineryInv, NEW p \in Procs, Ticks(p), WorldUnchanged, NEW decision, NEW alerts,
         Decide(p, decision, alerts),
         proc[p].job # Portfolio => alerts \in Seq(OtherAlerts),
         proc[p].job = Portfolio =>
           /\ proc[p].pc # "alerts"
           /\ \/ alerts = <<>>
              \/ /\ alerts # <<>> /\ Head(alerts) = "snapshot" /\ Tail(alerts) \in Seq(Reports)
                 /\ WouldFollow(p) => ToSet(Tail(alerts))
                                        = tick[p].snapshot \ snapshots[Len(snapshots)].reports
  PROVE  TickInv'
<1>1. /\ tick = [q \in Procs |-> tick[q]] /\ proc = [q \in Procs |-> proc[q]]
      /\ TickOK(p) /\ ProcOK(p) /\ proc[p].job \in Watched
  BY DEF TickInv, RefineryInv, Ticks
<1>2. /\ tick' = [tick EXCEPT ![p].decision = decision,
                             ![p].alerts = IF tick[p].dryRun THEN <<>> ELSE alerts]
      /\ proc' = [proc EXCEPT ![p].pc = "alerts"]
  BY DEF Decide, Goto
<1>3. /\ proc'[p].pc = "alerts" /\ proc'[p].job = proc[p].job
      /\ proc'[p] # Idle
  BY <1>1, <1>2 DEF ProcOK, IsProcess, Idle
<1>4. /\ tick' = [q \in Procs |-> tick'[q]] /\ \A q \in Procs \ {p} : tick'[q] = tick[q]
      /\ IsTick(tick'[p]) /\ tick'[p].session = tick[p].session /\ tick'[p].had = tick[p].had
      /\ tick'[p].snapshot = tick[p].snapshot
      /\ tick'[p].alerts = IF tick[p].dryRun THEN <<>> ELSE alerts
  BY <1>1, <1>2 DEF TickOK, IsTick
<1>5. tick'[p].snapshot \subseteq Reports
  BY <1>1, <1>4 DEF TickOK
<1>6. proc[p].job # Portfolio => tick'[p].alerts \in Seq(OtherAlerts)
  BY <1>4, EmptySeq
<1>7. ASSUME proc[p].job = Portfolio
      PROVE  /\ ~Stored(tick[p].session) /\ Reported(tick[p].session) = {}
             /\ PortfolioOK(p)'
  <2>1. ~Stored(tick[p].session) /\ Reported(tick[p].session) = {}
    BY <1>1, <1>7 DEF TickOK, PortfolioOK
  <2>2. ~Stored(tick[p].session)' /\ Reported(tick[p].session)' = {}
    BY <1>4, <2>1 DEF Stored, Reported, WorldUnchanged
  <2>3. CASE tick'[p].alerts = <<>>
    <3>1. tick'[p].alerts \in Seq(Reports)
      BY <2>3, EmptySeq
    <3> QED  BY <1>3, <2>1, <3>1 DEF PortfolioOK
  <2>4. CASE tick'[p].alerts # <<>>
    <3>1. tick'[p].alerts = alerts /\ alerts # <<>>
      BY <1>4, <2>4
    <3>2. WouldFollow(p)' => WouldFollow(p)
      BY <1>4 DEF WouldFollow, WorldUnchanged
    <3>3. Compared(p)'
      BY <1>4, <1>7, <3>1, <3>2 DEF Compared, WorldUnchanged
    <3>4. proc'[p].pc = "alerts"
      BY <1>3
    <3> QED  BY <2>1, <2>2, <3>3, <3>4 DEF PortfolioOK
  <2> QED  BY <2>1, <2>3, <2>4
<1> QED  BY <1>3, <1>4, <1>5, <1>6, <1>7, OneTicks

LEMMA ReviewTicks ==
  ASSUME TickInv, RefineryInv, NEW p \in Procs, Ticks(p), ReviewActivity(p) \/ ReviewOutput(p)
  PROVE  TickInv'
<1>1. /\ tick = [q \in Procs |-> tick[q]] /\ proc = [q \in Procs |-> proc[q]]
      /\ TickOK(p) /\ ProcOK(p) /\ proc[p].job = Review /\ WorldUnchanged
  BY DEF TickInv, RefineryInv, ReviewActivity, ReviewOutput, ProcOK, Where
<1>2. Review \in Watched \ {Portfolio}
  BY DEF Review, Portfolio, Watched
<1>3. CASE ReviewActivity(p)
  <2>1. PICK decision, alerts :
          /\ tick' = [tick EXCEPT ![p].decision = decision, ![p].alerts = alerts]
          /\ alerts \in {<<Review>>, <<>>}
    BY <1>3 DEF ReviewActivity
  <2>2. PICK since : proc' = [proc EXCEPT ![p].since = since, ![p].pc = "evaluate"]
    BY <1>3 DEF ReviewActivity
  <2>3. proc'[p].pc = "evaluate" /\ proc'[p] # Idle
    BY <1>1, <2>2 DEF ProcOK, IsProcess, Idle
  <2>4. alerts \in Seq(OtherAlerts)
    <3>1. <<Review>> \in Seq(OtherAlerts) /\ <<>> \in Seq(OtherAlerts)
      BY EmptySeq DEF OtherAlerts
    <3> QED  BY <2>1, <3>1
  <2>5. /\ tick' = [q \in Procs |-> tick'[q]] /\ \A q \in Procs \ {p} : tick'[q] = tick[q]
        /\ IsTick(tick'[p]) /\ tick'[p].session = tick[p].session /\ tick'[p].had = tick[p].had
        /\ tick'[p].snapshot = tick[p].snapshot /\ tick'[p].alerts = alerts
    BY <1>1, <2>1 DEF TickOK, IsTick
  <2>6. tick'[p].snapshot \subseteq Reports
    BY <1>1, <1>2, <2>5 DEF TickOK
  <2> QED  BY <1>1, <1>2, <2>3, <2>4, <2>5, <2>6, OneTicks
<1>4. CASE ReviewOutput(p)
  BY <1>1, <1>2, <1>4, DecideTicks DEF ReviewOutput, TickOK
<1> QED  BY <1>3, <1>4

LEMMA LookTicks ==
  ASSUME TickInv, RefineryInv, NEW p \in Procs, Ticks(p), RadarTick(p) \/ IdleKillerTick(p)
  PROVE  TickInv'
<1>1. WorldUnchanged /\ proc[p].job # Portfolio
  BY DEF RadarTick, IdleKillerTick, Radar, IdleKiller, Portfolio
<1>2. PICK decision, alerts : Decide(p, decision, alerts) /\ alerts \in Seq(OtherAlerts)
  <2>1. <<>> \in Seq(OtherAlerts) /\ <<Radar>> \in Seq(OtherAlerts)
    BY EmptySeq DEF OtherAlerts
  <2>2. CASE RadarTick(p)
    BY <2>1, <2>2 DEF RadarTick
  <2>3. CASE IdleKillerTick(p)
    <3>1. CASE Decide(p, "failed", <<>>)
      BY <2>1, <3>1
    <3>2. ASSUME NEW status, NEW since,
                 Decide(p, IF IdleCandidates(status, since) = {} THEN "no_change" ELSE "recommend",
                        SetToSeq(IdleCandidates(status, since)))
          PROVE  \E decision, alerts : Decide(p, decision, alerts) /\ alerts \in Seq(OtherAlerts)
      <4>1. IdleCandidates(status, since) \in SUBSET Pods
        BY DEF IdleCandidates
      <4>2. IsFiniteSet(IdleCandidates(status, since))
        BY <4>1, WatcherAssumption, FS_Subset
      <4>3. SetToSeq(IdleCandidates(status, since)) \in Seq(OtherAlerts)
        BY <4>1, <4>2, ListOfSet, SeqMonotonic DEF OtherAlerts
      <4> QED  BY <3>2, <4>3
    <3> QED  BY <2>3, <3>1, <3>2 DEF IdleKillerTick
  <2> QED  BY <2>2, <2>3
<1> QED  BY <1>1, <1>2, DecideTicks

(* A portfolio tick: the inventory, and the comparison.                    *)
LEMMA InventoryTicks ==
  ASSUME TickInv, RefineryInv, NEW p \in Procs, Ticks(p), Inventory(p) PROVE TickInv'
<1>1. /\ tick = [q \in Procs |-> tick[q]] /\ proc = [q \in Procs |-> proc[q]]
      /\ TickOK(p) /\ ProcOK(p) /\ proc[p].job = Portfolio /\ proc[p].pc = "run" /\ WorldUnchanged
      /\ stale \subseteq Reports
  BY DEF TickInv, TickFiles, RefineryInv, Inventory
<1>2. CASE Decide(p, "failed", <<>>)
  BY <1>1, <1>2, DecideTicks
<1>3. CASE tick' = [tick EXCEPT ![p].snapshot = stale] /\ Goto(p, "prior")
  <2>1. proc'[p].pc = "prior" /\ proc'[p] # Idle
    BY <1>1, <1>3 DEF ProcOK, IsProcess, Idle, Goto
  <2>2. /\ tick' = [q \in Procs |-> tick'[q]] /\ \A q \in Procs \ {p} : tick'[q] = tick[q]
        /\ IsTick(tick'[p]) /\ tick'[p].session = tick[p].session /\ tick'[p].had = tick[p].had
        /\ tick'[p].snapshot = stale /\ tick'[p].alerts = tick[p].alerts
    BY <1>1, <1>3 DEF TickOK, IsTick
  <2>3. ~Stored(tick[p].session) /\ Reported(tick[p].session) = {} /\ tick[p].alerts = <<>>
    BY <1>1 DEF TickOK, PortfolioOK
  <2>4. PortfolioOK(p)'
    BY <1>1, <2>1, <2>2, <2>3 DEF PortfolioOK, Stored, Reported, WorldUnchanged
  <2> QED  BY <1>1, <2>1, <2>2, <2>3, <2>4, OneTicks
<1> QED  BY <1>2, <1>3, <1>1 DEF Inventory

LEMMA CompareTicks ==
  ASSUME TickInv, RefineryInv, NEW p \in Procs, Ticks(p), DiffWithPrior(p) PROVE TickInv'
<1>1. /\ TickOK(p) /\ proc[p].job = Portfolio /\ proc[p].pc = "prior" /\ WorldUnchanged
      /\ snapshots \in Seq(Row) /\ begun \in Nat
  BY DEF TickInv, TickFiles, RefineryInv, DiffWithPrior, ProcOK, Where
<1> DEFINE n == Len(snapshots)
           priors == Priors(tick[p].session)
           new == IF priors = {} THEN {}
                  ELSE NewStale(snapshots[MostRecent(priors)].reports, tick[p].snapshot)
           listed == SetToSeq(new)
           alerts == <<"snapshot">> \o listed
<1>2. tick[p].session \in Nat /\ tick[p].snapshot \subseteq Reports /\ SessionLimit \in Nat /\ n \in Nat
  BY <1>1, WatcherAssumption DEF TickOK, Watched
<1>3. new \in SUBSET Reports
  BY <1>2 DEF NewStale
<1>4. listed \in Seq(Reports) /\ ToSet(listed) = new
  <2>1. IsFiniteSet(new)
    BY <1>3, WatcherAssumption, FS_Subset
  <2> HIDE DEF new
  <2>2. listed \in Seq(new) /\ {listed[i] : i \in 1 .. Len(listed)} = new
    BY <2>1, ListOfSet
  <2>3. DOMAIN listed = 1 .. Len(listed)
    BY <2>2
  <2> QED  BY <1>3, <2>2, <2>3, SeqMonotonic DEF ToSet
<1>5. WouldFollow(p) => new = tick[p].snapshot \ snapshots[n].reports
  <2> SUFFICES ASSUME WouldFollow(p) PROVE new = tick[p].snapshot \ snapshots[n].reports
    OBVIOUS
  <2>1. \A j \in 1 .. n : snapshots[j].session \in Nat
    <3>1. \A j \in 1 .. n : snapshots[j] \in Row
      BY <1>1, ElementOfSeq
    <3> QED  BY <3>1 DEF Row
  <2>2. n \in priors
    BY <1>1, <1>2, <2>1 DEF WouldFollow, Priors
  <2>3. \A k \in priors : (\A j \in priors : snapshots[j].session <= snapshots[k].session) <=> k = n
    <3>1. priors \subseteq 1 .. n
      BY DEF Priors
    <3>2. \A j \in priors \ {n} : snapshots[j].session < snapshots[n].session
      BY <1>2, <3>1 DEF WouldFollow
    <3> HIDE DEF priors, n
    <3> QED  BY <2>1, <2>2, <3>1, <3>2
  <2>4. MostRecent(priors) = n
    BY <2>2, <2>3 DEF MostRecent
  <2> QED  BY <2>2, <2>4 DEF NewStale
<1>6. alerts # <<>> /\ Head(alerts) = "snapshot" /\ Tail(alerts) = listed
  <2> HIDE DEF listed
  <2> QED  BY <1>4
<1>7. Decide(p, IF priors # {} /\ new = {} THEN "no_change" ELSE "notify", alerts)
  BY DEF DiffWithPrior
<1> HIDE DEF alerts, listed, new, priors
<1> QED  BY <1>1, <1>4, <1>5, <1>6, <1>7, DecideTicks


LEMMA HeadAndTail ==
  ASSUME NEW S, NEW seq \in Seq(S), seq # <<>>
  PROVE  /\ Head(seq) \in S /\ Tail(seq) \in Seq(S)
         /\ ToSet(seq) = {Head(seq)} \cup ToSet(Tail(seq))
<1>1. /\ Head(seq) \in S /\ Tail(seq) \in Seq(S) /\ Len(seq) \in Nat \ {0}
      /\ Len(Tail(seq)) = Len(seq) - 1 /\ \A i \in 1 .. Len(seq) - 1 : Tail(seq)[i] = seq[i + 1]
  BY HeadTailProperties, EmptySeq
<1>2. DOMAIN seq = 1 .. Len(seq) /\ DOMAIN Tail(seq) = 1 .. Len(seq) - 1 /\ seq[1] = Head(seq)
  BY <1>1
<1>3. ASSUME NEW i \in 1 .. Len(seq) PROVE seq[i] \in {Head(seq)} \cup ToSet(Tail(seq))
  <2>1. CASE i = 1
    BY <1>2, <2>1
  <2>2. CASE i # 1
    <3>1. i - 1 \in 1 .. Len(seq) - 1 /\ seq[i] = Tail(seq)[i - 1]
      BY <1>1, <2>2
    <3> QED  BY <1>2, <3>1 DEF ToSet
  <2> QED  BY <2>1, <2>2
<1>4. ASSUME NEW i \in 1 .. Len(seq) - 1 PROVE Tail(seq)[i] \in ToSet(seq)
  <2>1. i + 1 \in 1 .. Len(seq)
    BY <1>1
  <2> QED  BY <1>1, <1>2, <2>1 DEF ToSet
<1>5. Head(seq) \in ToSet(seq)
  BY <1>1, <1>2 DEF ToSet
<1> QED  BY <1>1, <1>2, <1>3, <1>4, <1>5 DEF ToSet

(* The snapshot is stored: what is left to tell is the difference.         *)
LEMMA SnapshotTicks ==
  ASSUME TickInv, NEW p \in Procs, AppendAlert(p), Head(tick[p].alerts) = "snapshot"
  PROVE  TickInv'
<1>0. PICK s, n : s = tick[p].session /\ n = Len(snapshots)
  OBVIOUS
<1> USE <1>0
<1> DEFINE row == [session |-> s, reports |-> tick[p].snapshot, had |-> tick[p].had]
<1>1. /\ TickFiles /\ tick = [q \in Procs |-> tick[q]] /\ TickOK(p) /\ n \in Nat
      /\ begun \in Nat /\ snapshots \in Seq(Row)
  BY DEF TickInv, TickFiles
<1>2. /\ proc[p].pc = "alerts" /\ tick[p].alerts # <<>>
      /\ tick' = [tick EXCEPT ![p].alerts = Tail(@)]
      /\ snapshots' = Append(snapshots, row) /\ told' = told
      /\ UNCHANGED <<proc, begun, stale, ended>>
  BY WatcherAssumption DEF AppendAlert, refineryVars
<1>3. proc[p].job \in Watched
  <2>1. tick[p] # NoTick
    BY <1>2 DEF NoTick
  <2> QED  BY <1>1, <2>1 DEF TickOK
<1>4. proc[p].job = Portfolio
  <2>1. "snapshot" \notin OtherAlerts
    BY WatcherAssumption DEF OtherAlerts, Review, Radar
  <2>2. tick[p].alerts \notin Seq(OtherAlerts)
    BY <1>2, <2>1, HeadAndTail
  <2> QED  BY <1>1, <1>3, <2>2 DEF TickOK
<1>5. Compared(p) /\ ~Stored(s) /\ Reported(s) = {}
  <2>1. tick[p].alerts \notin Seq(Reports)
    BY <1>2, HeadAndTail, WatcherAssumption
  <2> QED  BY <1>1, <1>2, <1>4, <2>1 DEF TickOK, PortfolioOK
<1>6. /\ s \in 1 .. begun /\ s \notin ended /\ tick[p].had \in 0 .. n /\ tick[p].snapshot \subseteq Reports
      /\ Alone(p)
  BY <1>1, <1>3 DEF TickOK
<1>7. /\ row \in Row /\ snapshots' \in Seq(Row) /\ Len(snapshots') = n + 1
      /\ \A k \in 1 .. n : snapshots'[k] = snapshots[k]
      /\ snapshots'[n + 1] = row
  <2>1. row \in Row
    BY <1>1, <1>6 DEF Row
  <2> QED  BY <1>1, <1>2, <2>1, AppendProperties
<1>8. /\ tick' = [q \in Procs |-> tick'[q]] /\ \A q \in Procs \ {p} : tick'[q] = tick[q]
      /\ IsTick(tick'[p]) /\ tick'[p].session = s /\ tick'[p].had = tick[p].had
      /\ tick'[p].snapshot = tick[p].snapshot /\ tick'[p].alerts = Tail(tick[p].alerts)
  BY <1>1, <1>2 DEF TickOK, IsTick
<1>9. TickFiles'
  <2>1. \A k \in 1 .. n + 1 : snapshots'[k].session \in 1 .. begun
    <3> TAKE k \in 1 .. n + 1
    <3>1. CASE k \in 1 .. n
      BY <1>1, <1>7, <3>1 DEF TickFiles
    <3>2. CASE k = n + 1
      BY <1>6, <1>7, <3>2
    <3> QED  BY <1>1, <3>1, <3>2
  <2> QED  BY <1>1, <1>2, <1>7, <2>1 DEF TickFiles
<1>10. ASSUME NEW q \in Procs \ {p} PROVE TickOK(q)'
  <2>1. TickOK(q) /\ tick'[q] = tick[q] /\ proc' = proc
    BY <1>2, <1>8 DEF TickInv
  <2>2. proc[q].job \in Watched => Alone(q)'
    BY <1>2, <1>6, <1>8, <2>1 DEF TickOK, Alone
  <2>3. proc[q].job \in Watched /\ ~Stored(tick[q].session) => ~Stored(tick[q].session)'
    <3> SUFFICES ASSUME proc[q].job \in Watched, ~Stored(tick[q].session), NEW k \in 1 .. n + 1
                 PROVE  snapshots'[k].session # tick[q].session
      BY <1>7, <2>1 DEF Stored
    <3>1. CASE k \in 1 .. n
      BY <1>7, <3>1 DEF Stored
    <3>2. CASE k = n + 1
      BY <1>6, <1>7, <3>2 DEF Alone
    <3> QED  BY <1>1, <3>1, <3>2
  <2>4. proc[q].job = Portfolio => PortfolioOK(q)'
    <3> SUFFICES ASSUME proc[q].job = Portfolio PROVE PortfolioOK(q)'
      OBVIOUS
    <3>1. PortfolioOK(q) /\ tick[q].had \in 0 .. n /\ proc[q].job \in Watched
      BY <2>1 DEF TickOK, Watched
    <3>2. ~WouldFollow(q)'
      BY <1>1, <1>7, <2>1, <3>1 DEF WouldFollow
    <3>3. Compared(q) => Compared(q)'
      BY <2>1, <3>2 DEF Compared
    <3>4. Reported(tick[q].session)' = Reported(tick[q].session)
      BY <1>2, <2>1 DEF Reported
    <3> QED  BY <2>1, <2>3, <3>1, <3>3, <3>4 DEF PortfolioOK
  <2>5. proc[q].job \in Watched =>
          /\ tick'[q].session \in 1 .. begun' /\ tick'[q].session \notin ended'
          /\ tick'[q].had \in 0 .. Len(snapshots') /\ tick'[q].snapshot \subseteq Reports
    BY <1>1, <1>2, <1>7, <2>1 DEF TickOK
  <2>6. IsTick(tick[q])' /\ (proc'[q].job \notin Watched => tick'[q] = NoTick)
    BY <2>1 DEF TickOK, IsTick
  <2> QED  BY <2>1, <2>2, <2>3, <2>4, <2>5, <2>6 DEF TickOK
<1>11. TickOK(p)'
  <2>1. Alone(p)'
    BY <1>2, <1>6, <1>8 DEF Alone
  <2>2. PortfolioOK(p)'
    BY <1>2, <1>5, <1>8 DEF PortfolioOK, Compared
  <2>3. tick'[p].session \in 1 .. begun' /\ tick'[p].session \notin ended'
    BY <1>2, <1>6, <1>8
  <2>4. tick'[p].had \in 0 .. Len(snapshots') /\ tick'[p].snapshot \subseteq Reports
    BY <1>1, <1>6, <1>7, <1>8
  <2>5. proc'[p].job = Portfolio /\ proc'[p].job \in Watched
    BY <1>2, <1>3, <1>4
  <2> QED  BY <1>8, <2>1, <2>2, <2>3, <2>4, <2>5 DEF TickOK
<1>12. ASSUME NEW k \in 1 .. n PROVE RowOK(k)'
  <2>1. snapshots'[k] = snapshots[k] /\ (k > 1 => snapshots'[k - 1] = snapshots[k - 1])
    BY <1>1, <1>7
  <2>2. FollowsPrevious(k)' => FollowsPrevious(k)
    <3>1. \A j \in 1 .. k - 2 : snapshots'[j] = snapshots[j]
      BY <1>1, <1>7
    <3> QED  BY <1>1, <1>2, <2>1, <3>1 DEF FollowsPrevious
  <2>3. snapshots[k].session # s
    BY <1>5 DEF Stored
  <2>4. \A q \in Procs : proc'[q].job = Portfolio /\ tick'[q].session = snapshots[k].session =>
                           q # p /\ tick'[q] = tick[q]
    BY <1>8, <2>3
  <2>5. FollowsPrevious(k)' => Difference(k)' = Difference(k)
    BY <2>1 DEF Difference, FollowsPrevious
  <2>6. Reported(snapshots[k].session)' = Reported(snapshots[k].session)
    BY <1>2, <2>1 DEF Reported
  <2> QED  BY <1>2, <2>1, <2>2, <2>4, <2>5, <2>6 DEF RowOK, TickInv
<1>13. RowOK(n + 1)'
  <2> SUFFICES ASSUME FollowsPrevious(n + 1)'
               PROVE  RowOK(n + 1)'
    BY DEF RowOK
  <2>1. WouldFollow(p)
    <3>1. n + 1 > 1 /\ tick[p].had = n
      BY <1>1, <1>7 DEF FollowsPrevious
    <3>2. \A j \in 1 .. n - 1 : snapshots[j].session < snapshots[n].session
      <4>1. \A j \in 1 .. (n + 1) - 2 : snapshots'[j].session < snapshots'[(n + 1) - 1].session
        BY DEF FollowsPrevious
      <4> QED  BY <1>1, <1>7, <3>1, <4>1
    <3>3. snapshots[n].session \in begun - SessionLimit + 1 .. s - 1
      <4>1. snapshots'[(n + 1) - 1].session
              \in begun' - SessionLimit + 1 .. snapshots'[n + 1].session - 1
        BY DEF FollowsPrevious
      <4> QED  BY <1>1, <1>2, <1>7, <3>1, <4>1
    <3> QED  BY <1>1, <3>1, <3>2, <3>3 DEF WouldFollow
  <2>2. n > 0 /\ ToSet(Tail(tick[p].alerts)) = tick[p].snapshot \ snapshots[n].reports
    BY <1>5, <2>1 DEF Compared, WouldFollow
  <2>3. Difference(n + 1)' = tick[p].snapshot \ snapshots[n].reports
    BY <1>1, <1>7, <2>2 DEF Difference
  <2>4. s \notin ended' /\ snapshots'[n + 1].session = s
    BY <1>2, <1>6, <1>7
  <2>5. \A q \in Procs : proc'[q].job = Portfolio /\ tick'[q].session = s => q = p
    BY <1>2, <1>6, <1>8 DEF Alone, Watched
  <2>6. Reported(snapshots[n + 1].session)' = {}
    <3>1. Reported(snapshots[n + 1].session)' = Reported(s)
      BY <1>2, <2>4 DEF Reported
    <3> QED  BY <1>5, <3>1
  <2> QED  BY <1>8, <2>2, <2>3, <2>4, <2>5, <2>6 DEF RowOK
<1>14. \A k \in 1 .. Len(snapshots') : RowOK(k)'
  <2> TAKE k \in 1 .. Len(snapshots')
  <2>1. k \in 1 .. n \/ k = n + 1
    BY <1>1, <1>7
  <2>2. CASE k = n + 1
    BY <1>13, <2>2 DEF RowOK, FollowsPrevious, Difference, Reported
  <2> QED  BY <1>12, <2>1, <2>2
<1> QED  BY <1>8, <1>9, <1>10, <1>11, <1>14 DEF TickInv


(* Any other alert: what was left to tell has been told.                   *)
LEMMA AlertTicks ==
  ASSUME TickInv, NEW p \in Procs, AppendAlert(p), Head(tick[p].alerts) # "snapshot"
  PROVE  TickInv'
<1>0. PICK s, alert, n :
        s = tick[p].session /\ alert = Head(tick[p].alerts) /\ n = Len(snapshots)
  OBVIOUS
<1> USE <1>0
<1>1. /\ TickFiles /\ tick = [q \in Procs |-> tick[q]] /\ TickOK(p) /\ begun \in Nat /\ n \in Nat
  BY DEF TickInv, TickFiles
<1>2. /\ proc[p].pc = "alerts" /\ tick[p].alerts # <<>>
      /\ tick' = [tick EXCEPT ![p].alerts = Tail(@)]
      /\ told' = IF alert \in Reports THEN told \cup {[session |-> s, report |-> alert]} ELSE told
      /\ UNCHANGED <<proc, begun, stale, ended, snapshots>>
  BY DEF AppendAlert, refineryVars
<1>3. proc[p].job \in Watched
  <2>1. tick[p] # NoTick
    BY <1>2 DEF NoTick
  <2> QED  BY <1>1, <2>1 DEF TickOK
<1>4. s \in 1 .. begun /\ s \notin ended /\ Alone(p)
  BY <1>1, <1>3 DEF TickOK
<1>5. /\ tick' = [q \in Procs |-> tick'[q]] /\ \A q \in Procs \ {p} : tick'[q] = tick[q]
      /\ IsTick(tick'[p]) /\ tick'[p].session = s /\ tick'[p].had = tick[p].had
      /\ tick'[p].snapshot = tick[p].snapshot /\ tick'[p].alerts = Tail(tick[p].alerts)
  BY <1>1, <1>2 DEF TickOK, IsTick
<1>6. TickFiles'
  <2>1. alert \in Reports => [session |-> s, report |-> alert] \in [session : 1 .. begun, report : Reports]
    BY <1>4
  <2>2. told' \subseteq [session : 1 .. begun, report : Reports]
    BY <1>1, <1>2, <2>1 DEF TickFiles
  <2> QED  BY <1>1, <1>2, <2>2 DEF TickFiles
<1>7. \A x : x # s => Reported(x)' = Reported(x)
  <2> TAKE x
  <2> HAVE x # s
  <2>1. \A t : t.session = x => (t \in told' <=> t \in told)
    <3> TAKE t
    <3> HAVE t.session = x
    <3>1. t # [session |-> s, report |-> alert]
      OBVIOUS
    <3> QED  BY <1>2, <3>1
  <2> QED  BY <2>1 DEF Reported
<1>8. alert \in Reports => Reported(s)' = Reported(s) \cup {alert}
  <2> HAVE alert \in Reports
  <2> DEFINE t == [session |-> s, report |-> alert]
  <2>1. told' = told \cup {t} /\ t.session = s /\ t.report = alert
    BY <1>2
  <2> HIDE DEF t
  <2> QED  BY <2>1 DEF Reported
<1>9. proc[p].job = Portfolio => tick[p].alerts \in Seq(Reports)
  BY <1>1, <1>2 DEF TickOK, PortfolioOK, Compared
<1>10. ASSUME NEW q \in Procs \ {p} PROVE TickOK(q)'
  <2>1. TickOK(q) /\ tick'[q] = tick[q] /\ proc' = proc
    BY <1>2, <1>5 DEF TickInv
  <2>2. proc[q].job \in Watched => Alone(q)'
    BY <1>2, <1>4, <1>5, <2>1 DEF TickOK, Alone
  <2>3. proc[q].job \in Watched => tick[q].session # s
    BY <1>4 DEF Alone
  <2>4. Stored(tick[q].session)' <=> Stored(tick[q].session)
    BY <1>2, <2>1 DEF Stored
  <2>5. proc[q].job = Portfolio => PortfolioOK(q)'
    <3> SUFFICES ASSUME proc[q].job = Portfolio PROVE PortfolioOK(q)'
      OBVIOUS
    <3>1. PortfolioOK(q) /\ proc[q].job \in Watched
      BY <2>1 DEF TickOK, Watched
    <3>2. Compared(q)' <=> Compared(q)
      BY <1>2, <2>1 DEF Compared, WouldFollow
    <3>3. Reported(tick[q].session)' = Reported(tick[q].session)
      <4>1. PICK x : x = tick[q].session
        OBVIOUS
      <4>2. Reported(x)' = Reported(x)
        BY <1>7, <2>3, <3>1, <4>1
      <4> QED  BY <2>1, <4>1, <4>2 DEF Reported
    <3> QED  BY <2>1, <2>4, <3>1, <3>2, <3>3 DEF PortfolioOK
  <2> QED  BY <1>2, <2>1, <2>2, <2>4, <2>5 DEF TickOK, IsTick
<1>11. TickOK(p)'
  <2>1. Alone(p)'
    BY <1>2, <1>4, <1>5 DEF Alone
  <2>2. proc[p].job = Portfolio => PortfolioOK(p)'
    BY <1>2, <1>5, <1>9, HeadAndTail DEF PortfolioOK
  <2>3. proc[p].job # Portfolio =>
          tick'[p].alerts \in Seq(OtherAlerts) /\ ~Stored(tick[p].session)'
    <3> HAVE proc[p].job # Portfolio
    <3>1. tick[p].alerts \in Seq(OtherAlerts) /\ ~Stored(s)
      BY <1>1, <1>3 DEF TickOK
    <3>2. tick'[p].alerts \in Seq(OtherAlerts)
      BY <1>2, <1>5, <3>1, HeadAndTail
    <3> QED  BY <1>2, <1>5, <3>1, <3>2 DEF Stored
  <2>4. /\ tick'[p].session \in 1 .. begun' /\ tick'[p].session \notin ended'
        /\ tick'[p].had \in 0 .. Len(snapshots') /\ tick'[p].snapshot \subseteq Reports
    <3>1. tick[p].had \in 0 .. n /\ tick[p].snapshot \subseteq Reports
      BY <1>1, <1>3 DEF TickOK
    <3> QED  BY <1>2, <1>4, <1>5, <3>1
  <2> QED  BY <1>2, <1>3, <1>5, <2>1, <2>2, <2>3, <2>4 DEF TickOK
<1>12. ASSUME NEW k \in 1 .. n PROVE RowOK(k)'
  <2>1. RowOK(k) /\ Difference(k)' = Difference(k) /\ (FollowsPrevious(k)' <=> FollowsPrevious(k))
    BY <1>2 DEF TickInv, Difference, FollowsPrevious
  <2>2. PICK x : x = snapshots[k].session
    OBVIOUS
  <2>3. Reported(snapshots[k].session)' = Reported(x)' /\ Reported(snapshots[k].session) = Reported(x)
    BY <1>2, <2>2 DEF Reported
  <2>4. CASE x # s
    <3>1. Reported(x)' = Reported(x)
      BY <1>7, <2>4
    <3>2. \A q \in Procs : tick'[q].session = x => tick'[q] = tick[q]
      BY <1>5, <2>4
    <3> QED  BY <1>2, <2>1, <2>2, <2>3, <3>1, <3>2 DEF RowOK
  <2>5. CASE x = s
    <3>1. Stored(s)
      BY <2>2, <2>5 DEF Stored
    <3>2. proc[p].job = Portfolio
      BY <1>1, <1>3, <3>1 DEF TickOK
    <3>3. /\ alert \in Reports
          /\ ToSet(tick[p].alerts) = {alert} \cup ToSet(Tail(tick[p].alerts))
      BY <1>2, <1>9, <3>2, HeadAndTail
    <3>4. FollowsPrevious(k) => Reported(x) \cup ToSet(tick[p].alerts) = Difference(k)
      BY <2>1, <2>2, <2>3, <2>5, <3>2 DEF RowOK
    <3>5. Reported(x)' \cup ToSet(tick'[p].alerts) = Reported(x) \cup ToSet(tick[p].alerts)
      BY <1>5, <1>8, <2>5, <3>3
    <3>6. \A q \in Procs : proc'[q].job = Portfolio /\ tick'[q].session = s => q = p
      BY <1>2, <1>4, <1>5 DEF Alone, Watched
    <3> QED  BY <1>2, <1>4, <2>1, <2>2, <2>3, <2>5, <3>4, <3>5, <3>6 DEF RowOK
  <2> QED  BY <2>4, <2>5
<1> QED  BY <1>2, <1>5, <1>6, <1>10, <1>11, <1>12 DEF TickInv

(* The tick has ended: it has told everything.                             *)
LEMMA ResultTicks ==
  ASSUME TickInv, RefineryInv, NEW p \in Procs, AppendResult(p) PROVE TickInv'
<1>0. PICK s : s = tick[p].session
  OBVIOUS
<1> USE <1>0
<1>1. /\ TickFiles /\ tick = [q \in Procs |-> tick[q]] /\ TickOK(p) /\ begun \in Nat
      /\ proc = [q \in Procs |-> proc[q]] /\ ProcOK(p)
  BY DEF TickInv, TickFiles, RefineryInv
<1>2. /\ proc[p].pc = "alerts" /\ tick[p].alerts = <<>>
      /\ ended' \subseteq ended \cup {s} /\ ended \subseteq ended'
      /\ UNCHANGED <<begun, stale, snapshots, told>>
      /\ proc'[p] = Idle /\ tick'[p] = NoTick
      /\ \A q \in Procs \ {p} : proc'[q] = proc[q] /\ tick'[q] = tick[q]
      /\ tick' = [q \in Procs |-> tick'[q]]
  BY <1>1 DEF AppendResult, Done
<1>3. proc[p].job \in Watched
  BY <1>1, <1>2 DEF ProcOK, Where
<1>4. s \in 1 .. begun /\ Alone(p)
  BY <1>1, <1>3 DEF TickOK
<1>5. TickFiles'
  BY <1>1, <1>2, <1>4 DEF TickFiles
<1>6. ASSUME NEW q \in Procs \ {p} PROVE TickOK(q)'
  <2>1. TickOK(q) /\ tick'[q] = tick[q] /\ proc'[q] = proc[q]
    BY <1>2 DEF TickInv
  <2>2. Idle.job \notin Watched
    BY DEF Idle, Watched, Review, Portfolio, Radar, IdleKiller
  <2>3. proc[q].job \in Watched => Alone(q)' /\ tick[q].session # s
    BY <1>2, <1>4, <2>1, <2>2 DEF TickOK, Alone
  <2>4. /\ Stored(tick[q].session)' <=> Stored(tick[q].session)
        /\ Reported(tick[q].session)' = Reported(tick[q].session)
        /\ Compared(q)' <=> Compared(q)
    BY <1>2, <2>1 DEF Stored, Reported, Compared, WouldFollow
  <2>5. PortfolioOK(q) => PortfolioOK(q)'
    BY <1>2, <2>1, <2>4 DEF PortfolioOK
  <2> QED  BY <1>2, <2>1, <2>3, <2>4, <2>5 DEF TickOK, IsTick
<1>7. TickOK(p)'
  BY <1>2, IdleTickIsOK
<1>8. ASSUME NEW k \in 1 .. Len(snapshots) PROVE RowOK(k)'
  <2>1. RowOK(k) /\ Difference(k)' = Difference(k) /\ (FollowsPrevious(k)' <=> FollowsPrevious(k))
    BY <1>2 DEF TickInv, Difference, FollowsPrevious
  <2>2. Reported(snapshots[k].session)' = Reported(snapshots[k].session)
    BY <1>2 DEF Reported
  <2>3. \A q \in Procs : proc'[q].job = Portfolio => proc'[q] = proc[q] /\ tick'[q] = tick[q]
    BY <1>2 DEF Idle, Portfolio
  <2>4. ASSUME FollowsPrevious(k), snapshots[k].session = s
        PROVE  Reported(snapshots[k].session) = Difference(k)
    <3>1. proc[p].job = Portfolio
      BY <1>1, <1>3, <2>4 DEF TickOK, Stored
    <3>2. Reported(snapshots[k].session) \cup ToSet(tick[p].alerts) = Difference(k)
      BY <2>1, <2>4, <3>1 DEF RowOK
    <3>3. ToSet(tick[p].alerts) = {}
      BY <1>2 DEF ToSet
    <3> QED  BY <3>2, <3>3
  <2> QED  BY <1>2, <2>1, <2>2, <2>3, <2>4 DEF RowOK
<1> QED  BY <1>2, <1>5, <1>6, <1>7, <1>8 DEF TickInv


LEMMA WatcherTicks ==
  ASSUME TickInv, RefineryInv, NEW p \in Procs, Ticks(p), WatcherStep(p) PROVE TickInv'
<1>1. CASE WatcherThrows(p)
  <2>1. /\ tick = [q \in Procs |-> tick[q]] /\ proc = [q \in Procs |-> proc[q]] /\ TickFiles
    BY DEF TickInv, RefineryInv
  <2>2. /\ UNCHANGED <<snapshots, told, ended, begun, stale>>
        /\ proc'[p] = Idle /\ tick'[p] = NoTick
        /\ \A q \in Procs \ {p} : proc'[q] = proc[q] /\ tick'[q] = tick[q]
        /\ tick' = [q \in Procs |-> tick'[q]]
    BY <1>1, <2>1 DEF WatcherThrows, Done
  <2> QED  BY <2>1, <2>2, TicksKept DEF TickFiles
<1>2. CASE AppendAlert(p)
  BY <1>2, SnapshotTicks, AlertTicks
<1> QED  BY <1>1, <1>2, ReviewTicks, InventoryTicks, CompareTicks, LookTicks, ResultTicks
         DEF WatcherStep

LEMMA StartTicks ==
  ASSUME TickInv, RefineryInv, NEW p \in Procs, Start(p) PROVE TickInv'
<1>1. ASSUME UNCHANGED nightVars PROVE TickInv'
  BY <1>1, TicksKept DEF nightVars, watcherVars, refineryVars, TickInv, TickFiles
<1>2. CASE FireCron(p)
  BY <1>1, <1>2, RunTicks DEF FireCron, Watched
<1>3. ASSUME NEW w \in DOMAIN Interval, FireInterval(p, w) PROVE TickInv'
  <2>1. w \in Watched
    BY SchedulerAssumption
  <2> QED  BY <1>1, <1>3, <2>1, RunTicks DEF FireInterval
<1>4. CASE LaunchReview(p)
  BY <1>4, RunTicks DEF LaunchReview, Watched
<1>5. ASSUME NEW w \in Watched, NEW dryRun \in BOOLEAN, ShellWatcher(p, w, dryRun) PROVE TickInv'
  BY <1>5, RunTicks DEF ShellWatcher
<1>6. ASSUME NEW job, NEW pc, NEW rule, ShellRefinery(p, job, pc, rule),
             <<job, pc>> \in {<<"propose", "harvest">>, <<"promote", "check">>, <<"revoke", "look">>,
                             <<"auto-promote", "evaluate">>, <<"eval-export", "build">>}
      PROVE  TickInv'
  <2>1. /\ proc[p].pc = "idle" /\ proc'[p].job = job
        /\ \A q \in Procs \ {p} : proc'[q] = proc[q]
    BY <1>6, BeginKeeps DEF ShellRefinery, FilesUnchanged
  <2>2. UNCHANGED <<tick, snapshots, told, ended, stale>> /\ begun' = begun + 1
    BY <1>6 DEF ShellRefinery
  <2>3. job \notin Watched
    BY <1>6 DEF Watched, Review, Portfolio, Radar, IdleKiller
  <2>4. tick[p] = NoTick /\ ~Stored(tick[p].session)
    <3>1. TickOK(p) /\ proc[p].job = "none"
      BY <2>1 DEF TickInv, RefineryInv, ProcOK, Where, Idle
    <3>2. proc[p].job \notin Watched /\ proc[p].job # Portfolio
      BY <3>1 DEF Watched, Review, Portfolio, Radar, IdleKiller
    <3> QED  BY <3>1, <3>2, NothingStoredYet DEF TickOK
  <2>5. TickOK(p)'
    BY <2>1, <2>2, <2>3, <2>4 DEF TickOK, IsTick, NoTick, Watched
  <2> QED  BY <2>1, <2>2, <2>4, <2>5, TicksKept DEF TickInv, TickFiles
<1> QED  BY <1>2, <1>3, <1>4, <1>5, <1>6 DEF Start, RefineryPropose, RefineryPromote, RefineryRevoke,
            RefineryAutoPromote, RefineryEvalExport

LEMMA TickInvariant == Spec => [](RefineryInv /\ TickInv)
<1>1. Init => TickInv
  BY TicksStart
<1>2. RefineryInv /\ TickInv /\ [Next]_vars => TickInv'
  <2> SUFFICES ASSUME RefineryInv, TickInv, [Next]_vars PROVE TickInv'
    OBVIOUS
  <2>1. /\ tick = [q \in Procs |-> tick[q]] /\ proc = [q \in Procs |-> proc[q]]
        /\ begun \in Nat /\ stale \subseteq Reports
    BY DEF TickInv, TickFiles, RefineryInv
  <2>2. ASSUME NEW p \in Procs, Step(p) PROVE TickInv'
    <3>1. CASE RefineryStep(p) /\ UNCHANGED watcherVars
      BY <3>1, RefineryStepMoves, RefineryTicks
    <3>2. CASE WatcherStep(p)
      BY <3>2, WatcherStepKeeps, WatcherTicks
    <3> QED  BY <2>2, <3>1, <3>2 DEF Step
  <2>3. ASSUME NEW p \in Procs, Start(p) PROVE TickInv'
    BY <2>3, StartTicks
  <2>4. ASSUME NEW p \in Procs, Die(p) PROVE TickInv'
    <3>1. /\ UNCHANGED <<snapshots, told, ended, begun, stale>>
          /\ proc'[p] = Idle /\ tick'[p] = NoTick
          /\ \A q \in Procs \ {p} : proc'[q] = proc[q] /\ tick'[q] = tick[q]
          /\ tick' = [q \in Procs |-> tick'[q]]
      BY <2>1, <2>4 DEF Die, Done
    <3> QED  BY <2>1, <3>1, TicksKept
  <2>5. CASE StartScheduler \/ UNCHANGED vars
    BY <2>1, <2>5, TicksKept DEF StartScheduler, vars, nightVars, refineryVars, watcherVars
  <2>6. CASE StopScheduler
    BY <2>1, <2>6, TicksKept DEF StopScheduler
  <2>7. CASE World
    <3>1. /\ UNCHANGED <<proc, tick, snapshots, told, ended, begun>>
          /\ stale' \subseteq Reports
      BY <2>1, <2>7 DEF World, Fail, Archive, Release, Strike, ToggleKillSwitch, ReportChanges,
                        refineryVars, watcherVars
    <3> QED  BY <2>1, <3>1, TicksKept
  <2> QED  BY <2>2, <2>3, <2>4, <2>5, <2>6, <2>7 DEF Next
<1> QED  BY <1>1, <1>2, RefineryInvariant, PTL DEF Spec

(* However many ticks died half way, ran dry or failed in between: a       *)
(* portfolio tick that ended has told of exactly the reports that were not *)
(* in the snapshot before its own.                                         *)
THEOREM NewStaleAlwaysTold == Spec => []NewStaleIsTold
<1>1. TickInv => NewStaleIsTold
  BY DEF TickInv, RowOK, Reported, Difference, NewStaleIsTold
<1> QED  BY <1>1, TickInvariant, PTL

-----------------------------------------------------------------------------
(* The cron timer.                                                         *)

(* Within Horizon of every hour there is one that the expression matches.  *)
MatchesOften ==
  \A t \in Nat : \E u \in t + 1 .. t + 1 + Horizon : CronMatches(u)

LEMMA DailyMatchesOften ==
  ASSUME NEW hour \in 0 .. HoursPerDay - 1, HoursPerDay <= Horizon + 1,
         Cron = [hour |-> {hour}, day |-> Star, weekday |-> Star]
  PROVE  MatchesOften
<1> SUFFICES ASSUME NEW t \in Nat PROVE \E u \in t + 1 .. t + 1 + Horizon : CronMatches(u)
  BY DEF MatchesOften
<1>1. HoursPerDay \in Nat \ {0} /\ Horizon \in Nat
  BY RefineryAssumption, SchedulerAssumption
<1>2. PICK u \in t + 1 .. t + 1 + Horizon : u % HoursPerDay = hour
  <2> DEFINE q == (t + 1) \div HoursPerDay
             r == (t + 1) % HoursPerDay
  <2>1. q \in Nat /\ r \in 0 .. HoursPerDay - 1 /\ t + 1 = HoursPerDay * q + r
    BY <1>1
  <2>2. ASSUME NEW n \in Nat PROVE (HoursPerDay * n + hour) % HoursPerDay = hour
    BY <1>1
  <2>3. HoursPerDay * (q + 1) = HoursPerDay * q + HoursPerDay
    BY <1>1, <2>1
  <2> HIDE DEF q, r
  <2>4. PICK m \in Int : m = HoursPerDay * q
    BY <1>1, <2>1
  <2>5. (m + hour) % HoursPerDay = hour /\ (m + HoursPerDay + hour) % HoursPerDay = hour
    BY <2>1, <2>2, <2>3, <2>4
  <2>6. t + 1 = m + r
    BY <2>1, <2>4
  <2>7. CASE r <= hour
    BY <1>1, <2>1, <2>5, <2>6, <2>7
  <2>8. CASE r > hour
    BY <1>1, <2>1, <2>5, <2>6, <2>8
  <2> QED  BY <2>1, <2>7, <2>8
<1>3. CronMatches(u)
  BY <1>2 DEF CronMatches, Fields, FieldOf, Star
<1> QED  BY <1>3

LEMMA NextIsATime ==
  ASSUME MatchesOften, now \in Nat PROVE NextCronFireTime(now) # Never
<1> DEFINE times == {t \in now + 1 .. now + 1 + Horizon : CronMatches(t)}
<1>1. times \subseteq Nat /\ times # {}
  <2>1. Horizon \in Nat
    BY SchedulerAssumption
  <2>2. \E u \in now + 1 .. now + 1 + Horizon : CronMatches(u)
    BY DEF MatchesOften
  <2> QED  BY <2>1, <2>2
<1>2. PICK t \in times : \A u \in times : t <= u
  <2>1. PICK t \in times : \A u \in times : ~(<<u, t>> \in OpToRel(<, Nat))
    BY <1>1, NatLessThanWellFounded, WFMin
  <2>2. \A u, v \in Nat : u < v => <<u, v>> \in OpToRel(<, Nat)
    BY DEF OpToRel
  <2> HIDE DEF times
  <2>3. ASSUME NEW u \in times PROVE t <= u
    <3>1. t \in Nat /\ u \in Nat /\ ~(u < t)
      BY <1>1, <2>1, <2>2
    <3> QED  BY <3>1
  <2> QED  BY <2>3
<1>3. Min(times) \in times
  BY <1>2 DEF Min
<1> QED  BY <1>1, <1>3, SchedulerAssumption DEF NextCronFireTime

(* The process that runs the scheduler's review, if any, is the same.      *)
LEMMA ReviewStays ==
  ASSUME CronIsArmed, up' = up, armed' = armed \/ armed' # Never,
         \A p \in OwnedBy("scheduler") : proc[p].job = Review =>
            \/ proc'[p].job = Review /\ tick'[p].owner = "scheduler"
            \/ armed' # Never
  PROVE  CronIsArmed'
BY DEF CronIsArmed, OwnedBy

LEMMA StepKeepsTimer ==
  ASSUME MatchesOften, RefineryInv, TickInv, CronIsArmed, NEW p \in Procs, Step(p)
  PROVE  CronIsArmed'
<1>1. now \in Nat /\ tick = [q \in Procs |-> tick[q]] /\ TickOK(p)
  BY DEF RefineryInv, FilesOK, TickInv
<1>2. armed' = Rearmed(p) /\ up' = up /\ Review \in Watched
  BY DEF Step, Watched
<1>3. \/ armed' = armed
      \/ armed' # Never
  BY <1>1, <1>2, NextIsATime DEF Rearmed
<1>4. \A q \in Procs \ {p} : proc'[q] = proc[q] /\ tick'[q] = tick[q]
  <2>1. CASE RefineryStep(p) /\ UNCHANGED watcherVars
    BY <2>1, RefineryStepMoves DEF Moves, watcherVars
  <2>2. CASE WatcherStep(p)
    <3>1. \A q \in Procs \ {p} : proc'[q] = proc[q]
      BY <2>2, WatcherStepKeeps DEF Ticks
    <3>2. \A q \in Procs \ {p} : tick'[q] = tick[q]
      BY <1>1, <2>2 DEF WatcherStep, WatcherThrows, ReviewActivity, ReviewOutput, Inventory,
                        DiffWithPrior, RadarTick, IdleKillerTick, AppendAlert, AppendResult, Decide
    <3> QED  BY <3>1, <3>2
  <2> QED  BY <2>1, <2>2 DEF Step
<1>5. ASSUME proc[p].job = Review, tick[p].owner = "scheduler", up
      PROVE  \/ proc'[p].job = Review /\ tick'[p].owner = "scheduler"
             \/ armed' # Never
  <2>1. CASE proc'[p] = Idle
    BY <1>1, <1>2, <1>5, <2>1, NextIsATime DEF Rearmed
  <2>2. CASE proc'[p] # Idle
    <3>1. CASE RefineryStep(p) /\ UNCHANGED watcherVars
      BY <1>2, <1>5, <2>2, <3>1, RefineryStepMoves DEF Moves, watcherVars
    <3>2. CASE WatcherStep(p)
      <4>1. proc'[p].job = Review
        BY <1>5, <2>2, <3>2, WatcherStepKeeps DEF Ticks
      <4>2. tick'[p].owner = tick[p].owner
        <5>1. CASE WatcherThrows(p) \/ AppendResult(p)
          <6>1. proc = [q \in Procs |-> proc[q]]
            BY DEF RefineryInv
          <6> QED  BY <2>2, <5>1, <6>1 DEF WatcherThrows, AppendResult, Done
        <5>2. CASE ReviewActivity(p) \/ Inventory(p) \/ AppendAlert(p)
          BY <1>1, <5>2 DEF ReviewActivity, Inventory, AppendAlert, Decide, TickOK, IsTick
        <5>3. CASE ReviewOutput(p) \/ DiffWithPrior(p) \/ RadarTick(p) \/ IdleKillerTick(p)
          <6>1. PICK decision, alerts : Decide(p, decision, alerts)
            BY <5>3 DEF ReviewOutput, DiffWithPrior, RadarTick, IdleKillerTick
          <6> QED  BY <1>1, <6>1 DEF Decide, TickOK, IsTick
        <5> QED  BY <3>2, <5>1, <5>2, <5>3 DEF WatcherStep
      <4> QED  BY <1>5, <4>1, <4>2
    <3> QED  BY <3>1, <3>2 DEF Step
  <2> QED  BY <2>1, <2>2
<1> QED  BY <1>2, <1>3, <1>4, <1>5, ReviewStays DEF OwnedBy, CronIsArmed

LEMMA StartKeepsTimer ==
  ASSUME MatchesOften, RefineryInv, TickInv, CronIsArmed, NEW p \in Procs, Start(p)
  PROVE  CronIsArmed'
<1>1. now \in Nat /\ TickOK(p) /\ ProcOK(p) /\ Review \in Watched /\ Review # "none"
  BY DEF RefineryInv, FilesOK, TickInv, Watched, Review
<1>2. ASSUME UNCHANGED nightVars, up' = up, armed' = armed \/ armed' # Never PROVE CronIsArmed'
  BY <1>2, ReviewStays DEF nightVars, refineryVars, watcherVars, OwnedBy
<1>3. ASSUME NEW watcher \in Watched, NEW owner, NEW dryRun, RunWatcher(p, watcher, owner, dryRun),
             up' = up, armed' = armed
      PROVE  CronIsArmed'
  <2>1. /\ proc[p].pc = "idle"
        /\ \A q \in Procs \ {p} : proc'[q] = proc[q] /\ tick'[q] = tick[q]
    BY <1>3, RunTicks
  <2>2. proc[p].job # Review
    BY <1>1, <2>1 DEF ProcOK, Where, Idle
  <2> QED  BY <1>3, <2>1, <2>2, ReviewStays DEF OwnedBy
<1>4. CASE FireCron(p)
  <2>1. CASE Review \in killed
    BY <1>1, <1>2, <1>4, <2>1, NextIsATime DEF FireCron
  <2>2. CASE Review \notin killed
    <3>1. proc'[p].job = Review /\ tick'[p].owner = "scheduler"
      BY <1>1, <1>4, <2>2, RunTicks DEF FireCron
    <3> QED  BY <3>1 DEF CronIsArmed, OwnedBy
  <2> QED  BY <2>1, <2>2
<1>5. ASSUME NEW w \in DOMAIN Interval, FireInterval(p, w) PROVE CronIsArmed'
  BY <1>2, <1>3, <1>5, SchedulerAssumption DEF FireInterval
<1>6. CASE LaunchReview(p)
  BY <1>1, <1>3, <1>6 DEF LaunchReview, timers
<1>7. ASSUME NEW w \in Watched, NEW dryRun \in BOOLEAN, ShellWatcher(p, w, dryRun) PROVE CronIsArmed'
  BY <1>3, <1>7 DEF ShellWatcher, timers
<1>8. ASSUME NEW job, NEW pc, NEW rule, ShellRefinery(p, job, pc, rule) PROVE CronIsArmed'
  <2>1. proc[p].pc = "idle" /\ UNCHANGED <<up, armed, tick>>
    BY <1>8 DEF ShellRefinery, Begin, timers
  <2>2. proc[p].job # Review
    BY <1>1, <2>1 DEF ProcOK, Where, Idle
  <2>3. \A q \in Procs \ {p} : proc'[q] = proc[q]
    BY <1>8 DEF ShellRefinery, Begin, RefineryInv
  <2> QED  BY <2>1, <2>2, <2>3, ReviewStays DEF OwnedBy
<1> QED  BY <1>4, <1>5, <1>6, <1>7, <1>8 DEF Start, RefineryPropose, RefineryPromote, RefineryRevoke,
            RefineryAutoPromote, RefineryEvalExport

(* With an expression that matches often enough, the scheduler always has  *)
(* the next review ahead of it or running, whatever fails, is skipped or   *)
(* is stopped.                                                             *)
THEOREM CronStaysArmed ==
  ASSUME MatchesOften PROVE Spec => []CronIsArmed
<1>1. Init => CronIsArmed
  BY DEF Init, CronIsArmed
<1>2. RefineryInv /\ TickInv /\ CronIsArmed /\ [Next]_vars => CronIsArmed'
  <2> SUFFICES ASSUME RefineryInv, TickInv, CronIsArmed, [Next]_vars PROVE CronIsArmed'
    OBVIOUS
  <2>1. now \in Nat /\ proc = [q \in Procs |-> proc[q]] /\ tick = [q \in Procs |-> tick[q]]
    BY DEF RefineryInv, FilesOK, TickInv
  <2>2. ASSUME NEW p \in Procs, Step(p) PROVE CronIsArmed'
    BY <2>2, StepKeepsTimer
  <2>3. ASSUME NEW p \in Procs, Start(p) PROVE CronIsArmed'
    BY <2>3, StartKeepsTimer
  <2>4. ASSUME NEW p \in Procs, Die(p) PROVE CronIsArmed'
    <3>1. /\ UNCHANGED <<up, armed>> /\ tick[p].owner # "scheduler"
          /\ \A q \in Procs \ {p} : proc'[q] = proc[q] /\ tick'[q] = tick[q]
      BY <2>1, <2>4 DEF Die, Done, timers
    <3> QED  BY <3>1, ReviewStays DEF OwnedBy
  <2>5. CASE StartScheduler
    BY <2>1, <2>5, NextIsATime DEF StartScheduler, CronIsArmed
  <2>6. CASE StopScheduler
    BY <2>6 DEF StopScheduler, CronIsArmed
  <2>7. CASE World \/ UNCHANGED vars
    <3>1. UNCHANGED <<up, armed, proc, tick>>
      BY <2>7 DEF World, Fail, Archive, Release, Strike, ToggleKillSwitch, ReportChanges, timers,
                  vars, nightVars, refineryVars, watcherVars
    <3> QED  BY <3>1, ReviewStays DEF OwnedBy
  <2> QED  BY <2>2, <2>3, <2>4, <2>5, <2>6, <2>7 DEF Next
<1> QED  BY <1>1, <1>2, TickInvariant, PTL DEF Spec

===============================================================================
