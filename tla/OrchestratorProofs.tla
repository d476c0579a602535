-------------------------- MODULE OrchestratorProofs --------------------------
(***************************************************************************)
(* What an orchestration leaves behind, for any number of builders,        *)
(* reviewers, runs, crashes, retries and rubrics.                          *)
(*                                                                         *)
(* The properties speak of the end of a run.  The invariant follows each   *)
(* builder to it: where it stands (Underway), what its worktree holds      *)
(* (Branch), and, once it returned, that its worktree is as the candidate  *)
(* says for as long as the cleanup has to spare it (Returned).  The stages *)
(* of the run say how much of review, verdict and artifacts is there.      *)
(***************************************************************************)
EXTENDS Orchestrator, FiniteSetTheorems, TLAPS

Unstarted == {"idle", "context", "thrown"}
Ending == {"cleaning", "reporting", "persisting", "returned"}

(* Where a builder that has not returned stands.                           *)
Underway(b) ==
  /\ pc[b] = "start" => b \notin onDisk
  /\ pc[b] \notin {"start", "done"} => b \in onDisk
  /\ pc[b] # "done" => cand[b].phase = "none"

(* A branch holds a commit from the commit to the rollback.                *)
Branch(b) ==
  /\ pc[b] \in {"start", "recording", "asking", "applied"} => head[b] = {}
  /\ pc[b] \in {"committed", "collected"} => head[b] # {}
  /\ pc[b] = "collected" => record[b] = [status |-> "collected", patch |-> head[b]]

(* The cleanup has not touched, or will not touch, the worktree of b.      *)
Spared(b) == stage \notin Ending \/ b \in toClean \/ b = verdict.selected

Returned(b) ==
  pc[b] = "done" =>
    /\ cand[b].phase # "none"
    /\ b \in onDisk => /\ cand[b].phase # "spawn_failed"
                       /\ (head[b] # {}) <=> cand[b].phase \in {"collected", "committed"}
                       /\ IsCollected(b) => cand[b].patch = head[b] /\ record[b].patch = head[b]
    /\ IsCollected(b) /\ Spared(b) => b \in onDisk /\ record[b].status = "collected"

BuilderInv == \A b \in Builders : Underway(b) /\ Branch(b) /\ Returned(b)

StageInv ==
  /\ stage \in Unstarted => \A b \in Builders : pc[b] = "start"
  /\ stage \notin Unstarted \cup {"building"} => SwarmReturns
  /\ stage = "idle" <=> run = 0

ReviewInv ==
  /\ reviewed \subseteq {b \in Builders : IsCollected(b)}
  /\ \A b \in reviewed : review[b].patch = cand[b].patch
  /\ stage = "building" => reviewed = {}
  /\ stage \in Ending \cup {"deciding"} => \A b \in Builders : IsCollected(b) => b \in reviewed

VerdictInv ==
  /\ stage \notin Ending => verdict = NoVerdict
  /\ verdict.decision = "accept" =>
       LET b == verdict.selected IN
       /\ b \in Builders /\ IsCollected(b)
       /\ ReviewCoverageOk(review[b]) /\ Unblocked(review[b])
       /\ verdict.ver \notin Recoverable

CleanInv ==
  /\ (Cleanup /\ stage \in Ending) =>
        \A b \in onDisk : b \in toClean \/ b = verdict.selected \/ record[b].status = "failed"
  /\ stage \in {"reporting", "persisting", "returned"} => toClean = {}

(* The files of this run are written in the order of its stages.           *)
FilesInv ==
  /\ \A f \in Files : artifact[f] <= run
  /\ stage \in Ending \cup {"reviewing", "deciding"} => artifact["builder-swarm-packet"] = run
  /\ stage \in Ending => artifact["arbiter-decision"] = run
  /\ stage \in {"persisting", "returned"} => artifact["final-report"] = run
  /\ artifact["orchestration-packet"] = run => stage \in {"idle", "returned"}
  /\ \A f \in Files : artifact[f] >= artifact["orchestration-packet"]

RunInv ==
  /\ RunTypeOK
  /\ BuilderInv /\ StageInv /\ ReviewInv /\ VerdictInv /\ CleanInv /\ FilesInv

LEMMA InitEstablishes ==
  ASSUME RunInit PROVE RunInv
<1> USE RunAssumption, SwarmAssumption DEF RunInit, SwarmInit, TreesInit
<1>1. RunTypeOK
  <2>1. Cardinality(Reviewers) \in Nat
    BY ArbiterAssumption, FS_CardinalityType
  <2>2. TreesTypeOK
    BY DEF TreesTypeOK, NoRecord, Records, RunStatus
  <2>3. SwarmTypeOK
    BY <2>2 DEF SwarmTypeOK, Stops, Fresh, Phases
  <2>4. NoReview \in [valid : 0..Cardinality(Reviewers), found : SUBSET FindingKinds,
                      patch : SUBSET Paths]
    BY <2>1 DEF NoReview
  <2>5. verdict \in [decision : {"none", "accept", "reject", "escalate_to_human"},
                     selected : Builders \cup {NoOne}, ver : Verified \cup {"none"}]
    BY DEF NoVerdict
  <2> QED  BY <2>1, <2>3, <2>4, <2>5 DEF RunTypeOK, Stages
<1>2. BuilderInv
  BY DEF BuilderInv, Underway, Branch, Returned
<1>3. StageInv /\ ReviewInv /\ VerdictInv /\ CleanInv
  BY DEF StageInv, ReviewInv, VerdictInv, CleanInv, Unstarted, Ending, NoVerdict
<1>4. FilesInv
  BY DEF FilesInv, Files, Ending
<1> QED  BY <1>1, <1>2, <1>3, <1>4 DEF RunInv

-----------------------------------------------------------------------------
(* A step of builder b concerns its own entries and nothing of the others. *)
Apart(b) ==
  \A c \in Builders \ {b} :
    /\ pc'[c] = pc[c] /\ cand'[c] = cand[c]
    /\ head'[c] = head[c] /\ record'[c] = record[c]
    /\ c \in onDisk' <=> c \in onDisk

Own(b) == SwarmTypeOK /\ Underway(b) /\ Branch(b) /\ Returned(b)

Counters == [first : BOOLEAN, applies : 0..MaxApplyRetries,
             reads : 0..MaxReadFiles, verifies : 0..MaxVerifyRetries]

(* A retry or a read is counted only below its limit.                      *)
LEMMA CountersCount ==
  ASSUME NEW t \in Counters
  PROVE  /\ ~(t.applies + 1 > MaxApplyRetries) =>
              [t EXCEPT !.applies = @ + 1, !.first = FALSE] \in Counters
         /\ t.reads < MaxReadFiles => [t EXCEPT !.reads = @ + 1, !.first = FALSE] \in Counters
         /\ t.verifies < MaxVerifyRetries =>
              [Fresh EXCEPT !.verifies = t.verifies + 1] \in Counters
         /\ Fresh \in Counters
<1>1. MaxApplyRetries \in Nat /\ MaxReadFiles \in Nat /\ MaxVerifyRetries \in Nat
  BY SwarmAssumption
<1>2. t.applies \in 0..MaxApplyRetries /\ t.reads \in 0..MaxReadFiles
      /\ t.verifies \in 0..MaxVerifyRetries /\ t.first \in BOOLEAN
  BY DEF Counters
<1>3. ~(t.applies + 1 > MaxApplyRetries) => t.applies + 1 \in 0..MaxApplyRetries
  BY <1>1, <1>2
<1>4. t.reads < MaxReadFiles => t.reads + 1 \in 0..MaxReadFiles
  BY <1>1, <1>2
<1>5. t.verifies < MaxVerifyRetries => t.verifies + 1 \in 0..MaxVerifyRetries
  BY <1>1, <1>2
<1>6. 0 \in 0..MaxApplyRetries /\ 0 \in 0..MaxReadFiles /\ 0 \in 0..MaxVerifyRetries
  BY <1>1
<1> QED  BY <1>2, <1>3, <1>4, <1>5, <1>6 DEF Counters, Fresh

(* The two ways a builder moves, apart from what happens to its worktree.  *)
LEMMA ReturnIsTyped ==
  ASSUME RunInv, NEW b \in Builders, NEW phase \in Phases \ {"none"}, NEW patch \in SUBSET Paths,
         Return(b, phase, patch), TreesTypeOK'
  PROVE  /\ SwarmTypeOK'
         /\ pc'[b] = "done" /\ cand'[b] = [phase |-> phase, patch |-> patch]
         /\ \A c \in Builders \ {b} : pc'[c] = pc[c] /\ cand'[c] = cand[c]
<1>1. Fresh \in Counters
  BY SwarmAssumption DEF Fresh, Counters
<1> QED  BY <1>1 DEF RunInv, RunTypeOK, SwarmTypeOK, Return, Stops, Counters

LEMMA GotoIsTyped ==
  ASSUME RunInv, NEW b \in Builders, NEW stop \in Stops,
         NEW counters \in Counters,
         Goto(b, stop, counters), TreesTypeOK'
  PROVE  /\ SwarmTypeOK'
         /\ pc'[b] = stop /\ cand' = cand
         /\ \A c \in Builders \ {b} : pc'[c] = pc[c]
  BY DEF RunInv, RunTypeOK, SwarmTypeOK, Goto, Counters

LEMMA BuilderFacts ==
  ASSUME RunInv, NEW b \in Builders
  PROVE  /\ TreesTypeOK /\ SwarmTypeOK
         /\ Underway(b) /\ Branch(b) /\ Returned(b)
         /\ tries[b] \in Counters
         /\ record[b] \in Records /\ head[b] \in SUBSET Paths /\ dirty[b] \in SUBSET Paths
  BY DEF RunInv, RunTypeOK, SwarmTypeOK, TreesTypeOK, BuilderInv, Counters

LEMMA SpawnOwn ==
  ASSUME RunInv, NEW b \in Builders, Spawn(b) PROVE Own(b)' /\ Apart(b)
<1> USE BuilderFacts DEF Own, Apart, Underway, Branch, Returned, IsCollected
<1>1. CASE WorktreeAdd(b) /\ Goto(b, "recording", tries[b])
  <2>1. TreesTypeOK'
    BY <1>1 DEF WorktreeAdd, TreesTypeOK
  <2>2. head' = head /\ record' = record /\ onDisk' = onDisk \cup {b}
    BY <1>1 DEF WorktreeAdd
  <2> QED  BY <1>1, <2>1, <2>2, GotoIsTyped DEF Stops, Spawn
<1>2. CASE Return(b, "spawn_failed", {}) /\ UNCHANGED treeVars
  <2>1. TreesTypeOK'
    BY <1>2 DEF treeVars, TreesTypeOK
  <2>2. head' = head /\ record' = record /\ onDisk' = onDisk
    BY <1>2 DEF treeVars
  <2>3. "spawn_failed" \in Phases \ {"none"} /\ pc[b] = "start"
    BY DEF Phases, FailedPhases, Spawn
  <2>4. /\ SwarmTypeOK'
        /\ pc'[b] = "done" /\ cand'[b] = [phase |-> "spawn_failed", patch |-> {}]
        /\ \A c \in Builders \ {b} : pc'[c] = pc[c] /\ cand'[c] = cand[c]
    BY <1>2, <2>1, <2>3, ReturnIsTyped
  <2>5. b \notin onDisk /\ head[b] = {}
    BY <2>3, BuilderFacts DEF Underway, Branch
  <2> QED  BY <2>2, <2>3, <2>4, <2>5
<1> QED  BY <1>1, <1>2 DEF Spawn

LEMMA RecordSpawnOwn ==
  ASSUME RunInv, NEW b \in Builders, RecordSpawn(b) PROVE Own(b)' /\ Apart(b)
<1> USE BuilderFacts DEF Own, Apart, Underway, Branch, Returned, IsCollected
<1>1. TreesTypeOK'
  BY DEF RecordSpawn, PersistSpawned, TreesTypeOK, Records, RunStatus
<1>2. /\ head' = head /\ onDisk' = onDisk
      /\ \A c \in Builders \ {b} : record'[c] = record[c]
  BY DEF RecordSpawn, PersistSpawned, TreesTypeOK
<1> QED  BY <1>1, <1>2, GotoIsTyped DEF Stops, RecordSpawn

(* A builder that gives up, before its commit, with its tree as it was.    *)
LEMMA GivesUp ==
  ASSUME RunInv, NEW b \in Builders, pc[b] \in {"asking", "applied"},
         NEW phase \in FailedPhases \ {"spawn_failed", "committed"},
         Return(b, phase, {}), TreesTypeOK',
         onDisk' = onDisk, head' = head, record' = record
  PROVE  Own(b)' /\ Apart(b)
<1>1. phase \in Phases \ {"none"} /\ phase \notin {"spawn_failed", "committed", "collected"}
  BY DEF FailedPhases, Phases
<1>2. SwarmTypeOK' /\ pc'[b] = "done" /\ cand'[b] = [phase |-> phase, patch |-> {}]
  BY <1>1, ReturnIsTyped
<1>3. Apart(b)
  BY <1>1, ReturnIsTyped DEF Apart
<1>4. b \in onDisk /\ head[b] = {}
  BY BuilderFacts DEF Underway, Branch
<1> QED  BY <1>1, <1>2, <1>3, <1>4 DEF Own, Underway, Branch, Returned, IsCollected

(* A builder that asks again, or goes on to commit.                        *)
LEMMA GoesOn ==
  ASSUME RunInv, NEW b \in Builders, pc[b] = "asking", NEW stop \in {"asking", "applied"},
         NEW counters \in Counters,
         Goto(b, stop, counters), TreesTypeOK',
         onDisk' = onDisk, head' = head, record' = record
  PROVE  Own(b)' /\ Apart(b)
<1>1. stop \in Stops
  BY DEF Stops
<1>2. SwarmTypeOK' /\ pc'[b] = stop /\ cand' = cand
  BY <1>1, GotoIsTyped
<1>3. Apart(b)
  BY <1>1, GotoIsTyped DEF Apart
<1> QED  BY <1>2, <1>3, BuilderFacts DEF Own, Underway, Branch, Returned, IsCollected

LEMMA WriteIsTyped ==
  ASSUME TreesTypeOK, NEW b \in Builders, NEW files \in SUBSET Paths, Write(b, files)
  PROVE  TreesTypeOK' /\ onDisk' = onDisk /\ head' = head /\ record' = record
  BY DEF TreesTypeOK, Write

LEMMA AnswerOwn ==
  ASSUME RunInv, NEW b \in Builders, Answer(b) PROVE Own(b)' /\ Apart(b)
<1>a. pc[b] = "asking"
  BY DEF Answer, Answered, BrokerFails, BlocksFail, ReadsFile, SaysNothing, ScopeRejects,
         BlocksApply, DiffApplies
<1>b. UNCHANGED treeVars => TreesTypeOK' /\ onDisk' = onDisk /\ head' = head /\ record' = record
  BY BuilderFacts DEF treeVars, TreesTypeOK
<1> DEFINE Gives(phase) == Return(b, phase, {})
<1> USE <1>a, <1>b
<1>1. CASE BrokerFails(b)
  BY <1>1, GivesUp DEF BrokerFails, FailedPhases
<1>2. CASE BlocksFail(b)
  <2>1. CASE tries[b].applies + 1 > MaxApplyRetries
    BY <1>2, <2>1, GivesUp DEF BlocksFail, FailedPhases
  <2>2. CASE ~(tries[b].applies + 1 > MaxApplyRetries)
    <3>1. [tries[b] EXCEPT !.applies = @ + 1, !.first = FALSE] \in Counters
      BY <2>2, BuilderFacts, CountersCount
    <3> QED  BY <1>2, <2>2, <3>1, GoesOn DEF BlocksFail
  <2> QED  BY <2>1, <2>2
<1>3. CASE ReadsFile(b)
  <2>1. [tries[b] EXCEPT !.reads = @ + 1, !.first = FALSE] \in Counters
    BY <1>3, BuilderFacts, CountersCount DEF ReadsFile
  <2> QED  BY <1>3, <2>1, GoesOn DEF ReadsFile
<1>4. CASE SaysNothing(b)
  BY <1>4, GivesUp DEF SaysNothing, FailedPhases
<1>5. ASSUME NEW files \in SUBSET Paths \ {{}}, ScopeRejects(b, files)
      PROVE  Own(b)' /\ Apart(b)
  BY <1>5, GivesUp DEF ScopeRejects, FailedPhases
<1>6. ASSUME NEW files \in SUBSET Paths \ {{}}, NEW changed \in SUBSET files,
             BlocksApply(b, files, changed)
      PROVE  Own(b)' /\ Apart(b)
  <2>1. TreesTypeOK' /\ onDisk' = onDisk /\ head' = head /\ record' = record
    BY <1>6, WriteIsTyped, BuilderFacts DEF BlocksApply
  <2>2. CASE Return(b, "apply_failed", {})
    BY <2>1, <2>2, GivesUp DEF FailedPhases
  <2>3. CASE Return(b, "no_diff_extracted", {})
    BY <2>1, <2>3, GivesUp DEF FailedPhases
  <2>4. CASE Goto(b, "applied", tries[b])
    BY <2>1, <2>4, GoesOn, BuilderFacts
  <2> QED  BY <1>6, <2>2, <2>3, <2>4 DEF BlocksApply
<1>7. ASSUME NEW files \in SUBSET Paths \ {{}}, NEW changed \in SUBSET files,
             DiffApplies(b, files, changed)
      PROVE  Own(b)' /\ Apart(b)
  <2>1. CASE Write(b, changed) /\ Goto(b, "applied", tries[b])
    BY <2>1, WriteIsTyped, GoesOn, BuilderFacts
  <2>2. CASE Return(b, "apply_failed", {}) /\ UNCHANGED treeVars
    BY <2>2, GivesUp DEF FailedPhases
  <2> QED  BY <1>7, <2>1, <2>2 DEF DiffApplies
<1> QED  BY <1>1, <1>2, <1>3, <1>4, <1>5, <1>6, <1>7 DEF Answer

LEMMA CommitOwn ==
  ASSUME RunInv, NEW b \in Builders, Commit(b) PROVE Own(b)' /\ Apart(b)
<1>1. CASE CommitAll(b) /\ Goto(b, "committed", tries[b])
  <2>1. TreesTypeOK' /\ onDisk' = onDisk /\ record' = record /\ head'[b] # {}
    BY <1>1, BuilderFacts DEF CommitAll, TreesTypeOK
  <2>2. \A c \in Builders \ {b} : head'[c] = head[c]
    BY <1>1, BuilderFacts DEF CommitAll, TreesTypeOK
  <2>3. /\ SwarmTypeOK' /\ pc'[b] = "committed" /\ cand' = cand
        /\ \A c \in Builders \ {b} : pc'[c] = pc[c]
    BY <1>1, <2>1, GotoIsTyped, BuilderFacts DEF Stops
  <2> QED  BY <2>1, <2>2, <2>3, BuilderFacts
           DEF Own, Apart, Underway, Branch, Returned, IsCollected, Commit
<1>2. CASE Return(b, "applied", {}) /\ UNCHANGED treeVars
  BY <1>2, GivesUp, BuilderFacts DEF Commit, FailedPhases, treeVars, TreesTypeOK
<1> QED  BY <1>1, <1>2 DEF Commit

LEMMA CollectOwn ==
  ASSUME RunInv, NEW b \in Builders, Collect(b) PROVE Own(b)' /\ Apart(b)
<1>a. pc[b] = "committed" /\ b \in onDisk /\ head[b] # {} /\ cand[b].phase = "none"
  BY BuilderFacts DEF Collect, Underway, Branch
<1>1. CASE CollectRun(b) /\ Goto(b, "collected", tries[b])
  <2>1. TreesTypeOK' /\ onDisk' = onDisk /\ head' = head
    BY <1>1, BuilderFacts DEF CollectRun, TreesTypeOK, Records, RunStatus
  <2>2. /\ record'[b] = [status |-> "collected", patch |-> head[b]]
        /\ \A c \in Builders \ {b} : record'[c] = record[c]
    BY <1>1, BuilderFacts DEF CollectRun, TreesTypeOK
  <2>3. /\ SwarmTypeOK' /\ pc'[b] = "collected" /\ cand' = cand
        /\ \A c \in Builders \ {b} : pc'[c] = pc[c]
    BY <1>1, <2>1, GotoIsTyped, BuilderFacts DEF Stops
  <2> QED  BY <1>a, <2>1, <2>2, <2>3
           DEF Own, Apart, Underway, Branch, Returned, IsCollected
<1>2. CASE CollectFails(b) /\ Return(b, "committed", {})
  <2>1. TreesTypeOK' /\ onDisk' = onDisk /\ head' = head
    BY <1>2, BuilderFacts DEF CollectFails, TreesTypeOK, Records, RunStatus
  <2>2. \A c \in Builders \ {b} : record'[c] = record[c]
    BY <1>2, BuilderFacts DEF CollectFails, TreesTypeOK
  <2>3. /\ SwarmTypeOK' /\ pc'[b] = "done" /\ cand'[b] = [phase |-> "committed", patch |-> {}]
        /\ \A c \in Builders \ {b} : pc'[c] = pc[c] /\ cand'[c] = cand[c]
    BY <1>2, <2>1, ReturnIsTyped DEF Phases, FailedPhases
  <2> QED  BY <1>a, <2>1, <2>2, <2>3
           DEF Own, Apart, Underway, Branch, Returned, IsCollected
<1> QED  BY <1>1, <1>2 DEF Collect

(* A candidate returned with its branch and its record in agreement.       *)
LEMMA ReturnsCollected ==
  ASSUME RunInv, NEW b \in Builders, pc[b] = "collected",
         Return(b, "collected", record[b].patch), TreesTypeOK',
         onDisk' = onDisk, head' = head, record' = record
  PROVE  Own(b)' /\ Apart(b)
<1>1. /\ b \in onDisk /\ head[b] # {}
      /\ record[b] = [status |-> "collected", patch |-> head[b]] /\ head[b] \in SUBSET Paths
  BY BuilderFacts DEF Underway, Branch
<1>2. /\ SwarmTypeOK' /\ pc'[b] = "done" /\ cand'[b] = [phase |-> "collected", patch |-> head[b]]
      /\ \A c \in Builders \ {b} : pc'[c] = pc[c] /\ cand'[c] = cand[c]
  BY <1>1, ReturnIsTyped DEF Phases, FailedPhases
<1> QED  BY <1>1, <1>2 DEF Own, Apart, Underway, Branch, Returned, IsCollected

LEMMA VerifyOwn ==
  ASSUME RunInv, NEW b \in Builders, NEW phase \in VerifierPhases, NEW left \in SUBSET Leavings,
         SelfVerify(b, phase, left)
  PROVE  Own(b)' /\ Apart(b)
<1>a. left \in SUBSET Paths
  BY SwarmAssumption
<1>1. CASE /\ tries[b].verifies < MaxVerifyRetries
           /\ ResetHard(b, left)
           /\ Goto(b, "asking", [Fresh EXCEPT !.verifies = tries[b].verifies + 1])
  <2>1. TreesTypeOK' /\ onDisk' = onDisk /\ record' = record /\ head'[b] = {}
    BY <1>1, <1>a, BuilderFacts DEF ResetHard, TreesTypeOK
  <2>2. \A c \in Builders \ {b} : head'[c] = head[c]
    BY <1>1, BuilderFacts DEF ResetHard, TreesTypeOK
  <2>3. [Fresh EXCEPT !.verifies = tries[b].verifies + 1] \in Counters
    BY <1>1, BuilderFacts, CountersCount
  <2>4. /\ SwarmTypeOK' /\ pc'[b] = "asking" /\ cand' = cand
        /\ \A c \in Builders \ {b} : pc'[c] = pc[c]
    BY <1>1, <2>1, <2>3, GotoIsTyped DEF Stops
  <2> QED  BY <2>1, <2>2, <2>4, BuilderFacts
           DEF Own, Apart, Underway, Branch, Returned, IsCollected, SelfVerify
<1>2. CASE Return(b, "collected", record[b].patch) /\ Write(b, left)
  BY <1>2, <1>a, ReturnsCollected, WriteIsTyped, BuilderFacts DEF SelfVerify
<1> QED  BY <1>1, <1>2 DEF SelfVerify

LEMMA SkipVerifyOwn ==
  ASSUME RunInv, NEW b \in Builders, SkipVerify(b) PROVE Own(b)' /\ Apart(b)
BY ReturnsCollected, BuilderFacts DEF SkipVerify, treeVars, TreesTypeOK

LEMMA BuilderStepOwn ==
  ASSUME RunInv, NEW b \in Builders, BuilderStep(b) PROVE Own(b)' /\ Apart(b)
BY SpawnOwn, RecordSpawnOwn, AnswerOwn, CommitOwn, CollectOwn, VerifyOwn, SkipVerifyOwn
   DEF BuilderStep

LEMMA BuildStep ==
  ASSUME RunInv, NEW b \in Builders, Build(b) PROVE RunInv'
<1>1. Own(b)' /\ Apart(b) /\ stage = "building" /\ UNCHANGED runVars
  BY BuilderStepOwn DEF Build
<1>2. RunTypeOK'
  BY <1>1 DEF RunInv, RunTypeOK, runVars, Own
<1>3. BuilderInv'
  <2> SUFFICES ASSUME NEW c \in Builders, c # b
               PROVE  (Underway(c) /\ Branch(c) /\ Returned(c))'
    BY <1>1 DEF BuilderInv, Own
  <2>1. /\ pc'[c] = pc[c] /\ cand'[c] = cand[c] /\ head'[c] = head[c] /\ record'[c] = record[c]
        /\ c \in onDisk' <=> c \in onDisk
    BY <1>1 DEF Apart
  <2> QED  BY <1>1, <2>1, BuilderFacts DEF runVars, Underway, Branch, Returned, IsCollected, Spared
<1>4. StageInv' /\ ReviewInv' /\ VerdictInv' /\ CleanInv'
  BY <1>1 DEF RunInv, StageInv, ReviewInv, VerdictInv, CleanInv, runVars, Unstarted, Ending, NoVerdict
<1>5. FilesInv'
  BY <1>1 DEF RunInv, FilesInv, runVars
<1> QED  BY <1>2, <1>3, <1>4, <1>5 DEF RunInv

-----------------------------------------------------------------------------
(* A run that begins, or dies, leaves a blank slate of what it remembers.  *)
LEMMA ForgetsAll ==
  ASSUME RunInv, Forget, stage' \in Unstarted, run' \in 0..MaxRuns, crashes' \in 0..MaxCrashes,
         run' > 0, stage' # "idle", artifact' = artifact
  PROVE  /\ RunTypeOK' /\ BuilderInv' /\ StageInv' /\ ReviewInv' /\ VerdictInv' /\ CleanInv'
<1> USE DEF Forget
<1>1. TreesTypeOK'
  BY DEF TreesTypeOK, NoRecord, Records, RunStatus
<1>2. SwarmTypeOK'
  <2>1. Fresh \in [first : BOOLEAN, applies : 0..MaxApplyRetries,
                   reads : 0..MaxReadFiles, verifies : 0..MaxVerifyRetries]
    BY SwarmAssumption DEF Fresh
  <2> QED  BY <1>1, <2>1 DEF SwarmTypeOK, Stops, Phases
<1>3. RunTypeOK'
  <2>1. Cardinality(Reviewers) \in Nat
    BY ArbiterAssumption, FS_CardinalityType
  <2>2. NoReview \in [valid : 0..Cardinality(Reviewers), found : SUBSET FindingKinds,
                      patch : SUBSET Paths]
    BY <2>1 DEF NoReview
  <2>3. NoVerdict \in [decision : {"none", "accept", "reject", "escalate_to_human"},
                       selected : Builders \cup {NoOne}, ver : Verified \cup {"none"}]
    BY DEF NoVerdict
  <2> QED  BY <1>2, <2>2, <2>3 DEF RunInv, RunTypeOK, Stages, Unstarted
<1>4. BuilderInv'
  BY DEF BuilderInv, Underway, Branch, Returned
<1>5. StageInv' /\ ReviewInv' /\ VerdictInv' /\ CleanInv'
  <2>1. run' # 0
    OBVIOUS
  <2> QED  BY <2>1 DEF StageInv, ReviewInv, VerdictInv, CleanInv, Unstarted, Ending, NoVerdict
<1> QED  BY <1>3, <1>4, <1>5

LEMMA RunFacts ==
  ASSUME RunInv
  PROVE  /\ run \in Nat /\ run \in 0..MaxRuns /\ MaxRuns \in Nat
         /\ \A f \in Files : artifact[f] \in Nat /\ artifact[f] <= run
         /\ artifact \in [Files -> 0..MaxRuns]
         /\ crashes \in 0..MaxCrashes /\ MaxCrashes \in Nat
  BY RunAssumption DEF RunInv, RunTypeOK, FilesInv

LEMMA BeginStep ==
  ASSUME RunInv, Begin PROVE RunInv'
<1>1. /\ run' = run + 1 /\ run' \in 0..MaxRuns /\ run' > 0
      /\ stage' = "context" /\ stage' \in Unstarted /\ crashes' = crashes /\ artifact' = artifact
  BY RunFacts DEF Begin, Unstarted
<1>2. RunTypeOK' /\ BuilderInv' /\ StageInv' /\ ReviewInv' /\ VerdictInv' /\ CleanInv'
  BY <1>1, ForgetsAll, RunFacts DEF Begin
<1>3. FilesInv'
  <2>1. \A f \in Files : artifact[f] <= run + 1 /\ artifact[f] # run + 1
    BY RunFacts
  <2> QED  BY <1>1, <2>1 DEF RunInv, FilesInv, Files, Ending
<1> QED  BY <1>2, <1>3 DEF RunInv

LEMMA CrashStep ==
  ASSUME RunInv, Crash PROVE RunInv'
<1>1. /\ run' = run /\ run' \in 0..MaxRuns /\ run' > 0
      /\ stage' = "thrown" /\ stage' \in Unstarted
      /\ crashes' \in 0..MaxCrashes /\ artifact' = artifact
  BY RunFacts DEF Crash, Unstarted, Running, RunInv, StageInv
<1>2. RunTypeOK' /\ BuilderInv' /\ StageInv' /\ ReviewInv' /\ VerdictInv' /\ CleanInv'
  BY <1>1, ForgetsAll DEF Crash
<1>3. artifact["orchestration-packet"] # run
  BY DEF Crash, Running, RunInv, FilesInv
<1>4. FilesInv'
  BY <1>1, <1>3 DEF RunInv, FilesInv, Ending
<1> QED  BY <1>2, <1>4 DEF RunInv

LEMMA ContextStep ==
  ASSUME RunInv, ContextPack PROVE RunInv'
<1>1. stage = "context" /\ stage' \in {"building", "thrown"}
  BY DEF ContextPack
<1>2. UNCHANGED <<buildVars, run, crashes, review, verdict, toClean, reviewed, artifact>>
  BY DEF ContextPack
<1> USE <1>1, <1>2 DEF buildVars
<1>3. RunTypeOK'
  BY DEF RunInv, RunTypeOK, SwarmTypeOK, TreesTypeOK, Stages
<1>4. BuilderInv'
  BY DEF RunInv, BuilderInv, Underway, Branch, Returned, IsCollected, Spared, Ending
<1>5. StageInv' /\ VerdictInv' /\ CleanInv'
  BY DEF RunInv, StageInv, VerdictInv, CleanInv, Unstarted, Ending, NoVerdict
<1>6. ReviewInv'
  BY DEF RunInv, StageInv, BuilderInv, Underway, ReviewInv, Unstarted, Ending, IsCollected
<1>7. FilesInv'
  BY DEF RunInv, FilesInv, Ending
<1> QED  BY <1>3, <1>4, <1>5, <1>6, <1>7 DEF RunInv

(* The steps that only advance the stage, and those that write a file.     *)
LEMMA PacketStep ==
  ASSUME RunInv, WriteBuilderPacket PROVE RunInv'
<1>1. stage = "building" /\ stage' = "reviewing" /\ SwarmReturns
      /\ artifact' = [artifact EXCEPT !["builder-swarm-packet"] = run]
  BY DEF WriteBuilderPacket, WriteFile
<1>2. UNCHANGED <<buildVars, run, crashes, review, verdict, toClean, reviewed>>
  BY DEF WriteBuilderPacket
<1> USE <1>1, <1>2 DEF buildVars
<1>3. RunTypeOK'
  BY RunFacts DEF RunInv, RunTypeOK, SwarmTypeOK, TreesTypeOK, Stages
<1>4. BuilderInv'
  BY DEF RunInv, BuilderInv, Underway, Branch, Returned, IsCollected, Spared, Ending
<1>5. StageInv' /\ VerdictInv' /\ CleanInv'
  BY DEF RunInv, StageInv, VerdictInv, CleanInv, Unstarted, Ending, NoVerdict, SwarmReturns
<1>6. ReviewInv'
  BY DEF RunInv, ReviewInv, Ending, IsCollected
<1>7. FilesInv'
  BY RunFacts DEF RunInv, FilesInv, Files, Ending
<1> QED  BY <1>3, <1>4, <1>5, <1>6, <1>7 DEF RunInv

LEMMA ReviewStep ==
  ASSUME RunInv, NEW b \in Builders, Review(b) PROVE RunInv'
<1>1. stage = "reviewing" /\ IsCollected(b) /\ reviewed' = reviewed \cup {b}
  BY DEF Review
<1>2. UNCHANGED <<buildVars, stage, run, crashes, verdict, toClean, artifact>>
  BY DEF Review
<1>3. PICK answer \in [Reviewers -> Answers], found \in SUBSET Noticed :
        review' = [review EXCEPT ![b] =
          [valid |-> Cardinality({r \in Reviewers : answer[r] = "valid"}), found |-> found,
           patch |-> cand[b].patch]]
  BY DEF Review
<1> USE <1>1, <1>2 DEF buildVars
<1>4. RunTypeOK'
  <2> DEFINE valid == {r \in Reviewers : answer[r] = "valid"}
  <2>1. Cardinality(valid) \in Nat /\ Cardinality(valid) <= Cardinality(Reviewers)
        /\ Cardinality(Reviewers) \in Nat
    BY ArbiterAssumption, FS_Subset, FS_CardinalityType
  <2>2. Cardinality(valid) \in 0..Cardinality(Reviewers)
    BY <2>1
  <2>3. found \in SUBSET FindingKinds
    BY RunAssumption
  <2>4. cand[b].patch \in SUBSET Paths
    BY DEF RunInv, RunTypeOK, SwarmTypeOK
  <2>5. review' \in [Builders -> [valid : 0..Cardinality(Reviewers), found : SUBSET FindingKinds,
                                  patch : SUBSET Paths]]
    <3> HIDE DEF valid
    <3> QED  BY <1>3, <2>2, <2>3, <2>4 DEF RunInv, RunTypeOK, valid
  <2> QED  BY <2>5 DEF RunInv, RunTypeOK, SwarmTypeOK, TreesTypeOK
<1>5. BuilderInv'
  BY DEF RunInv, BuilderInv, Underway, Branch, Returned, IsCollected, Spared
<1>6. StageInv' /\ CleanInv' /\ FilesInv'
  BY DEF RunInv, StageInv, CleanInv, FilesInv, SwarmReturns, Ending
<1>7. VerdictInv'
  BY DEF RunInv, VerdictInv, Ending, NoVerdict
<1>8. ReviewInv'
  BY <1>3 DEF RunInv, RunTypeOK, ReviewInv, IsCollected, Ending
<1> QED  BY <1>4, <1>5, <1>6, <1>7, <1>8 DEF RunInv

LEMMA EndReviewsStep ==
  ASSUME RunInv, EndReviews PROVE RunInv'
<1>1. stage = "reviewing" /\ stage' = "deciding"
      /\ \A b \in Builders : IsCollected(b) => b \in reviewed
  BY DEF EndReviews
<1>2. UNCHANGED <<buildVars, run, crashes, review, verdict, toClean, reviewed, artifact>>
  BY DEF EndReviews
<1> USE <1>1, <1>2 DEF buildVars
<1>3. RunTypeOK'
  BY DEF RunInv, RunTypeOK, SwarmTypeOK, TreesTypeOK, Stages
<1>4. BuilderInv'
  BY DEF RunInv, BuilderInv, Underway, Branch, Returned, IsCollected, Spared, Ending
<1>5. StageInv' /\ VerdictInv' /\ CleanInv' /\ FilesInv'
  BY DEF RunInv, StageInv, VerdictInv, CleanInv, FilesInv, Unstarted, Ending, NoVerdict, SwarmReturns
<1>6. ReviewInv'
  BY DEF RunInv, ReviewInv, Ending, IsCollected
<1> QED  BY <1>3, <1>4, <1>5, <1>6 DEF RunInv

-----------------------------------------------------------------------------
(* The arbiter answers one of three ways, and it accepts only a candidate  *)
(* that passed every gate (decide of arbiter/arbiter.ts).                  *)
LEMMA DecisionIsTyped ==
  ASSUME NEW collected, NEW missing \in BOOLEAN
  PROVE  Decision(collected, missing) \in {"accept", "reject", "escalate_to_human"}
<1> DEFINE eligible == {b \in DOMAIN collected : Eligible(collected[b])}
           uncertain == {b \in DOMAIN collected : Uncertain(collected[b])}
<1>1. CASE DOMAIN collected = {}
  BY <1>1 DEF Decision
<1>2. CASE DOMAIN collected # {} /\ missing
  BY <1>2 DEF Decision
<1>3. CASE DOMAIN collected # {} /\ ~missing /\ eligible = {}
  BY <1>3 DEF Decision
<1>4. CASE DOMAIN collected # {} /\ ~missing /\ eligible # {}
  BY <1>4 DEF Decision
<1> QED  BY <1>1, <1>2, <1>3, <1>4

LEMMA EligibleIsSound ==
  ASSUME NEW c, Eligible(c)
  PROVE  ReviewCoverageOk(c) /\ Unblocked(c) /\ c.ver \notin Recoverable
BY DEF Eligible, VerPassed, Recoverable

LEMMA DecideStep ==
  ASSUME RunInv, Decide PROVE RunInv'
<1>1. /\ stage = "deciding" /\ stage' = "cleaning"
      /\ artifact' = [artifact EXCEPT !["arbiter-decision"] = run]
      /\ toClean' = IF Cleanup THEN {b \in Builders : cand[b].phase # "spawn_failed"} ELSE {}
  BY DEF Decide, WriteFile
<1>2. UNCHANGED <<buildVars, run, crashes, review, reviewed>>
  BY DEF Decide
<1> DEFINE C == {b \in Builders : IsCollected(b)}
           seen(ver, anti) == [b \in C |-> [ver |-> ver[b], anti |-> b \in anti,
                                 valid |-> review[b].valid, found |-> review[b].found]]
<1>3. PICK ver \in [C -> VerifierPhases], anti \in SUBSET C, missing \in BOOLEAN :
        \/ /\ Decision(seen(ver, anti), missing) # "accept"
           /\ verdict' = [NoVerdict EXCEPT !.decision = Decision(seen(ver, anti), missing)]
        \/ /\ Decision(seen(ver, anti), missing) = "accept"
           /\ \E b \in Selected(seen(ver, anti)) :
                verdict' = [decision |-> Decision(seen(ver, anti), missing), selected |-> b,
                            ver |-> ver[b]]
  BY Zenon DEF Decide
<1>4. /\ verdict' \in [decision : {"none", "accept", "reject", "escalate_to_human"},
                       selected : Builders \cup {NoOne}, ver : Verified \cup {"none"}]
      /\ verdict'.decision = "accept" =>
           LET b == verdict'.selected IN
           /\ b \in Builders /\ IsCollected(b)
           /\ ReviewCoverageOk(review[b]) /\ Unblocked(review[b])
           /\ verdict'.ver \notin Recoverable
  <2>1. CASE /\ Decision(seen(ver, anti), missing) # "accept"
             /\ verdict' = [NoVerdict EXCEPT !.decision = Decision(seen(ver, anti), missing)]
    <3>1. Decision(seen(ver, anti), missing) \in {"accept", "reject", "escalate_to_human"}
      BY DecisionIsTyped
    <3> QED  BY <2>1, <3>1 DEF NoVerdict
  <2>2. ASSUME NEW b \in Selected(seen(ver, anti)),
               verdict' = [decision |-> "accept", selected |-> b, ver |-> ver[b]]
        PROVE  <1>4
    <3>1. b \in C /\ Eligible(seen(ver, anti)[b])
      BY DEF Selected
    <3>2. /\ ReviewCoverageOk(seen(ver, anti)[b]) /\ Unblocked(seen(ver, anti)[b])
          /\ seen(ver, anti)[b].ver \notin Recoverable
      BY <3>1, EligibleIsSound
    <3>3. /\ seen(ver, anti)[b].ver = ver[b] /\ seen(ver, anti)[b].valid = review[b].valid
          /\ seen(ver, anti)[b].found = review[b].found
      BY <3>1
    <3>4. ReviewCoverageOk(review[b]) /\ Unblocked(review[b]) /\ ver[b] \notin Recoverable
      BY <3>2, <3>3 DEF ReviewCoverageOk, Unblocked
    <3>5. ver[b] \in Verified
      BY <3>1, RunAssumption
    <3> QED  BY <2>2, <3>1, <3>4, <3>5
  <2> QED  BY <1>3, <2>1, <2>2
<1> HIDE DEF C, seen
<1> USE <1>1, <1>2 DEF buildVars
<1>5. RunTypeOK'
  BY <1>4, RunFacts DEF RunInv, RunTypeOK, SwarmTypeOK, TreesTypeOK, Stages
<1>6. BuilderInv'
  BY DEF RunInv, BuilderInv, Underway, Branch, Returned, IsCollected, Spared, Ending
<1>7. StageInv' /\ ReviewInv'
  BY DEF RunInv, StageInv, ReviewInv, Unstarted, Ending, SwarmReturns, IsCollected
<1>8. VerdictInv'
  BY <1>4 DEF VerdictInv, Ending, IsCollected
<1>9. CleanInv'
  <2>1. \A b \in onDisk : b \in Builders /\ cand[b].phase # "spawn_failed"
    BY DEF RunInv, RunTypeOK, SwarmTypeOK, TreesTypeOK, BuilderInv, Returned, StageInv,
           SwarmReturns, Unstarted
  <2> QED  BY <2>1 DEF CleanInv
<1>10. FilesInv'
  BY RunFacts DEF RunInv, FilesInv, Files, Ending
<1> QED  BY <1>5, <1>6, <1>7, <1>8, <1>9, <1>10 DEF RunInv

-----------------------------------------------------------------------------
LEMMA CleanStep ==
  ASSUME RunInv, NEW b \in Builders, CleanOne(b) PROVE RunInv'
<1>1. stage = "cleaning" /\ b \in toClean /\ toClean' = toClean \ {b}
  BY DEF CleanOne
<1>2. UNCHANGED <<swarmVars, stage, run, crashes, review, verdict, reviewed, artifact>>
  BY DEF CleanOne
<1> USE <1>1, <1>2 DEF swarmVars
<1>3. /\ TreesTypeOK'
      /\ \A c \in Builders \ {b} : /\ head'[c] = head[c] /\ record'[c] = record[c]
                                   /\ c \in onDisk' <=> c \in onDisk
      /\ b \in onDisk' => b \in onDisk /\ head'[b] = head[b] /\ record'[b].patch = record[b].patch
      /\ b # verdict.selected /\ b \in onDisk' => record'[b].status = "failed"
      /\ b = verdict.selected => UNCHANGED treeVars
  <2>1. TreesTypeOK /\ record[b] \in Records
    BY BuilderFacts
  <2>2. CASE b = verdict.selected
    BY <2>1, <2>2 DEF CleanOne, treeVars, TreesTypeOK
  <2>3. CASE b # verdict.selected /\ RemoveRun(b)
    BY <2>1, <2>3 DEF RemoveRun, TreesTypeOK, Records, RunStatus
  <2>4. CASE b # verdict.selected /\ RemoveFails(b)
    BY <2>1, <2>4 DEF RemoveFails, TreesTypeOK, Records, RunStatus
  <2> QED  BY <2>2, <2>3, <2>4 DEF CleanOne
<1>4. RunTypeOK'
  BY <1>3 DEF RunInv, RunTypeOK, SwarmTypeOK
<1>5. BuilderInv'
  <2> SUFFICES ASSUME NEW c \in Builders PROVE (Underway(c) /\ Branch(c) /\ Returned(c))'
    BY DEF BuilderInv
  <2>1. pc[c] = "done"
    BY DEF RunInv, StageInv, SwarmReturns, Unstarted
  <2>2. (Underway(c) /\ Branch(c))'
    BY <2>1 DEF Underway, Branch
  <2>3. Returned(c)
    BY DEF RunInv, BuilderInv
  <2>4. CASE c # b
    BY <1>3, <2>2, <2>3, <2>4 DEF Returned, IsCollected, Spared
  <2>5. CASE c = b /\ b = verdict.selected
    BY <1>3, <2>2, <2>3, <2>5 DEF Returned, IsCollected, Spared, treeVars
  <2>6. CASE c = b /\ b # verdict.selected
    BY <1>3, <2>2, <2>3, <2>6 DEF Returned, IsCollected, Spared, Ending
  <2> QED  BY <2>4, <2>5, <2>6
<1>6. StageInv' /\ ReviewInv' /\ FilesInv'
  BY DEF RunInv, StageInv, ReviewInv, FilesInv, SwarmReturns, IsCollected
<1>7. VerdictInv'
  BY DEF RunInv, VerdictInv, IsCollected, NoVerdict
<1>8. CleanInv'
  BY <1>3 DEF RunInv, CleanInv, RunTypeOK, SwarmTypeOK, TreesTypeOK, Ending
<1> QED  BY <1>4, <1>5, <1>6, <1>7, <1>8 DEF RunInv

LEMMA EndCleanupStep ==
  ASSUME RunInv, EndCleanup PROVE RunInv'
<1>1. stage = "cleaning" /\ toClean = {} /\ stage' = "reporting"
  BY DEF EndCleanup
<1>2. UNCHANGED <<buildVars, run, crashes, review, verdict, toClean, reviewed, artifact>>
  BY DEF EndCleanup
<1> USE <1>1, <1>2 DEF buildVars
<1>3. RunTypeOK'
  BY DEF RunInv, RunTypeOK, SwarmTypeOK, TreesTypeOK, Stages
<1>4. BuilderInv'
  BY DEF RunInv, BuilderInv, Underway, Branch, Returned, IsCollected, Spared, Ending
<1>5. StageInv' /\ VerdictInv' /\ CleanInv' /\ FilesInv' /\ ReviewInv'
  BY DEF RunInv, StageInv, VerdictInv, CleanInv, FilesInv, ReviewInv, Unstarted, Ending,
         SwarmReturns, IsCollected
<1> QED  BY <1>3, <1>4, <1>5 DEF RunInv

LEMMA ReportStep ==
  ASSUME RunInv, WriteReport \/ WritePacket PROVE RunInv'
<1>1. \/ /\ stage = "reporting" /\ stage' = "persisting"
         /\ artifact' = [artifact EXCEPT !["final-report"] = run]
      \/ /\ stage = "persisting" /\ stage' = "returned"
         /\ artifact' = [artifact EXCEPT !["orchestration-packet"] = run]
  BY DEF WriteReport, WritePacket, WriteFile
<1>2. UNCHANGED <<buildVars, run, crashes, review, verdict, toClean, reviewed>>
  BY DEF WriteReport, WritePacket
<1> USE <1>1, <1>2 DEF buildVars
<1>3. RunTypeOK'
  BY RunFacts DEF RunInv, RunTypeOK, SwarmTypeOK, TreesTypeOK, Stages
<1>4. BuilderInv'
  BY DEF RunInv, BuilderInv, Underway, Branch, Returned, IsCollected, Spared, Ending
<1>5. StageInv' /\ VerdictInv' /\ CleanInv' /\ ReviewInv'
  BY DEF RunInv, StageInv, VerdictInv, CleanInv, ReviewInv, Unstarted, Ending,
         SwarmReturns, IsCollected
<1>6. FilesInv'
  BY RunFacts DEF RunInv, FilesInv, Files, Ending
<1> QED  BY <1>3, <1>4, <1>5, <1>6 DEF RunInv

LEMMA StutterStep ==
  ASSUME RunInv, UNCHANGED vars PROVE RunInv'
<1> USE DEF vars, buildVars, runVars
<1>1. RunTypeOK'
  BY DEF RunInv, RunTypeOK, SwarmTypeOK, TreesTypeOK
<1>2. BuilderInv'
  BY DEF RunInv, BuilderInv, Underway, Branch, Returned, IsCollected, Spared
<1>3. StageInv' /\ VerdictInv' /\ CleanInv' /\ ReviewInv' /\ FilesInv'
  BY DEF RunInv, StageInv, VerdictInv, CleanInv, ReviewInv, FilesInv, SwarmReturns, IsCollected, NoVerdict
<1> QED  BY <1>1, <1>2, <1>3 DEF RunInv

LEMMA RunInvariant == Spec => []RunInv
<1>1. RunInit => RunInv
  BY InitEstablishes
<1>2. RunInv /\ [Next]_vars => RunInv'
  BY BeginStep, CrashStep, ContextStep, BuildStep, PacketStep, ReviewStep, EndReviewsStep,
     DecideStep, CleanStep, EndCleanupStep, ReportStep, StutterStep DEF Next, RunStep
<1> QED  BY <1>1, <1>2, PTL DEF Spec

-----------------------------------------------------------------------------
(* Whatever is retried, rolled back, refused or killed, what a run leaves  *)
(* in the repository is what its outcome says (runBuilderSwarm, and the    *)
(* cleanup of runOrchestration).                                           *)
THEOREM RepositoryAlwaysClean == Spec => []RepositoryIsClean
<1>1. RunInv => RepositoryIsClean
  BY DEF RunInv, BuilderInv, Returned, CleanInv, Ending, RepositoryIsClean, BranchHoldsOutcome,
         CleanupIsComplete, RunTypeOK, SwarmTypeOK, TreesTypeOK
<1> QED  BY <1>1, RunInvariant, PTL

(* Whichever run dies over the artifacts of an earlier one, accepted work  *)
(* is on its branch, reviewed and verified, and a packet stands for files  *)
(* of its own run or a later one (runOrchestration).                       *)
THEOREM ArtifactsAlwaysReal == Spec => []ArtifactsAreReal
<1>1. RunInv => AcceptedPatchIsReal
  <2> SUFFICES ASSUME RunInv, Decided, verdict.decision = "accept"
               PROVE  AcceptedPatchIsReal
    BY DEF AcceptedPatchIsReal
  <2> DEFINE b == verdict.selected
  <2>1. /\ b \in Builders /\ IsCollected(b)
        /\ ReviewCoverageOk(review[b]) /\ Unblocked(review[b]) /\ verdict.ver \notin Recoverable
    BY DEF RunInv, VerdictInv
  <2>2. pc[b] = "done" /\ stage \in Ending
    BY <2>1 DEF RunInv, StageInv, Unstarted, Decided, Ending, SwarmReturns
  <2>3. /\ b \in onDisk /\ record[b].status = "collected"
        /\ cand[b].patch = head[b] /\ record[b].patch = head[b] /\ head[b] # {}
    BY <2>1, <2>2, BuilderFacts DEF Returned, Spared, IsCollected
  <2>4. record[b] = [status |-> "collected", patch |-> head[b]]
    BY <2>1, <2>3, BuilderFacts DEF Records
  <2>5. review[b].patch = cand[b].patch
    BY <2>1, <2>2 DEF RunInv, ReviewInv
  <2> QED  BY <2>1, <2>3, <2>4, <2>5 DEF AcceptedPatchIsReal
<1>2. RunInv => PacketIsLast
  <2> SUFFICES ASSUME RunInv, artifact["orchestration-packet"] > 0 PROVE PacketIsLast
    BY DEF PacketIsLast
  <2>1. artifact["orchestration-packet"] = run =>
           \A b \in Builders : IsCollected(b) => b \in reviewed
    BY RunFacts DEF RunInv, FilesInv, StageInv, ReviewInv, Ending, Files
  <2> QED  BY <2>1 DEF RunInv, FilesInv, Files, PacketIsLast
<1>3. RunInv => ArtifactsAreReal
  BY <1>1, <1>2 DEF RunInv, ArtifactsAreReal
<1> QED  BY <1>3, RunInvariant, PTL

==============================================================================
