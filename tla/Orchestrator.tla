---------------------------- MODULE Orchestrator -----------------------------
(* runOrchestration of src/orchestrate/orchestrator.ts: the builder swarm,   *)
(* one review swarm per collected candidate, the arbiter, the cleanup, and   *)
(* the artifacts it leaves under artifacts/orchestrations/<taskId>.  The     *)
(* process can die between any two of its writes; the task may then be run   *)
(* again, over the artifacts of the run before.                              *)
EXTENDS BuilderSwarm, Arbiter

CONSTANTS
  MaxRuns,              \* orchestrations of the task (a bound)
  MaxCrashes,           \* runs that die before they return (a bound)
  Cleanup,              \* --cleanup
  PackRequired,         \* requireContextPack
  Noticed               \* the kinds of findings reviewers report (a bound)

ASSUME RunAssumption ==
  /\ MaxRuns \in Nat /\ MaxCrashes \in Nat
  /\ Cleanup \in BOOLEAN /\ PackRequired \in BOOLEAN
  /\ VerifierPhases \subseteq Verified /\ Noticed \subseteq FindingKinds

VARIABLES
  stage, run, crashes,
  review,               \* review[b]: what the swarm reviewing b returned
  verdict,              \* the arbiter's decision of this run
  toClean,              \* builders whose worktree the cleanup has still to see
  reviewed,             \* builders whose review packet this run has written
  artifact              \* artifact[f]: the run that last wrote file f, or 0

runVars == <<stage, run, crashes, review, verdict, toClean, reviewed, artifact>>
vars == <<buildVars, runVars>>

Stages == {"idle", "context", "building", "reviewing", "deciding", "cleaning",
           "reporting", "persisting", "returned", "thrown"}
Files == {"builder-swarm-packet", "arbiter-decision", "final-report",
          "orchestration-packet"}
NoReview == [valid |-> 0, found |-> {}, patch |-> {}]
NoVerdict == [decision |-> "none", selected |-> NoOne, ver |-> "none"]

RunTypeOK ==
  /\ SwarmTypeOK
  /\ stage \in Stages /\ run \in 0..MaxRuns /\ crashes \in 0..MaxCrashes
  /\ review \in [Builders -> [valid : 0..Cardinality(Reviewers), found : SUBSET FindingKinds,
                              patch : SUBSET Paths]]
  /\ verdict \in [decision : {"none", "accept", "reject", "escalate_to_human"},
                  selected : Builders \cup {NoOne}, ver : Verified \cup {"none"}]
  /\ toClean \subseteq Builders /\ reviewed \subseteq Builders
  /\ artifact \in [Files -> 0..MaxRuns]

RunInit ==
  /\ SwarmInit
  /\ stage = "idle" /\ run = 0 /\ crashes = 0
  /\ review = [b \in Builders |-> NoReview]
  /\ verdict = NoVerdict
  /\ toClean = {} /\ reviewed = {}
  /\ artifact = [f \in Files |-> 0]

WriteFile(f) == artifact' = [artifact EXCEPT ![f] = run]

\* What a run remembers ends with it, and the next one has fresh run ids: the
\* worktrees left on disk belong to no builder of it and are not followed.
Forget ==
  /\ onDisk' = {}
  /\ head' = [b \in Builders |-> {}]
  /\ dirty' = [b \in Builders |-> {}]
  /\ record' = [b \in Builders |-> NoRecord]
  /\ pc' = [b \in Builders |-> "start"]
  /\ tries' = [b \in Builders |-> Fresh]
  /\ thread' = NoOne
  /\ cand' = [b \in Builders |-> [phase |-> "none", patch |-> {}]]
  /\ review' = [b \in Builders |-> NoReview]
  /\ verdict' = NoVerdict
  /\ toClean' = {} /\ reviewed' = {}

Begin ==
  /\ stage \in {"idle", "returned", "thrown"} /\ run < MaxRuns
  /\ run' = run + 1
  /\ stage' = "context"
  /\ Forget
  /\ UNCHANGED <<crashes, artifact>>

\* Without its context pack a run goes on, unless the pack is required.
ContextPack ==
  /\ stage = "context"
  /\ stage' \in IF PackRequired THEN {"building", "thrown"} ELSE {"building"}
  /\ UNCHANGED <<buildVars, run, crashes, review, verdict, toClean, reviewed, artifact>>

Build(b) ==
  /\ stage = "building"
  /\ BuilderStep(b)
  /\ UNCHANGED runVars

IsCollected(b) == cand[b].phase = "collected"

WriteBuilderPacket ==
  /\ stage = "building" /\ SwarmReturns
  /\ stage' = "reviewing"
  /\ WriteFile("builder-swarm-packet")
  /\ UNCHANGED <<buildVars, run, crashes, review, verdict, toClean, reviewed>>

\* A reviewer fails, answers something unreadable, or reports findings.
Answers == {"failed", "invalid", "valid"}

\* One review swarm: its calls run at once and only their answers count.
Review(b) ==
  /\ stage = "reviewing" /\ IsCollected(b) /\ b \notin reviewed
  /\ \E answer \in [Reviewers -> Answers], found \in SUBSET Noticed :
       LET valid == {r \in Reviewers : answer[r] = "valid"} IN
       /\ valid = {} => found = {}
       /\ review' = [review EXCEPT ![b] =
            [valid |-> Cardinality(valid), found |-> found, patch |-> cand[b].patch]]
  /\ reviewed' = reviewed \cup {b}
  /\ UNCHANGED <<buildVars, stage, run, crashes, verdict, toClean, artifact>>

EndReviews ==
  /\ stage = "reviewing"
  /\ \A b \in Builders : IsCollected(b) => b \in reviewed
  /\ stage' = "deciding"
  /\ UNCHANGED <<buildVars, run, crashes, review, verdict, toClean, reviewed, artifact>>

\* The arbiter verifies every collected candidate again in its worktree, then
\* decides.  Files that this verification leaves are of no consequence any more.
Decide ==
  /\ stage = "deciding"
  /\ LET C == {b \in Builders : IsCollected(b)} IN
     \E ver \in [C -> VerifierPhases], anti \in SUBSET C, missing \in BOOLEAN :
       LET seen == [b \in C |-> [ver |-> ver[b], anti |-> b \in anti,
                                 valid |-> review[b].valid, found |-> review[b].found]]
           decision == Decision(seen, missing) IN
       \/ /\ decision # "accept"
          /\ verdict' = [NoVerdict EXCEPT !.decision = decision]
       \/ /\ decision = "accept"
          /\ \E b \in Selected(seen) :
               verdict' = [decision |-> decision, selected |-> b, ver |-> ver[b]]
  /\ WriteFile("arbiter-decision")
  /\ stage' = "cleaning"
  /\ toClean' = IF Cleanup THEN {b \in Builders : cand[b].phase # "spawn_failed"} ELSE {}
  /\ UNCHANGED <<buildVars, run, crashes, review, reviewed>>

(* MUTANT: the cleanup does not spare the selected worktree. *)
CleanEvery(b) ==
  /\ stage = "cleaning" /\ b \in toClean
  /\ toClean' = toClean \ {b}
  /\ RemoveRun(b) \/ RemoveFails(b)
  /\ UNCHANGED <<swarmVars, stage, run, crashes, review, verdict, reviewed, artifact>>

\* Every candidate with a run id but the selected one; failures are ignored.
CleanOne(b) ==
  /\ stage = "cleaning" /\ b \in toClean
  /\ toClean' = toClean \ {b}
  /\ IF b = verdict.selected THEN UNCHANGED treeVars ELSE RemoveRun(b) \/ RemoveFails(b)
  /\ UNCHANGED <<swarmVars, stage, run, crashes, review, verdict, reviewed, artifact>>

EndCleanup ==
  /\ stage = "cleaning" /\ toClean = {}
  /\ stage' = "reporting"
  /\ UNCHANGED <<buildVars, run, crashes, review, verdict, toClean, reviewed, artifact>>

WriteReport ==
  /\ stage = "reporting"
  /\ WriteFile("final-report")
  /\ stage' = "persisting"
  /\ UNCHANGED <<buildVars, run, crashes, review, verdict, toClean, reviewed>>

WritePacket ==
  /\ stage = "persisting"
  /\ WriteFile("orchestration-packet")
  /\ stage' = "returned"
  /\ UNCHANGED <<buildVars, run, crashes, review, verdict, toClean, reviewed>>

Running == stage \notin {"idle", "returned", "thrown"}

Crash ==
  /\ Running /\ crashes < MaxCrashes
  /\ crashes' = crashes + 1
  /\ stage' = "thrown"
  /\ Forget
  /\ UNCHANGED <<run, artifact>>

RunStep ==
  \/ ContextPack \/ WriteBuilderPacket \/ EndReviews \/ Decide \/ EndCleanup
  \/ WriteReport \/ WritePacket
  \/ \E b \in Builders : Build(b) \/ Review(b) \/ CleanOne(b)

Next == Begin \/ RunStep \/ Crash

Spec == RunInit /\ [][Next]_vars
\* The broker answers every call, so a run that lives goes on.
FairSpec == Spec /\ WF_vars(RunStep)

-----------------------------------------------------------------------------
Decided == stage \in {"cleaning", "reporting", "persisting", "returned"}

\* Accepted work is there to be applied: the worktree of the selected builder
\* is on disk, its branch holds exactly the patch that was collected, reviewed
\* by enough reviewers without a blocking finding, and verified again.
AcceptedPatchIsReal ==
  (Decided /\ verdict.decision = "accept") =>
     LET b == verdict.selected IN
     /\ b \in onDisk
     /\ record[b] = [status |-> "collected", patch |-> head[b]]
     /\ cand[b].patch = head[b] /\ review[b].patch = head[b] /\ head[b] # {}
     /\ ReviewCoverageOk(review[b]) /\ Unblocked(review[b])
     /\ verdict.ver \notin Recoverable

\* Over any sequence of retries and rollbacks, a branch holds a commit exactly
\* for the builders that return one: the candidates collected, and those whose
\* collection failed after the commit.
BranchHoldsOutcome ==
  \A b \in onDisk : pc[b] = "done" =>
     /\ (head[b] # {}) <=> cand[b].phase \in {"collected", "committed"}
     /\ IsCollected(b) => cand[b].patch = head[b] /\ record[b].patch = head[b]

\* A worktree survives the cleanup only for a reason: it is the selected one,
\* git would not remove it, or nothing knows its run id.
CleanupIsComplete ==
  (Cleanup /\ stage \in {"reporting", "persisting", "returned"}) =>
     \A b \in onDisk : b = verdict.selected \/ record[b].status = "failed"

\* Whatever run dies over the artifacts of an earlier one, every file that a
\* packet on disk stands for was written by its own run or by a later one.
PacketIsLast ==
  LET packet == artifact["orchestration-packet"] IN
  packet > 0 => /\ \A f \in {"builder-swarm-packet", "arbiter-decision", "final-report"} :
                      artifact[f] >= packet
                /\ (packet = run) => \A b \in Builders : IsCollected(b) => b \in reviewed

\* A run that lives ends: every chain of retries, reads and rollbacks stops.
RunsEnd == Running ~> ~Running

\* What a run leaves in the repository is what its outcome says: commits only
\* of the builders that returned one, worktrees only for a reason.
RepositoryIsClean == BranchHoldsOutcome /\ CleanupIsComplete

\* The artifacts of a run are well formed and speak of what happened: the
\* accepted patch is on its branch, and the packet stands for files that exist.
ArtifactsAreReal == RunTypeOK /\ AcceptedPatchIsReal /\ PacketIsLast

=============================================================================
