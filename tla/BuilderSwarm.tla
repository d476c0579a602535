---------------------------- MODULE BuilderSwarm -----------------------------
(* runBuilderSwarm of src/swarm/builder-swarm.ts: N builders, each with its  *)
(* own worktree, ask a model for a change, apply it, commit it, collect it   *)
(* and may verify it, rolling back and asking again.  The only await of a    *)
(* builder is the call of the broker: `thread` is the builder whose          *)
(* synchronous stretch runs, and the process can die between two git calls.  *)
EXTENDS Worktrees, Naturals

CONSTANTS
  TouchList,          \* the paths the builders are scoped to
  AllowUnscoped,      \* allowUnscopedDiff
  Leavings,           \* new files a verification command leaves behind
  MaxApplyRetries, MaxReadFiles, MaxVerifyRetries,
  VerifierPhases,     \* what verifyCandidate can answer, given its commands
  SelfVerifies,       \* the swarm was given a command to verify with
  NoOne

ASSUME SwarmAssumption ==
  /\ TouchList \subseteq Paths /\ Leavings \subseteq Paths \ Tracked
  /\ {MaxApplyRetries, MaxReadFiles, MaxVerifyRetries} \subseteq Nat
  /\ {AllowUnscoped, SelfVerifies} \subseteq BOOLEAN
  /\ NoOne \notin Builders

VARIABLES pc, tries, thread, cand

swarmVars == <<pc, tries, thread, cand>>
buildVars == <<onDisk, head, dirty, record, pc, tries, thread, cand>>

Stops == {"start", "recording", "asking", "applied", "committed", "collected", "done"}
FailedPhases == {"spawn_failed", "broker_failed", "no_diff_extracted",
                 "scope_rejected", "apply_failed", "applied", "committed"}
Phases == FailedPhases \cup {"none", "collected"}
Fresh == [first |-> TRUE, applies |-> 0, reads |-> 0, verifies |-> 0]

SwarmTypeOK ==
  /\ TreesTypeOK
  /\ pc \in [Builders -> Stops]
  /\ tries \in [Builders -> [first : BOOLEAN, applies : 0..MaxApplyRetries,
                             reads : 0..MaxReadFiles, verifies : 0..MaxVerifyRetries]]
  /\ thread \in Builders \cup {NoOne}
  /\ cand \in [Builders -> [phase : Phases, patch : SUBSET Paths]]

SwarmInit ==
  /\ TreesInit
  /\ pc = [b \in Builders |-> "start"]
  /\ tries = [b \in Builders |-> Fresh]
  /\ thread = NoOne
  /\ cand = [b \in Builders |-> [phase |-> "none", patch |-> {}]]

\* A builder returns its candidate; its counters go with it.
Return(b, phase, patch) ==
  /\ tries' = [tries EXCEPT ![b] = Fresh]
  /\ pc' = [pc EXCEPT ![b] = "done"]
  /\ cand' = [cand EXCEPT ![b] = [phase |-> phase, patch |-> patch]]
  /\ thread' = NoOne

Goto(b, stop, counters) ==
  /\ tries' = [tries EXCEPT ![b] = counters]
  /\ pc' = [pc EXCEPT ![b] = stop]
  /\ thread' = IF stop = "asking" THEN NoOne ELSE b
  /\ UNCHANGED cand

\* Every builder is spawned before the first await returns.
Spawn(b) ==
  /\ pc[b] = "start" /\ thread = NoOne
  /\ \/ WorktreeAdd(b) /\ Goto(b, "recording", tries[b])
     \/ Return(b, "spawn_failed", {}) /\ UNCHANGED treeVars

RecordSpawn(b) ==
  /\ pc[b] = "recording" /\ thread = b
  /\ PersistSpawned(b)
  /\ Goto(b, "asking", tries[b])

\* An answer of the broker is taken up when no other builder runs.
Answered(b) ==
  /\ pc[b] = "asking" /\ thread = NoOne
  /\ \A c \in Builders : pc[c] # "start"

\* The call throws or is rejected.  Only a first call counts as broker_failed.
BrokerFails(b) ==
  /\ Answered(b)
  /\ Return(b, IF tries[b].first THEN "broker_failed" ELSE "apply_failed", {})
  /\ UNCHANGED treeVars

\* No touch list needs an explicit opt-out; otherwise every path must be on it.
InScope(files) == IF TouchList = {} THEN AllowUnscoped ELSE files \subseteq TouchList

ScopeRejects(b, files) ==
  /\ Answered(b)
  /\ ~InScope(files)
  /\ Return(b, "scope_rejected", {})
  /\ UNCHANGED treeVars

\* What blocks that all match change: a block for a new file creates it, one for
\* a tracked file may replace a text by itself.
BlocksChange(files) == {changed \in SUBSET files : files \ Tracked \subseteq changed}

\* Search/replace blocks that all match are written, and git diff must show it.
BlocksApply(b, files, changed) ==
  /\ Answered(b)
  /\ InScope(files) /\ changed \in BlocksChange(files)
  /\ Write(b, changed)
  /\ \/ Return(b, "apply_failed", {})                     \* git diff fails
     \/ GitDiff(b)' = {} /\ Return(b, "no_diff_extracted", {})
     \/ GitDiff(b)' # {} /\ Goto(b, "applied", tries[b])

\* One block does not match: nothing is written, and the builder asks again.
BlocksFail(b) ==
  /\ Answered(b)
  /\ IF tries[b].applies + 1 > MaxApplyRetries
       THEN Return(b, "apply_failed", {})
       ELSE Goto(b, "asking", [tries[b] EXCEPT !.applies = @ + 1, !.first = FALSE])
  /\ UNCHANGED treeVars

\* A unified diff goes through git apply --check; it is never retried.
DiffApplies(b, files, changed) ==
  /\ Answered(b)
  /\ InScope(files) /\ changed \subseteq files
  /\ \/ Write(b, changed) /\ Goto(b, "applied", tries[b])
     \/ Return(b, "apply_failed", {}) /\ UNCHANGED treeVars

\* READ_FILE: granted or denied, it costs one read.
ReadsFile(b) ==
  /\ Answered(b)
  /\ tries[b].reads < MaxReadFiles
  /\ Goto(b, "asking", [tries[b] EXCEPT !.reads = @ + 1, !.first = FALSE])
  /\ UNCHANGED treeVars

\* No blocks, no diff, and no read that the budget allows.
SaysNothing(b) ==
  /\ Answered(b)
  /\ Return(b, "no_diff_extracted", {})
  /\ UNCHANGED treeVars

Commit(b) ==
  /\ pc[b] = "applied" /\ thread = b
  /\ \/ CommitAll(b) /\ Goto(b, "committed", tries[b])
     \/ Return(b, "applied", {}) /\ UNCHANGED treeVars

Collect(b) ==
  /\ pc[b] = "committed" /\ thread = b
  /\ \/ CollectRun(b) /\ Goto(b, "collected", tries[b])
     \/ CollectFails(b) /\ Return(b, "committed", {})

Recoverable == {"typecheck_failed", "tests_failed"}

(* MUTANT: the rollback resets the count of verifications with the others. *)
SelfVerifyAnew(b, phase, left) ==
  /\ pc[b] = "collected" /\ thread = b /\ SelfVerifies
  /\ \/ /\ phase \in Recoverable /\ tries[b].verifies < MaxVerifyRetries
        /\ ResetHard(b, left)
        /\ Goto(b, "asking", Fresh)
     \/ Return(b, "collected", record[b].patch) /\ Write(b, left)

\* The verifier runs on the commit and may leave files.  After a failure that
\* the model may repair, the commit is rolled back and the builder asks again
\* with fresh budgets; the state file is not touched.
SelfVerify(b, phase, left) ==
  /\ pc[b] = "collected" /\ thread = b /\ SelfVerifies
  /\ \/ /\ phase \in Recoverable /\ tries[b].verifies < MaxVerifyRetries
        /\ ResetHard(b, left)
        /\ Goto(b, "asking", [Fresh EXCEPT !.verifies = tries[b].verifies + 1])
     \/ Return(b, "collected", record[b].patch) /\ Write(b, left)

SkipVerify(b) ==
  /\ pc[b] = "collected" /\ thread = b /\ ~SelfVerifies
  /\ Return(b, "collected", record[b].patch)
  /\ UNCHANGED treeVars

Answer(b) ==
  \/ BrokerFails(b) \/ BlocksFail(b) \/ ReadsFile(b) \/ SaysNothing(b)
  \/ \E files \in SUBSET Paths \ {{}} :
       \/ ScopeRejects(b, files)
       \/ \E changed \in SUBSET files :
            BlocksApply(b, files, changed) \/ DiffApplies(b, files, changed)

BuilderStep(b) ==
  \/ Spawn(b) \/ RecordSpawn(b) \/ Answer(b) \/ Commit(b) \/ Collect(b) \/ SkipVerify(b)
  \/ \E phase \in VerifierPhases, left \in SUBSET Leavings : SelfVerify(b, phase, left)

SwarmReturns == \A b \in Builders : pc[b] = "done"
=============================================================================
