------------------------------ MODULE WorkGraph ------------------------------
(***************************************************************************)
(* runGraph of work/executor.ts: one run of a work graph that prepare      *)
(* accepted, with the dispatcher's treatment of approval nodes and the     *)
(* verifier's verdict.  Nodes run concurrently: code runs to completion    *)
(* between two awaits, so a step is what happens from one await of runGraph*)
(* or of a runOne to the next.  Node ids are naturals in the order the     *)
(* graph lists them.                                                       *)
(***************************************************************************)
EXTENDS TopologicalSort

CONSTANTS
  Approvals,     \* the nodes of kind "approval"
  Class,         \* approvalClass of each node
  DefaultClass,  \* approvalPolicy.defaultClass
  Verified,      \* the nodes whose verifier policy requires a check
  Attempts,      \* retryPolicy.maxAttempts of each node, 1 if it may not retry
  AutoApprove,   \* --auto-approve
  MaxConcurrent  \* --max-concurrent

ASSUME SomeNode == Nodes # {}
ASSUME PolicyAssumption ==
  /\ Approvals \subseteq Nodes /\ Verified \subseteq Nodes
  /\ Class \in [Nodes -> 0 .. 3] /\ DefaultClass \in 0 .. 3
  /\ Attempts \in [Nodes -> Nat \ {0}]
  /\ AutoApprove \in BOOLEAN
  /\ MaxConcurrent \in Nat \ {0}

VARIABLES
  result,    \* resultsById and nodeStatus, "none" before the node's record
  ready,     \* nodes of the current wave that no batch has taken yet
  run,       \* of each node in the current batch: where its runOne stands
  attempts,  \* how often the node was dispatched
  tokens,    \* approval nodes whose token file exists
  status     \* status of the run, "running" until it returns

graphVars == <<deps, result, ready, run, attempts, tokens, status>>

NodeStatus == {"completed", "failed", "skipped", "awaiting_approval"}
DispatchStatus == {"succeeded", "failed", "skipped"}  \* not_implemented as skipped
RunSteps == {"idle", "dispatched", "backoff", "verify", "done"}
Idle == [at |-> "idle", out |-> "none"]

(* The graphs prepare accepts.                                             *)
Graphs == {d \in Listed : Acyclic(d)}

GraphTypeOK ==
  /\ deps \in Graphs
  /\ result \in [Nodes -> NodeStatus \cup {"none"}]
  /\ ready \subseteq Nodes
  /\ run \in [Nodes -> [at : RunSteps, out : NodeStatus \cup DispatchStatus \cup {"none"}]]
  /\ attempts \in [Nodes -> Nat]
  /\ tokens \subseteq Approvals
  /\ status \in {"running", "completed", "failed", "awaiting_approval"}

Unstarted ==
  /\ result = [n \in Nodes |-> "none"]
  /\ ready = {}
  /\ run = [n \in Nodes |-> Idle]
  /\ attempts = [n \in Nodes |-> 0]
  /\ tokens \in SUBSET Approvals
  /\ status = "running"

GraphInit == deps \in Graphs /\ Unstarted

-----------------------------------------------------------------------------

EffectiveClass(n) == IF Class[n] >= DefaultClass THEN Class[n] ELSE DefaultClass
Gated(n) == EffectiveClass(n) >= 2 /\ n \notin Approvals /\ ~AutoApprove

(* MUTANT: a node that waits for a failed one is never ready.              *)
ReadyCompleted ==
  {n \in Nodes : result[n] = "none" /\ \A d \in deps[n] : result[d] = "completed"}

(* The nodes without a record all of whose dependencies have one.          *)
ReadySet == {n \in Nodes : result[n] = "none" /\ \A d \in deps[n] : result[d] # "none"}

(* ready.slice(i, i + maxConcurrent).                                      *)
FirstOf(S) == {n \in S : Cardinality({m \in S : m < n}) < MaxConcurrent}

InBatch == {n \in Nodes : run[n].at # "idle"}

(* MUTANT: only a failed dependency blocks a node.                         *)
BlockedOnFailure(n) == \E d \in deps[n] : result[d] = "failed"

Blocked(n) == \E d \in deps[n] : result[d] # "completed"

(* resolveApproval: the flag, or the token file as it is at this moment.   *)
Approval(n) == IF AutoApprove \/ n \in tokens THEN "succeeded" ELSE "skipped"

(* runOne up to its first await.  A dependency that is not completed skips *)
(* the node, a gated node awaits approval, and the dispatcher answers an   *)
(* approval node at once.                                                  *)
Started(n) ==
  IF Blocked(n) THEN [at |-> "done", out |-> "skipped"]
  ELSE IF Gated(n) THEN [at |-> "done", out |-> "awaiting_approval"]
  ELSE IF n \in Approvals THEN [at |-> "verify", out |-> Approval(n)]
  ELSE [at |-> "dispatched", out |-> "none"]

(* A batch: the next slice of the wave, or of a new wave when that is      *)
(* empty.  Every runOne of the batch starts before the first await.        *)
StartBatch ==
  /\ status = "running" /\ InBatch = {}
  /\ LET wave == IF ready = {} THEN ReadySet ELSE ready
         batch == FirstOf(wave)
     IN  /\ batch # {}
         /\ ready' = wave \ batch
         /\ run' = [n \in Nodes |-> IF n \in batch THEN Started(n) ELSE Idle]
         /\ attempts' = [n \in Nodes |->
              IF n \in batch /\ Started(n).at # "done" THEN attempts[n] + 1 ELSE attempts[n]]
  /\ UNCHANGED <<deps, result, tokens, status>>

(* dispatchNode returns: a failure with attempts left is retried after the *)
(* backoff unless the policy says not to, anything else goes to the        *)
(* verifier.                                                               *)
DispatchReturns(n, s) ==
  /\ run[n].at = "dispatched"
  /\ run' = [run EXCEPT ![n] =
       [at |-> IF s = "failed" /\ attempts[n] < Attempts[n] THEN "backoff" ELSE "verify",
        out |-> s]]
  /\ UNCHANGED <<deps, result, ready, attempts, tokens, status>>

Redispatch(n) ==
  /\ run[n].at = "backoff"
  /\ run' = [run EXCEPT ![n] = [at |-> "dispatched", out |-> "none"]]
  /\ attempts' = [attempts EXCEPT ![n] = @ + 1]
  /\ UNCHANGED <<deps, result, ready, tokens, status>>

(* decideNodeStatus.                                                       *)
Decided(out, passed) ==
  IF out = "failed" \/ ~passed THEN "failed"
  ELSE IF out = "skipped" THEN "skipped"
  ELSE "completed"

(* runVerifier returns; only a required verifier can fail the node.        *)
Verify(n, passed) ==
  /\ run[n].at = "verify"
  /\ passed \/ n \in Verified
  /\ run' = [run EXCEPT ![n] = [at |-> "done", out |-> Decided(run[n].out, passed)]]
  /\ UNCHANGED <<deps, result, ready, attempts, tokens, status>>

(* Promise.all resolves and the records of the batch are stored.           *)
EndBatch ==
  /\ InBatch # {} /\ \A n \in InBatch : run[n].at = "done"
  /\ result' = [n \in Nodes |-> IF n \in InBatch THEN run[n].out ELSE result[n]]
  /\ run' = [n \in Nodes |-> Idle]
  /\ UNCHANGED <<deps, ready, attempts, tokens, status>>

(* MUTANT: a run with nothing failed is completed.                         *)
SummaryOfFailures ==
  IF \E n \in Nodes : result[n] = "failed" THEN "failed" ELSE "completed"

(* The status of the run, from the tally of its records.                   *)
Summary ==
  IF \E n \in Nodes : result[n] = "failed" THEN "failed"
  ELSE IF \E n \in Nodes : result[n] = "awaiting_approval" THEN "awaiting_approval"
  ELSE "completed"

EndGraph ==
  /\ status = "running" /\ \A n \in Nodes : result[n] # "none"
  /\ status' = Summary
  /\ UNCHANGED <<deps, result, ready, run, attempts, tokens>>

(* The operator touches the token file of an approval node.                *)
TouchToken(n) ==
  /\ status = "running" /\ n \notin tokens
  /\ tokens' = tokens \cup {n}
  /\ UNCHANGED <<deps, result, ready, run, attempts, status>>

NodeStep(n) ==
  \/ \E s \in DispatchStatus : DispatchReturns(n, s)
  \/ Redispatch(n)
  \/ \E passed \in BOOLEAN : Verify(n, passed)

GraphNext ==
  \/ StartBatch \/ EndBatch \/ EndGraph
  \/ \E n \in Nodes : NodeStep(n)
  \/ \E n \in Approvals : TouchToken(n)

GraphSpec == GraphInit /\ [][GraphNext]_graphVars

-----------------------------------------------------------------------------

(* Everything node n depends on, directly or not: the least set that holds *)
(* its dependencies and is closed under taking dependencies.               *)
Closed(S) == \A m \in S : deps[m] \subseteq S
Upstream(n) ==
  {m \in Nodes : \A S \in SUBSET Nodes : deps[n] \subseteq S /\ Closed(S) => m \in S}

(* No node is dispatched before everything upstream of it has completed,   *)
(* however the waves, slices and retries of the other branches interleave. *)
WorkFollowsDependencies ==
  \A n \in Nodes : attempts[n] > 0 => \A m \in Upstream(n) : result[m] = "completed"

(* An approval node upstream of a dispatched node was approved, by the     *)
(* flag or by its token file: skipping an approval never lets work pass.   *)
ApprovalPrecedesWork ==
  \A n \in Nodes : attempts[n] > 0 =>
    \A m \in Upstream(n) \cap Approvals : AutoApprove \/ m \in tokens

(* When the run returns, the nodes skipped without a dispatch are exactly  *)
(* those with a dependency that did not complete: "Independent branches    *)
(* keep progressing even when one branch fails" (work/executor.ts:11).     *)
FailureIsContained ==
  status # "running" =>
    \A n \in Nodes : (result[n] = "skipped" /\ attempts[n] = 0)
                      <=> \E d \in deps[n] : result[d] # "completed"

(* A run that returns "completed" hides no failure and no gate: each node  *)
(* it skipped lies on, or behind, a node the dispatcher itself skipped.    *)
CompletedIsHonest ==
  status = "completed" =>
    \A n \in Nodes :
      \/ result[n] = "completed"
      \/ result[n] = "skipped" /\ \E m \in Upstream(n) \cup {n} :
                                    result[m] = "skipped" /\ attempts[m] > 0

(* Between two waves some node without a record is ready: the branch that  *)
(* marks what is left as skipped upstream is never taken on a graph that   *)
(* prepare accepted.                                                       *)
WaveIsNeverEmpty ==
  InBatch = {} /\ (\E n \in Nodes : result[n] = "none") => ReadySet # {}

(* A record is final, and a node that has one is not dispatched again.     *)
RecordsAreFinal ==
  [][\A n \in Nodes : result[n] # "none" =>
       result'[n] = result[n] /\ attempts'[n] = attempts[n]]_graphVars

(* Nothing starts before what it needs, and nothing that failed holds up   *)
(* what does not need it.                                                  *)
WorkIsOrdered == WorkFollowsDependencies /\ FailureIsContained

=============================================================================
