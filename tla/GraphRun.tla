------------------------------- MODULE GraphRun -------------------------------
(***************************************************************************)
(* All of runGraph (work/executor.ts): prepare sorts the graph as it was   *)
(* loaded and throws when it has a cycle; only the nodes of a sorted graph *)
(* are ever dispatched.                                                    *)
(***************************************************************************)
EXTENDS WorkGraph

executorVars == <<result, ready, run, attempts, tokens, status>>
preparedVars == <<indegree, queue, order, outcome>>
runVars == <<sortVars, executorVars>>

RunInit == SortInit /\ Unstarted

Prepare == SortNext /\ UNCHANGED executorVars

Prepared(A) == outcome = "sorted" /\ A /\ UNCHANGED preparedVars

RunNext == Prepare \/ Prepared(GraphNext)

RunSpec == RunInit /\ [][RunNext]_runVars

(* A dispatched command is killed at its timeout and a backoff runs out;   *)
(* nothing is assumed of the operator's tokens.                            *)
RunFairSpec ==
  /\ RunSpec
  /\ WF_runVars(Prepare)
  /\ WF_runVars(Prepared(StartBatch))
  /\ WF_runVars(Prepared(EndBatch))
  /\ WF_runVars(Prepared(EndGraph))
  /\ \A n \in Nodes : WF_runVars(Prepared(NodeStep(n)))

-----------------------------------------------------------------------------

(* Every graph is refused for its cycle or run to its end, whatever its    *)
(* nodes do.                                                               *)
GraphEnds == <>(outcome = "cycle" \/ status # "running")

=============================================================================
