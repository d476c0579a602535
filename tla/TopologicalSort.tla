--------------------------- MODULE TopologicalSort ---------------------------
(***************************************************************************)
(* topologicalSort of work/graph.ts, which prepare runs over every work    *)
(* graph: Kahn's algorithm, one action per round of its while loop.  Node  *)
(* ids are naturals in the order of the strings they stand for; the queue, *)
(* which the code keeps sorted, is the set whose least element is next.    *)
(* prepare has made sure that ids are distinct and dependencies known.     *)
(***************************************************************************)
EXTENDS Naturals, Sequences, FiniteSets

CONSTANT Nodes

ASSUME NodesAssumption == Nodes \subseteq Nat /\ IsFiniteSet(Nodes)

VARIABLES
  deps,      \* deps[n]: the dependencies of node n
  indegree,  \* dependencies of n that are not in the order yet
  queue,     \* nodes ready to be ordered
  order,     \* the order so far
  outcome    \* "sorting", "sorted", or "cycle" for the error

sortVars == <<deps, indegree, queue, order, outcome>>

Listed == [Nodes -> SUBSET Nodes]
Ordered == {order[i] : i \in DOMAIN order}

SortTypeOK ==
  /\ deps \in Listed
  /\ indegree \in [Nodes -> Nat]
  /\ queue \subseteq Nodes
  /\ order \in Seq(Nodes)
  /\ outcome \in {"sorting", "sorted", "cycle"}

SortInit ==
  /\ deps \in Listed
  /\ indegree = [n \in Nodes |-> Cardinality(deps[n])]
  /\ queue = {n \in Nodes : indegree[n] = 0}
  /\ order = <<>>
  /\ outcome = "sorting"

Least(S) == CHOOSE n \in S : \A m \in S : n <= m

(* MUTANT: the new nodes are appended to the queue, so the last comes last *)
(* and the greatest may come first.                                        *)
TakeUnsorted ==
  /\ queue # {}
  /\ LET current == CHOOSE n \in queue : \A m \in queue : n >= m IN
       /\ order' = Append(order, current)
       /\ indegree' = [n \in Nodes |->
                         IF current \in deps[n] THEN indegree[n] - 1 ELSE indegree[n]]
       /\ queue' = (queue \ {current})
                     \cup {n \in Nodes : current \in deps[n] /\ indegree'[n] = 0}
  /\ UNCHANGED <<deps, outcome>>

(* One round: the least queued node is ordered and every dependent loses   *)
(* one indegree; those that reach zero join the queue.                     *)
Take ==
  /\ queue # {}
  /\ LET current == Least(queue) IN
       /\ order' = Append(order, current)
       /\ indegree' = [n \in Nodes |->
                         IF current \in deps[n] THEN indegree[n] - 1 ELSE indegree[n]]
       /\ queue' = (queue \ {current})
                     \cup {n \in Nodes : current \in deps[n] /\ indegree'[n] = 0}
  /\ UNCHANGED <<deps, outcome>>

(* MUTANT: any order is returned, however short.                           *)
FinishUnchecked ==
  /\ queue = {} /\ outcome = "sorting"
  /\ outcome' = "sorted"
  /\ UNCHANGED <<deps, indegree, queue, order>>

(* The queue is empty: an order that misses a node means a cycle.          *)
Finish ==
  /\ queue = {} /\ outcome = "sorting"
  /\ outcome' = IF Len(order) = Cardinality(Nodes) THEN "sorted" ELSE "cycle"
  /\ UNCHANGED <<deps, indegree, queue, order>>

SortNext == Take \/ Finish

SortSpec == SortInit /\ [][SortNext]_sortVars

-----------------------------------------------------------------------------

(* Nodes that all wait for one another: none of them can ever be first.    *)
Knot(d, S) == S # {} /\ \A n \in S : d[n] \cap S # {}
Acyclic(d) == \A S \in SUBSET Nodes : ~Knot(d, S)

(* The order so far is one in which a node comes once, and after all the   *)
(* nodes it depends on.                                                    *)
DependenciesFirst ==
  \A i \in DOMAIN order :
    LET earlier == {order[j] : j \in 1 .. i - 1} IN
      order[i] \notin earlier /\ deps[order[i]] \subseteq earlier

(* The error is thrown for exactly the graphs that have no order: those in *)
(* which some nodes, possibly one, wait for one another.                   *)
CycleIsReported ==
  /\ outcome = "cycle" => ~Acyclic(deps)
  /\ outcome = "sorted" => Acyclic(deps) /\ Ordered = Nodes

(* "stable order for deterministic runs" (work/graph.ts:222): the result   *)
(* depends on the graph alone, not on the listing of its nodes.  It is the *)
(* least of all its topological orders.                                    *)
Before(p, q) ==
  \/ p = q
  \/ \E i \in DOMAIN p : p[i] < q[i] /\ \A j \in 1 .. i - 1 : p[j] = q[j]

Orders ==
  {p \in [1 .. Cardinality(Nodes) -> Nodes] :
     \A i \in DOMAIN p : /\ \A j \in 1 .. i - 1 : p[j] # p[i]
                         /\ deps[p[i]] \subseteq {p[j] : j \in 1 .. i - 1}}

LeastOrder == outcome = "sorted" => \A p \in Orders : Before(order, p)

=============================================================================
