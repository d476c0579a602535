---------------------------- MODULE GraphRunProofs ----------------------------
(***************************************************************************)
(* One run of a work graph, from the sort to the last record.              *)
(*                                                                         *)
(* The sort.  Kahn's algorithm of work/graph.ts is right for every finite  *)
(* graph: the order it builds puts dependencies first, and the error it    *)
(* throws means a cycle and nothing else.  The invariant says what the     *)
(* loop's data stand for: an indegree counts the dependencies that are not *)
(* in the order yet, and the queue holds the nodes that have none of them  *)
(* left.  A knot never enters the order: its first node would come before  *)
(* a dependency.                                                           *)
(*                                                                         *)
(* The executor.  The properties speak of everything upstream of a node,   *)
(* but a step sees only its direct dependencies.  The invariant therefore  *)
(* says, node by node, where a node may stand and what its record          *)
(* presupposes; that the completed nodes are then closed under taking      *)
(* dependencies gives the properties about everything upstream.            *)
(*                                                                         *)
(* The run.  What the executor keeps on the graphs prepare accepts, it     *)
(* keeps on every graph that is loaded: the sort lets through exactly the  *)
(* graphs the executor's invariant starts from, and touches nothing of it. *)
(***************************************************************************)
EXTENDS GraphRun, FiniteSetTheorems, WellFoundedInduction, TLAPS

Awaited(n) == deps[n] \ Ordered

Counting ==
  /\ \A n \in Nodes : indegree[n] = Cardinality(Awaited(n))
  /\ queue = {n \in Nodes \ Ordered : Awaited(n) = {}}
  /\ IsFiniteSet(Ordered) /\ Cardinality(Ordered) = Len(order)

KnotsAreOut == \A S \in SUBSET Nodes : Knot(deps, S) => S \cap Ordered = {}

Settled == outcome # "sorting" => queue = {}

SortInv ==
  /\ SortTypeOK
  /\ Counting
  /\ DependenciesFirst
  /\ KnotsAreOut
  /\ CycleIsReported
  /\ Settled

-----------------------------------------------------------------------------

(* Sets of nodes are finite, and empty when they count zero.               *)
LEMMA NodeSets ==
  ASSUME NEW S \in SUBSET Nodes
  PROVE  IsFiniteSet(S) /\ Cardinality(S) \in Nat /\ (Cardinality(S) = 0 <=> S = {})
BY NodesAssumption, FS_Subset, FS_CardinalityType, FS_EmptySet

LEMMA LeastIsMember ==
  ASSUME NEW S \in SUBSET Nodes, S # {} PROVE Least(S) \in S
<1>1. S \subseteq Nat
  BY NodesAssumption
<1>2. PICK n \in S : \A m \in S : <<m, n>> \notin OpToRel(<, Nat)
  BY <1>1, NatLessThanWellFounded, WFMin
<1>3. \A m \in S : ~(m < n)
  BY <1>1, <1>2 DEF OpToRel
<1>4. \A m \in S : n <= m
  BY <1>1, <1>3
<1> QED  BY <1>4 DEF Least

(* What is in the order has its dependencies in the order.                 *)
LEMMA OrderedIsClosed ==
  ASSUME DependenciesFirst, order \in Seq(Nodes)
  PROVE  \A n \in Ordered : deps[n] \subseteq Ordered
<1>1. ASSUME NEW i \in DOMAIN order PROVE deps[order[i]] \subseteq Ordered
  <2>1. deps[order[i]] \subseteq {order[j] : j \in 1 .. i - 1}
    BY <1>1 DEF DependenciesFirst
  <2>2. 1 .. i - 1 \subseteq DOMAIN order
    OBVIOUS
  <2> QED  BY <2>1, <2>2 DEF Ordered
<1> QED  BY <1>1 DEF Ordered

(* The node a round of the loop takes, and the order it leaves.            *)
Current == Least(queue)

LEMMA TakeDoes ==
  ASSUME SortInv, Take
  PROVE  /\ Current \in Nodes \ Ordered /\ deps[Current] \subseteq Ordered
         /\ order' = Append(order, Current) /\ Ordered' = Ordered \cup {Current}
         /\ indegree' = [n \in Nodes |->
                           IF Current \in deps[n] THEN indegree[n] - 1 ELSE indegree[n]]
         /\ queue' = (queue \ {Current})
                       \cup {n \in Nodes : Current \in deps[n] /\ indegree'[n] = 0}
         /\ UNCHANGED <<deps, outcome>> /\ outcome = "sorting"
<1>1. Current \in queue
  BY LeastIsMember DEF SortInv, SortTypeOK, Take, Current
<1>2. Current \in Nodes \ Ordered /\ deps[Current] \subseteq Ordered
  BY <1>1 DEF SortInv, Counting, Awaited
<1>3. /\ order' = Append(order, Current)
      /\ indegree' = [n \in Nodes |->
                        IF Current \in deps[n] THEN indegree[n] - 1 ELSE indegree[n]]
      /\ queue' = (queue \ {Current})
                    \cup {n \in Nodes : Current \in deps[n] /\ indegree'[n] = 0}
      /\ UNCHANGED <<deps, outcome>>
  BY DEF Take, Current
<1>4. Ordered' = Ordered \cup {Current}
  <2>1. /\ order \in Seq(Nodes) /\ Len(order) \in Nat
        /\ DOMAIN order = 1 .. Len(order) /\ DOMAIN order' = 1 .. Len(order) + 1
        /\ \A i \in DOMAIN order : order'[i] = order[i]
        /\ order'[Len(order) + 1] = Current
    BY <1>2, <1>3 DEF SortInv, SortTypeOK
  <2>2. DOMAIN order' = DOMAIN order \cup {Len(order) + 1}
    BY <2>1
  <2> QED  BY <2>1, <2>2 DEF Ordered
<1>5. outcome = "sorting"
  BY <1>1 DEF SortInv, Settled
<1> QED  BY <1>2, <1>3, <1>4, <1>5

LEMMA OrderGrows ==
  ASSUME SortInv, Take
  PROVE  /\ order \in Seq(Nodes) /\ order' \in Seq(Nodes)
         /\ Len(order) \in Nat /\ Len(order') = Len(order) + 1
         /\ DOMAIN order = 1 .. Len(order) /\ DOMAIN order' = 1 .. Len(order) + 1
         /\ \A i \in DOMAIN order : order'[i] = order[i]
         /\ order'[Len(order) + 1] = Current
<1>1. order \in Seq(Nodes) /\ Current \in Nodes /\ order' = Append(order, Current)
  <2>1. Current \in Nodes /\ order' = Append(order, Current)
    BY TakeDoes
  <2> QED  BY <2>1 DEF SortInv, SortTypeOK
<1> QED  BY <1>1

LEMMA TakeKeepsType == ASSUME SortInv, Take PROVE SortTypeOK'
<1>1. \A n \in Nodes : Current \in deps[n] => indegree[n] >= 1
  <2>1. ASSUME NEW n \in Nodes, Current \in deps[n] PROVE indegree[n] >= 1
    <3>1. Awaited(n) \in SUBSET Nodes /\ Awaited(n) # {}
      BY <2>1, TakeDoes DEF SortInv, SortTypeOK, Listed, Awaited
    <3> QED  BY <3>1, NodeSets DEF SortInv, Counting
  <2> QED  BY <2>1
<1>2. indegree' \in [Nodes -> Nat]
  BY <1>1, TakeDoes DEF SortInv, SortTypeOK
<1>3. order' \in Seq(Nodes)
  BY OrderGrows
<1> QED  BY <1>2, <1>3, TakeDoes DEF SortInv, SortTypeOK

LEMMA TakeKeepsCounting == ASSUME SortInv, Take PROVE Counting'
<1>0. /\ deps \in [Nodes -> SUBSET Nodes] /\ indegree \in [Nodes -> Nat]
      /\ \A n \in Nodes : indegree[n] = Cardinality(Awaited(n))
      /\ queue = {n \in Nodes \ Ordered : Awaited(n) = {}}
      /\ IsFiniteSet(Ordered) /\ Cardinality(Ordered) = Len(order)
  BY DEF SortInv, SortTypeOK, Listed, Counting
<1>1. ASSUME NEW n \in Nodes PROVE indegree'[n] = Cardinality(Awaited(n)')
  <2>1. Awaited(n)' = Awaited(n) \ {Current} /\ IsFiniteSet(Awaited(n))
    BY <1>0, TakeDoes, NodeSets DEF Awaited
  <2>2. Current \in deps[n] <=> Current \in Awaited(n)
    BY TakeDoes DEF Awaited
  <2>3. Cardinality(Awaited(n)') =
          IF Current \in Awaited(n) THEN Cardinality(Awaited(n)) - 1 ELSE Cardinality(Awaited(n))
    BY <2>1, FS_RemoveElement
  <2>4. indegree'[n] = IF Current \in deps[n] THEN indegree[n] - 1 ELSE indegree[n]
    BY TakeDoes
  <2> QED  BY <1>0, <2>2, <2>3, <2>4
<1>2. queue' = {n \in Nodes \ Ordered' : Awaited(n)' = {}}
  <2>1. \A n \in Nodes : indegree'[n] = 0 <=> Awaited(n)' = {}
    <3>1. \A n \in Nodes : Awaited(n)' \in SUBSET Nodes
      BY <1>0, TakeDoes DEF Awaited
    <3> QED  BY <1>1, <3>1, NodeSets
  <2>2. \A n \in Nodes : Awaited(n)' = Awaited(n) \ {Current}
    BY TakeDoes DEF Awaited
  <2>3. \A n \in Nodes : n \in Ordered' => Current \notin deps[n]
    <3>1. \A n \in Ordered : deps[n] \subseteq Ordered
      BY OrderedIsClosed DEF SortInv, SortTypeOK
    <3> QED  BY <3>1, TakeDoes
  <2>4. \A n \in Nodes : Current \in deps[n] <=> Current \in Awaited(n)
    BY TakeDoes DEF Awaited
  <2> QED  BY <1>0, <2>1, <2>2, <2>3, <2>4, TakeDoes
<1>3. IsFiniteSet(Ordered') /\ Cardinality(Ordered') = Len(order')
  <2>1. Len(order') = Len(order) + 1
    BY OrderGrows
  <2>2. Ordered' = Ordered \cup {Current} /\ Current \notin Ordered
    BY TakeDoes
  <2>3. IsFiniteSet(Ordered') /\ Cardinality(Ordered') = Cardinality(Ordered) + 1
    BY <1>0, <2>2, FS_AddElement
  <2> QED  BY <1>0, <2>1, <2>3
<1> QED  BY <1>1, <1>2, <1>3 DEF Counting

LEMMA TakeKeepsOrder == ASSUME SortInv, Take PROVE DependenciesFirst'
<1>0. /\ order \in Seq(Nodes) /\ Len(order) \in Nat
      /\ DOMAIN order = 1 .. Len(order) /\ DOMAIN order' = 1 .. Len(order) + 1
      /\ \A i \in DOMAIN order : order'[i] = order[i]
      /\ order'[Len(order) + 1] = Current
  BY OrderGrows
<1>1. ASSUME NEW i \in DOMAIN order'
      PROVE  LET earlier == {order'[j] : j \in 1 .. i - 1} IN
               order'[i] \notin earlier /\ deps'[order'[i]] \subseteq earlier
  <2> DEFINE before == {order[j] : j \in 1 .. i - 1}
  <2>1. {order'[j] : j \in 1 .. i - 1} = before
    BY <1>0
  <2>2. CASE i \in DOMAIN order
    <3>1. order[i] \notin before /\ deps[order[i]] \subseteq before
      BY <2>2 DEF SortInv, DependenciesFirst
    <3> QED  BY <1>0, <2>1, <2>2, <3>1, TakeDoes
  <2>3. CASE i = Len(order) + 1
    <3>1. before = Ordered
      BY <1>0, <2>3 DEF Ordered
    <3> QED  BY <1>0, <2>1, <2>3, <3>1, TakeDoes
  <2> QED  BY <1>0, <2>2, <2>3
<1> QED  BY <1>1 DEF DependenciesFirst

LEMMA TakeKeepsKnotsOut == ASSUME SortInv, Take PROVE KnotsAreOut'
<1>1. ASSUME NEW S \in SUBSET Nodes, Knot(deps, S) PROVE S \cap (Ordered \cup {Current}) = {}
  <2>1. S \cap Ordered = {}
    BY <1>1 DEF SortInv, KnotsAreOut
  <2>2. Current \notin S
    BY <1>1, <2>1, TakeDoes DEF Knot
  <2> QED  BY <2>1, <2>2
<1> QED  BY <1>1, TakeDoes DEF KnotsAreOut, Knot

(* The length tells: an order as long as the nodes are many holds them     *)
(* all, and the nodes a shorter one misses are a knot.                     *)
LEMMA FinishTells == ASSUME SortInv, Finish PROVE CycleIsReported' /\ Settled'
<1>0. /\ Ordered \in SUBSET Nodes /\ Ordered' = Ordered /\ deps' = deps /\ queue' = {} /\ queue = {}
      /\ outcome' = IF Len(order) = Cardinality(Nodes) THEN "sorted" ELSE "cycle"
      /\ Cardinality(Ordered) = Len(order) /\ deps \in [Nodes -> SUBSET Nodes]
  BY DEF SortInv, SortTypeOK, Counting, Finish, Ordered, Listed
<1>1. CASE Len(order) = Cardinality(Nodes)
  <2>1. Ordered = Nodes
    BY <1>0, <1>1, NodesAssumption, FS_Subset
  <2>2. Acyclic(deps)
    BY <2>1 DEF SortInv, KnotsAreOut, Acyclic, Knot
  <2> QED  BY <1>0, <1>1, <2>1, <2>2 DEF CycleIsReported, Settled, Acyclic, Knot
<1>2. CASE Len(order) # Cardinality(Nodes)
  <2> DEFINE Missed == Nodes \ Ordered
  <2>1. Missed # {}
    BY <1>0, <1>2
  <2>2. \A n \in Missed : deps[n] \cap Missed # {}
    BY <1>0 DEF SortInv, Counting, Awaited
  <2>3. ~Acyclic(deps)
    BY <2>1, <2>2 DEF Acyclic, Knot
  <2> QED  BY <1>0, <1>2, <2>3 DEF CycleIsReported, Settled, Acyclic, Knot
<1> QED  BY <1>1, <1>2

-----------------------------------------------------------------------------

LEMMA SortInitEstablishes == ASSUME SortInit PROVE SortInv
<1>0. deps \in [Nodes -> SUBSET Nodes] /\ Ordered = {} /\ order = <<>> /\ outcome = "sorting"
  BY DEF SortInit, Listed, Ordered
<1>1. \A n \in Nodes : Awaited(n) = deps[n] /\ IsFiniteSet(deps[n]) /\ Cardinality(deps[n]) \in Nat
                       /\ (Cardinality(deps[n]) = 0 <=> deps[n] = {})
  BY <1>0, NodeSets DEF Awaited
<1>2. SortTypeOK
  BY <1>0, <1>1 DEF SortInit, SortTypeOK, Listed
<1>3. Counting
  BY <1>0, <1>1, FS_EmptySet DEF SortInit, Counting
<1>4. DependenciesFirst /\ KnotsAreOut /\ CycleIsReported /\ Settled
  BY <1>0 DEF DependenciesFirst, KnotsAreOut, CycleIsReported, Settled
<1> QED  BY <1>2, <1>3, <1>4 DEF SortInv

LEMMA DataKept ==
  ASSUME SortInv, UNCHANGED <<deps, indegree, queue, order>>
  PROVE  Counting' /\ DependenciesFirst' /\ KnotsAreOut'
<1>1. Ordered' = Ordered
  BY DEF Ordered
<1>2. Counting'
  BY <1>1 DEF SortInv, Counting, Awaited
<1>3. DependenciesFirst'
  BY DEF SortInv, DependenciesFirst
<1>4. KnotsAreOut'
  BY <1>1 DEF SortInv, KnotsAreOut
<1> QED  BY <1>2, <1>3, <1>4

LEMMA SortStepPreserves == ASSUME SortInv, [SortNext]_sortVars PROVE SortInv'
<1>1. CASE Take
  <2>1. CycleIsReported' /\ Settled'
    BY <1>1, TakeDoes DEF CycleIsReported, Settled
  <2> QED
    BY <1>1, <2>1, TakeKeepsType, TakeKeepsCounting, TakeKeepsOrder, TakeKeepsKnotsOut DEF SortInv
<1>2. CASE Finish
  <2>1. UNCHANGED <<deps, indegree, queue, order>> /\ Ordered' = Ordered
        /\ outcome' \in {"sorted", "cycle"}
    BY <1>2 DEF Finish, Ordered
  <2>2. SortTypeOK' /\ Counting' /\ DependenciesFirst' /\ KnotsAreOut'
    BY <2>1, DataKept DEF SortInv, SortTypeOK
  <2> QED  BY <1>2, <2>2, FinishTells DEF SortInv
<1>3. CASE UNCHANGED sortVars
  <2>1. UNCHANGED <<deps, indegree, queue, order>> /\ Ordered' = Ordered /\ outcome' = outcome
    BY <1>3 DEF sortVars, Ordered
  <2>2. SortTypeOK' /\ Counting' /\ DependenciesFirst' /\ KnotsAreOut'
    BY <2>1, DataKept DEF SortInv, SortTypeOK
  <2>3. CycleIsReported' /\ Settled'
    BY <2>1 DEF SortInv, CycleIsReported, Settled
  <2> QED  BY <2>2, <2>3 DEF SortInv
<1> QED  BY <1>1, <1>2, <1>3 DEF SortNext

LEMMA SortInvariant == SortSpec => []SortInv
<1> QED  BY SortInitEstablishes, SortStepPreserves, PTL DEF SortSpec

(* Every state of the sort is in the types stated for it: no indegree is   *)
(* ever counted below zero.                                                *)
THEOREM SortTypeCorrect == SortSpec => []SortTypeOK
<1>1. SortInv => SortTypeOK
  BY DEF SortInv
<1> QED  BY <1>1, SortInvariant, PTL

(* For every finite graph, the order holds a node once and after all it    *)
(* depends on (topologicalSort, work/graph.ts).                            *)
THEOREM DependenciesAlwaysFirst == SortSpec => []DependenciesFirst
<1>1. SortInv => DependenciesFirst
  BY DEF SortInv
<1> QED  BY <1>1, SortInvariant, PTL

(* For every finite graph, the error is thrown if and only if the graph    *)
(* has a cycle.                                                            *)
THEOREM CycleAlwaysReported == SortSpec => []CycleIsReported
<1>1. SortInv => CycleIsReported
  BY DEF SortInv
<1> QED  BY <1>1, SortInvariant, PTL

-----------------------------------------------------------------------------

(* Of an order of the whole graph: the nodes taken so far are its first    *)
(* ones, or the first that differs is less.                                *)
Agrees(p) == \A j \in DOMAIN order : order[j] = p[j]
Ahead(p) == \E i \in DOMAIN order : order[i] < p[i] /\ \A j \in 1 .. i - 1 : order[j] = p[j]

LeastSoFar == \A p \in Orders : Agrees(p) \/ Ahead(p)

LEMMA LeastIsLeast ==
  ASSUME NEW S \in SUBSET Nodes, NEW m \in S PROVE Least(S) <= m
<1>1. S \subseteq Nat
  BY NodesAssumption
<1>2. PICK n \in S : \A k \in S : <<k, n>> \notin OpToRel(<, Nat)
  BY <1>1, NatLessThanWellFounded, WFMin
<1>3. \A k \in S : ~(k < n)
  BY <1>1, <1>2 DEF OpToRel
<1>4. \A k \in S : n <= k
  BY <1>1, <1>3
<1> QED  BY <1>4 DEF Least

(* An order that begins like this one goes on with a node of the queue.    *)
LEMMA NextIsQueued ==
  ASSUME SortInv, Take, NEW p \in Orders, Agrees(p)
  PROVE  Len(order) + 1 \in DOMAIN p /\ p[Len(order) + 1] \in queue
<1>1. /\ order \in Seq(Nodes) /\ Len(order) \in Nat /\ DOMAIN order = 1 .. Len(order)
      /\ Cardinality(Ordered) = Len(order)
      /\ queue = {n \in Nodes \ Ordered : Awaited(n) = {}}
  BY OrderGrows DEF SortInv, Counting
<1>2. Cardinality(Nodes) \in Nat /\ Len(order) + 1 <= Cardinality(Nodes)
  <2>1. Ordered \cup {Current} \in SUBSET Nodes /\ Current \notin Ordered /\ IsFiniteSet(Ordered)
    <3>1. Ordered \subseteq Nodes
      BY <1>1 DEF Ordered
    <3> QED  BY <3>1, TakeDoes, NodeSets
  <2>2. Cardinality(Ordered \cup {Current}) = Len(order) + 1
    BY <1>1, <2>1, FS_AddElement
  <2>3. Cardinality(Ordered \cup {Current}) <= Cardinality(Nodes)
    BY <2>1, NodesAssumption, FS_Subset
  <2> QED  BY <2>2, <2>3, NodesAssumption, FS_CardinalityType
<1>3. PICK k : k = Len(order) + 1 /\ k \in 1 .. Cardinality(Nodes)
  BY <1>1, <1>2
<1>4. /\ p \in [1 .. Cardinality(Nodes) -> Nodes]
      /\ \A j \in 1 .. k - 1 : p[j] # p[k]
      /\ deps[p[k]] \subseteq {p[j] : j \in 1 .. k - 1}
  BY <1>3 DEF Orders
<1>5. 1 .. k - 1 = DOMAIN order /\ \A j \in DOMAIN order : order[j] = p[j]
  BY <1>1, <1>3 DEF Agrees
<1>6. Ordered = {p[j] : j \in 1 .. k - 1}
  BY <1>5 DEF Ordered
<1>7. p[k] \in Nodes \ Ordered /\ deps[p[k]] \subseteq Ordered
  BY <1>3, <1>4, <1>6
<1> QED  BY <1>1, <1>3, <1>4, <1>7 DEF Awaited

LEMMA LeastSoFarKept == ASSUME SortInv, LeastSoFar, [SortNext]_sortVars PROVE LeastSoFar'
<1>1. Orders' = Orders
  BY DEF SortNext, Take, Finish, sortVars, Orders
<1>2. CASE Take
  <2> SUFFICES ASSUME NEW p \in Orders PROVE (Agrees(p) \/ Ahead(p))'
    BY <1>1 DEF LeastSoFar
  <2>1. /\ Len(order) \in Nat /\ DOMAIN order = 1 .. Len(order)
        /\ DOMAIN order' = 1 .. Len(order) + 1
        /\ \A i \in DOMAIN order : order'[i] = order[i]
        /\ order'[Len(order) + 1] = Current
    BY <1>2, OrderGrows
  <2>2. CASE Ahead(p)
    <3>1. PICK i \in DOMAIN order : order[i] < p[i] /\ \A j \in 1 .. i - 1 : order[j] = p[j]
      BY <2>2 DEF Ahead
    <3>2. i \in DOMAIN order' /\ order'[i] < p[i]
      BY <2>1, <3>1
    <3>3. \A j \in 1 .. i - 1 : order'[j] = p[j]
      BY <2>1, <3>1
    <3> QED  BY <3>2, <3>3 DEF Ahead
  <2>3. CASE Agrees(p)
    <3>1. PICK k : k = Len(order) + 1 /\ k \in DOMAIN p /\ p[k] \in queue
      BY <1>2, <2>3, NextIsQueued
    <3>2. /\ k \in DOMAIN order' /\ order'[k] = Current
          /\ \A j \in 1 .. k - 1 : order'[j] = p[j]
      BY <2>1, <2>3, <3>1 DEF Agrees
    <3>3. queue \in SUBSET Nodes /\ Current \in queue
      BY <1>2, LeastIsMember DEF SortInv, SortTypeOK, Take, Current
    <3>4. Current <= p[k] /\ Current \in Nat /\ p[k] \in Nat
      BY <3>1, <3>3, LeastIsLeast, NodesAssumption DEF Current
    <3>5. CASE Current = p[k]
      BY <2>1, <3>1, <3>2, <3>5 DEF Agrees
    <3>6. CASE Current < p[k]
      BY <3>2, <3>6 DEF Ahead
    <3> QED  BY <3>4, <3>5, <3>6
  <2> QED  BY <2>2, <2>3 DEF LeastSoFar
<1>3. CASE Finish \/ UNCHANGED sortVars
  <2>1. order' = order
    BY <1>3 DEF Finish, sortVars
  <2> QED  BY <1>1, <2>1 DEF LeastSoFar, Agrees, Ahead
<1> QED  BY <1>2, <1>3 DEF SortNext

LEMMA LeastByInv == ASSUME SortInv, LeastSoFar PROVE LeastOrder
<1> SUFFICES ASSUME outcome = "sorted", NEW p \in Orders PROVE Before(order, p)
  BY DEF LeastOrder
<1>1. CASE Ahead(p)
  BY <1>1 DEF Ahead, Before
<1>2. CASE Agrees(p)
  <2>1. /\ Ordered = Nodes /\ Cardinality(Ordered) = Len(order) /\ order \in Seq(Nodes)
    BY DEF SortInv, CycleIsReported, Counting, SortTypeOK
  <2>2. order \in [1 .. Cardinality(Nodes) -> Nodes]
    BY <2>1
  <2>3. p \in [1 .. Cardinality(Nodes) -> Nodes]
    BY DEF Orders
  <2>4. \A j \in 1 .. Cardinality(Nodes) : order[j] = p[j]
    BY <1>2, <2>2 DEF Agrees
  <2>5. order = p
    <3>1. DOMAIN order = 1 .. Cardinality(Nodes) /\ DOMAIN p = 1 .. Cardinality(Nodes)
      BY <2>2, <2>3
    <3>2. order = [j \in DOMAIN order |-> order[j]] /\ p = [j \in DOMAIN p |-> p[j]]
      BY <2>2, <2>3
    <3> QED  BY <2>4, <3>1, <3>2, Zenon
  <2> QED  BY <2>5 DEF Before
<1> QED  BY <1>1, <1>2 DEF LeastSoFar

(* For every finite graph the order is the least there is: it depends on   *)
(* the graph alone, whatever order its nodes are listed in.                *)
THEOREM OrderAlwaysLeast == SortSpec => []LeastOrder
<1>1. SortInit => LeastSoFar
  BY DEF SortInit, LeastSoFar, Agrees
<1>2. SortInv /\ LeastSoFar /\ [SortNext]_sortVars => LeastSoFar'
  BY LeastSoFarKept
<1>3. SortInv /\ LeastSoFar => LeastOrder
  BY LeastByInv
<1> QED  BY <1>1, <1>2, <1>3, SortInvariant, PTL DEF SortSpec

-----------------------------------------------------------------------------
Approved(n) == AutoApprove \/ n \in tokens
DepsRecorded(n) == \A d \in deps[n] : result[d] # "none"

(* What an outcome s of node n presupposes.                                *)
Outcome(n, s) ==
  /\ s = "completed" => attempts[n] > 0 /\ (n \in Approvals => Approved(n))
  /\ (s = "skipped" /\ attempts[n] = 0) <=> Blocked(n)

(* A node is waiting, in the wave, in the batch, or recorded.              *)
Placed(n) ==
  /\ run[n].at # "idle" => result[n] = "none" /\ n \notin ready
  /\ n \in ready => result[n] = "none"
  /\ result[n] # "none" \/ run[n].at # "idle" \/ n \in ready => DepsRecorded(n)

(* Attempts are made in the batch only, and only behind completed nodes.   *)
Attempted(n) ==
  /\ run[n].at \in {"dispatched", "backoff", "verify"} => attempts[n] > 0
  /\ attempts[n] > 0 => ~Blocked(n) /\ (result[n] # "none" \/ run[n].at # "idle")

(* What the place of a runOne says of its outcome so far.                  *)
Underway(n) ==
  /\ run[n].at \in {"dispatched", "backoff"} => n \notin Approvals
  /\ run[n].at = "verify" =>
       /\ run[n].out \in DispatchStatus
       /\ n \in Approvals /\ run[n].out = "succeeded" => Approved(n)
  /\ run[n].at = "done" => run[n].out \in NodeStatus /\ Outcome(n, run[n].out)

NodeInv(n) ==
  Placed(n) /\ Attempted(n) /\ Underway(n)
    /\ (result[n] # "none" => Outcome(n, result[n]))

GraphInv ==
  /\ GraphTypeOK
  /\ \A n \in Nodes : NodeInv(n)
  /\ status # "running" => status = Summary /\ \A n \in Nodes : result[n] # "none"

-----------------------------------------------------------------------------

(* A step keeps the graph, and no step rewrites a record: EndBatch stores  *)
(* the records of the batch, whose nodes have none.                        *)
LEMMA StepKeepsRecords ==
  ASSUME GraphInv, [GraphNext]_graphVars
  PROVE  /\ deps' = deps
         /\ \A n \in Nodes : result[n] # "none" => result'[n] = result[n]
<1> USE DEF GraphInv, NodeInv, Placed, GraphTypeOK
<1>1. CASE StartBatch
  BY <1>1 DEF StartBatch
<1>2. CASE EndBatch
  <2>1. /\ deps' = deps
        /\ \A n \in Nodes : n \notin InBatch => result'[n] = result[n]
    BY <1>2 DEF EndBatch
  <2>2. \A n \in InBatch : result[n] = "none"
    BY DEF InBatch
  <2> QED  BY <2>1, <2>2
<1>3. CASE EndGraph
  BY <1>3 DEF EndGraph
<1>4. ASSUME NEW n \in Nodes, NodeStep(n)
      PROVE  deps' = deps /\ result' = result
  BY <1>4 DEF NodeStep, DispatchReturns, Redispatch, Verify
<1>5. ASSUME NEW n \in Approvals, TouchToken(n)
      PROVE  deps' = deps /\ result' = result
  BY <1>5 DEF TouchToken
<1>6. CASE UNCHANGED graphVars
  BY <1>6 DEF graphVars
<1> QED  BY <1>1, <1>2, <1>3, <1>4, <1>5, <1>6 DEF GraphNext

(* With its dependencies recorded, whether a node is blocked is settled.   *)
LEMMA BlockedIsSettled ==
  ASSUME GraphInv, [GraphNext]_graphVars, NEW n \in Nodes, DepsRecorded(n)
  PROVE  DepsRecorded(n)' /\ (Blocked(n)' <=> Blocked(n))
<1>1. deps[n] \subseteq Nodes
  BY DEF GraphInv, GraphTypeOK, Graphs, Listed
<1>2. deps' = deps /\ \A d \in deps[n] : result'[d] = result[d]
  BY <1>1, StepKeepsRecords DEF DepsRecorded
<1> QED  BY <1>1, <1>2 DEF DepsRecorded, Blocked

-----------------------------------------------------------------------------

LEMMA GraphInitEstablishes == ASSUME GraphInit PROVE GraphInv
<1> USE NodesAssumption, SomeNode, PolicyAssumption DEF GraphInit, Unstarted, Idle
<1>1. GraphTypeOK
  BY DEF GraphTypeOK, RunSteps
<1>2. \A n \in Nodes : NodeInv(n)
  BY DEF NodeInv, Placed, Attempted, Underway
<1> QED  BY <1>1, <1>2 DEF GraphInv

(* A node that a step leaves in its place keeps its invariant, provided    *)
(* the step keeps its attempts and takes no token away.                    *)
LEMMA NodeUntouched ==
  ASSUME GraphInv, [GraphNext]_graphVars, NEW n \in Nodes,
         result'[n] = result[n], run'[n] = run[n], attempts'[n] = attempts[n],
         n \in ready' => n \in ready, tokens \subseteq tokens'
  PROVE  NodeInv(n)'
<1>1. NodeInv(n)
  BY DEF GraphInv
<1>2. CASE DepsRecorded(n)
  <2>1. DepsRecorded(n)' /\ (Blocked(n)' <=> Blocked(n))
    BY <1>2, BlockedIsSettled
  <2> QED
    BY <1>1, <2>1 DEF NodeInv, Placed, Attempted, Underway, Outcome, Approved
<1>3. CASE ~DepsRecorded(n)
  <2>1. result[n] = "none" /\ run[n].at = "idle" /\ n \notin ready /\ ~(attempts[n] > 0)
    BY <1>1, <1>3 DEF NodeInv, Placed, Attempted
  <2> QED  BY <2>1 DEF NodeInv, Placed, Attempted, Underway
<1> QED  BY <1>2, <1>3

(* StartBatch, in terms of its wave and its batch.                         *)
Wave == IF ready = {} THEN ReadySet ELSE ready
Batch == FirstOf(Wave)

LEMMA StartBatchDoes ==
  ASSUME StartBatch
  PROVE  /\ InBatch = {} /\ Batch \subseteq Wave
         /\ ready' = Wave \ Batch
         /\ run' = [n \in Nodes |-> IF n \in Batch THEN Started(n) ELSE Idle]
         /\ attempts' = [n \in Nodes |->
              IF n \in Batch /\ Started(n).at # "done" THEN attempts[n] + 1 ELSE attempts[n]]
         /\ UNCHANGED <<deps, result, tokens, status>>
<1>1. Batch \subseteq Wave
  BY DEF Batch, FirstOf
<1> QED  BY <1>1 DEF StartBatch, Wave, Batch

LEMMA TypeStep == ASSUME GraphInv, [GraphNext]_graphVars PROVE GraphTypeOK'
<1> USE NodesAssumption, SomeNode, PolicyAssumption DEF GraphTypeOK
<1>0. GraphTypeOK
  BY DEF GraphInv
<1>1. CASE StartBatch
  <2>1. \A n \in Nodes : Started(n) \in
          [at : RunSteps, out : NodeStatus \cup DispatchStatus \cup {"none"}]
    BY DEF Started, Approval, RunSteps, NodeStatus, DispatchStatus
  <2>2. Idle \in [at : RunSteps, out : NodeStatus \cup DispatchStatus \cup {"none"}]
    BY DEF Idle, RunSteps
  <2>3. Wave \subseteq Nodes
    BY <1>0 DEF Wave, ReadySet
  <2>4. run' \in [Nodes -> [at : RunSteps, out : NodeStatus \cup DispatchStatus \cup {"none"}]]
    BY <1>1, <2>1, <2>2, StartBatchDoes
  <2>5. attempts' \in [Nodes -> Nat]
    BY <1>0, <1>1, StartBatchDoes
  <2>6. ready' \subseteq Nodes /\ UNCHANGED <<deps, result, tokens, status>>
    BY <1>1, <2>3, StartBatchDoes
  <2> QED  BY <1>0, <2>4, <2>5, <2>6
<1>2. CASE EndBatch
  <2>1. \A n \in InBatch : run[n].out \in NodeStatus
    BY <1>2 DEF EndBatch, GraphInv, NodeInv, Underway, InBatch
  <2>2. Idle \in [at : RunSteps, out : NodeStatus \cup DispatchStatus \cup {"none"}]
    BY DEF Idle, RunSteps
  <2> QED  BY <1>0, <1>2, <2>1, <2>2 DEF EndBatch
<1>3. CASE EndGraph
  BY <1>0, <1>3 DEF EndGraph, Summary
<1>4. ASSUME NEW n \in Nodes, NodeStep(n)
      PROVE  GraphTypeOK'
  <2>1. ASSUME NEW s \in DispatchStatus, DispatchReturns(n, s)
        PROVE  GraphTypeOK'
    BY <1>0, <2>1 DEF DispatchReturns, RunSteps
  <2>2. CASE Redispatch(n)
    BY <1>0, <2>2 DEF Redispatch, RunSteps
  <2>3. ASSUME NEW passed \in BOOLEAN, Verify(n, passed)
        PROVE  GraphTypeOK'
    BY <1>0, <2>3 DEF Verify, Decided, RunSteps, NodeStatus
  <2> QED  BY <1>4, <2>1, <2>2, <2>3 DEF NodeStep
<1>5. ASSUME NEW n \in Approvals, TouchToken(n)
      PROVE  GraphTypeOK'
  BY <1>0, <1>5 DEF TouchToken
<1>6. CASE UNCHANGED graphVars
  BY <1>0, <1>6 DEF graphVars
<1> QED  BY <1>1, <1>2, <1>3, <1>4, <1>5, <1>6 DEF GraphNext

-----------------------------------------------------------------------------

(* A node of the wave waits for nothing and was never attempted.           *)
LEMMA WaveIsFresh ==
  ASSUME GraphInv, InBatch = {}, NEW n \in Wave
  PROVE  n \in Nodes /\ result[n] = "none" /\ DepsRecorded(n) /\ attempts[n] = 0
<1>1. n \in Nodes /\ result[n] = "none" /\ DepsRecorded(n)
  BY DEF Wave, ReadySet, GraphInv, GraphTypeOK, NodeInv, Placed, DepsRecorded
<1>2. run[n].at = "idle"
  BY <1>1 DEF InBatch
<1>3. attempts[n] \in Nat /\ ~(attempts[n] > 0)
  BY <1>1, <1>2 DEF GraphInv, GraphTypeOK, NodeInv, Attempted
<1> QED  BY <1>1, <1>3

(* What runOne makes of a node up to its first await.                      *)
LEMMA StartedIs ==
  ASSUME NEW n \in Nodes
  PROVE  /\ Started(n).at \in {"done", "verify", "dispatched"}
         /\ Started(n).at = "done" => Started(n).out \in {"skipped", "awaiting_approval"}
         /\ Started(n).at = "done" => (Started(n).out = "skipped" <=> Blocked(n))
         /\ Started(n).at # "done" => ~Blocked(n)
         /\ Started(n).at = "dispatched" => n \notin Approvals
         /\ Started(n).at = "verify" =>
              /\ Started(n).out \in DispatchStatus
              /\ Started(n).out = "succeeded" => Approved(n)
BY DEF Started, Approval, Approved, DispatchStatus

LEMMA StartBatchStep ==
  ASSUME GraphInv, StartBatch, NEW n \in Nodes PROVE NodeInv(n)'
<1>0. /\ NodeInv(n) /\ attempts[n] \in Nat /\ run[n].at = "idle"
      /\ UNCHANGED <<deps, result, tokens, status>>
  BY StartBatchDoes DEF GraphInv, GraphTypeOK, InBatch
<1>1. CASE n \in Batch
  <2>1. /\ run'[n] = Started(n) /\ n \notin ready'
        /\ attempts'[n] = IF Started(n).at # "done" THEN 1 ELSE 0
        /\ result[n] = "none" /\ DepsRecorded(n)
    BY <1>1, StartBatchDoes, WaveIsFresh
  <2>2. DepsRecorded(n)' /\ (Blocked(n)' <=> Blocked(n)) /\ (Approved(n)' <=> Approved(n))
    BY <1>0, <2>1 DEF DepsRecorded, Blocked, Approved
  <2>3. Placed(n)' /\ Attempted(n)'
    BY <1>0, <2>1, <2>2, StartedIs DEF Placed, Attempted
  <2>4. Underway(n)'
    BY <1>0, <2>1, <2>2, StartedIs DEF Underway, Outcome, NodeStatus
  <2> QED  BY <1>0, <2>1, <2>3, <2>4 DEF NodeInv
<1>2. CASE n \notin Batch
  <2>1. run'[n] = Idle /\ attempts'[n] = attempts[n] /\ ready' \subseteq Wave
    BY <1>2, StartBatchDoes
  <2>2. n \in ready' => result[n] = "none" /\ DepsRecorded(n)
    BY <2>1, StartBatchDoes, WaveIsFresh
  <2>3. /\ DepsRecorded(n)' <=> DepsRecorded(n)
        /\ Blocked(n)' <=> Blocked(n)
        /\ Approved(n)' <=> Approved(n)
    BY <1>0 DEF DepsRecorded, Blocked, Approved
  <2> QED
    BY <1>0, <2>1, <2>2, <2>3 DEF NodeInv, Placed, Attempted, Underway, Outcome, Idle
<1> QED  BY <1>1, <1>2

LEMMA EndBatchStep ==
  ASSUME GraphInv, EndBatch, NEW n \in Nodes PROVE NodeInv(n)'
<1>0. /\ NodeInv(n)
      /\ \A m \in InBatch : run[m].at = "done"
      /\ result'[n] = IF n \in InBatch THEN run[n].out ELSE result[n]
      /\ run'[n] = Idle
      /\ UNCHANGED <<deps, ready, attempts, tokens, status>>
  BY DEF GraphInv, EndBatch
<1>1. CASE DepsRecorded(n)
  <2>1. DepsRecorded(n)' /\ (Blocked(n)' <=> Blocked(n)) /\ (Approved(n)' <=> Approved(n))
    BY <1>0, <1>1, BlockedIsSettled DEF GraphNext, Approved
  <2>2. CASE n \in InBatch
    BY <1>0, <2>1, <2>2 DEF NodeInv, Placed, Attempted, Underway, Outcome, Idle, InBatch,
                            NodeStatus
  <2>3. CASE n \notin InBatch
    BY <1>0, <2>1, <2>3 DEF NodeInv, Placed, Attempted, Underway, Outcome, Idle, InBatch
  <2> QED  BY <2>2, <2>3
<1>2. CASE ~DepsRecorded(n)
  BY <1>0, <1>2 DEF NodeInv, Placed, Attempted, Underway, Idle, InBatch
<1> QED  BY <1>1, <1>2

(* A step of one node's runOne: its own invariant, node by node.           *)
LEMMA NodeStepOfOther ==
  ASSUME GraphInv, NEW m \in Nodes, NodeStep(m), NEW n \in Nodes, n # m
  PROVE  NodeInv(n)'
<1>1. /\ UNCHANGED <<deps, result, ready, tokens, status>>
      /\ run'[n] = run[n] /\ attempts'[n] = attempts[n]
  BY DEF NodeStep, DispatchReturns, Redispatch, Verify, GraphInv, GraphTypeOK
<1>2. GraphNext
  BY DEF GraphNext
<1> QED  BY <1>1, <1>2, NodeUntouched

LEMMA NodeStepOfOwn ==
  ASSUME GraphInv, NEW n \in Nodes, NodeStep(n) PROVE NodeInv(n)'
<1>1. NodeInv(n) /\ attempts[n] \in Nat
  BY DEF GraphInv, GraphTypeOK
<1>2. /\ UNCHANGED <<deps, result, ready, tokens>>
      /\ run[n].at \in {"dispatched", "backoff", "verify"}
  BY DEF NodeStep, DispatchReturns, Redispatch, Verify
<1>3. /\ DepsRecorded(n)' <=> DepsRecorded(n)
      /\ Blocked(n)' <=> Blocked(n)
      /\ Approved(n)' <=> Approved(n)
  BY <1>2 DEF DepsRecorded, Blocked, Approved
<1>4. attempts[n] > 0 /\ ~Blocked(n) /\ DepsRecorded(n) /\ n \notin ready /\ result[n] = "none"
  BY <1>1, <1>2 DEF NodeInv, Placed, Attempted
<1>5. ASSUME NEW s \in DispatchStatus, DispatchReturns(n, s)
      PROVE  NodeInv(n)'
  <2>1. /\ run[n].at = "dispatched" /\ attempts' = attempts
        /\ run'[n].at \in {"backoff", "verify"} /\ run'[n].out = s
    BY <1>5 DEF DispatchReturns, GraphInv, GraphTypeOK
  <2> QED
    BY <1>1, <1>2, <1>3, <1>4, <1>5, <2>1 DEF NodeInv, Placed, Attempted, Underway
<1>6. CASE Redispatch(n)
  <2>1. run[n].at = "backoff" /\ run'[n].at = "dispatched" /\ attempts'[n] = attempts[n] + 1
    BY <1>6 DEF Redispatch, GraphInv, GraphTypeOK
  <2> QED
    BY <1>1, <1>2, <1>3, <1>4, <2>1 DEF NodeInv, Placed, Attempted, Underway
<1>7. ASSUME NEW passed \in BOOLEAN, Verify(n, passed)
      PROVE  NodeInv(n)'
  <2>1. /\ run[n].at = "verify" /\ attempts' = attempts
        /\ run'[n].at = "done" /\ run'[n].out = Decided(run[n].out, passed)
    BY <1>7 DEF Verify, GraphInv, GraphTypeOK
  <2>2. /\ run[n].out \in DispatchStatus
        /\ n \in Approvals /\ run[n].out = "succeeded" => Approved(n)
    BY <1>1, <2>1 DEF NodeInv, Underway
  <2>3. /\ run'[n].out \in NodeStatus
        /\ run'[n].out = "completed" /\ n \in Approvals => Approved(n)
    BY <2>1, <2>2 DEF Decided, NodeStatus, DispatchStatus
  <2>4. Placed(n)' /\ Attempted(n)'
    BY <1>2, <1>3, <1>4, <2>1 DEF Placed, Attempted
  <2>5. Outcome(n, run[n].out)'
    BY <1>3, <1>4, <2>1, <2>3 DEF Outcome
  <2> QED
    BY <1>4, <1>2, <2>1, <2>3, <2>4, <2>5 DEF NodeInv, Underway
<1> QED  BY <1>5, <1>6, <1>7 DEF NodeStep

(* Steps in which no runOne moves.                                         *)
LEMMA OtherStep ==
  ASSUME GraphInv, NEW n \in Nodes,
         EndGraph \/ (\E m \in Approvals : TouchToken(m)) \/ UNCHANGED graphVars
  PROVE  NodeInv(n)'
<1>1. [GraphNext]_graphVars
  BY DEF GraphNext
<1>2. UNCHANGED <<result, ready, run, attempts>> /\ tokens \subseteq tokens'
  BY DEF EndGraph, TouchToken, graphVars
<1> QED  BY <1>1, <1>2, NodeUntouched

LEMMA GraphStepPreserves == ASSUME GraphInv, [GraphNext]_graphVars PROVE GraphInv'
<1>1. GraphTypeOK'
  BY TypeStep
<1>2. ASSUME NEW n \in Nodes
      PROVE  NodeInv(n)'
  <2>1. ASSUME NEW m \in Nodes, NodeStep(m)
        PROVE  NodeInv(n)'
    BY <2>1, NodeStepOfOwn, NodeStepOfOther
  <2> QED  BY <2>1, StartBatchStep, EndBatchStep, OtherStep DEF GraphNext
<1>3. status' # "running" => status' = Summary' /\ \A n \in Nodes : result'[n] # "none"
  <2>1. CASE EndGraph
    BY <2>1 DEF EndGraph, Summary
  <2>2. CASE ~EndGraph
    <3>1. status' = status
      BY <2>2 DEF GraphNext, StartBatch, EndBatch, NodeStep, DispatchReturns, Redispatch, Verify,
                  TouchToken, graphVars
    <3>2. \A n \in Nodes : result[n] # "none" => result'[n] = result[n]
      BY StepKeepsRecords
    <3> QED  BY <3>1, <3>2 DEF GraphInv, Summary
  <2> QED  BY <2>1, <2>2
<1> QED  BY <1>1, <1>2, <1>3 DEF GraphInv

LEMMA GraphInvariant == GraphSpec => []GraphInv
<1> QED  BY GraphInitEstablishes, GraphStepPreserves, PTL DEF GraphSpec

-----------------------------------------------------------------------------

(* Completed nodes are closed under taking dependencies, so everything     *)
(* upstream of a node that was attempted has completed.                    *)
LEMMA UpstreamCompleted ==
  ASSUME GraphInv, NEW n \in Nodes, attempts[n] > 0
  PROVE  \A m \in Upstream(n) : m \in Nodes /\ result[m] = "completed"
<1> DEFINE Completed == {m \in Nodes : result[m] = "completed"}
<1>1. deps \in [Nodes -> SUBSET Nodes]
  BY DEF GraphInv, GraphTypeOK, Graphs, Listed
<1>2. \A m \in Nodes : attempts[m] > 0 => deps[m] \subseteq Completed
  BY <1>1 DEF GraphInv, NodeInv, Attempted, Blocked
<1>3. Closed(Completed)
  BY <1>2 DEF Closed, GraphInv, NodeInv, Outcome
<1> QED  BY <1>2, <1>3 DEF Upstream

(* Every state is in the types stated for it.                              *)
THEOREM GraphTypeCorrect == GraphSpec => []GraphTypeOK
<1>1. GraphInv => GraphTypeOK
  BY DEF GraphInv
<1> QED  BY <1>1, GraphInvariant, PTL

LEMMA InvOrdersWork == GraphInv => WorkFollowsDependencies
<1> QED  BY UpstreamCompleted DEF WorkFollowsDependencies

(* For every graph, policy and limit: when a node is dispatched, everything*)
(* upstream of it has completed (runGraph, work/executor.ts).              *)
THEOREM WorkAlwaysFollowsDependencies == GraphSpec => []WorkFollowsDependencies
<1> QED  BY InvOrdersWork, GraphInvariant, PTL

LEMMA InvOrdersApprovals == GraphInv => ApprovalPrecedesWork
<1>1. ASSUME GraphInv, NEW n \in Nodes, attempts[n] > 0,
             NEW m \in Upstream(n) \cap Approvals
      PROVE  AutoApprove \/ m \in tokens
  <2>1. m \in Nodes /\ result[m] = "completed"
    BY <1>1, UpstreamCompleted
  <2>2. Outcome(m, "completed")
    BY <1>1, <2>1 DEF GraphInv, NodeInv
  <2> QED  BY <2>2 DEF Outcome, Approved
<1> QED  BY <1>1 DEF ApprovalPrecedesWork

(* For every graph: no work passes an approval node nobody approved.       *)
THEOREM ApprovalAlwaysPrecedesWork == GraphSpec => []ApprovalPrecedesWork
<1> QED  BY InvOrdersApprovals, GraphInvariant, PTL

LEMMA InvContainsFailure == GraphInv => FailureIsContained
<1>1. ASSUME GraphInv, status # "running", NEW n \in Nodes
      PROVE  (result[n] = "skipped" /\ attempts[n] = 0) <=> Blocked(n)
  <2>1. Outcome(n, result[n])
    BY <1>1 DEF GraphInv, NodeInv
  <2> QED  BY <2>1 DEF Outcome
<1> QED  BY <1>1 DEF FailureIsContained, Blocked

(* When a run returns, a node was skipped without a dispatch exactly if one*)
(* of its dependencies did not complete.                                   *)
THEOREM FailureAlwaysContained == GraphSpec => []FailureIsContained
<1> QED  BY InvContainsFailure, GraphInvariant, PTL

(* The nodes without a record are not a knot, so one of them is ready.     *)
THEOREM WaveNeverEmpty == GraphSpec => []WaveIsNeverEmpty
<1>1. ASSUME GraphInv, NEW m \in Nodes, result[m] = "none"
      PROVE  ReadySet # {}
  <2> DEFINE Left == {n \in Nodes : result[n] = "none"}
  <2>1. deps \in [Nodes -> SUBSET Nodes] /\ Acyclic(deps)
    BY <1>1 DEF GraphInv, GraphTypeOK, Graphs, Listed
  <2>2. Left \in SUBSET Nodes /\ Left # {} /\ ~Knot(deps, Left)
    BY <1>1, <2>1 DEF Acyclic
  <2>3. PICK n \in Left : deps[n] \cap Left = {}
    BY <2>2 DEF Knot
  <2>4. \A d \in deps[n] : result[d] # "none"
    BY <2>1, <2>3
  <2> QED  BY <2>3, <2>4 DEF ReadySet
<1>2. GraphInv => WaveIsNeverEmpty
  BY <1>1 DEF WaveIsNeverEmpty
<1> QED  BY <1>2, GraphInvariant, PTL

(* Upstream is transitive, and holds the direct dependencies.              *)
LEMMA UpstreamOfDependency ==
  ASSUME deps \in [Nodes -> SUBSET Nodes], NEW n \in Nodes, NEW d \in deps[n]
  PROVE  d \in Upstream(n) /\ Upstream(d) \subseteq Upstream(n)
<1>1. \A S \in SUBSET Nodes :
        deps[n] \subseteq S /\ Closed(S) => d \in S /\ deps[d] \subseteq S
  BY DEF Closed
<1> QED  BY <1>1 DEF Upstream

LEMMA InvIsHonest == GraphInv => CompletedIsHonest
<1>1. ASSUME GraphInv, status = "completed" PROVE CompletedIsHonest
  <2> DEFINE Excused(n) == \E m \in Upstream(n) \cup {n} : result[m] = "skipped" /\ attempts[m] > 0
             Unexcused == {n \in Nodes : result[n] # "completed" /\ ~Excused(n)}
  <2>1. deps \in [Nodes -> SUBSET Nodes] /\ Acyclic(deps) /\ attempts \in [Nodes -> Nat]
    BY <1>1 DEF GraphInv, GraphTypeOK, Graphs, Listed
  <2>2. \A n \in Nodes : result[n] \in {"completed", "skipped"}
    BY <1>1 DEF GraphInv, GraphTypeOK, Summary, NodeStatus
  <2>3. ASSUME NEW n \in Unexcused PROVE deps[n] \cap Unexcused # {}
    <3>1. n \in Nodes /\ result[n] = "skipped" /\ ~Excused(n)
      BY <2>2
    <3>2. attempts[n] = 0
      BY <2>1, <3>1
    <3>3. PICK d \in deps[n] : result[d] # "completed"
      BY <1>1, <3>1, <3>2 DEF GraphInv, NodeInv, Outcome, Blocked
    <3>4. d \in Nodes /\ d \in Upstream(n) /\ Upstream(d) \subseteq Upstream(n)
      BY <2>1, <3>1, UpstreamOfDependency
    <3>5. ~Excused(d)
      BY <3>1, <3>4
    <3> QED  BY <3>3, <3>4, <3>5
  <2>4. Unexcused = {}
    BY <2>1, <2>3 DEF Acyclic, Knot
  <2>5. ASSUME NEW n \in Nodes, result[n] # "completed"
        PROVE  result[n] = "skipped" /\ Excused(n)
    BY <2>2, <2>4, <2>5
  <2> QED  BY <2>5 DEF CompletedIsHonest
<1> QED  BY <1>1 DEF CompletedIsHonest

(* For every graph: a run that returns "completed" has no failure and no   *)
(* gate in it.  The skipped nodes with no skipped dispatch upstream would  *)
(* each depend on another one of them: a knot.                             *)
THEOREM CompletedAlwaysHonest == GraphSpec => []CompletedIsHonest
<1> QED  BY InvIsHonest, GraphInvariant, PTL

(* No step rewrites a record or dispatches a node that has one.            *)
THEOREM RecordsStayFinal == GraphSpec => RecordsAreFinal
<1>1. ASSUME GraphInv, [GraphNext]_graphVars, NEW n \in Nodes, result[n] # "none"
      PROVE  result'[n] = result[n] /\ attempts'[n] = attempts[n]
  <2>1. result'[n] = result[n]
    BY <1>1, StepKeepsRecords
  <2>2. run[n].at = "idle" /\ n \notin ready
    BY <1>1 DEF GraphInv, NodeInv, Placed
  <2>3. CASE StartBatch
    <3>1. n \notin Batch
      BY <1>1, <2>3, StartBatchDoes, WaveIsFresh
    <3> QED  BY <2>1, <2>3, <3>1, StartBatchDoes
  <2>4. ASSUME NEW m \in Nodes, NodeStep(m)
        PROVE  attempts'[n] = attempts[n]
    <3>1. n # m
      BY <2>2, <2>4 DEF NodeStep, DispatchReturns, Redispatch, Verify
    <3>2. attempts' = attempts \/ attempts' = [attempts EXCEPT ![m] = @ + 1]
      BY <2>4 DEF NodeStep, DispatchReturns, Redispatch, Verify
    <3> QED  BY <1>1, <3>1, <3>2 DEF GraphInv, GraphTypeOK
  <2>5. CASE EndBatch \/ EndGraph \/ (\E m \in Approvals : TouchToken(m)) \/ UNCHANGED graphVars
    BY <2>1, <2>5 DEF EndBatch, EndGraph, TouchToken, graphVars
  <2> QED  BY <1>1, <2>1, <2>3, <2>4, <2>5 DEF GraphNext
<1>2. GraphInv /\ [GraphNext]_graphVars =>
        [\A n \in Nodes : result[n] # "none" =>
           result'[n] = result[n] /\ attempts'[n] = attempts[n]]_graphVars
  BY <1>1
<1> QED  BY <1>2, GraphInvariant, PTL DEF GraphSpec, RecordsAreFinal

-----------------------------------------------------------------------------
RunInv ==
  /\ SortInv
  /\ outcome = "sorted" => GraphInv
  /\ outcome # "sorted" => Unstarted

(* The step that ends a sort leaves an acyclic graph, so the executor      *)
(* starts in one of its initial states.                                    *)
LEMMA PrepareStep ==
  ASSUME RunInv, Prepare PROVE RunInv'
<1>1. SortInv'
  BY SortStepPreserves DEF RunInv, Prepare
<1>2. outcome = "sorting" /\ deps' = deps
  <2>1. Take => outcome = "sorting"
    BY DEF Take, RunInv, SortInv, Settled, SortTypeOK
  <2> QED  BY <2>1 DEF Prepare, SortNext, Take, Finish
<1>3. Unstarted /\ Unstarted'
  BY <1>2 DEF RunInv, Unstarted, Prepare, executorVars
<1>4. ASSUME outcome' = "sorted" PROVE GraphInv'
  <2>1. deps \in Graphs
    BY <1>1, <1>2, <1>4 DEF SortInv, SortTypeOK, CycleIsReported, Graphs, Acyclic, Knot
  <2>2. GraphInv
    BY <1>3, <2>1, GraphInitEstablishes DEF GraphInit
  <2>3. UNCHANGED graphVars
    BY <1>2 DEF Prepare, executorVars, graphVars
  <2> QED  BY <2>2, <2>3, GraphStepPreserves
<1> QED  BY <1>1, <1>3, <1>4 DEF RunInv

LEMMA ExecuteStep ==
  ASSUME RunInv, Prepared(GraphNext) PROVE RunInv'
<1>1. outcome = "sorted" /\ outcome' = outcome /\ GraphInv /\ GraphNext
  BY DEF RunInv, Prepared, preparedVars
<1>2. GraphInv'
  BY <1>1, GraphStepPreserves
<1>3. UNCHANGED sortVars
  <2>1. deps' = deps
    BY <1>1, StepKeepsRecords
  <2> QED  BY <2>1 DEF Prepared, preparedVars, sortVars
<1>4. SortInv'
  BY <1>3, SortStepPreserves DEF RunInv
<1> QED  BY <1>1, <1>2, <1>4 DEF RunInv

LEMMA RunStutters ==
  ASSUME RunInv, UNCHANGED runVars PROVE RunInv'
<1>1. UNCHANGED sortVars /\ UNCHANGED graphVars /\ outcome' = outcome
  BY DEF runVars, sortVars, executorVars, graphVars
<1>2. SortInv' /\ (outcome' = "sorted" => GraphInv')
  BY <1>1, SortStepPreserves, GraphStepPreserves DEF RunInv
<1>3. Unstarted => Unstarted'
  BY DEF Unstarted, runVars, executorVars
<1> QED  BY <1>1, <1>2, <1>3 DEF RunInv

LEMMA RunInvariant == RunSpec => []RunInv
<1>1. RunInit => RunInv
  <2>1. SortInit => outcome = "sorting"
    BY DEF SortInit
  <2> QED  BY <2>1, SortInitEstablishes DEF RunInit, RunInv
<1>2. RunInv /\ [RunNext]_runVars => RunInv'
  BY PrepareStep, ExecuteStep, RunStutters DEF RunNext
<1> QED  BY <1>1, <1>2, PTL DEF RunSpec

(* For every graph that is loaded, with a cycle or without: the order puts *)
(* dependencies first and the error means a cycle (prepare, work/graph.ts).*)
THEOREM EveryOrderIsRight == RunSpec => [](DependenciesFirst /\ CycleIsReported)
<1>1. RunInv => DependenciesFirst /\ CycleIsReported
  BY DEF RunInv, SortInv
<1> QED  BY <1>1, RunInvariant, PTL

(* No node of a run is dispatched or recorded before its graph is sorted.  *)
LEMMA NothingBeforeTheSort ==
  ASSUME RunInv, outcome # "sorted"
  PROVE  /\ WorkFollowsDependencies /\ ApprovalPrecedesWork
         /\ FailureIsContained /\ CompletedIsHonest
<1>1. /\ \A n \in Nodes : ~(attempts[n] > 0)
      /\ status = "running"
  BY DEF RunInv, Unstarted
<1> QED  BY <1>1 DEF WorkFollowsDependencies, ApprovalPrecedesWork, FailureIsContained,
                     CompletedIsHonest

(* For every graph, policy and limit, sorted first or refused: work comes  *)
(* after all it depends on, behind approvals that were given; a failure    *)
(* stops only what depends on it, and "completed" hides none.              *)
THEOREM EveryRunIsRight ==
  RunSpec => [](/\ WorkFollowsDependencies /\ ApprovalPrecedesWork
                /\ FailureIsContained /\ CompletedIsHonest)
<1>1. RunInv => /\ WorkFollowsDependencies /\ ApprovalPrecedesWork
                /\ FailureIsContained /\ CompletedIsHonest
  BY NothingBeforeTheSort, InvOrdersWork, InvOrdersApprovals, InvContainsFailure, InvIsHonest
     DEF RunInv
<1> QED  BY <1>1, RunInvariant, PTL

(* For every graph, policy and limit: work starts after what it needs, and *)
(* a failure holds up nothing else (runGraph, work/executor.ts).           *)
THEOREM WorkAlwaysOrdered == RunSpec => []WorkIsOrdered
<1>1. RunInv => WorkIsOrdered
  BY NothingBeforeTheSort, InvOrdersWork, InvContainsFailure DEF RunInv, WorkIsOrdered
<1> QED  BY <1>1, RunInvariant, PTL

=============================================================================
