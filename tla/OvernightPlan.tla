--------------------------- MODULE OvernightPlan ---------------------------
(***************************************************************************)
(* What a night is filled with (projects/planner.ts, overnight/plan.ts):   *)
(* every project's manifest and the state it is found in give a list of    *)
(* actions, and the overnight plan takes the autonomous ones in order of   *)
(* priority while they fit into the night.  Projects and the items of a    *)
(* project are numbers in the alphabetical order of their ids.             *)
(***************************************************************************)
EXTENDS Naturals, FiniteSets, Sequences, Policy

CONSTANTS
  Projects,   \* the projects with a manifest
  Manifest    \* of each: its priority, its gates, its services

Gates == {"verify", "smoke"}

\* Timeouts are whole seconds; 0 stands for none, or for no log.
ASSUME ManifestAssumption ==
  /\ IsFiniteSet(Projects) /\ Projects \subseteq Nat
  /\ \A p \in Projects :
       /\ \A g \in Gates : Manifest[p].gates[g].timeout \in Nat
       /\ IsFiniteSet(Manifest[p].services)
       /\ \A v \in Manifest[p].services :
            v.id \in Nat /\ IsFiniteSet(v.logs) /\ v.logs \subseteq Nat \ {0}

\* A gate that is not declared.
NoGate == [declared |-> FALSE, class |-> 0, timeout |-> 0]

(* statusForProject reads the root, git, the processes, launchd and the    *)
(* ports.  A sighting says whether the root exists, whether git finds it   *)
(* clean or dirty, and which services are missing or stopped.              *)
Issues(p, seen) == {v \in Manifest[p].services : v.required /\ v.id \in seen.down}

Health(p, seen) ==
  CASE ~seen.root -> "missing"
    [] seen.root /\ (Issues(p, seen) # {} \/ seen.git = "dirty") -> "attention"
    [] seen.root /\ Issues(p, seen) = {} /\ seen.git = "clean" -> "ok"
    [] OTHER -> "unknown"

(* The health tells more than the project's own priority.                  *)
PriorityForProject(p, health) ==
  CASE health = "missing" -> "critical"
    [] health # "missing" /\ Manifest[p].priority = "critical" ->
         IF health = "ok" THEN "high" ELSE "critical"
    [] health # "missing" /\ Manifest[p].priority = "high" ->
         IF health = "ok" THEN "medium" ELSE "high"
    [] health # "missing" /\ Manifest[p].priority = "medium" -> "medium"
    [] OTHER -> "low"

(* explainRoute: the helper reads launchd and logs, the daemon the rest,   *)
(* and a denied verb has no lane.                                          *)
Lane(verb, class) ==
  CASE Decision(class, FALSE) = "deny" -> "blocked"
    [] Decision(class, FALSE) # "deny" /\ verb \in {"launchd.status", "logs.read"} -> "helper"
    [] OTHER -> "frontierd"

(* makeAction: what the policy does not allow outright is blocked, and     *)
(* neither recommended nor eligible.                                       *)
MakeAction(p, item, verb, priority, recommended, class, timeout) ==
  LET allowed == Decision(class, FALSE) = "allow" IN
    [project |-> p, item |-> item, verb |-> verb, lane |-> Lane(verb, class),
     priority |-> priority, class |-> class, timeout |-> timeout,
     recommended |-> recommended /\ allowed, eligible |-> allowed /\ class <= 1]

\* The items of a plan, in the alphabetical order of their names.
Item == [verify |-> 2, smoke |-> 1, discover |-> 3, inspectGit |-> 4, review |-> 5,
         inspectRoot |-> 6, service |-> 7]

RootActions(p, seen) ==
  IF seen.root THEN {}
  ELSE {MakeAction(p, <<Item.inspectRoot, 0, 0>>, "project.inspect",
                   PriorityForProject(p, "missing"), TRUE, 0, 0)}

GitActions(p, seen) ==
  CASE seen.git = "dirty" ->
         {MakeAction(p, <<Item.review, 0, 0>>, "project.status",
                     PriorityForProject(p, Health(p, seen)), TRUE, 0, 0)}
    [] seen.git = "none" /\ seen.root ->
         {MakeAction(p, <<Item.inspectGit, 0, 0>>, "project.inspect", "medium", TRUE, 0, 0)}
    [] OTHER -> {}

(* commandAction: a declared gate, in the class the manifest gives it.     *)
GateActions(p, seen) ==
  LET Declared(g) == Manifest[p].gates[g].declared
      Urgency(g) == IF g = "verify" THEN PriorityForProject(p, Health(p, seen))
                    ELSE IF Health(p, seen) = "ok" THEN "medium" ELSE "high"
      Run(g) == MakeAction(p, <<Item[g], 0, 0>>,
                           IF g = "verify" THEN "project.verify" ELSE "project.smoke",
                           Urgency(g), seen.root,
                           Manifest[p].gates[g].class, Manifest[p].gates[g].timeout)
      Dormant == Manifest[p].priority = "dormant" IN
    IF \E g \in Gates : Declared(g) \/ ~seen.root
      THEN {Run(g) : g \in {h \in Gates : Declared(h)}}
      ELSE {MakeAction(p, <<Item.discover, 0, 0>>, "project.inspect",
                       IF Dormant THEN "low" ELSE "medium", ~Dormant, 0, 0)}

(* serviceActions: what can be read about a service that is down, and the  *)
(* repair of a required one, which asks for approval.                      *)
ServiceItems(p, v) ==
  LET urgency == IF v.required THEN PriorityForProject(p, "attention") ELSE "low" IN
    {MakeAction(p, <<Item.service, v.id, 0>>, "launchd.status", urgency, TRUE, 0, 0) :
       a \in {x \in {1} : v.agent}}
    \cup {MakeAction(p, <<Item.service, v.id, l>>, "logs.read", urgency, TRUE, 0, 0) :
            l \in v.logs}
    \cup {MakeAction(p, <<Item.service, v.id, 99>>, "ops.repair_launchagent", urgency,
                     FALSE, 2, 0) : r \in {x \in {1} : v.required}}

ServiceActions(p, seen) ==
  UNION {ServiceItems(p, v) : v \in {u \in Manifest[p].services : u.id \in seen.down}}

(* buildProjectPlan.                                                       *)
ProjectPlan(p, seen) ==
  RootActions(p, seen) \cup GitActions(p, seen) \cup GateActions(p, seen)
    \cup ServiceActions(p, seen)

-----------------------------------------------------------------------------

PriorityRank == [critical |-> 0, high |-> 1, medium |-> 2, low |-> 3]

ActionKindRank(a) ==
  CASE a.item[1] = Item.review -> 0
    [] a.verb = "project.inspect" -> 1
    [] a.verb = "launchd.status" -> 2
    [] a.verb = "logs.read" -> 3
    [] a.verb = "project.smoke" -> 4
    [] a.verb = "project.verify" -> 5
    [] OTHER -> 9

\* The keys comparePlanned compares one after the other.
SortKey(a) == <<PriorityRank[a.priority], ActionKindRank(a), a.project,
                a.item[1], a.item[2], a.item[3]>>

ComparePlanned(a, b) ==
  \E i \in 1 .. 6 : /\ SortKey(a)[i] < SortKey(b)[i]
                    /\ \A j \in 1 .. i - 1 : SortKey(a)[j] = SortKey(b)[j]

AtMost(a, b) == IF a < b THEN a ELSE b
AtLeast(a, b) == IF a > b THEN a ELSE b

(* A tenth of a gate's timeout in seconds, from 5 to 60; otherwise what    *)
(* the verb usually takes.                                                 *)
EstimateMinutes(a) ==
  CASE a.timeout > 0 -> AtMost(AtLeast((a.timeout + 9) \div 10, 5), 60)
    [] a.timeout = 0 /\ a.verb = "project.verify" -> 30
    [] a.timeout = 0 /\ a.verb = "project.smoke" -> 15
    [] a.timeout = 0 /\ a.verb = "project.inspect" -> 10
    [] OTHER -> 5

BoundedHours(h) == IF h = 0 THEN 8 ELSE AtMost(h, 24)

(* The autonomous recommended actions of all projects.                     *)
Autonomous(sight) ==
  UNION {{a \in ProjectPlan(p, sight[p]) : a.eligible /\ a.recommended} : p \in Projects}

(* They are sorted: i - 1 of them come before the i-th.                    *)
Candidates(sight) ==
  LET Before(a) == {b \in Autonomous(sight) : ComparePlanned(b, a)} IN
    [i \in 1 .. Cardinality(Autonomous(sight)) |->
       CHOOSE a \in Autonomous(sight) : Cardinality(Before(a)) = i - 1]

(* MUTANT: an action is taken as long as the night is not full.            *)
FitsIfAnyRoom(used, minutes, capacity) == used < capacity

Fits(used, minutes, capacity) == used + minutes <= capacity

(* overnightPlan: one pass, each action taken if it still fits.            *)
OvernightActions(sight, hours) ==
  LET queue == Candidates(sight)
      capacity == BoundedHours(hours) * 60
      Minutes(i) == EstimateMinutes(queue[i])
      used[i \in 0 .. Len(queue)] ==
        IF i = 0 THEN 0
        ELSE used[i - 1] + IF Fits(used[i - 1], Minutes(i), capacity) THEN Minutes(i) ELSE 0 IN
    [i \in 1 .. Len(queue) |->
       [action |-> queue[i], start |-> used[i - 1], minutes |-> Minutes(i),
        scheduled |-> Fits(used[i - 1], Minutes(i), capacity)]]

Scheduled(planned) == SelectSeq(planned, LAMBDA e : e.scheduled)

=============================================================================
