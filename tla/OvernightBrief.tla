--------------------------- MODULE OvernightBrief ---------------------------
(***************************************************************************)
(* The morning brief (overnight/brief.ts): what the ledger's events since  *)
(* a given time say of nights, shifts and graphs, and what of it the       *)
(* operator must look at.  A brief reads the ledger and the queue          *)
(* directories and changes neither, so it is a set of operators.  An event *)
(* is identified with its place in the ledger, which is its timestamp.     *)
(* Left out: projects, verbs, and the lanes of commands in debt.           *)
(***************************************************************************)
EXTENDS OvernightRun

CONSTANT MaxShown   \* the length of the lists in a brief

ASSUME BriefAssumption == MaxShown \in Nat \ {0}

RunKinds == {"enqueue", "run"}
GenericTools == {"bash", "node", "codex"}

(* findEventsByKindInRange.                                                *)
Since(s) == s .. Len(ledger)
Of(s, kinds) == {i \in Since(s) : ledger[i].kind \in kinds}

(* dedupeRunEvents: one event per night, the run's before its enqueuing.   *)
RunLike(s) ==
  {i \in Of(s, RunKinds) :
     \A j \in Of(s, RunKinds) :
       ledger[j].night = ledger[i].night /\ j # i =>
         \/ ledger[i].kind = "run" /\ ledger[j].kind = "enqueue"
         \/ ledger[i].kind = ledger[j].kind /\ i < j}

-----------------------------------------------------------------------------
(* The lane of a graph                                                     *)

(* A bare tool is the business of its project, and of a demo when it is    *)
(* labelled one.                                                           *)
NormalizedLane(lane, content) ==
  LET normal == IF lane \in GenericTools \cup {"none"} /\ content.project
                  THEN "project" ELSE lane IN
    IF content.demo /\ normal \in GenericTools \cup {"none", "frontier"} THEN "demo" ELSE normal

(* inferGraphMetaFromRecord: what the planner wrote, else a label, the     *)
(* first tool, a hint among the labels, or the file's name.                *)
InferredLane(content) ==
  LET guess == OrElse(content.tool, OrElse(content.hint, content.name)) IN
    NormalizedLane(OrElse(content.action, OrElse(content.label, guess)), content)

(* graphMetaFromGhostShiftFile: only the queue of launchd's shifts is      *)
(* looked through, and only a file that parses says anything.              *)
Readable(g) == {f \in files : f.graph = g /\ f.queue = Launchd /\ f.content.parses}

(* ghostLaneMeta: the event's own lane, else the file's, else the name's.  *)
GhostLane(event) ==
  IF event.lane # "none" THEN event.lane
  ELSE IF Readable(event.graph) # {}
         THEN InferredLane((CHOOSE f \in Readable(event.graph) : TRUE).content)
         ELSE event.name

-----------------------------------------------------------------------------
(* The brief since event s                                                 *)

(* What events say of amounts adds up: an amount is so many pairs.         *)
PlannedItems(s, lane) ==
  UNION {{i} \X (1 .. ledger[i].lanes[lane].planned) : i \in RunLike(s)}
QueuedItems(s, lane) == UNION {{i} \X (1 .. ledger[i].lanes[lane].queued) : i \in RunLike(s)}
DebtItems(s) == UNION {{i} \X (1 .. ledger[i].manual) : i \in RunLike(s)}

(* laneSummaries: what the nights planned and queued in a lane, and what   *)
(* the graphs of the lane came to.                                         *)
LaneOf(s, lane) ==
  [planned |-> Cardinality(PlannedItems(s, lane)),
   queued |-> Cardinality(QueuedItems(s, lane)),
   ended |-> [d \in Outcomes |->
                Cardinality({i \in Of(s, {d}) : GhostLane(ledger[i]) = lane})]]

LaneStatus(entry) ==
  IF \E d \in Outcomes \ {"completed"} : entry.ended[d] > 0 THEN "attention"
  ELSE IF entry.planned + entry.queued + entry.ended.completed > 0 THEN "ok" ELSE "quiet"

(* The debt the preflights left to the operator.                           *)
DebtAttention(s) == Cardinality(DebtItems(s))

(* MUTANT: only what the runs say of their own shifts is counted.          *)
AttentionCountOfRuns(s) ==
  DebtAttention(s)
    + Cardinality(UNION {{i} \X (1 .. ledger[i].shift.failed + ledger[i].shift.rejected) :
                           i \in RunLike(s)})

(* attentionCount.                                                         *)
AttentionCount(s) ==
  Cardinality(Of(s, Outcomes \ {"completed"})) + DebtAttention(s)

BriefStatus(s) ==
  IF AttentionCount(s) > 0 THEN "attention"
  ELSE IF RunLike(s) \cup Of(s, {"shift_end", "completed"}) # {} THEN "ok" ELSE "quiet"

(* The items of manualAttention: <<event, number>>, the later the newer.   *)
GhostItems(s) == {<<i, 1>> : i \in Of(s, Outcomes \ {"completed"})}

Newer(x, y) == x[1] > y[1] \/ (x[1] = y[1] /\ x[2] > y[2])
Newest(items) == {x \in items : Cardinality({y \in items : Newer(y, x)}) < MaxShown}

(* Either kind is cut to its newest before both are merged and cut again.  *)
ManualAttention(s) == Newest(Newest(GhostItems(s)) \cup Newest(DebtItems(s)))

-----------------------------------------------------------------------------

(* The shifts that moved a file and have not told the ledger.              *)
InFlight == {p \in ShiftProcesses : shift[p].at = "tell"}

(* A brief of the whole ledger agrees with the queue directories, whatever *)
(* nights and shifts were killed: of every outcome it counts the graphs    *)
(* that are in its directory, short of at most one per process that is     *)
(* between the move and the event or died there; and when it asks for no   *)
(* attention no graph the operator should look at is hidden from it        *)
(* otherwise.                                                              *)
OutcomesAreTold ==
  LET InDirectory(d) == Cardinality({f \in files : f.dir = d})
      Bad == {f \in files : f.dir \in Outcomes \ {"completed"}} IN
    /\ \A d \in Outcomes :
         /\ Cardinality(Of(1, {d})) <= InDirectory(d)
         /\ InDirectory(d) <= Cardinality(Of(1, {d})) + crashes + Cardinality(InFlight)
    /\ BriefStatus(1) # "attention" => Cardinality(Bad) <= crashes + Cardinality(InFlight)

(* When every night told its event, the lanes of the brief account for the *)
(* files: a lane queued exactly the graphs that lie in the directories     *)
(* for it, and no more of them ended than were queued.                     *)
LanesAgree ==
  (\A o \in Operators : night[o].at \in {"off", "over"}) =>
    \A lane \in Lanes :
      LET mine == {f \in files : f.graph[1] \in Operators /\ f.content.action = lane} IN
        /\ LaneOf(1, lane).queued = Cardinality(mine)
        /\ \A d \in Outcomes :
             Cardinality({f \in mine : f.dir = d}) >=
               Cardinality({i \in Of(1, {d}) : ledger[i].graph[1] \in Operators
                                               /\ GhostLane(ledger[i]) = lane})
        /\ (\E f \in mine : f.dir = "failed") /\ InFlight = {} /\ crashes = 0 =>
             LaneStatus(LaneOf(1, lane)) = "attention"

(* Whatever the window, no item the brief leaves off its list is newer     *)
(* than one it shows, and it leaves none off while there is room.          *)
NewestIsShown ==
  \A s \in 1 .. Len(ledger) :
    LET all == GhostItems(s) \cup DebtItems(s)
        shown == ManualAttention(s) IN
      /\ shown \subseteq all
      /\ \A x \in all \ shown : Cardinality({y \in shown : Newer(y, x)}) = MaxShown

(* What a brief says of outcomes and of lanes is true of the files, and    *)
(* what it lists is what is newest.                                        *)
BriefIsHonest == OutcomesAreTold /\ LanesAgree /\ NewestIsShown

=============================================================================
