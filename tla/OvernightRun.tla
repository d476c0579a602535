---------------------------- MODULE OvernightRun ----------------------------
(***************************************************************************)
(* A night (overnight/queue.ts): an operator process sweeps the command    *)
(* debt (OvernightPreflight), plans (OvernightPlan), compiles a graph file *)
(* per action and queues it, either for the Ghost Shift launchd starts     *)
(* ("enqueue") or in a directory of its own that it then works off itself  *)
(* ("run").  A shift moves files by rename and tells the ledger after each *)
(* move (ghost/shift.ts; races between shifts are GhostShift's subject).   *)
(* Each operator process has at most one night.  The preflight gives way   *)
(* to other processes as OvernightPreflight says; after it one action per  *)
(* file written or moved, and per ledger event.                            *)
(***************************************************************************)
EXTENDS OvernightPreflight, OvernightPlan

CONSTANTS
  Sights,        \* what the projects may look like when a night is planned
  Hours,         \* --hours
  Launchd,       \* the process of the shifts launchd starts
  HandGraphs,    \* what a graph enqueued by hand may contain
  Budgets,       \* what may happen: submissions, nights, hand-enqueued graphs,
                 \* modes, --limit and plans of nights, shifts of launchd
  MaxEvents      \* bound on the ledger's events

Modes == {"enqueue", "run", "dry enqueue", "dry run"}
BudgetType == [submissions : Nat, nights : Nat, plans : Nat, modes : SUBSET Modes,
               limits : SUBSET Nat, hand : Nat, shifts : Nat]

ASSUME BudgetsAssumption == Budgets \subseteq BudgetType

\* boundedHours rounds what --hours says.
ASSUME HoursAssumption == Hours \subseteq Nat

\* launchd is no operator.
ASSUME LaunchdAssumption == Launchd \notin Operators

VARIABLES
  budget,   \* what may still happen
  night,    \* of each operator process: its night
  shift,    \* of each process: the shift it is in
  files,    \* the graph files in the queue directories
  ledger    \* the events a brief reads, in the order of their timestamps

nightVars == <<budget, night, shift, files, ledger>>
overnightVars == <<preflightVars, nightVars>>

ShiftProcesses == Operators \cup {Launchd}
Outcomes == {"completed", "failed", "blocked", "rejected"}

NoNight == [at |-> "off", mode |-> "none", limit |-> 0, hours |-> 0,
            plan |-> <<>>, graphs |-> <<>>, automated |-> 0, manual |-> 0,
            shift |-> [o \in Outcomes |-> 0], skipped |-> 0]

NoShift == [at |-> "off", todo |-> {}, graph |-> <<>>, to |-> "queue",
            tally |-> [o \in Outcomes |-> 0]]

OvernightInit ==
  /\ PreflightInit
  /\ budget \in Budgets
  /\ night = [o \in Operators |-> NoNight]
  /\ shift = [p \in ShiftProcesses |-> NoShift]
  /\ files = {}
  /\ ledger = <<>>

Append1(event) == Len(ledger) < MaxEvents /\ ledger' = Append(ledger, event)

-----------------------------------------------------------------------------
(* The preflight                                                           *)

At(o, step) == night' = [night EXCEPT ![o].at = step]

(* A dry run lists the stale commands and what it would requeue.           *)
DryPreflight(o, start) ==
  \E stale \in SUBSET Open, requeued \in SUBSET Commands :
    /\ Lapsed \subseteq stale /\ requeued \subseteq stale
    /\ \A c \in requeued : class[c] <= 1 /\ (status[c] = "queued" \/ c \in Lapsed)
    /\ \A c \in Lapsed : class[c] <= 1 => c \in requeued
    /\ night' = [night EXCEPT ![o] = [start EXCEPT !.at = "plan",
                   !.automated = Cardinality(requeued),
                   !.manual = Cardinality(stale \ requeued)]]
    /\ UNCHANGED preflightVars

(* `overnight enqueue` and `overnight run`, with or without --dry-run.     *)
StartNight(o, mode, limit, hours) ==
  /\ budget.nights > 0 /\ mode \in budget.modes
  /\ night[o].at = "off"
  /\ LET start == [NoNight EXCEPT !.at = "preflight", !.mode = mode, !.limit = limit,
                                  !.hours = hours] IN
       IF mode \in {"dry enqueue", "dry run"} THEN DryPreflight(o, start)
       ELSE StartSweep(o) /\ night' = [night EXCEPT ![o] = start]
  /\ budget' = [budget EXCEPT !.nights = @ - 1]
  /\ UNCHANGED <<shift, files, ledger>>

RequeueItem(o, c) ==
  /\ Remediate(o, c)
  /\ night' = [night EXCEPT ![o].automated = @ + 1]
  /\ UNCHANGED <<budget, shift, files, ledger>>

LeaveItem(o, c) ==
  /\ LeaveManual(o, c)
  /\ night' = [night EXCEPT ![o].manual = @ + 1]
  /\ UNCHANGED <<budget, shift, files, ledger>>

(* requeue throws: the night ends before anything is planned.              *)
SweepRead(o) ==
  /\ RequeueRead(o)
  /\ night' = [night EXCEPT ![o].at = IF sweep'[o].state = "aborted" THEN "dead" ELSE @]
  /\ UNCHANGED <<budget, shift, files, ledger>>

FinishSweep(o) ==
  /\ EndSweep(o)
  /\ At(o, "plan")
  /\ UNCHANGED <<budget, shift, files, ledger>>

-----------------------------------------------------------------------------
(* From the plan to the queue                                              *)

Dry(o) == night[o].mode \in {"dry enqueue", "dry run"}

(* overnightPlan.                                                          *)
Plan(o, sight) ==
  /\ budget.plans > 0 /\ night[o].at = "plan"
  /\ budget' = [budget EXCEPT !.plans = @ - 1]
  /\ night' = [night EXCEPT ![o].at = "compile",
                           ![o].plan = OvernightActions(sight, night[o].hours)]
  /\ UNCHANGED <<preflightVars, shift, files, ledger>>

(* What is compiled: the first `limit` of the scheduled actions.           *)
Chosen(o) ==
  LET scheduled == Scheduled(night[o].plan) IN
    SubSeq(scheduled, 1, AtMost(night[o].limit, Len(scheduled)))
Compiled(o) == night[o].at = "compile" /\ Len(night[o].graphs) = Len(Chosen(o))

(* The directory a night queues into: a run has its own, an enqueue uses   *)
(* that of the shifts launchd starts.                                      *)
QueueOf(o) == IF night[o].mode \in {"run", "dry run"} THEN o ELSE Launchd

(* cliForAction, and what assessGraph says of the one-node graph made of   *)
(* the action.  Its only side effect follows from the class.               *)
Supported(a) ==
  a.verb \in {"project.verify", "project.smoke", "project.status", "project.inspect",
              "launchd.status", "logs.read"}
GraphStatus(a) ==
  CASE ~Supported(a) -> "unsupported"
    [] Supported(a) /\ a.class > 1 -> "unsafe"
    [] OTHER -> "ready"

(* What a brief could find out of the compiled graph's file.               *)
NightContent(lane) ==
  [verdict |-> "safe", parses |-> TRUE, action |-> lane, label |-> lane, tool |-> "frontier",
   hint |-> "none", project |-> TRUE, demo |-> FALSE, name |-> "overnight"]

(* compileOvernightGraphs, one action: the graph is written and a copy is  *)
(* queued.                                                                 *)
CompileNext(o) ==
  /\ night[o].at = "compile" /\ ~Compiled(o)
  /\ LET action == Chosen(o)[Len(night[o].graphs) + 1].action
         graph == <<o, Len(night[o].graphs) + 1>>
         queued == GraphStatus(action) = "ready" /\ ~Dry(o) IN
       /\ night' = [night EXCEPT
                      ![o].graphs = Append(@, [lane |-> action.lane, queued |-> queued,
                                               status |-> GraphStatus(action)])]
       /\ files' = IF ~queued THEN files
                   ELSE files \cup {[graph |-> graph, queue |-> QueueOf(o), dir |-> "queue",
                                     content |-> NightContent(action.lane)]}
  /\ UNCHANGED <<preflightVars, budget, shift, ledger>>

InLane(graphs, lane) == {k \in 1 .. Len(graphs) : graphs[k].lane = lane}
Queued(graphs) == {k \in 1 .. Len(graphs) : graphs[k].queued}

Lanes == {"frontierd", "helper"}

(* summarizeOvernightLanes.                                                *)
LaneSummary(graphs) ==
  [l \in Lanes |-> [planned |-> Cardinality(InLane(graphs, l)),
                    queued |-> Cardinality(InLane(graphs, l) \cap Queued(graphs))]]

NightEvent(o, kind, verdict) ==
  [kind |-> kind, night |-> o, status |-> verdict, dry |-> Dry(o),
   lanes |-> LaneSummary(night[o].graphs), queued |-> Cardinality(Queued(night[o].graphs)),
   automated |-> night[o].automated, manual |-> night[o].manual,
   shift |-> night[o].shift, skipped |-> night[o].skipped]

(* enqueueOvernightPlan's event: once every graph is queued.               *)
TellEnqueued(o) ==
  /\ Compiled(o) /\ night[o].mode \in {"enqueue", "dry enqueue"}
  /\ LET graphs == night[o].graphs IN
       Append1(NightEvent(o, "enqueue",
                 IF Dry(o) THEN "planned"
                 ELSE IF Queued(graphs) = 1 .. Len(graphs) THEN "queued" ELSE "partial"))
  /\ At(o, "over")
  /\ UNCHANGED <<preflightVars, budget, shift, files>>

-----------------------------------------------------------------------------
(* Shifts                                                                  *)

InQueue(q) == {f.graph : f \in {g \in files : g.queue = q /\ g.dir = "queue"}}

(* `ghost enqueue` by hand, into the queue of launchd's shifts.            *)
EnqueueByHand(content) ==
  /\ budget.hand > 0
  /\ budget' = [budget EXCEPT !.hand = @ - 1]
  /\ files' = files \cup {[graph |-> <<Launchd, budget.hand>>, queue |-> Launchd,
                           dir |-> "queue", content |-> content]}
  /\ UNCHANGED <<preflightVars, night, shift, ledger>>

(* runShift lists the queue once.                                          *)
Listing(p) == [shift EXCEPT ![p] = [NoShift EXCEPT !.at = "next", !.todo = InQueue(p)]]

StartOwnShift(o) ==
  /\ Compiled(o) /\ night[o].mode = "run"
  /\ shift' = Listing(o)
  /\ At(o, "shift")
  /\ UNCHANGED <<preflightVars, budget, files, ledger>>

StartLaunchdShift ==
  /\ budget.shifts > 0 /\ shift[Launchd].at = "off"
  /\ budget' = [budget EXCEPT !.shifts = @ - 1]
  /\ shift' = Listing(Launchd)
  /\ UNCHANGED <<preflightVars, night, files, ledger>>

File(g) == CHOOSE f \in files : f.graph = g
Moved(g, to) == (files \ {File(g)}) \cup {[File(g) EXCEPT !.dir = to]}

(* processOne up to its first move: into running/, or into rejected/ when  *)
(* the file does not load or is not safe.                                  *)
TakeFile(p, g) ==
  /\ shift[p].at = "next" /\ g \in shift[p].todo
  /\ LET safe == File(g).content.verdict = "safe" IN
       /\ shift' = [shift EXCEPT ![p].todo = @ \ {g}, ![p].graph = g, ![p].to = "rejected",
                                 ![p].at = IF safe THEN "running" ELSE "tell"]
       /\ files' = Moved(g, IF safe THEN "running" ELSE "rejected")
  /\ UNCHANGED <<preflightVars, budget, night, ledger>>

(* runGraph returns and the file follows the result.  A graph the safety   *)
(* assessment passed has no node of class 2, so none waits for approval.   *)
RouteFile(p, outcome) ==
  /\ shift[p].at = "running"
  /\ shift' = [shift EXCEPT ![p].at = "tell", ![p].to = outcome]
  /\ files' = Moved(shift[p].graph, outcome)
  /\ UNCHANGED <<preflightVars, budget, night, ledger>>

OrElse(lane, other) == IF lane # "none" THEN lane ELSE other

(* graphEventMeta: nothing of a file that does not load.                   *)
EventLane(content) ==
  IF content.verdict = "invalid" THEN "none" ELSE OrElse(content.action, content.label)

(* The event after the move, and the row in the shift's results.           *)
TellOutcome(p) ==
  /\ shift[p].at = "tell"
  /\ Append1([kind |-> shift[p].to, graph |-> shift[p].graph,
              lane |-> EventLane(File(shift[p].graph).content),
              name |-> File(shift[p].graph).content.name])
  /\ shift' = [shift EXCEPT ![p].at = "next", ![p].tally[shift[p].to] = @ + 1]
  /\ UNCHANGED <<preflightVars, budget, night, files>>

(* The listing is done, or the time is up; the first file is always in     *)
(* time.                                                                   *)
EndShift(p) ==
  /\ shift[p].at = "next"
  /\ shift[p].todo = {} \/ shift[p].graph # <<>>
  /\ Append1([kind |-> "shift_end", tally |-> shift[p].tally])
  /\ shift' = [shift EXCEPT ![p] = NoShift]
  /\ night' = IF p = Launchd THEN night
              ELSE [night EXCEPT ![p].at = "record", ![p].shift = shift[p].tally,
                                 ![p].skipped = Cardinality(shift[p].todo)]
  /\ UNCHANGED <<preflightVars, budget, files>>

(* MUTANT: files that failed do not make the run a failed one.             *)
RunStatusRejections(o) ==
  LET n == night[o] IN
    CASE Dry(o) -> "planned"
      [] ~Dry(o) /\ n.shift.rejected > 0 -> "failed"
      [] ~Dry(o) /\ n.shift.rejected = 0 /\ n.shift.blocked > 0 -> "blocked"
      [] OTHER -> IF Queued(n.graphs) = {} THEN "partial" ELSE "completed"

(* runOvernightPlan's status.                                              *)
RunStatus(o) ==
  LET n == night[o] IN
    CASE Dry(o) -> "planned"
      [] ~Dry(o) /\ n.shift.rejected + n.shift.failed > 0 -> "failed"
      [] ~Dry(o) /\ n.shift.rejected + n.shift.failed = 0 /\ n.shift.blocked > 0 -> "blocked"
      [] OTHER -> IF Queued(n.graphs) = {} THEN "partial" ELSE "completed"

(* runOvernightPlan's event: a dry run has it right after the compilation. *)
TellRun(o) ==
  /\ IF night[o].mode = "dry run" THEN Compiled(o) ELSE night[o].at = "record"
  /\ Append1(NightEvent(o, "run", RunStatus(o)))
  /\ At(o, "over")
  /\ UNCHANGED <<preflightVars, budget, shift, files>>

-----------------------------------------------------------------------------

(* A process is killed: in a requeue, anywhere else in its night, or       *)
(* launchd's in its shift.                                                 *)
SweepingNightDies(o) ==
  /\ SweeperDies(o)
  /\ At(o, "dead")
  /\ UNCHANGED <<budget, shift, files, ledger>>

Killed == crashes < MaxCrashes /\ crashes' = crashes + 1

NightDies(o) ==
  /\ night[o].at \in {"plan", "compile", "shift", "record"}
  /\ Killed
  /\ At(o, "dead")
  /\ shift' = [shift EXCEPT ![o] = NoShift]
  /\ UNCHANGED <<storeVars, worker, op, stalls, approvalVars, sweep, budget, files, ledger>>

ShiftDies ==
  /\ shift[Launchd].at # "off"
  /\ Killed
  /\ shift' = [shift EXCEPT ![Launchd] = NoShift]
  /\ UNCHANGED <<storeVars, worker, op, stalls, approvalVars, sweep, budget, night, files,
                 ledger>>

(* The command store meanwhile; only submissions from outside are counted. *)
OtherStoreStep ==
  \/ \E w \in Workers, wanted \in Commands \cup {None} : Claim(w, wanted)
  \/ \E w \in Workers : Heartbeat(w) \/ WorkerStep(w) \/ WorkerDies(w)
  \/ \E c \in Commands : LeaseLapses(c)
  \/ \E o \in Operators : OperatorStep(o)

SubmitOne(c, k) ==
  /\ budget.submissions > 0
  /\ Submit(c, k)
  /\ budget' = [budget EXCEPT !.submissions = @ - 1]
  /\ UNCHANGED <<sweep, night, shift, files, ledger>>

NightStep(o) ==
  \/ \E mode \in budget.modes, limit \in budget.limits, hours \in Hours :
       StartNight(o, mode, limit, hours)
  \/ \E c \in Commands : RequeueItem(o, c) \/ LeaveItem(o, c)
  \/ SweepRead(o) \/ FinishSweep(o)
  \/ \E sight \in Sights : Plan(o, sight)
  \/ CompileNext(o) \/ TellEnqueued(o) \/ StartOwnShift(o) \/ TellRun(o)

ShiftStep(p) ==
  \/ \E g \in shift[p].todo : TakeFile(p, g)
  \/ \E outcome \in {"completed", "failed"} : RouteFile(p, outcome)
  \/ TellOutcome(p) \/ EndShift(p)

OvernightNext ==
  \/ OtherStoreStep /\ UNCHANGED <<sweep, nightVars>>
  \/ \E c \in Commands, k \in Classes : SubmitOne(c, k)
  \/ \E o \in Operators : NightStep(o) \/ SweepingNightDies(o) \/ NightDies(o)
  \/ \E content \in HandGraphs : EnqueueByHand(content)
  \/ StartLaunchdShift \/ ShiftDies
  \/ \E p \in ShiftProcesses : ShiftStep(p)

OvernightSpec == OvernightInit /\ [][OvernightNext]_overnightVars

-----------------------------------------------------------------------------

Told(kinds) == {i \in 1 .. Len(ledger) : ledger[i].kind \in kinds}
NightGraphs(o) == {f \in files : f.graph[1] = o}

(* The plan of a night: the scheduled actions run one after the other      *)
(* inside the night, and one is left out only when it does not fit beside  *)
(* the scheduled ones that precede it, so that none gives way to a later   *)
(* one that takes at least as long.                                        *)
PlanIsKept ==
  \A o \in Operators :
    LET plan == night[o].plan
        Ends(i) == plan[i].start + plan[i].minutes
        Capacity == BoundedHours(night[o].hours) * 60
        Taken == {i \in 1 .. Len(plan) : plan[i].scheduled} IN
      \A i \in 1 .. Len(plan) :
        IF i \in Taken
          THEN Ends(i) <= Capacity /\ \A j \in Taken : j < i => Ends(j) <= plan[i].start
          ELSE Ends(i) > Capacity
               /\ \A j \in Taken : i < j => plan[j].minutes < plan[i].minutes

(* What a run tells the ledger adds up with its directory, which it alone  *)
(* works off: every graph it queued has the outcome the totals say, or is  *)
(* still queued because the time was up; and it calls itself completed     *)
(* only when nothing it started went wrong.                                *)
NightIsAccounted ==
  \A i \in Told({"run"}) :
    LET run == ledger[i]
        Ended(d) == Cardinality({f \in NightGraphs(run.night) : f.dir = d}) IN
      /\ \A d \in Outcomes : run.shift[d] = Ended(d)
      /\ run.skipped = Ended("queue") /\ Ended("running") = 0
      /\ run.status = "completed" =>
           \A f \in NightGraphs(run.night) : f.dir \in {"completed", "queue"}

=============================================================================
