----------------------------- MODULE GhostShift -----------------------------
(***************************************************************************)
(* The Ghost Shift queue (ghost/shift.ts, ghost/safety.ts): graph files    *)
(* that move between directories by rename.  Shifts are processes started  *)
(* by launchd or by hand; two may overlap.  The process that runs a shift  *)
(* gives way only in the file system, between two calls, and while a graph *)
(* runs: one action per call that reads or moves a file.                   *)
(*                                                                         *)
(* A queued file is named after the second it was enqueued in, so a file   *)
(* is identified with that second, and two graphs enqueued under one base  *)
(* name within one second share it.                                        *)
(***************************************************************************)
EXTENDS Naturals, FiniteSets

CONSTANTS
  Shifts,       \* processes that run a shift
  MaxGraphs,    \* bound on the graphs enqueued
  MaxSeconds,   \* bound on the clock
  MaxCrashes    \* bound on shifts that are killed

ASSUME GhostAssumption ==
  MaxGraphs \in Nat /\ MaxSeconds \in Nat \ {0} /\ MaxCrashes \in Nat

VARIABLES
  dir,        \* dir[d][f]: the graph in file f of directory d, 0 for no file
  kind,       \* of each graph: what loading and assessing it says
  name,       \* of each enqueued graph: the file it was enqueued as
  enqueued,   \* graphs enqueued so far
  second,     \* the clock
  disabled,   \* the .disabled file exists
  shift,      \* where each shift stands
  started,    \* how often the execution of each graph started
  crashes     \* shifts killed so far

ghostVars == <<dir, kind, name, enqueued, second, disabled, shift, started, crashes>>

Graphs == 1 .. MaxGraphs
Files == 1 .. MaxSeconds
Routes == {"completed", "failed", "blocked"}
Dirs == {"queue", "running", "rejected"} \cup Routes
GraphKinds == {"safe", "unsafe", "invalid"}
ShiftSteps == {"off", "next", "claim", "reject", "executing", "route", "aborted"}

NoShift == [at |-> "off", todo |-> {}, file |-> 0, graph |-> 0, to |-> "queue"]

GhostTypeOK ==
  /\ dir \in [Dirs -> [Files -> 0 .. MaxGraphs]]
  /\ kind \in [Graphs -> GraphKinds]
  /\ name \in [Graphs -> Files \cup {0}]
  /\ enqueued \in 0 .. MaxGraphs
  /\ second \in Files
  /\ disabled \in BOOLEAN
  /\ shift \in [Shifts -> [at : ShiftSteps, todo : SUBSET Files, file : Files \cup {0},
                           graph : 0 .. MaxGraphs, to : Dirs]]
  /\ started \in [Graphs -> Nat]
  /\ crashes \in 0 .. MaxCrashes
  /\ \A s \in Shifts : shift[s].at \in {"claim", "executing", "route"} =>
       shift[s].graph \in 1 .. enqueued /\ shift[s].file \in Files

GhostInit ==
  /\ dir = [d \in Dirs |-> [f \in Files |-> 0]]
  /\ kind \in [Graphs -> GraphKinds]
  /\ name = [g \in Graphs |-> 0]
  /\ enqueued = 0
  /\ second = 1
  /\ disabled \in BOOLEAN
  /\ shift = [s \in Shifts |-> NoShift]
  /\ started = [g \in Graphs |-> 0]
  /\ crashes = 0

-----------------------------------------------------------------------------

InDir(d) == {f \in Files : dir[d][f] # 0}
Holding(g) == {p \in Dirs \X Files : dir[p[1]][p[2]] = g}

(* enqueue: a copy under the name of the current second, over whatever     *)
(* queue/ has there.                                                       *)
Enqueue ==
  /\ enqueued < MaxGraphs
  /\ enqueued' = enqueued + 1
  /\ name' = [name EXCEPT ![enqueued + 1] = second]
  /\ dir' = [dir EXCEPT !["queue"][second] = enqueued + 1]
  /\ UNCHANGED <<kind, second, disabled, shift, started, crashes>>

(* runShift: nothing happens under the kill switch, otherwise the queue is *)
(* listed once.                                                            *)
StartShift(s) ==
  /\ shift[s].at \in {"off", "aborted"}
  /\ ~disabled
  /\ shift' = [shift EXCEPT ![s] = [NoShift EXCEPT !.at = "next", !.todo = InDir("queue")]]
  /\ UNCHANGED <<dir, kind, name, enqueued, second, disabled, started, crashes>>

Oldest(S) == CHOOSE f \in S : \A h \in S : f <= h

(* loadGraph and assessGraph: a file that is gone reads as invalid.        *)
Verdict(g) == IF g # 0 /\ kind[g] = "safe" THEN "claim" ELSE "reject"

(* processOne up to its first move.                                        *)
LoadNext(s) ==
  /\ shift[s].at = "next" /\ shift[s].todo # {}
  /\ LET f == Oldest(shift[s].todo) IN
       shift' = [shift EXCEPT ![s] =
                   [at |-> Verdict(dir["queue"][f]), todo |-> @.todo \ {f}, file |-> f,
                    graph |-> dir["queue"][f], to |-> "rejected"]]
  /\ UNCHANGED <<dir, kind, name, enqueued, second, disabled, started, crashes>>

(* rename: onto whatever the destination has under this name.              *)
Moved(from, to, f) == [dir EXCEPT ![from][f] = 0, ![to][f] = dir[from][f]]

(* moveFile by shift s, after which it stands at "at".  When the source is *)
(* gone the rename, its retry and the copy all fail, and nothing catches   *)
(* the error: the process ends.                                            *)
MoveFile(s, from, to, at) ==
  LET f == shift[s].file IN
    IF dir[from][f] = 0
      THEN /\ shift' = [shift EXCEPT ![s] = [NoShift EXCEPT !.at = "aborted"]]
           /\ UNCHANGED dir
      ELSE /\ shift' = [shift EXCEPT ![s].at = at]
           /\ dir' = Moved(from, to, f)

(* MUTANT: a refused graph goes where failed ones go.                      *)
RejectAsFailed(s) ==
  /\ shift[s].at = "reject"
  /\ MoveFile(s, "queue", "failed", "next")
  /\ UNCHANGED <<kind, name, enqueued, second, disabled, started, crashes>>

(* A file that does not load or is not safe is moved to rejected/.         *)
Reject(s) ==
  /\ shift[s].at = "reject"
  /\ MoveFile(s, "queue", "rejected", "next")
  /\ UNCHANGED <<kind, name, enqueued, second, disabled, started, crashes>>

(* MUTANT: the graph starts although the move failed.                      *)
ClaimAnyway(s) ==
  /\ shift[s].at = "claim"
  /\ shift' = [shift EXCEPT ![s].at = "executing"]
  /\ dir' = IF dir["queue"][shift[s].file] = 0 THEN dir ELSE Moved("queue", "running", shift[s].file)
  /\ started' = [started EXCEPT ![shift[s].graph] = @ + 1]
  /\ UNCHANGED <<kind, name, enqueued, second, disabled, crashes>>

(* The move into running/, after which the graph starts.                   *)
Claim(s) ==
  /\ shift[s].at = "claim"
  /\ MoveFile(s, "queue", "running", "executing")
  /\ started' = IF dir["queue"][shift[s].file] = 0 THEN started
                ELSE [started EXCEPT ![shift[s].graph] = @ + 1]
  /\ UNCHANGED <<kind, name, enqueued, second, disabled, crashes>>

(* runGraph returns (completed, failed, awaiting_approval) or throws.      *)
Executed(s, route) ==
  /\ shift[s].at = "executing"
  /\ shift' = [shift EXCEPT ![s].at = "route", ![s].to = route]
  /\ UNCHANGED <<dir, kind, name, enqueued, second, disabled, started, crashes>>

Route(s) ==
  /\ shift[s].at = "route"
  /\ MoveFile(s, "running", shift[s].to, "next")
  /\ UNCHANGED <<kind, name, enqueued, second, disabled, started, crashes>>

(* MUTANT: a shift may end before it processed anything.                   *)
EndShiftAnytime(s) ==
  /\ shift[s].at = "next"
  /\ shift' = [shift EXCEPT ![s] = NoShift]
  /\ UNCHANGED <<dir, kind, name, enqueued, second, disabled, started, crashes>>

(* The list is done, or the time budget is spent; the first file is always *)
(* within the budget.                                                      *)
EndShift(s) ==
  /\ shift[s].at = "next"
  /\ shift[s].todo = {} \/ shift[s].file # 0
  /\ shift' = [shift EXCEPT ![s] = NoShift]
  /\ UNCHANGED <<dir, kind, name, enqueued, second, disabled, started, crashes>>

(* The process of a shift is killed.                                       *)
Crash(s) ==
  /\ shift[s].at \notin {"off", "aborted"}
  /\ crashes < MaxCrashes
  /\ crashes' = crashes + 1
  /\ shift' = [shift EXCEPT ![s] = NoShift]
  /\ UNCHANGED <<dir, kind, name, enqueued, second, disabled, started>>

Tick ==
  /\ second < MaxSeconds
  /\ second' = second + 1
  /\ UNCHANGED <<dir, kind, name, enqueued, disabled, shift, started, crashes>>

(* The operator touches or removes .disabled.                              *)
KillSwitch ==
  /\ disabled' = ~disabled
  /\ UNCHANGED <<dir, kind, name, enqueued, second, shift, started, crashes>>

ShiftStep(s) ==
  \/ LoadNext(s) \/ Reject(s) \/ Claim(s) \/ Route(s) \/ EndShift(s)
  \/ \E route \in Routes : Executed(s, route)

GhostNext ==
  \/ Enqueue \/ Tick \/ KillSwitch
  \/ \E s \in Shifts : StartShift(s) \/ ShiftStep(s) \/ Crash(s)

GhostSpec == GhostInit /\ [][GhostNext]_ghostVars

(* launchd starts shifts time and again, a graph run returns (its nodes    *)
(* time out), and the kill switch does not stay on for good.               *)
GhostFairSpec ==
  /\ GhostSpec
  /\ \A s \in Shifts : WF_ghostVars(ShiftStep(s)) /\ SF_ghostVars(StartShift(s))
  /\ WF_ghostVars(disabled /\ KillSwitch)

-----------------------------------------------------------------------------

(* No other graph was enqueued under the name of graph g.                  *)
Unique(g) == \A h \in 1 .. enqueued : name[h] = name[g] => h = g

(* A graph with a name of its own is started at most once, by whichever of *)
(* several overlapping shifts wins its rename, and not again after a kill: *)
(* running/ works as a lock.                                               *)
StartedOnce == \A g \in 1 .. enqueued : Unique(g) => started[g] <= 1

(* Every such graph is in exactly one directory, whatever shifts race,     *)
(* abort or die: nothing is lost and nothing is doubled.                   *)
InOnePlace == \A g \in 1 .. enqueued : Unique(g) => Cardinality(Holding(g)) = 1

(* The directory tells what happened: routed graphs were started, queued   *)
(* and rejected ones were not, and only refused graphs are rejected.       *)
DirectoryTellsHistory ==
  \A d \in Dirs, f \in Files :
    LET g == dir[d][f] IN
      g # 0 /\ Unique(g) =>
        /\ d \in Routes => started[g] = 1
        /\ d \in {"queue", "rejected"} => started[g] = 0
        /\ d = "rejected" => kind[g] # "safe"

(* Only graphs the safety assessment passed are ever executed, even when a *)
(* file is overwritten between the assessment and the move.                *)
OnlySafeGraphsStart == \A g \in Graphs : started[g] > 0 => kind[g] = "safe"

(* Whatever is queued leaves the queue, although a shift takes its listing *)
(* once, may run out of budget, and aborts when it loses a race.           *)
QueueDrains == \A f \in Files : (dir["queue"][f] # 0) ~> (dir["queue"][f] = 0)

(* Where a file lies and whether its graph ran follow from what the        *)
(* assessment said of it.                                                  *)
FilesTellTheTruth == DirectoryTellsHistory /\ OnlySafeGraphsStart

=============================================================================
