------------------------------- MODULE Watchers -------------------------------
(***************************************************************************)
(* The watchers (watchers/*.ts) and the runtime that runs one tick of one  *)
(* of them: kill switch, watcher.tick event, the watcher's own work, its   *)
(* alerts appended one by one, watcher.result event.                       *)
(*                                                                         *)
(* overnight-review reads the window's invocations and then goes through   *)
(* the refinery's evaluation and promotion; nightly-sf-portfolio stores a  *)
(* snapshot of the stale reports as an alert and tells which of them the   *)
(* latest earlier snapshot it finds does not have; work-radar and          *)
(* runpod-idle-killer look at the world once.                              *)
(***************************************************************************)
EXTENDS Refinery

CONSTANTS
  Reports,       \* reports of the Salesforce org
  Pods,          \* pods of the RunPod account
  IdleHours,     \* a pod that long in one status is idle
  SessionLimit   \* how many of the newest sessions are searched (200)

ASSUME WatcherAssumption ==
  /\ IdleHours \in Nat /\ SessionLimit \in Nat \ {0}
  /\ IsFiniteSet(Reports) /\ IsFiniteSet(Pods)
  /\ "snapshot" \notin Reports \cup Pods

VARIABLES
  killed,     \* watchers whose kill switch file exists
  tick,       \* of each process: the tick it runs
  begun,      \* how many sessions have been started
  stale,      \* the reports that are stale at present
  snapshots,  \* the snapshot alerts, in the order they were appended
  told,       \* the new-stale alerts
  ended       \* sessions whose watcher.result was appended

watcherVars ==
  <<killed, tick, begun, stale, snapshots, told, ended>>

nightVars == <<refineryVars, watcherVars>>

Review == "overnight-review"
Portfolio == "nightly-sf-portfolio"
Radar == "work-radar"
IdleKiller == "runpod-idle-killer"

Watched == {Review, Portfolio, Radar, IdleKiller}

Decisions ==
  {"none", "no_change", "notify", "recommend", "escalate", "failed"}

NoTick == [session |-> 0, owner |-> "none", dryRun |-> FALSE,
           decision |-> "none", alerts |-> <<>>, snapshot |-> {}, had |-> 0]

WatchersInit ==
  /\ RefineryInit
  /\ killed = {} /\ tick = [p \in Procs |-> NoTick] /\ begun = 0
  /\ stale = {} /\ snapshots = <<>> /\ told = {} /\ ended = {}

-----------------------------------------------------------------------------
(* runWatcher up to the watcher's own work.  Nothing happens, and nothing  *)
(* is appended, when the kill switch file is there.                        *)
RunWatcher(p, watcher, owner, dryRun) ==
  /\ watcher \notin killed
  /\ Begin(p, watcher, "run", NoCause)
  /\ begun' = begun + 1
  /\ tick' = [tick EXCEPT ![p] =
                [NoTick EXCEPT !.session = begun + 1, !.owner = owner,
                               !.dryRun = dryRun, !.had = Len(snapshots)]]
  /\ UNCHANGED <<now, log, archived, changed, proposals, rules, tombstones,
                 passes, exported, dataset, promotions, killed, stale,
                 snapshots, told, ended>>

(* The watcher's decision and the alerts it asks for; a watcher that       *)
(* throws has decided nothing and the tick ends as failed, before          *)
(* watcher.result.                                                         *)
Decide(p, decision, alerts) ==
  /\ tick' = [tick EXCEPT ![p].decision = decision,
                          ![p].alerts = IF tick[p].dryRun THEN <<>> ELSE alerts]
  /\ Goto(p, "alerts")

WatcherThrows(p) ==
  /\ proc[p].pc = "run" /\ proc[p].job \in {Portfolio, Radar, Review}
  /\ Done(p)
  /\ tick' = [tick EXCEPT ![p] = NoTick]
  /\ UNCHANGED <<now, log, archived, changed, proposals, rules, tombstones,
                 passes, exported, dataset, promotions, killed, begun, stale,
                 snapshots, told, ended>>

WorldUnchanged ==
  UNCHANGED <<now, log, archived, changed, proposals, rules, tombstones,
              passes, exported, dataset, promotions, killed, begun, stale,
              snapshots, told, ended>>

-----------------------------------------------------------------------------
(* overnight-review: the decision on the invocations of the window; an     *)
(* invocation may have failed in the window and started before it.         *)
ActivityDecision(activity, failure, blocking, finding) ==
  CASE ~activity -> "no_change"
    [] activity /\ (blocking \/ failure) -> "escalate"
    [] activity /\ ~blocking /\ ~failure /\ finding -> "recommend"
    [] OTHER -> "notify"

ReviewActivity(p) ==
  /\ proc[p].pc = "run" /\ proc[p].job = Review
  /\ \E activity, failure, blocking, finding \in BOOLEAN :
       tick' = [tick EXCEPT
         ![p].decision = ActivityDecision(activity, failure, blocking, finding),
         ![p].alerts = IF activity \/ failure THEN <<Review>> ELSE <<>>]
  /\ proc' = [proc EXCEPT
       ![p].since = IF now > HoursPerDay THEN now - HoursPerDay ELSE 0,
       ![p].pc = "evaluate"]
  /\ WorldUnchanged

Regressed(result) == \E r \in result : r.regressed > 0

(* The self-improvement pass makes the decision graver, never milder.      *)
ReviewDecision(decision, result, signals) ==
  IF Regressed(result) THEN "escalate"
  ELSE IF signals # {} /\ decision \notin {"escalate", "recommend"}
       THEN "recommend"
       ELSE decision

ReviewOutput(p) ==
  /\ proc[p].pc = "output"
  /\ Decide(p, ReviewDecision(tick[p].decision, proc[p].result,
                              proc[p].signals),
            tick[p].alerts)
  /\ WorldUnchanged

-----------------------------------------------------------------------------
(* nightly-sf-portfolio.                                                   *)

(* The inventory; an org that does not answer is a decision of its own.    *)
Inventory(p) ==
  /\ proc[p].pc = "run" /\ proc[p].job = Portfolio
  /\ \/ Decide(p, "failed", <<>>)
     \/ /\ tick' = [tick EXCEPT ![p].snapshot = stale]
        /\ Goto(p, "prior")
  /\ WorldUnchanged

(* MUTANT: the sessions are walked from the oldest.                        *)
LeastRecent(ks) ==
  CHOOSE k \in ks : \A j \in ks : snapshots[j].session >= snapshots[k].session

(* loadMostRecentPriorSnapshot: the session that started last, among the   *)
(* SessionLimit newest, and has a snapshot.                                *)
Priors(session) ==
  {k \in 1 .. Len(snapshots) :
     /\ snapshots[k].session # session
     /\ snapshots[k].session > begun - SessionLimit}

MostRecent(ks) ==
  CHOOSE k \in ks : \A j \in ks : snapshots[j].session <= snapshots[k].session

(* diffStale.                                                              *)
NewStale(prior, current) == current \ prior

DiffWithPrior(p) ==
  /\ proc[p].pc = "prior"
  /\ LET priors == Priors(tick[p].session)
         new == IF priors = {} THEN {}
                ELSE NewStale(snapshots[MostRecent(priors)].reports,
                              tick[p].snapshot)
     IN  Decide(p, IF priors # {} /\ new = {} THEN "no_change" ELSE "notify",
                <<"snapshot">> \o SetToSeq(new))
  /\ WorldUnchanged

-----------------------------------------------------------------------------
RadarKinds == {"work.node_failed", "work.verifier_fail",
               "ghost.graph_rejected", "agent.review"}

(* work-radar: failures of the last hour, the ghost shift's backlog, the   *)
(* proposals that are not rules yet, and the research briefs of the day.   *)
RadarDecision(failures, backlog, pending, briefs) ==
  LET signals == failures > 0 \/ backlog > 0 \/ pending > 0 \/ briefs = 0
  IN  CASE ~signals -> "no_change"
        [] failures >= 5 \/ backlog >= 10 \/ pending >= 3 -> "escalate"
        [] /\ failures \in 1 .. 4 \/ backlog \in 3 .. 9 \/ pending \in 1 .. 2
           /\ failures < 5 /\ backlog < 10 /\ pending < 3 -> "recommend"
        [] OTHER -> "notify"

RadarTick(p) ==
  /\ proc[p].pc = "run" /\ proc[p].job = Radar
  /\ \E backlog \in {0, 3, 10}, briefs \in {0, 1} :
       LET failures == Cardinality({i \in archived + 1 .. Len(log) :
                                      /\ Kind[log[i].cause] \in RadarKinds
                                      /\ log[i].at + 1 >= now})
           decision == RadarDecision(failures, backlog, Len(Candidates), briefs)
       IN  Decide(p, decision,
                  IF decision = "no_change" THEN <<>> ELSE <<Radar>>)
  /\ WorldUnchanged

-----------------------------------------------------------------------------
(* runpod-idle-killer: an alert for every pod that runs and whose status   *)
(* has not changed for IdleHours; it never stops one.  A status whose time *)
(* cannot be read is 0.                                                    *)
IdleCandidates(status, since) ==
  {d \in Pods : /\ status[d] = "RUNNING"
                /\ since[d] > 0 /\ now + 1 - since[d] >= IdleHours}

IdleKillerTick(p) ==
  /\ proc[p].pc = "run" /\ proc[p].job = IdleKiller
  /\ \/ Decide(p, "failed", <<>>)
     \/ \E status \in [Pods -> {"RUNNING", "EXITED"}],
           since \in [Pods -> 0 .. now + 1] :
          LET idle == IdleCandidates(status, since)
          IN  Decide(p, IF idle = {} THEN "no_change" ELSE "recommend",
                     SetToSeq(idle))
  /\ WorldUnchanged

-----------------------------------------------------------------------------
(* runWatcher after the watcher's own work: the alerts, then the result.   *)
AppendAlert(p) ==
  /\ proc[p].pc = "alerts" /\ tick[p].alerts # <<>>
  /\ LET alert == Head(tick[p].alerts)
         row == [session |-> tick[p].session, reports |-> tick[p].snapshot,
                 had |-> tick[p].had]
     IN  /\ snapshots' = IF alert = "snapshot" THEN Append(snapshots, row)
                         ELSE snapshots
         /\ told' = IF alert \in Reports
                    THEN told \cup {[session |-> tick[p].session,
                                     report |-> alert]}
                    ELSE told
  /\ tick' = [tick EXCEPT ![p].alerts = Tail(@)]
  /\ UNCHANGED <<refineryVars, killed, begun, stale, ended>>

AppendResult(p) ==
  /\ proc[p].pc = "alerts" /\ tick[p].alerts = <<>>
  /\ IF tick[p].dryRun
     THEN UNCHANGED ended
     ELSE ended' = ended \cup {tick[p].session}
  /\ Done(p)
  /\ tick' = [tick EXCEPT ![p] = NoTick]
  /\ UNCHANGED <<now, log, archived, changed, proposals, rules, tombstones,
                 passes, exported, dataset, promotions, killed, begun, stale,
                 snapshots, told>>

WatcherStep(p) ==
  \/ WatcherThrows(p)
  \/ ReviewActivity(p) \/ ReviewOutput(p)
  \/ Inventory(p) \/ DiffWithPrior(p)
  \/ RadarTick(p) \/ IdleKillerTick(p)
  \/ AppendAlert(p) \/ AppendResult(p)

-----------------------------------------------------------------------------
(* The world of the watchers.                                              *)

ToggleKillSwitch(w) ==
  /\ killed' = IF w \in killed THEN killed \ {w} ELSE killed \cup {w}
  /\ UNCHANGED <<refineryVars, tick, begun, stale, snapshots, told, ended>>

ReportChanges(r) ==
  /\ stale' = IF r \in stale THEN stale \ {r} ELSE stale \cup {r}
  /\ UNCHANGED <<refineryVars, killed, tick, begun, snapshots, told, ended>>

-----------------------------------------------------------------------------
(* Properties.                                                             *)

(* Snapshot k was taken by a tick that began when snapshot k - 1 was the   *)
(* last one stored, by the session that began last, and still in reach.    *)
FollowsPrevious(k) ==
  /\ k > 1 /\ snapshots[k].had = k - 1
  /\ \A j \in 1 .. k - 2 : snapshots[j].session < snapshots[k - 1].session
  /\ snapshots[k - 1].session \in begun - SessionLimit + 1
                                    .. snapshots[k].session - 1

(* A portfolio tick that ended has told of exactly the reports that are in *)
(* its snapshot and were not in the one before, however many ticks died    *)
(* half way, ran dry or failed in between.  (A tick that ran while another *)
(* one was running, or more than SessionLimit sessions later, finds no or  *)
(* another snapshot to compare with.)                                      *)
NewStaleIsTold ==
  \A k \in 1 .. Len(snapshots) :
    LET session == snapshots[k].session
        reported == {t.report : t \in {t \in told : t.session = session}}
    IN  FollowsPrevious(k) /\ session \in ended =>
          reported = snapshots[k].reports \ snapshots[k - 1].reports

=============================================================================
