------------------------------- MODULE Scheduler ------------------------------
(***************************************************************************)
(* Who starts the watchers (scheduler/index.ts, scheduler/launchd.ts,      *)
(* cli.ts): the foreground scheduler with its interval and cron timers,    *)
(* launchd with the calendar entries made of the same cron expression, and *)
(* the operator's shell, which also runs the refinery's commands.          *)
(*                                                                         *)
(* The ticks of the scheduler run in its process and die with it.  Time    *)
(* is counted in hours of a short day; a cron expression is its hour, day  *)
(* and weekday fields.                                                     *)
(***************************************************************************)
EXTENDS Watchers

CONSTANTS
  Cron,       \* the cron expression of overnight-review
  Interval,   \* of the watchers with an interval schedule: the interval
  Horizon,    \* how far ahead a cron time is looked for (7 days)
  Never,      \* no time
  Nights         \* bounds of the exploration: each night is a function that
                 \* says how often each of some happenings happens at most

Star == {}  \* the field *

Fields == {"hour", "day", "weekday"}

ASSUME SchedulerAssumption ==
  /\ DOMAIN Cron = Fields /\ Never \notin Nat
  /\ DOMAIN Interval \subseteq Watched \ {Review}
  /\ Horizon \in Nat
  /\ \A n \in Nights : \A h \in DOMAIN n : n[h] \in Nat

VARIABLES
  up,      \* the scheduler is running
  armed,   \* when the timer of overnight-review fires, or Never
  due,     \* of the other scheduled watchers: when their timer fires next
  left     \* how often each happening may still happen

timers == <<up, armed, due>>

vars == <<nightVars, timers, left>>

(* One of the happenings that the exploration bounds.                      *)
Happens(h) ==
  /\ h \in DOMAIN left /\ left[h] > 0
  /\ left' = [left EXCEPT ![h] = @ - 1]

-----------------------------------------------------------------------------
(* Cron.                                                                   *)

FieldOf(field, t) ==
  CASE field = "hour" -> t % HoursPerDay
    [] field = "day" -> (Day(t) % 31) + 1
    [] field = "weekday" -> Day(t) % 7

CronMatches(t) ==
  \A f \in Fields : Cron[f] = Star \/ FieldOf(f, t) \in Cron[f]

(* nextCronFireTime: the first matching time after from, within Horizon.   *)
NextCronFireTime(from) ==
  LET times == {t \in from + 1 .. from + 1 + Horizon : CronMatches(t)}
  IN  IF times = {} THEN Never ELSE Min(times)

(* cronToCalendarEntries: one entry for each choice of a value in every    *)
(* field that is not a wildcard; an entry fires when all its fields agree. *)
CalendarEntries ==
  LET bound == {f \in Fields : Cron[f] # Star}
  IN  {e \in [bound -> UNION {Cron[f] : f \in bound}] :
         \A f \in bound : e[f] \in Cron[f]}

LaunchdFires ==
  \E e \in CalendarEntries : \A f \in DOMAIN e : FieldOf(f, now) = e[f]

-----------------------------------------------------------------------------
(* The scheduler.                                                          *)

Init ==
  /\ WatchersInit
  /\ up = FALSE /\ armed = Never /\ left \in Nights
  /\ due = [w \in DOMAIN Interval |-> Never]

(* runScheduler: every selected watcher gets its timer.                    *)
StartScheduler ==
  /\ ~up /\ Happens("scheduler")
  /\ up' = TRUE
  /\ armed' = NextCronFireTime(now)
  /\ due' = [w \in DOMAIN Interval |-> now + Interval[w]]
  /\ UNCHANGED nightVars

OwnedBy(owner) == {p \in Procs : tick[p].owner = owner}

(* stopAll, on a signal or after stopAfterMs, or the process is killed:    *)
(* the ticks that are running end where they are.                          *)
StopScheduler ==
  /\ up /\ Happens("stop")
  /\ up' = FALSE /\ armed' = Never
  /\ due' = [w \in DOMAIN Interval |-> Never]
  /\ proc' = [p \in Procs |-> IF p \in OwnedBy("scheduler") THEN Idle ELSE proc[p]]
  /\ tick' = [p \in Procs |-> IF p \in OwnedBy("scheduler") THEN NoTick
                              ELSE tick[p]]
  /\ UNCHANGED <<now, log, archived, changed, proposals, rules, tombstones,
                 passes, exported, dataset, promotions, killed, begun, stale,
                 snapshots, told, ended>>

(* The cron timer: the tick runs, and only then is the next one armed; a   *)
(* tick that is skipped is over at once.                                   *)
FireCron(p) ==
  /\ up /\ armed # Never /\ now >= armed
  /\ IF Review \in killed
     THEN armed' = NextCronFireTime(now) /\ UNCHANGED nightVars
     ELSE armed' = Never /\ RunWatcher(p, Review, "scheduler", FALSE)
  /\ Happens("cron")
  /\ UNCHANGED <<up, due>>

(* An interval timer fires whether or not the last tick has ended.         *)
FireInterval(p, w) ==
  /\ up /\ due[w] # Never /\ now >= due[w]
  /\ due' = [due EXCEPT ![w] = now + Interval[w]]
  /\ IF w \in killed THEN UNCHANGED nightVars
     ELSE RunWatcher(p, w, "scheduler", FALSE)
  /\ Happens("interval")
  /\ UNCHANGED <<up, armed>>

(* MUTANT: the next time is computed when the tick has succeeded.          *)
RearmedOnSuccess(p) ==
  IF /\ up /\ tick[p].owner = "scheduler" /\ proc[p].job = Review
     /\ proc'[p] = Idle /\ proc[p].pc = "alerts"
  THEN NextCronFireTime(now)
  ELSE armed

(* The finally of the cron tick.                                           *)
Rearmed(p) ==
  IF up /\ tick[p].owner = "scheduler" /\ proc[p].job = Review /\ proc'[p] = Idle
  THEN NextCronFireTime(now)
  ELSE armed

-----------------------------------------------------------------------------
(* launchd and the shell.                                                  *)

(* launchd starts no second process for a job that is still running.       *)
LaunchReview(p) ==
  /\ LaunchdFires
  /\ ~\E q \in Procs : tick[q].owner = "launchd" /\ proc[q].job = Review
  /\ RunWatcher(p, Review, "launchd", FALSE)
  /\ Happens("launchd")
  /\ UNCHANGED timers

(* frontier watcher run [--dry-run].                                       *)
ShellWatcher(p, w, dryRun) ==
  /\ RunWatcher(p, w, "shell", dryRun)
  /\ Happens(IF dryRun THEN "dry run" ELSE w)
  /\ UNCHANGED timers

(* The refinery's commands, each with the step it starts at.               *)
ShellRefinery(p, job, pc, rule) ==
  /\ Begin(p, job, pc, rule)
  /\ begun' = begun + 1
  /\ Happens(job)
  /\ UNCHANGED <<now, log, archived, changed, proposals, rules, tombstones,
                 passes, exported, dataset, promotions, killed, tick, stale,
                 snapshots, told, ended, timers>>

RefineryPropose(p) == ShellRefinery(p, "propose", "harvest", NoCause)
RefineryPromote(p, rule) == ShellRefinery(p, "promote", "check", rule)
RefineryRevoke(p, rule) == ShellRefinery(p, "revoke", "look", rule)
RefineryAutoPromote(p) == ShellRefinery(p, "auto-promote", "evaluate", NoCause)
RefineryEvalExport(p) == ShellRefinery(p, "eval-export", "build", NoCause)

(* A process of the shell or of launchd is killed between two steps.       *)
Die(p) ==
  /\ proc[p].pc # "idle" /\ tick[p].owner # "scheduler"
  /\ Happens("death")
  /\ Done(p)
  /\ tick' = [tick EXCEPT ![p] = NoTick]
  /\ UNCHANGED <<now, log, archived, changed, proposals, rules, tombstones,
                 passes, exported, dataset, promotions, killed, begun, stale,
                 snapshots, told, ended, timers>>

Step(p) ==
  /\ \/ RefineryStep(p) /\ UNCHANGED watcherVars
     \/ WatcherStep(p)
  /\ armed' = Rearmed(p)
  /\ UNCHANGED <<up, due, left>>

Start(p) ==
  \/ FireCron(p)
  \/ \E w \in DOMAIN Interval : FireInterval(p, w)
  \/ LaunchReview(p)
  \/ \E w \in Watched, dryRun \in BOOLEAN : ShellWatcher(p, w, dryRun)
  \/ RefineryPropose(p) \/ RefineryAutoPromote(p) \/ RefineryEvalExport(p)
  \/ \E rule \in Causes : RefineryPromote(p, rule) \/ RefineryRevoke(p, rule)

World ==
  /\ \/ Happens("hour") /\ Strike /\ UNCHANGED watcherVars
     \/ Happens("failure") /\ \E c \in Causes : Fail(c) /\ UNCHANGED watcherVars
     \/ Happens("archive") /\ \E n \in 1 .. Len(log) : Archive(n)
                           /\ UNCHANGED watcherVars
     \/ Happens("release") /\ \E cs \in SUBSET Causes : Release(cs)
                           /\ UNCHANGED watcherVars
     \/ Happens("kill switch") /\ \E w \in Watched : ToggleKillSwitch(w)
     \/ Happens("report") /\ \E r \in Reports : ReportChanges(r)
  /\ UNCHANGED timers

Next ==
  \/ \E p \in Procs : Step(p) \/ Start(p) \/ Die(p)
  \/ StartScheduler \/ StopScheduler
  \/ World

Spec == Init /\ [][Next]_vars

-----------------------------------------------------------------------------
(* Properties.                                                             *)

(* While the scheduler runs, overnight-review is waiting for its timer or  *)
(* running: a tick that threw, was skipped or failed does not end the      *)
(* schedule.  (An expression with no match within Horizon is given up for  *)
(* good: the example matches every day.)                                   *)
CronIsArmed ==
  up => \/ armed # Never
        \/ \E p \in OwnedBy("scheduler") : proc[p].job = Review

=============================================================================
