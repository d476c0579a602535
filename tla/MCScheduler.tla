------------------------------ MODULE MCScheduler -----------------------------
(***************************************************************************)
(* Instance of Scheduler: two causes, one whose reason both sides of the   *)
(* refinery take from the same field, and a failed command, whose reason   *)
(* the evaluation does not find; a day of one hour; a review every day.    *)
(***************************************************************************)
EXTENDS Scheduler, TLC

CONSTANTS node, command, p1, p2, r1, d1

MCCauses == {node, command}

MCKind == (node :> "work.node_failed") @@ (command :> "command.failed")

MCPayload == (node :> {"reason"}) @@ (command :> {"result.summary"})

MCProcs == {p1, p2}

Symmetry == Permutations(MCProcs)

MCReports == {r1}

MCPods == {d1}

MCCron == [hour |-> {0}, day |-> Star, weekday |-> Star]

MCInterval == (Portfolio :> 1)

(* A rule on its way to promotion, with a release that breaks its replay   *)
(* and one that takes it back.                                             *)
Promotion == ("failure" :> 1) @@ ("propose" :> 1) @@ ("auto-promote" :> 3)
               @@ ("release" :> 2) @@ ("hour" :> 2)

(* Promotion by itself and by hand and revocation of the same rules, with  *)
(* a death in between.                                                     *)
Hands == ("failure" :> 1) @@ ("propose" :> 1) @@ ("auto-promote" :> 2)
           @@ ("promote" :> 1) @@ ("revoke" :> 1) @@ ("hour" :> 1)
           @@ ("death" :> 1)

(* Exports, an archive and a death in between.                             *)
Exports == ("failure" :> 2) @@ ("propose" :> 1) @@ ("eval-export" :> 2)
             @@ ("archive" :> 1) @@ ("death" :> 1)

(* The portfolio from the scheduler and from the shell.                    *)
Portfolios == ("scheduler" :> 1) @@ ("stop" :> 1) @@ ("interval" :> 2)
                @@ (Portfolio :> 1) @@ ("dry run" :> 1) @@ ("report" :> 2)
                @@ ("hour" :> 1)

Deaths == (Portfolio :> 4) @@ ("report" :> 3) @@ ("death" :> 1)

(* Reviews from the scheduler and launchd, with kill switches.             *)
Reviews == ("scheduler" :> 2) @@ ("stop" :> 1) @@ ("cron" :> 2)
             @@ ("launchd" :> 1) @@ ("interval" :> 1) @@ ("kill switch" :> 1)
             @@ ("hour" :> 1)

(* A review of the rules, the radar and the idle killer.                   *)
Looks == ("failure" :> 2) @@ ("propose" :> 1) @@ (Review :> 1)
           @@ (Radar :> 1) @@ (IdleKiller :> 1)

MCNights == {Promotion, Hands, Exports, Portfolios, Deaths, Reviews, Looks}

=============================================================================
