---------------------------- MODULE AdapterProofs -----------------------------
(* Theorems about AdapterInvocation: what the result of an adapter command   *)
(* says is what its page went through.  One inductive invariant follows the  *)
(* command through the loop: how often it was undone and why (CountOK), what *)
(* the page showed by then (SeenOK), what the result will have to tell       *)
(* (ToldOK), and what a rollback can still restore (RestoreOK).              *)
EXTENDS AdapterInvocation, TLAPS

Forward == {"act", "network", "stable", "predicate", "drain"}
Judged == {"network", "stable", "predicate", "drain", "undo", "done"}

\* The commands that remember what their control showed, and those whose
\* rollback is left out of RollbackRestores.
Remembering == {"enter-text", "select-native"}
Unrestored == {"navigate", "save-dashboard", "select-custom", "set-filter-classic"}

WantedSeen == \E label \in page.seen : Includes(label, goal.wanted)
Untouched == page.shown = goal.before /\ page.late = NoLabel

PageOK ==
  /\ page.shown \in page.seen
  /\ cmd # "navigate" => page.shown # Earlier /\ page.late # Earlier
  /\ cmd # "save-dashboard" => page.saved = goal.before

BeginOK ==
  /\ proc \in {"called", "started"} =>
       page = NewPage(goal.before) /\ loop = NewLoop /\ ~disturbed
  /\ proc = "working" => loop.at # "idle"

\* A check failed in the leg that runs, or none did; and the one rollback
\* comes after the leg in which one failed.
CountOK ==
  /\ loop.lost <=> loop.failed # {}
  /\ loop.at \in {"idle", "start"} => ~loop.lost
  /\ loop.at \in Forward \cup {"idle", "start"} => loop.undone = 0
  /\ loop.at = "undo" => loop.undone = 1 /\ loop.lost
  /\ loop.at = "done" =>
       /\ loop.undone \in {0, 1}
       /\ loop.undone = 1 => loop.lost
       /\ (loop.undone = 1 /\ cmd \in {"set-filter-dropdown", "set-filter-classic"}) =>
            loop.rolledBack
       /\ (loop.undone = 0 /\ loop.lost) => ~HasRollback
  /\ loop.rolledBack => loop.at = "done" /\ loop.undone = 1
  /\ (loop.at \in Judged /\ ~loop.lost) => loop.action = "passed"

\* A report's action passes only on what it saw; the others have a predicate.
SeenOK ==
  /\ (cmd \in ReportCommands /\ loop.at \in Judged /\ loop.action = "passed") => WantedSeen
  /\ (/\ cmd \notin Selects \cup {"click-element"}
      /\ cmd = "set-filter-dropdown" => loop.leg = 3
      /\ ~Includes(goal.other, goal.wanted)
      /\ loop.at \in {"drain", "done"} /\ ~loop.lost) => WantedSeen

\* As long as nothing is reported nothing was changed.
ToldOK ==
  /\ (loop.at # "idle" /\ cmd \in AlwaysReports) => loop.reported
  /\ (/\ cmd \notin AlwaysReports
      /\ \/ loop.at = "start"
         \/ loop.at = "act" /\ (loop.part = 0 \/ cmd \in Selects)) => ~loop.reported
  /\ (cmd = "enter-text" /\ loop.at = "act" /\ loop.part # 0) => loop.reported
  /\ (cmd # "navigate" /\ ~loop.reported /\ ~loop.rolledBack) => Untouched

\* The remembered label is that of before, and the token of the target is
\* there as long as the page was not rendered anew.
RestoreOK ==
  /\ (cmd \in Selects /\ page.tagged) => loop.prev # NoLabel
  /\ (cmd = "set-filter-classic" /\ loop.at = "undo" /\ loop.part = 1) => loop.prev # NoLabel
  /\ (cmd \in Remembering /\ loop.prev # NoLabel) => loop.prev = goal.before
  /\ (cmd = "enter-text" /\ loop.prev # NoLabel /\ ~disturbed) => page.tagged
  /\ (/\ loop.rolledBack /\ ~disturbed
      /\ cmd \in Remembering => loop.prev # NoLabel
      /\ cmd \notin Unrestored) => Untouched

ResultOK ==
  /\ proc \in {"called", "started", "working", "died"} => result = NoResult
  /\ (proc = "returned" /\ loop.at = "done") => ~Wraps
  /\ result.status = "success" => loop.at = "done" /\ Ok /\ ~Wraps
  /\ result.rolledBack => loop.rolledBack
  /\ (cmd # "navigate" /\ proc \in {"returned", "exited"}) =>
       result.reported = loop.reported /\ result.rolledBack = loop.rolledBack

AdapterInv ==
  /\ InvocationTypeOK
  /\ PageOK /\ BeginOK /\ CountOK /\ SeenOK /\ ToldOK /\ RestoreOK /\ ResultOK

-----------------------------------------------------------------------------
(* The beginning and the end of an invocation.                               *)

LEMMA NewPageIs ==
  ASSUME NEW label \in Labels
  PROVE  /\ NewPage(label) \in PageType
         /\ NewPage(label).shown = label /\ NewPage(label).late = NoLabel
         /\ NewPage(label).saved = label /\ NewPage(label).seen = {label}
         /\ ~NewPage(label).tagged
BY LoopAssumption DEF NewPage, PageType, Shown

LEMMA NewLoopIs ==
  /\ NewLoop \in LoopType
  /\ NewLoop.at = "idle" /\ NewLoop.failed = {} /\ NewLoop.lost = FALSE /\ NewLoop.undone = 0
  /\ NewLoop.rolledBack = FALSE /\ NewLoop.prev = NoLabel /\ NewLoop.reported = FALSE
BY DEF NewLoop, LoopType, Positions, Checks

LEMMA InvocationBegins == Init => AdapterInv
<1> SUFFICES ASSUME Init PROVE AdapterInv
  OBVIOUS
<1>1. goal \in [before : Labels, wanted : Labels, other : Labels, expect : BOOLEAN]
  BY DEF Init
<1>2. page = NewPage(goal.before) /\ loop = NewLoop /\ goal.before \in Labels
  BY <1>1 DEF Init
<1>3. result = NoResult /\ NoResult \in [status : {"none", "success", "failed"},
                                         reported : BOOLEAN, rolledBack : BOOLEAN]
  BY DEF Init, NoResult
<1>4. InvocationTypeOK
  BY <1>1, <1>2, <1>3, NewPageIs, NewLoopIs DEF Init, InvocationTypeOK, LoopTypeOK
<1>5. PageOK /\ BeginOK /\ CountOK /\ SeenOK /\ ToldOK
  BY <1>2, NewPageIs, NewLoopIs, LoopAssumption
     DEF Init, PageOK, BeginOK, CountOK, SeenOK, ToldOK, Untouched, Forward, Judged
<1>6. RestoreOK
  BY <1>2, NewPageIs, NewLoopIs DEF RestoreOK
<1>7. ResultOK
  BY <1>3 DEF Init, ResultOK, NoResult
<1> QED BY <1>4, <1>5, <1>6, <1>7 DEF AdapterInv

\* The steps that leave page and loop alone.
LEMMA OuterKeeps ==
  ASSUME AdapterInv,
         StartInvocation \/ UnknownCommand \/ RefuseInvocation \/ RecordEnd
           \/ RecordSideEffects \/ UNCHANGED vars
  PROVE  AdapterInv'
<1>1. UNCHANGED loopVars
  BY DEF StartInvocation, UnknownCommand, RefuseInvocation, RecordEnd, RecordSideEffects, vars
<1>2. PageOK' /\ CountOK' /\ SeenOK' /\ ToldOK' /\ RestoreOK' /\ LoopTypeOK'
  BY <1>1 DEF AdapterInv, InvocationTypeOK, loopVars, PageOK, CountOK, SeenOK, ToldOK, RestoreOK,
     LoopTypeOK, WantedSeen, Untouched, HasRollback
<1>3. InvocationTypeOK'
  BY <1>2 DEF AdapterInv, InvocationTypeOK, StartInvocation, UnknownCommand, RefuseInvocation,
     RecordEnd, RecordSideEffects, vars, Failed, NoResult
<1>4. BeginOK'
  BY <1>1 DEF AdapterInv, BeginOK, StartInvocation, UnknownCommand, RefuseInvocation,
     RecordEnd, RecordSideEffects, vars, loopVars
<1>5. Wraps' = Wraps /\ Ok' = Ok
  BY <1>1 DEF Wraps, Ok, loopVars
<1>6. CASE UnknownCommand \/ RefuseInvocation
  <2>1. loop = NewLoop /\ result = NoResult
    BY <1>6 DEF UnknownCommand, RefuseInvocation, AdapterInv, BeginOK, ResultOK
  <2>2. loop' = NewLoop /\ (result' = NoResult \/ result' = Failed)
        /\ proc' \in {"returned", "exited"}
    BY <1>1, <1>6, <2>1 DEF UnknownCommand, RefuseInvocation, loopVars
  <2>3. result'.status # "success" /\ result'.reported = FALSE /\ result'.rolledBack = FALSE
    BY <2>2 DEF NoResult, Failed
  <2>4. ResultOK'
    BY <2>2, <2>3, NewLoopIs DEF ResultOK
  <2> QED BY <1>2, <1>3, <1>4, <2>4 DEF AdapterInv
<1>7. CASE ~(UnknownCommand \/ RefuseInvocation)
  <2>1. UNCHANGED result /\ (proc' = proc \/ (proc = "called" /\ proc' = "started")
                               \/ (proc = "returned" /\ proc' = "exited"))
    BY <1>7 DEF StartInvocation, RecordEnd, RecordSideEffects, vars
  <2>2. ResultOK'
    BY <1>1, <1>5, <2>1 DEF AdapterInv, ResultOK, loopVars
  <2> QED BY <1>2, <1>3, <1>4, <2>2 DEF AdapterInv
<1> QED BY <1>6, <1>7

LEMMA AttachKeeps == ASSUME AdapterInv, Attach PROVE AdapterInv'
<1>1. /\ page = NewPage(goal.before) /\ loop = NewLoop /\ ~disturbed /\ goal.before \in Labels
      /\ result = NoResult
  BY DEF AdapterInv, BeginOK, ResultOK, Attach, InvocationTypeOK, LoopTypeOK
<1>2. loop' = [NewLoop EXCEPT !.at = "start", !.reported = cmd \in AlwaysReports]
  BY <1>1 DEF Attach
<1>3. /\ loop' \in LoopType
      /\ loop'.at = "start" /\ loop'.failed = {} /\ ~loop'.lost /\ loop'.undone = 0
      /\ ~loop'.rolledBack /\ loop'.prev = NoLabel
      /\ loop'.reported = TRUE <=> cmd \in AlwaysReports
  <2>1. CASE cmd \in AlwaysReports
    <3>1. loop' = [NewLoop EXCEPT !.at = "start", !.reported = TRUE]
      BY <1>2, <2>1
    <3> QED BY <2>1, <3>1, NewLoopIs DEF NewLoop, LoopType, Positions
  <2>2. CASE cmd \notin AlwaysReports
    <3>0. (cmd \in AlwaysReports) = FALSE
      BY <2>2 DEF AlwaysReports, ReportCommands
    <3>1. loop' = [NewLoop EXCEPT !.at = "start", !.reported = FALSE]
      BY <1>2, <3>0
    <3> QED BY <2>2, <3>1, NewLoopIs DEF NewLoop, LoopType, Positions
  <2> QED BY <2>1, <2>2
<1>4. UNCHANGED <<cmd, goal, page, disturbed, result, events>> /\ proc' = "working"
  BY DEF Attach
<1>5. InvocationTypeOK' /\ PageOK' /\ BeginOK'
  BY <1>3, <1>4 DEF AdapterInv, InvocationTypeOK, LoopTypeOK, PageOK, BeginOK
<1>6. CountOK' /\ SeenOK'
  BY <1>3, <1>4 DEF CountOK, SeenOK, Forward, Judged
<1>7. ToldOK' /\ RestoreOK'
  BY <1>1, <1>3, <1>4, NewPageIs DEF ToldOK, RestoreOK, Untouched
<1>8. ResultOK'
  BY <1>1, <1>4 DEF ResultOK, NoResult
<1> QED BY <1>5, <1>6, <1>7, <1>8 DEF AdapterInv

LEMMA DieKeeps == ASSUME AdapterInv, Die PROVE AdapterInv'
<1>1. /\ loop' = [loop EXCEPT !.net = "late"] /\ loop \in LoopType /\ loop.at = "act"
      /\ proc = "working" /\ proc' = "died"
      /\ UNCHANGED <<cmd, goal, page, disturbed, result, events>>
  BY DEF Die, NetworkTimesOut, AdapterInv, InvocationTypeOK, LoopTypeOK
<1>2. /\ loop' \in LoopType
      /\ loop'.at = loop.at /\ loop'.leg = loop.leg /\ loop'.part = loop.part
      /\ loop'.action = loop.action /\ loop'.failed = loop.failed /\ loop'.lost = loop.lost
      /\ loop'.undone = loop.undone /\ loop'.rolledBack = loop.rolledBack
      /\ loop'.heard = loop.heard /\ loop'.prev = loop.prev /\ loop'.reported = loop.reported
  BY <1>1 DEF LoopType
<1>3. InvocationTypeOK' /\ PageOK' /\ BeginOK'
  BY <1>1, <1>2 DEF AdapterInv, InvocationTypeOK, LoopTypeOK, PageOK, BeginOK
<1>4. CountOK'
  BY <1>1, <1>2 DEF AdapterInv, CountOK, HasRollback, Forward, Judged
<1>5. SeenOK' /\ ToldOK' /\ RestoreOK'
  BY <1>1, <1>2 DEF AdapterInv, SeenOK, ToldOK, RestoreOK, WantedSeen, Untouched, Judged
<1>6. ResultOK'
  BY <1>1 DEF AdapterInv, ResultOK, NoResult
<1> QED BY <1>3, <1>4, <1>5, <1>6 DEF AdapterInv

LEMMA ReturnKeeps == ASSUME AdapterInv, ReturnResult PROVE AdapterInv'
<1>1. /\ UNCHANGED loopVars /\ proc' = "returned" /\ UNCHANGED events
      /\ loop \in LoopType /\ loop.at = "done" /\ ~Wraps
      /\ \/ result' = [status |-> IF Ok THEN "success" ELSE "failed",
                       reported |-> loop.reported, rolledBack |-> loop.rolledBack]
         \/ cmd = "navigate" /\ result' = Failed
  BY DEF ReturnResult, AdapterInv, InvocationTypeOK, LoopTypeOK
<1>2. PageOK' /\ CountOK' /\ SeenOK' /\ ToldOK' /\ RestoreOK' /\ LoopTypeOK'
  BY <1>1 DEF AdapterInv, InvocationTypeOK, loopVars, PageOK, CountOK, SeenOK, ToldOK, RestoreOK,
     LoopTypeOK, WantedSeen, Untouched, HasRollback
<1>3. InvocationTypeOK' /\ BeginOK'
  <2>1. loop.reported \in BOOLEAN /\ loop.rolledBack \in BOOLEAN
    BY <1>1 DEF LoopType
  <2>2. result' \in [status : {"none", "success", "failed"}, reported : BOOLEAN,
                     rolledBack : BOOLEAN]
    <3>1. PICK status : status = IF Ok THEN "success" ELSE "failed"
      OBVIOUS
    <3>2. status \in {"success", "failed"}
      BY <3>1
    <3>3. Failed \in [status : {"none", "success", "failed"}, reported : BOOLEAN,
                      rolledBack : BOOLEAN]
      BY DEF Failed, NoResult
    <3>4. [status |-> status, reported |-> loop.reported, rolledBack |-> loop.rolledBack]
            \in [status : {"none", "success", "failed"}, reported : BOOLEAN, rolledBack : BOOLEAN]
      BY <2>1, <3>2
    <3> QED BY <1>1, <3>1, <3>3, <3>4
  <2> QED BY <1>1, <1>2, <2>2 DEF AdapterInv, InvocationTypeOK, BeginOK
<1>4. Wraps' = Wraps /\ Ok' = Ok
  BY <1>1 DEF Wraps, Ok, loopVars
<1>5. ResultOK'
  BY <1>1, <1>4 DEF ResultOK, Failed, NoResult, loopVars
<1> QED BY <1>2, <1>3, <1>5 DEF AdapterInv

-----------------------------------------------------------------------------
(* The loop.                                                                 *)

Working == UNCHANGED <<cmd, goal, proc, result, events>> /\ proc = "working"

LEMMA WorkKeeps ==
  ASSUME AdapterInv, Working, disturbed' \in BOOLEAN, loop' \in LoopType, page' \in PageType,
         loop'.at # "idle", PageOK', CountOK', SeenOK', ToldOK', RestoreOK'
  PROVE  AdapterInv'
<1>1. InvocationTypeOK' /\ BeginOK'
  BY DEF Working, AdapterInv, InvocationTypeOK, LoopTypeOK, BeginOK
<1>2. result = NoResult /\ proc' = "working" /\ result' = result
  BY DEF Working, AdapterInv, ResultOK
<1>3. ResultOK'
  BY <1>2 DEF ResultOK, NoResult
<1> QED BY <1>1, <1>3 DEF AdapterInv

LEMMA Parts == {0, 1, 2, 3, 4} \subseteq 0 .. 5 /\ {0, 1} \subseteq 0 .. 3
OBVIOUS

LEMMA Typed ==
  ASSUME AdapterInv
  PROVE  /\ loop \in LoopType /\ page \in PageType /\ disturbed \in BOOLEAN
         /\ goal.before \in Labels /\ goal.wanted \in Labels
         /\ loop.at \in Positions /\ loop.prev \in Labels \cup {NoLabel}
         /\ loop.failed \subseteq Checks /\ loop.leg \in 1 .. 3
         /\ page.shown \in Shown /\ page.saved \in Labels
         /\ page.draft \in Labels \cup {NoLabel} /\ page.late \in Shown \cup {NoLabel}
         /\ page.seen \subseteq Shown
         /\ loop.lost \in BOOLEAN /\ loop.rolledBack \in BOOLEAN /\ loop.reported \in BOOLEAN
         /\ page.tagged \in BOOLEAN
BY DEF AdapterInv, InvocationTypeOK, LoopTypeOK, LoopType, PageType

\* What a failed check adds.
LEMMA FailIs ==
  ASSUME NEW check \in Checks, loop \in LoopType
  PROVE  /\ Fail(check) \in LoopType
         /\ Fail(check).failed = loop.failed \cup {check} /\ Fail(check).lost = TRUE
         /\ Fail(check).at = loop.at /\ Fail(check).leg = loop.leg /\ Fail(check).part = loop.part
         /\ Fail(check).net = loop.net /\ Fail(check).action = loop.action
         /\ Fail(check).undone = loop.undone /\ Fail(check).rolledBack = loop.rolledBack
         /\ Fail(check).heard = loop.heard /\ Fail(check).prev = loop.prev
         /\ Fail(check).reported = loop.reported
BY DEF Fail, LoopType

SameLeg(l) ==
  /\ l.leg = loop.leg /\ l.undone = loop.undone /\ l.rolledBack = loop.rolledBack
  /\ l.prev = loop.prev /\ l.reported = loop.reported

LEMMA StartKeeps ==
  ASSUME AdapterInv, Working, NEW network \in BOOLEAN, StartAction(network)
  PROVE  AdapterInv'
<1>1. /\ loop \in LoopType /\ page \in PageType /\ loop.at = "start"
      /\ page' = [page EXCEPT !.toast = FALSE] /\ disturbed' = disturbed /\ disturbed \in BOOLEAN
  BY Typed DEF StartAction
<1>2. /\ page' \in PageType
      /\ page'.shown = page.shown /\ page'.late = page.late /\ page'.saved = page.saved
      /\ page'.seen = page.seen /\ page'.tagged = page.tagged
  BY <1>1 DEF PageType
<1>3. /\ loop' \in LoopType /\ SameLeg(loop')
      /\ loop'.at = "act" /\ loop'.part = 0 /\ ~loop'.lost /\ loop'.failed = loop.failed
  <2>1. PICK net \in {"waiting", "none"} : net = IF network THEN "waiting" ELSE "none"
    OBVIOUS
  <2>2. loop' = [loop EXCEPT !.at = "act", !.part = 0, !.action = "none", !.lost = FALSE,
                             !.net = net]
    BY <2>1 DEF StartAction
  <2>3. loop' \in LoopType
    BY <1>1, <2>1, <2>2, Parts DEF LoopType, Positions
  <2>4. SameLeg(loop') /\ loop'.failed = loop.failed
    BY <1>1, <2>2 DEF LoopType, SameLeg
  <2>5. loop'.at = "act" /\ loop'.part = 0 /\ loop'.lost = FALSE
    BY <1>1, <2>2 DEF LoopType
  <2> QED BY <2>3, <2>4, <2>5
<1>4. PageOK'
  BY <1>2 DEF AdapterInv, PageOK, Working
<1>5. CountOK' /\ SeenOK'
  BY <1>1, <1>3 DEF AdapterInv, CountOK, SeenOK, SameLeg, Forward, Judged, Working
<1>6. ToldOK' /\ RestoreOK'
  BY <1>1, <1>2, <1>3 DEF AdapterInv, ToldOK, RestoreOK, SameLeg, Untouched, Working
<1> QED BY <1>1, <1>2, <1>3, <1>4, <1>5, <1>6, WorkKeeps

\* The steps from the end of the action to the drain.
LEMMA CheckKeeps ==
  ASSUME AdapterInv, Working, UNCHANGED <<page, disturbed>>,
         loop.at \in Forward, loop'.at \in Forward,
         loop'.at = "act" <=> loop.at = "act",
         loop' \in LoopType, SameLeg(loop'), loop'.part = loop.part, loop'.action = loop.action,
         \/ loop'.failed = loop.failed /\ loop'.lost = loop.lost
         \/ loop'.lost /\ \E check : loop'.failed = loop.failed \cup {check},
         (/\ loop'.at = "drain" /\ ~loop'.lost
          /\ cmd \notin Selects \cup {"click-element"}
          /\ cmd = "set-filter-dropdown" => loop.leg = 3
          /\ ~Includes(goal.other, goal.wanted)) => WantedSeen
  PROVE  AdapterInv'
<1>1. PageOK' /\ page' \in PageType /\ disturbed' \in BOOLEAN
  BY Typed DEF AdapterInv, PageOK, Working
<1>2. CountOK'
  BY DEF AdapterInv, CountOK, SameLeg, Forward, Judged, Working
<1>3. SeenOK'
  BY DEF AdapterInv, SeenOK, CountOK, SameLeg, Forward, Judged, Working, WantedSeen
<1>4. ToldOK' /\ RestoreOK'
  BY DEF AdapterInv, ToldOK, RestoreOK, CountOK, SameLeg, Untouched, Working, Forward
<1>5. loop'.at # "idle"
  BY DEF Forward
<1> QED BY <1>1, <1>2, <1>3, <1>4, <1>5, WorkKeeps

LEMMA AwaitKeeps ==
  ASSUME AdapterInv, Working, AwaitNetwork \/ NetworkTimesOut(FALSE) PROVE AdapterInv'
<1>1. loop \in LoopType /\ "network" \in Checks
  BY Typed DEF Checks
<1>2. CASE AwaitNetwork
  <2>1. PICK l \in {loop, Fail("network")} : loop' = [l EXCEPT !.at = "stable"]
    BY <1>2 DEF AwaitNetwork
  <2>2. l \in LoopType
    BY <1>1, <2>1, FailIs
  <2>3. /\ loop' \in LoopType /\ loop'.at = "stable" /\ loop'.leg = l.leg /\ loop'.part = l.part
        /\ loop'.action = l.action /\ loop'.failed = l.failed /\ loop'.lost = l.lost
        /\ loop'.undone = l.undone /\ loop'.rolledBack = l.rolledBack /\ loop'.prev = l.prev
        /\ loop'.reported = l.reported
    BY <2>1, <2>2 DEF LoopType, Positions
  <2>4. SameLeg(loop') /\ loop'.part = loop.part /\ loop'.action = loop.action
        /\ \/ loop'.failed = loop.failed /\ loop'.lost = loop.lost
           \/ loop'.lost /\ loop'.failed = loop.failed \cup {"network"}
    BY <1>1, <2>1, <2>3, FailIs DEF SameLeg
  <2> QED BY <1>2, <2>3, <2>4, CheckKeeps DEF AwaitNetwork, Forward
<1>3. CASE NetworkTimesOut(FALSE)
  <2>1. loop.at = "network" /\ loop' = [loop EXCEPT !.net = "late"]
    BY <1>3 DEF NetworkTimesOut
  <2>2. /\ loop' \in LoopType /\ SameLeg(loop') /\ loop'.part = loop.part
        /\ loop'.at = loop.at /\ loop'.action = loop.action
        /\ loop'.failed = loop.failed /\ loop'.lost = loop.lost
    BY <1>1, <2>1 DEF LoopType, SameLeg
  <2> QED BY <1>3, <2>1, <2>2, CheckKeeps DEF NetworkTimesOut, Forward
<1> QED BY <1>2, <1>3

LEMMA StableKeeps ==
  ASSUME AdapterInv, Working, NEW skip \in BOOLEAN, WaitStable(skip) PROVE AdapterInv'
<1>1. loop \in LoopType /\ "stable" \in Checks
  BY Typed DEF Checks
<1>2. PICK l \in {loop, Fail("stable")} : loop' = [l EXCEPT !.at = "predicate"]
  BY DEF WaitStable
<1>3. l \in LoopType
  BY <1>1, <1>2, FailIs
<1>4. /\ loop' \in LoopType /\ loop'.at = "predicate" /\ loop'.leg = l.leg /\ loop'.part = l.part
      /\ loop'.action = l.action /\ loop'.failed = l.failed /\ loop'.lost = l.lost
      /\ loop'.undone = l.undone /\ loop'.rolledBack = l.rolledBack /\ loop'.prev = l.prev
      /\ loop'.reported = l.reported
  BY <1>2, <1>3 DEF LoopType, Positions
<1>5. SameLeg(loop') /\ loop'.part = loop.part /\ loop'.action = loop.action
      /\ \/ loop'.failed = loop.failed /\ loop'.lost = loop.lost
         \/ loop'.lost /\ loop'.failed = loop.failed \cup {"stable"}
  BY <1>1, <1>2, <1>4, FailIs DEF SameLeg
<1> QED BY <1>4, <1>5, CheckKeeps DEF WaitStable, Forward

\* What a predicate that holds has seen.
LEMMA PredicateSees ==
  ASSUME AdapterInv, Predicate, cmd \notin Selects \cup {"click-element"} \cup ReportCommands,
         cmd = "set-filter-dropdown" => loop.leg = 3,
         ~Includes(goal.other, goal.wanted)
  PROVE  WantedSeen
<1>1. /\ page.shown \in page.seen /\ goal.wanted \in Labels
      /\ Includes(goal.wanted, goal.wanted)
  BY Typed, LoopAssumption DEF AdapterInv, PageOK, Includes
<1>2. SUFFICES page.shown = goal.wanted \/ Includes(page.shown, goal.wanted)
  BY <1>1 DEF WantedSeen
<1>3. CASE cmd \in {"enter-text", "navigate"}
  BY <1>3 DEF Predicate, BrowserCommand, BrowserPredicate, TextShown, Selects
<1>4. CASE cmd \notin {"enter-text", "navigate"}
  <2>1. DashboardPredicate
    BY <1>4 DEF Predicate, BrowserCommand
  <2>2. CASE cmd \in {"set-filter-click", "set-filter-dropdown"}
    <3>1. CASE cmd = "set-filter-click"
      BY <2>1, <3>1 DEF DashboardPredicate, PillShown
    <3>2. CASE cmd = "set-filter-dropdown"
      <4>1. DropdownShown /\ loop.leg = 3
        BY <2>1, <3>2 DEF DashboardPredicate
      <4>2. PillShown
        BY <4>1 DEF DropdownShown
      <4> QED BY <4>2 DEF PillShown
    <3> QED BY <2>2, <3>1, <3>2
  <2>3. CASE cmd = "set-filter-classic"
    BY <2>1, <2>3 DEF DashboardPredicate, ReportCommands
  <2>4. CASE cmd \notin {"set-filter-click", "set-filter-dropdown", "set-filter-classic"}
    BY <2>1, <2>4 DEF DashboardPredicate
  <2> QED BY <2>2, <2>3, <2>4
<1> QED BY <1>3, <1>4

LEMMA PredicateKeeps ==
  ASSUME AdapterInv, Working, CheckPredicate(cmd \notin ReportCommands, Predicate)
  PROVE  AdapterInv'
<1>1. loop \in LoopType /\ "dom-predicate" \in Checks
  BY Typed DEF Checks
<1>2. PICK l : /\ l = (IF cmd \notin ReportCommands /\ loop.action = "passed" /\ ~Predicate
                         THEN Fail("dom-predicate") ELSE loop)
               /\ loop' = [l EXCEPT !.at = "drain"]
  BY DEF CheckPredicate
<1>3. l \in LoopType
  BY <1>1, <1>2, FailIs
<1>4. /\ loop' \in LoopType /\ loop'.at = "drain" /\ loop'.leg = l.leg /\ loop'.part = l.part
      /\ loop'.action = l.action /\ loop'.failed = l.failed /\ loop'.lost = l.lost
      /\ loop'.undone = l.undone /\ loop'.rolledBack = l.rolledBack /\ loop'.prev = l.prev
      /\ loop'.reported = l.reported
  BY <1>2, <1>3 DEF LoopType, Positions
<1>5. SameLeg(loop') /\ loop'.part = loop.part /\ loop'.action = loop.action
      /\ \/ loop'.failed = loop.failed /\ loop'.lost = loop.lost
         \/ loop'.lost /\ loop'.failed = loop.failed \cup {"dom-predicate"}
  BY <1>1, <1>2, <1>4, FailIs DEF SameLeg
<1>6. ASSUME ~loop'.lost, cmd \notin Selects \cup {"click-element"},
             cmd = "set-filter-dropdown" => loop.leg = 3, ~Includes(goal.other, goal.wanted)
      PROVE  WantedSeen
  <2>1. l = loop /\ ~loop.lost
    BY <1>1, <1>2, <1>4, <1>6, FailIs
  <2>2. loop.at = "predicate" /\ loop.action = "passed"
    BY <2>1 DEF CheckPredicate, AdapterInv, CountOK, Judged
  <2>3. CASE cmd \in ReportCommands
    BY <2>2, <2>3 DEF AdapterInv, SeenOK, Judged
  <2>4. CASE cmd \notin ReportCommands
    <3>1. Predicate
      BY <1>1, <1>2, <2>1, <2>2, <2>4, FailIs, <1>6, <1>4
    <3> QED BY <1>6, <2>4, <3>1, PredicateSees
  <2> QED BY <2>3, <2>4
<1> QED BY <1>4, <1>5, <1>6, CheckKeeps DEF CheckPredicate, Forward

LEMMA UndoingIs ==
  ASSUME NEW l \in LoopType, l.undone = 0
  PROVE  /\ Undoing(l) \in LoopType
         /\ Undoing(l).at = "undo" /\ Undoing(l).part = 0 /\ Undoing(l).undone = 1
         /\ Undoing(l).leg = l.leg /\ Undoing(l).action = l.action
         /\ Undoing(l).failed = l.failed /\ Undoing(l).lost = l.lost
         /\ Undoing(l).rolledBack = l.rolledBack /\ Undoing(l).prev = l.prev
         /\ Undoing(l).reported = l.reported
<1>1. PICK m : m = Undoing(l)
  OBVIOUS
<1>2. m = [l EXCEPT !.at = "undo", !.part = 0, !.undone = 1]
  BY <1>1 DEF Undoing
<1>3. m \in LoopType
  BY <1>2, Parts DEF LoopType, Positions
<1>4. /\ m.at = "undo" /\ m.part = 0 /\ m.undone = 1
      /\ m.leg = l.leg /\ m.action = l.action /\ m.failed = l.failed /\ m.lost = l.lost
      /\ m.rolledBack = l.rolledBack /\ m.prev = l.prev /\ m.reported = l.reported
  BY <1>2 DEF LoopType
<1> QED BY <1>1, <1>3, <1>4

\* A leg is over: it failed and is undone, or the command goes on from there.
LEMMA LegKeeps ==
  ASSUME AdapterInv, Working, UNCHANGED <<page, disturbed>>,
         loop.at \in {"drain", "done"}, ~loop.rolledBack, loop.undone = 0,
         NEW l \in LoopType, SameLeg(l), l.action = loop.action,
         \/ l.failed = loop.failed /\ l.lost = loop.lost
         \/ l.lost /\ \E check : l.failed = loop.failed \cup {check},
         \/ loop' = Undoing(l) /\ l.lost
         \/ loop' = [l EXCEPT !.at = "done"] /\ ~(l.lost /\ HasRollback)
  PROVE  AdapterInv'
<1>1. /\ loop' \in LoopType /\ loop'.at \in {"undo", "done"}
      /\ loop'.leg = l.leg /\ loop'.action = l.action
      /\ loop'.failed = l.failed /\ loop'.lost = l.lost
      /\ loop'.rolledBack = l.rolledBack /\ loop'.prev = l.prev /\ loop'.reported = l.reported
      /\ \/ loop'.at = "undo" /\ loop'.part = 0 /\ loop'.undone = 1 /\ l.lost
         \/ loop'.at = "done" /\ loop'.undone = 0 /\ ~(l.lost /\ HasRollback)
  <2>1. l.undone = 0
    BY DEF SameLeg
  <2>2. CASE loop' = Undoing(l) /\ l.lost
    BY <2>1, <2>2, UndoingIs
  <2>3. CASE loop' = [l EXCEPT !.at = "done"] /\ ~(l.lost /\ HasRollback)
    BY <2>1, <2>3 DEF LoopType, Positions
  <2> QED BY <2>2, <2>3
<1>2. PageOK' /\ page' \in PageType /\ disturbed' \in BOOLEAN
  BY Typed DEF AdapterInv, PageOK, Working
<1>3. HasRollback' = HasRollback
  BY <1>1 DEF HasRollback, SameLeg, Working
<1>4. CountOK'
  BY <1>1, <1>3 DEF AdapterInv, CountOK, SameLeg, Forward, Judged, Working
<1>5. SeenOK'
  BY <1>1 DEF AdapterInv, SeenOK, CountOK, SameLeg, Judged, Working, WantedSeen
<1>6. ToldOK' /\ RestoreOK'
  BY <1>1 DEF AdapterInv, ToldOK, RestoreOK, SameLeg, Untouched, Working
<1> QED BY <1>1, <1>2, <1>4, <1>5, <1>6, WorkKeeps

LEMMA DrainKeeps ==
  ASSUME AdapterInv, Working, NEW blocking \in BOOLEAN, DrainToasts(blocking, HasRollback)
  PROVE  AdapterInv'
<1>1. loop \in LoopType /\ {"toast-drain", "no-toast"} \subseteq Checks /\ loop.at = "drain"
  BY Typed DEF Checks, DrainToasts
<1>2. PICK found, heard, l :
        /\ found \in {loop, Fail("toast-drain")} /\ heard \in BOOLEAN
        /\ l = [(IF blocking /\ heard THEN Fail("no-toast") ELSE found) EXCEPT !.heard = heard]
        /\ loop' = IF l.lost /\ HasRollback THEN Undoing(l) ELSE [l EXCEPT !.at = "done"]
  BY DEF DrainToasts
<1>3. PICK check, m :
        /\ check \in {"toast-drain", "no-toast"} /\ m \in {loop, Fail(check)}
        /\ l = [m EXCEPT !.heard = heard]
  <2>1. CASE blocking /\ heard
    BY <1>2, <2>1
  <2>2. CASE ~(blocking /\ heard)
    BY <1>2, <2>2
  <2> QED BY <2>1, <2>2
<1>4. m \in LoopType /\ SameLeg(m) /\ m.action = loop.action
      /\ \/ m.failed = loop.failed /\ m.lost = loop.lost
         \/ m.lost /\ m.failed = loop.failed \cup {check}
  <2>1. CASE m = loop
    BY <1>1, <2>1 DEF SameLeg
  <2>2. CASE m = Fail(check)
    <3>1. check \in Checks
      BY <1>1, <1>3
    <3> QED BY <1>1, <2>2, <3>1, FailIs DEF SameLeg
  <2> QED BY <1>3, <2>1, <2>2
<1>5. l \in LoopType /\ SameLeg(l) /\ l.action = m.action /\ l.failed = m.failed /\ l.lost = m.lost
  BY <1>2, <1>3, <1>4 DEF LoopType, SameLeg
<1>6. ~loop.rolledBack /\ loop.undone = 0
  BY <1>1 DEF AdapterInv, CountOK, Forward
<1>7. UNCHANGED <<page, disturbed>>
  BY DEF DrainToasts
<1> QED BY <1>1, <1>2, <1>4, <1>5, <1>6, <1>7, LegKeeps

LEMMA WrappingKeeps ==
  ASSUME AdapterInv, Working, Wrapping, UNCHANGED <<page, disturbed>> PROVE AdapterInv'
<1>1. /\ loop \in LoopType /\ "toast-filter" \in Checks /\ loop.at = "done"
      /\ page' \in PageType /\ disturbed' \in BOOLEAN /\ PageOK'
  BY Typed DEF Checks, Wrapping, NextLeg, ManualRollback, ClassicToasts, AdapterInv, PageOK, Working
<1>2. CASE NextLeg
  <2>1. loop.leg + 1 \in 1 .. 3 /\ loop' = [loop EXCEPT !.at = "start", !.leg = loop.leg + 1]
    BY <1>2, Typed DEF NextLeg
  <2>2. /\ loop' \in LoopType /\ loop'.at = "start" /\ ~loop'.lost /\ loop'.failed = loop.failed
        /\ loop'.undone = loop.undone /\ loop'.rolledBack = loop.rolledBack
        /\ loop'.prev = loop.prev /\ loop'.reported = loop.reported /\ ~loop.lost
    BY <1>1, <1>2, <2>1 DEF NextLeg, LoopType, Positions
  <2>3. loop.undone = 0 /\ ~loop.rolledBack
    BY <1>1, <2>2 DEF AdapterInv, CountOK
  <2>4. CountOK' /\ SeenOK'
    BY <2>2, <2>3 DEF AdapterInv, CountOK, SeenOK, Forward, Judged, Working
  <2>5. cmd = "set-filter-dropdown" /\ cmd \in AlwaysReports
    BY <1>2 DEF NextLeg, AlwaysReports
  <2>6. ToldOK' /\ RestoreOK'
    BY <1>1, <2>2, <2>3, <2>5 DEF AdapterInv, ToldOK, RestoreOK, Untouched, Working
  <2> QED BY <1>1, <2>2, <2>4, <2>6, WorkKeeps
<1>3. CASE ManualRollback
  <2>1. loop.undone = 0 /\ loop.lost /\ ~loop.rolledBack /\ loop' = Undoing(loop)
    BY <1>1, <1>3, Typed DEF ManualRollback, AdapterInv, CountOK
  <2> QED BY <1>1, <2>1, LegKeeps DEF SameLeg
<1>4. CASE ClassicToasts
  <2>1. /\ Fail("toast-filter") \in LoopType /\ SameLeg(Fail("toast-filter"))
        /\ Fail("toast-filter").action = loop.action /\ Fail("toast-filter").lost
        /\ Fail("toast-filter").failed = loop.failed \cup {"toast-filter"}
        /\ Fail("toast-filter").at = "done"
    BY <1>1, FailIs DEF SameLeg
  <2>2. CASE ~loop.rolledBack
    <3>1. loop' = Undoing(Fail("toast-filter")) /\ cmd = "set-filter-classic"
      BY <1>4, <2>2 DEF ClassicToasts
    <3>2. loop.undone = 0
      BY <1>1, <2>2, <3>1 DEF AdapterInv, CountOK
    <3> QED BY <1>1, <2>1, <2>2, <3>1, <3>2, LegKeeps
  <2>3. CASE loop.rolledBack
    <3>1. loop' = Fail("toast-filter") /\ loop.undone = 1 /\ cmd = "set-filter-classic"
      BY <1>4, <2>3 DEF ClassicToasts, AdapterInv, CountOK
    <3>2. CountOK'
      <4>1. /\ loop'.at = "done" /\ loop'.undone = 1 /\ loop'.rolledBack /\ loop'.lost
            /\ loop'.failed # {}
        BY <2>1, <2>3, <3>1 DEF SameLeg
      <4> QED BY <4>1 DEF CountOK, Forward, Judged
    <3>4. SeenOK'
      BY <1>1, <2>1, <3>1 DEF SeenOK, Working, ReportCommands
    <3>3. ToldOK' /\ RestoreOK'
      BY <1>1, <2>1, <2>3, <3>1
         DEF AdapterInv, ToldOK, RestoreOK, SameLeg, Working, Unrestored, Remembering, Selects, Untouched
    <3> QED BY <1>1, <2>1, <3>1, <3>2, <3>3, <3>4, WorkKeeps
  <2> QED BY <2>2, <2>3
<1> QED BY <1>2, <1>3, <1>4 DEF Wrapping

-----------------------------------------------------------------------------
(* The page.                                                                 *)

\* What a step may do to the page without the command's knowledge.
PageMoves ==
  /\ page' \in PageType /\ PageOK' /\ page.seen \subseteq page'.seen
  /\ Untouched => Untouched'
  /\ page'.tagged => page.tagged
  /\ disturbed \/ (page.tagged /\ ~page'.tagged) => disturbed'
  /\ disturbed' \in BOOLEAN

LEMMA PageKeeps ==
  ASSUME AdapterInv, Working, PageStep PROVE AdapterInv'
<1>1. page \in PageType /\ loop \in LoopType /\ PageOK /\ loop.at # "idle"
  BY Typed DEF AdapterInv, BeginOK, Working
<1>2. PageMoves
  <2>1. CASE Settle
    <3>1. PICK late : late \in Shown /\ late = page.late /\ late # NoLabel
      BY <1>1, <2>1, Typed DEF Settle
    <3>2. page' = [page EXCEPT !.shown = late, !.seen = @ \cup {late}, !.late = NoLabel]
      BY <1>1, <2>1, <3>1 DEF Settle, Show, PageType
    <3>3. page' \in PageType
      BY <1>1, <3>1, <3>2 DEF PageType
    <3>4. /\ page'.shown = late /\ page'.seen = page.seen \cup {late} /\ page'.late = NoLabel
          /\ page'.saved = page.saved /\ page'.tagged = page.tagged
      BY <1>1, <3>2 DEF PageType
    <3>5. PageOK'
      BY <1>1, <3>1, <3>4, LoopAssumption DEF PageOK, Working, Shown
    <3> QED BY <2>1, <3>1, <3>3, <3>4, <3>5, Typed DEF Settle, PageMoves, Untouched
  <2>2. CASE Rerender
    <3>1. page' = [page EXCEPT !.tagged = FALSE, !.mark = NoLabel, !.open = FALSE] /\ disturbed'
      BY <2>2 DEF Rerender
    <3>2. /\ page' \in PageType
          /\ page'.shown = page.shown /\ page'.seen = page.seen /\ page'.late = page.late
          /\ page'.saved = page.saved /\ ~page'.tagged
      BY <1>1, <3>1 DEF PageType
    <3>3. disturbed' \in BOOLEAN
      BY <2>2 DEF Rerender
    <3> QED BY <1>1, <3>1, <3>2, <3>3 DEF PageMoves, PageOK, Working, Untouched
  <2>3. CASE RaiseToast
    <3>1. /\ page' = [page EXCEPT !.toast = TRUE, !.toasts = page.toasts + 1]
          /\ page.toasts + 1 \in 0 .. MaxToasts
      BY <1>1, <2>3, LoopAssumption DEF RaiseToast, PageType
    <3>2. /\ page' \in PageType
          /\ page'.shown = page.shown /\ page'.seen = page.seen /\ page'.late = page.late
          /\ page'.saved = page.saved /\ page'.tagged = page.tagged
      BY <1>1, <3>1 DEF PageType
    <3> QED BY <1>1, <2>3, <3>2, Typed DEF RaiseToast, PageMoves, PageOK, Working, Untouched
  <2>4. CASE Respond
    BY <1>1, <2>4, Typed DEF Respond, PageMoves, PageOK, Working, Untouched
  <2> QED BY <2>1, <2>2, <2>3, <2>4 DEF PageStep
<1>3. /\ loop' \in LoopType /\ SameLeg(loop') /\ loop'.at = loop.at /\ loop'.part = loop.part
      /\ loop'.action = loop.action /\ loop'.failed = loop.failed /\ loop'.lost = loop.lost
  BY <1>1 DEF PageStep, Settle, Rerender, RaiseToast, Respond, LoopType, SameLeg
<1>4. CountOK'
  BY <1>3 DEF AdapterInv, CountOK, SameLeg, HasRollback, Working
<1>5. SeenOK'
  BY <1>2, <1>3 DEF AdapterInv, SeenOK, SameLeg, Working, WantedSeen, PageMoves
<1>6. ToldOK' /\ RestoreOK'
  BY <1>2, <1>3 DEF AdapterInv, ToldOK, RestoreOK, SameLeg, Working, PageMoves
<1> QED BY <1>1, <1>2, <1>3, <1>4, <1>5, <1>6, WorkKeeps DEF PageMoves

-----------------------------------------------------------------------------
(* Actions and rollbacks.                                                    *)

\* What a part of an action does: it goes on, or the action returns or throws.
ActMove ==
  /\ loop.at = "act" /\ disturbed' = disturbed
  /\ page' \in PageType /\ PageOK' /\ page.seen \subseteq page'.seen
  /\ loop' \in LoopType
  /\ loop'.leg = loop.leg /\ loop'.undone = loop.undone /\ loop'.rolledBack = loop.rolledBack
  /\ \/ /\ loop'.at = "act" /\ loop'.failed = loop.failed /\ loop'.lost = loop.lost
        /\ loop'.part # 0
     \/ /\ loop'.at = "network" /\ loop'.failed = loop.failed /\ loop'.lost = loop.lost
        /\ loop'.action = "passed"
        /\ cmd \in ReportCommands => WantedSeen'
     \/ /\ loop'.at = "network" /\ loop'.failed = loop.failed \cup {"action"} /\ loop'.lost
        /\ loop'.action = "failed"
  /\ loop'.reported \/ (loop'.reported = loop.reported
                         /\ (cmd = "navigate" \/ (Untouched => Untouched')))
  /\ loop'.at = "act" =>
       /\ cmd \in Selects => ~loop'.reported
       /\ cmd = "enter-text" => loop'.reported
  /\ \/ cmd \notin {"enter-text"} \cup Selects
     \/ /\ loop'.prev = loop.prev
        /\ page'.tagged = page.tagged \/ (cmd = "enter-text" /\ page'.tagged)
     \/ loop'.prev = goal.before /\ page'.tagged

LEMMA ActKeeps == ASSUME AdapterInv, Working, ActMove PROVE AdapterInv'
<1>1. /\ loop.undone = 0 /\ ~loop.rolledBack
      /\ goal.before \in Labels /\ goal.before # NoLabel
      /\ cmd \in Selects => cmd \notin AlwaysReports
      /\ disturbed \in BOOLEAN
  BY Typed, LoopAssumption
     DEF ActMove, AdapterInv, CountOK, Forward, Selects, AlwaysReports, ReportCommands
<1>2. CountOK'
  BY <1>1 DEF AdapterInv, CountOK, ActMove, Forward, Judged, Working
<1>3. SeenOK'
  BY <1>1 DEF SeenOK, ActMove, Judged, Working, WantedSeen
<1>4. ToldOK'
  BY <1>1 DEF AdapterInv, ToldOK, ActMove, Working
<1>5. RestoreOK'
  BY <1>1 DEF AdapterInv, RestoreOK, ActMove, Working, Remembering, Selects
<1> QED BY <1>1, <1>2, <1>3, <1>4, <1>5, WorkKeeps DEF ActMove

\* What a part of a rollback does: it goes on, returns or throws.
UndoMove ==
  /\ loop.at = "undo" /\ disturbed' \in BOOLEAN /\ (disturbed => disturbed')
  /\ page' \in PageType /\ PageOK' /\ page.seen \subseteq page'.seen
  /\ loop' \in LoopType
  /\ loop'.leg = loop.leg /\ loop'.undone = loop.undone /\ loop'.action = loop.action
  /\ loop'.prev = loop.prev /\ loop'.reported = loop.reported
  /\ \/ /\ loop'.at = "undo" /\ loop'.failed = loop.failed /\ loop'.lost = loop.lost
        /\ loop'.rolledBack = loop.rolledBack
        /\ (cmd = "set-filter-classic" /\ loop'.part = 1) => loop.prev # NoLabel
     \/ /\ loop'.at = "done" /\ loop'.failed = loop.failed /\ loop'.lost = loop.lost
        /\ loop'.rolledBack
     \/ /\ loop'.at = "done" /\ loop'.failed = loop.failed \cup {"rollback"} /\ loop'.lost
        /\ loop'.rolledBack = loop.rolledBack
        /\ cmd \notin {"set-filter-dropdown", "set-filter-classic"}
  /\ loop'.rolledBack \/ loop.reported \/ cmd = "navigate" \/ (Untouched => Untouched')
  /\ cmd \in Selects /\ page'.tagged => page.tagged
  /\ cmd = "enter-text" /\ page.tagged => page'.tagged
  /\ (/\ loop'.rolledBack /\ ~disturbed'
      /\ cmd \in Remembering => loop.prev # NoLabel
      /\ cmd \notin Unrestored) => Untouched'

LEMMA UndoKeeps == ASSUME AdapterInv, Working, UndoMove PROVE AdapterInv'
<1>1. loop.lost /\ loop.undone = 1 /\ ~loop.rolledBack
  BY DEF UndoMove, AdapterInv, CountOK
<1>2. CountOK'
  <2>1. loop'.undone = 1 /\ loop'.lost /\ loop'.failed # {} /\ loop'.at \in {"undo", "done"}
    BY <1>1 DEF AdapterInv, CountOK, UndoMove
  <2>2. /\ loop'.rolledBack => loop'.at = "done"
        /\ (loop'.at = "done" /\ cmd \in {"set-filter-dropdown", "set-filter-classic"}) =>
             loop'.rolledBack
    BY <1>1 DEF UndoMove
  <2> QED BY <2>1, <2>2 DEF CountOK, Forward, Judged, Working
<1>3. SeenOK'
  BY <1>1 DEF AdapterInv, SeenOK, UndoMove, Judged, Working, WantedSeen
<1>4. ToldOK'
  BY <1>1 DEF AdapterInv, ToldOK, UndoMove, Working
<1>5. RestoreOK'
  BY <1>1 DEF AdapterInv, RestoreOK, UndoMove, Working
<1> QED BY <1>2, <1>3, <1>4, <1>5, WorkKeeps DEF UndoMove

\* A page that is or may come after the page.
Later(p) ==
  /\ p \in PageType /\ page.seen \subseteq p.seen /\ p.shown \in p.seen
  /\ cmd # "navigate" => p.shown # Earlier /\ p.late # Earlier
  /\ cmd # "save-dashboard" => p.saved = goal.before

LEMMA PageIsLater == ASSUME AdapterInv PROVE Later(page)
BY Typed DEF AdapterInv, PageOK, Later

LEMMA LaterIsOK ==
  ASSUME Working, Later(page')
  PROVE  page' \in PageType /\ PageOK' /\ page.seen \subseteq page'.seen
BY DEF Later, PageOK, Working

LEMMA ShowIs ==
  ASSUME NEW p, Later(p), NEW label \in Labels
  PROVE  /\ Later(Show(p, label))
         /\ Show(p, label).shown = label /\ Show(p, label).late = p.late
         /\ Show(p, label).tagged = p.tagged /\ Show(p, label).draft = p.draft
         /\ Show(p, label).saved = p.saved
<1>1. label \in Shown /\ label # Earlier
  BY LoopAssumption DEF Shown
<1> QED BY <1>1 DEF Later, Show, PageType

LEMMA ObeysIs ==
  ASSUME NEW p, Later(p), NEW label \in Labels, NEW q \in Obeys(p, label)
  PROVE  /\ Later(q) /\ q.tagged = p.tagged /\ q.draft = p.draft /\ q.saved = p.saved
         /\ q.shown \in {label, p.shown}
<1>1. label \in Shown /\ label # Earlier
  BY LoopAssumption DEF Shown
<1>2. CASE q = Show(p, label)
  BY <1>2, ShowIs
<1>3. CASE q = [p EXCEPT !.late = label]
  BY <1>1, <1>3 DEF Later, PageType
<1>4. CASE q = p
  BY <1>4
<1> QED BY <1>2, <1>3, <1>4 DEF Obeys

LEMMA InputIs ==
  ASSUME NEW p, Later(p), NEW label \in Labels
  PROVE  /\ Later(Input(p, label)) /\ Input(p, label).tagged = p.tagged
         /\ Input(p, label).shown = label /\ Input(p, label).late = NoLabel
<1>1. Later(Show(p, label)) /\ NoLabel # Earlier
  BY ShowIs, LoopAssumption
<1> QED BY <1>1, ShowIs DEF Later, Input, PageType

\* How an action that goes on, or returns, leaves the loop.
Goes(l) ==
  /\ l \in LoopType /\ l.at = "act" /\ l.part # 0 /\ l.leg = loop.leg
  /\ l.failed = loop.failed /\ l.lost = loop.lost
  /\ l.undone = loop.undone /\ l.rolledBack = loop.rolledBack

Passes(l) ==
  /\ l \in LoopType /\ l.at = "network" /\ l.action = "passed" /\ l.leg = loop.leg
  /\ l.failed = loop.failed /\ l.lost = loop.lost
  /\ l.undone = loop.undone /\ l.rolledBack = loop.rolledBack

LEMMA GoesOn ==
  ASSUME AdapterInv, loop.at = "act", NEW part \in {1, 2, 3, 4},
         NEW prev \in Labels \cup {NoLabel}, NEW l,
         l = [loop EXCEPT !.part = part, !.prev = prev]
  PROVE  Goes(l) /\ l.prev = prev
<1>1. loop \in LoopType /\ part \in 0 .. 5
  BY Typed, Parts
<1>2. l \in LoopType
  BY <1>1 DEF LoopType
<1>3. /\ l.at = "act" /\ l.part = part /\ l.leg = loop.leg
      /\ l.failed = loop.failed /\ l.lost = loop.lost
      /\ l.undone = loop.undone /\ l.rolledBack = loop.rolledBack /\ l.prev = prev
  BY <1>1 DEF LoopType
<1> QED BY <1>2, <1>3 DEF Goes

LEMMA GoesTo ==
  ASSUME AdapterInv, loop.at = "act", NEW part \in {1, 2, 3, 4}, NEW l,
         l = [loop EXCEPT !.part = part]
  PROVE  Goes(l) /\ l.reported = loop.reported
<1>1. loop \in LoopType /\ part \in 0 .. 5
  BY Typed, Parts
<1>2. l \in LoopType
  BY <1>1 DEF LoopType
<1>3. /\ l.at = "act" /\ l.part = part /\ l.leg = loop.leg
      /\ l.failed = loop.failed /\ l.lost = loop.lost
      /\ l.undone = loop.undone /\ l.rolledBack = loop.rolledBack /\ l.reported = loop.reported
  BY <1>1 DEF LoopType
<1> QED BY <1>2, <1>3 DEF Goes

LEMMA GoesOnTold ==
  ASSUME AdapterInv, loop.at = "act", NEW part \in {1, 2, 3, 4}, NEW told \in BOOLEAN, NEW l,
         l = [loop EXCEPT !.part = part, !.reported = told]
  PROVE  Goes(l) /\ l.reported = told
<1>1. loop \in LoopType /\ part \in 0 .. 5
  BY Typed, Parts
<1>2. l \in LoopType
  BY <1>1 DEF LoopType
<1>3. /\ l.at = "act" /\ l.part = part /\ l.leg = loop.leg
      /\ l.failed = loop.failed /\ l.lost = loop.lost
      /\ l.undone = loop.undone /\ l.rolledBack = loop.rolledBack /\ l.reported = told
  BY <1>1 DEF LoopType
<1> QED BY <1>2, <1>3 DEF Goes

LEMMA ActedIs ==
  ASSUME AdapterInv, NEW prev \in Labels \cup {NoLabel}, NEW l,
         \/ l = Acted(loop) /\ prev = loop.prev
         \/ l = [Acted(loop) EXCEPT !.prev = prev]
         \/ l = [Acted(loop) EXCEPT !.reported = TRUE] /\ prev = loop.prev
  PROVE  Passes(l) /\ l.prev = prev /\ (l.reported = loop.reported \/ l.reported)
BY Typed DEF Passes, Acted, LoopType, Positions

LEMMA ThrewIs ==
  ASSUME AdapterInv, NEW l, l = Threw \/ l = [Threw EXCEPT !.reported = TRUE]
  PROVE  /\ l \in LoopType /\ l.at = "network" /\ l.action = "failed" /\ l.leg = loop.leg
         /\ l.failed = loop.failed \cup {"action"} /\ l.lost /\ l.prev = loop.prev
         /\ l.undone = loop.undone /\ l.rolledBack = loop.rolledBack
         /\ l.reported = loop.reported \/ l.reported
<1>1. "action" \in Checks /\ loop \in LoopType
  BY Typed DEF Checks
<1>2. PICK f : f = Fail("action") /\ f \in LoopType /\ f.leg = loop.leg /\ f.prev = loop.prev
        /\ f.failed = loop.failed \cup {"action"} /\ f.lost = TRUE
        /\ f.undone = loop.undone /\ f.rolledBack = loop.rolledBack /\ f.reported = loop.reported
  BY <1>1, FailIs
<1>3. CASE l = Threw
  <2>1. l = [f EXCEPT !.action = "failed", !.at = "network"]
    BY <1>2, <1>3 DEF Threw
  <2>2. l \in LoopType
    BY <1>2, <2>1 DEF LoopType, Positions
  <2>3. /\ l.at = "network" /\ l.action = "failed" /\ l.leg = f.leg
        /\ l.failed = f.failed /\ l.lost = f.lost /\ l.prev = f.prev
        /\ l.undone = f.undone /\ l.rolledBack = f.rolledBack /\ l.reported = f.reported
    BY <1>2, <2>1 DEF LoopType
  <2> QED BY <1>2, <2>2, <2>3
<1>4. CASE l = [Threw EXCEPT !.reported = TRUE]
  <2>1. l = [f EXCEPT !.action = "failed", !.at = "network", !.reported = TRUE]
    BY <1>2, <1>4 DEF Threw
  <2>2. l \in LoopType
    BY <1>2, <2>1 DEF LoopType, Positions
  <2>3. /\ l.at = "network" /\ l.action = "failed" /\ l.leg = f.leg
        /\ l.failed = f.failed /\ l.lost = f.lost /\ l.prev = f.prev
        /\ l.undone = f.undone /\ l.rolledBack = f.rolledBack /\ l.reported = TRUE
    BY <1>2, <2>1 DEF LoopType
  <2> QED BY <1>2, <2>2, <2>3
<1> QED BY <1>3, <1>4

\* An action that throws and leaves the page as it is, or tagged.
LEMMA ThrowMoves ==
  ASSUME AdapterInv, Working, loop.at = "act", disturbed' = disturbed,
         loop' = Threw \/ loop' = [Threw EXCEPT !.reported = TRUE], page' = page
  PROVE  ActMove
<1>1. Later(page')
  BY PageIsLater
<1>2. Untouched' = Untouched
  BY DEF Untouched, Working
<1> QED BY <1>1, <1>2, LaterIsOK, ThrewIs DEF ActMove

\* The commands that always report a side effect.
LEMMA ReportedMoves ==
  ASSUME AdapterInv, Working, loop.at = "act", disturbed' = disturbed, cmd \in AlwaysReports,
         Later(page'), loop'.reported = loop.reported,
         Goes(loop') \/ (Passes(loop') /\ (cmd \in ReportCommands => WantedSeen'))
  PROVE  ActMove
<1>1. loop.reported /\ cmd \notin {"enter-text"} \cup Selects
  BY DEF AdapterInv, ToldOK, AlwaysReports, Selects, ReportCommands
<1> QED BY <1>1, LaterIsOK DEF ActMove, Goes, Passes

LEMMA TaggedIs ==
  ASSUME AdapterInv, NEW open \in BOOLEAN,
         NEW p \in {Tagged, [Tagged EXCEPT !.open = open]}
  PROVE  Later(p) /\ p.tagged /\ p.shown = page.shown /\ p.late = page.late
<1>1. Later(page)
  BY PageIsLater
<1> QED BY <1>1 DEF Later, Tagged, PageType

\* Before it reports anything the control shows what it showed at first.
LEMMA NotYet ==
  ASSUME AdapterInv, cmd \in {"enter-text"} \cup Selects, loop.at = "act", loop.part = 0
  PROVE  Untouched /\ page.shown \in Labels
<1>1. ~loop.reported /\ ~loop.rolledBack
  BY DEF AdapterInv, ToldOK, CountOK, AlwaysReports, Selects, ReportCommands
<1>2. cmd # "navigate"
  BY DEF Selects
<1> QED BY <1>1, <1>2, Typed DEF AdapterInv, ToldOK, Untouched

LEMMA TextMoves ==
  ASSUME AdapterInv, Working, PrepareText \/ InsertText PROVE ActMove
<1>1. cmd = "enter-text" /\ loop.at = "act" /\ disturbed' = disturbed /\ "enter-text" \notin Selects
  BY DEF PrepareText, InsertText, Doing, Selects
<1>2. CASE loop' = Threw /\ page' = page
  BY <1>1, <1>2, ThrowMoves
<1>3. CASE PrepareText /\ page' = Tagged /\ loop' = Threw
  <2>1. Later(page') /\ page'.tagged /\ (Untouched' = Untouched)
    BY <1>3, TaggedIs DEF Untouched, Working
  <2> QED BY <1>1, <1>3, <2>1, LaterIsOK, ThrewIs DEF ActMove
<1>4. CASE PrepareText /\ page' = Tagged
             /\ loop' = [loop EXCEPT !.part = 1, !.prev = page.shown, !.reported = TRUE]
  <2>1. Later(page') /\ page'.tagged
    BY <1>4, TaggedIs
  <2>2. page.shown = goal.before /\ page.shown \in Labels
    BY <1>1, <1>4, NotYet DEF PrepareText, Doing, Untouched
  <2>3. Goes(loop') /\ loop'.prev = goal.before
    <3>1. loop \in LoopType /\ loop'.leg = loop.leg /\ loop'.prev = page.shown
      BY <1>4, Typed DEF LoopType
    <3>2. loop' \in LoopType
      BY <1>4, <2>2, <3>1, Parts DEF LoopType
    <3>3. /\ loop'.at = "act" /\ loop'.part = 1
          /\ loop'.failed = loop.failed /\ loop'.lost = loop.lost
          /\ loop'.undone = loop.undone /\ loop'.rolledBack = loop.rolledBack
      BY <1>1, <1>4, <3>1 DEF LoopType
    <3> QED BY <2>2, <3>1, <3>2, <3>3 DEF Goes
  <2>4. loop'.reported
    BY <1>4, Typed DEF LoopType
  <2> QED BY <1>1, <2>1, <2>3, <2>4, LaterIsOK DEF ActMove, Goes
<1>5. CASE InsertText /\ loop' = Acted(loop)
  <2>1. loop.reported
    BY <1>1, <1>5 DEF InsertText, Doing, AdapterInv, ToldOK
  <2>2. Later(page') /\ page'.tagged = page.tagged
    BY <1>5, PageIsLater, ObeysIs, Typed DEF InsertText, Finds
  <2>3. Passes(loop') /\ loop'.prev = loop.prev /\ loop'.reported
    BY <1>5, <2>1, ActedIs, Typed
  <2> QED BY <1>1, <2>2, <2>3, LaterIsOK DEF ActMove, Passes, ReportCommands
<1> QED BY <1>2, <1>3, <1>4, <1>5 DEF PrepareText, InsertText, Finds

LEMMA SelectMoves ==
  ASSUME AdapterInv, Working, PrepareSelect \/ CompleteSelect PROVE ActMove
<1>1. /\ cmd \in Selects /\ loop.at = "act" /\ disturbed' = disturbed
      /\ cmd \notin {"enter-text", "navigate", "save-dashboard"} \cup ReportCommands
  BY DEF PrepareSelect, CompleteSelect, Doing, Selects, ReportCommands
<1>2. CASE loop' = Threw /\ page' = page
  BY <1>1, <1>2, ThrowMoves
<1>3. CASE PrepareSelect /\ page' = [Tagged EXCEPT !.open = cmd = "select-custom"]
             /\ loop' = [loop EXCEPT !.part = 1, !.prev = page.shown]
  <2>1. PICK open : open \in BOOLEAN /\ open = (cmd = "select-custom")
    OBVIOUS
  <2>2. Later(page') /\ page'.tagged /\ (Untouched => Untouched')
    BY <1>3, <2>1, TaggedIs DEF Untouched, Working
  <2>3. page.shown = goal.before /\ page.shown \in Labels /\ ~loop.reported
    BY <1>1, <1>3, NotYet DEF PrepareSelect, Doing, Untouched, AdapterInv, ToldOK, Selects,
       AlwaysReports, ReportCommands
  <2>4. Goes(loop') /\ loop'.prev = goal.before
    <3>1. PICK part, prev : /\ part = 1 /\ part \in {1, 2, 3, 4}
                            /\ prev = page.shown /\ prev \in Labels \cup {NoLabel}
      BY <2>3
    <3>2. PICK l : l = [loop EXCEPT !.part = part, !.prev = prev]
      OBVIOUS
    <3>3. loop' = l
      BY <1>3, <3>1, <3>2
    <3>4. loop.at = "act"
      BY <1>1
    <3>5. Goes(l) /\ l.prev = prev
      BY <3>1, <3>2, <3>4, GoesOn
    <3> QED BY <3>1, <3>3, <3>5, <2>3
  <2>5. loop'.reported = loop.reported
    BY <1>3, Typed DEF LoopType
  <2> QED BY <1>1, <2>2, <2>3, <2>4, <2>5, LaterIsOK DEF ActMove, Goes
<1>4. CASE CompleteSelect /\ page.tagged /\ loop' = [Acted(loop) EXCEPT !.reported = TRUE]
             /\ \E p \in IF cmd = "select-native" THEN {Input(page, goal.wanted)}
                         ELSE Obeys(page, goal.wanted) :
                  page' = [p EXCEPT !.mark = p.shown, !.open = FALSE]
  <2>1. PICK p : /\ p \in {Input(page, goal.wanted)} \cup Obeys(page, goal.wanted)
                 /\ page' = [p EXCEPT !.mark = p.shown, !.open = FALSE]
    BY <1>4
  <2>2. Later(p) /\ p.tagged = page.tagged
    <3>1. CASE p = Input(page, goal.wanted)
      BY <3>1, PageIsLater, InputIs, Typed
    <3>2. CASE p \in Obeys(page, goal.wanted)
      BY <3>2, PageIsLater, ObeysIs, Typed
    <3> QED BY <2>1, <3>1, <3>2
  <2>3. p \in PageType /\ p.shown \in Labels
    BY <1>1, <2>2 DEF Later, PageType, Shown
  <2>4. Later(page') /\ page'.tagged = page.tagged
    BY <2>1, <2>2, <2>3 DEF Later, PageType
  <2>5. Passes(loop') /\ loop'.prev = loop.prev
    BY <1>4, ActedIs, Typed
  <2>6. loop'.reported
    BY <1>4, Typed DEF Acted, LoopType
  <2> QED BY <1>1, <2>4, <2>5, <2>6, LaterIsOK DEF ActMove, Passes
<1> QED BY <1>2, <1>3, <1>4 DEF PrepareSelect, CompleteSelect, Finds

\* The other commands of which no property asks what a rollback remembers.
LEMMA OtherMoves ==
  ASSUME AdapterInv, Working, loop.at = "act", disturbed' = disturbed,
         cmd \notin {"enter-text"} \cup Selects, Later(page'),
         \/ Goes(loop')
         \/ Passes(loop') /\ (cmd \in ReportCommands => WantedSeen')
         \/ loop' = Threw
         \/ loop' = [Threw EXCEPT !.reported = TRUE],
         \/ loop'.reported
         \/ loop'.reported = loop.reported /\ (cmd = "navigate" \/ (Untouched => Untouched'))
  PROVE  ActMove
<1>1. CASE Goes(loop')
  BY <1>1, LaterIsOK DEF ActMove, Goes
<1>2. CASE Passes(loop') /\ (cmd \in ReportCommands => WantedSeen')
  BY <1>2, LaterIsOK DEF ActMove, Passes
<1>3. CASE loop' = Threw \/ loop' = [Threw EXCEPT !.reported = TRUE]
  BY <1>3, LaterIsOK, ThrewIs DEF ActMove
<1> QED BY <1>1, <1>2, <1>3

\* The page with other things open, chosen or saved than before.
LEMMA OpenIs ==
  ASSUME NEW p, Later(p), NEW open \in BOOLEAN, NEW draft \in Labels \cup {NoLabel},
         NEW q \in {[p EXCEPT !.open = open], [p EXCEPT !.open = open, !.draft = draft],
                    [p EXCEPT !.draft = draft, !.open = open], [p EXCEPT !.draft = draft]}
  PROVE  /\ Later(q) /\ q.shown = p.shown /\ q.late = p.late /\ q.saved = p.saved
         /\ q.tagged = p.tagged /\ q.seen = p.seen
<1>1. q \in PageType
  BY DEF Later, PageType
<1>2. /\ q.shown = p.shown /\ q.late = p.late /\ q.saved = p.saved
      /\ q.tagged = p.tagged /\ q.seen = p.seen
  BY DEF Later, PageType
<1> QED BY <1>1, <1>2 DEF Later

LEMMA OpensIs ==
  ASSUME NEW p, Later(p), NEW open \in BOOLEAN, NEW q, q = [p EXCEPT !.open = open]
  PROVE  Later(q) /\ q.shown = p.shown /\ q.late = p.late /\ q.tagged = p.tagged
BY OpenIs

LEMMA ClickMoves ==
  ASSUME AdapterInv, Working, ClickElement \/ ClickEdit \/ ClickSave PROVE ActMove
<1>1. /\ loop.at = "act" /\ disturbed' = disturbed
      /\ cmd \notin {"enter-text", "navigate"} \cup Selects \cup ReportCommands
  BY DEF ClickElement, ClickEdit, ClickSave, Doing, Selects, ReportCommands
<1>2. CASE loop' = Threw /\ page' = page
  BY <1>1, <1>2, ThrowMoves
<1>3. CASE loop' = [Acted(loop) EXCEPT !.reported = TRUE] /\ Later(page')
  <2>1. Passes(loop')
    BY <1>3, ActedIs, Typed
  <2>2. loop'.reported
    BY <1>3, Typed DEF Acted, LoopType
  <2> QED BY <1>1, <1>3, <2>1, <2>2, OtherMoves
<1>4. ASSUME page' \in Obeys(Tagged, goal.wanted)
       PROVE  Later(page')
  <2>1. Tagged \in {Tagged, [Tagged EXCEPT !.open = TRUE]} /\ TRUE \in BOOLEAN
    OBVIOUS
  <2>2. Later(Tagged)
    BY <2>1, TaggedIs
  <2> QED BY <1>4, <2>2, ObeysIs, Typed
<1>5. ASSUME page' \in Obeys(page, goal.wanted)
       PROVE  Later(page')
  BY <1>5, PageIsLater, ObeysIs, Typed
<1>6. ASSUME ClickSave /\ \E p \in Obeys(page, goal.wanted) : page' = [p EXCEPT !.saved = goal.wanted]
       PROVE  Later(page')
  <2>1. PICK p \in Obeys(page, goal.wanted) : page' = [p EXCEPT !.saved = goal.wanted]
    BY <1>6
  <2>2. Later(p) /\ cmd = "save-dashboard"
    BY <1>6, <2>1, PageIsLater, ObeysIs, Typed DEF ClickSave, Doing
  <2>3. page' \in PageType /\ page'.shown = p.shown /\ page'.late = p.late /\ page'.seen = p.seen
    BY <2>1, <2>2, Typed DEF Later, PageType
  <2> QED BY <2>2, <2>3 DEF Later
<1>7. ASSUME page' = page
       PROVE  Later(page')
  BY <1>7, PageIsLater
<1> QED BY <1>2, <1>3, <1>4, <1>5, <1>6, <1>7 DEF ClickElement, ClickEdit, ClickSave, Finds

\* A command that always reports goes on, returns or throws.
LEMMA StepMoves ==
  ASSUME AdapterInv, Working, loop.at = "act", disturbed' = disturbed, cmd \in AlwaysReports,
         \/ loop' = Threw /\ page' = page
         \/ /\ Later(page')
            /\ \/ \E part \in {1, 2, 3, 4} : loop' = [loop EXCEPT !.part = part]
               \/ /\ \/ loop' = Acted(loop)
                     \/ \E prev \in Labels \cup {NoLabel} : loop' = [Acted(loop) EXCEPT !.prev = prev]
                  /\ cmd \in ReportCommands => WantedSeen'
  PROVE  ActMove
<1>1. CASE loop' = Threw /\ page' = page
  BY <1>1, ThrowMoves
<1>2. CASE Later(page') /\ \E part \in {1, 2, 3, 4} : loop' = [loop EXCEPT !.part = part]
  <2>1. PICK part \in {1, 2, 3, 4} : loop' = [loop EXCEPT !.part = part]
    BY <1>2
  <2>2. Goes(loop') /\ loop'.reported = loop.reported
    BY <2>1, GoesTo
  <2> QED BY <1>2, <2>2, ReportedMoves
<1>3. CASE Later(page') /\ loop' = Acted(loop) /\ (cmd \in ReportCommands => WantedSeen')
  <2>1. Passes(loop')
    BY <1>3, ActedIs, Typed
  <2>2. loop'.reported = loop.reported
    BY <1>3, Typed DEF Acted, LoopType
  <2> QED BY <1>3, <2>1, <2>2, ReportedMoves
<1>4. CASE /\ Later(page') /\ (cmd \in ReportCommands => WantedSeen')
           /\ \E prev \in Labels \cup {NoLabel} : loop' = [Acted(loop) EXCEPT !.prev = prev]
  <2>1. PICK prev \in Labels \cup {NoLabel} : loop' = [Acted(loop) EXCEPT !.prev = prev]
    BY <1>4
  <2>2. Passes(loop')
    BY <2>1, ActedIs
  <2>3. loop'.reported = loop.reported
    BY <2>1, Typed DEF Acted, LoopType
  <2> QED BY <1>4, <2>2, <2>3, ReportedMoves
<1> QED BY <1>1, <1>2, <1>3, <1>4

LEMMA PillMoves ==
  ASSUME AdapterInv, Working, ClickPill \/ OpenPill \/ PickOption \/ ApplyOption
  PROVE  ActMove
<1>1. /\ loop.at = "act" /\ disturbed' = disturbed /\ cmd \in AlwaysReports
      /\ cmd \notin ReportCommands
  BY DEF ClickPill, OpenPill, PickOption, ApplyOption, Doing, AlwaysReports, ReportCommands
<1>2. CASE loop' = Threw /\ page' = page
  BY <1>1, <1>2, StepMoves
<1>3. CASE loop' = Acted(loop) /\ Later(page')
  BY <1>1, <1>3, StepMoves
<1>4. ASSUME page' \in Obeys(page, goal.wanted) PROVE Later(page')
  BY <1>4, PageIsLater, ObeysIs, Typed
<1>5. ASSUME page' \in {page, [page EXCEPT !.open = TRUE], [page EXCEPT !.draft = goal.wanted]}
      PROVE  Later(page')
  <2>1. PICK open, draft : open = TRUE /\ open \in BOOLEAN /\ draft = goal.wanted
                           /\ draft \in Labels \cup {NoLabel}
    BY Typed
  <2>2. page' \in {page, [page EXCEPT !.open = open], [page EXCEPT !.draft = draft]}
    BY <1>5, <2>1
  <2>3. CASE page' = page
    BY <2>3, PageIsLater
  <2>4. CASE page' = [page EXCEPT !.open = open]
    BY <2>1, <2>4, PageIsLater, OpenIs
  <2>5. CASE page' = [page EXCEPT !.draft = draft]
    BY <2>1, <2>5, PageIsLater, OpenIs
  <2> QED BY <2>2, <2>3, <2>4, <2>5
<1>6. ASSUME \E p \in IF page.draft = NoLabel THEN {page} ELSE Obeys(page, page.draft) :
               page' = [p EXCEPT !.draft = NoLabel, !.open = FALSE]
      PROVE  Later(page')
  <2>1. PICK p : /\ p = page \/ (page.draft # NoLabel /\ p \in Obeys(page, page.draft))
                 /\ page' = [p EXCEPT !.draft = NoLabel, !.open = FALSE]
    BY <1>6
  <2>2. Later(p)
    <3>1. CASE p = page
      BY <3>1, PageIsLater
    <3>2. CASE page.draft # NoLabel /\ p \in Obeys(page, page.draft)
      <4>1. page.draft \in Labels
        BY <3>2, Typed
      <4> QED BY <3>2, <4>1, PageIsLater, ObeysIs
    <3> QED BY <2>1, <3>1, <3>2
  <2>3. PICK open, draft : open = FALSE /\ open \in BOOLEAN /\ draft = NoLabel
                           /\ draft \in Labels \cup {NoLabel}
    OBVIOUS
  <2> QED BY <2>1, <2>2, <2>3, OpenIs
<1> QED BY <1>2, <1>3, <1>4, <1>5, <1>6 DEF ClickPill, OpenPill, PickOption, ApplyOption, Finds

LEMMA ClassicMoves == ASSUME AdapterInv, Working, ClassicApply PROVE ActMove
<1>1. /\ loop.at = "act" /\ disturbed' = disturbed /\ cmd \in AlwaysReports
      /\ cmd \notin ReportCommands /\ cmd # "navigate"
  BY DEF ClassicApply, AlwaysReports, ReportCommands
<1>2. CASE loop' = Threw /\ page' = page
  BY <1>1, <1>2, StepMoves
<1>3. CASE loop' = [Acted(loop) EXCEPT !.prev = page.shown] /\ Later(page')
  <2>1. page.shown \in Labels \cup {NoLabel}
    BY <1>1, Typed DEF AdapterInv, PageOK, Shown
  <2> QED BY <1>1, <1>3, <2>1, StepMoves
<1>4. CASE loop' = [loop EXCEPT !.part = 1] /\ page' = [page EXCEPT !.open = TRUE]
  <2>1. Later(page')
    <3>1. PICK open \in BOOLEAN : open = TRUE
      OBVIOUS
    <3> QED BY <1>4, <3>1, PageIsLater, OpenIs
  <2> QED BY <1>1, <1>4, <2>1, StepMoves
<1>5. ASSUME \E p \in Obeys(page, goal.wanted) : page' = [p EXCEPT !.open = FALSE]
      PROVE  Later(page')
  <2>1. PICK p \in Obeys(page, goal.wanted) : page' = [p EXCEPT !.open = FALSE]
    BY <1>5
  <2>2. Later(p)
    BY <2>1, PageIsLater, ObeysIs, Typed
  <2>3. PICK open \in BOOLEAN : open = FALSE
    OBVIOUS
  <2> QED BY <2>1, <2>2, <2>3, OpenIs
<1>6. \/ LocateControl(goal.wanted, loop' = [Acted(loop) EXCEPT !.prev = page.shown],
                       loop' = Threw /\ page' = page)
      \/ ClickOption(goal.wanted, loop' = [Acted(loop) EXCEPT !.prev = page.shown],
                     loop' = Threw /\ page' = page)
  BY DEF ClassicApply
<1> QED BY <1>2, <1>3, <1>4, <1>5, <1>6, PageIsLater DEF LocateControl, ClickOption

\* A report's action returns only after its row has shown the label.
LEMMA ReportMoves ==
  ASSUME AdapterInv, Working,
         \/ ReportInline \/ OpenReportEditor \/ SelectEditorChoice \/ TypeEditorInputs
         \/ ClickReportApply \/ AwaitReportLabel
  PROVE  ActMove
<1>1. /\ loop.at = "act" /\ disturbed' = disturbed /\ cmd \in AlwaysReports
      /\ page.shown \in page.seen
  BY DEF ReportInline, OpenReportEditor, SelectEditorChoice, TypeEditorInputs,
     ClickReportApply, AwaitReportLabel, Doing, AlwaysReports, ReportCommands, AdapterInv, PageOK
<1>2. CASE loop' = Threw /\ page' = page
  BY <1>1, <1>2, StepMoves
<1>3. CASE Includes(page.shown, goal.wanted) /\ loop' = Acted(loop) /\ page' = page
  <2>1. WantedSeen'
    BY <1>1, <1>3 DEF WantedSeen, Working
  <2> QED BY <1>1, <1>3, <2>1, PageIsLater, StepMoves
<1>4. CASE Later(page') /\ \E part \in {1, 2, 3, 4} : loop' = [loop EXCEPT !.part = part]
  BY <1>1, <1>4, StepMoves
<1>5. ASSUME \/ page' \in {page, [page EXCEPT !.open = TRUE],
                          [page EXCEPT !.open = TRUE, !.draft = goal.wanted],
                          [page EXCEPT !.draft = goal.wanted]}
             \/ page' \in Obeys(page, goal.wanted)
             \/ \E p \in Obeys(page, goal.wanted) :
                  page' = [p EXCEPT !.draft = NoLabel, !.open = FALSE]
      PROVE  Later(page')
  <2>1. PICK open, draft : open = TRUE /\ open \in BOOLEAN /\ draft = goal.wanted
                           /\ draft \in Labels \cup {NoLabel}
    BY Typed
  <2>2. CASE page' = page \/ page' \in Obeys(page, goal.wanted)
    BY <2>2, PageIsLater, ObeysIs, Typed
  <2>3. CASE page' = [page EXCEPT !.open = open]
    BY <2>1, <2>3, PageIsLater, OpenIs
  <2>4. CASE page' = [page EXCEPT !.draft = draft]
    BY <2>1, <2>4, PageIsLater, OpenIs
  <2>5. CASE page' = [page EXCEPT !.open = open, !.draft = draft]
    BY <2>1, <2>5, PageIsLater, OpenIs
  <2>6. CASE \E p \in Obeys(page, goal.wanted) : page' = [p EXCEPT !.draft = NoLabel, !.open = FALSE]
    <3>1. PICK p \in Obeys(page, goal.wanted) : page' = [p EXCEPT !.draft = NoLabel, !.open = FALSE]
      BY <2>6
    <3>2. Later(p)
      BY <3>1, PageIsLater, ObeysIs, Typed
    <3>3. PICK shut, none : shut = FALSE /\ shut \in BOOLEAN /\ none = NoLabel
                            /\ none \in Labels \cup {NoLabel}
      OBVIOUS
    <3>4. page' = [p EXCEPT !.draft = none, !.open = shut]
      BY <3>1, <3>3
    <3> QED BY <3>2, <3>3, <3>4, OpenIs
  <2> QED BY <1>5, <2>1, <2>2, <2>3, <2>4, <2>5, <2>6
<1>6. \/ loop' = Threw /\ page' = page
      \/ Includes(page.shown, goal.wanted) /\ loop' = Acted(loop) /\ page' = page
      \/ /\ \E part \in {1, 2, 3, 4} : loop' = [loop EXCEPT !.part = part]
         /\ \/ page' \in {page, [page EXCEPT !.open = TRUE],
                           [page EXCEPT !.open = TRUE, !.draft = goal.wanted],
                           [page EXCEPT !.draft = goal.wanted]}
            \/ page' \in Obeys(page, goal.wanted)
            \/ \E p \in Obeys(page, goal.wanted) :
                 page' = [p EXCEPT !.draft = NoLabel, !.open = FALSE]
  <2>1. CASE ReportInline
    BY <2>1 DEF ReportInline, Finds
  <2>2. CASE OpenReportEditor
    BY <2>2 DEF OpenReportEditor, Finds
  <2>3. CASE SelectEditorChoice \/ TypeEditorInputs
    BY <2>3 DEF SelectEditorChoice, TypeEditorInputs, Finds
  <2>4. CASE ClickReportApply \/ AwaitReportLabel
    BY <2>4 DEF ClickReportApply, AwaitReportLabel, Finds
  <2> QED BY <2>1, <2>2, <2>3, <2>4
<1> QED BY <1>2, <1>3, <1>4, <1>5, <1>6

\* The editor is opened, or the widget moved; what is not told changed nothing.
LEMMA WidgetMoves ==
  ASSUME AdapterInv, Working, ReflowMove \/ DragWidget \/ RecordMovePlan PROVE ActMove
<1>1. /\ loop.at = "act" /\ disturbed' = disturbed
      /\ cmd \notin {"enter-text", "navigate"} \cup Selects \cup ReportCommands
  BY DEF ReflowMove, DragWidget, RecordMovePlan, Doing, Selects, ReportCommands
<1>2. CASE loop' = Threw /\ page' = page
  BY <1>1, <1>2, ThrowMoves
<1>3. CASE page' = page /\ \E part \in {1, 2, 3, 4} : loop' = [loop EXCEPT !.part = part]
  <2>1. PICK part \in {1, 2, 3, 4} : loop' = [loop EXCEPT !.part = part]
    BY <1>3
  <2>2. Goes(loop') /\ loop'.reported = loop.reported
    BY <1>1, <2>1, GoesTo
  <2> QED BY <1>1, <1>3, <2>2, PageIsLater, OtherMoves DEF Untouched, Working
<1>4. CASE page' = page /\ loop' = Acted(loop)
  <2>1. Passes(loop')
    BY <1>4, ActedIs, Typed
  <2>2. loop'.reported = loop.reported
    BY <1>4, Typed DEF Acted, LoopType
  <2> QED BY <1>1, <1>4, <2>1, <2>2, PageIsLater, OtherMoves DEF Untouched, Working
<1>5. CASE /\ loop' = Threw \/ loop' = [Threw EXCEPT !.reported = TRUE]
           /\ page' = [page EXCEPT !.open = TRUE]
  <2>1. PICK open \in BOOLEAN : open = TRUE
    OBVIOUS
  <2>2. Later(page') /\ (Untouched => Untouched')
    BY <1>5, <2>1, PageIsLater, OpenIs DEF Untouched, Working
  <2> QED BY <1>1, <1>5, <2>2, ThrewIs, OtherMoves
<1>6. CASE page' \in Obeys(page, goal.wanted)
             /\ loop' = [loop EXCEPT !.part = 2, !.reported = TRUE]
  <2>1. PICK part, told : part = 2 /\ part \in {1, 2, 3, 4} /\ told = TRUE /\ told \in BOOLEAN
    OBVIOUS
  <2>2. Goes(loop') /\ loop'.reported = told
    BY <1>1, <1>6, <2>1, GoesOnTold
  <2>3. Later(page')
    BY <1>6, PageIsLater, ObeysIs, Typed
  <2> QED BY <1>1, <2>1, <2>2, <2>3, OtherMoves
<1> QED BY <1>2, <1>3, <1>4, <1>5, <1>6 DEF ReflowMove, DragWidget, RecordMovePlan, Finds

LEMMA LeaveIs ==
  ASSUME AdapterInv, cmd = "navigate", NEW url \in Shown
  PROVE  Later(Leave(page, url))
<1>1. Later(page) /\ cmd # "save-dashboard"
  BY PageIsLater
<1>2. Leave(page, url) \in PageType
  BY <1>1 DEF Later, Leave, PageType
<1>3. /\ Leave(page, url).shown = page.shown /\ Leave(page, url).seen = page.seen
      /\ Leave(page, url).saved = page.saved
  BY <1>1 DEF Later, Leave, PageType
<1> QED BY <1>1, <1>2, <1>3 DEF Later

LEMMA UrlMoves ==
  ASSUME AdapterInv, Working, OpenUrl \/ (WaitForUrl /\ loop.at = "act") PROVE ActMove
<1>1. /\ loop.at = "act" /\ disturbed' = disturbed /\ cmd = "navigate"
      /\ cmd \notin {"enter-text"} \cup Selects \cup ReportCommands
  BY DEF OpenUrl, WaitForUrl, Doing, Selects, ReportCommands
<1>2. CASE (loop' = Threw \/ loop' = [Threw EXCEPT !.reported = TRUE]) /\ page' = page
  BY <1>1, <1>2, ThrowMoves
<1>3. CASE loop' = Acted(loop) /\ page' = page
  <2>1. Passes(loop')
    BY <1>3, ActedIs, Typed
  <2>2. loop'.reported = loop.reported
    BY <1>3, Typed DEF Acted, LoopType
  <2> QED BY <1>1, <1>3, <2>1, <2>2, PageIsLater, OtherMoves
<1>4. CASE /\ loop' = [loop EXCEPT !.part = 1, !.reported = TRUE]
           /\ page' \in {Leave(page, url) : url \in Labels \ {{}}}
  <2>1. PICK part, told : part = 1 /\ part \in {1, 2, 3, 4} /\ told = TRUE /\ told \in BOOLEAN
    OBVIOUS
  <2>2. Goes(loop') /\ loop'.reported = told
    BY <1>1, <1>4, <2>1, GoesOnTold
  <2>3. Later(page')
    BY <1>1, <1>4, LeaveIs DEF Shown
  <2> QED BY <1>1, <2>1, <2>2, <2>3, OtherMoves
<1>5. OpenUrl => \/ loop' = [Threw EXCEPT !.reported = TRUE] /\ page' = page
                 \/ /\ loop' = [loop EXCEPT !.part = 1, !.reported = TRUE]
                    /\ page' \in {Leave(page, url) : url \in Labels \ {{}}}
  BY DEF OpenUrl
<1>6. WaitForUrl => (loop' = Acted(loop) \/ loop' = Threw) /\ page' = page
  BY <1>1 DEF WaitForUrl
<1> QED BY <1>2, <1>3, <1>4, <1>5, <1>6

LEMMA ActsMove ==
  ASSUME AdapterInv, Working, loop.at = "act", BrowserStep \/ DashboardStep PROVE ActMove
BY TextMoves, SelectMoves, ClickMoves, PillMoves, ClassicMoves, ReportMoves, WidgetMoves, UrlMoves
   DEF BrowserStep, BrowserActs, BrowserUndoes, DashboardStep, AssignPrevious, PrepareRestore,
   FinishRestore, GoBack, NavigateBack, ClassicUndo, ReloadReport, Undoes

-----------------------------------------------------------------------------
(* The rollbacks.                                                            *)

LEMMA UndidIs ==
  ASSUME AdapterInv, NEW l, l \in {Undid, UndoThrew}
  PROVE  /\ l \in LoopType /\ l.at = "done" /\ l.leg = loop.leg /\ l.action = loop.action
         /\ l.undone = loop.undone /\ l.prev = loop.prev /\ l.reported = loop.reported
         /\ l = Undid => l.failed = loop.failed /\ l.lost = loop.lost /\ l.rolledBack = TRUE
         /\ l = UndoThrew => /\ l.failed = loop.failed \cup {"rollback"} /\ l.lost = TRUE
                            /\ l.rolledBack = loop.rolledBack
<1>1. "rollback" \in Checks /\ loop \in LoopType
  BY Typed DEF Checks
<1>2. PICK f : f = Fail("rollback") /\ f \in LoopType /\ f.leg = loop.leg /\ f.prev = loop.prev
        /\ f.action = loop.action /\ f.failed = loop.failed \cup {"rollback"} /\ f.lost = TRUE
        /\ f.undone = loop.undone /\ f.rolledBack = loop.rolledBack /\ f.reported = loop.reported
  BY <1>1, FailIs
<1>3. PICK back : back = [loop EXCEPT !.at = "done", !.rolledBack = TRUE] /\ back = Undid
  BY DEF Undid
<1>4. PICK threw : threw = [f EXCEPT !.at = "done"] /\ threw = UndoThrew
  BY <1>2 DEF UndoThrew
<1>5. back \in LoopType
  <2>1. "done" \in Positions
    BY DEF Positions
  <2> QED BY <1>1, <1>3, <2>1 DEF LoopType
<1>6. threw \in LoopType
  <2>1. "done" \in Positions
    BY DEF Positions
  <2> QED BY <1>2, <1>4, <2>1 DEF LoopType
<1>7. /\ back.at = "done" /\ back.leg = loop.leg /\ back.action = loop.action
      /\ back.undone = loop.undone /\ back.prev = loop.prev /\ back.reported = loop.reported
      /\ back.failed = loop.failed /\ back.lost = loop.lost /\ back.rolledBack = TRUE
  BY <1>1, <1>3 DEF LoopType
<1>8. /\ threw.at = "done" /\ threw.leg = f.leg /\ threw.action = f.action
      /\ threw.undone = f.undone /\ threw.prev = f.prev /\ threw.reported = f.reported
      /\ threw.failed = f.failed /\ threw.lost = f.lost /\ threw.rolledBack = f.rolledBack
  BY <1>2, <1>4 DEF LoopType
<1>9. l = Undid => l = back
  BY <1>3
<1>10. l = UndoThrew => l = threw
  BY <1>4
<1>11. l = Undid => l.failed = loop.failed /\ l.lost = loop.lost /\ l.rolledBack = TRUE
  BY <1>7, <1>9
<1>12. l = UndoThrew => /\ l.failed = loop.failed \cup {"rollback"} /\ l.lost = TRUE
                       /\ l.rolledBack = loop.rolledBack
  BY <1>2, <1>8, <1>10
<1>13. /\ l \in LoopType /\ l.at = "done" /\ l.leg = loop.leg /\ l.action = loop.action
       /\ l.undone = loop.undone /\ l.prev = loop.prev /\ l.reported = loop.reported
  BY <1>2, <1>5, <1>6, <1>7, <1>8, <1>9, <1>10
<1> QED BY <1>11, <1>12, <1>13

LEMMA UndoingGoesOn ==
  ASSUME AdapterInv, loop.at = "undo", NEW part \in {1, 2, 3, 4}, NEW l,
         l = [loop EXCEPT !.part = part]
  PROVE  /\ l \in LoopType /\ l.at = "undo" /\ l.part = part /\ l.leg = loop.leg
         /\ l.action = loop.action /\ l.failed = loop.failed /\ l.lost = loop.lost
         /\ l.undone = loop.undone /\ l.prev = loop.prev /\ l.reported = loop.reported
         /\ l.rolledBack = loop.rolledBack
<1>1. loop \in LoopType /\ part \in 0 .. 5
  BY Typed, Parts
<1>2. l \in LoopType
  BY <1>1 DEF LoopType
<1>3. /\ l.at = "undo" /\ l.part = part /\ l.leg = loop.leg
      /\ l.action = loop.action /\ l.failed = loop.failed /\ l.lost = loop.lost
      /\ l.undone = loop.undone /\ l.prev = loop.prev /\ l.reported = loop.reported
      /\ l.rolledBack = loop.rolledBack
  BY <1>1 DEF LoopType
<1> QED BY <1>2, <1>3

LEMMA NotYetBack ==
  ASSUME AdapterInv, loop.at = "undo"
  PROVE  loop.rolledBack = FALSE /\ (disturbed \in BOOLEAN)
BY Typed DEF AdapterInv, CountOK

\* A rollback that throws leaves the page as it is.
LEMMA UndoThrowMoves ==
  ASSUME AdapterInv, Working, loop.at = "undo", disturbed' = disturbed,
         cmd \notin {"set-filter-dropdown", "set-filter-classic"},
         loop' = UndoThrew, page' = page
  PROVE  UndoMove
<1>1. Later(page') /\ Untouched' = Untouched
  BY PageIsLater DEF Untouched, Working
<1>2. page'.tagged = page.tagged
  OBVIOUS
<1> QED BY <1>1, <1>2, LaterIsOK, UndidIs, NotYetBack DEF UndoMove

\* One that goes on may change what is told of already, or leave the URL.
LEMMA UndoOnMoves ==
  ASSUME AdapterInv, Working, loop.at = "undo", disturbed' = disturbed, Later(page'),
         NEW part \in {1, 2, 3, 4}, loop' = [loop EXCEPT !.part = part],
         (cmd = "set-filter-classic" /\ part = 1) => loop.prev # NoLabel,
         cmd = "navigate" \/ (page'.tagged = page.tagged /\ (Untouched => Untouched'))
  PROVE  UndoMove
<1>1. cmd = "navigate" => cmd \notin Selects /\ cmd # "enter-text"
  BY DEF Selects
<1> QED BY <1>1, LaterIsOK, UndoingGoesOn, NotYetBack DEF UndoMove

LEMMA AssignMoves == ASSUME AdapterInv, Working, AssignPrevious PROVE UndoMove
<1>1. /\ loop.at = "undo" /\ disturbed' = disturbed /\ cmd = "enter-text"
      /\ cmd \notin {"set-filter-dropdown", "set-filter-classic"} \cup Selects
  BY DEF AssignPrevious, Undoes, Selects
<1>2. CASE loop' = UndoThrew /\ page' = page
  BY <1>1, <1>2, UndoThrowMoves
<1>3. CASE loop' = Undid /\ page' = IF page.tagged
                     THEN Input(page, IF loop.prev = NoLabel THEN {} ELSE loop.prev)
                     ELSE page
  <2>1. PICK label \in Labels : label = IF loop.prev = NoLabel THEN {} ELSE loop.prev
    BY Typed, LoopAssumption
  <2>2. page' = IF page.tagged THEN Input(page, label) ELSE page
    BY <1>3, <2>1
  <2>3. Later(page') /\ page'.tagged = page.tagged
        /\ (page.tagged => page'.shown = label /\ page'.late = NoLabel)
    BY <2>2, PageIsLater, InputIs
  <2>4. loop'.rolledBack /\ loop'.prev = loop.prev
    BY <1>3, UndidIs
  <2>5. (~disturbed /\ loop.prev # NoLabel) => Untouched'
    BY <1>1, <2>1, <2>3 DEF AdapterInv, RestoreOK, Remembering, Untouched, Working
  <2> QED BY <1>1, <1>3, <2>3, <2>4, <2>5, LaterIsOK, UndidIs, NotYetBack DEF UndoMove, Remembering
<1> QED BY <1>2, <1>3 DEF AssignPrevious

LEMMA SelectUndoes ==
  ASSUME AdapterInv, Working, PrepareRestore \/ FinishRestore PROVE UndoMove
<1>1. /\ loop.at = "undo" /\ disturbed' = disturbed /\ cmd \in Selects
      /\ cmd \notin {"set-filter-dropdown", "set-filter-classic", "navigate", "enter-text",
                    "save-dashboard"}
  BY DEF PrepareRestore, FinishRestore, Undoes, Selects
<1>2. CASE loop' = UndoThrew /\ page' = page
  BY <1>1, <1>2, UndoThrowMoves
<1>3. CASE PrepareRestore /\ loop' = [loop EXCEPT !.part = 1]
             /\ page' = [page EXCEPT !.open = cmd = "select-custom"]
  <2>1. PICK open, part : /\ open \in BOOLEAN /\ open = (cmd = "select-custom")
                          /\ part = 1 /\ part \in {1, 2, 3, 4}
    OBVIOUS
  <2>2. page' = [page EXCEPT !.open = open] /\ loop' = [loop EXCEPT !.part = part]
    BY <1>3, <2>1
  <2>3. PICK p, q : p = page /\ q = [p EXCEPT !.open = open] /\ q = page'
    BY <2>2
  <2>4. Later(p)
    BY <2>3, PageIsLater
  <2>5. Later(q) /\ q.shown = p.shown /\ q.late = p.late /\ q.tagged = p.tagged
    BY <2>1, <2>3, <2>4, OpensIs
  <2>6. Later(page') /\ page'.tagged = page.tagged /\ (Untouched => Untouched')
    BY <2>3, <2>5 DEF Untouched, Working
  <2> QED BY <1>1, <2>1, <2>2, <2>6, UndoOnMoves
<1>4. CASE /\ FinishRestore /\ page.tagged /\ loop' = Undid
           /\ \E p \in CASE cmd = "select-native" -> {Input(page, loop.prev)}
                      [] cmd = "select-custom" /\ loop.prev = {} -> {page}
                      [] OTHER -> {Input(page, loop.prev)} \cup Obeys(page, loop.prev) :
                page' = [p EXCEPT !.mark = IF p.shown = Earlier THEN @ ELSE p.shown,
                                  !.open = FALSE]
  <2>1. loop.prev \in Labels
    BY <1>1, <1>4, Typed DEF AdapterInv, RestoreOK
  <2>2. PICK p : /\ p \in {Input(page, loop.prev), page} \cup Obeys(page, loop.prev)
                 /\ cmd = "select-native" => p = Input(page, loop.prev)
                 /\ page' = [p EXCEPT !.mark = IF p.shown = Earlier THEN @ ELSE p.shown,
                                      !.open = FALSE]
    <3>1. PICK p \in CASE cmd = "select-native" -> {Input(page, loop.prev)}
                       [] cmd = "select-custom" /\ loop.prev = {} -> {page}
                       [] OTHER -> {Input(page, loop.prev)} \cup Obeys(page, loop.prev) :
            page' = [p EXCEPT !.mark = IF p.shown = Earlier THEN @ ELSE p.shown, !.open = FALSE]
      BY <1>4
    <3>2. CASE cmd = "select-native"
      <4>1. p = Input(page, loop.prev)
        BY <3>1, <3>2
      <4> QED BY <3>1, <4>1
    <3>3. CASE cmd # "select-native" /\ loop.prev = {}
      BY <3>1, <3>3
    <3>4. CASE cmd # "select-native" /\ loop.prev # {}
      BY <3>1, <3>4
    <3> QED BY <3>2, <3>3, <3>4
  <2>3. Later(p) /\ p.tagged = page.tagged
        /\ (cmd = "select-native" => p.shown = loop.prev /\ p.late = NoLabel)
    <3>1. CASE p = Input(page, loop.prev)
      BY <2>1, <3>1, PageIsLater, InputIs
    <3>2. CASE p = page \/ p \in Obeys(page, loop.prev)
      BY <2>1, <2>2, <3>2, PageIsLater, ObeysIs, InputIs
    <3> QED BY <2>2, <3>1, <3>2
  <2>4. p \in PageType /\ p.shown \in Labels /\ p.shown # Earlier
    BY <1>1, <2>3 DEF Later, PageType, Shown
  <2>5. page' = [p EXCEPT !.mark = p.shown, !.open = FALSE]
    BY <2>2, <2>4
  <2>6. Later(page') /\ page'.tagged = page.tagged
        /\ (cmd = "select-native" => page'.shown = loop.prev /\ page'.late = NoLabel)
    BY <2>3, <2>4, <2>5 DEF Later, PageType
  <2>7. loop'.rolledBack /\ loop'.prev = loop.prev
    BY <1>4, UndidIs
  <2>8. cmd \notin Unrestored => Untouched'
    BY <1>1, <1>4, <2>6 DEF AdapterInv, RestoreOK, Remembering, Selects, Unrestored, Untouched, Working
  <2> QED BY <1>1, <1>4, <2>6, <2>7, <2>8, LaterIsOK, UndidIs, NotYetBack DEF UndoMove
<1> QED BY <1>2, <1>3, <1>4 DEF PrepareRestore, FinishRestore

\* What a load does: the page is as it was saved, or it did not load.
LEMMA LoadIs ==
  ASSUME AdapterInv, cmd # "navigate", page' = Loaded(page), UNCHANGED <<cmd, goal>>
  PROVE  /\ Later(page') /\ page'.tagged = FALSE
         /\ cmd # "save-dashboard" => page'.shown = goal.before /\ page'.late = NoLabel
<1>1. PICK label : label \in Labels /\ label = page.saved
  BY Typed
<1>2. PICK p : p = Show(page, label) /\ Later(p) /\ p.shown = label /\ p.saved = label
  BY <1>1, PageIsLater, ShowIs
<1>3. page' = [p EXCEPT !.late = NoLabel, !.draft = NoLabel, !.open = FALSE, !.tagged = FALSE,
                        !.mark = NoLabel]
  BY <1>1, <1>2 DEF Loaded
<1>4. page' \in PageType
  BY <1>2, <1>3 DEF Later, PageType
<1>5. /\ page'.shown = label /\ page'.saved = label /\ page'.late = NoLabel
      /\ page'.tagged = FALSE /\ page'.seen = p.seen
  BY <1>2, <1>3 DEF Later, PageType
<1>6. cmd # "save-dashboard" => label = goal.before
  BY <1>1 DEF AdapterInv, PageOK
<1>7. Later(page')
  BY <1>2, <1>4, <1>5, LoopAssumption DEF Later
<1> QED BY <1>5, <1>6, <1>7

\* Whether the page loads or not, these commands say that they are back.
LEMMA LoadMoves ==
  ASSUME AdapterInv, Working, loop.at = "undo", loop' = Undid,
         cmd \in Navigators \cup ReportCommands \cup {"set-filter-classic"},
         \/ page' = Loaded(page) /\ disturbed' = disturbed
         \/ page' = page /\ disturbed' = TRUE
  PROVE  UndoMove
<1>1. cmd \notin Selects \cup {"enter-text", "navigate"}
  BY DEF Navigators, ReportCommands, Selects
<1>2. loop'.rolledBack /\ loop'.prev = loop.prev
  BY UndidIs
<1>3. CASE page' = Loaded(page) /\ disturbed' = disturbed
  <2>1. Later(page') /\ (cmd \notin Unrestored => Untouched')
    BY <1>1, <1>3, LoadIs DEF Unrestored, Untouched, Working
  <2> QED BY <1>1, <1>2, <1>3, <2>1, LaterIsOK, UndidIs, NotYetBack DEF UndoMove
<1>4. CASE page' = page /\ disturbed' = TRUE
  <2>1. Later(page')
    BY <1>4, PageIsLater
  <2> QED BY <1>1, <1>2, <1>4, <2>1, LaterIsOK, UndidIs, NotYetBack DEF UndoMove
<1> QED BY <1>3, <1>4

LEMMA ReloadMoves == ASSUME AdapterInv, Working, NavigateBack \/ ReloadReport PROVE UndoMove
<1>1. /\ loop.at = "undo" /\ cmd \in Navigators \cup ReportCommands
  BY DEF NavigateBack, ReloadReport, Undoes
<1>2. CASE NavigateBack
  <2>1. loop' = Undid /\ Load
    BY <1>2 DEF NavigateBack
  <2> QED BY <1>1, <2>1, LoadMoves DEF Load
<1>3. CASE ReloadReport /\ loop' = Undid
  <2>1. page' = Loaded(page) /\ disturbed' = disturbed
    <3>1. Undid # UndoThrew
      BY UndidIs, NotYetBack, <1>1
    <3> QED BY <1>3, <3>1 DEF ReloadReport
  <2> QED BY <1>1, <1>3, <2>1, LoadMoves
<1>4. CASE ReloadReport /\ loop' # Undid
  BY <1>1, <1>4, UndoThrowMoves DEF ReloadReport, ReportCommands
<1> QED BY <1>2, <1>3, <1>4

LEMMA ClassicUndoes == ASSUME AdapterInv, Working, ClassicUndo PROVE UndoMove
<1>1. /\ loop.at = "undo" /\ cmd = "set-filter-classic" /\ cmd # "navigate"
      /\ cmd \notin Selects \cup {"enter-text"} /\ cmd \in Unrestored
  BY DEF ClassicUndo, Selects, Unrestored
<1>2. CASE loop.part = 2 /\ loop' = Undid /\ Load
  BY <1>1, <1>2, LoadMoves DEF Load
<1>3. CASE loop' = [loop EXCEPT !.part = 2] /\ page' = page /\ disturbed' = disturbed
  <2>1. PICK part : part \in {1, 2, 3, 4} /\ part = 2
    OBVIOUS
  <2>2. Later(page') /\ page'.tagged = page.tagged /\ (Untouched => Untouched')
    BY <1>3, PageIsLater DEF Untouched, Working
  <2> QED BY <1>1, <1>3, <2>1, <2>2, UndoOnMoves
<1>4. CASE /\ loop' = [loop EXCEPT !.part = 1] /\ page' = [page EXCEPT !.open = TRUE]
           /\ disturbed' = disturbed /\ loop.prev # NoLabel
  <2>1. PICK part, open : part \in {1, 2, 3, 4} /\ part = 1 /\ open \in BOOLEAN /\ open = TRUE
    OBVIOUS
  <2>2. Later(page') /\ page'.tagged = page.tagged /\ (Untouched => Untouched')
    BY <1>4, <2>1, PageIsLater, OpenIs DEF Untouched, Working
  <2> QED BY <1>1, <1>4, <2>1, <2>2, UndoOnMoves
<1>5. CASE loop' = Undid /\ Later(page') /\ disturbed' = disturbed
  <2>1. loop'.rolledBack /\ loop'.prev = loop.prev
    BY <1>5, UndidIs
  <2> QED BY <1>1, <1>5, <2>1, LaterIsOK, UndidIs, NotYetBack DEF UndoMove
<1>6. ASSUME loop.part = 1, \E p \in Obeys(page, loop.prev) : page' = [p EXCEPT !.open = FALSE]
      PROVE  Later(page')
  <2>1. PICK p \in Obeys(page, loop.prev) : page' = [p EXCEPT !.open = FALSE]
    BY <1>6
  <2>2. loop.prev \in Labels
    BY <1>1, <1>6, Typed DEF AdapterInv, RestoreOK
  <2>3. Later(p)
    BY <2>1, <2>2, PageIsLater, ObeysIs
  <2>4. PICK open \in BOOLEAN : open = FALSE
    OBVIOUS
  <2> QED BY <2>1, <2>3, <2>4, OpenIs
<1>7. \/ loop.part = 2 /\ loop' = Undid /\ Load
      \/ loop' = [loop EXCEPT !.part = 2] /\ page' = page /\ disturbed' = disturbed
      \/ /\ loop.prev # NoLabel /\ disturbed' = disturbed
         /\ LocateControl(loop.prev, loop' = Undid, loop' = [loop EXCEPT !.part = 2] /\ page' = page)
      \/ /\ loop.part = 1 /\ disturbed' = disturbed
         /\ ClickOption(loop.prev, loop' = Undid, loop' = [loop EXCEPT !.part = 2] /\ page' = page)
  BY DEF ClassicUndo
<1>8. CASE /\ loop.prev # NoLabel /\ disturbed' = disturbed
           /\ LocateControl(loop.prev, loop' = Undid, loop' = [loop EXCEPT !.part = 2] /\ page' = page)
  BY <1>3, <1>4, <1>5, <1>8, PageIsLater DEF LocateControl
<1>9. CASE /\ loop.part = 1 /\ disturbed' = disturbed
           /\ ClickOption(loop.prev, loop' = Undid, loop' = [loop EXCEPT !.part = 2] /\ page' = page)
  BY <1>3, <1>5, <1>6, <1>9 DEF ClickOption
<1> QED BY <1>2, <1>3, <1>7, <1>8, <1>9

LEMMA BackMoves ==
  ASSUME AdapterInv, Working, GoBack \/ (WaitForUrl /\ loop.at = "undo") PROVE UndoMove
<1>1. /\ loop.at = "undo" /\ cmd = "navigate" /\ disturbed' = disturbed
      /\ cmd \notin Selects \cup {"enter-text", "set-filter-dropdown", "set-filter-classic"}
      /\ cmd \in Unrestored
  BY DEF GoBack, WaitForUrl, Undoes, Selects, Unrestored
<1>2. CASE Later(page') /\ \E part \in {1, 2, 3, 4} : loop' = [loop EXCEPT !.part = part]
  BY <1>1, <1>2, UndoOnMoves
<1>3. CASE loop' = Undid /\ Later(page')
  <2>1. loop'.rolledBack /\ loop'.prev = loop.prev
    BY <1>3, UndidIs
  <2> QED BY <1>1, <1>3, <2>1, LaterIsOK, UndidIs, NotYetBack DEF UndoMove
<1>4. CASE loop' = UndoThrew /\ page' = page
  BY <1>1, <1>4, UndoThrowMoves
<1>5. Later(page) /\ Later(Leave(page, goal.before)) /\ Later(Leave(page, Earlier))
  BY <1>1, PageIsLater, LeaveIs, Typed DEF Shown
<1>6. CASE GoBack
  BY <1>2, <1>5, <1>6 DEF GoBack
<1>7. CASE WaitForUrl
  BY <1>1, <1>2, <1>3, <1>4, <1>5, <1>7 DEF WaitForUrl
<1> QED BY <1>6, <1>7

LEMMA UndoesMove ==
  ASSUME AdapterInv, Working, loop.at = "undo", BrowserStep \/ DashboardStep PROVE UndoMove
<1>1. AssignPrevious \/ PrepareRestore \/ FinishRestore \/ GoBack \/ WaitForUrl
      \/ NavigateBack \/ ClassicUndo \/ ReloadReport
  BY DEF BrowserStep, BrowserActs, BrowserUndoes, DashboardStep, Doing, PrepareText, InsertText,
     PrepareSelect, CompleteSelect, ClickElement, OpenUrl, ClickPill, OpenPill, PickOption,
     ApplyOption, ClassicApply, ReportInline, OpenReportEditor, SelectEditorChoice,
     TypeEditorInputs, ClickReportApply, AwaitReportLabel, ReflowMove, DragWidget, RecordMovePlan,
     ClickEdit, ClickSave
<1> QED BY <1>1, AssignMoves, SelectUndoes, BackMoves, ReloadMoves, ClassicUndoes

-----------------------------------------------------------------------------
(* The invariant, and what it says of a result.                              *)

LEMMA CommandKeeps == ASSUME AdapterInv, CommandStep PROVE AdapterInv'
<1>1. proc = "working" /\ UNCHANGED <<proc, result, events>>
  BY DEF CommandStep
<1>2. CASE LoopStep
  <2>1. Working
    BY <1>1, <1>2 DEF LoopStep, StartAction, AwaitNetwork, NetworkTimesOut, WaitStable,
       CheckPredicate, DrainToasts, Working
  <2>2. CASE \E network \in Networks : StartAction(network)
    <3>1. Networks \subseteq BOOLEAN
      BY DEF Networks, ReportCommands
    <3> QED BY <2>1, <2>2, <3>1, StartKeeps
  <2>3. CASE AwaitNetwork \/ NetworkTimesOut(FALSE)
    BY <2>1, <2>3, AwaitKeeps
  <2>4. CASE WaitStable(SkipsStability)
    <3>1. PICK skip \in BOOLEAN : WaitStable(skip)
      BY <2>4 DEF WaitStable, SkipsStability
    <3> QED BY <2>1, <3>1, StableKeeps
  <2>5. CASE CheckPredicate(cmd \notin ReportCommands, Predicate)
    BY <2>1, <2>5, PredicateKeeps
  <2>6. CASE DrainToasts(cmd # "set-filter-classic", HasRollback)
    <3>1. PICK blocking \in BOOLEAN : blocking = (cmd # "set-filter-classic")
      OBVIOUS
    <3>2. DrainToasts(blocking, HasRollback)
      BY <2>6, <3>1
    <3> QED BY <2>1, <3>2, DrainKeeps
  <2> QED BY <1>2, <2>2, <2>3, <2>4, <2>5, <2>6 DEF LoopStep
<1>3. CASE BrowserStep \/ DashboardStep
  <2>1. UNCHANGED <<cmd, goal>> /\ loop.at \in {"act", "undo"}
    <3>1. CASE BrowserStep
      BY <3>1 DEF BrowserStep, BrowserActs, BrowserUndoes, PrepareText, InsertText, AssignPrevious,
         PrepareSelect, CompleteSelect, PrepareRestore, FinishRestore, ClickElement, OpenUrl,
         WaitForUrl, GoBack, Doing, Undoes
    <3>2. CASE DashboardStep
      BY <3>2 DEF DashboardStep, ClickPill, OpenPill, PickOption, ApplyOption, ClassicApply,
         ReportInline, OpenReportEditor, SelectEditorChoice, TypeEditorInputs, ClickReportApply,
         AwaitReportLabel, ReflowMove, DragWidget, RecordMovePlan, ClickEdit, ClickSave,
         NavigateBack, ClassicUndo, ReloadReport, Doing, Undoes
    <3> QED BY <1>3, <3>1, <3>2
  <2>2. Working
    BY <1>1, <2>1 DEF Working
  <2>3. CASE loop.at = "act"
    BY <1>3, <2>2, <2>3, ActsMove, ActKeeps
  <2>4. CASE loop.at = "undo"
    BY <1>3, <2>2, <2>4, UndoesMove, UndoKeeps
  <2> QED BY <2>1, <2>3, <2>4
<1>4. CASE Wrapping /\ UNCHANGED <<cmd, goal, page, disturbed>>
  BY <1>1, <1>4, WrappingKeeps DEF Working
<1> QED BY <1>2, <1>3, <1>4 DEF CommandStep

LEMMA AdapterKeeps == AdapterInv /\ [Next]_vars => AdapterInv'
<1> SUFFICES ASSUME AdapterInv, [Next]_vars PROVE AdapterInv'
  OBVIOUS
<1>1. CASE StartInvocation \/ UnknownCommand \/ RefuseInvocation \/ RecordEnd
           \/ RecordSideEffects \/ UNCHANGED vars
  BY <1>1, OuterKeeps
<1>2. CASE Attach
  BY <1>2, AttachKeeps
<1>3. CASE CommandStep
  BY <1>3, CommandKeeps
<1>4. CASE ReturnResult
  BY <1>4, ReturnKeeps
<1>5. CASE Die
  BY <1>5, DieKeeps
<1>6. CASE PageLives
  <2>1. PageStep /\ Working
    BY <1>6 DEF PageLives, PageStep, Settle, Rerender, RaiseToast, Respond, Working
  <2> QED BY <2>1, PageKeeps
<1> QED BY <1>1, <1>2, <1>3, <1>4, <1>5, <1>6 DEF Next, ProcessStep

LEMMA AdapterInvHolds == Spec => []AdapterInv
BY InvocationBegins, AdapterKeeps, PTL DEF Spec

LEMMA HonestByInv == ASSUME AdapterInv PROVE ResultIsHonest
<1>1. SuccessShowsWanted
  <2> SUFFICES ASSUME result.status = "success", cmd \notin Selects \cup {"click-element"},
                      ~Includes(goal.other, goal.wanted)
               PROVE  WantedSeen
    BY DEF SuccessShowsWanted, WantedSeen
  <2>1. loop.at = "done" /\ ~loop.lost /\ ~Wraps
    BY DEF AdapterInv, ResultOK, CountOK, Ok
  <2>2. cmd = "set-filter-dropdown" => loop.leg = 3
    BY <2>1, Typed DEF Wraps
  <2> QED BY <2>1, <2>2 DEF AdapterInv, SeenOK
<1>2. ChangeIsTold
  BY DEF AdapterInv, ResultOK, ToldOK, Untouched, ChangeIsTold
<1> QED BY <1>1, <1>2 DEF AdapterInv, ResultIsHonest

LEMMA UndoneByInv == ASSUME AdapterInv PROVE FailureIsUndone
<1>1. RollbackOnFailure
  <2> SUFFICES ASSUME proc = "returned", loop.at = "done", HasUndo
               PROVE  loop.undone = IF Ok THEN 0 ELSE 1
    BY DEF RollbackOnFailure
  <2>1. loop.undone \in {0, 1} /\ (loop.undone = 1 => ~Ok)
    BY DEF AdapterInv, CountOK, Ok
  <2>2. ASSUME loop.undone = 0, ~Ok PROVE FALSE
    <3>1. loop.lost /\ ~HasRollback /\ ~loop.rolledBack /\ ~Wraps
      BY <2>2 DEF AdapterInv, CountOK, ResultOK, Ok
    <3> QED BY <3>1 DEF HasRollback, HasUndo, Wraps
  <2> QED BY <2>1, <2>2
<1>2. RollbackRestores
  BY DEF AdapterInv, ResultOK, RestoreOK, RollbackRestores, Untouched, Remembering, Unrestored
<1> QED BY <1>1, <1>2 DEF FailureIsUndone

\* An adapter command succeeds only when its page showed what was asked for,
\* and a result that names no side effect and no rollback left the page alone.
THEOREM ResultAlwaysHonest == Spec => []ResultIsHonest
BY AdapterInvHolds, HonestByInv, PTL

\* A command that can be undone is undone once when a check of it failed and
\* never otherwise, and a page nobody else disturbed shows what it did before.
THEOREM FailureAlwaysUndone == Spec => []FailureIsUndone
BY AdapterInvHolds, UndoneByInv, PTL
=============================================================================
