-------------------------- MODULE AdapterInvocation --------------------------
(* One `frontier adapter invoke` (src/cli.ts cmdAdapterInvoke): the process, *)
(* what it appends to the session ledger, and the command it runs on a page  *)
(* through the browser or the Salesforce adapter.                            *)
EXTENDS DashboardCommands

VARIABLES
  proc,    \* the process
  result,  \* what the adapter returned
  events   \* what the ledger holds of this invocation

vars == <<loopVars, proc, result, events>>

NoResult == [status |-> "none", reported |-> FALSE, rolledBack |-> FALSE]

InvocationTypeOK ==
  /\ LoopTypeOK
  /\ proc \in {"called", "started", "working", "returned", "exited", "died"}
  /\ result \in [status : {"none", "success", "failed"}, reported : BOOLEAN,
                 rolledBack : BOOLEAN]
  /\ events \subseteq {"start", "end", "side_effect"}

Init ==
  /\ cmd \in Commands
  /\ goal \in {g \in [before : Labels, wanted : Labels, other : Labels,
                      expect : BOOLEAN] :
                 /\ g.wanted # g.before
                 /\ cmd # "enter-text" => g.wanted # {}
                 /\ cmd = "navigate" => g.before # {}
                 /\ cmd # "set-filter-click" => g.other = {}}
  /\ page = NewPage(goal.before)
  /\ loop = NewLoop
  /\ disturbed = FALSE
  /\ proc = "called" /\ result = NoResult /\ events = {}

\* Input, schema and mode are good: the invocation is on record.
StartInvocation ==
  /\ proc = "called"
  /\ proc' = "started" /\ events' = {"start"}
  /\ UNCHANGED <<loopVars, result>>

Failed == [NoResult EXCEPT !.status = "failed"]

\* A command the manifest does not declare throws past every handler: main
\* prints the error and exits.
UnknownCommand ==
  /\ proc = "started"
  /\ proc' = "exited"
  /\ UNCHANGED <<loopVars, result, events>>

\* Bad arguments, a mode that is not supported, no browser to attach to.
RefuseInvocation ==
  /\ proc = "started"
  /\ proc' = "returned" /\ result' = Failed
  /\ UNCHANGED <<loopVars, events>>

AlwaysReports == {"set-filter-click", "set-filter-dropdown",
                  "set-filter-classic"} \cup ReportCommands

Attach ==
  /\ proc = "started"
  /\ proc' = "working"
  /\ loop' = [loop EXCEPT !.at = "start", !.reported = cmd \in AlwaysReports]
  /\ UNCHANGED <<cmd, goal, page, disturbed, result, events>>

-----------------------------------------------------------------------------
(* How the commands use the loop.                                            *)

\* A network expectation: part of the command, an argument, or not there.
Networks ==
  CASE cmd = "set-filter-click" -> {TRUE}
    [] cmd = "set-filter-dropdown" -> {loop.leg = 3}
    [] cmd \in {"set-filter-classic", "navigate"} \cup ReportCommands -> {FALSE}
    [] OTHER -> BOOLEAN

SkipsStability == cmd \in {"set-filter-classic", "move-widget"} \cup ReportCommands

HasRollback == cmd # "click-element" /\ (cmd = "set-filter-dropdown" => loop.leg = 3)

BrowserCommand == cmd \in {"enter-text", "click-element", "navigate"} \cup Selects

Predicate == IF BrowserCommand THEN BrowserPredicate ELSE DashboardPredicate

LoopStep ==
  \/ \E network \in Networks : StartAction(network)
  \/ AwaitNetwork
  \/ NetworkTimesOut(FALSE)
  \/ WaitStable(SkipsStability)
  \/ CheckPredicate(cmd \notin ReportCommands, Predicate)
  \/ DrainToasts(cmd # "set-filter-classic", HasRollback)

\* Dropdown: the next leg, or the rollback that the first two do not have.
NextLeg ==
  /\ cmd = "set-filter-dropdown" /\ loop.at = "done" /\ loop.leg < 3
  /\ ~loop.lost
  /\ loop' = [loop EXCEPT !.at = "start", !.leg = @ + 1]

ManualRollback ==
  /\ cmd = "set-filter-dropdown" /\ loop.at = "done"
  /\ loop.lost /\ ~loop.rolledBack
  /\ loop' = Undoing(loop)

\* Classic: blocking toasts count after the loop, and undo what it did not.
ClassicToasts ==
  /\ cmd = "set-filter-classic" /\ loop.at = "done"
  /\ loop.heard /\ "toast-filter" \notin loop.failed
  /\ loop' = IF loop.rolledBack THEN Fail("toast-filter")
                                ELSE Undoing(Fail("toast-filter"))

Wrapping == NextLeg \/ ManualRollback \/ ClassicToasts

(* MUTANT: a leg that failed without a rollback ends the command. *)
WrapsWhileOk ==
  \/ cmd = "set-filter-dropdown" /\ ~loop.lost /\ loop.leg < 3
  \/ cmd = "set-filter-classic" /\ loop.heard /\ "toast-filter" \notin loop.failed

Wraps ==
  \/ cmd = "set-filter-dropdown" /\ (IF loop.lost THEN ~loop.rolledBack ELSE loop.leg < 3)
  \/ cmd = "set-filter-classic" /\ loop.heard /\ "toast-filter" \notin loop.failed

-----------------------------------------------------------------------------

CommandStep ==
  /\ proc = "working"
  /\ \/ LoopStep \/ BrowserStep \/ DashboardStep
     \/ Wrapping /\ UNCHANGED <<cmd, goal, page, disturbed>>
  /\ UNCHANGED <<proc, result, events>>

\* The expectation of a running action times out: an unhandled rejection.
Die ==
  /\ proc = "working" /\ NetworkTimesOut(TRUE)
  /\ proc' = "died"
  /\ UNCHANGED <<result, events>>

\* The result; navigate reads the page once more first, and when that throws
\* the adapter returns an error that tells nothing of what was done.
ReturnResult ==
  /\ proc = "working" /\ loop.at = "done" /\ ~Wraps
  /\ \/ result' = [status |-> IF Ok THEN "success" ELSE "failed",
                   reported |-> loop.reported, rolledBack |-> loop.rolledBack]
     \/ cmd = "navigate" /\ result' = Failed
  /\ proc' = "returned"
  /\ UNCHANGED <<loopVars, events>>

\* The end of the invocation is recorded, then its side effects.
RecordEnd ==
  /\ proc = "returned" /\ "end" \notin events
  /\ events' = events \cup {"end"}
  /\ UNCHANGED <<loopVars, proc, result>>

RecordSideEffects ==
  /\ proc = "returned" /\ "end" \in events
  /\ events' = events \cup (IF result.reported THEN {"side_effect"} ELSE {})
  /\ proc' = "exited"
  /\ UNCHANGED <<loopVars, result>>

ProcessStep ==
  \/ StartInvocation \/ UnknownCommand \/ RefuseInvocation \/ Attach
  \/ CommandStep \/ ReturnResult \/ RecordEnd \/ RecordSideEffects

\* The page of a process that is over is not followed.
PageLives == proc = "working" /\ PageStep /\ UNCHANGED <<proc, result, events>>

Next == ProcessStep \/ Die \/ PageLives

Spec == Init /\ [][Next]_vars
\* Every call to the browser is answered, refused or timed out.
FairSpec == Spec /\ WF_vars(ProcessStep)

-----------------------------------------------------------------------------
HasUndo == cmd # "click-element"
Over == proc \in {"exited", "died"}

\* The rollback of a command runs exactly once when a check of any leg failed,
\* before the result is returned, and never after a success.
RollbackOnFailure ==
  (proc = "returned" /\ loop.at = "done" /\ HasUndo) =>
     loop.undone = IF Ok THEN 0 ELSE 1

\* A command that verifies its own request succeeds only when the page showed
\* it.  (select-option and click-element compare with what they are given, and
\* a pill of the same label elsewhere passes for the one that was clicked.)
SuccessShowsWanted ==
  (result.status = "success" /\ cmd \notin Selects \cup {"click-element"}
      /\ ~Includes(goal.other, goal.wanted)) =>
     \E label \in page.seen : Includes(label, goal.wanted)

\* A rollback that is reported restored what was there: for the commands that
\* remember the value, and for those that load a page nobody saved, as long as
\* the page was not rendered anew meanwhile and could be loaded.
RollbackRestores ==
  (result.rolledBack /\ ~disturbed
      /\ (cmd \in {"enter-text", "select-native"} => loop.prev # NoLabel)
      /\ cmd \notin {"navigate", "save-dashboard", "select-custom",
                     "set-filter-classic"}) =>
     page.shown = goal.before

\* A result that tells of no side effect and no rollback leaves the page
\* showing what it did (but for navigate, see ReturnResult).
ChangeIsTold ==
  (proc \in {"returned", "exited"} /\ cmd # "navigate"
      /\ ~result.reported /\ ~result.rolledBack) =>
     page.shown = goal.before

\* An invocation ends, whatever the page and the network do.
InvocationEnds == proc = "working" ~> Over

\* The result of an invocation is one of the documented forms, claims no more
\* than the page showed, and hides no change.
ResultIsHonest == InvocationTypeOK /\ SuccessShowsWanted /\ ChangeIsTold

\* A failed command is rolled back once, to what was there before.
FailureIsUndone == RollbackOnFailure /\ RollbackRestores

=============================================================================
