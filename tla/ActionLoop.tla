----------------------------- MODULE ActionLoop ------------------------------
(* runAction of src/adapters/browser/actions/action-loop.ts, the loop that   *)
(* every command writing to a page goes through, and the page it works on.   *)
(* The page lives on meanwhile: it renders anew, shows what it was told late *)
(* or never, raises toasts and answers requests or not.                      *)
(*                                                                           *)
(* What a control shows is a set of words, since some checks compare labels  *)
(* and others only look for one label within another.                        *)
EXTENDS Naturals

CONSTANTS
  Commands,  \* the adapter commands in use
  Labels,    \* what a control can show: sets of words
  Earlier,   \* the page before the first one in the tab's history
  NoLabel,   \* nothing
  MaxToasts  \* blocking toasts a page raises (a bound)

ASSUME LoopAssumption ==
  /\ \A l \in Labels \cup {Earlier} : l # NoLabel
  /\ {} \in Labels /\ Earlier \notin Labels
  /\ MaxToasts \in Nat

VARIABLES
  cmd,       \* the command
  goal,      \* the label before it, the one it is to set, the one that
             \* another control shows, and whether it names an expectation
  page,      \* the page
  loop,      \* where runAction is and what it has found
  disturbed  \* history: the page was rendered anew or did not load

loopVars == <<cmd, goal, page, loop, disturbed>>

Checks == {"action", "network", "stable", "dom-predicate", "toast-drain",
           "no-toast", "rollback", "toast-filter"}

Shown == Labels \cup {Earlier}

PageType ==
  [shown : Shown,               \* by the control, or of the page by its URL
   late : Shown \cup {NoLabel}, \* it will show this later
   saved : Labels,              \* a page loaded anew shows this
   draft : Labels \cup {NoLabel}, \* chosen in an open menu, not yet applied
   open : BOOLEAN,              \* the menu or the editor
   tagged : BOOLEAN,            \* the target bears the command's token
   mark : Labels \cup {NoLabel}, \* data-frontier-selected-value
   toast : BOOLEAN, toasts : 0..MaxToasts,
   seen : SUBSET Shown]         \* history: what it showed

Positions == {"idle", "start", "act", "network", "stable", "predicate",
              "drain", "undo", "done"}

LoopType ==
  [at : Positions,
   leg : 1..3,                  \* which runAction of the command
   part : 0..5,                 \* which part of its action or rollback
   net : {"none", "waiting", "matched", "late"},
   action : {"none", "passed", "failed"},
   failed : SUBSET Checks,      \* over all the legs
   lost : BOOLEAN,              \* a check of this leg failed
   undone : 0..3,               \* rollbacks that were started
   rolledBack : BOOLEAN,
   heard : BOOLEAN,             \* the drain found a blocking toast
   prev : Labels \cup {NoLabel}, \* what the rollback restores
   reported : BOOLEAN]          \* the result will list a side effect

NewPage(label) ==
  [shown |-> label, late |-> NoLabel, saved |-> label, draft |-> NoLabel,
   open |-> FALSE, tagged |-> FALSE, mark |-> NoLabel, toast |-> FALSE,
   toasts |-> 0, seen |-> {label}]

NewLoop ==
  [at |-> "idle", leg |-> 1, part |-> 0, net |-> "none", action |-> "none",
   failed |-> {}, lost |-> FALSE, undone |-> 0, rolledBack |-> FALSE,
   heard |-> FALSE, prev |-> NoLabel, reported |-> FALSE]

LoopTypeOK ==
  /\ cmd \in Commands
  /\ goal \in [before : Labels, wanted : Labels, other : Labels,
               expect : BOOLEAN]
  /\ page \in PageType /\ loop \in LoopType
  /\ disturbed \in BOOLEAN

-----------------------------------------------------------------------------
(* Pages.                                                                    *)

Show(p, label) == [p EXCEPT !.shown = label, !.seen = @ \cup {label}]

\* A control takes a click at once, later, or not at all.
Obeys(p, label) == {Show(p, label), [p EXCEPT !.late = label], p}

Loaded(p) ==
  [Show(p, p.saved) EXCEPT !.late = NoLabel, !.draft = NoLabel, !.open = FALSE,
                           !.tagged = FALSE, !.mark = NoLabel]

Settle ==
  /\ page.late # NoLabel
  /\ page' = [Show(page, page.late) EXCEPT !.late = NoLabel]
  /\ UNCHANGED <<cmd, goal, loop, disturbed>>

\* The target is replaced: its token and its marks are gone.
Rerender ==
  /\ page.tagged
  /\ page' = [page EXCEPT !.tagged = FALSE, !.mark = NoLabel, !.open = FALSE]
  /\ disturbed' = TRUE
  /\ UNCHANGED <<cmd, goal, loop>>

RaiseToast ==
  /\ page.toasts < MaxToasts
  /\ page' = [page EXCEPT !.toast = TRUE, !.toasts = @ + 1]
  /\ UNCHANGED <<cmd, goal, loop, disturbed>>

\* A response that matches, of a request sent before the action or after it.
Respond ==
  /\ loop.net = "waiting"
  /\ loop' = [loop EXCEPT !.net = "matched"]
  /\ UNCHANGED <<cmd, goal, page, disturbed>>

PageStep == Settle \/ Rerender \/ RaiseToast \/ Respond

-----------------------------------------------------------------------------
(* The loop.                                                                 *)

Fail(check) == [loop EXCEPT !.failed = @ \cup {check}, !.lost = TRUE]

\* The toast watcher is started, then the expectation is registered.
StartAction(network) ==
  /\ loop.at = "start"
  /\ loop' = [loop EXCEPT !.at = "act", !.part = 0, !.action = "none",
                          !.lost = FALSE,
                          !.net = IF network THEN "waiting" ELSE "none"]
  /\ page' = [page EXCEPT !.toast = FALSE]
  /\ UNCHANGED <<cmd, goal, disturbed>>

\* How an action that returned, or threw, leaves the loop.
Acted(l) == [l EXCEPT !.action = "passed", !.at = "network"]
Threw == [Fail("action") EXCEPT !.action = "failed", !.at = "network"]

(* MUTANT: the timer is cleared when the action returns. *)
NetworkTimerCleared(dies) ==
  /\ loop.net = "waiting" /\ dies /\ loop.at = "act"
  /\ loop' = [loop EXCEPT !.net = "late"]
  /\ UNCHANGED <<cmd, goal, page, disturbed>>

\* The timer of the expectation runs out.  While the action still runs nobody
\* awaits the promise, and its rejection ends the process.
NetworkTimesOut(dies) ==
  /\ loop.net = "waiting" /\ loop.at = IF dies THEN "act" ELSE "network"
  /\ loop' = [loop EXCEPT !.net = "late"]
  /\ UNCHANGED <<cmd, goal, page, disturbed>>

AwaitNetwork ==
  /\ loop.at = "network" /\ loop.net # "waiting"
  /\ loop' = [(IF loop.net = "late" THEN Fail("network") ELSE loop)
                EXCEPT !.at = "stable"]
  /\ UNCHANGED <<cmd, goal, page, disturbed>>

\* waitStable, only after an action that did not throw.
WaitStable(skip) ==
  /\ loop.at = "stable"
  /\ \/ loop' = [loop EXCEPT !.at = "predicate"]
     \/ /\ ~skip /\ loop.action = "passed"
        /\ loop' = [Fail("stable") EXCEPT !.at = "predicate"]
  /\ UNCHANGED <<cmd, goal, page, disturbed>>

\* The DOM predicate, only after an action that did not throw.
CheckPredicate(given, holds) ==
  /\ loop.at = "predicate"
  /\ loop' = [(IF given /\ loop.action = "passed" /\ ~holds
                 THEN Fail("dom-predicate") ELSE loop) EXCEPT !.at = "drain"]
  /\ UNCHANGED <<cmd, goal, page, disturbed>>

Undoing(l) == [l EXCEPT !.at = "undo", !.part = 0, !.undone = @ + 1]

\* The toasts since the start are drained; then the checks are summed up and
\* the rollback, if the command has one, is called when one of them failed.
DrainToasts(blocking, rollback) ==
  /\ loop.at = "drain"
  /\ \E found \in {loop, Fail("toast-drain")} :
       LET heard == page.toast /\ found = loop
           l == [(IF blocking /\ heard THEN Fail("no-toast") ELSE found)
                   EXCEPT !.heard = heard]
       IN loop' = IF l.lost /\ rollback THEN Undoing(l)
                                        ELSE [l EXCEPT !.at = "done"]
  /\ UNCHANGED <<cmd, goal, page, disturbed>>

\* How a rollback that returned, or threw, leaves the loop.
Undid == [loop EXCEPT !.at = "done", !.rolledBack = TRUE]
UndoThrew == [Fail("rollback") EXCEPT !.at = "done"]

Ok == loop.failed = {}
=============================================================================
