-------------------------- MODULE DashboardCommands --------------------------
(* The commands of the Salesforce adapter that write to a dashboard or a     *)
(* report: set-filter in its click and dropdown variants and on a classic    *)
(* dashboard, set-report-filter by inline action and by editor, move-widget, *)
(* enter-edit-mode and save-dashboard (src/adapters/salesforce/commands).    *)
EXTENDS BrowserCommands

\* One label within another: indexOf, includes.
Includes(label, sought) == label # Earlier /\ sought \subseteq label

\* The rollbacks that go to the URL of before or reload the page.  Whether the
\* load fails is swallowed by all but the report filter's.
Load ==
  \/ page' = Loaded(page) /\ UNCHANGED disturbed
  \/ page' = page /\ disturbed' = TRUE

Navigators == {"set-filter-click", "set-filter-dropdown", "move-widget",
               "enter-edit-mode", "save-dashboard"}

NavigateBack ==
  /\ cmd \in Navigators /\ Undoes(cmd, 0)
  /\ loop' = Undid /\ Load
  /\ UNCHANGED <<cmd, goal>>

-----------------------------------------------------------------------------
(* set-filter.                                                               *)

\* Click variant: the pill is clicked and takes its next value.
ClickPill ==
  /\ Doing("set-filter-click", 0)
  /\ Finds(loop' = Acted(loop) /\ page' \in Obeys(page, goal.wanted))
  /\ UNCHANGED <<cmd, goal, disturbed>>

\* Any pill that carries the expected label passes, the clicked one or not.
PillShown == Includes(page.shown, goal.wanted) \/ Includes(goal.other, goal.wanted)

\* Dropdown variant, leg 1: the pill is clicked and a dropdown opens, or not.
OpenPill ==
  /\ Doing("set-filter-dropdown", 0) /\ loop.leg = 1
  /\ Finds(loop' = Acted(loop) /\ page' \in {page, [page EXCEPT !.open = TRUE]})
  /\ UNCHANGED <<cmd, goal, disturbed>>

\* Leg 2: the option's row is clicked and is selected, or not.
PickOption ==
  /\ Doing("set-filter-dropdown", 0) /\ loop.leg = 2
  /\ Finds(/\ page.open /\ loop' = Acted(loop)
           /\ page' \in {page, [page EXCEPT !.draft = goal.wanted]})
  /\ UNCHANGED <<cmd, goal, disturbed>>

\* Leg 3: the Apply button is clicked; without one Enter is pressed.
ApplyOption ==
  /\ Doing("set-filter-dropdown", 0) /\ loop.leg = 3
  /\ Finds(/\ loop' = Acted(loop)
           /\ \E p \in IF page.draft = NoLabel THEN {page}
                       ELSE Obeys(page, page.draft) :
                page' = [p EXCEPT !.draft = NoLabel, !.open = FALSE])
  /\ UNCHANGED <<cmd, goal, disturbed>>

\* Each leg has a predicate of its own, and only leg 3 awaits the network.
DropdownShown ==
  CASE loop.leg = 1 -> page.open
    [] loop.leg = 2 -> page.open /\ page.draft # NoLabel
    [] loop.leg = 3 -> PillShown

\* Classic dashboards, forwards and, to undo, backwards: a label the control
\* already includes is no change; otherwise the menu is opened (twice if need
\* be) and the option clicked.
LocateControl(label, found, missed) ==
  \/ missed
  \/ /\ Includes(page.shown, label) /\ found /\ page' = page
  \/ /\ ~Includes(page.shown, label)
     /\ loop' = [loop EXCEPT !.part = 1] /\ page' = [page EXCEPT !.open = TRUE]

ClickOption(label, found, missed) ==
  \/ missed
  \/ /\ found
     /\ \E p \in Obeys(page, label) : page' = [p EXCEPT !.open = FALSE]

ClassicApply ==
  /\ cmd = "set-filter-classic" /\ loop.at = "act"
  /\ LET found == loop' = [Acted(loop) EXCEPT !.prev = page.shown]
         missed == loop' = Threw /\ page' = page
     IN \/ loop.part = 0 /\ LocateControl(goal.wanted, found, missed)
        \/ loop.part = 1 /\ ClickOption(goal.wanted, found, missed)
  /\ UNCHANGED <<cmd, goal, disturbed>>

\* The label of before is applied again; if there is none, or that throws, the
\* page is loaded anew.
ClassicUndo ==
  /\ cmd = "set-filter-classic" /\ loop.at = "undo"
  /\ LET missed == loop' = [loop EXCEPT !.part = 2] /\ page' = page IN
     \/ /\ loop.part = 0 /\ loop.prev \in {NoLabel, {}} /\ missed
        /\ UNCHANGED disturbed
     \/ /\ loop.part = 0 /\ loop.prev \notin {NoLabel, {}}
        /\ LocateControl(loop.prev, loop' = Undid, missed)
        /\ UNCHANGED disturbed
     \/ /\ loop.part = 1 /\ ClickOption(loop.prev, loop' = Undid, missed)
        /\ UNCHANGED disturbed
     \/ loop.part = 2 /\ loop' = Undid /\ Load
  /\ UNCHANGED <<cmd, goal>>

-----------------------------------------------------------------------------
(* set-report-filter.                                                        *)

ReportCommands == {"report-inline", "report-editor"}

\* The row is clicked, then its inline action or, in the editor, its option;
\* a row that already carries the expected label is left alone.
ReportInline ==
  /\ Doing("report-inline", 0)
  /\ Finds(IF Includes(page.shown, goal.wanted)
             THEN loop' = Acted(loop) /\ page' = page
             ELSE \/ /\ loop' = [loop EXCEPT !.part = 4]
                     /\ page' \in Obeys(page, goal.wanted)
                  \/ /\ loop' = [loop EXCEPT !.part = 2]
                     /\ page' = [page EXCEPT !.open = TRUE, !.draft = goal.wanted])
  /\ UNCHANGED <<cmd, goal, disturbed>>

OpenReportEditor ==
  /\ Doing("report-editor", 0)
  /\ Finds(IF Includes(page.shown, goal.wanted)
             THEN loop' = Acted(loop) /\ page' = page
             ELSE loop' = [loop EXCEPT !.part = 1] /\ page' = [page EXCEPT !.open = TRUE])
  /\ UNCHANGED <<cmd, goal, disturbed>>

\* The choice has to show in the field before the next part.
SelectEditorChoice ==
  /\ Doing("report-editor", 1)
  /\ Finds(/\ page.open
           /\ loop' = [loop EXCEPT !.part = 2]
           /\ page' = [page EXCEPT !.draft = goal.wanted])
  /\ UNCHANGED <<cmd, goal, disturbed>>

TypeEditorInputs ==
  /\ cmd \in ReportCommands /\ Doing(cmd, 2)
  /\ Finds(page.open /\ loop' = [loop EXCEPT !.part = 3] /\ page' = page)
  /\ UNCHANGED <<cmd, goal, disturbed>>

\* Apply: a disabled button throws; it is clicked by mouse and by script.
ClickReportApply ==
  /\ cmd \in ReportCommands /\ Doing(cmd, 3)
  /\ Finds(/\ page.open
           /\ loop' = [loop EXCEPT !.part = 4]
           /\ \E p \in Obeys(page, goal.wanted) :
                page' = [p EXCEPT !.draft = NoLabel, !.open = FALSE])
  /\ UNCHANGED <<cmd, goal, disturbed>>

(* MUTANT: past the deadline the poll returns what it saw last. *)
AwaitReportLabelLeniently ==
  /\ cmd \in ReportCommands /\ Doing(cmd, 4)
  /\ Finds(loop' = Acted(loop) /\ page' = page)
  /\ UNCHANGED <<cmd, goal, disturbed>>

\* The row is polled; past the deadline the action throws.
AwaitReportLabel ==
  /\ cmd \in ReportCommands /\ Doing(cmd, 4)
  /\ Finds(/\ Includes(page.shown, goal.wanted)
           /\ loop' = Acted(loop) /\ page' = page)
  /\ UNCHANGED <<cmd, goal, disturbed>>

ReloadReport ==
  /\ cmd \in ReportCommands /\ Undoes(cmd, 0)
  /\ \/ loop' = Undid /\ page' = Loaded(page)
     \/ loop' = UndoThrew /\ page' = page
  /\ UNCHANGED <<cmd, goal, disturbed>>

-----------------------------------------------------------------------------
(* move-widget.                                                              *)

\* The editor's own mover: without its hooks the pointer is used; a slot it
\* rejects leaves the widget picked up, and its plan is not returned.
ReflowMove ==
  /\ Doing("move-widget", 0)
  /\ Finds(\/ loop' = [loop EXCEPT !.part = 1] /\ page' = page
           \/ loop' = Threw /\ page' = [page EXCEPT !.open = TRUE]
           \/ /\ loop' = [loop EXCEPT !.part = 2, !.reported = TRUE]
              /\ page' \in Obeys(page, goal.wanted))
  /\ UNCHANGED <<cmd, goal, disturbed>>

\* The plan is resolved, then the pointer is dragged along it.
DragWidget ==
  /\ Doing("move-widget", 1)
  /\ Finds(\/ /\ loop' = [Threw EXCEPT !.reported = TRUE]
              /\ page' = [page EXCEPT !.open = TRUE]
           \/ /\ loop' = [loop EXCEPT !.part = 2, !.reported = TRUE]
              /\ page' \in Obeys(page, goal.wanted))
  /\ UNCHANGED <<cmd, goal, disturbed>>

RecordMovePlan ==
  /\ Doing("move-widget", 2)
  /\ Finds(loop' = Acted(loop) /\ page' = page)
  /\ UNCHANGED <<cmd, goal, disturbed>>

-----------------------------------------------------------------------------
(* enter-edit-mode and save-dashboard.                                       *)

ClickEdit ==
  /\ Doing("enter-edit-mode", 0)
  /\ Finds(/\ page' \in Obeys(page, goal.wanted)
           /\ loop' = [Acted(loop) EXCEPT !.reported = TRUE])
  /\ UNCHANGED <<cmd, goal, disturbed>>

\* What is saved is what a page loaded anew shows, also when this page does
\* not show it in time.
ClickSave ==
  /\ Doing("save-dashboard", 0)
  /\ Finds(/\ \/ page' = page
              \/ \E p \in Obeys(page, goal.wanted) :
                   page' = [p EXCEPT !.saved = goal.wanted]
           /\ loop' = [Acted(loop) EXCEPT !.reported = TRUE])
  /\ UNCHANGED <<cmd, goal, disturbed>>

-----------------------------------------------------------------------------

DashboardStep ==
  \/ ClickPill \/ OpenPill \/ PickOption \/ ApplyOption \/ ClassicApply
  \/ ReportInline \/ OpenReportEditor \/ SelectEditorChoice \/ TypeEditorInputs
  \/ ClickReportApply \/ AwaitReportLabel
  \/ ReflowMove \/ DragWidget \/ RecordMovePlan \/ ClickEdit \/ ClickSave
  \/ NavigateBack \/ ClassicUndo \/ ReloadReport

DashboardPredicate ==
  CASE cmd = "set-filter-click" -> PillShown
    [] cmd = "set-filter-dropdown" -> DropdownShown
    [] cmd = "set-filter-classic" -> Includes(page.shown, goal.wanted)
    [] cmd \in ReportCommands -> TRUE
    [] OTHER -> page.shown = goal.wanted
=============================================================================
