--------------------------- MODULE BrowserCommands ---------------------------
(* The commands of the browser adapter that write to a page: enter-text,     *)
(* select-option (on a native select and on a custom combobox),              *)
(* click-element and navigate (src/adapters/browser/commands).  A script     *)
(* that runs in the page is one step and gets its answer back; between two   *)
(* of them the page lives on.                                                *)
EXTENDS ActionLoop

Doing(c, part) == cmd = c /\ loop.at = "act" /\ loop.part = part
Undoes(c, part) == cmd = c /\ loop.at = "undo" /\ loop.part = part

\* A script finds nothing to work on, or cannot be evaluated.
Finds(next) == (loop' = Threw /\ page' = page) \/ next

Tagged == [page EXCEPT !.tagged = TRUE]

\* What is shown after an input that comes later than any other.
Input(p, label) == [Show(p, label) EXCEPT !.late = NoLabel]

-----------------------------------------------------------------------------
(* enter-text.                                                               *)

\* The field is tagged, then focused; only then its value is reported back.
PrepareText ==
  /\ Doing("enter-text", 0)
  /\ Finds(/\ page' = Tagged
           /\ \/ loop' = Threw
              \/ loop' = [loop EXCEPT !.part = 1, !.prev = page.shown,
                                      !.reported = TRUE])
  /\ UNCHANGED <<cmd, goal, disturbed>>

\* Text goes to what has the focus; an empty one is assigned by token.
InsertText ==
  /\ Doing("enter-text", 1)
  /\ Finds(/\ loop' = Acted(loop)
           /\ page' \in IF page.tagged THEN Obeys(page, goal.wanted) ELSE {page})
  /\ UNCHANGED <<cmd, goal, disturbed>>

TextShown == page.tagged /\ page.shown = goal.wanted

\* The answer {ok: false} of a script that finds no token is not looked at,
\* and the value to restore is "" until a preparation succeeds.
AssignPrevious ==
  /\ Undoes("enter-text", 0)
  /\ \/ (loop' = UndoThrew /\ page' = page)
     \/ /\ loop' = Undid
        /\ page' = IF page.tagged
                     THEN Input(page, IF loop.prev = NoLabel THEN {} ELSE loop.prev)
                     ELSE page
  /\ UNCHANGED <<cmd, goal, disturbed>>

-----------------------------------------------------------------------------
(* select-option.                                                            *)

Selects == {"select-native", "select-custom"}

\* The control is read, opened if it is a custom one, and tagged.
PrepareSelect ==
  /\ cmd \in Selects /\ Doing(cmd, 0)
  /\ Finds(/\ page' = [Tagged EXCEPT !.open = cmd = "select-custom"]
           /\ loop' = [loop EXCEPT !.part = 1, !.prev = page.shown])
  /\ UNCHANGED <<cmd, goal, disturbed>>

\* The option is looked for, for a while, and taken; what the control shows
\* right after is marked on it.
CompleteSelect ==
  /\ cmd \in Selects /\ Doing(cmd, 1)
  /\ Finds(/\ page.tagged
           /\ \E p \in IF cmd = "select-native" THEN {Input(page, goal.wanted)}
                       ELSE Obeys(page, goal.wanted) :
                page' = [p EXCEPT !.mark = p.shown, !.open = FALSE]
           /\ loop' = [Acted(loop) EXCEPT !.reported = TRUE])
  /\ UNCHANGED <<cmd, goal, disturbed>>

\* Without expectValue the mark is the expectation, not the requested option.
SelectionShown ==
  page.tagged /\ page.shown = IF goal.expect THEN goal.wanted ELSE page.mark

PrepareRestore ==
  /\ cmd \in Selects /\ Undoes(cmd, 0)
  /\ \/ (loop' = UndoThrew /\ page' = page)
     \/ /\ page.tagged
        /\ loop' = [loop EXCEPT !.part = 1]
        /\ page' = [page EXCEPT !.open = cmd = "select-custom"]
  /\ UNCHANGED <<cmd, goal, disturbed>>

\* With nothing selected before, a custom control is left as it is.
FinishRestore ==
  /\ cmd \in Selects /\ Undoes(cmd, 1)
  /\ \/ (loop' = UndoThrew /\ page' = page)
     \/ /\ page.tagged
        /\ loop' = Undid
        /\ \E p \in CASE cmd = "select-native" -> {Input(page, loop.prev)}
                      [] cmd = "select-custom" /\ loop.prev = {} -> {page}
                      [] OTHER -> {Input(page, loop.prev)} \cup Obeys(page, loop.prev) :
             page' = [p EXCEPT !.mark = IF p.shown = Earlier THEN @ ELSE p.shown,
                               !.open = FALSE]
  /\ UNCHANGED <<cmd, goal, disturbed>>

-----------------------------------------------------------------------------
(* click-element: one script, no rollback.                                   *)

ClickElement ==
  /\ Doing("click-element", 0)
  /\ Finds(/\ page' \in Obeys(Tagged, goal.wanted)
           /\ loop' = [Acted(loop) EXCEPT !.reported = TRUE])
  /\ UNCHANGED <<cmd, goal, disturbed>>

ExpectationHolds == page.shown = goal.wanted

-----------------------------------------------------------------------------
(* navigate.  Its labels are URLs, the first page's is goal.before.          *)

Leave(p, url) == [p EXCEPT !.late = url, !.tagged = FALSE]

\* Page.navigate: refused with an error text, or on the way, where to is for
\* the site to say.
OpenUrl ==
  /\ Doing("navigate", 0)
  /\ \/ /\ loop' = [Threw EXCEPT !.reported = TRUE]
        /\ page' = page
     \/ /\ loop' = [loop EXCEPT !.part = 1, !.reported = TRUE]
        /\ page' \in {Leave(page, url) : url \in Labels \ {{}}}
  /\ UNCHANGED <<cmd, goal, disturbed>>

\* waitForNavigation of the action, of the way back and of the second attempt.
WaitForUrl ==
  /\ cmd = "navigate" /\ loop.part > 0
  /\ \/ /\ loop.at = "act"
        /\ loop' \in {l \in {Acted(loop), Threw} :
                        l.action = "passed" => page.shown = goal.wanted}
        /\ page' = page
     \/ /\ loop.at = "undo" /\ loop.part = 1
        /\ \/ (loop' = Undid /\ page.late = NoLabel /\ page' = page)
           \/ (loop' = [loop EXCEPT !.part = 2] /\ page' = Leave(page, goal.before))
     \/ /\ loop.at = "undo" /\ loop.part = 2
        /\ loop' \in {l \in {Undid, UndoThrew} :
                        l.rolledBack => page.shown = goal.before}
        /\ page' = page
  /\ UNCHANGED <<cmd, goal, disturbed>>

\* One entry back from the page the tab is at, which is the first page as long
\* as nothing was loaded; without such an entry, to the first page's URL.
GoBack ==
  /\ Undoes("navigate", 0)
  /\ IF page.shown # goal.before
       THEN loop' = [loop EXCEPT !.part = 1] /\ page' = Leave(page, goal.before)
       ELSE \/ (loop' = [loop EXCEPT !.part = 1] /\ page' = Leave(page, Earlier))
            \/ (loop' = [loop EXCEPT !.part = 2] /\ page' = Leave(page, goal.before))
  /\ UNCHANGED <<cmd, goal, disturbed>>

-----------------------------------------------------------------------------

BrowserActs == PrepareText \/ InsertText \/ PrepareSelect \/ CompleteSelect
                 \/ ClickElement \/ OpenUrl
BrowserUndoes == AssignPrevious \/ PrepareRestore \/ FinishRestore \/ GoBack
BrowserStep == BrowserActs \/ BrowserUndoes \/ WaitForUrl

BrowserPredicate ==
  CASE cmd = "enter-text" -> TextShown
    [] cmd \in Selects -> SelectionShown
    [] cmd = "click-element" -> goal.expect => ExpectationHolds
    [] cmd = "navigate" -> page.shown = goal.wanted
=============================================================================
