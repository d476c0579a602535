--------------------------- MODULE MCOrchestrator ----------------------------
(* Small instances of Orchestrator for TLC.                                  *)
EXTENDS Orchestrator, TLC

\* One criterion of each kind that the scorer reads, and one it does not.
MCRubric == [c \in 1..3 |->
  CASE c = 1 -> [signal |-> "verification", weight |-> 2]
    [] c = 2 -> [signal |-> "false_green", weight |-> 1]
    [] c = 3 -> [signal |-> "soft", weight |-> 1]]
=============================================================================
