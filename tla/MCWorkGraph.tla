----------------------------- MODULE MCWorkGraph -----------------------------
(* Small instances of GraphRun for TLC.                                    *)
EXTENDS GraphRun, TLC

\* One node retries; nodes 3 and 4 differ in class and verification.
MCAttempts == [n \in Nodes |-> IF n = 1 THEN 2 ELSE 1]
MCClass == [n \in Nodes |-> IF n \in {2, 3} THEN 2 ELSE 1]
=============================================================================
