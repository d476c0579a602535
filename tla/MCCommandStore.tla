--------------------------- MODULE MCCommandStore ---------------------------
(* Small instances of CommandStore for TLC.                                *)
EXTENDS CommandStore, TLC

CONSTANTS w1, w2, o1, o2, t1, t2

\* The resident worker of launchd.ts (class 1) and a worker without a limit.
MCMaxClass == (w1 :> 1) @@ (w2 :> 3)
MCUnlimited == [w \in Workers |-> 3]

\* Interchangeable processes and tokens (safety runs only).
MCSymmetry == Permutations(Workers) \cup Permutations(Operators) \cup Permutations(Tokens)

=============================================================================
