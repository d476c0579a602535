-------------------------- MODULE MCInferenceBroker --------------------------
(* Small instances of InferenceBroker for TLC.                             *)
EXTENDS InferenceBroker, TLC

CONSTANTS c1, c2, c3, m1, m2, k1, k2

\* Two classes that share a model; the first falls back to a second one.
MCClassOf == [c \in Calls |-> IF c = c3 THEN k2 ELSE k1]
MCCandidates == (k1 :> <<m1, m2>>) @@ (k2 :> <<m1>>)
MCMaxParallel == (k1 :> 1) @@ (k2 :> 1)
MCCapacity == (m1 :> 2) @@ (m2 :> 1)
=============================================================================
