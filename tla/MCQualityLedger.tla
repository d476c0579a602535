---------------------------- MODULE MCQualityLedger ---------------------------
(***************************************************************************)
(* Instance of QualityLedger: a legacy packet and two more; x is the     *)
(* primary, y the alternate, z is not listed.                              *)
(***************************************************************************)
EXTENDS QualityLedger, TLC

CONSTANTS p1, p2

x == 1
y == 2
z == 3
critic == 4

CandidateOf(model, collected, attempts) ==
  [model |-> model, collected |-> collected, attempts |-> attempts,
   verified |-> collected]

ReviewBy(ok, findings) ==
  [model |-> critic, ok |-> ok, of |-> 1, findings |-> findings]

Orchestration(candidates, selected, reviewers) ==
  [class |-> "build", reviewClass |-> "review", candidates |-> candidates,
   selected |-> selected, reviewers |-> reviewers]

MCPackets == 0 .. 2

MCPacket ==
  (0 :> Orchestration(<<CandidateOf(x, TRUE, 1)>>, 1, <<>>)) @@
  (1 :> Orchestration(<<CandidateOf(x, FALSE, 2), CandidateOf(y, TRUE, 1)>>, 2,
                      <<ReviewBy(TRUE, <<"high">>)>>)) @@
  (2 :> Orchestration(<<CandidateOf(z, TRUE, 1)>>, 1, <<>>))

MCProcs == {p1, p2}

Symmetry == Permutations(MCProcs)

MCFirstPolicy == ("build" :> <<x, y>>) @@ ("review" :> <<critic>>)

Budget(o, i, f, m) ==
  [orchestrations |-> o, ingests |-> i, faults |-> f, marks |-> m]

MCBudgets ==
  {Budget(2, 0, 1, 0), Budget(1, 1, 1, 0), Budget(0, 2, 1, 0), Budget(1, 0, 0, 1)}

=============================================================================
