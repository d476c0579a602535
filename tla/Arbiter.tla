------------------------------- MODULE Arbiter -------------------------------
(* decide of src/arbiter/arbiter.ts and the scorer it uses, as functions of  *)
(* what they are given.  A candidate c is the record of its re-verification  *)
(* `ver`, of its review packet (`valid` reviewers, the findings `found`) and *)
(* of whether its diff matched an anti-example.  Coverages and floors are    *)
(* percentages; a score of a criterion is counted in halves.                 *)
EXTENDS Naturals, FiniteSets, FiniteSetsExt

CONSTANTS
  Rubric,               \* Rubric[c]: what criterion c looks at, and its weight
  Reviewers,            \* reviewers asked per candidate
  QualityFloor, MinRubricCoverage, MinReviewCoverage,
  RequireTests

Signals == {"verification", "false_green", "contract", "anti", "soft"}
FindingKinds == {"high", "bug", "contract_violation", "false_green", "risk"}
Verified == {"passed", "passed_typecheck_only", "typecheck_failed", "tests_failed",
             "worktree_missing", "skipped"}

ASSUME ArbiterAssumption ==
  /\ \A c \in DOMAIN Rubric : Rubric[c].signal \in Signals /\ Rubric[c].weight \in Nat
  /\ DOMAIN Rubric # {} /\ IsFiniteSet(DOMAIN Rubric)
  /\ IsFiniteSet(Reviewers) /\ Reviewers # {}
  /\ {QualityFloor, MinRubricCoverage, MinReviewCoverage} \subseteq 0..100
  /\ RequireTests \in BOOLEAN

\* The signals the scorer can read off a candidate; the others stay unscored.
Scored(signal, c) ==
  \/ signal = "verification" /\ c.ver # "skipped"
  \/ signal \in {"false_green", "contract"}
  \/ signal = "anti" /\ c.anti

Halves(signal, c) ==
  CASE signal = "verification" /\ c.ver = "passed" -> 2
    [] signal = "verification" /\ c.ver = "passed_typecheck_only" -> 1
    [] signal = "false_green" /\ "false_green" \notin c.found -> 2
    [] signal = "contract" /\ "contract_violation" \notin c.found -> 2
    [] OTHER -> 0

Weight(criteria) == MapThenSumSet(LAMBDA k : Rubric[k].weight, criteria)
ScoredCriteria(c) == {k \in DOMAIN Rubric : Scored(Rubric[k].signal, c)}
WeightedHalves(c) ==
  MapThenSumSet(LAMBDA k : Rubric[k].weight * Halves(Rubric[k].signal, c), ScoredCriteria(c))

\* score >= qualityFloor, the score being 0 when no weight was scored.
RubricScoreOk(c) ==
  LET weight == Weight(ScoredCriteria(c)) IN
  IF weight = 0 THEN QualityFloor = 0
  ELSE 50 * WeightedHalves(c) >= QualityFloor * weight

RubricCoverageOk(c) ==
  LET total == Weight(DOMAIN Rubric) IN
  IF total = 0 THEN MinRubricCoverage = 0
  ELSE 100 * Weight(ScoredCriteria(c)) >= MinRubricCoverage * total

VerPassed(c) ==
  \/ c.ver = "passed"
  \/ c.ver = "passed_typecheck_only" /\ ~RequireTests

ReviewCoverageOk(c) == 100 * c.valid >= MinReviewCoverage * Cardinality(Reviewers)
Unblocked(c) == c.found \cap {"high", "bug", "contract_violation"} = {}

Eligible(c) ==
  /\ VerPassed(c) /\ RubricScoreOk(c) /\ RubricCoverageOk(c)
  /\ ReviewCoverageOk(c) /\ Unblocked(c) /\ ~c.anti

\* Every objective gate passed, and only an uncertain one failed.
Uncertain(c) ==
  /\ VerPassed(c) /\ RubricScoreOk(c) /\ ~c.anti
  /\ ~RubricCoverageOk(c) \/ ~ReviewCoverageOk(c) \/ ~Unblocked(c)

\* The decision over the collected candidates, a function from builders to
\* candidates; `missing` says that an anti-example could not be loaded.
Decision(collected, missing) ==
  LET eligible == {b \in DOMAIN collected : Eligible(collected[b])}
      uncertain == {b \in DOMAIN collected : Uncertain(collected[b])} IN
  CASE DOMAIN collected = {} -> "reject"
    [] DOMAIN collected # {} /\ missing -> "escalate_to_human"
    [] DOMAIN collected # {} /\ ~missing /\ eligible = {} ->
         IF uncertain # {} THEN "escalate_to_human" ELSE "reject"
    [] DOMAIN collected # {} /\ ~missing /\ eligible # {} ->
         IF Cardinality(eligible) = 1 THEN "accept" ELSE "escalate_to_human"

Selected(collected) == {b \in DOMAIN collected : Eligible(collected[b])}
=============================================================================
