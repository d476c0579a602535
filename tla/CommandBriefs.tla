----------------------------- MODULE CommandBriefs -----------------------------
(***************************************************************************)
(* What an operator is told of the commands: the debt report               *)
(* (commands/debt.ts), the brief (brief.ts), readiness (readiness.ts) and  *)
(* the recovery part of the final brief (final-brief.ts), as functions of  *)
(* the state of CommandGateway.  "aged" is the set of commands whose row   *)
(* was last updated longer ago than the threshold of their status, "old"   *)
(* that of the commands whose row was last updated before the hours the    *)
(* brief looks back.                                                       *)
(***************************************************************************)
EXTENDS CommandGateway

CONSTANTS
  Shown,    \* how many failures the brief looks at, the latest first (10)
  Limits    \* how many rows the brief reads, as its callers ask (100)

ASSUME BriefAssumption == Shown \in Nat /\ Limits \subseteq Nat \ {0}

Lapsed(c) == status[c] = "running" /\ leaseUntil[c] = "expired"

(* assessCommandDebt: open work that waits too long, or whose lease lapsed.*)
Stale(c, aged) ==
  /\ status[c] \in {"queued", "running", "blocked_approval", "blocked_policy"}
  /\ c \in aged \/ Lapsed(c)

(* MUTANT: stale work is put back in the queue with a retry.               *)
AdviceRetriesStale(c, aged) ==
  CASE status[c] \in {"failed", "canceled"} -> {"retry"}
    [] status[c] = "blocked_approval" -> IF Stale(c, aged) THEN {"retry"} ELSE {"resume"}
    [] status[c] \in {"queued", "running"} -> IF Stale(c, aged) THEN {"retry"} ELSE {"cancel"}
    [] OTHER -> {}

(* commandOperatorAction: the call the debt report and the brief name.     *)
OperatorAdvice(c, aged) ==
  CASE status[c] \in {"failed", "canceled"} -> {"retry"}
    [] status[c] = "blocked_approval" -> IF Stale(c, aged) THEN {"requeue"} ELSE {"resume"}
    [] status[c] \in {"queued", "running"} -> IF Stale(c, aged) THEN {"requeue"} ELSE {"cancel"}
    [] OTHER -> {}

(* recoveryFor: the calls the final brief names.  A repair of a LaunchAgent*)
(* that is not on the allowlist gets none.                                 *)
RecoveryCalls(c, aged) ==
  CASE status[c] \in {"failed", "canceled"} -> {"retry"}
    [] status[c] = "blocked_approval" ->
         {"resume"} \cup (IF Stale(c, aged) THEN {"requeue"} ELSE {})
    [] status[c] \in {"queued", "running"} ->
         IF Stale(c, aged) THEN {"requeue", "cancel"} ELSE {}
    [] OTHER -> {}

-----------------------------------------------------------------------------
(* The brief *)

Later(c, d) == <<c, d>> \in newer
Kind(c) == FailureKind(command[c], result[c])

(* The rows of store.list, which reads the latest ones.                    *)
InBrief(limit) == {c \in Live : Cardinality({d \in Live : Later(d, c)}) < limit}

(* What was last updated before the window: whatever is older than one of  *)
(* these is one of them.                                                   *)
Windows == {old \in SUBSET Live : \A c \in old, d \in Live : Later(c, d) => d \in old}

LaterFailures(c, rows) == {d \in rows : status[d] = "failed" /\ Later(d, c)}

(* commandBrief, recentFailed.                                             *)
RecentFailed(rows) ==
  {c \in rows : status[c] = "failed" /\ Cardinality(LaterFailures(c, rows)) < Shown}

\* The two commands are the same work as far as the brief can tell.
SameWork(c, d) ==
  LET a == command[c].route
      b == command[d].route
  IN a.lane = b.lane /\ a.verb = b.verb /\ a.project = b.project

(* unresolvedFailures: of the rows read in the window, the recent failures *)
(* that findLaterSuccess finds nothing for among them.                     *)
Unresolved(limit, old) ==
  LET rows == InBrief(limit) \ old
  IN  {c \in RecentFailed(rows) :
         ~\E d \in rows : status[d] = "completed" /\ Later(d, c) /\ SameWork(c, d)}

-----------------------------------------------------------------------------
(* readinessChecks *)

Passing(ok, otherwise) == IF ok THEN "pass" ELSE otherwise

(* Leases are asked of the whole store, all else of the rows read.         *)
Checks(aged, limit, old) ==
  LET rows == InBrief(limit)
      unresolved == Unresolved(limit, old)
      kinds == {Kind(c) : c \in unresolved}
  IN
    [queue |-> Passing(~\E c \in rows : status[c] \in {"queued", "running"} /\ Stale(c, aged),
                       "warn"),
     leases |-> Passing(~\E c \in Live : Lapsed(c), "fail"),
     blockers |-> Passing(~\E c \in rows : status[c] \in {"blocked_approval", "blocked_policy"},
                          "fail"),
     failures |-> Passing(unresolved = {}, "warn"),
     retry_budget |-> Passing(kinds \cap {"retry_exhausted", "runtime_exceeded"} = {}, "warn"),
     verification |-> Passing("verifier_failed" \notin kinds, "fail")]

(* readinessStatus                                                         *)
Readiness(aged, limit, old) ==
  LET checks == Checks(aged, limit, old)
      verdicts == {checks[k] : k \in DOMAIN checks}
  IN  CASE "fail" \in verdicts -> "blocked"
        [] "fail" \notin verdicts /\ "warn" \in verdicts -> "degraded"
        [] OTHER -> "ready"

-----------------------------------------------------------------------------

\* The store takes the call in this state.
Accepts(call, c) ==
  CASE call = "retry" -> status[c] \in {"failed", "canceled"}
    [] call = "requeue" -> status[c] \in {"queued", "running", "blocked_approval"}
    [] call = "resume" -> status[c] = "blocked_approval"
    [] OTHER -> status[c] \notin Terminal \cup {"absent"}

(* The calls the debt report, the brief and the final brief name for a     *)
(* command are calls the store takes of it at that moment, whatever the    *)
(* age of its row and whatever calls are under way.                        *)
AdviceIsAccepted ==
  \A c \in Live, aged \in {{}, Commands} :
    \A call \in OperatorAdvice(c, aged) \cup RecoveryCalls(c, aged) : Accepts(call, c)

(* Enough rows are later than this one to push it out of the brief.        *)
PushedOut(c, limit) == Cardinality({d \in Live : Later(d, c)}) >= limit

(* Readiness says "ready" only when no lease lapsed, every blocked command *)
(* was pushed out of the brief by the rows updated since, and so was every *)
(* failure, if it is not older than the window, not followed by the        *)
(* failures the brief shows instead, and not followed by a success of the  *)
(* same verb on the same project.                                          *)
ReadinessIsHonest ==
  \A limit \in Limits, old \in Windows :
    Readiness({}, limit, old) = "ready" =>
      /\ \A c \in Live : ~Lapsed(c)
      /\ \A c \in Live :
           status[c] \in {"blocked_approval", "blocked_policy"} => PushedOut(c, limit)
      /\ \A c \in Live : status[c] = "failed" =>
           \/ PushedOut(c, limit) \/ c \in old
           \/ Cardinality(LaterFailures(c, Live)) >= Shown
           \/ \E d \in Live :
                /\ status[d] = "completed"
                /\ Later(d, c)
                /\ command[d].route.verb = command[c].route.verb
                /\ command[d].route.project = command[c].route.project

(* A retry that completes while its source reads failed takes the failure  *)
(* out of the brief in the same step, however few rows the brief reads, if *)
(* the source was routed by its words and not by a payload: the new row is *)
(* the latest, and its route is the source's.                              *)
RetryResolves ==
  [][\A c, d \in Commands :
       /\ source[d] = c /\ command[c].asked.payload = NoPayload
       /\ status[c] = "failed" /\ status[d] # "completed" /\ status'[d] = "completed"
       => (\A limit \in Limits, old \in Windows : c \notin Unresolved(limit, old))']_allVars

(* What the briefs advise and announce is true of the store.               *)
BriefsAreTrue == AdviceIsAccepted /\ ReadinessIsHonest

=============================================================================
