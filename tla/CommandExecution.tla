--------------------------- MODULE CommandExecution ---------------------------
(***************************************************************************)
(* What a command may cost and what must hold before it counts as done:    *)
(* the execution policy (commands/execution.ts), the work graph compiled   *)
(* from it (commands/compiler.ts), the checks of its verifier              *)
(* (work/verifier.ts), the name its failure gets, and the request retry    *)
(* and requeue make of it (commands/store.ts).                             *)
(*                                                                         *)
(* A request is [intent, project, class, payload, retries, runtime,        *)
(* verify]; runtime is in seconds, and project, class, retries and runtime *)
(* are optional.                                                           *)
(***************************************************************************)
EXTENDS CommandRouting

AtMost(m, n) == IF n <= m THEN n ELSE m
AtLeast(m, n) == IF n >= m THEN n ELSE m

ProjectVerbs == {"project.status", "project.verify", "project.smoke"}

\* timeoutForVerb, in seconds.
DefaultRuntime(verb) ==
  CASE verb \in ProjectVerbs -> 600
    [] verb = "ops.repair_launchagent" -> 180
    [] OTHER -> 60

(* budgetedTimeoutMs: a budget is lowered on request, never raised.        *)
Runtime(request, verb) ==
  LET asked == Given(request.runtime, 0) IN
    IF asked > 0 THEN AtMost(DefaultRuntime(verb), AtLeast(1, asked)) ELSE DefaultRuntime(verb)

(* MUTANT: everything is tried twice unless the request says otherwise.    *)
AttemptsForAll(request, route) == AtMost(10, AtLeast(1, Given(request.retries, 1) + 1))

(* retryPolicyForCommand: without a word of the request only what is safe  *)
(* or has no effect is tried a second time.                                *)
MaxAttempts(request, route) ==
  LET harmless == route.effects = {} \/ \E a \in ActionOf(route) : a.safe
  IN AtMost(10, AtLeast(1, Given(request.retries, IF harmless THEN 1 ELSE 0) + 1))

\* The verifier hints of the adapter manifests.
AdapterHints(verb) ==
  IF verb = "salesforce.list_filters" THEN {}
  ELSE IF verb = "salesforce.save_dashboard" THEN {"policy", "human_review"}
  ELSE IF verb \in SafeVerbs THEN {"trace_grade"} ELSE {"policy", "trace_grade"}

(* verifierPolicyForCommand without the request: whether verification is   *)
(* asked for whatever the effects, and the checks.                         *)
VerifierOf(route) ==
  IF ActionOf(route) = {} THEN [always |-> TRUE, checks |-> {"artifact_schema"}]
  ELSE IF route.verb \in {"project.verify", "project.smoke"} THEN
    [always |-> TRUE, checks |-> {"artifact_schema", "trace_grade"}]
  ELSE IF route.lane \in {"browser", "salesforce"} THEN
    [always |-> route.verb \in SafeVerbs,
     checks |-> {"artifact_schema"} \cup AdapterHints(route.verb)]
  ELSE [always |-> FALSE, checks |-> {"artifact_schema"}]

(* buildCommandExecutionPolicy, as it is stored with the command and       *)
(* written into its graph.                                                 *)
ExecutionPolicy(request) ==
  LET route == RouteOf(request)
      verifier == VerifierOf(route)
  IN [maxAttempts |-> MaxAttempts(request, route),
      runtime |-> Runtime(request, route.verb),
      required |-> request.verify \/ verifier.always \/ route.effects # {},
      checks |-> verifier.checks]

(* What submit stores of a request: the route, the planned action and the  *)
(* policy are columns of the command row.                                  *)
Stored(request) ==
  [asked |-> request, route |-> RouteOf(request), action |-> ActionOf(RouteOf(request)),
   terms |-> ExecutionPolicy(request)]

-----------------------------------------------------------------------------
(* The graph: an approval node from class 2 on, which the worker approves  *)
(* itself, and a node for the action.  Without an action that node runs    *)
(* `command explain`, which changes nothing.                               *)

Explains(command) == command.action = {}

\* How a dispatch can end.  "flagged": it succeeded, with a red-flag pattern
\* in its output.  "timed out": it failed, killed at its time budget or with
\* a summary that speaks of a timeout.  Flagged output of a failed dispatch
\* changes nothing: artifact_schema, which every verifier has, fails anyway.
DispatchOutcomes == {"clean", "flagged", "failed", "timed out"}
Succeeded(outcome) == outcome \in {"clean", "flagged"}

\* The arguments of mlx.benchmark, part of its summary, name a timeout.
CanEnd(command, outcome) ==
  ~(command.route.verb = "mlx.benchmark" /\ ~Explains(command) /\ outcome = "failed")

(* runCheck.  The effects of commands are none the policy check stops.     *)
(* Only a class-2 command is auto-approved by the worker.                  *)
Passes(check, command, outcome, reviewed) ==
  CASE check = "artifact_schema" -> Succeeded(outcome)
    [] check = "trace_grade" -> outcome # "flagged"
    [] check = "human_review" -> command.route.class >= 2 \/ reviewed
    [] OTHER -> TRUE

\* runVerifier: every check of a required verifier, whatever became of the
\* dispatch.
Verified(command, outcome, reviewed) ==
  \A check \in command.terms.checks : Passes(check, command, outcome, reviewed)

(* MUTANT: a verifier that fails is only noted.                            *)
NodeCompletes(command, outcome, reviewed) == Succeeded(outcome)

(* decideNodeStatus for the action node.                                   *)
NodeSucceeds(command, outcome, reviewed) ==
  Succeeded(outcome) /\ (command.terms.required => Verified(command, outcome, reviewed))

-----------------------------------------------------------------------------
(* classifyCommandFailure for a failed command: the verdict of a required  *)
(* verifier goes first.  A command that failed without a dispatch has no   *)
(* node result.                                                            *)
FailureKind(command, result) ==
  LET policy == command.terms IN
    IF result.attempts = 0 THEN "dispatch_failed"
    ELSE IF policy.required /\ ~result.verified THEN "verifier_failed"
    ELSE IF result.timedOut THEN "runtime_exceeded"
    ELSE IF result.attempts >= policy.maxAttempts /\ policy.maxAttempts > 1 THEN "retry_exhausted"
    ELSE "dispatch_failed"

NoPayload == [command |-> {}, arguments |-> {}]

(* MUTANT: the class is left to be inferred again.                         *)
ResubmittedAnew(command) ==
  LET policy == command.terms IN
    [command.asked EXCEPT !.project = command.route.project, !.class = {},
                    !.payload = NoPayload,
                    !.retries = {policy.maxAttempts - 1}, !.runtime = {policy.runtime},
                    !.verify = policy.required]

(* MUTANT: the project is left to be inferred again.                       *)
ResubmittedUnplaced(command) ==
  LET policy == command.terms IN
    [command.asked EXCEPT !.project = {}, !.class = {command.route.class},
                    !.payload = NoPayload,
                    !.retries = {policy.maxAttempts - 1}, !.runtime = {policy.runtime},
                    !.verify = policy.required]

(* operatorSubmitInput: the intent with the project, the class and the     *)
(* terms of the source, without its payload.                               *)
Resubmitted(command) ==
  LET policy == command.terms IN
    [command.asked EXCEPT !.project = command.route.project,
                    !.class = {command.route.class},
                    !.payload = NoPayload,
                    !.retries = {policy.maxAttempts - 1}, !.runtime = {policy.runtime},
                    !.verify = policy.required]

=============================================================================
