---------------------------- MODULE CommandGateway ----------------------------
(***************************************************************************)
(* The command store with what its commands ask for: a request is routed,  *)
(* classed and given its terms when it is submitted, its work graph is     *)
(* dispatched and verified while a worker executes it, and the outcome is  *)
(* kept with the command.  Every step is a step of CommandStore; this      *)
(* module adds the requests, the dispatches, the results and the order in  *)
(* which rows were last updated, which the briefs list commands by.        *)
(***************************************************************************)
EXTENDS CommandStore, CommandExecution

CONSTANTS
  Requests,       \* the requests that are submitted
  MaxSubmissions  \* bound on submissions other than replacements

\* What a submission may ask, in whatever words; an optional value is a set of
\* at most one element.
IsRequest(r) ==
  /\ r \in [intent : {r.intent}, project : {r.project}, class : SUBSET ApprovalClasses,
            payload : {r.payload}, retries : SUBSET Nat, runtime : SUBSET Nat,
            verify : BOOLEAN]
  /\ \A optional \in {r.class, r.retries, r.runtime} : \A a, b \in optional : a = b

ASSUME RequestsAssumption ==
  \A r \in Requests : IsRequest(r) /\ RouteOf(r).class \in Classes
ASSUME SubmissionsAssumption == MaxSubmissions \in Nat

VARIABLES
  command,    \* the command, route, action and policy columns; None before the insert
  run,        \* the node each worker is at: dispatches so far and the last outcome
  result,     \* commands.result_json: dispatches, verdict and timeout
  reviewed,   \* commands for whose graph the review token was touched
  effects,    \* times the action of a command was dispatched
  newer       \* pairs of commands, the first with the later updated_at

gatewayVars == <<command, run, result, reviewed, effects, newer>>
allVars == <<vars, gatewayVars>>

NotRun == [attempts |-> 0, outcome |-> "none", verified |-> FALSE]
NoResult == [attempts |-> 0, verified |-> FALSE, timedOut |-> FALSE]

GatewayInit ==
  /\ Init
  /\ command = [c \in Commands |-> None]
  /\ run = [w \in Workers |-> NotRun]
  /\ result = [c \in Commands |-> NoResult]
  /\ reviewed = {}
  /\ effects = [c \in Commands |-> 0]
  /\ newer = {}

Live == {c \in Commands : status[c] # "absent"}

\* updated_at is set to now.
Updated(c) ==
  newer' = {p \in newer : c \notin {p[1], p[2]}} \cup ({c} \X (Live \ {c}))

Submitted == {c \in Commands : status[c] # "absent" /\ source[c] = None}

(* submit: the route gives the class, and the policy the status.           *)
SubmitRequest(c, r) ==
  /\ Cardinality(Submitted) < MaxSubmissions
  /\ Submit(c, RouteOf(r).class)
  /\ command' = [command EXCEPT ![c] = Stored(r)]
  /\ Updated(c)
  /\ UNCHANGED <<run, result, reviewed, effects>>

(* retry and requeue submit the source's intent on the source's terms.     *)
ResubmitRequest(o, n) ==
  /\ SubmitReplacement(o, n)
  /\ command' = [command EXCEPT ![n] = Stored(Resubmitted(command[op[o].cmd]))]
  /\ Updated(n)
  /\ UNCHANGED <<run, result, reviewed, effects>>

ClaimRequest(w) ==
  /\ Claim(w, None)
  /\ \E c \in Commands : worker'[w].cmd = c /\ Updated(c)
  /\ UNCHANGED <<command, run, result, reviewed, effects>>

HeartbeatRequest(w) ==
  /\ Heartbeat(w)
  /\ Updated(worker[w].cmd)
  /\ UNCHANGED <<command, run, result, reviewed, effects>>

\* The dispatch of the node is over: it succeeded or its attempts are spent.
Dispatched(w) ==
  \/ Succeeded(run[w].outcome)
  \/ run[w].attempts = command[worker[w].cmd].terms.maxAttempts

(* dispatchWithRetry, one dispatch: the process ends or is killed.         *)
Dispatch(w, outcome) ==
  LET c == worker[w].cmd IN
    /\ worker[w].pc = "executing"
    /\ ~Dispatched(w)
    /\ CanEnd(command[c], outcome)
    /\ run' = [run EXCEPT ![w] = [attempts |-> @.attempts + 1, outcome |-> outcome,
                                  verified |-> FALSE]]
    /\ effects' = [effects EXCEPT ![c] = IF Explains(command[c]) THEN @ ELSE @ + 1]
    /\ UNCHANGED <<vars, command, result, reviewed, newer>>

(* The verifier's checks, and the end of the graph.                        *)
EndGraph(w) ==
  LET c == worker[w].cmd IN
    /\ worker[w].pc = "executing"
    /\ Dispatched(w)
    /\ Executed(w, NodeSucceeds(command[c], run[w].outcome, c \in reviewed))
    /\ run' = [run EXCEPT ![w].verified = Verified(command[c], run[w].outcome, c \in reviewed)]
    /\ UNCHANGED <<command, result, reviewed, effects, newer>>

\* What the worker reports of its run.
Report(w) == [attempts |-> run[w].attempts, verified |-> run[w].verified,
              timedOut |-> run[w].outcome = "timed out"]

(* finishCommand stores the result with the status.                        *)
FinishRequest(w) ==
  /\ FinishCommand(w)
  /\ result' = [result EXCEPT ![worker[w].cmd] = Report(w)]
  /\ run' = [run EXCEPT ![w] = NotRun]
  /\ Updated(worker[w].cmd)
  /\ UNCHANGED <<command, reviewed, effects>>

(* The process dies, and with it what it knew of the run.                  *)
LoseRun(w) ==
  /\ WorkerDies(w)
  /\ run' = [run EXCEPT ![w] = NotRun]
  /\ UNCHANGED <<command, result, reviewed, effects, newer>>

(* cancel and resume overwrite the result with their own.                  *)
Overwrite(o) ==
  /\ CancelWrite(o) \/ ResumeWrite(o)
  /\ result' = [result EXCEPT ![op[o].cmd] = NoResult]
  /\ Updated(op[o].cmd)
  /\ UNCHANGED <<command, run, reviewed, effects>>

(* The operator touches the token file a failed review names.              *)
Review(c) ==
  /\ c \in Live
  /\ "human_review" \in command[c].terms.checks
  /\ c \notin reviewed
  /\ reviewed' = reviewed \cup {c}
  /\ UNCHANGED <<vars, command, run, result, effects, newer>>

(* The steps of the store that touch neither the commands table nor a run. *)
StoreStep ==
  /\ \/ \E w \in Workers : ReadClaim(w) \/ FinishActivity(w) \/ AppendTerminalEvent(w)
     \/ \E c \in Commands : LeaseLapses(c)
     \/ \E o \in Operators, c \in Commands : OperatorCall(o, c)
     \/ \E o \in Operators : CancelRead(o) \/ CancelMark(o) \/ ReadTokens(o)
                               \/ ConsumeToken(o) \/ ResumeMark(o) \/ OperatorDies(o)
     \/ \E t \in Tokens, c \in Commands : Approve(t, c)
  /\ UNCHANGED gatewayVars

GatewayNext ==
  \/ \E c \in Commands, r \in Requests : SubmitRequest(c, r)
  \/ \E o \in Operators, n \in Commands : ResubmitRequest(o, n)
  \/ \E w \in Workers : ClaimRequest(w) \/ HeartbeatRequest(w) \/ EndGraph(w)
                          \/ FinishRequest(w) \/ LoseRun(w)
  \/ \E w \in Workers, outcome \in DispatchOutcomes : Dispatch(w, outcome)
  \/ \E o \in Operators : Overwrite(o)
  \/ \E c \in Commands : Review(c)
  \/ StoreStep

GatewaySpec == GatewayInit /\ [][GatewayNext]_allVars

-----------------------------------------------------------------------------

Terms(c) == command[c].terms

(* A command that reads completed was dispatched with success and passed   *)
(* every check it, or the command it replaces, was owed, through whatever  *)
(* retries and requeues, crashes and reclaims the work went.               *)
CompletedWasVerified ==
  \A c \in Live :
    status[c] = "completed" =>
      /\ result[c].attempts > 0
      /\ Terms(c).required \/ (source[c] # None /\ Terms(source[c]).required) =>
           result[c].verified

(* A replacement runs on its source's terms: the same class, the project   *)
(* it had, no more attempts, no larger time budget, and verified if the    *)
(* source was to be; without a payload it also runs the same verb, and no  *)
(* project comes from nowhere.  operatorSubmitInput rebuilds the request   *)
(* from the row, and submit derives all this anew.                         *)
RetryKeepsTerms ==
  \A c \in Live :
    source[c] # None =>
      LET old == command[source[c]]
          new == command[c]
      IN /\ new.route.class = old.route.class
         /\ Terms(c).maxAttempts <= Terms(source[c]).maxAttempts
         /\ Terms(c).runtime <= Terms(source[c]).runtime
         /\ Terms(source[c]).required => Terms(c).required
         /\ old.route.project # {} \/ old.asked.payload = NoPayload =>
              new.route.project = old.route.project
         /\ old.asked.payload = NoPayload => new.route.verb = old.route.verb

(* An action that is not safe and has effects is dispatched once per claim *)
(* unless its request asked for retries, and never more than its attempts  *)
(* per claim: a lapsed lease or a crash is the only way to a second run.   *)
(* The exception is that of ExecutionsAreCounted.                          *)
EffectsAreNotRepeated ==
  \A c \in Live :
    class[c] <= 1 \/ stalls = 0 =>
      LET route == command[c].route IN
        /\ effects[c] <= attempts[c] * Terms(c).maxAttempts
        /\ route.effects # {} /\ command[c].asked.retries = {} /\
           (\A a \in command[c].action : ~a.safe) => effects[c] <= attempts[c]

(* A destructive intent comes to nothing: whatever class, project or       *)
(* adapter payload came with it and whoever retries it, no action of it is *)
(* ever dispatched.                                                        *)
GuardedIntentDoesNothing ==
  \A c \in Live :
    (\E i \in DOMAIN GuardRules : Applies(GuardRules[i], command[c].asked.intent)) =>
      effects[c] = 0

(* No effect the operator did not ask for: none is repeated, and none      *)
(* follows from a destructive intent.                                      *)
EffectsAreIntended == EffectsAreNotRepeated /\ GuardedIntentDoesNothing

=============================================================================
