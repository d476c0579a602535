--------------------------- MODULE InferenceBroker ---------------------------
(***************************************************************************)
(* InferenceBroker.callClass (inference/broker.ts) with the token buckets  *)
(* of inference/rate-limit.ts and the delays of inference/backoff.ts: the  *)
(* calls one broker serves concurrently.  Code runs to completion between  *)
(* two awaits; a call awaits a slot of its class, a token, the provider    *)
(* and the delay before a retry.                                           *)
(*                                                                         *)
(* Time passes in ticks.  A bucket gains one token in RefillTicks ticks;   *)
(* its content is counted in units of which RefillTicks make a token, so   *)
(* the fractions of the code's floating point stay whole.  All instants    *)
(* are kept relative to now.                                               *)
(***************************************************************************)
EXTENDS Integers, Sequences, FiniteSets

CONSTANTS
  Calls,        \* calls of callClass
  Classes,      \* task classes
  Models,       \* "<provider>:<model>" keys, each with its bucket
  None,         \* the JavaScript null
  ClassOf,      \* taskClass of each call
  Candidates,   \* the models of each class in order, enabled and initialised
  MaxParallel,  \* maxParallel of each class
  MaxAttempts,  \* attempts per model
  Capacity,     \* tokens a bucket holds
  RefillTicks,  \* ticks per token
  RetryAfter,   \* ticks a 429 asks for in its Retry-After header
  Penalty,      \* ticks of the penalty when there is no header
  MaxBackoff,   \* bound on a backoff delay, in ticks
  Answers       \* the answers providers give in this instance

AnswerKinds == {"ok", "retry_after", "too_many", "server_error", "refused"}

ASSUME BrokerAssumption ==
  /\ ClassOf \in [Calls -> Classes]
  /\ Candidates \in [Classes -> Seq(Models) \ {<<>>}]
  /\ MaxParallel \in [Classes -> Nat \ {0}]
  /\ MaxAttempts \in Nat \ {0}
  /\ Capacity \in [Models -> Nat \ {0}]
  /\ RefillTicks \in Nat \ {0}
  /\ RetryAfter \in Nat /\ Penalty \in Nat /\ MaxBackoff \in Nat
  /\ Answers \subseteq AnswerKinds
  /\ None \notin Models

VARIABLES
  tokens,    \* of each bucket, in units
  due,       \* lastRefillMs - now: ahead of now after a penalty, else behind
  cooldown,  \* ticks until the latest 429 of each model is served
  inFlight,  \* the semaphore of each class
  call       \* where each call stands

brokerVars == <<tokens, due, cooldown, inFlight, call>>

CallSteps == {"new", "token", "sent", "delay", "ok", "failed"}
Full(m) == Capacity[m] * RefillTicks
Running == {"token", "sent", "delay"}

BrokerTypeOK ==
  /\ tokens \in [Models -> Nat]
  /\ due \in [Models -> Int]
  /\ \A m \in Models : tokens[m] <= Full(m) /\ due[m] >= -Full(m)
  /\ cooldown \in [Models -> Nat]
  /\ inFlight \in [Classes -> Nat]
  /\ call \in [Calls -> [at : CallSteps, model : Nat, tries : Nat, wait : Nat]]
  /\ \A c \in Calls : call[c].at \in Running =>
       call[c].model \in DOMAIN Candidates[ClassOf[c]] /\ call[c].tries < MaxAttempts

BrokerInit ==
  /\ tokens = [m \in Models |-> Full(m)]
  /\ due = [m \in Models |-> 0]
  /\ cooldown = [m \in Models |-> 0]
  /\ inFlight = [k \in Classes |-> 0]
  /\ call = [c \in Calls |-> [at |-> "new", model |-> 1, tries |-> 0, wait |-> 0]]

-----------------------------------------------------------------------------
(* The bucket                                                              *)

Lesser(a, b) == IF a <= b THEN a ELSE b

(* MUTANT: the time before lastRefillMs counts as well.                    *)
RefilledAbsolute(m) ==
  Lesser(Full(m), tokens[m] + (IF due[m] < 0 THEN -due[m] ELSE due[m]))

(* What acquire finds in the bucket: the refill since lastRefillMs, none   *)
(* when that lies ahead, capped at the capacity.                           *)
Refilled(m) == Lesser(Full(m), tokens[m] + (IF due[m] < 0 THEN -due[m] ELSE 0))

(* acquire: lastRefillMs becomes now, granted or not.                      *)
AcquireGranted(m) ==
  /\ Refilled(m) >= RefillTicks
  /\ tokens' = [tokens EXCEPT ![m] = Refilled(m) - RefillTicks]
  /\ due' = [due EXCEPT ![m] = 0]

AcquireDenied(m) ==
  /\ Refilled(m) < RefillTicks
  /\ tokens' = [tokens EXCEPT ![m] = Refilled(m)]
  /\ due' = [due EXCEPT ![m] = 0]

(* penalize: the bucket is drained and refills only from then on.          *)
Penalize(m, ticks) ==
  /\ tokens' = [tokens EXCEPT ![m] = 0]
  /\ due' = [due EXCEPT ![m] = ticks]
  /\ cooldown' = [cooldown EXCEPT ![m] = ticks]

-----------------------------------------------------------------------------
(* callClass                                                               *)

ModelOf(c) == Candidates[ClassOf[c]][call[c].model]

(* MUTANT: the class limit is checked one too late.                        *)
EnterLate(c) ==
  /\ call[c].at = "new"
  /\ inFlight[ClassOf[c]] <= MaxParallel[ClassOf[c]]
  /\ inFlight' = [inFlight EXCEPT ![ClassOf[c]] = @ + 1]
  /\ call' = [call EXCEPT ![c].at = "token"]
  /\ UNCHANGED <<tokens, due, cooldown>>

(* The wait for a slot ends: nothing is awaited between the check and the  *)
(* increment.                                                              *)
Enter(c) ==
  /\ call[c].at = "new"
  /\ inFlight[ClassOf[c]] < MaxParallel[ClassOf[c]]
  /\ inFlight' = [inFlight EXCEPT ![ClassOf[c]] = @ + 1]
  /\ call' = [call EXCEPT ![c].at = "token"]
  /\ UNCHANGED <<tokens, due, cooldown>>

(* One turn of the wait for a token; the waits in between are not told     *)
(* apart.  With a token the request is sent at once.                       *)
Acquire(c) ==
  /\ call[c].at = "token"
  /\ \/ /\ AcquireGranted(ModelOf(c))
        /\ call' = [call EXCEPT ![c].at = "sent"]
     \/ /\ AcquireDenied(ModelOf(c))
        /\ UNCHANGED call
  /\ UNCHANGED <<cooldown, inFlight>>

(* MUTANT: the slot is given back on success only.                         *)
LeaveKeepingSlot(c, at) ==
  /\ call' = [call EXCEPT ![c].at = at]
  /\ inFlight' = IF at = "ok" THEN [inFlight EXCEPT ![ClassOf[c]] = @ - 1] ELSE inFlight

(* The call returns; finally gives the slot back.                          *)
Leave(c, at) ==
  /\ call' = [call EXCEPT ![c].at = at]
  /\ inFlight' = [inFlight EXCEPT ![ClassOf[c]] = @ - 1]

Succeed(c) ==
  /\ call[c].at = "sent" /\ "ok" \in Answers
  /\ Leave(c, "ok")
  /\ UNCHANGED <<tokens, due, cooldown>>

(* A status that is retried: the call sleeps for its delay.                *)
Retryable(c, wait) ==
  /\ call' = [call EXCEPT ![c].at = "delay", ![c].wait = wait]
  /\ UNCHANGED inFlight

(* A 429: the bucket is penalised, and the call waits for what the header  *)
(* asked for, or for a random backoff when there is none.                  *)
TooMany(c) ==
  /\ call[c].at = "sent"
  /\ \/ /\ "retry_after" \in Answers
        /\ Penalize(ModelOf(c), RetryAfter)
        /\ Retryable(c, RetryAfter)
     \/ /\ "too_many" \in Answers
        /\ Penalize(ModelOf(c), Penalty)
        /\ \E wait \in 0 .. MaxBackoff : Retryable(c, wait)

ServerError(c) ==
  /\ call[c].at = "sent" /\ "server_error" \in Answers
  /\ \E wait \in 0 .. MaxBackoff : Retryable(c, wait)
  /\ UNCHANGED <<tokens, due, cooldown>>

(* The next candidate, or the end of the list.                             *)
NextModel(c) ==
  IF call[c].model < Len(Candidates[ClassOf[c]])
    THEN /\ call' = [call EXCEPT ![c] =
                       [at |-> "token", model |-> @.model + 1, tries |-> 0, wait |-> 0]]
         /\ UNCHANGED inFlight
    ELSE Leave(c, "failed")

(* A status that is not retried moves on to the next candidate.            *)
Refused(c) ==
  /\ call[c].at = "sent" /\ "refused" \in Answers
  /\ NextModel(c)
  /\ UNCHANGED <<tokens, due, cooldown>>

(* The delay is over: another attempt at this model, or the next one.      *)
Resume(c) ==
  /\ call[c].at = "delay" /\ call[c].wait = 0
  /\ IF call[c].tries + 1 < MaxAttempts
       THEN /\ call' = [call EXCEPT ![c].at = "token", ![c].tries = @ + 1]
            /\ UNCHANGED inFlight
       ELSE NextModel(c)
  /\ UNCHANGED <<tokens, due, cooldown>>

Less(n) == IF n > 0 THEN n - 1 ELSE 0

(* A tick.  A lag of a full bucket is not told apart from a longer one.    *)
Tick ==
  /\ due' = [m \in Models |-> IF due[m] > -Full(m) THEN due[m] - 1 ELSE due[m]]
  /\ cooldown' = [m \in Models |-> Less(cooldown[m])]
  /\ call' = [c \in Calls |-> [call[c] EXCEPT !.wait = Less(@)]]
  /\ UNCHANGED <<tokens, inFlight>>

CallStep(c) ==
  \/ Enter(c) \/ Acquire(c) \/ Succeed(c) \/ TooMany(c)
  \/ ServerError(c) \/ Refused(c) \/ Resume(c)

BrokerNext == Tick \/ \E c \in Calls : CallStep(c)

BrokerSpec == BrokerInit /\ [][BrokerNext]_brokerVars

(* Time passes, a call looks again for its slot and its token, and a       *)
(* request ends at the latest with its timeout.                            *)
BrokerFairSpec ==
  /\ BrokerSpec
  /\ WF_brokerVars(Tick)
  /\ \A c \in Calls : WF_brokerVars(CallStep(c))

-----------------------------------------------------------------------------

(* The semaphore counts the calls that are inside, however they end, and   *)
(* never more than the class allows.                                       *)
SlotsAreExact ==
  \A k \in Classes :
    /\ inFlight[k] = Cardinality({c \in Calls : ClassOf[c] = k /\ call[c].at \in Running})
    /\ inFlight[k] <= MaxParallel[k]

(* The lazily refilled buckets, shared by all calls and classes, implement *)
(* the rate budget.                                                        *)
Credit == [m \in Models |-> Refilled(m)]
Pending == [c \in Calls |-> IF call[c].at = "sent" THEN ModelOf(c) ELSE None]

Budget == INSTANCE RateBudget WITH credit <- Credit, pending <- Pending

ImplementsBudget == Budget!Spec

(* Every call returns.                                                     *)
CallsReturn == \A c \in Calls : <>(call[c].at \in {"ok", "failed"})

=============================================================================
