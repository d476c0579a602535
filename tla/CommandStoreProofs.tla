------------------------- MODULE CommandStoreProofs -------------------------
(***************************************************************************)
(* Proofs about CommandStore, for any set of commands, workers, operator   *)
(* processes and tokens and any number of faults: types, then leases, the  *)
(* policy's consent, the implementation of ExecutionGate, the end of work, *)
(* and what leases, attempts, activities and events say of one another,    *)
(* each from an inductive invariant over the calls that are under way.     *)
(*                                                                         *)
(* Then about CommandGateway and CommandBriefs, for any requests: every    *)
(* step of the gateway is a step of the store, so the above holds of it,   *)
(* and with it the terms of retries, the verification of what completed,   *)
(* the effects of what ran, and the briefs.                                *)
(***************************************************************************)
EXTENDS CommandBriefs, TLAPS, FiniteSetTheorems, SequenceTheorems

USE DEF rowVars, storeVars, faultVars, approvalVars, vars

(* A call under way, of a worker or an operator, is a call on a command.   *)
CallsHaveCommands ==
  /\ \A w \in Workers : worker[w].pc # "idle" => worker[w].cmd \in Commands
  /\ \A o \in Operators : op[o].pc # "idle" => op[o].cmd \in Commands

Typed == TypeOK /\ CallsHaveCommands

RowsTyped ==
  /\ status \in [Commands -> CommandStatus \cup {"absent"}]
  /\ class \in [Commands -> ApprovalClasses]
  /\ leaseOwner \in [Commands -> Workers \cup {None}]
  /\ leaseUntil \in [Commands -> {"null", "live", "expired"}]
  /\ activity \in [Commands -> ActivityStatus \cup {"absent"}]
  /\ attempts \in [Commands -> Nat]
  /\ source \in [Commands -> Commands \cup {None}]
  /\ terminal \in [Commands -> SUBSET {"command.completed", "command.failed"}]

WorkersTyped ==
  /\ worker \in [Workers -> WorkerCall]
  /\ \A w \in Workers : worker[w].pc # "idle" => worker[w].cmd \in Commands

OpsTyped ==
  /\ op \in [Operators -> OpCall]
  /\ \A o \in Operators : op[o].pc # "idle" => op[o].cmd \in Commands

FaultsTyped == crashes \in 0 .. MaxCrashes /\ stalls \in 0 .. MaxStalls

LEMMA TypedParts ==
  Typed <=> RowsTyped /\ WorkersTyped /\ OpsTyped /\ FaultsTyped /\ ApprovalTypeOK
BY DEF Typed, TypeOK, CallsHaveCommands, RowsTyped, WorkersTyped, OpsTyped, FaultsTyped

(* The same, of the next state.                                            *)
LEMMA TypedPartsNext ==
  Typed' <=> RowsTyped' /\ WorkersTyped' /\ OpsTyped' /\ FaultsTyped' /\ ApprovalTypeOK'
BY DEF Typed, TypeOK, CallsHaveCommands, RowsTyped, WorkersTyped, OpsTyped, FaultsTyped

(* What the three ways to move an operator process do to its call.         *)
LEMMA GoToTyped ==
  ASSUME OpsTyped, NEW o \in Operators, NEW pc \in OperatorSteps, op[o].pc # "idle", GoTo(o, pc)
  PROVE  OpsTyped'
BY DEF OpsTyped, OpCall, GoTo

LEMMA ReturnTyped ==
  ASSUME OpsTyped, NEW o \in Operators, Return(o)
  PROVE  OpsTyped'
BY DEF OpsTyped, OpCall, Return, NoCall, OperatorSteps, OperatorKinds

LEMMA BeginTyped ==
  ASSUME OpsTyped, NEW o \in Operators, NEW kind \in OperatorKinds, NEW c \in Commands,
         NEW pc \in OperatorSteps, Begin(o, kind, c, pc)
  PROVE  OpsTyped'
BY DEF OpsTyped, OpCall, Begin

LEMMA InsertTyped ==
  ASSUME RowsTyped, NEW c \in Commands, NEW k \in ApprovalClasses,
         NEW src \in Commands \cup {None}, Insert(c, k, src)
  PROVE  RowsTyped'
<1>1. InitialStatus(k) \in {"queued", "blocked_approval", "blocked_policy"}
  BY DEF InitialStatus, Decision
<1>2. ActivityStatusFor(InitialStatus(k)) \in {"queued", "blocked"}
  BY DEF ActivityStatusFor
<1> QED BY <1>1, <1>2 DEF RowsTyped, Insert, CommandStatus, ActivityStatus

LEMMA InitTyped == Init => Typed
BY BoundsAssumption DEF Init, Typed, TypeOK, CallsHaveCommands, NoWork, NoCall, WorkerCall, OpCall,
     ApprovalInit, ApprovalTypeOK, ApprovalClasses, WorkerSteps, OperatorSteps, OperatorKinds

LEMMA NextTyped == Typed /\ [Next]_vars => Typed'
<1> SUFFICES ASSUME Typed, [Next]_vars
             PROVE  RowsTyped' /\ WorkersTyped' /\ OpsTyped' /\ FaultsTyped' /\ ApprovalTypeOK'
  BY TypedPartsNext
<1> DEFINE Goal == RowsTyped' /\ WorkersTyped' /\ OpsTyped' /\ FaultsTyped' /\ ApprovalTypeOK'
<1>0. RowsTyped /\ WorkersTyped /\ OpsTyped /\ FaultsTyped /\ ApprovalTypeOK
  BY TypedParts
<1>1. ASSUME NEW c \in Commands, NEW k \in Classes, Submit(c, k) PROVE Goal
  <2>1. RowsTyped'
    BY <1>0, <1>1, InsertTyped, ClassesAssumption DEF Submit
  <2> QED BY <1>0, <1>1, <2>1 DEF Submit, WorkersTyped, OpsTyped, FaultsTyped, ApprovalTypeOK
<1>2. ASSUME NEW w \in Workers, NEW wanted \in Commands \cup {None}, Claim(w, wanted)
      PROVE Goal
  <2>1. PICK c \in Commands :
          /\ status' = [status EXCEPT ![c] = "running"]
          /\ leaseOwner' = [leaseOwner EXCEPT ![c] = w]
          /\ leaseUntil' = [leaseUntil EXCEPT ![c] = "live"]
          /\ \/ /\ activity' = [activity EXCEPT ![c] = "running"]
                /\ attempts' = [attempts EXCEPT ![c] = @ + 1]
             \/ UNCHANGED <<activity, attempts>>
          /\ worker' = [worker EXCEPT ![w] = [pc |-> "claimed", cmd |-> c, ok |-> FALSE]]
    BY <1>2 DEF Claim, ClaimableBy, StartAttempt
  <2>2. UNCHANGED <<class, source, terminal, op, crashes, stalls, approvalVars>>
    BY <1>2 DEF Claim
  <2>3. RowsTyped'
    BY <1>0, <2>1, <2>2 DEF RowsTyped, CommandStatus, ActivityStatus
  <2>4. WorkersTyped'
    BY <1>0, <2>1 DEF WorkersTyped, WorkerCall, WorkerSteps
  <2> QED BY <1>0, <2>2, <2>3, <2>4 DEF OpsTyped, FaultsTyped, ApprovalTypeOK
<1>3. ASSUME NEW w \in Workers, Heartbeat(w) PROVE Goal
  BY <1>0, <1>3 DEF Heartbeat, RowsTyped, WorkersTyped, OpsTyped, FaultsTyped, ApprovalTypeOK
<1>4. ASSUME NEW w \in Workers, WorkerStep(w) PROVE Goal
  <2> USE <1>0 DEF WorkersTyped, WorkerCall, WorkerSteps
  <2>1. CASE ReadClaim(w)
    BY <2>1 DEF ReadClaim, RowsTyped, OpsTyped, FaultsTyped, ApprovalTypeOK
  <2>2. ASSUME NEW ok \in BOOLEAN, Executed(w, ok) PROVE Goal
    <3>1. worker[w].pc # "idle" /\ worker[w] \in WorkerCall
      BY <2>2 DEF Executed
    <3>2. WorkersTyped'
      BY <2>2, <3>1 DEF Executed
    <3> QED BY <2>2, <3>2 DEF Executed, RowsTyped, OpsTyped, FaultsTyped, ApprovalTypeOK
  <2>3. CASE FinishActivity(w)
    BY <2>3 DEF FinishActivity, RowsTyped, OpsTyped, FaultsTyped, ApprovalTypeOK, ActivityStatus,
         Terminal
  <2>4. CASE FinishCommand(w)
    BY <2>4 DEF FinishCommand, RowsTyped, OpsTyped, FaultsTyped, ApprovalTypeOK, CommandStatus,
         Terminal
  <2>5. CASE AppendTerminalEvent(w)
    BY <2>5 DEF AppendTerminalEvent, NoWork, RowsTyped, OpsTyped, FaultsTyped, ApprovalTypeOK
  <2> QED BY <1>4, <2>1, <2>2, <2>3, <2>4, <2>5 DEF WorkerStep
<1>5. ASSUME NEW w \in Workers, WorkerDies(w) PROVE Goal
  BY <1>0, <1>5, BoundsAssumption DEF WorkerDies, NoWork, WorkersTyped, WorkerCall, WorkerSteps,
       RowsTyped, OpsTyped, FaultsTyped, ApprovalTypeOK
<1>6. ASSUME NEW c \in Commands, LeaseLapses(c) PROVE Goal
  BY <1>0, <1>6, BoundsAssumption DEF LeaseLapses, WorkersTyped, RowsTyped, OpsTyped, FaultsTyped,
       ApprovalTypeOK
<1>7. ASSUME NEW o \in Operators, NEW c \in Commands, OperatorCall(o, c) PROVE Goal
  <2>1. PICK kind \in OperatorKinds, pc \in OperatorSteps : Begin(o, kind, c, pc)
    BY <1>7 DEF OperatorCall, Cancel, Retry, Requeue, Resume, PolicyConsume, OperatorKinds,
         OperatorSteps
  <2>2. OpsTyped'
    BY <1>0, <2>1, BeginTyped
  <2> QED BY <1>0, <2>1, <2>2 DEF Begin, RowsTyped, WorkersTyped, FaultsTyped, ApprovalTypeOK
<1>8. ASSUME NEW o \in Operators, OperatorStep(o) PROVE Goal
  <2>0. "submit" \in OperatorSteps /\ "cancel_write" \in OperatorSteps
        /\ "cancel_mark" \in OperatorSteps /\ "resume_write" \in OperatorSteps
        /\ "resume_mark" \in OperatorSteps
    BY DEF OperatorSteps
  <2>1. CASE CancelRead(o)
    <3>1. OpsTyped'
      BY <1>0, <2>0, <2>1, GoToTyped DEF CancelRead
    <3> QED BY <1>0, <2>1, <3>1 DEF CancelRead, RowsTyped, WorkersTyped, FaultsTyped, ApprovalTypeOK
  <2>2. CASE CancelWrite(o)
    <3>1. OpsTyped'
      BY <1>0, <2>0, <2>2, GoToTyped DEF CancelWrite
    <3> QED BY <1>0, <2>2, <3>1 DEF CancelWrite, RowsTyped, WorkersTyped, FaultsTyped, ApprovalTypeOK,
              CommandStatus, Terminal
  <2>3. CASE CancelMark(o)
    <3>1. OpsTyped'
      BY <1>0, <2>0, <2>3, GoToTyped, ReturnTyped DEF CancelMark
    <3> QED BY <1>0, <2>3, <3>1 DEF CancelMark, Marked, RowsTyped, WorkersTyped, FaultsTyped,
              ApprovalTypeOK, ActivityStatus, Terminal
  <2>4. ASSUME NEW n \in Commands, SubmitReplacement(o, n) PROVE Goal
    <3>1. op[o].cmd \in Commands
      BY <1>0, <2>4 DEF SubmitReplacement, OpsTyped
    <3>2. class[op[o].cmd] \in ApprovalClasses
      BY <1>0, <3>1 DEF RowsTyped
    <3>3. RowsTyped'
      BY <1>0, <2>4, <3>1, <3>2, InsertTyped DEF SubmitReplacement
    <3>4. OpsTyped'
      BY <1>0, <2>4, ReturnTyped DEF SubmitReplacement
    <3> QED BY <1>0, <2>4, <3>3, <3>4 DEF SubmitReplacement, WorkersTyped, FaultsTyped, ApprovalTypeOK
  <2>5. CASE ReadTokens(o)
    <3>1. OpsTyped'
      <4>1. CASE ActiveTokens(op[o].cmd) = {}
        BY <1>0, <2>0, <2>5, <4>1, GoToTyped, ReturnTyped DEF ReadTokens
      <4>2. ASSUME NEW t \in Tokens,
                   op' = [op EXCEPT ![o] = [kind |-> op[o].kind, pc |-> "consume",
                                            cmd |-> op[o].cmd, token |-> t]]
            PROVE  OpsTyped'
        <5>1. op[o] \in OpCall /\ op[o].cmd \in Commands
          BY <1>0, <2>5 DEF ReadTokens, OpsTyped
        <5> QED BY <1>0, <4>2, <5>1 DEF OpsTyped, OpCall, OperatorSteps
      <4> QED BY <2>5, <4>1, <4>2 DEF ReadTokens, ActiveTokens
    <3> QED BY <1>0, <2>5, <3>1 DEF ReadTokens, RowsTyped, WorkersTyped, FaultsTyped, ApprovalTypeOK
  <2>6. CASE ConsumeToken(o)
    <3>1. OpsTyped'
      BY <1>0, <2>0, <2>6, GoToTyped, ReturnTyped DEF ConsumeToken
    <3>2. ApprovalTypeOK'
      <4>1. UNCHANGED <<tokenState, tokenTrace>> /\
            consumptions' = [consumptions EXCEPT ![op[o].token] = @ + 1]
        BY <2>6 DEF ConsumeToken, AppendConsumption
      <4>2. \A t \in Tokens : consumptions[t] \in Nat /\ consumptions[t] + 1 \in Nat
        BY <1>0 DEF ApprovalTypeOK
      <4> QED BY <1>0, <4>1, <4>2 DEF ApprovalTypeOK
    <3> QED BY <1>0, <2>6, <3>1, <3>2 DEF ConsumeToken, RowsTyped, WorkersTyped, FaultsTyped
  <2>7. CASE ResumeWrite(o)
    <3>1. OpsTyped'
      BY <1>0, <2>0, <2>7, GoToTyped, ReturnTyped DEF ResumeWrite
    <3> QED BY <1>0, <2>7, <3>1 DEF ResumeWrite, RowsTyped, WorkersTyped, FaultsTyped, ApprovalTypeOK,
              CommandStatus
  <2>8. CASE ResumeMark(o)
    <3>1. OpsTyped'
      BY <1>0, <2>8, ReturnTyped DEF ResumeMark
    <3> QED BY <1>0, <2>8, <3>1 DEF ResumeMark, Marked, RowsTyped, WorkersTyped, FaultsTyped,
              ApprovalTypeOK, ActivityStatus
  <2> QED BY <1>8, <2>1, <2>2, <2>3, <2>4, <2>5, <2>6, <2>7, <2>8 DEF OperatorStep
<1>9. ASSUME NEW o \in Operators, OperatorDies(o) PROVE Goal
  <2>1. OpsTyped'
    BY <1>0, <1>9, ReturnTyped DEF OperatorDies, Return
  <2> QED BY <1>0, <1>9, <2>1, BoundsAssumption DEF OperatorDies, RowsTyped, WorkersTyped, FaultsTyped,
            ApprovalTypeOK
<1>10. ASSUME NEW t \in Tokens, NEW c \in Commands, Approve(t, c) PROVE Goal
  <2>1. ApproveTrace(t, c)
    BY <1>10 DEF Approve, ApprovePendingTrace
  <2> QED BY <1>0, <1>10, <2>1, CommandsAssumption DEF Approve, ApproveTrace, RowsTyped, WorkersTyped,
            OpsTyped, FaultsTyped, ApprovalTypeOK
<1>11. ASSUME NEW t \in Tokens, Expire(t) PROVE Goal
  BY <1>0, <1>11 DEF Expire, TokenExpires, RowsTyped, WorkersTyped, OpsTyped, FaultsTyped,
       ApprovalTypeOK
<1>12. CASE UNCHANGED vars
  BY <1>0, <1>12 DEF RowsTyped, WorkersTyped, OpsTyped, FaultsTyped, ApprovalTypeOK
<1> QED
  BY <1>1, <1>2, <1>3, <1>4, <1>5, <1>6, <1>7, <1>8, <1>9, <1>10, <1>11, <1>12 DEF Next

(* Every variable keeps its type, and every call under way names the       *)
(* command it is made on, in all the interleavings of workers and          *)
(* operator processes.                                                     *)
THEOREM TypeCorrect == Spec => [](TypeOK /\ CallsHaveCommands)
<1> QED BY InitTyped, NextTyped, PTL DEF Spec, Typed

-----------------------------------------------------------------------------
(* Leases                                                                  *)

LEMMA LeaseNext == Typed /\ RunningIsLeased /\ [Next]_vars => RunningIsLeased'
<1> SUFFICES ASSUME Typed, RunningIsLeased, [Next]_vars
             PROVE  RunningIsLeased'
  OBVIOUS
<1> USE DEF RunningIsLeased
<1>0. RowsTyped /\ None \notin Workers
  BY TypedParts, WorkersAssumption
<1>1. ASSUME NEW c \in Commands, NEW k \in Classes, Submit(c, k) PROVE RunningIsLeased'
  BY <1>0, <1>1 DEF Submit, Insert, InitialStatus, RowsTyped
<1>2. ASSUME NEW w \in Workers, NEW wanted \in Commands \cup {None}, Claim(w, wanted)
      PROVE RunningIsLeased'
  BY <1>0, <1>2 DEF Claim, ClaimableBy, RowsTyped
<1>3. ASSUME NEW w \in Workers, Heartbeat(w) PROVE RunningIsLeased'
  BY <1>0, <1>3 DEF Heartbeat, RowsTyped
<1>4. ASSUME NEW w \in Workers, WorkerStep(w) PROVE RunningIsLeased'
  <2>1. CASE FinishCommand(w)
    BY <1>0, <2>1 DEF FinishCommand, RowsTyped
  <2> QED BY <1>4, <2>1 DEF WorkerStep, ReadClaim, Executed, FinishActivity, AppendTerminalEvent
<1>5. ASSUME NEW w \in Workers, WorkerDies(w) PROVE RunningIsLeased'
  BY <1>5 DEF WorkerDies
<1>6. ASSUME NEW c \in Commands, LeaseLapses(c) PROVE RunningIsLeased'
  BY <1>0, <1>6 DEF LeaseLapses, RowsTyped
<1>7. ASSUME NEW o \in Operators, NEW c \in Commands, OperatorCall(o, c) PROVE RunningIsLeased'
  BY <1>7 DEF OperatorCall, Cancel, Retry, Requeue, Resume, PolicyConsume, Begin
<1>8. ASSUME NEW o \in Operators, OperatorStep(o) PROVE RunningIsLeased'
  <2>1. CASE CancelWrite(o)
    BY <1>0, <2>1 DEF CancelWrite, RowsTyped
  <2>2. ASSUME NEW n \in Commands, SubmitReplacement(o, n) PROVE RunningIsLeased'
    BY <1>0, <2>2 DEF SubmitReplacement, Insert, InitialStatus, RowsTyped
  <2>3. CASE ResumeWrite(o)
    BY <1>0, <2>3 DEF ResumeWrite, RowsTyped
  <2> QED BY <1>8, <2>1, <2>2, <2>3 DEF OperatorStep, CancelRead, CancelMark, ReadTokens,
          ConsumeToken, ResumeMark
<1>9. CASE \/ \E o \in Operators : OperatorDies(o)
           \/ \E t \in Tokens, c \in Commands : Approve(t, c)
           \/ \E t \in Tokens : Expire(t)
           \/ UNCHANGED vars
  BY <1>9 DEF OperatorDies, Approve, Expire
<1> QED BY <1>1, <1>2, <1>3, <1>4, <1>5, <1>6, <1>7, <1>8, <1>9 DEF Next

(* No running row is ever without a lease, so selectClaimable can always   *)
(* find it again after its worker is gone.                                 *)
THEOREM RunningAlwaysLeased == Spec => []RunningIsLeased
<1>1. Init => RunningIsLeased
  BY DEF Init, RunningIsLeased
<1> QED BY <1>1, InitTyped, NextTyped, LeaseNext, PTL DEF Spec

-----------------------------------------------------------------------------
(* The policy's consent                                                    *)

(* A token that was never granted was never consumed.                      *)
GrantsPrecede ==
  \A t \in Tokens : tokenState[t] = "ungranted" => consumptions[t] = 0

(* What a call under way remembers of the reads it made: the command       *)
(* exists, a resume is of a class-2 command, the token about to be         *)
(* consumed is for the command's trace, and a resume that carries a token  *)
(* to its write has consumed it.                                           *)
CallsRemember ==
  \A o \in Operators :
    /\ op[o].pc # "idle" => status[op[o].cmd] # "absent"
    /\ op[o].kind = "resume" => op[o].pc # "idle" /\ class[op[o].cmd] = 2
    /\ op[o].pc \in {"resume_write", "resume_mark"} => op[o].kind = "resume"
    /\ op[o].pc = "read_tokens" => op[o].token = None
    /\ op[o].pc = "consume" => /\ op[o].token \in Tokens
                               /\ tokenTrace[op[o].token] = op[o].cmd
                               /\ tokenState[op[o].token] # "ungranted"
    /\ op[o].pc = "resume_write" /\ op[o].token # None => ApprovalConsumed(op[o].cmd)

(* Only class-2 commands wait for an approval, and workers work on         *)
(* commands that exist.                                                    *)
RowsRemember ==
  /\ \A c \in Commands : status[c] = "blocked_approval" => class[c] = 2
  /\ \A w \in Workers : worker[w].pc # "idle" => status[worker[w].cmd] # "absent"

Consent == OnlyAuthorizedWork /\ GrantsPrecede /\ CallsRemember /\ RowsRemember

LEMMA InitConsent == Init => Consent
BY DEF Init, ApprovalInit, Consent, OnlyAuthorizedWork, GrantsPrecede, CallsRemember, RowsRemember,
       NoWork, NoCall

(* A command that exists stays, with its class.                            *)
LEMMA CommandsStay ==
  ASSUME Typed, [Next]_vars, NEW c \in Commands, status[c] # "absent"
  PROVE  status'[c] # "absent" /\ class'[c] = class[c]
<1>0. RowsTyped
  BY TypedParts
<1>1. ASSUME NEW d \in Commands, NEW k, NEW src, Insert(d, k, src)
      PROVE  status'[c] # "absent" /\ class'[c] = class[c]
  BY <1>0, <1>1 DEF Insert, RowsTyped
<1>2. CASE \E d \in Commands, k \in Classes : Submit(d, k)
  BY <1>1, <1>2 DEF Submit
<1>3. CASE \E w \in Workers, wanted \in Commands \cup {None} : Claim(w, wanted)
  BY <1>0, <1>3 DEF Claim, ClaimableBy, RowsTyped
<1>4. CASE \E w \in Workers : Heartbeat(w) \/ WorkerStep(w) \/ WorkerDies(w)
  BY <1>0, <1>4 DEF Heartbeat, WorkerStep, WorkerDies, ReadClaim, Executed, FinishActivity,
       FinishCommand, AppendTerminalEvent, RowsTyped
<1>5. CASE \E o \in Operators : OperatorStep(o)
  BY <1>0, <1>1, <1>5 DEF OperatorStep, CancelRead, CancelWrite, CancelMark, SubmitReplacement,
       ReadTokens, ConsumeToken, ResumeWrite, ResumeMark, RowsTyped
<1>6. CASE \/ \E d \in Commands : LeaseLapses(d)
           \/ \E o \in Operators, d \in Commands : OperatorCall(o, d)
           \/ \E o \in Operators : OperatorDies(o)
           \/ \E t \in Tokens, d \in Commands : Approve(t, d)
           \/ \E t \in Tokens : Expire(t)
           \/ UNCHANGED vars
  BY <1>6 DEF LeaseLapses, OperatorCall, Cancel, Retry, Requeue, Resume, PolicyConsume, Begin,
       OperatorDies, Approve, Expire
<1> QED BY <1>2, <1>3, <1>4, <1>5, <1>6 DEF Next

(* When the policy allows an action, and a command.                        *)
LEMMA Allowed ==
  ASSUME NEW k \in ApprovalClasses, NEW b \in BOOLEAN
  PROVE  (Decision(k, b) = "allow") <=> (k \in {0, 1} \/ (k = 2 /\ b))
BY DEF Decision, ApprovalClasses

LEMMA AuthorizedIs ==
  ASSUME Typed, NEW c \in Commands
  PROVE  Authorized(c) <=> (class[c] \in {0, 1} \/ (class[c] = 2 /\ ApprovalConsumed(c)))
<1>1. class[c] \in ApprovalClasses /\ ApprovalConsumed(c) \in BOOLEAN
  BY TypedParts DEF RowsTyped, ApprovalConsumed
<1> QED BY <1>1, Allowed DEF Authorized

LEMMA AuthorizedIsNext ==
  ASSUME Typed', NEW c \in Commands
  PROVE  Authorized(c)' <=> (class'[c] \in {0, 1} \/ (class'[c] = 2 /\ ApprovalConsumed(c)'))
<1>1. class'[c] \in ApprovalClasses /\ ApprovalConsumed(c)' \in BOOLEAN
  BY TypedPartsNext DEF RowsTyped, ApprovalConsumed
<1> QED BY <1>1, Allowed DEF Authorized

(* The steps that touch an approval event.                                 *)
ApprovalStep ==
  \/ UNCHANGED approvalVars
  \/ \E t \in Tokens, c \in Commands : ApproveTrace(t, c)
  \/ \E t \in Tokens : TokenExpires(t)
  \/ \E o \in Operators : op[o].pc = "consume" /\ AppendConsumption(op[o].token)

LEMMA ApprovalSteps == [Next]_vars => ApprovalStep
<1> SUFFICES ASSUME [Next]_vars PROVE ApprovalStep
  OBVIOUS
<1>1. CASE \E c \in Commands, k \in Classes : Submit(c, k)
  BY <1>1 DEF Submit, ApprovalStep
<1>2. CASE \E w \in Workers, wanted \in Commands \cup {None} : Claim(w, wanted)
  BY <1>2 DEF Claim, ApprovalStep
<1>3. CASE \E w \in Workers : Heartbeat(w) \/ WorkerStep(w) \/ WorkerDies(w)
  BY <1>3 DEF Heartbeat, WorkerStep, WorkerDies, ReadClaim, Executed, FinishActivity,
       FinishCommand, AppendTerminalEvent, ApprovalStep
<1>4. CASE \E o \in Operators : OperatorStep(o)
  BY <1>4 DEF OperatorStep, CancelRead, CancelWrite, CancelMark, SubmitReplacement,
       ReadTokens, ConsumeToken, ResumeWrite, ResumeMark, ApprovalStep
<1>5. CASE \/ \E c \in Commands : LeaseLapses(c)
           \/ \E o \in Operators, c \in Commands : OperatorCall(o, c)
           \/ \E o \in Operators : OperatorDies(o)
           \/ UNCHANGED vars
  BY <1>5 DEF LeaseLapses, OperatorCall, Cancel, Retry, Requeue, Resume, PolicyConsume, Begin,
       OperatorDies, ApprovalStep
<1>6. CASE \E t \in Tokens, c \in Commands : Approve(t, c)
  BY <1>6 DEF Approve, ApprovePendingTrace, ApprovalStep
<1>7. CASE \E t \in Tokens : Expire(t)
  BY <1>7 DEF Expire, ApprovalStep
<1> QED BY <1>1, <1>2, <1>3, <1>4, <1>5, <1>6, <1>7 DEF Next

(* A consumed approval stays consumed, a granted token keeps its trace.    *)
LEMMA ApprovalsStay ==
  ASSUME Typed, Consent, [Next]_vars
  PROVE  /\ GrantsPrecede'
         /\ \A t \in Tokens : tokenState[t] # "ungranted" =>
              tokenState'[t] # "ungranted" /\ tokenTrace'[t] = tokenTrace[t]
         /\ \A c \in Commands : ApprovalConsumed(c) => ApprovalConsumed(c)'
<1>0. /\ ApprovalTypeOK /\ GrantsPrecede
      /\ \A o \in Operators : op[o].pc = "consume" =>
           op[o].token \in Tokens /\ tokenState[op[o].token] # "ungranted"
  BY TypedParts DEF Consent, CallsRemember
<1>1. CASE UNCHANGED approvalVars
  BY <1>0, <1>1 DEF GrantsPrecede, ApprovalConsumed
<1>2. ASSUME NEW t \in Tokens, NEW c \in Commands, ApproveTrace(t, c) PROVE
         /\ GrantsPrecede'
         /\ \A u \in Tokens : tokenState[u] # "ungranted" =>
              tokenState'[u] # "ungranted" /\ tokenTrace'[u] = tokenTrace[u]
         /\ \A d \in Commands : ApprovalConsumed(d) => ApprovalConsumed(d)'
  BY <1>0, <1>2 DEF ApproveTrace, GrantsPrecede, ApprovalConsumed, ApprovalTypeOK
<1>3. ASSUME NEW t \in Tokens, TokenExpires(t) PROVE
         /\ GrantsPrecede'
         /\ \A u \in Tokens : tokenState[u] # "ungranted" =>
              tokenState'[u] # "ungranted" /\ tokenTrace'[u] = tokenTrace[u]
         /\ \A d \in Commands : ApprovalConsumed(d) => ApprovalConsumed(d)'
  BY <1>0, <1>3 DEF TokenExpires, GrantsPrecede, ApprovalConsumed, ApprovalTypeOK
<1>4. ASSUME NEW t \in Tokens, tokenState[t] # "ungranted", AppendConsumption(t) PROVE
         /\ GrantsPrecede'
         /\ \A u \in Tokens : tokenState[u] # "ungranted" =>
              tokenState'[u] # "ungranted" /\ tokenTrace'[u] = tokenTrace[u]
         /\ \A d \in Commands : ApprovalConsumed(d) => ApprovalConsumed(d)'
  <2>1. \A u \in Tokens : consumptions[u] \in Nat /\ (consumptions[u] > 0 => consumptions'[u] > 0)
    BY <1>0, <1>4 DEF AppendConsumption, ApprovalTypeOK
  <2> QED BY <1>0, <1>4, <2>1 DEF AppendConsumption, GrantsPrecede, ApprovalConsumed, ApprovalTypeOK
<1> QED BY <1>0, <1>1, <1>2, <1>3, <1>4, ApprovalSteps DEF ApprovalStep

(* Consent is never withdrawn.                                             *)
LEMMA ConsentStays ==
  ASSUME Typed, Consent, [Next]_vars, NEW c \in Commands, status[c] # "absent", Authorized(c)
  PROVE  Authorized(c)'
<1>1. class'[c] = class[c]
  BY CommandsStay
<1>2. ApprovalConsumed(c) => ApprovalConsumed(c)'
  BY ApprovalsStay
<1>3. class[c] \in ApprovalClasses
  BY TypedParts DEF RowsTyped
<1> QED BY <1>1, <1>2, <1>3 DEF Authorized, Decision, ApprovalClasses

(* The rows and the workers: what a step makes of the statuses.            *)
LEMMA RowsNext ==
  ASSUME Typed, Consent, [Next]_vars
  PROVE  OnlyAuthorizedWork' /\ RowsRemember'
<1> DEFINE
      Entitled(c) == status[c] \in {"queued", "running", "completed", "failed"}
      \* A command keeps a status it had, or its new one is one it may have.
      RowOK(c) == /\ status'[c] # status[c] /\ Entitled(c)' => Authorized(c)'
                  /\ status'[c] # status[c] /\ status'[c] = "blocked_approval" => class'[c] = 2
      Goal == /\ \A c \in Commands : RowOK(c)
              /\ \A w \in Workers : worker'[w].pc # "idle" =>
                   \/ worker[w].pc # "idle" /\ worker'[w].cmd = worker[w].cmd
                   \/ /\ worker'[w].cmd \in Commands
                      /\ Entitled(worker'[w].cmd) 
<1>0. /\ RowsTyped /\ WorkersTyped /\ OpsTyped /\ ApprovalTypeOK
      /\ OnlyAuthorizedWork /\ RowsRemember /\ CallsRemember /\ Typed'
  BY TypedParts, NextTyped DEF Consent
<1>i. \A k \in ApprovalClasses :
        /\ InitialStatus(k) = "queued" => k \in {0, 1}
        /\ InitialStatus(k) = "blocked_approval" => k = 2
        /\ InitialStatus(k) \in {"queued", "blocked_approval", "blocked_policy"}
  BY DEF InitialStatus, Decision, ApprovalClasses
<1>ins. ASSUME NEW c \in Commands, NEW k \in ApprovalClasses, NEW src, Insert(c, k, src)
        PROVE \A d \in Commands : RowOK(d)
  <2>1. \A d \in Commands \ {c} : status'[d] = status[d]
    BY <1>0, <1>ins DEF Insert, RowsTyped
  <2>2. status'[c] = InitialStatus(k) /\ class'[c] = k
    BY <1>0, <1>ins DEF Insert, RowsTyped
  <2>3. status'[c] = "queued" => Authorized(c)'
    BY <1>0, <1>i, <2>2, AuthorizedIsNext
  <2> QED BY <1>i, <2>1, <2>2, <2>3
<1>s. Goal => OnlyAuthorizedWork' /\ RowsRemember'
  <2> SUFFICES ASSUME Goal PROVE OnlyAuthorizedWork' /\ RowsRemember'
    OBVIOUS
  <2>1. \A c \in Commands : status[c] # "absent" =>
           /\ status'[c] # "absent" /\ class'[c] = class[c]
           /\ Authorized(c) => Authorized(c)'
    BY CommandsStay, ConsentStays
  <2>2. \A c \in Commands : Entitled(c)' => Authorized(c)'
    BY <1>0, <2>1 DEF OnlyAuthorizedWork
  <2>3. \A c \in Commands : status'[c] = "blocked_approval" => class'[c] = 2
    BY <1>0, <2>1 DEF RowsRemember
  <2>4. ASSUME NEW w \in Workers, worker'[w].pc # "idle"
        PROVE  Authorized(worker[w].cmd)' /\ status'[worker'[w].cmd] # "absent"
    <3>1. PICK c \in Commands : c = worker'[w].cmd /\ Authorized(c) /\ status[c] # "absent"
      BY <1>0, <2>4 DEF OnlyAuthorizedWork, RowsRemember, WorkersTyped
    <3>2. Authorized(c)' /\ status'[c] # "absent"
      BY <2>1, <3>1
    <3>3. Authorized(worker[w].cmd)' <=> Authorized(c)'
      BY <3>1 DEF Authorized, ApprovalConsumed
    <3> QED BY <3>1, <3>2, <3>3
  <2> QED BY <2>2, <2>3, <2>4 DEF OnlyAuthorizedWork, RowsRemember
<1>1. CASE \E c \in Commands, k \in Classes : Submit(c, k)
  <2>1. PICK c \in Commands, k \in Classes : Submit(c, k)
    BY <1>1
  <2>2. \A d \in Commands : RowOK(d)
    BY <1>ins, <2>1, ClassesAssumption DEF Submit
  <2> QED BY <1>s, <2>1, <2>2 DEF Submit
<1>2. CASE \E w \in Workers, wanted \in Commands \cup {None} : Claim(w, wanted)
  <2>1. PICK w \in Workers, c \in Commands :
          /\ Claimable(c)
          /\ status' = [status EXCEPT ![c] = "running"]
          /\ worker' = [worker EXCEPT ![w] = [pc |-> "claimed", cmd |-> c, ok |-> FALSE]]
          /\ UNCHANGED <<class, approvalVars>>
    BY <1>2 DEF Claim, ClaimableBy
  <2>2. Entitled(c) /\ Authorized(c)
    BY <1>0, <2>1 DEF Claimable, OnlyAuthorizedWork
  <2>3. Authorized(c)'
    BY <2>2, ConsentStays
  <2>4. \A d \in Commands : RowOK(d)
    BY <1>0, <2>1, <2>3 DEF RowsTyped
  <2> QED BY <1>0, <1>s, <2>1, <2>2, <2>4 DEF WorkersTyped
<1>3. CASE \E w \in Workers : WorkerStep(w)
  <2>1. PICK w \in Workers : WorkerStep(w)
    BY <1>3
  <2>2. \A v \in Workers : worker'[v].pc # "idle" =>
          worker[v].pc # "idle" /\ worker'[v].cmd = worker[v].cmd
    BY <1>0, <2>1 DEF WorkerStep, ReadClaim, Executed, FinishActivity, FinishCommand,
         AppendTerminalEvent, NoWork, WorkersTyped, WorkerCall
  <2>3. CASE FinishCommand(w)
    <3>1. PICK c \in Commands : c = worker[w].cmd /\ Authorized(c) /\ status[c] # "absent"
      BY <1>0, <2>3 DEF FinishCommand, WorkersTyped, OnlyAuthorizedWork, RowsRemember
    <3>2. Authorized(c)'
      BY <3>1, ConsentStays
    <3>3. \A d \in Commands : RowOK(d)
      BY <1>0, <2>3, <3>1, <3>2 DEF FinishCommand, RowsTyped
    <3> QED BY <1>s, <2>2, <3>3
  <2> QED BY <1>s, <2>1, <2>2, <2>3 DEF WorkerStep, ReadClaim, Executed, FinishActivity,
          AppendTerminalEvent
<1>4. CASE \E o \in Operators : OperatorStep(o)
  <2>1. PICK o \in Operators : OperatorStep(o)
    BY <1>4
  <2>2. worker' = worker
    BY <2>1 DEF OperatorStep, CancelRead, CancelWrite, CancelMark, SubmitReplacement, ReadTokens,
         ConsumeToken, ResumeWrite, ResumeMark
  <2>3. CASE CancelWrite(o)
    BY <1>0, <1>s, <2>2, <2>3 DEF CancelWrite, RowsTyped
  <2>4. ASSUME NEW n \in Commands, SubmitReplacement(o, n) PROVE OnlyAuthorizedWork' /\ RowsRemember'
    <3>1. class[op[o].cmd] \in ApprovalClasses
      BY <1>0, <2>4 DEF SubmitReplacement, OpsTyped, RowsTyped
    <3>2. \A d \in Commands : RowOK(d)
      BY <1>ins, <2>4, <3>1 DEF SubmitReplacement
    <3> QED BY <1>s, <2>2, <3>2
  <2>5. CASE ResumeWrite(o)
    <3>1. PICK c \in Commands :
            /\ c = op[o].cmd /\ class[c] = 2 /\ status[c] # "absent"
            /\ op[o].token # None => ApprovalConsumed(c)
      BY <1>0, <2>5 DEF ResumeWrite, OpsTyped, CallsRemember
    <3>2. (Decision(class[c], op[o].token # None) = "allow") <=> (op[o].token # None)
      <4>1. class[c] \in ApprovalClasses /\ class[c] \notin {0, 1}
        BY <3>1 DEF ApprovalClasses
      <4>2. (op[o].token # None) \in BOOLEAN
        OBVIOUS
      <4>3. (Decision(class[c], op[o].token # None) = "allow") <=>
              (class[c] \in {0, 1} \/ (class[c] = 2 /\ op[o].token # None))
        BY <4>1, <4>2, Allowed, Zenon
      <4> QED BY <3>1, <4>1, <4>3, Zenon
    <3>3. /\ status' = [status EXCEPT ![c] = IF op[o].token # None THEN "queued"
                                                                   ELSE "blocked_approval"]
          /\ UNCHANGED <<class, approvalVars>>
      BY <2>5, <3>1, <3>2 DEF ResumeWrite
    <3>5. op[o].token # None => Authorized(c)'
      <4>1. class'[c] = 2
        BY <3>1, <3>3
      <4>2. ApprovalConsumed(c) => ApprovalConsumed(c)'
        BY ApprovalsStay
      <4>3. Authorized(c)' <=> (class'[c] \in {0, 1} \/ (class'[c] = 2 /\ ApprovalConsumed(c)'))
        BY <1>0, AuthorizedIsNext
      <4> QED BY <3>1, <4>1, <4>2, <4>3
    <3>4. \A d \in Commands : RowOK(d)
      BY <1>0, <3>1, <3>3, <3>5 DEF RowsTyped
    <3> QED BY <1>s, <2>2, <3>4
  <2> QED BY <1>s, <2>1, <2>2, <2>3, <2>4, <2>5 DEF OperatorStep, CancelRead, CancelMark,
          ReadTokens, ConsumeToken, ResumeMark
<1>5. CASE \/ \E w \in Workers : Heartbeat(w) \/ WorkerDies(w)
           \/ \E c \in Commands : LeaseLapses(c)
           \/ \E o \in Operators, c \in Commands : OperatorCall(o, c)
           \/ \E o \in Operators : OperatorDies(o)
           \/ \E t \in Tokens, c \in Commands : Approve(t, c)
           \/ \E t \in Tokens : Expire(t)
           \/ UNCHANGED vars
  <2>1. status' = status
    BY <1>5 DEF Heartbeat, WorkerDies, LeaseLapses, OperatorCall, Cancel, Retry, Requeue, Resume,
         PolicyConsume, Begin, OperatorDies, Approve, Expire
  <2>2. \A v \in Workers : worker'[v].pc # "idle" => worker'[v] = worker[v]
    BY <1>0, <1>5 DEF Heartbeat, WorkerDies, NoWork, LeaseLapses, OperatorCall, Cancel, Retry,
         Requeue, Resume, PolicyConsume, Begin, OperatorDies, Approve, Expire, WorkersTyped
  <2> QED BY <1>s, <2>1, <2>2
<1> QED BY <1>1, <1>2, <1>3, <1>4, <1>5 DEF Next

(* What CallsRemember says of one operator process.                        *)
CallRemembers(o) ==
  /\ op[o].pc # "idle" => status[op[o].cmd] # "absent"
  /\ op[o].kind = "resume" => op[o].pc # "idle" /\ class[op[o].cmd] = 2
  /\ op[o].pc \in {"resume_write", "resume_mark"} => op[o].kind = "resume"
  /\ op[o].pc = "read_tokens" => op[o].token = None
  /\ op[o].pc = "consume" => /\ op[o].token \in Tokens
                             /\ tokenTrace[op[o].token] = op[o].cmd
                             /\ tokenState[op[o].token] # "ungranted"
  /\ op[o].pc = "resume_write" /\ op[o].token # None => ApprovalConsumed(op[o].cmd)

(* A call that does not move in a step remembers what it did.              *)
LEMMA WaitingRemembers ==
  ASSUME Typed, Consent, [Next]_vars, NEW o \in Operators, op'[o] = op[o]
  PROVE  CallRemembers(o)'
<1>1. CallRemembers(o)
  BY DEF Consent, CallsRemember, CallRemembers
<1>2. CASE op[o].pc = "idle"
  BY <1>1, <1>2 DEF CallRemembers
<1>3. CASE op[o].pc # "idle"
  <2>1. PICK c \in Commands : c = op[o].cmd /\ status[c] # "absent"
    BY <1>1, <1>3, TypedParts DEF OpsTyped, CallRemembers
  <2>2. status'[c] # "absent" /\ class'[c] = class[c]
    BY <2>1, CommandsStay
  <2>3. op[o].pc = "consume" => /\ tokenState'[op[o].token] # "ungranted"
                                /\ tokenTrace'[op[o].token] = tokenTrace[op[o].token]
    BY <1>1, ApprovalsStay DEF CallRemembers
  <2>4. ApprovalConsumed(c) => ApprovalConsumed(c)'
    BY ApprovalsStay
  <2>5. (op[o].pc = "resume_write" /\ op[o].token # None) => ApprovalConsumed(c)'
    BY <1>1, <2>1, <2>4 DEF CallRemembers
  <2>6. ApprovalConsumed(op[o].cmd)' <=> ApprovalConsumed(c)'
    BY <2>1 DEF ApprovalConsumed
  <2> QED BY <1>1, <2>1, <2>2, <2>3, <2>5, <2>6 DEF CallRemembers
<1> QED BY <1>2, <1>3

(* A call that has returned has nothing to remember.                       *)
LEMMA ReturnedRemembers ==
  ASSUME Typed, NEW o \in Operators, Return(o)
  PROVE  CallRemembers(o)'
BY TypedParts DEF OpsTyped, Return, NoCall, CallRemembers

(* An operator process that moves on from one step to the next.            *)
LEMMA MovedRemembers ==
  ASSUME Typed, Consent, [Next]_vars, NEW o \in Operators, NEW pc \in OperatorSteps,
         op[o].pc # "idle", pc \notin {"idle", "read_tokens", "consume"}, GoTo(o, pc),
         pc \in {"resume_write", "resume_mark"} => op[o].kind = "resume",
         pc = "resume_write" /\ op[o].token # None => ApprovalConsumed(op[o].cmd)'
  PROVE  CallRemembers(o)'
<1>1. CallRemembers(o)
  BY DEF Consent, CallsRemember, CallRemembers
<1>2. PICK c \in Commands : c = op[o].cmd /\ status[c] # "absent"
  BY <1>1, TypedParts DEF OpsTyped, CallRemembers
<1>3. status'[c] # "absent" /\ class'[c] = class[c]
  BY <1>2, CommandsStay
<1>4. op'[o] = [op[o] EXCEPT !.pc = pc] /\ op[o] \in OpCall
  BY TypedParts DEF OpsTyped, GoTo
<1>5. /\ op'[o].pc = pc /\ op'[o].kind = op[o].kind
      /\ op'[o].cmd = op[o].cmd /\ op'[o].token = op[o].token
  BY <1>4 DEF OpCall
<1>6. ApprovalConsumed(op[o].cmd)' <=> ApprovalConsumed(c)'
  BY <1>2, <1>5 DEF ApprovalConsumed
<1> QED BY <1>1, <1>2, <1>3, <1>5, <1>6 DEF CallRemembers

LEMMA CallsNext ==
  ASSUME Typed, Consent, [Next]_vars
  PROVE  CallsRemember'
<1> SUFFICES ASSUME NEW p \in Operators PROVE CallRemembers(p)'
  BY DEF CallsRemember, CallRemembers
<1>0. /\ RowsTyped /\ OpsTyped /\ ApprovalTypeOK
      /\ CallsRemember /\ RowsRemember
  BY TypedParts DEF Consent
<1>1. CASE op'[p] = op[p]
  BY <1>1, WaitingRemembers
<1>2. CASE Return(p)
  BY <1>2, ReturnedRemembers
<1>3. ASSUME NEW c \in Commands, OperatorCall(p, c) PROVE CallRemembers(p)'
  <2>1. /\ status' = status /\ class' = class /\ UNCHANGED approvalVars
        /\ status[c] # "absent"
        /\ op'[p].cmd = c /\ op'[p].token = None
        /\ \/ op'[p].pc = "read_tokens" /\ op'[p].kind = "policy_consume"
           \/ op'[p].pc = "read_tokens" /\ op'[p].kind = "resume" /\ status[c] = "blocked_approval"
           \/ op'[p].pc \in {"cancel_write", "cancel_read", "submit"} /\ op'[p].kind # "resume"
    BY <1>0, <1>3 DEF OperatorCall, Cancel, Retry, Requeue, Resume, PolicyConsume, Begin, OpsTyped
  <2> QED BY <1>0, <2>1 DEF CallRemembers, RowsRemember
<1>4. ASSUME OperatorStep(p) PROVE CallRemembers(p)'
  <2>0. op[p] \in OpCall /\ op[p].pc # "idle" /\ CallRemembers(p)
    BY <1>0, <1>4 DEF OpsTyped, CallsRemember, CallRemembers, OperatorStep, CancelRead, CancelWrite,
         CancelMark, SubmitReplacement, ReadTokens, ConsumeToken, ResumeWrite, ResumeMark
  <2>1. CASE CancelRead(p) \/ CancelWrite(p) \/ CancelMark(p)
    <3>1. \/ Return(p)
          \/ \E pc \in {"submit", "cancel_write", "cancel_mark"} : GoTo(p, pc)
      BY <2>1 DEF CancelRead, CancelWrite, CancelMark
    <3> QED BY <1>2, <2>0, <3>1, MovedRemembers DEF OperatorSteps
  <2>2. CASE (\E n \in Commands : SubmitReplacement(p, n)) \/ ResumeMark(p)
    BY <1>2, <2>2 DEF SubmitReplacement, ResumeMark
  <2>3. CASE ReadTokens(p)
    <3>1. CASE Return(p)
      BY <1>2, <3>1
    <3>2. CASE op[p].kind = "resume" /\ GoTo(p, "resume_write")
      <4>1. op[p].token = None
        BY <2>0, <2>3 DEF ReadTokens, CallRemembers
      <4> QED BY <2>0, <3>2, <4>1, MovedRemembers DEF OperatorSteps
    <3>3. ASSUME NEW t \in ActiveTokens(op[p].cmd),
                 op' = [op EXCEPT ![p] = [kind |-> op[p].kind, pc |-> "consume",
                                          cmd |-> op[p].cmd, token |-> t]]
          PROVE CallRemembers(p)'
      <4>1. op'[p] = [kind |-> op[p].kind, pc |-> "consume", cmd |-> op[p].cmd, token |-> t]
        BY <1>0, <3>3 DEF OpsTyped
      <4>2. status' = status /\ class' = class /\ UNCHANGED approvalVars
        BY <2>3 DEF ReadTokens
      <4>3. t \in Tokens /\ tokenState[t] = "active" /\ tokenTrace[t] = op[p].cmd
        BY DEF ActiveTokens
      <4> QED BY <2>0, <4>1, <4>2, <4>3 DEF CallRemembers
    <3> QED BY <2>3, <3>1, <3>2, <3>3 DEF ReadTokens
  <2>4. CASE ConsumeToken(p)
    <3>1. CASE Return(p)
      BY <1>2, <3>1
    <3>2. CASE op[p].kind = "resume" /\ GoTo(p, "resume_write")
      <4>1. op'[p].cmd = op[p].cmd
        BY <1>0, <2>0, <3>2 DEF GoTo, OpsTyped, OpCall
      <4>2. /\ op[p].token \in Tokens /\ tokenTrace[op[p].token] = op[p].cmd
            /\ tokenTrace' = tokenTrace
            /\ consumptions'[op[p].token] = consumptions[op[p].token] + 1
            /\ consumptions[op[p].token] \in Nat
        BY <1>0, <2>0, <2>4 DEF ConsumeToken, AppendConsumption, CallRemembers, ApprovalTypeOK
      <4>3. ApprovalConsumed(op[p].cmd)'
        BY <4>1, <4>2 DEF ApprovalConsumed
      <4> QED BY <2>0, <3>2, <4>3, MovedRemembers DEF OperatorSteps
    <3> QED BY <2>4, <3>1, <3>2 DEF ConsumeToken
  <2>5. CASE ResumeWrite(p)
    <3>1. op[p].kind = "resume"
      BY <2>0, <2>5 DEF ResumeWrite, CallRemembers
    <3>2. Return(p) \/ GoTo(p, "resume_mark")
      BY <2>5 DEF ResumeWrite
    <3> QED BY <1>2, <2>0, <3>1, <3>2, MovedRemembers DEF OperatorSteps
  <2> QED BY <1>4, <2>1, <2>2, <2>3, <2>4, <2>5 DEF OperatorStep
<1>5. CASE op' = op
  BY <1>1, <1>5
<1>6. CASE \E o \in Operators, c \in Commands : OperatorCall(o, c)
  BY <1>0, <1>1, <1>3, <1>6 DEF OperatorCall, Cancel, Retry, Requeue, Resume, PolicyConsume,
       Begin, OpsTyped
<1>7. CASE \E o \in Operators : OperatorStep(o)
  <2>1. PICK o \in Operators : OperatorStep(o)
    BY <1>7
  <2>2. o # p => op'[p] = op[p]
    BY <1>0, <2>1 DEF OperatorStep, CancelRead, CancelWrite, CancelMark, SubmitReplacement,
         ReadTokens, ConsumeToken, ResumeWrite, ResumeMark, GoTo, Return, OpsTyped
  <2> QED BY <1>1, <1>4, <2>1, <2>2
<1>8. CASE \E o \in Operators : OperatorDies(o)
  <2>1. PICK o \in Operators : OperatorDies(o)
    BY <1>8
  <2>2. o # p => op'[p] = op[p]
    BY <1>0, <2>1 DEF OperatorDies, OpsTyped
  <2>3. o = p => Return(p)
    BY <2>1 DEF OperatorDies, Return
  <2> QED BY <1>1, <1>2, <2>1, <2>2, <2>3
<1>9. CASE \/ \E c \in Commands, k \in Classes : Submit(c, k)
           \/ \E w \in Workers, wanted \in Commands \cup {None} : Claim(w, wanted)
           \/ \E w \in Workers : Heartbeat(w) \/ WorkerStep(w) \/ WorkerDies(w)
           \/ \E c \in Commands : LeaseLapses(c)
           \/ \E t \in Tokens, c \in Commands : Approve(t, c)
           \/ \E t \in Tokens : Expire(t)
           \/ UNCHANGED vars
  BY <1>5, <1>9 DEF Submit, Claim, Heartbeat, WorkerStep, ReadClaim, Executed, FinishActivity,
       FinishCommand, AppendTerminalEvent, WorkerDies, LeaseLapses, Approve, Expire
<1> QED BY <1>6, <1>7, <1>8, <1>9 DEF Next

LEMMA ConsentNext == Typed /\ Consent /\ [Next]_vars => Consent'
BY RowsNext, CallsNext, ApprovalsStay DEF Consent

LEMMA ConsentHolds == Spec => [](Typed /\ Consent)
<1> QED BY InitTyped, NextTyped, InitConsent, ConsentNext, PTL DEF Spec

(* Nothing is ever queued, claimed, executed or finished without the       *)
(* policy's consent, in all the interleavings of submissions, resumes,     *)
(* cancels, requeues, retries, approvals, workers and crashes.             *)
THEOREM WorkAlwaysAuthorized == Spec => []OnlyAuthorizedWork
<1>1. Typed /\ Consent => OnlyAuthorizedWork
  BY DEF Consent
<1> QED BY <1>1, ConsentHolds, PTL

-----------------------------------------------------------------------------
(* The implementation of ExecutionGate                                     *)

LEMMA InitGate == Init => Gate!Init
BY DEF Init, Gate!Init, Permitted, Executing, NoWork

(* A step that leaves classes, statuses and approvals permits nothing new, *)
(* and whatever the step, what is permitted stays so.                      *)
LEMMA PermittedStays ==
  ASSUME Typed, Consent, [Next]_vars
  PROVE  Permitted \subseteq Permitted'
BY CommandsStay, ConsentStays DEF Permitted

LEMMA PermittedSame ==
  ASSUME Typed, Typed', UNCHANGED <<class, approvalVars>>,
         \A c \in Commands : status'[c] = "absent" <=> status[c] = "absent"
  PROVE  Permitted' = Permitted
BY DEF Permitted, Authorized, ApprovalConsumed

(* A single command can become permitted in a step.                        *)
LEMMA PermittedGrows ==
  ASSUME Typed, Consent, [Next]_vars, NEW c \in Commands,
         \A d \in Commands \ {c} : /\ status'[d] = "absent" <=> status[d] = "absent"
                                   /\ class'[d] = class[d]
                                   /\ ApprovalConsumed(d)' => ApprovalConsumed(d)
  PROVE  Permitted' \in {Permitted, Permitted \cup {c}}
<1>1. Permitted \subseteq Permitted'
  BY PermittedStays
<1>2. ASSUME NEW d \in Commands \ {c}, d \in Permitted' PROVE d \in Permitted
  <2>1. Typed'
    BY NextTyped
  <2>2. status'[d] # "absent" /\ Authorized(d)'
    BY <1>2 DEF Permitted
  <2>3. Authorized(d)
    BY <1>2, <2>1, <2>2, AuthorizedIs, AuthorizedIsNext
  <2> QED BY <1>2, <2>2, <2>3 DEF Permitted
<1>3. Permitted \subseteq Commands /\ Permitted' \subseteq Commands
  BY DEF Permitted
<1> QED BY <1>1, <1>2, <1>3

LEMMA GateNext ==
  Typed /\ Consent /\ [Next]_vars => [Gate!Next]_<<Permitted, Executing>>
<1> SUFFICES ASSUME Typed, Consent, [Next]_vars
             PROVE  Gate!Next \/ UNCHANGED <<Permitted, Executing>>
  BY DEF Gate!Next
<1>0. /\ RowsTyped /\ WorkersTyped /\ OpsTyped /\ ApprovalTypeOK /\ Typed'
      /\ OnlyAuthorizedWork /\ RowsRemember /\ CallsRemember
  BY TypedParts, NextTyped DEF Consent
<1>permit. ASSUME NEW c \in Commands, Executing' = Executing,
                  Permitted' \in {Permitted, Permitted \cup {c}}
           PROVE  Gate!Next \/ UNCHANGED <<Permitted, Executing>>
  BY <1>permit DEF Gate!Next, Gate!Permit
<1>1. CASE \E c \in Commands, k \in Classes : Submit(c, k)
  <2>1. PICK c \in Commands, k \in Classes : Submit(c, k)
    BY <1>1
  <2>2. Executing' = Executing
    BY <2>1 DEF Submit, Executing
  <2>3. Permitted' \in {Permitted, Permitted \cup {c}}
    BY <1>0, <2>1, PermittedGrows DEF Submit, Insert, RowsTyped, ApprovalConsumed
  <2> QED BY <1>permit, <2>2, <2>3
<1>2. CASE \E w \in Workers, wanted \in Commands \cup {None} : Claim(w, wanted)
  <2>1. Executing' = Executing
    BY <1>0, <1>2 DEF Claim, Executing, WorkersTyped
  <2>2. Permitted' = Permitted
    BY <1>0, <1>2, PermittedSame DEF Claim, ClaimableBy, Claimable, RowsTyped
  <2> QED BY <2>1, <2>2
<1>3. ASSUME NEW w \in Workers, WorkerStep(w) \/ WorkerDies(w)
      PROVE  Gate!Next \/ UNCHANGED <<Permitted, Executing>>
  <2>0. worker[w].pc # "idle" /\ worker[w].cmd \in Commands /\ status[worker[w].cmd] # "absent"
    BY <1>0, <1>3 DEF WorkersTyped, RowsRemember, WorkerStep, ReadClaim, Executed, FinishActivity,
         FinishCommand, AppendTerminalEvent, WorkerDies
  <2>1. Permitted' = Permitted
    BY <1>0, <1>3, <2>0, PermittedSame DEF WorkerStep, ReadClaim, Executed, FinishActivity,
       FinishCommand, AppendTerminalEvent, WorkerDies, RowsTyped
  <2>2. \A v \in Workers \ {w} : worker'[v] = worker[v]
    BY <1>0, <1>3 DEF WorkerStep, ReadClaim, Executed, FinishActivity, FinishCommand,
       AppendTerminalEvent, WorkerDies, WorkersTyped
  <2>3. CASE worker'[w].pc # "executing"
    <3>1. \/ Executing' = Executing
          \/ Executing' = [Executing EXCEPT ![w] = None]
      BY <2>2, <2>3 DEF Executing
    <3> QED BY <2>1, <3>1 DEF Gate!Next, Gate!Stop
  <2>4. CASE worker'[w].pc = "executing"
    <3>1. ReadClaim(w) /\ worker'[w].cmd = worker[w].cmd
      BY <1>0, <1>3, <2>4 DEF WorkerStep, ReadClaim, Executed, FinishActivity, FinishCommand,
           AppendTerminalEvent, WorkerDies, NoWork, WorkersTyped, WorkerCall
    <3>2. Executing' = [Executing EXCEPT ![w] = worker[w].cmd] /\ Executing[w] = None
      <4>1. worker[w].pc = "claimed"
        BY <3>1 DEF ReadClaim
      <4>2. Executing' = [v \in Workers |-> IF v = w THEN worker[w].cmd ELSE Executing[v]]
        BY <2>2, <2>4, <3>1 DEF Executing
      <4> QED BY <4>1, <4>2 DEF Executing
    <3>3. worker[w].cmd \in Permitted
      BY <1>0, <2>0 DEF Permitted, OnlyAuthorizedWork
    <3> QED BY <2>0, <2>1, <3>2, <3>3 DEF Gate!Next, Gate!Start
  <2> QED BY <2>3, <2>4
<1>4. ASSUME NEW o \in Operators, OperatorStep(o)
      PROVE  Gate!Next \/ UNCHANGED <<Permitted, Executing>>
  <2>0. /\ Executing' = Executing
        /\ op[o].cmd \in Commands /\ status[op[o].cmd] # "absent"
    BY <1>0, <1>4 DEF OperatorStep, CancelRead, CancelWrite, CancelMark, SubmitReplacement,
         ReadTokens, ConsumeToken, ResumeWrite, ResumeMark, Executing, OpsTyped, CallsRemember
  <2>1. ASSUME NEW n \in Commands, SubmitReplacement(o, n)
        PROVE  Permitted' \in {Permitted, Permitted \cup {n}}
    BY <1>0, <2>1, PermittedGrows DEF SubmitReplacement, Insert, RowsTyped, ApprovalConsumed
  <2>2. CASE ConsumeToken(o)
    <3>1. /\ op[o].token \in Tokens /\ tokenTrace[op[o].token] = op[o].cmd
          /\ status' = status /\ class' = class /\ tokenTrace' = tokenTrace
          /\ consumptions' = [consumptions EXCEPT ![op[o].token] = @ + 1]
      BY <1>0, <2>2 DEF ConsumeToken, AppendConsumption, CallsRemember
    <3>2. \A d \in Commands \ {op[o].cmd} : ApprovalConsumed(d)' => ApprovalConsumed(d)
      BY <1>0, <3>1 DEF ApprovalConsumed, ApprovalTypeOK
    <3>3. Permitted' \in {Permitted, Permitted \cup {op[o].cmd}}
      BY <2>0, <3>1, <3>2, PermittedGrows
    <3> QED BY <1>permit, <2>0, <3>3
  <2>3. CASE CancelWrite(o) \/ ResumeWrite(o)
    <3>1. Permitted' = Permitted
      BY <1>0, <2>0, <2>3, PermittedSame DEF CancelWrite, ResumeWrite, RowsTyped
    <3> QED BY <2>0, <3>1
  <2>4. CASE CancelRead(o) \/ CancelMark(o) \/ ReadTokens(o) \/ ResumeMark(o)
    <3>1. Permitted' = Permitted
      BY <1>0, <2>4, PermittedSame DEF CancelRead, CancelMark, ReadTokens, ResumeMark
    <3> QED BY <2>0, <3>1
  <2> QED BY <1>4, <1>permit, <2>0, <2>1, <2>2, <2>3, <2>4 DEF OperatorStep
<1>5. CASE \E t \in Tokens, c \in Commands : Approve(t, c)
  <2>1. PICK t \in Tokens, c \in Commands : Approve(t, c)
    BY <1>5
  <2>2. Executing' = Executing /\ status' = status /\ class' = class
    BY <2>1 DEF Approve, Executing
  <2>3. \A d \in Commands \ {c} : ApprovalConsumed(d)' => ApprovalConsumed(d)
    BY <1>0, <2>1 DEF Approve, ApprovePendingTrace, ApproveTrace, ApprovalConsumed, ApprovalTypeOK
  <2>4. Permitted' \in {Permitted, Permitted \cup {c}}
    BY <2>2, <2>3, PermittedGrows
  <2> QED BY <1>permit, <2>2, <2>4
<1>6. CASE \E t \in Tokens : Expire(t)
  <2>1. /\ Executing' = Executing /\ status' = status /\ class' = class
        /\ tokenTrace' = tokenTrace /\ consumptions' = consumptions
    BY <1>6 DEF Expire, TokenExpires, Executing
  <2>2. Permitted' = Permitted
    BY <2>1 DEF Permitted, Authorized, ApprovalConsumed
  <2> QED BY <2>1, <2>2
<1>7. CASE \/ \E w \in Workers : Heartbeat(w)
           \/ \E c \in Commands : LeaseLapses(c)
           \/ \E o \in Operators, c \in Commands : OperatorCall(o, c)
           \/ \E o \in Operators : OperatorDies(o)
           \/ UNCHANGED vars
  <2>1. UNCHANGED <<status, class, worker, approvalVars>>
    BY <1>7 DEF Heartbeat, LeaseLapses, OperatorCall, Cancel, Retry, Requeue, Resume,
         PolicyConsume, Begin, OperatorDies
  <2> QED BY <2>1 DEF Permitted, Authorized, ApprovalConsumed, Executing
<1> QED BY <1>1, <1>2, <1>3, <1>4, <1>5, <1>6, <1>7 DEF Next

(* The command store, with its workers, operators and crashes, implements  *)
(* the abstract gate: workers start only what is permitted, and what is    *)
(* permitted is never taken back.                                          *)
THEOREM StoreImplementsGate == Spec => ImplementsGate
<1> QED BY InitGate, ConsentHolds, GateNext, PTL DEF Spec, ImplementsGate, Gate!Spec

-----------------------------------------------------------------------------
(* The end of work                                                         *)

(* No step takes a class 0 or 1 command out of its terminal status: only a *)
(* resume writes a status that is not terminal without a look at the row,  *)
(* and a resume is of a class-2 command.                                   *)
LEMMA EndedStep ==
  ASSUME Typed, Consent, [Next]_vars,
         NEW c \in Commands, class[c] <= 1, status[c] \in Terminal
  PROVE  status'[c] \in Terminal
<1> USE DEF Terminal
<1>0. RowsTyped /\ OpsTyped /\ CallsRemember /\ class[c] # 2
  BY TypedParts DEF Consent, RowsTyped, ApprovalClasses
<1>1. ASSUME NEW d \in Commands, NEW k, NEW src, Insert(d, k, src)
      PROVE  status'[c] = status[c]
  BY <1>0, <1>1 DEF Insert, RowsTyped
<1>2. CASE \E d \in Commands, k \in Classes : Submit(d, k)
  BY <1>1, <1>2 DEF Submit
<1>3. CASE \E w \in Workers, wanted \in Commands \cup {None} : Claim(w, wanted)
  BY <1>0, <1>3 DEF Claim, ClaimableBy, Claimable, RowsTyped
<1>4. CASE \E w \in Workers : Heartbeat(w) \/ WorkerStep(w) \/ WorkerDies(w)
  BY <1>0, <1>4 DEF Heartbeat, WorkerStep, WorkerDies, ReadClaim, Executed, FinishActivity,
       FinishCommand, AppendTerminalEvent, RowsTyped
<1>5. ASSUME NEW o \in Operators, OperatorStep(o) PROVE status'[c] \in Terminal
  <2>1. CASE CancelWrite(o)
    BY <1>0, <2>1 DEF CancelWrite, RowsTyped
  <2>2. ASSUME NEW n \in Commands, SubmitReplacement(o, n) PROVE status'[c] \in Terminal
    BY <1>1, <2>2 DEF SubmitReplacement
  <2>3. CASE ResumeWrite(o)
    <3>1. class[op[o].cmd] = 2
      BY <1>0, <2>3 DEF ResumeWrite, CallsRemember
    <3> QED BY <1>0, <2>3, <3>1 DEF ResumeWrite, RowsTyped
  <2> QED BY <1>5, <2>1, <2>2, <2>3 DEF OperatorStep, CancelRead, CancelMark, ReadTokens,
          ConsumeToken, ResumeMark
<1>6. CASE \/ \E d \in Commands : LeaseLapses(d)
           \/ \E o \in Operators, d \in Commands : OperatorCall(o, d)
           \/ \E o \in Operators : OperatorDies(o)
           \/ \E t \in Tokens, d \in Commands : Approve(t, d)
           \/ \E t \in Tokens : Expire(t)
           \/ UNCHANGED vars
  BY <1>6 DEF LeaseLapses, OperatorCall, Cancel, Retry, Requeue, Resume, PolicyConsume, Begin,
       OperatorDies, Approve, Expire
<1> QED BY <1>2, <1>3, <1>4, <1>5, <1>6 DEF Next

(* Class 0 and 1 work that ended stays ended, whatever calls and stale     *)
(* workers were under way when it did.                                     *)
THEOREM EndedAlwaysEnded == Spec => EndedStaysEnded
<1>1. Typed /\ Consent /\ [Next]_vars =>
        [\A c \in Commands :
           class[c] <= 1 /\ status[c] \in Terminal => status'[c] \in Terminal]_vars
  BY EndedStep
<1> QED BY <1>1, ConsentHolds, PTL DEF Spec, EndedStaysEnded

(* A call about to mark or to replace a class 0 or 1 command ended it, or  *)
(* found it ended; a replacement has the class of its source.              *)
ReplacementsFollow ==
  /\ \A o \in Operators :
       op[o].pc \in {"cancel_mark", "submit"} /\ class[op[o].cmd] <= 1 =>
         status[op[o].cmd] \in Terminal
  /\ \A c \in Commands :
       source[c] # None => /\ status[c] # "absent" /\ status[source[c]] # "absent"
                           /\ class[c] = class[source[c]]

LEMMA InitReplaced == Init => ReplacementsFollow /\ ReplacedSourceIsEnded
BY DEF Init, ReplacementsFollow, ReplacedSourceIsEnded, NoCall

(* The calls that reach cancel_mark or submit in a step.                   *)
LEMMA MarkingEnded ==
  ASSUME Typed, Consent, ReplacementsFollow, [Next]_vars, NEW o \in Operators,
         op'[o].pc \in {"cancel_mark", "submit"}, class'[op'[o].cmd] <= 1
  PROVE  status'[op'[o].cmd] \in Terminal
<1>0. /\ RowsTyped /\ OpsTyped /\ CallsRemember /\ Typed'
  BY TypedParts, NextTyped DEF Consent
<1>1. CASE op'[o] = op[o]
  <2>1. PICK c \in Commands : c = op[o].cmd /\ status[c] # "absent"
    BY <1>0, <1>1 DEF OpsTyped, CallsRemember
  <2>2. class[c] <= 1 /\ status[c] \in Terminal
    BY <1>1, <2>1, CommandsStay DEF ReplacementsFollow
  <2> QED BY <1>1, <2>1, <2>2, EndedStep
<1>2. ASSUME NEW c \in Commands, OperatorCall(o, c) PROVE status'[op'[o].cmd] \in Terminal
  <2>1. op'[o].cmd = c /\ status' = status /\ op'[o].pc = "submit" => status[c] \in Terminal
    BY <1>0, <1>2 DEF OperatorCall, Cancel, Retry, Requeue, Resume, PolicyConsume, Begin, OpsTyped,
         Terminal
  <2>2. op'[o].cmd = c /\ status' = status /\ op'[o].pc # "cancel_mark"
    BY <1>0, <1>2 DEF OperatorCall, Cancel, Retry, Requeue, Resume, PolicyConsume, Begin, OpsTyped
  <2> QED BY <2>1, <2>2
<1>3. CASE OperatorStep(o)
  <2>0. op[o] \in OpCall /\ op[o].cmd \in Commands /\ status[op[o].cmd] # "absent"
    BY <1>0, <1>3 DEF OpsTyped, OpCall, OperatorStep, CancelRead, CancelWrite, CancelMark,
         SubmitReplacement, ReadTokens, ConsumeToken, ResumeWrite, ResumeMark, CallsRemember
  <2>1. CASE CancelRead(o)
    BY <1>0, <2>0, <2>1 DEF CancelRead, GoTo, OpsTyped, OpCall
  <2>2. CASE CancelWrite(o)
    BY <1>0, <2>0, <2>2 DEF CancelWrite, GoTo, OpsTyped, OpCall, RowsTyped, Terminal
  <2>3. CASE CancelMark(o)
    BY <1>0, <2>0, <2>3 DEF CancelMark, GoTo, Return, NoCall, OpsTyped, OpCall, ReplacementsFollow
  <2>4. CASE ReadTokens(o)
    BY <1>0, <2>0, <2>4 DEF ReadTokens, GoTo, Return, NoCall, OpsTyped, OpCall
  <2>5. CASE ConsumeToken(o) \/ ResumeWrite(o) \/ ResumeMark(o)
    BY <1>0, <2>0, <2>5 DEF ConsumeToken, ResumeWrite, ResumeMark, GoTo, Return, NoCall, OpsTyped,
         OpCall
  <2>6. CASE \E n \in Commands : SubmitReplacement(o, n)
    BY <1>0, <2>0, <2>6 DEF SubmitReplacement, Return, NoCall, OpsTyped
  <2> QED BY <1>3, <2>1, <2>2, <2>3, <2>4, <2>5, <2>6 DEF OperatorStep
<1>4. CASE \E p \in Operators : OperatorDies(p)
  BY <1>0, <1>1, <1>4 DEF OperatorDies, NoCall, OpsTyped
<1>5. CASE \E p \in Operators, c \in Commands : OperatorCall(p, c)
  BY <1>0, <1>1, <1>2, <1>5 DEF OperatorCall, Cancel, Retry, Requeue, Resume, PolicyConsume,
       Begin, OpsTyped
<1>6. CASE \E p \in Operators : OperatorStep(p)
  BY <1>0, <1>1, <1>3, <1>6 DEF OperatorStep, CancelRead, CancelWrite, CancelMark,
       SubmitReplacement, ReadTokens, ConsumeToken, ResumeWrite, ResumeMark, GoTo, Return, OpsTyped
<1>7. CASE \/ \E c \in Commands, k \in Classes : Submit(c, k)
           \/ \E w \in Workers, wanted \in Commands \cup {None} : Claim(w, wanted)
           \/ \E w \in Workers : Heartbeat(w) \/ WorkerStep(w) \/ WorkerDies(w)
           \/ \E c \in Commands : LeaseLapses(c)
           \/ \E t \in Tokens, c \in Commands : Approve(t, c)
           \/ \E t \in Tokens : Expire(t)
           \/ UNCHANGED vars
  BY <1>1, <1>7 DEF Submit, Claim, Heartbeat, WorkerStep, ReadClaim, Executed, FinishActivity,
       FinishCommand, AppendTerminalEvent, WorkerDies, LeaseLapses, Approve, Expire
<1> QED BY <1>4, <1>5, <1>6, <1>7 DEF Next

LEMMA ReplacedNext ==
  Typed /\ Consent /\ ReplacementsFollow /\ ReplacedSourceIsEnded /\ [Next]_vars
    => (ReplacementsFollow /\ ReplacedSourceIsEnded)'
<1> SUFFICES ASSUME Typed, Consent, ReplacementsFollow, ReplacedSourceIsEnded, [Next]_vars
             PROVE  ReplacementsFollow' /\ ReplacedSourceIsEnded'
  OBVIOUS
<1> DEFINE Follows(c) == source'[c] # None =>
             /\ status'[c] # "absent" /\ status'[source'[c]] # "absent"
             /\ class'[c] = class'[source'[c]]
             /\ class'[c] <= 1 => status'[source'[c]] \in Terminal
<1>0. RowsTyped /\ OpsTyped /\ CallsRemember /\ None \notin Commands
  BY TypedParts, NoneAssumption, CommandsAssumption DEF Consent
<1>1. \A o \in Operators :
        op'[o].pc \in {"cancel_mark", "submit"} /\ class'[op'[o].cmd] <= 1 =>
          status'[op'[o].cmd] \in Terminal
  BY MarkingEnded
<1>2. ASSUME NEW c \in Commands, source'[c] = source[c] PROVE Follows(c)
  <2> SUFFICES ASSUME source[c] # None PROVE Follows(c)
    BY <1>2
  <2>1. source[c] \in Commands /\ status[c] # "absent" /\ status[source[c]] # "absent"
        /\ class[c] = class[source[c]]
        /\ (class[c] <= 1 => status[source[c]] \in Terminal)
    BY <1>0 DEF RowsTyped, ReplacementsFollow, ReplacedSourceIsEnded
  <2>2. /\ status'[c] # "absent" /\ class'[c] = class[c]
        /\ status'[source[c]] # "absent" /\ class'[source[c]] = class[source[c]]
    BY <2>1, CommandsStay
  <2>3. class[c] <= 1 => status'[source[c]] \in Terminal
    BY <2>1, EndedStep
  <2> QED BY <1>2, <2>1, <2>2, <2>3
<1>3. ASSUME NEW n \in Commands, NEW k \in ApprovalClasses, Insert(n, k, None), NEW c \in Commands
      PROVE  Follows(c)
  <2>1. c = n => source'[c] = None
    BY <1>0, <1>3 DEF Insert, RowsTyped
  <2>2. c # n => source'[c] = source[c]
    BY <1>0, <1>3 DEF Insert, RowsTyped
  <2> QED BY <1>2, <2>1, <2>2
<1>4. ASSUME NEW o \in Operators, NEW n \in Commands, SubmitReplacement(o, n), NEW c \in Commands
      PROVE  Follows(c)
  <2>1. PICK d \in Commands :
          d = op[o].cmd /\ status[d] # "absent" /\ Insert(n, class[d], d)
          /\ (class[d] <= 1 => status[d] \in Terminal)
    BY <1>0, <1>4 DEF SubmitReplacement, OpsTyped, CallsRemember, ReplacementsFollow
  <2>2. CASE c = n
    <3>1. /\ d # n /\ source'[n] = d /\ class'[n] = class[d] /\ class'[d] = class[d]
          /\ status'[d] = status[d] /\ status'[n] = InitialStatus(class[d])
      BY <1>0, <2>1 DEF Insert, RowsTyped
    <3>2. status'[n] # "absent"
      BY <3>1 DEF InitialStatus
    <3> QED BY <2>1, <2>2, <3>1, <3>2
  <2>3. CASE c # n
    BY <1>0, <1>2, <2>1, <2>3 DEF Insert, RowsTyped
  <2> QED BY <2>2, <2>3
<1>5. \A c \in Commands : Follows(c)
  <2>1. CASE \E n \in Commands, k \in Classes : Submit(n, k)
    BY <1>3, <2>1, ClassesAssumption DEF Submit
  <2>2. CASE \E w \in Workers, wanted \in Commands \cup {None} : Claim(w, wanted)
    BY <1>2, <2>2 DEF Claim
  <2>3. CASE \E w \in Workers : Heartbeat(w) \/ WorkerStep(w) \/ WorkerDies(w)
    BY <1>2, <2>3 DEF Heartbeat, WorkerStep, ReadClaim, Executed, FinishActivity, FinishCommand,
         AppendTerminalEvent, WorkerDies
  <2>4. CASE \E o \in Operators : OperatorStep(o)
    BY <1>2, <1>4, <2>4 DEF OperatorStep, CancelRead, CancelWrite, CancelMark, ReadTokens,
         ConsumeToken, ResumeWrite, ResumeMark
  <2>5. CASE \/ \E c \in Commands : LeaseLapses(c)
             \/ \E o \in Operators, c \in Commands : OperatorCall(o, c)
             \/ \E o \in Operators : OperatorDies(o)
             \/ \E t \in Tokens, c \in Commands : Approve(t, c)
             \/ \E t \in Tokens : Expire(t)
             \/ UNCHANGED vars
    BY <1>2, <2>5 DEF LeaseLapses, OperatorCall, Cancel, Retry, Requeue, Resume, PolicyConsume,
         Begin, OperatorDies, Approve, Expire
  <2> QED BY <2>1, <2>2, <2>3, <2>4, <2>5 DEF Next
<1> QED BY <1>1, <1>5 DEF ReplacementsFollow, ReplacedSourceIsEnded

(* Once a retry or a requeue of a class 0 or 1 command submitted its       *)
(* replacement, the source can never be claimed again, for any number of   *)
(* operator processes racing each other and the workers.                   *)
THEOREM ReplacedAlwaysEnded == Spec => []ReplacedSourceIsEnded
<1> QED BY InitReplaced, ReplacedNext, ConsentHolds, PTL DEF Spec

-----------------------------------------------------------------------------
(* The life of a lease                                                     *)

AtWork == {"claimed", "executing", "finish_activity", "finish_command"}

(* A worker releases the lease before it ledgers the end, a worker that    *)
(* never stalled holds a live lease on what it works on, a command that    *)
(* ended by a worker is leased to nobody.                                  *)
LeaseLife ==
  /\ \A w \in Workers :
       /\ worker[w].pc = "idle" => worker[w].cmd = None
       /\ worker[w].pc = "ledger" => leaseOwner[worker[w].cmd] # w
       /\ stalls = 0 /\ worker[w].pc \in AtWork =>
            leaseOwner[worker[w].cmd] = w /\ leaseUntil[worker[w].cmd] = "live"
  /\ \A c \in Commands :
       /\ status[c] \in {"completed", "failed"} => leaseOwner[c] = None
       /\ crashes = 0 /\ stalls = 0 /\ status[c] = "running" => leaseUntil[c] = "live"

Leases == LeaseLife /\ LiveLeaseIsWorked

LEMMA InitLeases == Init => Leases
BY DEF Init, Leases, LeaseLife, LiveLeaseIsWorked, NoWork, AtWork

LEMMA LeasesNext == Typed /\ Consent /\ Leases /\ [Next]_vars => Leases'
<1> SUFFICES ASSUME Typed, Consent, Leases, [Next]_vars
             PROVE  Leases'
  OBVIOUS
<1> USE DEF Leases, LeaseLife, LiveLeaseIsWorked, HolderAtWork, AtWork
<1>0. /\ RowsTyped /\ WorkersTyped /\ FaultsTyped /\ RowsRemember
      /\ None \notin Workers /\ None \notin Commands
  BY TypedParts, WorkersAssumption, NoneAssumption, CommandsAssumption DEF Consent
<1>00. /\ crashes \in Nat /\ stalls \in Nat
       /\ \A w \in Workers : worker[w] \in WorkerCall
  BY <1>0, BoundsAssumption DEF FaultsTyped, WorkersTyped
<1>1. ASSUME NEW c \in Commands, NEW k, NEW src, Insert(c, k, src),
             UNCHANGED <<worker, crashes, stalls>>
      PROVE  Leases'
  BY <1>0, <1>1 DEF Insert, InitialStatus, RowsTyped, RowsRemember
<1>2. ASSUME NEW w \in Workers, NEW wanted \in Commands \cup {None}, Claim(w, wanted)
      PROVE  Leases'
  <2>1. PICK c \in Commands :
          /\ leaseUntil[c] \in {"null", "expired"}
          /\ status' = [status EXCEPT ![c] = "running"]
          /\ leaseOwner' = [leaseOwner EXCEPT ![c] = w]
          /\ leaseUntil' = [leaseUntil EXCEPT ![c] = "live"]
          /\ worker' = [worker EXCEPT ![w] = [pc |-> "claimed", cmd |-> c, ok |-> FALSE]]
    BY <1>2 DEF Claim, ClaimableBy, Claimable
  <2>2. worker[w].pc = "idle" /\ UNCHANGED <<crashes, stalls>>
    BY <1>2 DEF Claim
  <2>3. LeaseLife'
    BY <1>0, <2>1, <2>2 DEF RowsTyped, WorkersTyped
  <2>4. LiveLeaseIsWorked'
    BY <1>0, <2>1, <2>2 DEF RowsTyped, WorkersTyped
  <2> QED BY <2>3, <2>4
<1>3. ASSUME NEW w \in Workers, Heartbeat(w) PROVE Leases'
  BY <1>0, <1>3 DEF Heartbeat, RowsTyped, WorkersTyped
<1>4. ASSUME NEW w \in Workers, WorkerStep(w) PROVE Leases'
  <2>1. CASE ReadClaim(w)
    BY <1>0, <1>00, <2>1 DEF ReadClaim, WorkersTyped, WorkerCall
  <2>2. ASSUME NEW ok \in BOOLEAN, Executed(w, ok) PROVE Leases'
    BY <1>0, <2>2 DEF Executed, WorkersTyped
  <2>3. CASE FinishActivity(w)
    BY <1>0, <1>00, <2>3 DEF FinishActivity, WorkersTyped, WorkerCall
  <2>4. CASE FinishCommand(w)
    BY <1>0, <1>00, <2>4 DEF FinishCommand, RowsTyped, WorkersTyped, WorkerCall
  <2>5. CASE AppendTerminalEvent(w)
    BY <1>0, <2>5 DEF AppendTerminalEvent, WorkersTyped, NoWork
  <2> QED BY <1>4, <2>1, <2>2, <2>3, <2>4, <2>5 DEF WorkerStep
<1>5. ASSUME NEW w \in Workers, WorkerDies(w) PROVE Leases'
  BY <1>0, <1>00, <1>5 DEF WorkerDies, WorkersTyped, NoWork
<1>6. ASSUME NEW c \in Commands, LeaseLapses(c) PROVE Leases'
  BY <1>0, <1>00, <1>6 DEF LeaseLapses, RowsTyped, WorkersTyped
<1>7. ASSUME NEW o \in Operators, OperatorStep(o) PROVE Leases'
  <2>1. CASE CancelWrite(o)
    BY <1>0, <2>1 DEF CancelWrite, RowsTyped
  <2>2. ASSUME NEW n \in Commands, SubmitReplacement(o, n) PROVE Leases'
    BY <1>1, <2>2 DEF SubmitReplacement
  <2>3. CASE ResumeWrite(o)
    BY <1>0, <2>3 DEF ResumeWrite, RowsTyped
  <2> QED BY <1>7, <2>1, <2>2, <2>3 DEF OperatorStep, CancelRead, CancelMark, ReadTokens,
          ConsumeToken, ResumeMark
<1>8. CASE \E c \in Commands, k \in Classes : Submit(c, k)
  BY <1>1, <1>8 DEF Submit
<1>9. CASE \/ \E o \in Operators, c \in Commands : OperatorCall(o, c)
           \/ \E t \in Tokens, c \in Commands : Approve(t, c)
           \/ \E t \in Tokens : Expire(t)
           \/ UNCHANGED vars
  BY <1>9 DEF OperatorCall, Cancel, Retry, Requeue, Resume, PolicyConsume, Begin, Approve, Expire
<1>10. CASE \E o \in Operators : OperatorDies(o)
  BY <1>00, <1>10 DEF OperatorDies
<1> QED BY <1>2, <1>3, <1>4, <1>5, <1>6, <1>7, <1>8, <1>9, <1>10 DEF Next
(* While no process died a lease on a running command is worked under: the *)
(* queue never waits for the lease of a worker that moved on, for any      *)
(* number of workers, stalls and operator calls.                           *)
THEOREM LiveLeaseAlwaysWorked == Spec => []LiveLeaseIsWorked
<1>1. Typed /\ Consent /\ Leases /\ [Next]_vars => Leases'
  BY LeasesNext
<1> QED BY <1>1, InitLeases, ConsentHolds, PTL DEF Spec, Leases

-----------------------------------------------------------------------------
(* The life of an activity                                                 *)

(* The activity of a class 0 or 1 command only goes forward: it waits with *)
(* the command, is started by a claim and then runs or has ended.  Those   *)
(* commands are never queued again, and a call that is about to mark their *)
(* activity found them ended (ReplacementsFollow).                         *)
ActivityLife ==
  /\ \A c \in Commands :
       /\ status[c] # "absent" => activity[c] # "absent"
       /\ activity[c] = "running" => attempts[c] >= 1
       /\ class[c] <= 1 => activity[c] # "blocked"
       /\ class[c] <= 1 /\ status[c] = "queued" => activity[c] = "queued"
  /\ \A w \in Workers :
       /\ worker[w].pc = "executing" => attempts[worker[w].cmd] >= 1
       /\ worker[w].pc # "idle" /\ class[worker[w].cmd] <= 1 =>
            status[worker[w].cmd] \in {"running"} \cup Terminal
       /\ worker[w].pc = "claimed" /\ class[worker[w].cmd] <= 1 =>
            activity[worker[w].cmd] \in {"running"} \cup Terminal

Calls == Typed /\ Consent /\ ReplacementsFollow

LEMMA InitActivities == Init => ActivityLife
BY DEF Init, ActivityLife, NoWork

LEMMA ActivitiesNext == Calls /\ ActivityLife /\ [Next]_vars => ActivityLife'
<1> SUFFICES ASSUME Calls, ActivityLife, [Next]_vars
             PROVE  ActivityLife'
  OBVIOUS
<1> USE DEF ActivityLife, Terminal
<1>0. /\ RowsTyped /\ WorkersTyped /\ OpsTyped /\ RowsRemember /\ CallsRemember
      /\ ReplacementsFollow /\ None \notin Commands
      /\ \A w \in Workers : worker[w] \in WorkerCall
      /\ \A c \in Commands : attempts[c] \in Nat
  BY TypedParts, NoneAssumption, CommandsAssumption DEF Calls, Consent, WorkersTyped, RowsTyped
<1>1. ASSUME NEW c \in Commands, NEW k \in ApprovalClasses, NEW src, Insert(c, k, src),
             UNCHANGED worker
      PROVE  ActivityLife'
  <2>1. /\ activity'[c] \in {"queued", "blocked"}
        /\ status'[c] = "queued" => activity'[c] = "queued"
        /\ class'[c] <= 1 => activity'[c] = "queued"
    BY <1>0, <1>1 DEF Insert, InitialStatus, ActivityStatusFor, Decision, ApprovalClasses, RowsTyped
  <2> QED BY <1>0, <1>1, <2>1 DEF Insert, RowsTyped, RowsRemember, WorkersTyped
<1>2. ASSUME NEW w \in Workers, NEW wanted \in Commands \cup {None}, Claim(w, wanted)
      PROVE  ActivityLife'
  <2>1. PICK c \in Commands :
          /\ status[c] \in {"queued", "running"}
          /\ status' = [status EXCEPT ![c] = "running"]
          /\ StartAttempt(c)
          /\ worker' = [worker EXCEPT ![w] = [pc |-> "claimed", cmd |-> c, ok |-> FALSE]]
    BY <1>2 DEF Claim, ClaimableBy, Claimable
  <2>2. class' = class
    BY <1>2 DEF Claim
  <2>3. activity[c] # "absent" /\ (class[c] <= 1 => activity[c] # "blocked")
    BY <1>0, <2>1
  <2> QED BY <1>0, <2>1, <2>2, <2>3 DEF StartAttempt, RowsTyped, WorkersTyped, ActivityStatus
<1>3. ASSUME NEW w \in Workers, WorkerStep(w) PROVE ActivityLife'
  <2>1. CASE ReadClaim(w)
    BY <1>0, <2>1 DEF ReadClaim, WorkersTyped, WorkerCall
  <2>2. ASSUME NEW ok \in BOOLEAN, Executed(w, ok) PROVE ActivityLife'
    BY <1>0, <2>2 DEF Executed, WorkersTyped
  <2>3. CASE FinishActivity(w)
    BY <1>0, <2>3 DEF FinishActivity, RowsTyped, WorkersTyped, WorkerCall
  <2>4. CASE FinishCommand(w)
    BY <1>0, <2>4 DEF FinishCommand, RowsTyped, RowsRemember, WorkersTyped, WorkerCall
  <2>5. CASE AppendTerminalEvent(w)
    BY <1>0, <2>5 DEF AppendTerminalEvent, WorkersTyped, NoWork
  <2> QED BY <1>3, <2>1, <2>2, <2>3, <2>4, <2>5 DEF WorkerStep
<1>4. ASSUME NEW w \in Workers, WorkerDies(w) PROVE ActivityLife'
  BY <1>0, <1>4 DEF WorkerDies, WorkersTyped, NoWork
<1>5. ASSUME NEW o \in Operators, OperatorStep(o) PROVE ActivityLife'
  <2>1. CASE CancelWrite(o)
    <3>1. op[o].cmd \in Commands /\ status[op[o].cmd] # "absent"
      BY <1>0, <2>1 DEF CancelWrite, CallsRemember, OpsTyped
    <3> QED BY <1>0, <2>1, <3>1 DEF CancelWrite, RowsTyped, WorkersTyped
  <2>2. ASSUME NEW n \in Commands, SubmitReplacement(o, n) PROVE ActivityLife'
    <3>1. class[op[o].cmd] \in ApprovalClasses
      BY <1>0, <2>2 DEF SubmitReplacement, OpsTyped, RowsTyped
    <3> QED BY <1>1, <2>2, <3>1 DEF SubmitReplacement
  <2>3. CASE ResumeWrite(o)
    <3>1. op[o].cmd \in Commands /\ status[op[o].cmd] # "absent" /\ class[op[o].cmd] = 2
      BY <1>0, <2>3 DEF ResumeWrite, CallsRemember, OpsTyped
    <3> QED BY <1>0, <2>3, <3>1 DEF ResumeWrite, RowsTyped, WorkersTyped
  <2>4. CASE CancelMark(o)
    <3>1. /\ op[o].cmd \in Commands
          /\ class[op[o].cmd] <= 1 => status[op[o].cmd] \in Terminal
      BY <1>0, <2>4 DEF CancelMark, ReplacementsFollow, OpsTyped
    <3> QED BY <1>0, <2>4, <3>1 DEF CancelMark, Marked, RowsTyped, WorkersTyped
  <2>5. CASE ResumeMark(o)
    <3>1. class[op[o].cmd] = 2 /\ op[o].cmd \in Commands
      BY <1>0, <2>5 DEF ResumeMark, CallsRemember, OpsTyped
    <3> QED BY <1>0, <2>5, <3>1 DEF ResumeMark, Marked, RowsTyped, WorkersTyped
  <2> QED BY <1>5, <2>1, <2>2, <2>3, <2>4, <2>5 DEF OperatorStep, CancelRead, ReadTokens,
          ConsumeToken
<1>6. CASE \E c \in Commands, k \in Classes : Submit(c, k)
  BY <1>1, <1>6, ClassesAssumption DEF Submit
<1>7. CASE \/ \E w \in Workers : Heartbeat(w)
           \/ \E c \in Commands : LeaseLapses(c)
           \/ \E o \in Operators, c \in Commands : OperatorCall(o, c)
           \/ \E o \in Operators : OperatorDies(o)
           \/ \E t \in Tokens, c \in Commands : Approve(t, c)
           \/ \E t \in Tokens : Expire(t)
           \/ UNCHANGED vars
  BY <1>7 DEF Heartbeat, LeaseLapses, OperatorCall, Cancel, Retry, Requeue, Resume, PolicyConsume,
       Begin, OperatorDies, Approve, Expire
<1> QED BY <1>2, <1>3, <1>4, <1>5, <1>6, <1>7 DEF Next

LEMMA CallsHold == Spec => [](Calls /\ ReplacedSourceIsEnded)
BY InitReplaced, ReplacedNext, ConsentHolds, PTL DEF Spec, Calls

Lives == Calls /\ Leases /\ ActivityLife

LEMMA LivesHold == Spec => []Lives
<1>1. Typed /\ Consent /\ Leases /\ [Next]_vars => Leases'
  BY LeasesNext
<1> QED BY <1>1, CallsHold, InitLeases, InitActivities, ActivitiesNext, PTL DEF Spec, Calls, Lives

-----------------------------------------------------------------------------
(* Executions and attempts                                                 *)

(* The workers that execute a command, or will as soon as they read their  *)
(* claim.  Each was counted as an attempt when it claimed a class 0 or 1   *)
(* command, whose activity was queued or running then; and so was each as  *)
(* long as no lease lapsed under a worker, for nobody else could start the *)
(* activity since.                                                         *)
Counted(c) ==
  {w \in Workers : /\ worker[w].cmd = c
                   /\ \/ worker[w].pc = "executing"
                      \/ worker[w].pc = "claimed" /\ activity[c] = "running"}

AttemptsCover ==
  \A c \in Commands :
    status[c] = "absent" \/ class[c] <= 1 \/ stalls = 0 =>
      IsFiniteSet(Counted(c)) /\ Cardinality(Counted(c)) <= attempts[c]

LEMMA InitCounted == Init => AttemptsCover
<1> SUFFICES ASSUME Init, NEW c \in Commands
             PROVE  IsFiniteSet(Counted(c)) /\ Cardinality(Counted(c)) <= attempts[c]
  BY DEF AttemptsCover
<1>1. Counted(c) = {}
  BY DEF Init, Counted, NoWork
<1> QED BY <1>1, FS_EmptySet DEF Init

(* Leases that lapsed under a worker are never forgotten.                  *)
LEMMA StallsStay ==
  ASSUME Typed, [Next]_vars, stalls' = 0
  PROVE  stalls = 0
<1>0. stalls \in Nat
  BY TypedParts, BoundsAssumption DEF FaultsTyped
<1>1. CASE \E c \in Commands : LeaseLapses(c)
  BY <1>0, <1>1 DEF LeaseLapses
<1>2. CASE \E w \in Workers : WorkerStep(w)
  BY <1>2 DEF WorkerStep, ReadClaim, Executed, FinishActivity, FinishCommand, AppendTerminalEvent
<1>3. CASE \E o \in Operators : OperatorStep(o)
  BY <1>3 DEF OperatorStep, CancelRead, CancelWrite, CancelMark, SubmitReplacement, ReadTokens,
       ConsumeToken, ResumeWrite, ResumeMark
<1> QED
  BY <1>1, <1>2, <1>3 DEF Next, Submit, Claim, Heartbeat, WorkerDies, OperatorCall, Cancel, Retry,
     Requeue, Resume, PolicyConsume, Begin, OperatorDies, Approve, Expire

(* A step takes workers off a command and leaves the attempts, or it adds  *)
(* one worker and one attempt.                                             *)
LEMMA CountedStep ==
  ASSUME Calls, Leases, ActivityLife, [Next]_vars, NEW c \in Commands,
         status[c] = "absent" \/ class[c] <= 1 \/ stalls = 0
  PROVE  \/ Counted(c)' \subseteq Counted(c) /\ attempts'[c] = attempts[c]
         \/ \E w \in Workers : /\ Counted(c)' \subseteq Counted(c) \cup {w}
                               /\ attempts'[c] = attempts[c] + 1
<1> DEFINE Goal == \/ Counted(c)' \subseteq Counted(c) /\ attempts'[c] = attempts[c]
                   \/ \E w \in Workers : /\ Counted(c)' \subseteq Counted(c) \cup {w}
                                         /\ attempts'[c] = attempts[c] + 1
<1> USE DEF Counted
<1>0. /\ RowsTyped /\ WorkersTyped /\ OpsTyped /\ RowsRemember /\ CallsRemember
      /\ None \notin Commands
      /\ \A w \in Workers : worker[w] \in WorkerCall
      /\ \A d \in Commands : attempts[d] \in Nat
  BY TypedParts, NoneAssumption, CommandsAssumption DEF Calls, Consent, WorkersTyped, RowsTyped
<1>1. ASSUME NEW d \in Commands, NEW k, NEW src, Insert(d, k, src), UNCHANGED worker
      PROVE  Goal
  BY <1>0, <1>1 DEF Insert, ActivityStatusFor, RowsTyped
<1>2. ASSUME NEW w \in Workers, NEW wanted \in Commands \cup {None}, Claim(w, wanted)
      PROVE  Goal
  <2>1. PICK d \in Commands :
          /\ status[d] # "absent" /\ leaseUntil[d] # "live"
          /\ StartAttempt(d)
          /\ worker' = [worker EXCEPT ![w] = [pc |-> "claimed", cmd |-> d, ok |-> FALSE]]
    BY <1>2 DEF Claim, ClaimableBy, Claimable
  <2>2. CASE d = c /\ activity[c] \in {"queued", "running"}
    <3>1. /\ activity'[c] = "running" /\ attempts'[c] = attempts[c] + 1
      BY <1>0, <2>1, <2>2 DEF StartAttempt, RowsTyped
    <3>2. \A v \in Workers : worker[v].cmd = c /\ worker[v].pc = "claimed" =>
            activity[c] = "running"
      BY <2>1, <2>2 DEF ActivityLife, Terminal, Leases, LeaseLife, AtWork
    <3>3. \A v \in Workers \ {w} : worker'[v] = worker[v]
      BY <1>0, <2>1 DEF WorkersTyped
    <3> QED BY <3>1, <3>2, <3>3
  <2>3. CASE d = c /\ activity[c] \notin {"queued", "running"}
    <3>1. activity'[c] = activity[c] /\ attempts'[c] = attempts[c]
      BY <1>0, <2>1, <2>3 DEF StartAttempt
    <3>2. Counted(c)' \subseteq Counted(c)
      BY <1>0, <2>1, <2>3, <3>1 DEF WorkersTyped
    <3> QED BY <3>1, <3>2
  <2>4. CASE d # c
    <3>1. activity'[c] = activity[c] /\ attempts'[c] = attempts[c]
      BY <1>0, <2>1, <2>4 DEF StartAttempt, RowsTyped
    <3>2. Counted(c)' \subseteq Counted(c)
      BY <1>0, <2>1, <2>4, <3>1 DEF WorkersTyped
    <3> QED BY <3>1, <3>2
  <2> QED BY <2>2, <2>3, <2>4
<1>3. ASSUME NEW w \in Workers, WorkerStep(w) PROVE Goal
  <2>1. CASE ReadClaim(w)
    BY <1>0, <2>1 DEF ReadClaim, WorkersTyped, WorkerCall
  <2>2. ASSUME NEW ok \in BOOLEAN, Executed(w, ok) PROVE Goal
    BY <1>0, <2>2 DEF Executed, WorkersTyped
  <2>3. CASE FinishActivity(w)
    BY <1>0, <2>3 DEF FinishActivity, RowsTyped, WorkersTyped, WorkerCall
  <2>4. CASE FinishCommand(w)
    BY <1>0, <2>4 DEF FinishCommand, RowsTyped, WorkersTyped, WorkerCall
  <2>5. CASE AppendTerminalEvent(w)
    BY <1>0, <2>5 DEF AppendTerminalEvent, WorkersTyped, NoWork
  <2> QED BY <1>3, <2>1, <2>2, <2>3, <2>4, <2>5 DEF WorkerStep
<1>4. ASSUME NEW w \in Workers, WorkerDies(w) PROVE Goal
  BY <1>0, <1>4 DEF WorkerDies, WorkersTyped, NoWork
<1>5. ASSUME NEW o \in Operators, OperatorStep(o) PROVE Goal
  <2>1. CASE CancelMark(o) \/ ResumeMark(o)
    BY <1>0, <2>1 DEF CancelMark, ResumeMark, Marked, RowsTyped
  <2>2. ASSUME NEW n \in Commands, SubmitReplacement(o, n) PROVE Goal
    BY <1>1, <2>2 DEF SubmitReplacement
  <2> QED BY <1>5, <2>1, <2>2 DEF OperatorStep, CancelRead, CancelWrite, ReadTokens,
          ConsumeToken, ResumeWrite
<1>6. CASE \E d \in Commands, k \in Classes : Submit(d, k)
  BY <1>1, <1>6 DEF Submit
<1>7. CASE \/ \E w \in Workers : Heartbeat(w)
           \/ \E d \in Commands : LeaseLapses(d)
           \/ \E o \in Operators, d \in Commands : OperatorCall(o, d)
           \/ \E o \in Operators : OperatorDies(o)
           \/ \E t \in Tokens, d \in Commands : Approve(t, d)
           \/ \E t \in Tokens : Expire(t)
           \/ UNCHANGED vars
  BY <1>7 DEF Heartbeat, LeaseLapses, OperatorCall, Cancel, Retry, Requeue, Resume, PolicyConsume,
       Begin, OperatorDies, Approve, Expire
<1> QED BY <1>2, <1>3, <1>4, <1>5, <1>6, <1>7 DEF Next

LEMMA CountedNext == Lives /\ AttemptsCover /\ [Next]_vars => AttemptsCover'
<1> SUFFICES ASSUME Calls, Leases, ActivityLife, AttemptsCover, [Next]_vars, NEW c \in Commands,
                    status'[c] = "absent" \/ class'[c] <= 1 \/ stalls' = 0
             PROVE  IsFiniteSet(Counted(c)') /\ Cardinality(Counted(c)') <= attempts'[c]
  BY DEF AttemptsCover, Lives
<1>0. attempts[c] \in Nat /\ attempts'[c] \in Nat /\ RowsTyped /\ RowsRemember /\ Typed'
  BY TypedParts, TypedPartsNext, NextTyped DEF Calls, Consent, RowsTyped
<1>1. status[c] = "absent" \/ class[c] <= 1 \/ stalls = 0
  BY CommandsStay, StallsStay DEF Calls
<1>2. IsFiniteSet(Counted(c)) /\ Cardinality(Counted(c)) <= attempts[c]
      /\ Cardinality(Counted(c)) \in Nat
  BY <1>1, FS_CardinalityType DEF AttemptsCover
<1>3. CASE Counted(c)' \subseteq Counted(c) /\ attempts'[c] = attempts[c]
  <2>1. IsFiniteSet(Counted(c)') /\ Cardinality(Counted(c)') <= Cardinality(Counted(c))
    BY <1>2, <1>3, FS_Subset
  <2>2. Cardinality(Counted(c)') \in Nat
    BY <2>1, FS_CardinalityType
  <2> QED BY <1>0, <1>2, <1>3, <2>1, <2>2
<1>4. ASSUME NEW w \in Workers, Counted(c)' \subseteq Counted(c) \cup {w},
             attempts'[c] = attempts[c] + 1
      PROVE  IsFiniteSet(Counted(c)') /\ Cardinality(Counted(c)') <= attempts'[c]
  <2>1. /\ IsFiniteSet(Counted(c) \cup {w})
        /\ Cardinality(Counted(c) \cup {w}) <= Cardinality(Counted(c)) + 1
        /\ Cardinality(Counted(c) \cup {w}) \in Nat
    <3>1. /\ IsFiniteSet(Counted(c) \cup {w})
          /\ Cardinality(Counted(c) \cup {w}) =
               IF w \in Counted(c) THEN Cardinality(Counted(c)) ELSE Cardinality(Counted(c)) + 1
      BY <1>2, FS_AddElement
    <3> QED BY <1>2, <3>1
  <2>2. /\ IsFiniteSet(Counted(c)')
        /\ Cardinality(Counted(c)') <= Cardinality(Counted(c) \cup {w})
    BY <1>4, <2>1, FS_Subset
  <2>3. Cardinality(Counted(c)') \in Nat
    BY <2>2, FS_CardinalityType
  <2> QED BY <1>0, <1>2, <1>4, <2>1, <2>2, <2>3
<1> QED BY <1>3, <1>4, <1>1, CountedStep

LEMMA ExecutionsCounted ==
  ASSUME Lives, AttemptsCover
  PROVE  ExecutionsAreCounted
<1> SUFFICES ASSUME NEW c \in Commands, class[c] <= 1 \/ stalls = 0
             PROVE  Cardinality({w \in Workers : worker[w].pc = "executing" /\ worker[w].cmd = c})
                      <= attempts[c]
  BY DEF ExecutionsAreCounted
<1> DEFINE E == {w \in Workers : worker[w].pc = "executing" /\ worker[w].cmd = c}
<1>0. attempts[c] \in Nat
  BY TypedParts DEF Lives, Calls, RowsTyped
<1>1. /\ IsFiniteSet(Counted(c)) /\ Cardinality(Counted(c)) \in Nat
      /\ Cardinality(Counted(c)) <= attempts[c] /\ E \subseteq Counted(c)
  BY FS_CardinalityType DEF AttemptsCover, Counted
<1>2. IsFiniteSet(E) /\ Cardinality(E) <= Cardinality(Counted(c))
  BY <1>1, FS_Subset
<1>3. Cardinality(E) \in Nat
  BY <1>2, FS_CardinalityType
<1> QED BY <1>0, <1>1, <1>2, <1>3

LEMMA CoverHolds == Spec => []AttemptsCover
<1> QED BY LivesHold, InitCounted, CountedNext, PTL DEF Spec

(* No execution goes uncounted, and no lease is held by nobody: with any   *)
(* number of workers a double execution shows in the attempts, and a lease *)
(* under which nobody works is one that a dead worker left.                *)
THEOREM LeasesAlwaysWorked == Spec => []LeasesAreWorked
<1>1. Lives => LiveLeaseIsWorked
  BY DEF Lives, Leases
<1> QED BY <1>1, LivesHold, CoverHolds, ExecutionsCounted, PTL DEF LeasesAreWorked

-----------------------------------------------------------------------------
(* The command, its activity and its ledger events                         *)

(* What worker w, if it never stalled, carries from the activity it saw or *)
(* finished to the status it is about to write.                            *)
Carries(w) ==
  /\ worker[w].pc = "claimed" => ~worker[w].ok
  /\ worker[w].pc = "finish_command" /\ worker[w].ok => activity[worker[w].cmd] = "completed"
  /\ crashes = 0 /\ worker[w].pc # "idle" /\ class[worker[w].cmd] <= 1 =>
       /\ worker[w].pc = "claimed" => activity[worker[w].cmd] \in {"running", "canceled"}
       /\ worker[w].pc = "finish_command" /\ ~worker[w].ok =>
            activity[worker[w].cmd] \in {"failed", "canceled"}

OutcomeLife == stalls = 0 => \A w \in Workers : Carries(w)

LEMMA InitRecords == Init => OutcomeLife /\ RecordsAgree
BY DEF Init, Carries, OutcomeLife, RecordsAgree, CanceledActivitySettles, OutcomesAgree,
       CompletionIsLedgered, NoWork

(* A command that reads completed was ledgered or is about to be.          *)
LEMMA LedgeredNext ==
  Typed /\ Consent /\ CompletionIsLedgered /\ [Next]_vars => CompletionIsLedgered'
<1> SUFFICES ASSUME Typed, Consent, CompletionIsLedgered, [Next]_vars
             PROVE  CompletionIsLedgered'
  OBVIOUS
<1> USE DEF CompletionIsLedgered
<1>0. /\ RowsTyped /\ WorkersTyped /\ RowsRemember /\ crashes \in Nat
      /\ \A w \in Workers : worker[w] \in WorkerCall
  BY TypedParts, BoundsAssumption DEF Consent, WorkersTyped, FaultsTyped
<1>1. ASSUME NEW c \in Commands, NEW k, NEW src, Insert(c, k, src), UNCHANGED <<worker, crashes>>
      PROVE  CompletionIsLedgered'
  BY <1>0, <1>1 DEF Insert, InitialStatus, RowsTyped
<1>2. CASE \E w \in Workers, wanted \in Commands \cup {None} : Claim(w, wanted)
  BY <1>0, <1>2 DEF Claim, RowsTyped, WorkersTyped
<1>3. ASSUME NEW w \in Workers, WorkerStep(w) PROVE CompletionIsLedgered'
  <2>1. CASE ReadClaim(w)
    BY <1>0, <2>1 DEF ReadClaim, WorkersTyped
  <2>2. ASSUME NEW ok \in BOOLEAN, Executed(w, ok) PROVE CompletionIsLedgered'
    BY <1>0, <2>2 DEF Executed, WorkersTyped
  <2>3. CASE FinishActivity(w)
    BY <1>0, <2>3 DEF FinishActivity, WorkersTyped
  <2>4. CASE FinishCommand(w)
    BY <1>0, <2>4 DEF FinishCommand, RowsTyped, WorkersTyped, WorkerCall
  <2>5. CASE AppendTerminalEvent(w)
    BY <1>0, <2>5 DEF AppendTerminalEvent, RowsTyped, WorkersTyped
  <2> QED BY <1>3, <2>1, <2>2, <2>3, <2>4, <2>5 DEF WorkerStep
<1>4. CASE \/ \E w \in Workers : WorkerDies(w)
           \/ \E o \in Operators : OperatorDies(o)
  BY <1>0, <1>4 DEF WorkerDies, OperatorDies
<1>5. ASSUME NEW o \in Operators, OperatorStep(o) PROVE CompletionIsLedgered'
  <2>1. CASE CancelWrite(o) \/ ResumeWrite(o)
    BY <1>0, <2>1 DEF CancelWrite, ResumeWrite, RowsTyped
  <2>2. ASSUME NEW n \in Commands, SubmitReplacement(o, n) PROVE CompletionIsLedgered'
    BY <1>1, <2>2 DEF SubmitReplacement
  <2> QED BY <1>5, <2>1, <2>2 DEF OperatorStep, CancelRead, CancelMark, ReadTokens, ConsumeToken,
          ResumeMark
<1>6. CASE \E c \in Commands, k \in Classes : Submit(c, k)
  BY <1>1, <1>6 DEF Submit
<1>7. CASE \/ \E w \in Workers : Heartbeat(w)
           \/ \E c \in Commands : LeaseLapses(c)
           \/ \E o \in Operators, c \in Commands : OperatorCall(o, c)
           \/ \E t \in Tokens, c \in Commands : Approve(t, c)
           \/ \E t \in Tokens : Expire(t)
           \/ UNCHANGED vars
  BY <1>7 DEF Heartbeat, LeaseLapses, OperatorCall, Cancel, Retry, Requeue, Resume, PolicyConsume,
       Begin, Approve, Expire
<1> QED BY <1>2, <1>3, <1>4, <1>5, <1>6, <1>7 DEF Next

(* A canceled command has an open activity only until it is marked.        *)
LEMMA SettlesNext ==
  Calls /\ ActivityLife /\ CanceledActivitySettles /\ [Next]_vars => CanceledActivitySettles'
<1> SUFFICES ASSUME Calls, ActivityLife, CanceledActivitySettles, [Next]_vars
             PROVE  CanceledActivitySettles'
  OBVIOUS
<1> USE DEF CanceledActivitySettles, Terminal
<1>0. /\ RowsTyped /\ WorkersTyped /\ OpsTyped /\ CallsRemember /\ crashes \in Nat
      /\ \A c \in Commands : status[c] # "absent" => activity[c] # "absent"
      /\ \A o \in Operators : op[o] \in OpCall
  BY TypedParts, BoundsAssumption DEF Calls, Consent, FaultsTyped, OpsTyped, ActivityLife
<1>1. ASSUME NEW c \in Commands, NEW k, NEW src, Insert(c, k, src), crashes' = crashes,
             \A o \in Operators : op[o].pc = "cancel_mark" => op'[o] = op[o]
      PROVE  CanceledActivitySettles'
  BY <1>0, <1>1 DEF Insert, InitialStatus, RowsTyped
<1>2. CASE \E w \in Workers, wanted \in Commands \cup {None} : Claim(w, wanted)
  <2>1. PICK c \in Commands : StartAttempt(c) /\ status' = [status EXCEPT ![c] = "running"]
    BY <1>2 DEF Claim, ClaimableBy
  <2>2. UNCHANGED <<op, crashes>>
    BY <1>2 DEF Claim
  <2> QED BY <1>0, <2>1, <2>2 DEF StartAttempt, RowsTyped
<1>3. ASSUME NEW w \in Workers, WorkerStep(w) PROVE CanceledActivitySettles'
  <2>1. CASE FinishActivity(w)
    BY <1>0, <2>1 DEF FinishActivity, RowsTyped
  <2>2. CASE FinishCommand(w)
    BY <1>0, <2>2 DEF FinishCommand, RowsTyped
  <2> QED BY <1>3, <2>1, <2>2 DEF WorkerStep, ReadClaim, Executed, AppendTerminalEvent
<1>4. CASE \/ \E w \in Workers : WorkerDies(w)
           \/ \E o \in Operators : OperatorDies(o)
  BY <1>0, <1>4 DEF WorkerDies, OperatorDies
<1>5. ASSUME NEW o \in Operators, OperatorStep(o) PROVE CanceledActivitySettles'
  <2>0. op[o].cmd \in Commands /\ status[op[o].cmd] # "absent" /\ crashes' = crashes
    BY <1>0, <1>5 DEF OperatorStep, CancelRead, CancelWrite, CancelMark, SubmitReplacement,
         ReadTokens, ConsumeToken, ResumeWrite, ResumeMark, OpsTyped, CallsRemember
  <2>1. CASE CancelWrite(o)
    BY <1>0, <2>0, <2>1 DEF CancelWrite, GoTo, RowsTyped, OpsTyped, OpCall
  <2>2. CASE CancelMark(o)
    <3>1. activity'[op[o].cmd] \in {"completed", "failed", "canceled"}
          /\ \A d \in Commands \ {op[o].cmd} : activity'[d] = activity[d]
      BY <1>0, <2>0, <2>2 DEF CancelMark, Marked, RowsTyped, ActivityStatus
    <3>2. status' = status /\ \A p \in Operators \ {o} : op'[p] = op[p]
      BY <1>0, <2>2 DEF CancelMark, GoTo, Return, OpsTyped
    <3> QED BY <2>0, <3>1, <3>2
  <2>3. ASSUME NEW n \in Commands, SubmitReplacement(o, n) PROVE CanceledActivitySettles'
    BY <1>0, <1>1, <2>0, <2>3 DEF SubmitReplacement, Return, OpsTyped
  <2>4. CASE ResumeWrite(o)
    BY <1>0, <2>0, <2>4 DEF ResumeWrite, GoTo, Return, RowsTyped, OpsTyped
  <2>5. CASE ResumeMark(o)
    BY <1>0, <2>0, <2>5 DEF ResumeMark, Marked, Return, RowsTyped, OpsTyped
  <2>6. CASE CancelRead(o) \/ ReadTokens(o) \/ ConsumeToken(o)
    BY <1>0, <2>0, <2>6 DEF CancelRead, ReadTokens, ConsumeToken, GoTo, Return, OpsTyped
  <2> QED BY <1>5, <2>1, <2>2, <2>3, <2>4, <2>5, <2>6 DEF OperatorStep
<1>6. CASE \E c \in Commands, k \in Classes : Submit(c, k)
  BY <1>1, <1>6 DEF Submit
<1>7. CASE \E o \in Operators, c \in Commands : OperatorCall(o, c)
  BY <1>0, <1>7 DEF OperatorCall, Cancel, Retry, Requeue, Resume, PolicyConsume, Begin, OpsTyped
<1>8. CASE \/ \E w \in Workers : Heartbeat(w)
           \/ \E c \in Commands : LeaseLapses(c)
           \/ \E t \in Tokens, c \in Commands : Approve(t, c)
           \/ \E t \in Tokens : Expire(t)
           \/ UNCHANGED vars
  BY <1>8 DEF Heartbeat, LeaseLapses, Approve, Expire
<1> QED BY <1>2, <1>3, <1>4, <1>5, <1>6, <1>7, <1>8 DEF Next

(* What a worker that never stalled writes about a command agrees with the *)
(* activity: nobody else can claim the command or finish its activity.     *)
LEMMA OutcomesNext ==
  Lives /\ OutcomeLife /\ OutcomesAgree /\ [Next]_vars => (OutcomeLife /\ OutcomesAgree)'
<1> SUFFICES ASSUME Lives, OutcomeLife, OutcomesAgree, [Next]_vars, stalls' = 0
             PROVE  OutcomeLife' /\ OutcomesAgree'
  BY DEF OutcomeLife, OutcomesAgree
<1> DEFINE Goal == OutcomeLife' /\ OutcomesAgree'
<1> USE DEF Carries, OutcomeLife, OutcomesAgree, Terminal
<1>0. /\ RowsTyped /\ WorkersTyped /\ OpsTyped /\ CallsRemember /\ RowsRemember
      /\ LeaseLife /\ ActivityLife /\ crashes \in Nat /\ stalls \in Nat
      /\ \A w \in Workers : worker[w] \in WorkerCall
  BY TypedParts, BoundsAssumption DEF Lives, Calls, Leases, Consent, FaultsTyped, WorkersTyped
<1>1. ASSUME NEW c \in Commands, NEW k, NEW src, Insert(c, k, src),
             UNCHANGED <<worker, crashes, stalls>>
      PROVE  Goal
  <2>1. \A v \in Workers : worker[v].pc # "idle" => worker[v].cmd \in Commands \ {c}
    BY <1>0, <1>1 DEF Insert, WorkersTyped, RowsRemember
  <2>2. \A d \in Commands \ {c} :
          status'[d] = status[d] /\ class'[d] = class[d] /\ activity'[d] = activity[d]
    BY <1>0, <1>1 DEF Insert, RowsTyped
  <2>3. status'[c] \notin {"completed", "failed"}
    BY <1>0, <1>1 DEF Insert, InitialStatus, RowsTyped
  <2>4. OutcomesAgree'
    BY <1>1, <2>2, <2>3
  <2>5. OutcomeLife'
    BY <1>1, <2>1, <2>2
  <2> QED BY <2>4, <2>5
<1>2. ASSUME NEW w \in Workers, NEW wanted \in Commands \cup {None}, Claim(w, wanted)
      PROVE  Goal
  <2>1. PICK c \in Commands :
          /\ \/ status[c] = "queued" /\ leaseUntil[c] \in {"null", "expired"}
             \/ status[c] = "running" /\ leaseUntil[c] = "expired"
          /\ status' = [status EXCEPT ![c] = "running"]
          /\ StartAttempt(c)
          /\ worker' = [worker EXCEPT ![w] = [pc |-> "claimed", cmd |-> c, ok |-> FALSE]]
    BY <1>2 DEF Claim, ClaimableBy, Claimable
  <2>2. UNCHANGED <<class, crashes, stalls>>
    BY <1>2 DEF Claim
  <2>3. \A v \in Workers : worker[v].pc \in AtWork => worker[v].cmd # c
    BY <1>0, <2>1, <2>2 DEF LeaseLife
  <2>4. \A d \in Commands \ {c} : activity'[d] = activity[d] /\ status'[d] = status[d]
    BY <1>0, <2>1 DEF StartAttempt, RowsTyped
  <2>5. crashes = 0 /\ class[c] <= 1 => activity'[c] = "running"
    BY <1>0, <2>1, <2>2 DEF StartAttempt, LeaseLife, ActivityLife, RowsTyped
  <2>6. status'[c] = "running"
    BY <1>0, <2>1 DEF RowsTyped
  <2>7. OutcomesAgree'
    BY <2>2, <2>4, <2>6
  <2>8. \A v \in Workers \ {w} : worker'[v] = worker[v]
    BY <1>0, <2>1 DEF WorkersTyped
  <2>9. worker'[w] = [pc |-> "claimed", cmd |-> c, ok |-> FALSE]
    BY <1>0, <2>1 DEF WorkersTyped
  <2>10. \A v \in Workers \ {w} : worker[v].pc \in AtWork =>
           activity'[worker[v].cmd] = activity[worker[v].cmd]
    BY <1>0, <2>3, <2>4 DEF WorkersTyped, AtWork
  <2>11. OutcomeLife'
    BY <2>2, <2>5, <2>8, <2>9, <2>10 DEF AtWork
  <2> QED BY <2>7, <2>11
<1>3. ASSUME NEW w \in Workers, WorkerStep(w) PROVE Goal
  <2>0. UNCHANGED <<class, crashes, stalls>>
    BY <1>3 DEF WorkerStep, ReadClaim, Executed, FinishActivity, FinishCommand, AppendTerminalEvent
  <2>1. CASE ReadClaim(w)
    BY <1>0, <2>0, <2>1 DEF ReadClaim, WorkersTyped, WorkerCall
  <2>2. ASSUME NEW ok \in BOOLEAN, Executed(w, ok) PROVE Goal
    BY <1>0, <2>0, <2>2 DEF Executed, WorkersTyped
  <2>3. CASE FinishActivity(w)
    <3>1. PICK c \in Commands : c = worker[w].cmd /\ leaseOwner[c] = w
      BY <1>0, <2>0, <2>3 DEF FinishActivity, WorkersTyped, LeaseLife, AtWork
    <3>2. /\ \A v \in Workers \ {w} : worker[v].pc \in AtWork => worker[v].cmd # c
          /\ status[c] \notin {"completed", "failed"}
      BY <1>0, <2>0, <3>1, WorkersAssumption DEF LeaseLife
    <3>3. /\ \A d \in Commands \ {c} : activity'[d] = activity[d]
          /\ activity'[c] = IF worker[w].ok THEN "completed" ELSE "failed"
          /\ status' = status
      BY <1>0, <2>3, <3>1 DEF FinishActivity, RowsTyped
    <3>4. OutcomesAgree'
      BY <2>0, <3>2, <3>3
    <3>5. /\ \A v \in Workers \ {w} : worker'[v] = worker[v]
          /\ worker'[w] = [worker[w] EXCEPT !.pc = "finish_command"]
      BY <1>0, <2>3 DEF FinishActivity, WorkersTyped
    <3>6. worker'[w].pc = "finish_command" /\ worker'[w].ok = worker[w].ok /\ worker'[w].cmd = c
      BY <1>0, <3>1, <3>5 DEF WorkerCall
    <3>7. \A v \in Workers \ {w} : worker[v].pc \in AtWork =>
            activity'[worker[v].cmd] = activity[worker[v].cmd]
      BY <1>0, <3>2, <3>3 DEF WorkersTyped, AtWork
    <3>8. \A v \in Workers \ {w} : Carries(v)'
      BY <2>0, <3>5, <3>7 DEF AtWork
    <3>9. /\ worker'[w].ok => activity'[worker'[w].cmd] = "completed"
          /\ ~worker'[w].ok => activity'[worker'[w].cmd] = "failed"
      BY <3>3, <3>6
    <3>10. OutcomeLife'
      BY <3>6, <3>8, <3>9
    <3> QED BY <3>4, <3>10
  <2>4. CASE FinishCommand(w)
    BY <1>0, <2>0, <2>4 DEF FinishCommand, RowsTyped, WorkersTyped, WorkerCall
  <2>5. CASE AppendTerminalEvent(w)
    BY <1>0, <2>0, <2>5 DEF AppendTerminalEvent, WorkersTyped, NoWork
  <2> QED BY <1>3, <2>1, <2>2, <2>3, <2>4, <2>5 DEF WorkerStep
<1>4. CASE \/ \E w \in Workers : WorkerDies(w)
           \/ \E o \in Operators : OperatorDies(o)
  BY <1>0, <1>4 DEF WorkerDies, OperatorDies, WorkersTyped, NoWork
<1>5. CASE \E c \in Commands : LeaseLapses(c)
  BY <1>0, <1>5 DEF LeaseLapses
<1>6. ASSUME NEW o \in Operators, OperatorStep(o) PROVE Goal
  <2>1. CASE CancelWrite(o)
    BY <1>0, <2>1 DEF CancelWrite, RowsTyped
  <2>2. CASE CancelMark(o)
    BY <1>0, <2>2 DEF CancelMark, Marked, RowsTyped
  <2>3. ASSUME NEW n \in Commands, SubmitReplacement(o, n) PROVE Goal
    BY <1>1, <2>3 DEF SubmitReplacement
  <2>4. CASE ResumeWrite(o)
    BY <1>0, <2>4 DEF ResumeWrite, RowsTyped
  <2>5. CASE ResumeMark(o)
    <3>1. class[op[o].cmd] = 2 /\ op[o].cmd \in Commands
      BY <1>0, <2>5 DEF ResumeMark, CallsRemember, OpsTyped
    <3> QED BY <1>0, <2>5, <3>1 DEF ResumeMark, Marked, RowsTyped
  <2> QED BY <1>6, <2>1, <2>2, <2>3, <2>4, <2>5 DEF OperatorStep, CancelRead, ReadTokens,
          ConsumeToken
<1>7. CASE \E c \in Commands, k \in Classes : Submit(c, k)
  BY <1>1, <1>7 DEF Submit
<1>8. CASE \/ \E w \in Workers : Heartbeat(w)
           \/ \E o \in Operators, c \in Commands : OperatorCall(o, c)
           \/ \E t \in Tokens, c \in Commands : Approve(t, c)
           \/ \E t \in Tokens : Expire(t)
           \/ UNCHANGED vars
  BY <1>8 DEF Heartbeat, OperatorCall, Cancel, Retry, Requeue, Resume, PolicyConsume, Begin,
       Approve, Expire
<1> QED BY <1>2, <1>3, <1>4, <1>5, <1>6, <1>7, <1>8 DEF Next

(* The command, its activity and its ledger events tell one story, for any *)
(* number of workers, operator processes and commands.                     *)
THEOREM RecordsAlwaysAgree == Spec => []RecordsAgree
<1>1. Lives => Calls /\ Typed /\ Consent /\ ActivityLife
  BY DEF Lives, Calls
<1> QED
  BY <1>1, LivesHold, InitRecords, LedgeredNext, SettlesNext, OutcomesNext, PTL
     DEF Spec, RecordsAgree

-----------------------------------------------------------------------------
(* The gateway                                                            *)

LEMMA NodeVerdict ==
  ASSUME NEW row, NEW outcome, NEW seen
  PROVE  NodeSucceeds(row, outcome, seen) \in BOOLEAN
BY DEF NodeSucceeds

(* Every step of the gateway is a step of the store.                       *)
LEMMA GatewayStep == [GatewayNext]_allVars => [Next]_vars
<1> SUFFICES ASSUME GatewayNext PROVE [Next]_vars
  BY DEF allVars, gatewayVars
<1>1. ASSUME NEW c \in Commands, NEW r \in Requests, SubmitRequest(c, r) PROVE Next
  BY <1>1, RequestsAssumption DEF SubmitRequest, Next
<1>2. ASSUME NEW o \in Operators, NEW n \in Commands, ResubmitRequest(o, n) PROVE Next
  BY <1>2 DEF ResubmitRequest, OperatorStep, Next
<1>3. ASSUME NEW w \in Workers, ClaimRequest(w) PROVE Next
  BY <1>3 DEF ClaimRequest, Next
<1>4. ASSUME NEW w \in Workers, HeartbeatRequest(w) \/ LoseRun(w) PROVE Next
  BY <1>4 DEF HeartbeatRequest, LoseRun, Next
<1>5. ASSUME NEW w \in Workers, EndGraph(w) PROVE Next
  <2>1. PICK ok \in BOOLEAN : Executed(w, ok)
    BY <1>5, NodeVerdict DEF EndGraph
  <2> QED BY <2>1 DEF WorkerStep, Next
<1>6. ASSUME NEW w \in Workers, FinishRequest(w) PROVE Next
  BY <1>6 DEF FinishRequest, WorkerStep, Next
<1>7. ASSUME NEW o \in Operators, Overwrite(o) PROVE Next
  BY <1>7 DEF Overwrite, OperatorStep, Next
<1>8. CASE \/ \E w \in Workers, outcome \in DispatchOutcomes : Dispatch(w, outcome)
           \/ \E c \in Commands : Review(c)
  BY <1>8 DEF Dispatch, Review
<1>9. CASE StoreStep
  <2>1. CASE \E w \in Workers : ReadClaim(w) \/ FinishActivity(w) \/ AppendTerminalEvent(w)
    BY <2>1 DEF WorkerStep, Next
  <2>2. CASE \E o \in Operators : CancelRead(o) \/ CancelMark(o) \/ ReadTokens(o)
                                    \/ ConsumeToken(o) \/ ResumeMark(o) \/ OperatorDies(o)
    BY <2>2 DEF OperatorStep, Next
  <2>3. CASE \/ \E c \in Commands : LeaseLapses(c)
             \/ \E o \in Operators, c \in Commands : OperatorCall(o, c)
             \/ \E t \in Tokens, c \in Commands : Approve(t, c)
    BY <2>3 DEF Next
  <2> QED BY <1>9, <2>1, <2>2, <2>3 DEF StoreStep
<1> QED BY <1>1, <1>2, <1>3, <1>4, <1>5, <1>6, <1>7, <1>8, <1>9 DEF GatewayNext

(* The store with requests, dispatches and results in it is still the      *)
(* store: whatever holds of CommandStore holds of the gateway.             *)
THEOREM GatewayIsAStore == GatewaySpec => Spec
<1>1. GatewayInit => Init
  BY DEF GatewayInit
<1> QED BY <1>1, GatewayStep, PTL DEF GatewaySpec, Spec

-----------------------------------------------------------------------------
(* Requests, their routes and their terms                                  *)

LEMMA GivenIs ==
  ASSUME NEW optional, NEW default, \A a, b \in optional : a = b
  PROVE  /\ optional = {} => Given(optional, default) = default
         /\ \A v \in optional : Given(optional, default) = v
BY DEF Given

LEMMA RouteIs ==
  ASSUME NEW r
  PROVE  /\ RouteOf(r).lane = RuleFor(r).lane
         /\ RouteOf(r).verb = RuleFor(r).verb
         /\ RouteOf(r).class = Given(r.class, ClassOfVerb(RuleFor(r).verb))
         /\ RouteOf(r).effects = SideEffects(RouteOf(r).class)
         /\ r.project # {} => RouteOf(r).project = r.project
         /\ r.project = {} /\ InferredProject(r.intent) # {} =>
              RouteOf(r).project = InferredProject(r.intent)
         /\ r.project = {} /\ InferredProject(r.intent) = {} =>
              RouteOf(r).project = DefaultProject(RuleFor(r))
BY DEF RouteOf

LEMMA StoredIs ==
  ASSUME NEW r
  PROVE  /\ Stored(r).asked = r
         /\ Stored(r).route = RouteOf(r)
         /\ Stored(r).action = ActionOf(RouteOf(r))
         /\ Stored(r).terms.maxAttempts = MaxAttempts(r, RouteOf(r))
         /\ Stored(r).terms.runtime = Runtime(r, RouteOf(r).verb)
         /\ Stored(r).terms.required <=>
              (r.verify \/ VerifierOf(RouteOf(r)).always \/ RouteOf(r).effects # {})
         /\ Stored(r).terms.required \in BOOLEAN
BY DEF Stored, ExecutionPolicy

LEMMA RouteTyped ==
  ASSUME NEW r, IsRequest(r)
  PROVE  RouteOf(r).class \in ApprovalClasses
<1>0. /\ r.class \subseteq ApprovalClasses /\ \A a, b \in r.class : a = b
  BY DEF IsRequest
<1>1. ClassOfVerb(RuleFor(r).verb) \in ApprovalClasses
  BY DEF ClassOfVerb, ApprovalClasses
<1>2. RouteOf(r).class \in ApprovalClasses
  <2>1. PICK k \in ApprovalClasses : k = ClassOfVerb(RuleFor(r).verb)
    BY <1>1
  <2>2. /\ r.class = {} => Given(r.class, k) = k
        /\ \A v \in r.class : Given(r.class, k) = v
    BY <1>0, GivenIs
  <2>3. Given(r.class, k) \in ApprovalClasses
    BY <1>0, <2>2
  <2> QED BY <2>1, <2>3, RouteIs
<1> QED BY <1>2

(* The bounds on attempts and time are positive numbers; what the request  *)
(* says of them goes first, and an action with effects that is not safe    *)
(* gets a second attempt only when the request asks for it.                *)
LEMMA TermsTyped ==
  ASSUME NEW r, IsRequest(r)
  PROVE  /\ Stored(r).terms.maxAttempts \in 1 .. 10
         /\ \A n \in r.retries : n < 10 => Stored(r).terms.maxAttempts = n + 1
         /\ Stored(r).terms.runtime \in Nat \ {0}
         /\ \A n \in r.runtime : n > 0 => Stored(r).terms.runtime <= n
         /\ /\ r.retries = {}
            /\ RouteOf(r).effects # {}
            /\ \A a \in ActionOf(RouteOf(r)) : ~a.safe
            => Stored(r).terms.maxAttempts = 1
<1>0. /\ r.retries \subseteq Nat /\ \A a, b \in r.retries : a = b
      /\ r.runtime \subseteq Nat /\ \A a, b \in r.runtime : a = b
  BY DEF IsRequest
<1> DEFINE harmless == RouteOf(r).effects = {} \/ \E a \in ActionOf(RouteOf(r)) : a.safe
           default == IF harmless THEN 1 ELSE 0
<1>1. PICK n : n = Given(r.retries, default)
  OBVIOUS
<1>2. /\ n \in Nat /\ (r.retries = {} => n = default) /\ \A k \in r.retries : n = k
      /\ default \in {0, 1} /\ (~harmless => default = 0)
  BY <1>0, <1>1, GivenIs
<1>3. Stored(r).terms.maxAttempts = AtMost(10, AtLeast(1, n + 1))
  BY <1>1, StoredIs DEF MaxAttempts
<1> HIDE DEF default
<1>4. PICK k : k = Given(r.runtime, 0)
  OBVIOUS
<1>5. k \in Nat /\ \A m \in r.runtime : k = m
  BY <1>0, <1>4, GivenIs
<1>6. PICK d \in Nat \ {0} : d = DefaultRuntime(RouteOf(r).verb)
  BY DEF DefaultRuntime
<1>7. Stored(r).terms.runtime = IF k > 0 THEN AtMost(d, AtLeast(1, k)) ELSE d
  BY <1>4, <1>6, StoredIs DEF Runtime
<1>8. Stored(r).terms.maxAttempts \in 1 .. 10
  BY <1>2, <1>3 DEF AtMost, AtLeast
<1>9. \A m \in r.retries : m < 10 => Stored(r).terms.maxAttempts = m + 1
  BY <1>0, <1>2, <1>3 DEF AtMost, AtLeast
<1>10. /\ Stored(r).terms.runtime \in Nat \ {0}
       /\ \A m \in r.runtime : m > 0 => Stored(r).terms.runtime <= m
  BY <1>0, <1>5, <1>7 DEF AtMost, AtLeast
<1>11. r.retries = {} /\ ~harmless => Stored(r).terms.maxAttempts = 1
  BY <1>2, <1>3 DEF AtMost, AtLeast
<1> QED BY <1>8, <1>9, <1>10, <1>11

(* The request a retry makes of a stored one.                              *)
LEMMA ResubmittedIs ==
  ASSUME NEW r, IsRequest(r), NEW s, s = Resubmitted(Stored(r))
  PROVE  /\ s.intent = r.intent /\ s.payload = NoPayload
         /\ s.project = RouteOf(r).project /\ s.class = {RouteOf(r).class}
         /\ s.retries = {Stored(r).terms.maxAttempts - 1}
         /\ s.runtime = {Stored(r).terms.runtime} /\ s.verify = Stored(r).terms.required
         /\ IsRequest(s)
<1>1. PICK project, k, retries, runtime, verify :
        /\ project = RouteOf(r).project /\ k = RouteOf(r).class
        /\ retries = Stored(r).terms.maxAttempts - 1 /\ runtime = Stored(r).terms.runtime
        /\ verify = Stored(r).terms.required
  OBVIOUS
<1>2. k \in ApprovalClasses /\ retries \in Nat /\ runtime \in Nat /\ verify \in BOOLEAN
  <2>1. Stored(r).terms.maxAttempts \in 1 .. 10 /\ Stored(r).terms.runtime \in Nat
    BY TermsTyped
  <2>2. Stored(r).terms.required \in BOOLEAN /\ RouteOf(r).class \in ApprovalClasses
    BY StoredIs, RouteTyped
  <2> QED BY <1>1, <2>1, <2>2
<1>3. s = [r EXCEPT !.project = project, !.class = {k}, !.payload = NoPayload,
                    !.retries = {retries}, !.runtime = {runtime}, !.verify = verify]
  BY <1>1, StoredIs DEF Resubmitted
<1>4. r \in [intent : {r.intent}, project : {r.project}, class : SUBSET ApprovalClasses,
            payload : {r.payload}, retries : SUBSET Nat, runtime : SUBSET Nat,
            verify : BOOLEAN]
  BY DEF IsRequest
<1>5. s = [intent |-> r.intent, project |-> project, class |-> {k}, payload |-> NoPayload,
           retries |-> {retries}, runtime |-> {runtime}, verify |-> verify]
  BY <1>3, <1>4
<1>6. IsRequest(s)
  BY <1>2, <1>5 DEF IsRequest
<1> QED BY <1>1, <1>5, <1>6

(* A replacement runs on the terms of its source.                          *)
LEMMA TermsKept ==
  ASSUME NEW r, IsRequest(r), NEW s, s = Resubmitted(Stored(r))
  PROVE  /\ RouteOf(s).class = RouteOf(r).class
         /\ RouteOf(r).project # {} \/ r.payload = NoPayload =>
              RouteOf(s).project = RouteOf(r).project
         /\ Stored(s).terms.maxAttempts <= Stored(r).terms.maxAttempts
         /\ Stored(s).terms.runtime <= Stored(r).terms.runtime
         /\ Stored(r).terms.required => Stored(s).terms.required
         /\ r.payload = NoPayload =>
              RouteOf(s).verb = RouteOf(r).verb /\ RouteOf(s).lane = RouteOf(r).lane
<1>0. /\ s.intent = r.intent /\ s.payload = NoPayload
      /\ s.project = RouteOf(r).project /\ s.class = {RouteOf(r).class}
      /\ s.retries = {Stored(r).terms.maxAttempts - 1}
      /\ s.runtime = {Stored(r).terms.runtime} /\ s.verify = Stored(r).terms.required
      /\ IsRequest(s)
  BY ResubmittedIs
<1>1. RouteOf(s).class = RouteOf(r).class
  <2>1. PICK k, default : k = RouteOf(r).class /\ default = ClassOfVerb(RuleFor(s).verb)
    OBVIOUS
  <2>2. Given({k}, default) = k
    BY GivenIs
  <2>3. RouteOf(s).class = Given(s.class, default)
    BY <2>1, RouteIs
  <2> QED BY <1>0, <2>1, <2>2, <2>3
<1>2. r.payload = NoPayload => RuleFor(s) = RuleFor(r)
  BY <1>0 DEF RuleFor
<1>3. RouteOf(r).project # {} \/ r.payload = NoPayload => RouteOf(s).project = RouteOf(r).project
  <2>1. CASE RouteOf(r).project # {}
    BY <1>0, <2>1, RouteIs
  <2>2. CASE RouteOf(r).project = {} /\ r.payload = NoPayload
    <3>1. r.project = {} /\ InferredProject(r.intent) = {}
      BY <2>2, RouteIs
    <3>2. s.project = {} /\ s.intent = r.intent
      BY <1>0, <2>2
    <3>3. RouteOf(s).project = DefaultProject(RuleFor(s))
      BY <3>1, <3>2, RouteIs
    <3>4. RouteOf(r).project = DefaultProject(RuleFor(r))
      BY <3>1, RouteIs
    <3> QED BY <1>2, <2>2, <3>3, <3>4
  <2> QED BY <2>1, <2>2
<1>4. Stored(s).terms.maxAttempts = Stored(r).terms.maxAttempts
  <2>1. PICK m \in 1 .. 10 : m = Stored(r).terms.maxAttempts
    BY TermsTyped
  <2>2. \A n \in s.retries : n < 10 => Stored(s).terms.maxAttempts = n + 1
    BY <1>0, TermsTyped
  <2>3. m - 1 \in s.retries /\ m - 1 < 10 /\ (m - 1) + 1 = m
    BY <1>0, <2>1
  <2> QED BY <2>1, <2>2, <2>3
<1>5. Stored(s).terms.runtime <= Stored(r).terms.runtime
  <2>1. PICK m \in Nat \ {0} : m = Stored(r).terms.runtime
    BY TermsTyped
  <2>2. m \in s.runtime /\ m > 0
    BY <1>0, <2>1
  <2> QED BY <1>0, <2>1, <2>2, TermsTyped
<1>6. Stored(r).terms.required => Stored(s).terms.required
  BY <1>0, StoredIs
<1>7. Stored(s).terms.maxAttempts <= Stored(r).terms.maxAttempts
  BY <1>4, TermsTyped
<1> QED BY <1>1, <1>2, <1>3, <1>5, <1>6, <1>7, RouteIs

(* A destructive intent has no action, whatever comes with it.             *)
LEMMA GuardedHasNoAction ==
  ASSUME NEW r, NEW i \in DOMAIN GuardRules, Applies(GuardRules[i], r.intent)
  PROVE  ActionOf(RouteOf(r)) = {}
<1>1. PICK rules : rules = GuardRules \o JobRules
  OBVIOUS
<1>2. DOMAIN GuardRules = 1 .. 4 /\ Len(GuardRules) = 4
      /\ GuardRules \in Seq({GuardRules[j] : j \in 1 .. 4})
  <2>1. PICK a, b, c, d : GuardRules = <<a, b, c, d>>
    BY DEF GuardRules
  <2>2. Len(GuardRules) = 4 /\ DOMAIN GuardRules = 1 .. 4
    BY <2>1
  <2>3. GuardRules \in Seq({GuardRules[j] : j \in 1 .. 4})
    BY <2>1
  <2> QED BY <2>2, <2>3
<1>j. JobRules \in Seq({JobRules[j] : j \in 1 .. 8}) /\ Len(JobRules) = 8
  BY DEF JobRules
<1>k. /\ GuardRules[1].verb \in GuardedVerbs /\ GuardRules[2].verb \in GuardedVerbs
      /\ GuardRules[3].verb \in GuardedVerbs /\ GuardRules[4].verb \in GuardedVerbs
  BY DEF GuardRules, Rule, GuardedVerbs
<1>l. DOMAIN rules = 1 .. 12 /\ \A j \in 1 .. 4 : rules[j] = GuardRules[j]
  <2>1. PICK S : S = {GuardRules[j] : j \in 1 .. 4} \cup {JobRules[j] : j \in 1 .. 8}
    OBVIOUS
  <2>2. GuardRules \in Seq(S) /\ JobRules \in Seq(S)
    BY <1>2, <1>j, <2>1
  <2>3. /\ rules \in Seq(S) /\ Len(rules) = 12
        /\ \A j \in 1 .. 12 : rules[j] = IF j <= 4 THEN GuardRules[j] ELSE JobRules[j - 4]
    <3>1. /\ rules \in Seq(S) /\ Len(rules) = Len(GuardRules) + Len(JobRules)
          /\ \A j \in 1 .. Len(GuardRules) + Len(JobRules) :
               rules[j] = IF j <= Len(GuardRules) THEN GuardRules[j]
                                                  ELSE JobRules[j - Len(GuardRules)]
      BY <1>1, <2>2, ConcatProperties
    <3> QED BY <1>2, <1>j, <3>1
  <2> QED BY <2>3
<1>3. PICK hits : hits = {j \in DOMAIN rules : Applies(rules[j], r.intent)}
  OBVIOUS
<1>4. i \in hits /\ i \in 1 .. 4 /\ hits \subseteq Nat \ {0}
  BY <1>2, <1>3, <1>l
<1>5. PICK m \in 1 .. 4 : m \in hits /\ \A j \in hits : m <= j
  BY <1>4
<1>6. FirstRule(rules, r.intent) = {rules[m]}
  BY <1>3, <1>4, <1>5 DEF FirstRule
<1>7. RuleFor(r) = rules[m]
  <2>1. PICK rule : rule = rules[m]
    OBVIOUS
  <2>2. \A default : Given({rule}, default) = rule
    BY GivenIs
  <2> QED BY <1>1, <1>6, <2>1, <2>2 DEF RuleFor
<1>8. RouteOf(r).verb \in GuardedVerbs
  <2>1. m = 1 \/ m = 2 \/ m = 3 \/ m = 4
    OBVIOUS
  <2>2. GuardRules[m].verb \in GuardedVerbs
    BY <1>k, <2>1
  <2> QED BY <1>l, <1>7, <2>2, RouteIs
<1> QED BY <1>8 DEF ActionOf

-----------------------------------------------------------------------------
(* The rows of requests                                                    *)

(* What submit stored of a request stays, and of a replacement it is what  *)
(* the source's row asks for.                                              *)
RowsOfRequests ==
  /\ DOMAIN command = Commands
  /\ \A c \in Live : \E r : IsRequest(r) /\ command[c] = Stored(r)
  /\ \A c \in Live : source[c] # None =>
       source[c] \in Live /\ command[c] = Stored(Resubmitted(command[source[c]]))

Submission ==
  \/ \E c \in Commands, r \in Requests : SubmitRequest(c, r)
  \/ \E o \in Operators, n \in Commands : ResubmitRequest(o, n)

(* Only a submission adds a row or writes what it asks for.                *)
LEMMA RowsStay ==
  ASSUME Calls, [GatewayNext]_allVars, ~Submission
  PROVE  UNCHANGED <<command, source, Live>>
<1> USE DEF allVars, gatewayVars, Live
<1>0. RowsTyped /\ WorkersTyped /\ OpsTyped /\ RowsRemember /\ CallsRemember
  BY TypedParts DEF Calls, Consent
<1>1. ASSUME NEW w \in Workers, ClaimRequest(w) PROVE UNCHANGED <<command, source, Live>>
  BY <1>0, <1>1 DEF ClaimRequest, Claim, ClaimableBy, Claimable, RowsTyped
<1>2. ASSUME NEW w \in Workers, HeartbeatRequest(w) \/ EndGraph(w) \/ LoseRun(w)
      PROVE  UNCHANGED <<command, source, Live>>
  BY <1>2 DEF HeartbeatRequest, Heartbeat, EndGraph, Executed, LoseRun, WorkerDies
<1>3. ASSUME NEW w \in Workers, FinishRequest(w) PROVE UNCHANGED <<command, source, Live>>
  BY <1>0, <1>3 DEF FinishRequest, FinishCommand, RowsTyped, RowsRemember
<1>4. ASSUME NEW o \in Operators, Overwrite(o) PROVE UNCHANGED <<command, source, Live>>
  BY <1>0, <1>4 DEF Overwrite, CancelWrite, ResumeWrite, RowsTyped, CallsRemember
<1>5. CASE \/ \E w \in Workers, outcome \in DispatchOutcomes : Dispatch(w, outcome)
           \/ \E c \in Commands : Review(c)
           \/ UNCHANGED allVars
  BY <1>5 DEF Dispatch, Review
<1>6. CASE StoreStep
  BY <1>6 DEF StoreStep, ReadClaim, FinishActivity, AppendTerminalEvent, LeaseLapses, OperatorCall,
       Cancel, Retry, Requeue, Resume, PolicyConsume, Begin, CancelRead, CancelMark, ReadTokens,
       ConsumeToken, ResumeMark, OperatorDies, Approve
<1> QED BY <1>1, <1>2, <1>3, <1>4, <1>5, <1>6 DEF GatewayNext, Submission

(* A submission adds one row: that of a request, or of what a live source  *)
(* asks for.                                                               *)
Added(c, row) ==
  /\ c \in Commands \ Live
  /\ Live' = Live \cup {c}
  /\ command' = [command EXCEPT ![c] = row]
  /\ \E r : IsRequest(r) /\ row = Stored(r)
  /\ \/ source' = [source EXCEPT ![c] = None]
     \/ \E o \in Live : /\ source' = [source EXCEPT ![c] = o]
                        /\ row = Stored(Resubmitted(command[o]))

LEMMA RowAdded ==
  ASSUME Calls, RowsOfRequests, Submission
  PROVE  \E c, row : Added(c, row)
<1> USE DEF Live
<1>0. RowsTyped /\ WorkersTyped /\ OpsTyped /\ RowsRemember /\ CallsRemember
  BY TypedParts DEF Calls, Consent
<1>i. ASSUME NEW c \in Commands, NEW k, NEW src, Insert(c, k, src)
      PROVE  c \notin Live /\ Live' = Live \cup {c} /\ source' = [source EXCEPT ![c] = src]
  <2>1. InitialStatus(k) # "absent"
    BY DEF InitialStatus
  <2> QED BY <1>0, <1>i, <2>1 DEF Insert, RowsTyped
<1>1. ASSUME NEW c \in Commands, NEW r \in Requests, SubmitRequest(c, r)
      PROVE  /\ c \notin Live /\ Live' = Live \cup {c} /\ source' = [source EXCEPT ![c] = None]
             /\ command' = [command EXCEPT ![c] = Stored(r)] /\ IsRequest(r)
  BY <1>i, <1>1, RequestsAssumption DEF SubmitRequest, Submit
<1>2. ASSUME NEW o \in Operators, NEW n \in Commands, ResubmitRequest(o, n)
      PROVE  \E row :
               /\ n \notin Live /\ Live' = Live \cup {n}
               /\ command' = [command EXCEPT ![n] = row]
               /\ \E r : IsRequest(r) /\ row = Stored(r)
               /\ op[o].cmd \in Live /\ source' = [source EXCEPT ![n] = op[o].cmd]
               /\ row = Stored(Resubmitted(command[op[o].cmd]))
  <2>1. op[o].cmd \in Live
    BY <1>0, <1>2 DEF ResubmitRequest, SubmitReplacement, OpsTyped, CallsRemember
  <2>2. PICK r : IsRequest(r) /\ command[op[o].cmd] = Stored(r)
    BY <2>1 DEF RowsOfRequests
  <2>3. IsRequest(Resubmitted(command[op[o].cmd]))
    BY <2>2, ResubmittedIs
  <2>4. n \notin Live /\ Live' = Live \cup {n} /\ source' = [source EXCEPT ![n] = op[o].cmd]
    BY <1>i, <1>2 DEF ResubmitRequest, SubmitReplacement
  <2>5. command' = [command EXCEPT ![n] = Stored(Resubmitted(command[op[o].cmd]))]
    BY <1>2 DEF ResubmitRequest
  <2> QED BY <2>1, <2>3, <2>4, <2>5
<1>3. ASSUME NEW c \in Commands, NEW r \in Requests, SubmitRequest(c, r)
      PROVE  Added(c, Stored(r))
  BY <1>1, <1>3 DEF Added
<1>4. ASSUME NEW o \in Operators, NEW n \in Commands, ResubmitRequest(o, n)
      PROVE  \E row : Added(n, row)
  BY <1>2, <1>4 DEF Added
<1> QED BY <1>3, <1>4 DEF Submission

LEMMA InitRows == GatewayInit => RowsOfRequests
BY DEF GatewayInit, Init, RowsOfRequests, Live

LEMMA RowsOfRequestsNext == Calls /\ RowsOfRequests /\ [GatewayNext]_allVars => RowsOfRequests'
<1> SUFFICES ASSUME Calls, RowsOfRequests, [GatewayNext]_allVars
             PROVE  RowsOfRequests'
  OBVIOUS
<1> USE DEF RowsOfRequests
<1>0. DOMAIN source = Commands /\ Live \subseteq Commands /\ None \notin Commands
  BY TypedParts, CommandsAssumption, NoneAssumption DEF Calls, RowsTyped, Live
<1>1. CASE ~Submission
  BY <1>1, RowsStay
<1>2. CASE Submission
  <2>1. PICK c, row : Added(c, row)
    BY <1>2, RowAdded
  <2> USE DEF Added
  <2>2. /\ command'[c] = row
        /\ \A d \in Live : command'[d] = command[d] /\ source'[d] = source[d]
    BY <1>0, <2>1
  <2>3. DOMAIN command' = Commands
    BY <2>1
  <2>4. \A d \in Live' : \E r : IsRequest(r) /\ command'[d] = Stored(r)
    BY <2>1, <2>2
  <2>5. ASSUME NEW d \in Live', source'[d] # None
        PROVE  source'[d] \in Live' /\ command'[d] = Stored(Resubmitted(command'[source'[d]]))
    <3>1. CASE d = c
      <4>1. PICK o \in Live : /\ source' = [source EXCEPT ![c] = o]
                              /\ row = Stored(Resubmitted(command[o]))
        BY <1>0, <2>1, <2>5, <3>1
      <4>2. source'[d] = o /\ command'[o] = command[o]
        BY <1>0, <2>1, <2>2, <3>1, <4>1
      <4> QED BY <2>1, <2>2, <3>1, <4>1, <4>2
    <3>2. CASE d \in Live
      BY <2>1, <2>2, <2>5, <3>2
    <3> QED BY <2>1, <2>5, <3>1, <3>2
  <2> QED BY <2>3, <2>4, <2>5
<1> QED BY <1>1, <1>2

LEMMA TermsFollow == RowsOfRequests => RetryKeepsTerms
<1> SUFFICES ASSUME RowsOfRequests, NEW c \in Live, source[c] # None
             PROVE  LET old == command[source[c]]
                        new == command[c]
                    IN /\ new.route.class = old.route.class
                       /\ old.route.project # {} \/ old.asked.payload = NoPayload =>
                            new.route.project = old.route.project
                       /\ old.asked.payload = NoPayload => new.route.verb = old.route.verb
                       /\ Terms(c).maxAttempts <= Terms(source[c]).maxAttempts
                       /\ Terms(c).runtime <= Terms(source[c]).runtime
                       /\ Terms(source[c]).required => Terms(c).required
  BY DEF RetryKeepsTerms
<1>1. PICK r : IsRequest(r) /\ command[source[c]] = Stored(r)
  BY DEF RowsOfRequests
<1>2. PICK s : s = Resubmitted(Stored(r))
  OBVIOUS
<1>3. command[c] = Stored(s)
  BY <1>1, <1>2 DEF RowsOfRequests
<1>4. /\ Stored(s).route = RouteOf(s) /\ Stored(r).route = RouteOf(r)
      /\ Stored(r).asked = r
  BY StoredIs
<1> QED BY <1>1, <1>2, <1>3, <1>4, TermsKept DEF Terms

(* What holds whenever the gateway runs, of its calls and of its rows.     *)
LEMMA GatewayHolds == GatewaySpec => [](Lives /\ RowsOfRequests)
<1>1. Lives => Calls
  BY DEF Lives
<1> QED
  BY <1>1, GatewayIsAStore, LivesHold, InitRows, RowsOfRequestsNext, PTL DEF GatewaySpec

(* A replacement runs on the terms of its source, for any requests.        *)
THEOREM RetryAlwaysKeepsTerms == GatewaySpec => []RetryKeepsTerms
<1> QED BY GatewayHolds, TermsFollow, PTL

-----------------------------------------------------------------------------
(* Runs and results                                                        *)

Attempted(w) == run[w].attempts \in 0 .. Terms(worker[w].cmd).maxAttempts

(* What worker w knows of its run: nothing before it executes, then how    *)
(* many dispatches it made, and a success only after one of them and with  *)
(* the verification the command is owed.                                   *)
RunIsHonest(w) ==
  /\ worker[w].pc \in {"idle", "claimed", "ledger"} => run[w] = NotRun
  /\ worker[w].pc = "claimed" => ~worker[w].ok
  /\ worker[w].pc = "executing" =>
       Attempted(w) /\ (Succeeded(run[w].outcome) => run[w].attempts > 0)
  /\ worker[w].pc \in {"finish_activity", "finish_command"} /\ worker[w].ok =>
       run[w].attempts > 0 /\ (Terms(worker[w].cmd).required => run[w].verified)

RunTyped ==
  run \in [Workers -> [attempts : Nat, outcome : DispatchOutcomes \cup {"none"},
                       verified : BOOLEAN]]

CompletedAreVerified ==
  /\ DOMAIN result = Commands
  /\ \A c \in Live : status[c] = "completed" =>
       result[c].attempts > 0 /\ (Terms(c).required => result[c].verified)

Honest == RunTyped /\ (\A w \in Workers : RunIsHonest(w)) /\ CompletedAreVerified

LEMMA InitHonest == GatewayInit => Honest
BY DEF GatewayInit, Init, Honest, RunTyped, RunIsHonest, CompletedAreVerified, NotRun, NoWork, Live

(* The terms of a command never change.                                    *)
LEMMA TermsStay ==
  ASSUME Lives, RowsOfRequests, [GatewayNext]_allVars, NEW c \in Live
  PROVE  c \in Live' /\ Terms(c)' = Terms(c) /\ command'[c] = command[c]
<1>1. CASE Submission
  <2>1. PICK d, row : Added(d, row)
    BY <1>1, RowAdded DEF Lives
  <2>2. c \in DOMAIN command
    BY DEF RowsOfRequests, Live
  <2> QED BY <2>1, <2>2 DEF Added, Terms
<1>2. CASE ~Submission
  BY <1>2, RowsStay DEF Terms, Lives
<1> QED BY <1>1, <1>2

(* A worker whose call and run a step leaves alone stays honest.           *)
LEMMA HonestyStays ==
  ASSUME Lives, RowsOfRequests, [GatewayNext]_allVars, NEW w \in Workers, RunIsHonest(w),
         worker'[w] = worker[w], run'[w] = run[w]
  PROVE  RunIsHonest(w)'
<1>1. worker[w].pc # "idle" => worker[w].cmd \in Live
  BY TypedParts DEF Lives, Calls, Consent, RowsRemember, WorkersTyped, Live
<1>2. worker[w].pc # "idle" => Terms(worker[w].cmd)' = Terms(worker[w].cmd)
  <2>1. PICK c : c = worker[w].cmd
    OBVIOUS
  <2>2. worker[w].pc # "idle" => Terms(c)' = Terms(c)
    BY <1>1, <2>1, TermsStay
  <2>3. Terms(worker[w].cmd)' = Terms(c)'
    BY <2>1 DEF Terms
  <2> QED BY <2>1, <2>2, <2>3
<1> QED BY <1>2 DEF RunIsHonest, Attempted

LEMMA RunsNext ==
  Lives /\ RowsOfRequests /\ Honest /\ [GatewayNext]_allVars =>
    RunTyped' /\ \A w \in Workers : RunIsHonest(w)'
<1> SUFFICES ASSUME Lives, RowsOfRequests, Honest, [GatewayNext]_allVars
             PROVE  RunTyped' /\ \A w \in Workers : RunIsHonest(w)'
  OBVIOUS
<1> DEFINE Goal == RunTyped' /\ \A w \in Workers : RunIsHonest(w)'
<1>0. /\ RowsTyped /\ WorkersTyped /\ RowsRemember /\ RunTyped
      /\ \A w \in Workers : RunIsHonest(w) /\ worker[w] \in WorkerCall /\ run[w].attempts \in Nat
  BY TypedParts DEF Lives, Calls, Consent, Honest, WorkersTyped, RunTyped
<1>n. NotRun \in [attempts : Nat, outcome : DispatchOutcomes \cup {"none"}, verified : BOOLEAN]
  BY DEF NotRun
<1>t. /\ \A w \in Workers : worker[w].pc # "idle" => worker[w].cmd \in Live
      /\ \A c \in Live : command'[c] = command[c] /\ command[c].terms.maxAttempts \in Nat
  <2>1. \A c \in Live : command[c].terms.maxAttempts \in Nat
    BY TermsTyped DEF RowsOfRequests
  <2> QED BY <1>0, <2>1, TermsStay DEF WorkersTyped, RowsRemember, Live
<1>1. ASSUME UNCHANGED <<worker, run>> PROVE Goal
  BY <1>0, <1>1, HonestyStays DEF RunTyped
<1>2. ASSUME NEW w \in Workers, RunTyped', RunIsHonest(w)',
             \A v \in Workers \ {w} : worker'[v] = worker[v] /\ run'[v] = run[v]
      PROVE  Goal
  BY <1>0, <1>2, HonestyStays
<1>3. ASSUME NEW w \in Workers, ClaimRequest(w) PROVE Goal
  <2>1. PICK c \in Commands :
          worker' = [worker EXCEPT ![w] = [pc |-> "claimed", cmd |-> c, ok |-> FALSE]]
    BY <1>3 DEF ClaimRequest, Claim, ClaimableBy
  <2>2. worker[w].pc = "idle" /\ run' = run
    BY <1>3 DEF ClaimRequest, Claim
  <2>3. RunIsHonest(w)'
    BY <1>0, <2>1, <2>2 DEF RunIsHonest, WorkersTyped
  <2> QED BY <1>0, <1>2, <2>1, <2>2, <2>3 DEF RunTyped, WorkersTyped
<1>4. ASSUME NEW w \in Workers, NEW outcome \in DispatchOutcomes, Dispatch(w, outcome) PROVE Goal
  <2>1. /\ worker' = worker /\ worker[w].pc = "executing" /\ ~Dispatched(w)
        /\ run' = [run EXCEPT ![w] = [attempts |-> run[w].attempts + 1, outcome |-> outcome,
                                     verified |-> FALSE]]
    BY <1>0, <1>4 DEF Dispatch, RunTyped
  <2>2. RunTyped'
    BY <1>0, <2>1 DEF RunTyped
  <2>3. run'[w] = [attempts |-> run[w].attempts + 1, outcome |-> outcome, verified |-> FALSE]
    BY <1>0, <2>1 DEF RunTyped
  <2>4. Attempted(w)'
    BY <1>0, <1>t, <2>1, <2>3 DEF RunIsHonest, Attempted, Dispatched, Terms
  <2>5. RunIsHonest(w)'
    BY <1>0, <2>1, <2>3, <2>4 DEF RunIsHonest
  <2> QED BY <1>0, <1>2, <2>1, <2>2, <2>5 DEF RunTyped
<1>5. ASSUME NEW w \in Workers, EndGraph(w) PROVE Goal
  <2>1. PICK c \in Live, verified \in BOOLEAN :
          /\ c = worker[w].cmd
          /\ verified = Verified(command[c], run[w].outcome, c \in reviewed)
    BY <1>0, <1>5, <1>t DEF EndGraph, Verified
  <2>2. /\ worker[w].pc = "executing"
        /\ worker' = [worker EXCEPT ![w] =
             [pc |-> "finish_activity", cmd |-> c,
              ok |-> NodeSucceeds(command[c], run[w].outcome, c \in reviewed)]]
        /\ run' = [run EXCEPT ![w].verified = verified]
    BY <1>5, <2>1 DEF EndGraph, Executed
  <2>3. NodeSucceeds(command[c], run[w].outcome, c \in reviewed) =>
          run[w].attempts > 0 /\ (Terms(c).required => verified)
    BY <1>0, <2>1, <2>2 DEF NodeSucceeds, RunIsHonest, Terms
  <2>4. /\ run'[w].attempts = run[w].attempts /\ run'[w].verified = verified
        /\ RunTyped'
    BY <1>0, <2>2 DEF RunTyped
  <2>5. /\ worker'[w].pc = "finish_activity" /\ worker'[w].cmd = c
        /\ worker'[w].ok = NodeSucceeds(command[c], run[w].outcome, c \in reviewed)
    BY <1>0, <2>2 DEF WorkersTyped
  <2>6. RunIsHonest(w)'
    BY <1>t, <2>3, <2>4, <2>5 DEF RunIsHonest, Terms
  <2> QED BY <1>0, <1>2, <2>2, <2>4, <2>6 DEF RunTyped, WorkersTyped
<1>6. ASSUME NEW w \in Workers, FinishRequest(w) \/ LoseRun(w) PROVE Goal
  <2>1. /\ run' = [run EXCEPT ![w] = NotRun]
        /\ \/ worker' = [worker EXCEPT ![w].pc = "ledger"]
           \/ worker' = [worker EXCEPT ![w] = NoWork]
    BY <1>6 DEF FinishRequest, FinishCommand, LoseRun, WorkerDies
  <2>2. run'[w] = NotRun /\ worker'[w].pc \in {"ledger", "idle"} /\ RunTyped'
    BY <1>0, <1>n, <2>1 DEF RunTyped, WorkersTyped, WorkerCall, NoWork
  <2>3. RunIsHonest(w)'
    BY <2>2 DEF RunIsHonest
  <2> QED BY <1>0, <1>2, <2>1, <2>2, <2>3 DEF RunTyped, WorkersTyped
<1>7. ASSUME NEW w \in Workers, ReadClaim(w), run' = run PROVE Goal
  <2>1. worker[w].pc = "claimed" /\ run[w] = NotRun /\ ~worker[w].ok /\ worker[w].cmd \in Live
    BY <1>0, <1>7, <1>t DEF ReadClaim, RunIsHonest
  <2>2. /\ worker'[w].pc \in {"executing", "finish_command"}
        /\ worker'[w].ok = worker[w].ok /\ worker'[w].cmd = worker[w].cmd
    BY <1>0, <1>7 DEF ReadClaim, WorkersTyped, WorkerCall
  <2>3. RunIsHonest(w)'
    BY <1>7, <1>t, <2>1, <2>2 DEF RunIsHonest, Attempted, Terms, NotRun, Succeeded
  <2> QED BY <1>0, <1>2, <1>7, <2>3 DEF RunTyped, WorkersTyped, ReadClaim
<1>8. ASSUME NEW w \in Workers, FinishActivity(w) \/ AppendTerminalEvent(w), run' = run PROVE Goal
  <2>1. CASE FinishActivity(w)
    <3>1. /\ worker[w].pc = "finish_activity" /\ worker'[w].pc = "finish_command"
          /\ worker'[w].ok = worker[w].ok /\ worker'[w].cmd = worker[w].cmd
      BY <1>0, <2>1 DEF FinishActivity, WorkersTyped, WorkerCall
    <3>2. RunIsHonest(w)'
      BY <1>0, <1>8, <1>t, <3>1 DEF RunIsHonest, Terms
    <3> QED BY <1>0, <1>2, <1>8, <2>1, <3>2 DEF RunTyped, WorkersTyped, FinishActivity
  <2>2. CASE AppendTerminalEvent(w)
    <3>1. worker[w].pc = "ledger" /\ worker'[w].pc = "idle"
      BY <1>0, <2>2 DEF AppendTerminalEvent, WorkersTyped, NoWork
    <3>2. RunIsHonest(w)'
      BY <1>0, <1>8, <3>1 DEF RunIsHonest
    <3> QED BY <1>0, <1>2, <1>8, <2>2, <3>2 DEF RunTyped, WorkersTyped, AppendTerminalEvent
  <2> QED BY <1>8, <2>1, <2>2
<1>9. CASE StoreStep
  <2>1. CASE \E w \in Workers : ReadClaim(w) \/ FinishActivity(w) \/ AppendTerminalEvent(w)
    BY <1>7, <1>8, <1>9, <2>1 DEF StoreStep, gatewayVars
  <2>2. CASE \/ \E c \in Commands : LeaseLapses(c)
             \/ \E o \in Operators, c \in Commands : OperatorCall(o, c)
             \/ \E o \in Operators : CancelRead(o) \/ CancelMark(o) \/ ReadTokens(o)
                                       \/ ConsumeToken(o) \/ ResumeMark(o) \/ OperatorDies(o)
             \/ \E t \in Tokens, c \in Commands : Approve(t, c)
    <3>1. worker' = worker
      BY <2>2 DEF LeaseLapses, OperatorCall, Cancel, Retry, Requeue, Resume, PolicyConsume, Begin,
         CancelRead, CancelMark, ReadTokens, ConsumeToken, ResumeMark, OperatorDies, Approve
    <3> QED BY <1>1, <1>9, <3>1 DEF StoreStep, gatewayVars
  <2> QED BY <1>9, <2>1, <2>2 DEF StoreStep
<1>10. CASE \/ Submission
            \/ \E w \in Workers : HeartbeatRequest(w)
            \/ \E o \in Operators : Overwrite(o)
            \/ \E c \in Commands : Review(c)
            \/ UNCHANGED allVars
  BY <1>1, <1>10 DEF Submission, SubmitRequest, Submit, ResubmitRequest, SubmitReplacement,
     HeartbeatRequest, Heartbeat, Overwrite, CancelWrite, ResumeWrite, Review, allVars, gatewayVars
<1> QED
  BY <1>3, <1>4, <1>5, <1>6, <1>9, <1>10 DEF GatewayNext, Submission

LEMMA ResultsNext ==
  Lives /\ RowsOfRequests /\ Honest /\ [GatewayNext]_allVars => CompletedAreVerified'
<1> SUFFICES ASSUME Lives, RowsOfRequests, Honest, [GatewayNext]_allVars
             PROVE  CompletedAreVerified'
  OBVIOUS
<1>0. /\ RowsTyped /\ WorkersTyped /\ OpsTyped /\ RowsRemember /\ CallsRemember /\ RunTyped
      /\ CompletedAreVerified
      /\ \A w \in Workers : RunIsHonest(w) /\ worker[w] \in WorkerCall
  BY TypedParts DEF Lives, Calls, Consent, Honest, WorkersTyped
<1>t. \A c \in Live : command'[c] = command[c] /\ Live \subseteq Commands
  BY TermsStay DEF Live
<1>1. ASSUME result' = result,
             \A c \in Commands : status'[c] = "completed" => status[c] = "completed"
      PROVE  CompletedAreVerified'
  BY <1>0, <1>1, <1>t DEF CompletedAreVerified, Live, Terms
<1>2. ASSUME NEW w \in Workers, FinishRequest(w) PROVE CompletedAreVerified'
  <2>1. PICK c \in Live : c = worker[w].cmd
    BY <1>0, <1>2 DEF FinishRequest, FinishCommand, WorkersTyped, RowsRemember, Live
  <2>2. /\ worker[w].pc = "finish_command"
        /\ status' = [status EXCEPT ![c] = IF worker[w].ok THEN "completed" ELSE "failed"]
        /\ result' = [result EXCEPT ![c] = Report(w)]
    BY <1>2, <2>1 DEF FinishRequest, FinishCommand
  <2>3. worker[w].ok => Report(w).attempts > 0 /\ (Terms(c).required => Report(w).verified)
    BY <1>0, <2>1, <2>2 DEF RunIsHonest, Report
  <2> QED BY <1>0, <1>t, <2>1, <2>2, <2>3 DEF CompletedAreVerified, Live, Terms, RowsTyped
<1>3. ASSUME NEW o \in Operators, Overwrite(o) PROVE CompletedAreVerified'
  <2>1. PICK c \in Commands : c = op[o].cmd
    BY <1>0, <1>3 DEF Overwrite, CancelWrite, ResumeWrite, OpsTyped
  <2>2. /\ \E s \in {"canceled", "queued", "blocked_approval"} : status' = [status EXCEPT ![c] = s]
        /\ result' = [result EXCEPT ![c] = NoResult]
    BY <1>3, <2>1 DEF Overwrite, CancelWrite, ResumeWrite
  <2> QED BY <1>0, <1>t, <2>1, <2>2 DEF CompletedAreVerified, Live, Terms, RowsTyped
<1>4. ASSUME NEW c \in Commands, NEW k, NEW src, Insert(c, k, src)
      PROVE  \A d \in Commands : status'[d] = "completed" => status[d] = "completed"
  BY <1>0, <1>4 DEF Insert, InitialStatus, RowsTyped
<1>5. CASE Submission
  BY <1>1, <1>4, <1>5 DEF Submission, SubmitRequest, Submit, ResubmitRequest, SubmitReplacement
<1>6. CASE \E w \in Workers : ClaimRequest(w)
  BY <1>0, <1>1, <1>6 DEF ClaimRequest, Claim, ClaimableBy, RowsTyped
<1>7. CASE \/ \E w \in Workers : HeartbeatRequest(w) \/ EndGraph(w) \/ LoseRun(w)
           \/ \E w \in Workers, outcome \in DispatchOutcomes : Dispatch(w, outcome)
           \/ \E c \in Commands : Review(c)
           \/ UNCHANGED allVars
  BY <1>1, <1>7 DEF HeartbeatRequest, Heartbeat, EndGraph, Executed, LoseRun, WorkerDies, Dispatch,
     Review, allVars, gatewayVars
<1>8. CASE StoreStep
  BY <1>1, <1>8 DEF StoreStep, gatewayVars, ReadClaim, FinishActivity, AppendTerminalEvent,
     LeaseLapses, OperatorCall, Cancel, Retry, Requeue, Resume, PolicyConsume, Begin, CancelRead,
     CancelMark, ReadTokens, ConsumeToken, ResumeMark, OperatorDies, Approve
<1> QED BY <1>2, <1>3, <1>5, <1>6, <1>7, <1>8 DEF GatewayNext, Submission

LEMMA VerifiedFollows == RowsOfRequests /\ RetryKeepsTerms /\ Honest => CompletedWasVerified
BY DEF CompletedWasVerified, RetryKeepsTerms, Honest, CompletedAreVerified, RowsOfRequests

(* What reads completed was dispatched with success and passed every check *)
(* that it, or the command it replaces, was owed.                          *)
THEOREM CompletedAlwaysVerified == GatewaySpec => []CompletedWasVerified
<1>1. Lives /\ RowsOfRequests /\ Honest /\ [GatewayNext]_allVars => Honest'
  BY RunsNext, ResultsNext DEF Honest
<1> QED
  BY <1>1, GatewayHolds, InitHonest, RetryAlwaysKeepsTerms, VerifiedFollows, PTL DEF GatewaySpec

-----------------------------------------------------------------------------
(* Effects                                                                 *)

(* The dispatches that the counted workers of a command may still make.    *)
Remaining(c) ==
  {p \in Counted(c) \X (1 .. Terms(c).maxAttempts) : p[2] > run[p[1]].attempts}

(* What was dispatched and what may still be dispatched under the claims   *)
(* so far is within the attempts; what only explains itself has no effect. *)
EffectsCovered ==
  /\ effects \in [Commands -> Nat]
  /\ \A c \in Commands \ Live : effects[c] = 0
  /\ \A c \in Live : Explains(command[c]) => effects[c] = 0
  /\ \A c \in Live : class[c] <= 1 \/ stalls = 0 =>
       effects[c] + Cardinality(Remaining(c)) <= attempts[c] * Terms(c).maxAttempts

LEMMA InitEffects == GatewayInit => EffectsCovered
BY DEF GatewayInit, Init, EffectsCovered, Live

LEMMA RemainingIsFinite ==
  ASSUME RowsOfRequests, AttemptsCover, NEW c \in Live, class[c] <= 1 \/ stalls = 0
  PROVE  IsFiniteSet(Remaining(c)) /\ Cardinality(Remaining(c)) \in Nat
<1>1. PICK m \in 1 .. 10 : m = Terms(c).maxAttempts
  BY TermsTyped DEF RowsOfRequests, Terms
<1>2. IsFiniteSet(Counted(c)) /\ IsFiniteSet(1 .. m)
  BY FS_Interval DEF AttemptsCover, Live
<1>3. IsFiniteSet(Counted(c) \X (1 .. m))
  BY <1>2, FS_Product
<1>4. Remaining(c) \subseteq Counted(c) \X (1 .. m)
  BY <1>1 DEF Remaining
<1> QED BY <1>3, <1>4, FS_Subset, FS_CardinalityType

(* A dispatch uses up one of the remaining ones.                           *)
LEMMA DispatchUsesOne ==
  ASSUME NEW S, IsFiniteSet(S), NEW x \in S, NEW T, IsFiniteSet(T), T \subseteq S \ {x}
  PROVE  Cardinality(T) + 1 <= Cardinality(S)
<1>1. /\ IsFiniteSet(S \ {x}) /\ Cardinality(S) \in Nat /\ Cardinality(S \ {x}) = Cardinality(S) - 1
  BY FS_CardinalityType, FS_RemoveElement
<1>2. Cardinality(T) <= Cardinality(S \ {x}) /\ Cardinality(T) \in Nat
  BY <1>1, FS_Subset, FS_CardinalityType
<1> QED BY <1>1, <1>2

(* A claim adds as many as the terms allow.                                *)
LEMMA ClaimAddsTerms ==
  ASSUME NEW S, IsFiniteSet(S), NEW w, NEW m \in Nat, NEW T, T \subseteq S \cup ({w} \X (1 .. m))
  PROVE  IsFiniteSet(T) /\ Cardinality(T) <= Cardinality(S) + m
<1>1. IsFiniteSet({w}) /\ Cardinality({w}) = 1
  BY FS_Singleton
<1>2. IsFiniteSet(1 .. m) /\ Cardinality(1 .. m) = m
  BY FS_Interval
<1>3. IsFiniteSet({w} \X (1 .. m)) /\ Cardinality({w} \X (1 .. m)) = m
  <2>1. /\ IsFiniteSet({w} \X (1 .. m))
        /\ Cardinality({w} \X (1 .. m)) = Cardinality({w}) * Cardinality(1 .. m)
    BY <1>1, <1>2, FS_Product
  <2> QED BY <1>1, <1>2, <2>1
<1> DEFINE U == {w} \X (1 .. m)
<1>4. /\ IsFiniteSet(S \cup U)
      /\ Cardinality(S \cup U) = Cardinality(S) + Cardinality(U) - Cardinality(S \cap U)
      /\ IsFiniteSet(S \cap U)
  BY <1>3, FS_Union, FS_Intersection
<1>5. Cardinality(S \cap U) \in Nat /\ Cardinality(S) \in Nat
  BY <1>4, FS_CardinalityType
<1>6. IsFiniteSet(T) /\ Cardinality(T) <= Cardinality(S \cup U)
  BY <1>4, FS_Subset
<1>7. Cardinality(T) \in Nat
  BY <1>6, FS_CardinalityType
<1> QED BY <1>3, <1>4, <1>5, <1>6, <1>7

LEMMA Products ==
  ASSUME NEW a \in Nat, NEW m \in Nat
  PROVE  a * m \in Nat /\ (a + 1) * m = a * m + m
OBVIOUS

Dispatching == \E w \in Workers, outcome \in DispatchOutcomes : Dispatch(w, outcome)

(* Only a dispatch has effects, and no other step changes how often a      *)
(* counted worker dispatched.                                              *)
LEMMA RunsStay ==
  ASSUME Lives, Honest, [GatewayNext]_allVars, ~Dispatching
  PROVE  /\ effects' = effects
         /\ \A w \in Workers, c \in Commands :
              w \in Counted(c)' => run'[w].attempts = run[w].attempts
<1> DEFINE Goal == /\ effects' = effects
                   /\ \A w \in Workers, c \in Commands :
                        w \in Counted(c)' => run'[w].attempts = run[w].attempts
<1>0. RunTyped /\ WorkersTyped /\ \A w \in Workers : worker[w] \in WorkerCall
  BY TypedParts DEF Lives, Calls, Consent, Honest, WorkersTyped
<1>1. CASE UNCHANGED <<effects, run>>
  BY <1>1
<1>2. ASSUME NEW w \in Workers, EndGraph(w) PROVE Goal
  <2>1. effects' = effects /\ \E ok : run' = [run EXCEPT ![w].verified = ok]
    BY <1>2 DEF EndGraph
  <2> QED BY <1>0, <2>1 DEF RunTyped
<1>3. ASSUME NEW w \in Workers, FinishRequest(w) \/ LoseRun(w) PROVE Goal
  <2>1. /\ effects' = effects /\ run' = [run EXCEPT ![w] = NotRun]
        /\ \/ worker' = [worker EXCEPT ![w].pc = "ledger"]
           \/ worker' = [worker EXCEPT ![w] = NoWork]
    BY <1>3 DEF FinishRequest, FinishCommand, LoseRun, WorkerDies
  <2>2. worker'[w].pc \in {"ledger", "idle"} /\ \A v \in Workers \ {w} : run'[v] = run[v]
    BY <1>0, <2>1 DEF RunTyped, WorkersTyped, WorkerCall, NoWork
  <2> QED BY <2>1, <2>2 DEF Counted
<1>4. CASE \/ Submission
           \/ \E w \in Workers : ClaimRequest(w) \/ HeartbeatRequest(w)
           \/ \E o \in Operators : Overwrite(o)
           \/ \E c \in Commands : Review(c)
           \/ StoreStep
           \/ UNCHANGED allVars
  BY <1>1, <1>4 DEF Submission, SubmitRequest, ResubmitRequest, ClaimRequest, HeartbeatRequest,
     Overwrite, Review, StoreStep, allVars, gatewayVars
<1> QED BY <1>2, <1>3, <1>4 DEF GatewayNext, Submission, Dispatching

(* Without a dispatch what remains only shrinks, or a claim adds to it.    *)
LEMMA RemainingStep ==
  ASSUME Lives, RowsOfRequests, Honest, [GatewayNext]_allVars, ~Dispatching,
         NEW c \in Live, class[c] <= 1 \/ stalls = 0
  PROVE  \/ Remaining(c)' \subseteq Remaining(c) /\ attempts'[c] = attempts[c]
         \/ \E w \in Workers :
              /\ Remaining(c)' \subseteq Remaining(c) \cup ({w} \X (1 .. Terms(c).maxAttempts))
              /\ attempts'[c] = attempts[c] + 1
<1>0. c \in Commands /\ Terms(c)' = Terms(c)
  BY TermsStay DEF Live
<1>1. \A w \in Counted(c)' : w \in Workers /\ run'[w].attempts = run[w].attempts
  BY <1>0, RunsStay DEF Counted
<1>2. \A p \in Remaining(c)' :
        /\ p \in Counted(c)' \X (1 .. Terms(c).maxAttempts)
        /\ p[2] > run[p[1]].attempts
  BY <1>0, <1>1 DEF Remaining
<1>3. CASE Counted(c)' \subseteq Counted(c) /\ attempts'[c] = attempts[c]
  BY <1>2, <1>3 DEF Remaining
<1>4. ASSUME NEW w \in Workers, Counted(c)' \subseteq Counted(c) \cup {w},
             attempts'[c] = attempts[c] + 1
      PROVE  Remaining(c)' \subseteq Remaining(c) \cup ({w} \X (1 .. Terms(c).maxAttempts))
  BY <1>2, <1>4 DEF Remaining
<1>5. \/ Counted(c)' \subseteq Counted(c) /\ attempts'[c] = attempts[c]
      \/ \E w \in Workers : /\ Counted(c)' \subseteq Counted(c) \cup {w}
                            /\ attempts'[c] = attempts[c] + 1
  BY <1>0, GatewayStep, CountedStep DEF Lives
<1> QED BY <1>3, <1>4, <1>5

(* A dispatch uses up what remained for its worker.                        *)
LEMMA DispatchRemaining ==
  ASSUME Lives, RowsOfRequests, Honest, NEW w \in Workers, NEW outcome \in DispatchOutcomes,
         Dispatch(w, outcome), NEW c \in Live, c = worker[w].cmd
  PROVE  /\ <<w, run[w].attempts + 1>> \in Remaining(c)
         /\ Remaining(c)' \subseteq Remaining(c) \ {<<w, run[w].attempts + 1>>}
         /\ \A d \in Live \ {c} : Remaining(d)' = Remaining(d)
<1>0. /\ RunTyped /\ Attempted(w) /\ command' = command /\ Counted(c)' = Counted(c)
      /\ \A d \in Live : Counted(d)' = Counted(d)
  BY DEF Honest, RunIsHonest, Dispatch, Counted
<1>1. PICK m \in 1 .. 10 : m = Terms(c).maxAttempts
  BY TermsTyped DEF RowsOfRequests, Terms
<1>2. run[w].attempts \in 0 .. m - 1 /\ w \in Counted(c)
  <2>1. run[w].attempts \in 0 .. m /\ run[w].attempts # m
    BY <1>0, <1>1 DEF Attempted, Dispatch, Dispatched, Terms
  <2> QED BY <2>1 DEF Dispatch, Counted
<1>3. /\ run' = [run EXCEPT ![w] = [attempts |-> run[w].attempts + 1, outcome |-> outcome,
                                    verified |-> FALSE]]
  BY <1>0 DEF Dispatch, RunTyped
<1>4. /\ run'[w].attempts = run[w].attempts + 1
      /\ \A v \in Workers \ {w} : run'[v].attempts = run[v].attempts
  BY <1>0, <1>3 DEF RunTyped
<1>5. <<w, run[w].attempts + 1>> \in Remaining(c)
  BY <1>1, <1>2 DEF Remaining
<1>6. Terms(c)' = Terms(c) /\ \A d \in Live : Terms(d)' = Terms(d)
  BY <1>0 DEF Terms
<1>7. ASSUME NEW p \in Remaining(c)' PROVE p \in Remaining(c) \ {<<w, run[w].attempts + 1>>}
  <2>1. PICK v \in Counted(c), n \in 1 .. m : p = <<v, n>> /\ n > run'[v].attempts
    BY <1>0, <1>1, <1>6 DEF Remaining
  <2>2. n > run[v].attempts /\ p # <<w, run[w].attempts + 1>>
    BY <1>2, <1>4, <2>1 DEF Counted
  <2> QED BY <1>1, <2>1, <2>2 DEF Remaining
<1>8. ASSUME NEW d \in Live \ {c} PROVE Remaining(d)' = Remaining(d)
  <2>1. Counted(d)' = Counted(d) /\ Terms(d)' = Terms(d)
    BY <1>0, <1>6
  <2>2. \A v \in Counted(d) : run'[v].attempts = run[v].attempts
    BY <1>4 DEF Counted
  <2> QED BY <2>1, <2>2 DEF Remaining
<1> QED BY <1>5, <1>7, <1>8

LEMMA EffectsNext ==
  Lives /\ RowsOfRequests /\ Honest /\ AttemptsCover /\ EffectsCovered /\ [GatewayNext]_allVars =>
    EffectsCovered'
<1> SUFFICES ASSUME Lives, RowsOfRequests, Honest, AttemptsCover, EffectsCovered,
                    [GatewayNext]_allVars
             PROVE  EffectsCovered'
  OBVIOUS
<1>0. /\ RowsTyped /\ WorkersTyped /\ RowsRemember /\ LeaseLife /\ None \notin Commands
      /\ Live \subseteq Commands
      /\ \A c \in Commands : effects[c] \in Nat /\ attempts[c] \in Nat /\ attempts'[c] \in Nat
      /\ \A c \in Commands \ Live : effects[c] = 0
  <2>1. Typed'
    BY GatewayStep, NextTyped DEF Lives, Calls
  <2>2. \A c \in Commands : attempts'[c] \in Nat
    BY <2>1, TypedPartsNext DEF RowsTyped
  <2>3. \A c \in Commands : attempts[c] \in Nat
    BY TypedParts DEF RowsTyped, Lives, Calls
  <2> QED BY <2>2, <2>3, TypedParts, NoneAssumption, CommandsAssumption
          DEF Lives, Calls, Consent, Leases, EffectsCovered, Live
<1>t. \A c \in Live : c \in Live' /\ command'[c] = command[c] /\ Terms(c)' = Terms(c)
  BY TermsStay
<1>m. \A c \in Live : Terms(c).maxAttempts \in 1 .. 10
  BY TermsTyped DEF RowsOfRequests, Terms
<1>c. ASSUME NEW c \in Live, class'[c] <= 1 \/ stalls' = 0
      PROVE  /\ class[c] <= 1 \/ stalls = 0
             /\ IsFiniteSet(Remaining(c)) /\ Cardinality(Remaining(c)) \in Nat
             /\ effects[c] + Cardinality(Remaining(c)) <= attempts[c] * Terms(c).maxAttempts
  <2>1. class[c] <= 1 \/ stalls = 0
    BY <1>0, <1>c, GatewayStep, CommandsStay, StallsStay DEF Lives, Calls, Live
  <2> QED BY <2>1, RemainingIsFinite DEF EffectsCovered
<1>1. CASE ~Dispatching
  <2>1. effects' = effects
    BY <1>1, RunsStay
  <2>2. \A c \in Commands \ Live' : effects'[c] = 0
    BY <1>0, <1>t, <2>1
  <2>3. ASSUME NEW c \in Live' \ Live
        PROVE  effects'[c] + Cardinality(Remaining(c)') <= attempts'[c] * Terms(c)'.maxAttempts
    <3>1. CASE Submission
      <4>1. worker' = worker /\ c \in Commands
        BY <3>1 DEF Submission, SubmitRequest, Submit, ResubmitRequest, SubmitReplacement, Live
      <4>2. \A w \in Workers : worker[w].cmd # c
        BY <1>0, <2>3, <4>1 DEF RowsRemember, LeaseLife, Live
      <4>3. Counted(c)' = {}
        BY <4>1, <4>2 DEF Counted
      <4>4. Remaining(c)' = {}
        BY <4>3 DEF Remaining
      <4>5. PICK r : IsRequest(r) /\ command'[c] = Stored(r)
        BY <2>3, RowsOfRequestsNext DEF RowsOfRequests, Lives
      <4>6. PICK m \in 1 .. 10 : m = Terms(c)'.maxAttempts
        BY <4>5, TermsTyped DEF Terms
      <4>7. attempts'[c] * m \in Nat
        BY <1>0, <4>1, Products
      <4>8. effects'[c] = 0 /\ Cardinality(Remaining(c)') = 0
        BY <1>0, <2>1, <2>3, <4>1, <4>4, FS_EmptySet
      <4> QED BY <4>6, <4>7, <4>8
    <3>2. CASE ~Submission
      BY <2>3, <3>2, RowsStay DEF Lives
    <3> QED BY <3>1, <3>2
  <2>4. ASSUME NEW c \in Live, class'[c] <= 1 \/ stalls' = 0
        PROVE  effects'[c] + Cardinality(Remaining(c)') <= attempts'[c] * Terms(c)'.maxAttempts
    <3>1. PICK m \in 1 .. 10, a \in Nat, e \in Nat :
            m = Terms(c).maxAttempts /\ a = attempts[c] /\ e = effects[c]
      BY <1>0, <1>m
    <3>2. Terms(c)'.maxAttempts = m /\ effects'[c] = e
      BY <1>t, <2>1, <3>1
    <3>3. /\ class[c] <= 1 \/ stalls = 0
          /\ IsFiniteSet(Remaining(c)) /\ Cardinality(Remaining(c)) \in Nat
          /\ e + Cardinality(Remaining(c)) <= a * m
      BY <1>c, <2>4, <3>1
    <3>4. CASE Remaining(c)' \subseteq Remaining(c) /\ attempts'[c] = a
      <4>1. /\ Cardinality(Remaining(c)') <= Cardinality(Remaining(c))
            /\ Cardinality(Remaining(c)') \in Nat
        BY <3>3, <3>4, FS_Subset, FS_CardinalityType
      <4>2. a * m \in Nat
        BY Products
      <4> QED BY <3>2, <3>3, <3>4, <4>1, <4>2
    <3>5. ASSUME NEW w \in Workers, Remaining(c)' \subseteq Remaining(c) \cup ({w} \X (1 .. m)),
                 attempts'[c] = a + 1
          PROVE  e + Cardinality(Remaining(c)') <= attempts'[c] * m
      <4>1. /\ IsFiniteSet(Remaining(c)')
            /\ Cardinality(Remaining(c)') <= Cardinality(Remaining(c)) + m
        <5>1. PICK S, T : S = Remaining(c) /\ T = Remaining(c)'
          OBVIOUS
        <5>2. IsFiniteSet(S) /\ T \subseteq S \cup ({w} \X (1 .. m)) /\ m \in Nat
          BY <3>3, <3>5, <5>1
        <5>3. IsFiniteSet(T) /\ Cardinality(T) <= Cardinality(S) + m
          BY <5>2, ClaimAddsTerms
        <5> QED BY <5>1, <5>3
      <4>2. Cardinality(Remaining(c)') \in Nat
        BY <4>1, FS_CardinalityType
      <4>3. a * m \in Nat /\ (a + 1) * m = a * m + m
        BY Products
      <4> QED BY <3>3, <3>5, <4>1, <4>2, <4>3
    <3>6. \/ Remaining(c)' \subseteq Remaining(c) /\ attempts'[c] = a
          \/ \E w \in Workers : /\ Remaining(c)' \subseteq Remaining(c) \cup ({w} \X (1 .. m))
                                /\ attempts'[c] = a + 1
      BY <1>1, <3>1, <3>3, RemainingStep
    <3> QED BY <3>2, <3>4, <3>5, <3>6
  <2>5. ASSUME NEW c \in Live', Explains(command'[c]) PROVE effects'[c] = 0
    BY <1>0, <1>t, <2>1, <2>5 DEF EffectsCovered, Live
  <2>6. effects' \in [Commands -> Nat]
    BY <2>1 DEF EffectsCovered
  <2> QED BY <2>2, <2>3, <2>4, <2>5, <2>6 DEF EffectsCovered, Explains
<1>2. ASSUME NEW w \in Workers, NEW outcome \in DispatchOutcomes, Dispatch(w, outcome)
      PROVE  EffectsCovered'
  <2>1. PICK c \in Live : c = worker[w].cmd
    BY <1>0, <1>2 DEF Dispatch, WorkersTyped, RowsRemember, Live
  <2>2. /\ UNCHANGED <<attempts, class, stalls, Live, command>>
        /\ effects' = [effects EXCEPT ![c] = IF Explains(command[c]) THEN effects[c]
                                                                     ELSE effects[c] + 1]
    BY <1>2, <2>1 DEF Dispatch, Live
  <2>3. /\ effects' \in [Commands -> Nat]
        /\ effects'[c] <= effects[c] + 1 /\ effects'[c] \in Nat
        /\ Explains(command[c]) => effects'[c] = effects[c]
        /\ \A d \in Commands \ {c} : effects'[d] = effects[d]
    BY <1>0, <2>1, <2>2 DEF EffectsCovered
  <2>4. \A d \in Live : Explains(command[d]) => effects'[d] = 0
    BY <1>0, <2>1, <2>3 DEF EffectsCovered
  <2>5. ASSUME NEW d \in Live, class[d] <= 1 \/ stalls = 0
        PROVE  effects'[d] + Cardinality(Remaining(d)') <= attempts[d] * Terms(d).maxAttempts
    <3>1. CASE d # c
      BY <1>0, <1>2, <2>1, <2>3, <2>5, <3>1, DispatchRemaining DEF EffectsCovered
    <3>2. CASE d = c
      <4>1. PICK total \in Nat, e \in Nat, T \in {Remaining(c)'} :
              total = attempts[c] * Terms(c).maxAttempts /\ e = effects[c]
        BY <1>0, <1>m, <2>1, Products
      <4>2. /\ IsFiniteSet(Remaining(c)) /\ Cardinality(Remaining(c)) \in Nat
            /\ e + Cardinality(Remaining(c)) <= total
        BY <2>2, <2>5, <3>2, <4>1, <1>c
      <4>3. PICK x \in Remaining(c) : T \subseteq Remaining(c) \ {x}
        <5>1. PICK y : y = <<w, run[w].attempts + 1>>
          OBVIOUS
        <5>2. y \in Remaining(c) /\ Remaining(c)' \subseteq Remaining(c) \ {y}
          BY <1>2, <2>1, <5>1, DispatchRemaining
        <5> QED BY <4>1, <5>2
      <4>4. IsFiniteSet(T)
        BY <4>2, <4>3, FS_Subset
      <4>5. Cardinality(T) + 1 <= Cardinality(Remaining(c)) /\ Cardinality(T) \in Nat
        BY <4>2, <4>3, <4>4, DispatchUsesOne, FS_CardinalityType
      <4> QED BY <2>3, <3>2, <4>1, <4>2, <4>5
    <3> QED BY <3>1, <3>2
  <2> QED BY <1>0, <1>t, <2>1, <2>2, <2>3, <2>4, <2>5 DEF EffectsCovered, Explains
<1> QED BY <1>1, <1>2 DEF Dispatching

LEMMA EffectsFollow ==
  ASSUME Lives, RowsOfRequests, AttemptsCover, EffectsCovered
  PROVE  EffectsAreIntended
<1>0. Live \subseteq Commands /\ \A c \in Commands : effects[c] \in Nat /\ attempts[c] \in Nat
  BY TypedParts DEF Lives, Calls, RowsTyped, Live, EffectsCovered
<1>1. ASSUME NEW c \in Live, class[c] <= 1 \/ stalls = 0
      PROVE  /\ effects[c] <= attempts[c] * Terms(c).maxAttempts
             /\ /\ command[c].route.effects # {} /\ command[c].asked.retries = {}
                /\ \A a \in command[c].action : ~a.safe
                => effects[c] <= attempts[c]
  <2>1. PICK r : IsRequest(r) /\ command[c] = Stored(r)
    BY DEF RowsOfRequests
  <2>2. PICK m \in 1 .. 10 : m = Terms(c).maxAttempts
    BY <2>1, TermsTyped DEF Terms
  <2>3. attempts[c] * m \in Nat /\ Cardinality(Remaining(c)) \in Nat
        /\ effects[c] + Cardinality(Remaining(c)) <= attempts[c] * m
    BY <1>0, <1>1, <2>2, Products, RemainingIsFinite DEF EffectsCovered
  <2>4. effects[c] <= attempts[c] * m
    BY <1>0, <2>3
  <2>5. /\ command[c].route.effects # {} /\ command[c].asked.retries = {}
        /\ \A a \in command[c].action : ~a.safe
        => m = 1
    <3>1. /\ command[c].route = RouteOf(r) /\ command[c].asked = r
          /\ command[c].action = ActionOf(RouteOf(r)) /\ m = Stored(r).terms.maxAttempts
      BY <2>1, <2>2, StoredIs DEF Terms
    <3>2. /\ r.retries = {} /\ RouteOf(r).effects # {}
          /\ \A a \in ActionOf(RouteOf(r)) : ~a.safe
          => m = 1
      BY <2>1, <3>1, TermsTyped
    <3> QED BY <3>1, <3>2
  <2>6. m = 1 => attempts[c] * m = attempts[c]
    BY <1>0
  <2> QED BY <2>2, <2>4, <2>5, <2>6
<1>2. EffectsAreNotRepeated
  BY <1>1 DEF EffectsAreNotRepeated
<1>3. ASSUME NEW c \in Live, NEW i \in DOMAIN GuardRules,
             Applies(GuardRules[i], command[c].asked.intent)
      PROVE  effects[c] = 0
  <2>1. PICK r : IsRequest(r) /\ command[c] = Stored(r)
    BY DEF RowsOfRequests
  <2>2. Explains(command[c])
    <3>1. command[c].action = ActionOf(RouteOf(r)) /\ command[c].asked = r
      BY <2>1, StoredIs
    <3>2. ActionOf(RouteOf(r)) = {}
      BY <1>3, <3>1, GuardedHasNoAction
    <3> QED BY <3>1, <3>2 DEF Explains
  <2> QED BY <2>2 DEF EffectsCovered
<1> QED BY <1>2, <1>3 DEF EffectsAreIntended, GuardedIntentDoesNothing

(* No effect the operator did not ask for, with any number of workers,     *)
(* retries, crashes and reclaims: none is repeated beyond the attempts of  *)
(* the claims, and none follows from a destructive intent.                 *)
THEOREM EffectsAlwaysIntended == GatewaySpec => []EffectsAreIntended
<1>1. Lives /\ RowsOfRequests /\ Honest /\ [GatewayNext]_allVars => Honest'
  BY RunsNext, ResultsNext DEF Honest
<1>2. Lives /\ RowsOfRequests /\ AttemptsCover /\ EffectsCovered => EffectsAreIntended
  BY EffectsFollow
<1> QED
  BY <1>1, <1>2, GatewayHolds, GatewayIsAStore, CoverHolds, InitHonest, InitEffects, EffectsNext,
     PTL DEF GatewaySpec

-----------------------------------------------------------------------------
(* Briefs                                                                  *)

(* The commands there are, and which row is the later one of two.          *)
RowsAreOrdered ==
  /\ IsFiniteSet(Live)
  /\ \A c \in Commands : <<c, c>> \notin newer

LEMMA InitOrder == GatewayInit => RowsAreOrdered
<1> SUFFICES ASSUME GatewayInit PROVE RowsAreOrdered
  OBVIOUS
<1>1. Live = {} /\ newer = {}
  BY DEF GatewayInit, Init, Live
<1> QED BY <1>1, FS_EmptySet DEF RowsAreOrdered

(* A step leaves the order of the rows alone or makes one row the latest.  *)
LEMMA OrderSteps ==
  ASSUME [GatewayNext]_allVars
  PROVE  newer' = newer \/ \E c : Updated(c)
<1>1. ASSUME NEW w \in Workers, ClaimRequest(w) PROVE \E c : Updated(c)
  BY <1>1 DEF ClaimRequest
<1> QED
  BY <1>1 DEF GatewayNext, SubmitRequest, ResubmitRequest, HeartbeatRequest, EndGraph,
     FinishRequest, LoseRun, Dispatch, Overwrite, Review, StoreStep, allVars, gatewayVars

LEMMA OrderNext ==
  Lives /\ RowsOfRequests /\ RowsAreOrdered /\ [GatewayNext]_allVars => RowsAreOrdered'
<1> SUFFICES ASSUME Lives, RowsOfRequests, RowsAreOrdered, [GatewayNext]_allVars
             PROVE  RowsAreOrdered'
  OBVIOUS
<1>1. IsFiniteSet(Live')
  <2>1. CASE Submission
    <3>1. PICK c, row : Added(c, row)
      BY <2>1, RowAdded DEF Lives
    <3> QED BY <3>1, FS_AddElement DEF Added, RowsAreOrdered
  <2>2. CASE ~Submission
    BY <2>2, RowsStay DEF Lives, RowsAreOrdered
  <2> QED BY <2>1, <2>2
<1>2. \A c \in Commands : <<c, c>> \notin newer'
  <2>1. CASE newer' = newer
    BY <2>1 DEF RowsAreOrdered
  <2>2. ASSUME NEW d, Updated(d) PROVE \A c \in Commands : <<c, c>> \notin newer'
    BY <2>2 DEF RowsAreOrdered, Updated
  <2> QED BY <2>1, <2>2, OrderSteps
<1> QED BY <1>1, <1>2 DEF RowsAreOrdered

LEMMA OrderHolds == GatewaySpec => []RowsAreOrdered
<1> QED BY GatewayHolds, InitOrder, OrderNext, PTL DEF GatewaySpec

(* The calls the reports name are calls the store takes.                   *)
LEMMA AdviceFollows == AdviceIsAccepted
<1> SUFFICES ASSUME NEW c \in Live, NEW aged, 
                    NEW call \in OperatorAdvice(c, aged) \cup RecoveryCalls(c, aged)
             PROVE  Accepts(call, c)
  BY DEF AdviceIsAccepted
<1>1. call = "retry" => status[c] \in {"failed", "canceled"}
  BY DEF OperatorAdvice, RecoveryCalls
<1>2. call = "requeue" => status[c] \in {"queued", "running", "blocked_approval"}
  BY DEF OperatorAdvice, RecoveryCalls
<1>3. call = "resume" => status[c] = "blocked_approval"
  BY DEF OperatorAdvice, RecoveryCalls
<1>4. call = "cancel" => status[c] \notin Terminal \cup {"absent"}
  BY DEF OperatorAdvice, RecoveryCalls, Terminal
<1>5. call \in {"retry", "requeue", "resume", "cancel"}
  BY DEF OperatorAdvice, RecoveryCalls
<1> QED BY <1>1, <1>2, <1>3, <1>4, <1>5 DEF Accepts

(* A row that is not in the brief was pushed out of it.                    *)
LEMMA OutsideBrief ==
  ASSUME RowsAreOrdered, NEW limit \in Limits, NEW c \in Live, c \notin InBrief(limit)
  PROVE  PushedOut(c, limit)
<1>1. PICK S : S = {d \in Live : Later(d, c)}
  OBVIOUS
<1>2. IsFiniteSet(S)
  <2>1. S \in SUBSET Live /\ IsFiniteSet(Live)
    BY <1>1 DEF RowsAreOrdered
  <2> QED BY <2>1, FS_Subset
<1>3. Cardinality(S) \in Nat /\ limit \in Nat
  BY <1>2, FS_CardinalityType, BriefAssumption
<1>4. ~(Cardinality(S) < limit)
  BY <1>1 DEF InBrief
<1>5. Cardinality(S) >= limit
  BY <1>3, <1>4
<1> QED BY <1>1, <1>5 DEF PushedOut

(* A failure is unresolved as long as it is in the window, the brief reads *)
(* it, it is among the latest, and no success of the same work follows it. *)
LEMMA FailureShows ==
  ASSUME RowsAreOrdered, NEW limit \in Limits, NEW old \in Windows, NEW c \in Live,
         status[c] = "failed", c \notin Unresolved(limit, old)
  PROVE  \/ PushedOut(c, limit) \/ c \in old
         \/ Cardinality(LaterFailures(c, Live)) >= Shown
         \/ \E d \in Live : status[d] = "completed" /\ Later(d, c) /\ SameWork(c, d)
<1>1. PICK rows : rows = InBrief(limit) \ old
  OBVIOUS
<1>2. rows \subseteq Live
  BY <1>1 DEF InBrief
<1>3. CASE c \notin rows
  BY <1>1, <1>3, OutsideBrief
<1>4. CASE c \in rows /\ c \notin RecentFailed(rows)
  <2>1. PICK S, T : S = LaterFailures(c, Live) /\ T = LaterFailures(c, rows)
    OBVIOUS
  <2>2. T \subseteq S /\ S \in SUBSET Live /\ IsFiniteSet(Live)
    BY <1>2, <2>1 DEF LaterFailures, RowsAreOrdered
  <2>3. IsFiniteSet(S)
    BY <2>2, FS_Subset
  <2>4. IsFiniteSet(T) /\ Cardinality(T) <= Cardinality(S)
    BY <2>2, <2>3, FS_Subset
  <2>5. Cardinality(S) \in Nat /\ Cardinality(T) \in Nat /\ Shown \in Nat
    BY <2>3, <2>4, FS_CardinalityType, BriefAssumption
  <2>6. ~(Cardinality(T) < Shown)
    BY <1>4, <2>1 DEF RecentFailed
  <2>7. Cardinality(S) >= Shown
    BY <2>4, <2>5, <2>6
  <2> QED BY <2>1, <2>7
<1>5. CASE c \in RecentFailed(rows)
  <2>1. \E d \in rows : status[d] = "completed" /\ Later(d, c) /\ SameWork(c, d)
    BY <1>1, <1>5 DEF Unresolved
  <2> QED BY <1>2, <2>1
<1> QED BY <1>3, <1>4, <1>5

(* Ready means that every check passes.                                    *)
LEMMA ReadyIs ==
  ASSUME NEW limit, NEW old, Readiness({}, limit, old) = "ready"
  PROVE  /\ \A c \in Live : ~Lapsed(c)
         /\ \A c \in InBrief(limit) : status[c] \notin {"blocked_approval", "blocked_policy"}
         /\ Unresolved(limit, old) = {}
<1>1. PICK checks : checks = Checks({}, limit, old)
  OBVIOUS
<1>2. checks.leases = "pass" /\ checks.blockers = "pass" /\ checks.failures = "pass"
  <2>1. "fail" \notin {checks[k] : k \in DOMAIN checks}
        /\ "warn" \notin {checks[k] : k \in DOMAIN checks}
    BY <1>1 DEF Readiness
  <2>2. /\ {"leases", "blockers", "failures"} \subseteq DOMAIN checks
        /\ checks.leases \in {"pass", "fail"} /\ checks.blockers \in {"pass", "fail"}
        /\ checks.failures \in {"pass", "warn"}
    BY <1>1 DEF Checks, Passing
  <2> QED BY <2>1, <2>2
<1>3. \A c \in Live : ~Lapsed(c)
  BY <1>1, <1>2 DEF Checks, Passing
<1>4. \A c \in InBrief(limit) : status[c] \notin {"blocked_approval", "blocked_policy"}
  BY <1>1, <1>2 DEF Checks, Passing
<1>5. Unresolved(limit, old) = {}
  BY <1>1, <1>2 DEF Checks, Passing
<1> QED BY <1>3, <1>4, <1>5

LEMMA BriefsFollow == RowsAreOrdered => BriefsAreTrue
<1> SUFFICES ASSUME RowsAreOrdered PROVE ReadinessIsHonest
  BY AdviceFollows DEF BriefsAreTrue
<1> SUFFICES ASSUME NEW limit \in Limits, NEW old \in Windows,
                    Readiness({}, limit, old) = "ready"
             PROVE  /\ \A c \in Live : ~Lapsed(c)
                    /\ \A c \in Live :
                         status[c] \in {"blocked_approval", "blocked_policy"} =>
                           PushedOut(c, limit)
                    /\ \A c \in Live : status[c] = "failed" =>
                         \/ PushedOut(c, limit) \/ c \in old
                         \/ Cardinality(LaterFailures(c, Live)) >= Shown
                         \/ \E d \in Live :
                              /\ status[d] = "completed"
                              /\ Later(d, c)
                              /\ command[d].route.verb = command[c].route.verb
                              /\ command[d].route.project = command[c].route.project
  BY DEF ReadinessIsHonest
<1>1. /\ \A c \in Live : ~Lapsed(c)
      /\ \A c \in InBrief(limit) : status[c] \notin {"blocked_approval", "blocked_policy"}
      /\ Unresolved(limit, old) = {}
  BY ReadyIs
<1>2. ASSUME NEW c \in Live, status[c] \in {"blocked_approval", "blocked_policy"}
      PROVE  PushedOut(c, limit)
  BY <1>1, <1>2, OutsideBrief
<1>3. ASSUME NEW c \in Live, status[c] = "failed"
      PROVE  \/ PushedOut(c, limit) \/ c \in old
             \/ Cardinality(LaterFailures(c, Live)) >= Shown
             \/ \E d \in Live : status[d] = "completed" /\ Later(d, c) /\ SameWork(c, d)
  BY <1>1, <1>3, FailureShows
<1>4. \A c, d : SameWork(c, d) => /\ command[d].route.verb = command[c].route.verb
                                  /\ command[d].route.project = command[c].route.project
  BY DEF SameWork
<1> QED BY <1>1, <1>2, <1>3, <1>4

(* What the briefs advise and announce is true of the store, whatever is   *)
(* in it, however many rows the brief reads and however far it looks back. *)
THEOREM BriefsAlwaysTrue == GatewaySpec => []BriefsAreTrue
<1> QED BY OrderHolds, BriefsFollow, PTL

(* Only the end of its run completes a command, and makes its row the      *)
(* latest.                                                                 *)
LEMMA CompletionStep ==
  ASSUME Lives, [GatewayNext]_allVars, NEW d \in Commands,
         status[d] # "completed", status'[d] = "completed"
  PROVE  d \in Live /\ Updated(d) /\ command' = command /\ Live' = Live
<1>0. RowsTyped /\ WorkersTyped /\ OpsTyped /\ RowsRemember
  BY TypedParts DEF Lives, Calls, Consent
<1>1. ASSUME NEW w \in Workers, FinishRequest(w)
      PROVE  d \in Live /\ Updated(d) /\ command' = command /\ Live' = Live
  <2>1. d = worker[w].cmd /\ d \in Live
    BY <1>0, <1>1 DEF FinishRequest, FinishCommand, RowsTyped, RowsRemember, Live
  <2> QED BY <1>0, <1>1, <2>1 DEF FinishRequest, FinishCommand, RowsTyped, Live
<1>2. ASSUME NEW o \in Operators, Overwrite(o) PROVE FALSE
  BY <1>0, <1>2 DEF Overwrite, CancelWrite, ResumeWrite, RowsTyped, OpsTyped
<1>3. ASSUME NEW c \in Commands, NEW k, NEW src, Insert(c, k, src) PROVE FALSE
  BY <1>0, <1>3 DEF Insert, InitialStatus, RowsTyped
<1>4. CASE Submission
  BY <1>3, <1>4 DEF Submission, SubmitRequest, Submit, ResubmitRequest, SubmitReplacement
<1>5. CASE \E w \in Workers : ClaimRequest(w)
  BY <1>0, <1>5 DEF ClaimRequest, Claim, ClaimableBy, RowsTyped
<1>6. CASE \/ \E w \in Workers : HeartbeatRequest(w) \/ EndGraph(w) \/ LoseRun(w)
           \/ \E w \in Workers, outcome \in DispatchOutcomes : Dispatch(w, outcome)
           \/ \E c \in Commands : Review(c)
           \/ UNCHANGED allVars
  BY <1>6 DEF HeartbeatRequest, Heartbeat, EndGraph, Executed, LoseRun, WorkerDies, Dispatch,
     Review, allVars, gatewayVars
<1>7. CASE StoreStep
  BY <1>7 DEF StoreStep, ReadClaim, FinishActivity, AppendTerminalEvent,
     LeaseLapses, OperatorCall, Cancel, Retry, Requeue, Resume, PolicyConsume, Begin, CancelRead,
     CancelMark, ReadTokens, ConsumeToken, ResumeMark, OperatorDies, Approve
<1> QED BY <1>1, <1>2, <1>4, <1>5, <1>6, <1>7 DEF GatewayNext, Submission

(* The row that was updated is in every brief.                             *)
LEMMA UpdatedIsRead ==
  ASSUME RowsAreOrdered, NEW d \in Live, Updated(d), Live' = Live, NEW limit \in Limits
  PROVE  d \in InBrief(limit)'
<1>1. ASSUME NEW e \in Live PROVE <<e, d>> \notin newer'
  BY DEF Updated, RowsAreOrdered
<1>2. {e \in Live : Later(e, d)}' = {}
  BY <1>1 DEF Later
<1>3. Cardinality({}) = 0 /\ 0 < limit
  BY FS_EmptySet, BriefAssumption
<1> QED BY <1>2, <1>3 DEF InBrief

LEMMA ResolvesStep ==
  ASSUME Lives, RowsAreOrdered, RowsOfRequests, [GatewayNext]_allVars,
         NEW c \in Commands, NEW d \in Commands,
         source[d] = c, command[c].asked.payload = NoPayload, status[c] = "failed",
         status[d] # "completed", status'[d] = "completed",
         NEW limit \in Limits, NEW old \in Windows'
  PROVE  c \notin Unresolved(limit, old)'
<1>0. /\ d \in Live /\ Updated(d) /\ command' = command /\ Live' = Live
      /\ c \in Live /\ c # None
  BY CompletionStep, NoneAssumption, CommandsAssumption DEF Live
<1>1. CASE c = d
  BY <1>1 DEF Unresolved, RecentFailed
<1>2. CASE c # d
  <2>1. PICK r : IsRequest(r) /\ command[c] = Stored(r)
    BY <1>0 DEF RowsOfRequests
  <2>2. PICK s : s = Resubmitted(Stored(r)) /\ command[d] = Stored(s)
    BY <1>0, <2>1 DEF RowsOfRequests
  <2>3. r.payload = NoPayload
    BY <2>1, StoredIs
  <2>4. /\ RouteOf(s).project = RouteOf(r).project /\ RouteOf(s).verb = RouteOf(r).verb
        /\ RouteOf(s).lane = RouteOf(r).lane
    BY <2>1, <2>2, <2>3, TermsKept
  <2>5. command[c].route = RouteOf(r) /\ command[d].route = RouteOf(s)
    BY <2>1, <2>2, StoredIs
  <2>6. SameWork(c, d)'
    BY <1>0, <2>4, <2>5 DEF SameWork
  <2>7. Later(d, c)'
    BY <1>0, <1>2 DEF Updated, Later
  <2>8. c \notin old => d \notin old
    BY <1>0, <2>7 DEF Windows
  <2>9. d \in InBrief(limit)'
    BY <1>0, UpdatedIsRead
  <2> QED BY <2>6, <2>7, <2>8, <2>9 DEF Unresolved, RecentFailed
<1> QED BY <1>1, <1>2

(* A retry that completes takes the failure of its source out of the brief *)
(* in the same step, whenever the source was routed by its words, however  *)
(* few rows the brief reads.                                               *)
THEOREM RetryAlwaysResolves == GatewaySpec => RetryResolves
<1>1. Lives /\ RowsAreOrdered /\ RowsOfRequests /\ [GatewayNext]_allVars =>
        [\A c, d \in Commands :
           /\ source[d] = c /\ command[c].asked.payload = NoPayload
           /\ status[c] = "failed" /\ status[d] # "completed" /\ status'[d] = "completed"
           => (\A limit \in Limits, old \in Windows : c \notin Unresolved(limit, old))']_allVars
  BY ResolvesStep
<1> QED BY <1>1, OrderHolds, GatewayHolds, PTL DEF GatewaySpec, RetryResolves

=============================================================================
