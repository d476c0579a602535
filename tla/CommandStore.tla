---------------------------- MODULE CommandStore ----------------------------
(***************************************************************************)
(* The command queue of Frontier OS (commands/store.ts) with the workers   *)
(* that drain it (commands/worker.ts) and the operator calls made on it    *)
(* by the CLI, the daemon and the MCP bridge.                              *)
(*                                                                         *)
(* Every process opens its own CommandStore on one SQLite file.  Code      *)
(* inside a process runs to completion, so another process gets in only    *)
(* between two SQL statements, or two transactions: one action per         *)
(* statement that reads or writes a row another process may write.         *)
(* Workers also let time pass while the plan executes.                     *)
(*                                                                         *)
(* planCommand gives every command exactly one activity, so the activity   *)
(* row is kept with its command.                                           *)
(***************************************************************************)
EXTENDS Policy

CONSTANTS
  Commands,     \* command ids, ordered as their requested_at
  Workers,      \* worker processes (workerId)
  Operators,    \* processes that make operator calls
  MaxClass,     \* MaxClass[w]: --max-approval-class of worker w, 3 for none
  Classes,      \* the approval classes that are submitted
  Offered,      \* the operator calls that are made in this instance
  MaxCrashes,   \* bound on processes that die in mid-call
  MaxStalls     \* bound on leases that lapse under a living worker

OperatorCalls == {"cancel", "resume", "retry", "requeue", "preflight",
                  "approval_approve", "policy_approve", "policy_consume"}

ASSUME CommandsAssumption == Commands \subseteq Nat /\ Traces = Commands
ASSUME WorkersAssumption == None \notin Workers
ASSUME ClassesAssumption ==
  /\ Classes \subseteq ApprovalClasses
  /\ MaxClass \in [Workers -> ApprovalClasses]
ASSUME OfferedAssumption == Offered \subseteq OperatorCalls
ASSUME BoundsAssumption == MaxCrashes \in Nat /\ MaxStalls \in Nat

VARIABLES
  status,       \* commands.status, "absent" before the insert
  class,        \* commands.approval_class
  leaseOwner,   \* commands.lease_owner
  leaseUntil,   \* commands.lease_until: null, ahead of now, or passed
  activity,     \* command_activities.status
  attempts,     \* command_activities.attempts
  source,       \* payload.sourceCommandId of a retry or requeue replacement
  terminal,     \* kinds of the terminal events ledgered for the command
  worker,       \* the call each worker process is in
  op,           \* the call each operator process is in
  crashes,      \* processes that died so far
  stalls        \* leases that lapsed under a living worker so far

rowVars == <<status, class, leaseOwner, leaseUntil, activity, attempts, source>>
storeVars == <<rowVars, terminal>>
faultVars == <<crashes, stalls>>
vars == <<storeVars, worker, op, faultVars, approvalVars>>

Terminal == {"completed", "failed", "canceled"}
CommandStatus == {"queued", "running", "blocked_approval", "blocked_policy"} \cup Terminal
ActivityStatus == {"queued", "running", "blocked"} \cup Terminal

WorkerSteps == {"idle", "claimed", "executing", "finish_activity",
                "finish_command", "ledger"}
OperatorSteps == {"idle", "requeue_read", "cancel_read", "cancel_write",
                  "cancel_mark", "submit", "read_tokens", "consume",
                  "resume_write", "resume_mark"}
OperatorKinds == {"none", "cancel", "resume", "retry", "requeue",
                  "preflight", "policy_consume"}

WorkerCall == [pc : WorkerSteps, cmd : Commands \cup {None}, ok : BOOLEAN]
OpCall == [kind : OperatorKinds, pc : OperatorSteps,
           cmd : Commands \cup {None}, token : Tokens \cup {None}]
NoWork == [pc |-> "idle", cmd |-> None, ok |-> FALSE]
NoCall == [kind |-> "none", pc |-> "idle", cmd |-> None, token |-> None]

TypeOK ==
  /\ status \in [Commands -> CommandStatus \cup {"absent"}]
  /\ class \in [Commands -> ApprovalClasses]
  /\ leaseOwner \in [Commands -> Workers \cup {None}]
  /\ leaseUntil \in [Commands -> {"null", "live", "expired"}]
  /\ activity \in [Commands -> ActivityStatus \cup {"absent"}]
  /\ attempts \in [Commands -> Nat]
  /\ source \in [Commands -> Commands \cup {None}]
  /\ terminal \in [Commands -> SUBSET {"command.completed", "command.failed"}]
  /\ worker \in [Workers -> WorkerCall]
  /\ op \in [Operators -> OpCall]
  /\ crashes \in 0 .. MaxCrashes
  /\ stalls \in 0 .. MaxStalls
  /\ ApprovalTypeOK

Init ==
  /\ status = [c \in Commands |-> "absent"]
  /\ class = [c \in Commands |-> 0]
  /\ leaseOwner = [c \in Commands |-> None]
  /\ leaseUntil = [c \in Commands |-> "null"]
  /\ activity = [c \in Commands |-> "absent"]
  /\ attempts = [c \in Commands |-> 0]
  /\ source = [c \in Commands |-> None]
  /\ terminal = [c \in Commands |-> {}]
  /\ worker = [w \in Workers |-> NoWork]
  /\ op = [o \in Operators |-> NoCall]
  /\ crashes = 0
  /\ stalls = 0
  /\ ApprovalInit

-----------------------------------------------------------------------------
(* Submission                                                              *)

InitialStatus(k) ==
  CASE Decision(k, FALSE) = "allow" -> "queued"
    [] Decision(k, FALSE) = "requires_approval" -> "blocked_approval"
    [] OTHER -> "blocked_policy"

ActivityStatusFor(s) == IF s = "queued" THEN "queued" ELSE "blocked"

(* The transaction of submit: the command row and its activity row.        *)
Insert(c, k, src) ==
  /\ status[c] = "absent"
  /\ status' = [status EXCEPT ![c] = InitialStatus(k)]
  /\ class' = [class EXCEPT ![c] = k]
  /\ activity' = [activity EXCEPT ![c] = ActivityStatusFor(InitialStatus(k))]
  /\ source' = [source EXCEPT ![c] = src]
  /\ UNCHANGED <<leaseOwner, leaseUntil, attempts, terminal>>

Submit(c, k) ==
  /\ Insert(c, k, None)
  /\ UNCHANGED <<worker, op, faultVars, approvalVars>>

-----------------------------------------------------------------------------
(* Workers                                                                 *)

(* MUTANT: an expired running row is not selected.                         *)
ClaimableQueued(c) == status[c] = "queued" /\ leaseUntil[c] \in {"null", "expired"}

(* MUTANT: any row with an expired lease is selected, whatever its status. *)
ClaimableLapsed(c) == leaseUntil[c] = "expired" \/ ClaimableQueued(c)

(* The WHERE clause of selectClaimable.                                    *)
Claimable(c) ==
  \/ status[c] = "queued" /\ leaseUntil[c] \in {"null", "expired"}
  \/ status[c] = "running" /\ leaseUntil[c] = "expired"

(* What worker w may claim: anything within its approval class, or only    *)
(* the command named by --command.                                         *)
ClaimableBy(w, wanted) ==
  {c \in Commands : /\ Claimable(c)
                    /\ wanted \in {None, c}
                    /\ class[c] <= MaxClass[w]}

(* The claim starts an attempt of the activity unless that is blocked or   *)
(* finished.                                                               *)
StartAttempt(c) ==
  IF activity[c] \in {"queued", "running"}
    THEN /\ activity' = [activity EXCEPT ![c] = "running"]
         /\ attempts' = [attempts EXCEPT ![c] = @ + 1]
    ELSE UNCHANGED <<activity, attempts>>

(* claimNext: one transaction selects the oldest claimable command, makes  *)
(* it running under a fresh lease and starts an attempt.                   *)
Claim(w, wanted) ==
  /\ worker[w].pc = "idle"
  /\ \E c \in ClaimableBy(w, wanted) :
       /\ \A d \in ClaimableBy(w, wanted) : c <= d
       /\ status' = [status EXCEPT ![c] = "running"]
       /\ leaseOwner' = [leaseOwner EXCEPT ![c] = w]
       /\ leaseUntil' = [leaseUntil EXCEPT ![c] = "live"]
       /\ StartAttempt(c)
       /\ worker' = [worker EXCEPT ![w] = [pc |-> "claimed", cmd |-> c, ok |-> FALSE]]
  /\ UNCHANGED <<class, source, terminal, op, faultVars, approvalVars>>

(* MUTANT: without a running activity the worker returns at once.          *)
ReadClaimOrLeave(w) ==
  /\ worker[w].pc = "claimed"
  /\ worker' = [worker EXCEPT ![w] =
       IF activity[@.cmd] = "running" THEN [@ EXCEPT !.pc = "executing"] ELSE NoWork]
  /\ UNCHANGED <<storeVars, op, faultVars, approvalVars>>

(* claimNext re-reads the command after its transaction, and the worker    *)
(* looks for a running activity in what it read.  Without one it finishes  *)
(* the command as failed.                                                  *)
ReadClaim(w) ==
  /\ worker[w].pc = "claimed"
  /\ worker' = [worker EXCEPT ![w].pc =
       IF activity[worker[w].cmd] = "running" THEN "executing" ELSE "finish_command"]
  /\ UNCHANGED <<storeVars, op, faultVars, approvalVars>>

(* The heartbeat's extendLease: a no-op unless the row is still running    *)
(* under this worker.  The worker does not look at what came of it.        *)
Heartbeat(w) ==
  /\ worker[w].pc = "executing"
  /\ LET c == worker[w].cmd IN
       /\ status[c] = "running"
       /\ leaseOwner[c] = w
       /\ leaseUntil' = [leaseUntil EXCEPT ![c] = "live"]
  /\ UNCHANGED <<status, class, leaseOwner, activity, attempts, source,
                 terminal, worker, op, faultVars, approvalVars>>

(* executeCommandPlan returns: the process exits, times out or is killed,  *)
(* or the work graph ends.                                                 *)
Executed(w, ok) ==
  /\ worker[w].pc = "executing"
  /\ worker' = [worker EXCEPT ![w] =
                  [pc |-> "finish_activity", cmd |-> worker[w].cmd, ok |-> ok]]
  /\ UNCHANGED <<storeVars, op, faultVars, approvalVars>>

(* MUTANT: the activity is completed whatever became of the execution.     *)
FinishActivityCompleted(w) ==
  /\ worker[w].pc = "finish_activity"
  /\ activity' = [activity EXCEPT ![worker[w].cmd] = "completed"]
  /\ worker' = [worker EXCEPT ![w].pc = "finish_command"]
  /\ UNCHANGED <<status, class, leaseOwner, leaseUntil, attempts, source,
                 terminal, op, faultVars, approvalVars>>

(* finishActivity: an update by activity id alone.                         *)
FinishActivity(w) ==
  /\ worker[w].pc = "finish_activity"
  /\ activity' = [activity EXCEPT ![worker[w].cmd] =
                    IF worker[w].ok THEN "completed" ELSE "failed"]
  /\ worker' = [worker EXCEPT ![w].pc = "finish_command"]
  /\ UNCHANGED <<status, class, leaseOwner, leaseUntil, attempts, source,
                 terminal, op, faultVars, approvalVars>>

(* finishCommand: an update by command id alone, whoever holds the lease   *)
(* and whatever the status has become.                                     *)
FinishCommand(w) ==
  /\ worker[w].pc = "finish_command"
  /\ LET c == worker[w].cmd IN
       /\ status' = [status EXCEPT ![c] = IF worker[w].ok THEN "completed" ELSE "failed"]
       /\ leaseOwner' = [leaseOwner EXCEPT ![c] = None]
       /\ leaseUntil' = [leaseUntil EXCEPT ![c] = "null"]
  /\ worker' = [worker EXCEPT ![w].pc = "ledger"]
  /\ UNCHANGED <<class, activity, attempts, source, terminal, op, faultVars, approvalVars>>

(* finishCommand reads the row again and appends the terminal event for    *)
(* what it then finds.                                                     *)
AppendTerminalEvent(w) ==
  /\ worker[w].pc = "ledger"
  /\ terminal' = [terminal EXCEPT ![worker[w].cmd] = @ \cup
       {IF status[worker[w].cmd] = "completed" THEN "command.completed"
                                               ELSE "command.failed"}]
  /\ worker' = [worker EXCEPT ![w] = NoWork]
  /\ UNCHANGED <<rowVars, op, faultVars, approvalVars>>

WorkerStep(w) ==
  \/ ReadClaim(w)
  \/ \E ok \in BOOLEAN : Executed(w, ok)
  \/ FinishActivity(w)
  \/ FinishCommand(w)
  \/ AppendTerminalEvent(w)

-----------------------------------------------------------------------------
(* Time and faults                                                         *)

(* The holder of the lease is a living worker still at this command.       *)
HolderAtWork(c) ==
  \E w \in Workers : leaseOwner[c] = w /\ worker[w].cmd = c

(* lease_until passes.  Under a living holder that takes a missed          *)
(* heartbeat: a suspended machine, a failed update, a lease shorter than   *)
(* the five second heartbeat.                                              *)
LeaseLapses(c) ==
  /\ leaseUntil[c] = "live"
  /\ IF HolderAtWork(c)
       THEN stalls < MaxStalls /\ stalls' = stalls + 1
       ELSE UNCHANGED stalls
  /\ leaseUntil' = [leaseUntil EXCEPT ![c] = "expired"]
  /\ UNCHANGED <<status, class, leaseOwner, activity, attempts, source,
                 terminal, worker, op, crashes, approvalVars>>

WorkerDies(w) ==
  /\ worker[w].pc # "idle"
  /\ crashes < MaxCrashes
  /\ crashes' = crashes + 1
  /\ worker' = [worker EXCEPT ![w] = NoWork]
  /\ UNCHANGED <<storeVars, op, stalls, approvalVars>>

OperatorDies(o) ==
  /\ op[o].pc # "idle"
  /\ crashes < MaxCrashes
  /\ crashes' = crashes + 1
  /\ op' = [op EXCEPT ![o] = NoCall]
  /\ UNCHANGED <<storeVars, worker, stalls, approvalVars>>

-----------------------------------------------------------------------------
(* Operator calls                                                          *)

(* An idle operator process begins a call on a command by reading its row. *)
Begin(o, kind, c, pc) ==
  /\ op[o].pc = "idle"
  /\ kind \in Offered
  /\ op' = [op EXCEPT ![o] = [kind |-> kind, pc |-> pc, cmd |-> c, token |-> None]]
  /\ UNCHANGED <<storeVars, worker, faultVars, approvalVars>>

GoTo(o, pc) == op' = [op EXCEPT ![o].pc = pc]
Return(o) == op' = [op EXCEPT ![o] = NoCall]

(* cancel, its first read: a terminal command is left as it is.            *)
Cancel(o, c) ==
  /\ status[c] \notin Terminal \cup {"absent"}
  /\ Begin(o, "cancel", c, "cancel_write")

(* retry, its first read: any other status is refused.                     *)
Retry(o, c) ==
  /\ status[c] \in {"failed", "canceled"}
  /\ Begin(o, "retry", c, "submit")

(* MUTANT: the source is not canceled before the replacement is submitted. *)
RequeueCopy(o, c) ==
  /\ status[c] \in {"queued", "running", "blocked_approval"}
  /\ Begin(o, "requeue", c, "submit")

(* requeue, its first read: any other status is refused.                   *)
Requeue(o, c) ==
  /\ status[c] \in {"queued", "running", "blocked_approval"}
  /\ Begin(o, "requeue", c, "cancel_read")

(* The cancel that requeue makes reads the row once more; if the command   *)
(* has ended meanwhile the replacement is submitted all the same.          *)
CancelRead(o) ==
  /\ op[o].pc = "cancel_read"
  /\ GoTo(o, IF status[op[o].cmd] \in Terminal THEN "submit" ELSE "cancel_write")
  /\ UNCHANGED <<storeVars, worker, faultVars, approvalVars>>

(* cancel's updateState: by command id alone, and the lease stays.         *)
CancelWrite(o) ==
  /\ op[o].pc = "cancel_write"
  /\ status' = [status EXCEPT ![op[o].cmd] = "canceled"]
  /\ GoTo(o, "cancel_mark")
  /\ UNCHANGED <<class, leaseOwner, leaseUntil, activity, attempts, source,
                 terminal, worker, faultVars, approvalVars>>

(* The activity after markActivities(c, s): only an open one changes.      *)
Marked(c, s) ==
  IF activity[c] \in {"queued", "blocked", "running"}
    THEN [activity EXCEPT ![c] = s] ELSE activity

(* cancel's markActivities; the cancel of a requeue goes on to submit.     *)
CancelMark(o) ==
  /\ op[o].pc = "cancel_mark"
  /\ activity' = Marked(op[o].cmd, "canceled")
  /\ IF op[o].kind = "cancel" THEN Return(o) ELSE GoTo(o, "submit")
  /\ UNCHANGED <<status, class, leaseOwner, leaseUntil, attempts, source,
                 terminal, worker, faultVars, approvalVars>>

(* retry and requeue submit a replacement under a new id and trace, with   *)
(* the approval class of the source.                                       *)
SubmitReplacement(o, n) ==
  /\ op[o].pc = "submit"
  /\ Insert(n, class[op[o].cmd], op[o].cmd)
  /\ Return(o)
  /\ UNCHANGED <<worker, faultVars, approvalVars>>

(* resume, its first read: only a blocked_approval command goes on.        *)
Resume(o, c) ==
  /\ status[c] = "blocked_approval"
  /\ Begin(o, "resume", c, "read_tokens")

(* `frontier policy consume`: consumeApprovalToken on a trace by itself.   *)
PolicyConsume(o, c) ==
  /\ status[c] # "absent"
  /\ Begin(o, "policy_consume", c, "read_tokens")

(* consumeApprovalToken reads the grants and the consumptions and picks a  *)
(* token that is granted, in time and unconsumed, or finds none.           *)
ReadTokens(o) ==
  /\ op[o].pc = "read_tokens"
  /\ \/ \E t \in ActiveTokens(op[o].cmd) :
          op' = [op EXCEPT ![o] =
                   [kind |-> op[o].kind, pc |-> "consume", cmd |-> op[o].cmd, token |-> t]]
     \/ /\ ActiveTokens(op[o].cmd) = {}
        /\ IF op[o].kind = "resume" THEN GoTo(o, "resume_write") ELSE Return(o)
  /\ UNCHANGED <<storeVars, worker, faultVars, approvalVars>>

ConsumeToken(o) ==
  /\ op[o].pc = "consume"
  /\ AppendConsumption(op[o].token)
  /\ IF op[o].kind = "resume" THEN GoTo(o, "resume_write") ELSE Return(o)
  /\ UNCHANGED <<storeVars, worker, faultVars>>

(* MUTANT: any class-2 command is taken as approved.                       *)
ResumeUnchecked(o) ==
  /\ op[o].pc = "resume_write"
  /\ status' = [status EXCEPT ![op[o].cmd] = "queued"]
  /\ GoTo(o, "resume_mark")
  /\ UNCHANGED <<class, leaseOwner, leaseUntil, activity, attempts, source,
                 terminal, worker, faultVars, approvalVars>>

(* resume's updateState, by command id alone: queued when the policy then  *)
(* allows the action, blocked_approval again when it does not.             *)
ResumeWrite(o) ==
  /\ op[o].pc = "resume_write"
  /\ LET allowed == Decision(class[op[o].cmd], op[o].token # None) = "allow" IN
       /\ status' = [status EXCEPT ![op[o].cmd] =
                       IF allowed THEN "queued" ELSE "blocked_approval"]
       /\ IF allowed THEN GoTo(o, "resume_mark") ELSE Return(o)
  /\ UNCHANGED <<class, leaseOwner, leaseUntil, activity, attempts, source,
                 terminal, worker, faultVars, approvalVars>>

ResumeMark(o) ==
  /\ op[o].pc = "resume_mark"
  /\ activity' = Marked(op[o].cmd, "queued")
  /\ Return(o)
  /\ UNCHANGED <<status, class, leaseOwner, leaseUntil, attempts, source,
                 terminal, worker, faultVars, approvalVars>>

(* The steps of a call that is under way.                                  *)
OperatorStep(o) ==
  \/ CancelRead(o) \/ CancelWrite(o) \/ CancelMark(o)
  \/ \E n \in Commands : SubmitReplacement(o, n)
  \/ ReadTokens(o) \/ ConsumeToken(o) \/ ResumeWrite(o) \/ ResumeMark(o)

OperatorCall(o, c) ==
  Cancel(o, c) \/ Retry(o, c) \/ Requeue(o, c) \/ Resume(o, c) \/ PolicyConsume(o, c)

-----------------------------------------------------------------------------
(* Approvals.  A class-2 submission and every denied resume ledger the     *)
(* policy.evaluated event the approval queue lists as a request.           *)

Approve(t, c) ==
  /\ status[c] # "absent"
  /\ \/ "approval_approve" \in Offered /\ class[c] = 2 /\ ApprovePendingTrace(t, c)
     \/ "policy_approve" \in Offered /\ ApproveTrace(t, c)
  /\ UNCHANGED <<storeVars, worker, op, faultVars>>

Expire(t) == TokenExpires(t) /\ UNCHANGED <<storeVars, worker, op, faultVars>>

-----------------------------------------------------------------------------

Next ==
  \/ \E c \in Commands, k \in Classes : Submit(c, k)
  \/ \E w \in Workers, wanted \in Commands \cup {None} : Claim(w, wanted)
  \/ \E w \in Workers : Heartbeat(w) \/ WorkerStep(w) \/ WorkerDies(w)
  \/ \E c \in Commands : LeaseLapses(c)
  \/ \E o \in Operators, c \in Commands : OperatorCall(o, c)
  \/ \E o \in Operators : OperatorStep(o) \/ OperatorDies(o)
  \/ \E t \in Tokens, c \in Commands : Approve(t, c)
  \/ \E t \in Tokens : Expire(t)

Spec == Init /\ [][Next]_vars

(* A worker loop polls for work and carries on with what it claimed (a     *)
(* process is killed at its time budget, a work-graph node times out), and *)
(* a lease nobody extends runs out.  Nothing is assumed of operators.  A   *)
(* worker that died, or whose loop ended with a failed command, is started *)
(* again by launchd (KeepAlive, commands/launchd.ts:128): that is its next *)
(* poll.  A loop that reached its --max-runtime-ms is not, so the fairness *)
(* speaks of the time the loop is meant to run.                            *)
Fairness ==
  /\ \A w \in Workers : WF_vars(Claim(w, None)) /\ WF_vars(WorkerStep(w))
  /\ \A c \in Commands : WF_vars(~HolderAtWork(c) /\ LeaseLapses(c))

FairSpec == Spec /\ Fairness

-----------------------------------------------------------------------------
(* Safety                                                                  *)

(* The command may be executed under the personal-default policy: class 0  *)
(* and 1 always, class 2 once an approval token of its trace was consumed, *)
(* class 3 never.                                                          *)
Authorized(c) == Decision(class[c], ApprovalConsumed(c)) = "allow"

(* No interleaving of submissions, resumes, cancels, requeues and retries  *)
(* brings a command to a worker, or to a state only a worker gives it,     *)
(* without the policy's consent: a replacement needs an approval of its    *)
(* own, and a denied class-3 command stays so through cancel and retry.    *)
OnlyAuthorizedWork ==
  /\ \A w \in Workers : worker[w].pc # "idle" => Authorized(worker[w].cmd)
  /\ \A c \in Commands :
       status[c] \in {"queued", "running", "completed", "failed"} => Authorized(c)

(* A running row always carries a lease: selectClaimable never returns a   *)
(* running row whose lease_until is null, so one would be lost for good.   *)
RunningIsLeased ==
  \A c \in Commands :
    status[c] = "running" => leaseOwner[c] # None /\ leaseUntil[c] # "null"

(* As long as no process died, the lease a running command is under        *)
(* belongs to a worker that is still at it: nobody walks away from a live  *)
(* lease and leaves the queue to wait for it to lapse.                     *)
LiveLeaseIsWorked ==
  crashes = 0 =>
    \A c \in Commands :
      status[c] = "running" /\ leaseUntil[c] = "live" => HolderAtWork(c)

(* The workers executing a command never outnumber the attempts on its     *)
(* activity, so the retry accounting in the terminal event and the final   *)
(* brief cannot under-report a double execution.  The exception is a       *)
(* class-2 command under a lapsed lease: resume queues the command before  *)
(* its activity, and a claim in between starts no attempt.                 *)
ExecutionsAreCounted ==
  \A c \in Commands :
    class[c] <= 1 \/ stalls = 0 =>
      Cardinality({w \in Workers : worker[w].pc = "executing" /\ worker[w].cmd = c})
        <= attempts[c]

(* Work that ended stays ended when no approval is involved: for classes 0 *)
(* and 1 a completed, failed or canceled command may be overwritten by     *)
(* another terminal status (a late cancel, a stale worker) but never goes  *)
(* back to the queue, whatever calls were under way when it ended.         *)
EndedStaysEnded ==
  [][\A c \in Commands :
       class[c] <= 1 /\ status[c] \in Terminal => status'[c] \in Terminal]_vars

(* Once a replacement of a class 0 or 1 command exists, no worker can      *)
(* claim the original any more: retry and requeue never leave two          *)
(* claimable copies of the same work.                                      *)
ReplacedSourceIsEnded ==
  \A c \in Commands :
    source[c] # None /\ class[c] <= 1 => status[source[c]] \in Terminal

(* When every canceller survives, a canceled command has no open activity  *)
(* unless a cancel is about to mark it, although cancel and resume write   *)
(* the two rows in two statements and may be under way at the same time.   *)
CanceledActivitySettles ==
  crashes = 0 =>
    \A c \in Commands :
      \/ status[c] # "canceled"
      \/ activity[c] \in Terminal
      \/ \E o \in Operators : op[o].cmd = c /\ op[o].pc = "cancel_mark"

(* The outcome of the command and the outcome of its activity agree while  *)
(* no lease lapsed under a working holder: a completed command has a       *)
(* completed activity, and a failed one (no process having died, no        *)
(* approval involved) does not hide a completed activity.                  *)
OutcomesAgree ==
  stalls = 0 =>
    \A c \in Commands :
      /\ status[c] = "completed" => activity[c] = "completed"
      /\ crashes = 0 /\ class[c] <= 1 /\ status[c] = "failed" =>
           activity[c] \in {"failed", "canceled"}

(* Unless a worker died, every command that reads completed has its        *)
(* command.completed event in the ledger or the worker that finished it is *)
(* about to append one: the briefs built from the ledger miss no success.  *)
CompletionIsLedgered ==
  crashes = 0 =>
    \A c \in Commands :
      status[c] = "completed" =>
        \/ "command.completed" \in terminal[c]
        \/ \E w \in Workers : worker[w].pc = "ledger" /\ worker[w].cmd = c

(* No lease is held by nobody, and no execution goes uncounted.            *)
LeasesAreWorked == LiveLeaseIsWorked /\ ExecutionsAreCounted

(* The command, its activity and its ledger events tell one story.         *)
RecordsAgree == CanceledActivitySettles /\ OutcomesAgree /\ CompletionIsLedgered

-----------------------------------------------------------------------------
(* Refinement: what the queue lets workers execute is what the policy      *)
(* permits.  A command is permitted once it is in the store and the policy *)
(* allows it; a worker executes from the moment it found a running         *)
(* activity to the moment the plan returned or the process died.           *)

Permitted == {c \in Commands : status[c] # "absent" /\ Authorized(c)}
Executing == [w \in Workers |->
                IF worker[w].pc = "executing" THEN worker[w].cmd ELSE None]

Gate == INSTANCE ExecutionGate WITH permitted <- Permitted, executing <- Executing

(* The store with its workers and operators implements the gate: consent   *)
(* is never withdrawn and every execution starts under it.                 *)
ImplementsGate == Gate!Spec

-----------------------------------------------------------------------------
(* Liveness                                                                *)

(* A class 0 or 1 command that is queued or running comes to an end,       *)
(* whatever crashes and lapsed leases happen on the way: "expired running  *)
(* commands are reclaimable after worker death"                            *)
(* (docs/plans/root-level-orchestrator-master-plan.md:1077).               *)
OpenWorkEnds ==
  \A c \in Commands :
    (class[c] <= 1 /\ status[c] \in {"queued", "running"}) ~> (status[c] \in Terminal)

(* An approved class-2 command that made it back to the queue is picked up *)
(* by a worker that takes its class.                                       *)
ApprovedIsExecuted ==
  \A c \in Commands :
    (class[c] = 2 /\ status[c] = "queued") ~> (status[c] # "queued")

(* Queued work is executed, whoever has to consent to it and whoever dies. *)
QueuedWorkEnds == OpenWorkEnds /\ ApprovedIsExecuted

=============================================================================
