------------------------- MODULE OvernightPreflight -------------------------
(***************************************************************************)
(* The command-debt preflight of an overnight run (overnight/queue.ts with *)
(* commands/debt.ts), composed with the command store it sweeps.  Each     *)
(* operator process may run one: it lists the stale commands, and for each *)
(* reads the row again, decides, and calls the store's requeue.            *)
(***************************************************************************)
EXTENDS CommandStore

VARIABLES
  sweep   \* of each operator process: its preflight, and the items to come

preflightVars == <<vars, sweep>>

NoSweep(s) == [state |-> s, todo |-> {}, lapsed |-> {}]

PreflightInit ==
  /\ Init
  /\ sweep = [o \in Operators |-> NoSweep("none")]

Open == {c \in Commands : status[c] \notin Terminal \cup {"absent"}}

(* assessCommandDebt: a running command is stale once its lease expired;   *)
(* any open one once its updated_at is old enough, which the model leaves  *)
(* open.                                                                   *)
Lapsed == {c \in Commands : status[c] = "running" /\ leaseUntil[c] = "expired"}

StartSweep(o) ==
  /\ "preflight" \in Offered
  /\ op[o].pc = "idle"
  /\ sweep[o].state = "none"
  /\ \E stale \in SUBSET Open :
       /\ Lapsed \subseteq stale
       /\ sweep' = [sweep EXCEPT ![o] =
                       [state |-> "sweeping", todo |-> stale, lapsed |-> Lapsed]]
  /\ UNCHANGED vars

(* autoRemediationPolicy on the row as it is now: class 0 and 1 only,      *)
(* queued, or running under a lease that had expired when the sweep began  *)
(* and has not been renewed.                                               *)
Reclaimable(o, c) == class[c] <= 1 /\ c \in sweep[o].lapsed \cap Lapsed
Eligible(o, c) == Reclaimable(o, c) \/ (class[c] <= 1 /\ status[c] = "queued")

NextItem(o, c) ==
  /\ op[o].pc = "idle"
  /\ c \in sweep[o].todo
  /\ sweep' = [sweep EXCEPT ![o].todo = @ \ {c}, ![o].lapsed = @ \ {c}]

(* An eligible item is handed to requeue.                                  *)
Remediate(o, c) ==
  /\ Eligible(o, c)
  /\ NextItem(o, c)
  /\ Begin(o, "preflight", c, "requeue_read")

(* Any other item, or a queued one that is no longer old enough, is left   *)
(* to manual attention.                                                    *)
LeaveManual(o, c) ==
  /\ ~Reclaimable(o, c)
  /\ NextItem(o, c)
  /\ UNCHANGED vars

(* MUTANT: a running command under an expired lease is only copied.        *)
RequeueReadDead(o) ==
  /\ op[o].pc = "requeue_read"
  /\ IF status[op[o].cmd] \in {"queued", "running", "blocked_approval"}
       THEN /\ GoTo(o, IF status[op[o].cmd] = "running" THEN "submit" ELSE "cancel_read")
            /\ UNCHANGED sweep
       ELSE Return(o) /\ sweep' = [sweep EXCEPT ![o] = NoSweep("aborted")]
  /\ UNCHANGED <<storeVars, worker, faultVars, approvalVars>>

(* requeue reads the row for itself, and looks at the status only.  When   *)
(* it refuses, its error ends the whole preflight.                         *)
RequeueRead(o) ==
  /\ op[o].pc = "requeue_read"
  /\ IF status[op[o].cmd] \in {"queued", "running", "blocked_approval"}
       THEN GoTo(o, "cancel_read") /\ UNCHANGED sweep
       ELSE Return(o) /\ sweep' = [sweep EXCEPT ![o] = NoSweep("aborted")]
  /\ UNCHANGED <<storeVars, worker, faultVars, approvalVars>>

EndSweep(o) ==
  /\ op[o].pc = "idle"
  /\ sweep[o].state = "sweeping" /\ sweep[o].todo = {}
  /\ sweep' = [sweep EXCEPT ![o] = NoSweep("done")]
  /\ UNCHANGED vars

(* The process dies, its preflight with it.                                *)
SweeperDies(o) ==
  /\ OperatorDies(o)
  /\ sweep' = [sweep EXCEPT ![o] = NoSweep(IF @.state = "none" THEN "none" ELSE "aborted")]

-----------------------------------------------------------------------------

(* With a single preflight as the only operator, work is never doubled in  *)
(* the queue: of a command and the replacements minted for it, directly or *)
(* through another replacement, at most one is open at any time.           *)
OneOpenCopy ==
  \A c, d \in Commands :
    (source[d] = c \/ (source[c] # None /\ source[c] = source[d] /\ c # d)) =>
      ~({c, d} \subseteq Open)

(* A preflight that ran to its end left no class 0 or 1 command canceled   *)
(* without a replacement: what it takes off the queue it puts back.        *)
RemediationIsRequeue ==
  \A c \in Commands :
    status[c] = "canceled" /\ (\A o \in Operators : sweep[o].state \in {"none", "done"}) =>
      \E d \in Commands : source[d] = c

(* A preflight doubles no work and loses none.                             *)
PreflightKeepsWork == OneOpenCopy /\ RemediationIsRequeue

=============================================================================
