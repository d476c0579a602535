--------------------------- MODULE OvernightProofs ---------------------------
(***************************************************************************)
(* What a night keeps for any number of commands, workers and operators,   *)
(* any projects and any crash: a preflight loses no work, and the only one *)
(* of its kind doubles none; a run's totals are those of its directory;    *)
(* what is scheduled fits; and what the morning brief says is true.        *)
(***************************************************************************)
EXTENDS OvernightBrief, FiniteSetTheorems, SequenceTheorems, WellFoundedInduction, TLAPS

-----------------------------------------------------------------------------
(* The preflight.  The invariant follows each requeue: while the call is   *)
(* between its cancel and its submission the canceled command is its own,  *)
(* and after it a replacement names the command.                           *)

RequeueSteps == {"idle", "requeue_read", "cancel_read", "cancel_write", "cancel_mark", "submit"}

SweepType == [state : {"none", "sweeping", "done", "aborted"},
              todo : SUBSET Commands, lapsed : SUBSET Commands]

SweepTyped ==
  /\ status \in [Commands -> CommandStatus \cup {"absent"}]
  /\ source \in [Commands -> Commands \cup {None}]
  /\ worker \in [Workers -> WorkerCall]
  /\ op \in [Operators -> OpCall]
  /\ sweep \in [Operators -> SweepType]
  /\ budget \in BudgetType

Busy(o) == op[o].pc # "idle"

(* A call is a requeue that its operator's preflight makes.                *)
CallOK(o) ==
  /\ op[o].pc \in RequeueSteps
  /\ sweep[o].todo # {} => sweep[o].state = "sweeping"
  /\ Busy(o) => /\ op[o].kind = "preflight" /\ op[o].cmd \in Commands
                /\ status[op[o].cmd] # "absent"
                /\ sweep[o].state = "sweeping" /\ op[o].cmd \notin sweep[o].todo

WorkOK ==
  \A w \in Workers :
    worker[w].pc # "idle" => worker[w].cmd \in Commands /\ status[worker[w].cmd] # "absent"

Replaced(c) == \E d \in Commands : source[d] = c

Cancelling(o) == op[o].pc \in {"cancel_mark", "submit"}

SourceOK ==
  /\ \A c \in Commands : status[c] = "absent" => source[c] = None
  /\ \A c \in Commands :
       status[c] = "canceled" /\ ~Replaced(c) =>
         \E o \in Operators : sweep[o].state = "aborted" \/ (Cancelling(o) /\ op[o].cmd = c)

(* With one preflight, what has a replacement has ended for good, and is   *)
(* neither listed nor being requeued any more.                             *)
Sole ==
  /\ budget.nights \in {0, 1}
  /\ budget.nights = 1 => \A o \in Operators : sweep[o].state = "none"
  /\ \A o, p \in Operators : sweep[o].state # "none" /\ sweep[p].state # "none" => o = p
  /\ \A d \in Commands :
       source[d] # None =>
         /\ status[source[d]] \in Terminal
         /\ \A o \in Operators : source[d] \notin sweep[o].todo
                                 /\ (Busy(o) => op[o].cmd # source[d])
  /\ \A c, d \in Commands : source[c] # None /\ c # d => source[c] # source[d]
  /\ \A o \in Operators : Cancelling(o) => status[op[o].cmd] \in Terminal

Empty == budget.submissions = 0 /\ \A c \in Commands : status[c] = "absent"

SweepInv ==
  /\ SweepTyped
  /\ \A o \in Operators : CallOK(o)
  /\ WorkOK
  /\ SourceOK

(* What may be submitted is swept by one night at most.                    *)
OneNight == \A b \in Budgets : b.nights <= 1 \/ b.submissions = 0

-----------------------------------------------------------------------------

LEMMA InitSweeps == OvernightInit => SweepInv /\ (OneNight => Sole \/ Empty)
<1> SUFFICES ASSUME OvernightInit PROVE SweepInv /\ (OneNight => Sole \/ Empty)
  OBVIOUS
<1>1. SweepTyped
  BY BudgetsAssumption DEF OvernightInit, PreflightInit, Init, SweepTyped, SweepType, NoSweep,
     CommandStatus, WorkerCall, OpCall, NoWork, NoCall, WorkerSteps, OperatorSteps, OperatorKinds
<1>2. \A o \in Operators : CallOK(o)
  BY DEF OvernightInit, PreflightInit, Init, CallOK, NoSweep, NoCall, RequeueSteps, Busy
<1>3. WorkOK /\ SourceOK
  BY DEF OvernightInit, PreflightInit, Init, WorkOK, SourceOK, NoWork
<1>4. ASSUME OneNight PROVE Sole \/ Empty
  <2>1. budget \in BudgetType /\ (budget.nights <= 1 \/ budget.submissions = 0)
    BY <1>4, BudgetsAssumption DEF OvernightInit, OneNight
  <2>2. CASE budget.submissions = 0
    BY <2>2 DEF Empty, OvernightInit, PreflightInit, Init
  <2>3. CASE budget.nights <= 1
    <3>1. budget.nights \in {0, 1}
      BY <2>1, <2>3 DEF BudgetType
    <3> QED BY <3>1 DEF Sole, OvernightInit, PreflightInit, Init, NoSweep, NoCall, Busy, Cancelling
  <2> QED BY <2>1, <2>2, <2>3
<1> QED BY <1>1, <1>2, <1>3, <1>4 DEF SweepInv

(* What a worker does to the rows.                                         *)
WorkerMove ==
  /\ status' \in [Commands -> CommandStatus \cup {"absent"}]
  /\ worker' \in [Workers -> WorkerCall]
  /\ \A c \in Commands :
       \/ status'[c] = status[c]
       \/ status'[c] = "running" /\ status[c] \in {"queued", "running"}
       \/ status'[c] \in {"completed", "failed"} /\ status[c] # "absent"
  /\ WorkOK'
  /\ UNCHANGED <<source, op, sweep, budget>>

LEMMA WorkerKeeps ==
  ASSUME SweepInv, WorkerMove
  PROVE  SweepInv' /\ (Sole => Sole') /\ (Empty => Empty')
<1>1. SweepTyped'
  BY DEF SweepInv, SweepTyped, WorkerMove
<1>2. \A c \in Commands : /\ status[c] = "absent" <=> status'[c] = "absent"
                          /\ status[c] \in Terminal => status'[c] \in Terminal
                          /\ status'[c] = "canceled" => status[c] = "canceled"
  BY DEF WorkerMove, Terminal
<1>3. \A o \in Operators : CallOK(o)'
  BY <1>2 DEF SweepInv, CallOK, Busy, WorkerMove
<1>4. SourceOK'
  BY <1>2 DEF SweepInv, SourceOK, Replaced, Cancelling, WorkerMove
<1>5. ASSUME Sole PROVE Sole'
  <2>1. \A o \in Operators : Cancelling(o) => op[o].cmd \in Commands
    BY DEF Cancelling, SweepInv, CallOK, Busy
  <2>2. \A d \in Commands : source[d] # None => source[d] \in Commands
    BY DEF SweepInv, SweepTyped
  <2> QED BY <1>2, <1>5, <2>1, <2>2 DEF Sole, Busy, Cancelling, WorkerMove
<1>6. Empty => Empty'
  BY <1>2 DEF Empty, WorkerMove
<1> QED BY <1>1, <1>3, <1>4, <1>5, <1>6 DEF SweepInv, WorkerMove

LEMMA WorkersMove ==
  ASSUME SweepInv, UNCHANGED <<sweep, budget>>, NEW w \in Workers,
         (\E wanted \in Commands \cup {None} : Claim(w, wanted)) \/ WorkerStep(w) \/ WorkerDies(w)
  PROVE  WorkerMove
<1> USE DEF SweepInv, SweepTyped, WorkOK
<1>1. ASSUME NEW wanted \in Commands \cup {None}, Claim(w, wanted) PROVE WorkerMove
  <2>1. PICK c \in ClaimableBy(w, wanted) :
          /\ status' = [status EXCEPT ![c] = "running"]
          /\ worker' = [worker EXCEPT ![w] = [pc |-> "claimed", cmd |-> c, ok |-> FALSE]]
    BY <1>1 DEF Claim
  <2>2. c \in Commands /\ status[c] \in {"queued", "running"}
    BY <2>1 DEF ClaimableBy, Claimable
  <2>3. "running" \in CommandStatus /\ [pc |-> "claimed", cmd |-> c, ok |-> FALSE] \in WorkerCall
    BY <2>2 DEF CommandStatus, WorkerCall, WorkerSteps
  <2>4. UNCHANGED <<source, op>>
    BY <1>1 DEF Claim
  <2> QED BY <2>1, <2>2, <2>3, <2>4 DEF WorkerMove
<1>2. CASE ReadClaim(w)
  <2>1. PICK pc \in WorkerSteps : worker' = [worker EXCEPT ![w].pc = pc] /\ pc # "idle"
    BY <1>2 DEF ReadClaim, WorkerSteps
  <2>2. worker[w].pc # "idle" /\ UNCHANGED <<status, source, op>>
    BY <1>2 DEF ReadClaim, storeVars, rowVars
  <2> QED BY <2>1, <2>2 DEF WorkerMove, WorkerCall
<1>3. ASSUME NEW ok \in BOOLEAN, Executed(w, ok) PROVE WorkerMove
  BY <1>3 DEF Executed, WorkerMove, WorkerCall, WorkerSteps, storeVars, rowVars
<1>4. CASE FinishActivity(w)
  BY <1>4 DEF FinishActivity, WorkerMove, WorkerCall, WorkerSteps
<1>5. CASE FinishCommand(w)
  <2>1. PICK c \in Commands, s \in {"completed", "failed"} :
          /\ c = worker[w].cmd /\ status[c] # "absent"
          /\ status' = [status EXCEPT ![c] = s]
          /\ worker' = [worker EXCEPT ![w].pc = "ledger"]
    BY <1>5 DEF FinishCommand
  <2>2. s \in CommandStatus /\ "ledger" \in WorkerSteps /\ UNCHANGED <<source, op>>
    BY <1>5 DEF FinishCommand, CommandStatus, Terminal, WorkerSteps
  <2>3. worker' \in [Workers -> WorkerCall]
    BY <2>1, <2>2 DEF WorkerCall
  <2>4. WorkOK'
    BY <1>5, <2>1 DEF FinishCommand
  <2> QED BY <2>1, <2>2, <2>3, <2>4 DEF WorkerMove
<1>6. CASE AppendTerminalEvent(w)
  BY <1>6 DEF AppendTerminalEvent, WorkerMove, WorkerCall, WorkerSteps, NoWork, rowVars
<1>7. CASE WorkerDies(w)
  BY <1>7 DEF WorkerDies, WorkerMove, WorkerCall, WorkerSteps, NoWork, storeVars, rowVars
<1> QED BY <1>1, <1>2, <1>3, <1>4, <1>5, <1>6, <1>7 DEF WorkerStep

(* The statements of a requeue.                                            *)

LEMMA CancelReadKeeps ==
  ASSUME SweepInv, UNCHANGED <<sweep, budget>>, NEW o \in Operators, CancelRead(o)
  PROVE  SweepInv' /\ (Sole => Sole') /\ (Empty => Empty')
<1>1. PICK pc \in {"submit", "cancel_write"} :
        /\ op' = [op EXCEPT ![o].pc = pc]
        /\ pc = "submit" => status[op[o].cmd] \in Terminal
  BY DEF CancelRead, GoTo
<1>2. op[o].pc = "cancel_read" /\ Busy(o) /\ UNCHANGED <<status, source, worker>>
  BY DEF CancelRead, Busy, storeVars, rowVars
<1>3. op[o] \in OpCall /\ op' \in [Operators -> OpCall]
  BY <1>1 DEF SweepInv, SweepTyped, OpCall, OperatorSteps
<1>4. /\ op'[o].pc = pc /\ op'[o].cmd = op[o].cmd /\ op'[o].kind = op[o].kind
      /\ \A p \in Operators : p # o => op'[p] = op[p]
  BY <1>1, <1>3 DEF SweepInv, SweepTyped, OpCall
<1>5. SweepTyped' /\ WorkOK'
  BY <1>2, <1>3 DEF SweepInv, SweepTyped, WorkOK
<1>6. \A p \in Operators : CallOK(p)'
  BY <1>2, <1>4 DEF SweepInv, CallOK, Busy, RequeueSteps
<1>7. SourceOK'
  BY <1>2, <1>4 DEF SweepInv, SourceOK, Replaced, Cancelling
<1>8. Sole => Sole'
  BY <1>1, <1>2, <1>4 DEF Sole, Busy, Cancelling
<1> QED BY <1>2, <1>5, <1>6, <1>7, <1>8 DEF SweepInv, Empty

LEMMA CancelWriteKeeps ==
  ASSUME SweepInv, UNCHANGED <<sweep, budget>>, NEW o \in Operators, CancelWrite(o)
  PROVE  SweepInv' /\ (Sole => Sole') /\ (Empty => Empty')
<1>1. PICK c : c = op[o].cmd
  OBVIOUS
<1>2. /\ op[o].pc = "cancel_write" /\ Busy(o) /\ UNCHANGED <<source, worker>>
      /\ status' = [status EXCEPT ![c] = "canceled"]
      /\ op' = [op EXCEPT ![o].pc = "cancel_mark"]
  BY <1>1 DEF CancelWrite, Busy, GoTo
<1>3. op[o] \in OpCall /\ op' \in [Operators -> OpCall]
  BY <1>2 DEF SweepInv, SweepTyped, OpCall, OperatorSteps
<1>4. /\ op'[o].pc = "cancel_mark" /\ op'[o].cmd = c /\ op'[o].kind = op[o].kind
      /\ \A p \in Operators : p # o => op'[p] = op[p]
  BY <1>1, <1>2, <1>3 DEF SweepInv, SweepTyped, OpCall
<1>5. c \in Commands /\ status[c] # "absent"
  BY <1>1, <1>2 DEF SweepInv, CallOK
<1>6. /\ status' \in [Commands -> CommandStatus \cup {"absent"}] /\ status'[c] = "canceled"
      /\ \A d \in Commands : d # c => status'[d] = status[d]
  BY <1>2, <1>5 DEF SweepInv, SweepTyped, CommandStatus, Terminal
<1>7. \A d \in Commands : /\ status'[d] = "absent" <=> status[d] = "absent"
                          /\ status[d] \in Terminal => status'[d] \in Terminal
  BY <1>5, <1>6 DEF Terminal
<1>8. SweepTyped' /\ WorkOK'
  BY <1>2, <1>3, <1>6, <1>7 DEF SweepInv, SweepTyped, WorkOK
<1>9. \A p \in Operators : CallOK(p)'
  BY <1>1, <1>2, <1>4, <1>7 DEF SweepInv, CallOK, Busy, RequeueSteps
<1>10. SourceOK'
  <2>1. Cancelling(o)' /\ op'[o].cmd = c
    BY <1>4 DEF Cancelling
  <2>2. \A p \in Operators : Cancelling(p) => p # o
    BY <1>2 DEF Cancelling
  <2>3. \A d \in Commands : status'[d] = "canceled" => d = c \/ status[d] = "canceled"
    BY <1>6
  <2> QED BY <1>2, <1>4, <1>7, <2>1, <2>2, <2>3 DEF SweepInv, SourceOK, Replaced, Cancelling
<1>11. ASSUME Sole PROVE Sole'
  <2>1. \A d \in Commands : source[d] # None => source[d] \in Commands
    BY DEF SweepInv, SweepTyped
  <2>2. \A p \in Operators : Cancelling(p) => op[p].cmd \in Commands
    BY DEF Cancelling, SweepInv, CallOK, Busy
  <2> QED BY <1>1, <1>2, <1>4, <1>6, <1>7, <1>11, <2>1, <2>2 DEF Sole, Busy, Cancelling, Terminal
<1>12. ~Empty
  BY <1>5 DEF Empty
<1> QED BY <1>8, <1>9, <1>10, <1>11, <1>12 DEF SweepInv

LEMMA CancelMarkKeeps ==
  ASSUME SweepInv, UNCHANGED <<sweep, budget>>, NEW o \in Operators, CancelMark(o)
  PROVE  SweepInv' /\ (Sole => Sole') /\ (Empty => Empty')
<1>1. /\ op[o].pc = "cancel_mark" /\ Busy(o) /\ UNCHANGED <<status, source, worker>>
      /\ op' = [op EXCEPT ![o].pc = "submit"]
  BY DEF CancelMark, Busy, GoTo, SweepInv, CallOK
<1>2. op[o] \in OpCall /\ op' \in [Operators -> OpCall]
  BY <1>1 DEF SweepInv, SweepTyped, OpCall, OperatorSteps
<1>3. /\ op'[o].pc = "submit" /\ op'[o].cmd = op[o].cmd /\ op'[o].kind = op[o].kind
      /\ \A p \in Operators : p # o => op'[p] = op[p]
  BY <1>1, <1>2 DEF SweepInv, SweepTyped, OpCall
<1>4. SweepTyped' /\ WorkOK'
  BY <1>1, <1>2 DEF SweepInv, SweepTyped, WorkOK
<1>5. \A p \in Operators : CallOK(p)'
  BY <1>1, <1>3 DEF SweepInv, CallOK, Busy, RequeueSteps
<1>6. SourceOK'
  BY <1>1, <1>3 DEF SweepInv, SourceOK, Replaced, Cancelling
<1>7. Sole => Sole'
  BY <1>1, <1>3 DEF Sole, Busy, Cancelling
<1> QED BY <1>1, <1>4, <1>5, <1>6, <1>7 DEF SweepInv, Empty

LEMMA InsertIs ==
  ASSUME SweepInv, NEW n \in Commands, NEW k, NEW src \in Commands \cup {None}, Insert(n, k, src)
  PROVE  /\ status' \in [Commands -> CommandStatus \cup {"absent"}]
         /\ source' \in [Commands -> Commands \cup {None}]
         /\ status[n] = "absent" /\ status'[n] \notin Terminal \cup {"absent"} /\ source'[n] = src
         /\ \A c \in Commands : c # n => status'[c] = status[c] /\ source'[c] = source[c]
<1>1. InitialStatus(k) \in {"queued", "blocked_approval", "blocked_policy"}
  BY DEF InitialStatus
<1>2. status' = [status EXCEPT ![n] = InitialStatus(k)] /\ source' = [source EXCEPT ![n] = src]
  BY DEF Insert
<1> QED BY <1>1, <1>2 DEF Insert, SweepInv, SweepTyped, CommandStatus, Terminal

LEMMA SubmitKeeps ==
  ASSUME SweepInv, UNCHANGED <<sweep, budget>>, NEW o \in Operators, NEW n \in Commands,
         SubmitReplacement(o, n)
  PROVE  SweepInv' /\ (Sole => Sole') /\ (Empty => Empty')
<1>1. PICK c, k : c = op[o].cmd /\ k = class[c]
  OBVIOUS
<1>2. /\ op[o].pc = "submit" /\ Busy(o) /\ UNCHANGED worker /\ Insert(n, k, c)
      /\ op' = [op EXCEPT ![o] = NoCall]
  BY <1>1 DEF SubmitReplacement, Busy, Return
<1>3. c \in Commands /\ status[c] # "absent" /\ c \notin sweep[o].todo
  BY <1>1, <1>2 DEF SweepInv, CallOK
<1>4. /\ status' \in [Commands -> CommandStatus \cup {"absent"}]
      /\ source' \in [Commands -> Commands \cup {None}]
      /\ status[n] = "absent" /\ status'[n] \notin Terminal \cup {"absent"} /\ source'[n] = c
      /\ \A d \in Commands : d # n => status'[d] = status[d] /\ source'[d] = source[d]
  BY <1>2, <1>3, InsertIs
<1>5. op'[o] = NoCall /\ op' \in [Operators -> OpCall] /\ \A p \in Operators : p # o => op'[p] = op[p]
  BY <1>2 DEF SweepInv, SweepTyped, OpCall, NoCall, OperatorSteps, OperatorKinds
<1>6. NoCall.pc = "idle"
  BY DEF NoCall
<1>7. SweepTyped'
  BY <1>2, <1>4, <1>5 DEF SweepInv, SweepTyped
<1>8. WorkOK'
  BY <1>2, <1>4 DEF SweepInv, WorkOK
<1>9. \A p \in Operators : CallOK(p)'
  BY <1>4, <1>5, <1>6 DEF SweepInv, CallOK, Busy, RequeueSteps
<1>10. SourceOK'
  <2>1. ASSUME NEW d \in Commands, status'[d] = "canceled", ~Replaced(d)'
        PROVE  \E p \in Operators : sweep'[p].state = "aborted"
                                    \/ (Cancelling(p)' /\ op'[p].cmd = d)
    <3>1. d # n /\ status[d] = "canceled" /\ d # c
      BY <1>4, <2>1 DEF Replaced, Terminal
    <3>2. ~Replaced(d)
      BY <1>3, <1>4, <2>1, <3>1, NoneAssumption, CommandsAssumption
         DEF Replaced, SweepInv, SourceOK
    <3>3. PICK p \in Operators : sweep[p].state = "aborted" \/ (Cancelling(p) /\ op[p].cmd = d)
      BY <3>1, <3>2 DEF SweepInv, SourceOK
    <3>4. p # o \/ sweep[p].state = "aborted"
      BY <1>1, <3>1, <3>3
    <3> QED BY <1>5, <3>3, <3>4 DEF Cancelling
  <2>2. \A d \in Commands : status'[d] = "absent" => source'[d] = None
    BY <1>4 DEF SweepInv, SourceOK
  <2> QED BY <2>1, <2>2 DEF SourceOK
<1>11. ASSUME Sole PROVE Sole'
  <2>1. \A d \in Commands : source[d] # None => source[d] \in Commands /\ source[d] # n
    BY <1>4, <1>11 DEF SweepInv, SweepTyped, Sole, Terminal
  <2>2. \A p \in Operators : p # o => ~Busy(p) /\ sweep[p].todo = {}
    BY <1>2, <1>11 DEF SweepInv, CallOK, Sole
  <2>3. status[c] \in Terminal /\ \A d \in Commands : source[d] # c
    BY <1>1, <1>2, <1>3, <1>11, NoneAssumption, CommandsAssumption DEF Sole, Cancelling
  <2>4. ~Busy(o)' /\ \A p \in Operators : ~Busy(p)'
    BY <1>5, <1>6, <2>2 DEF Busy
  <2>5. \A d \in Commands :
          source'[d] # None =>
            /\ status'[source'[d]] \in Terminal
            /\ \A p \in Operators : source'[d] \notin sweep'[p].todo
    BY <1>3, <1>4, <1>11, <2>1, <2>2, <2>3 DEF Sole, Terminal
  <2>6. \A d, e \in Commands : source'[d] # None /\ d # e => source'[d] # source'[e]
    BY <1>4, <1>11, <2>3 DEF Sole
  <2>7. \A p \in Operators : ~Cancelling(p)'
    BY <2>4 DEF Busy, Cancelling
  <2> QED BY <1>11, <2>4, <2>5, <2>6, <2>7 DEF Sole
<1>12. ~Empty
  BY <1>3 DEF Empty
<1> QED BY <1>7, <1>8, <1>9, <1>10, <1>11, <1>12 DEF SweepInv

LEMMA OperatorKeeps ==
  ASSUME SweepInv, UNCHANGED <<sweep, budget>>, NEW o \in Operators, OperatorStep(o)
  PROVE  SweepInv' /\ (Sole => Sole') /\ (Empty => Empty')
<1>1. op[o].pc \in RequeueSteps
  BY DEF SweepInv, CallOK
<1>2. ~(ReadTokens(o) \/ ConsumeToken(o) \/ ResumeWrite(o) \/ ResumeMark(o))
  BY <1>1 DEF ReadTokens, ConsumeToken, ResumeWrite, ResumeMark, RequeueSteps
<1> QED BY <1>2, CancelReadKeeps, CancelWriteKeeps, CancelMarkKeeps, SubmitKeeps DEF OperatorStep

-----------------------------------------------------------------------------
(* The steps of the preflight itself.                                      *)

LEMMA SubmitOneKeeps ==
  ASSUME SweepInv, NEW n \in Commands, NEW k \in Classes, SubmitOne(n, k)
  PROVE  SweepInv' /\ (Sole => Sole') /\ (Empty => Empty')
<1>1. /\ UNCHANGED <<worker, op, sweep>> /\ Insert(n, k, None)
      /\ budget.submissions > 0 /\ budget' = [budget EXCEPT !.submissions = @ - 1]
  BY DEF SubmitOne, Submit
<1>2. /\ status' \in [Commands -> CommandStatus \cup {"absent"}]
      /\ source' \in [Commands -> Commands \cup {None}]
      /\ status[n] = "absent" /\ status'[n] \notin Terminal \cup {"absent"} /\ source'[n] = None
      /\ \A d \in Commands : d # n => status'[d] = status[d] /\ source'[d] = source[d]
  BY <1>1, InsertIs
<1>3. budget' \in BudgetType /\ budget'.nights = budget.nights
  BY <1>1 DEF SweepInv, SweepTyped, BudgetType
<1>4. SweepTyped' /\ WorkOK'
  BY <1>1, <1>2, <1>3 DEF SweepInv, SweepTyped, WorkOK
<1>5. \A p \in Operators : CallOK(p)'
  BY <1>1, <1>2 DEF SweepInv, CallOK, Busy
<1>6. None \notin Commands
  BY NoneAssumption, CommandsAssumption
<1>7. \A d \in Commands : source'[d] = source[d]
  BY <1>2 DEF SweepInv, SourceOK
<1>8. SourceOK'
  BY <1>1, <1>2, <1>7 DEF SweepInv, SourceOK, Replaced, Cancelling, Terminal
<1>9. ASSUME Sole PROVE Sole'
  <2>1. \A d \in Commands : source[d] # None => source[d] \in Commands /\ source[d] # n
    BY <1>2, <1>9 DEF SweepInv, SweepTyped, Sole, Terminal
  <2>2. \A p \in Operators : Cancelling(p) => op[p].cmd \in Commands /\ op[p].cmd # n
    BY <1>2 DEF SweepInv, CallOK, Cancelling, Busy
  <2> QED BY <1>1, <1>2, <1>3, <1>7, <1>9, <2>1, <2>2 DEF Sole, Busy, Cancelling
<1>10. ~Empty
  BY <1>1 DEF Empty, SweepInv, SweepTyped, BudgetType
<1> QED BY <1>1, <1>4, <1>5, <1>8, <1>9, <1>10 DEF SweepInv

LEMMA RestKeeps ==
  ASSUME SweepInv, UNCHANGED <<status, source, worker, op, sweep>>,
         budget' \in BudgetType, budget'.nights <= budget.nights,
         budget'.submissions = budget.submissions
  PROVE  SweepInv' /\ (Sole => Sole') /\ (Empty => Empty')
<1>1. SweepInv'
  BY DEF SweepInv, SweepTyped, CallOK, Busy, WorkOK, SourceOK, Replaced, Cancelling
<1>2. Empty => Empty'
  BY DEF Empty
<1>3. ASSUME Sole PROVE Sole'
  <2>1. budget'.nights \in {0, 1} /\ (budget'.nights = 1 => budget.nights = 1)
    BY <1>3 DEF Sole, BudgetType
  <2> QED BY <1>3, <2>1 DEF Sole, Busy, Cancelling
<1> QED BY <1>1, <1>2, <1>3

LEMMA StartKeeps ==
  ASSUME SweepInv, NEW o \in Operators, StartSweep(o), UNCHANGED <<status, source, worker, op>>,
         budget' = [budget EXCEPT !.nights = @ - 1], budget.nights > 0
  PROVE  SweepInv' /\ (Sole => Sole') /\ (Empty => Empty')
<1>1. PICK t : t \in SUBSET Open /\ t \subseteq Open
        /\ sweep' = [sweep EXCEPT ![o] = [state |-> "sweeping", todo |-> t, lapsed |-> Lapsed]]
        /\ ~Busy(o) /\ sweep[o].state = "none"
  BY DEF StartSweep, Busy
<1>2. Open \subseteq Commands /\ Lapsed \subseteq Commands
      /\ \A c \in Open : status[c] \notin Terminal
  BY DEF Open, Lapsed
<1>3. sweep' \in [Operators -> SweepType]
      /\ sweep'[o] = [state |-> "sweeping", todo |-> t, lapsed |-> Lapsed]
      /\ \A p \in Operators : p # o => sweep'[p] = sweep[p]
  BY <1>1, <1>2 DEF SweepInv, SweepTyped, SweepType
<1>4. budget' \in BudgetType /\ budget'.nights = budget.nights - 1
      /\ budget'.submissions = budget.submissions
  BY DEF SweepInv, SweepTyped, BudgetType
<1>5. SweepTyped' /\ WorkOK'
  BY <1>3, <1>4 DEF SweepInv, SweepTyped, WorkOK
<1>6. \A p \in Operators : CallOK(p)'
  BY <1>1, <1>3 DEF SweepInv, CallOK, Busy
<1>7. SourceOK'
  BY <1>1, <1>3 DEF SweepInv, SourceOK, Replaced, Cancelling
<1>8. ASSUME Sole PROVE Sole'
  <2>1. budget'.nights = 0 /\ budget.nights = 1
    BY <1>4, <1>8 DEF Sole
  <2>2. \A p \in Operators : p # o => sweep'[p].state = "none"
    BY <1>3, <1>8, <2>1 DEF Sole
  <2>3. \A d \in Commands : source[d] # None =>
           /\ status'[source'[d]] \in Terminal
           /\ \A p \in Operators : source'[d] \notin sweep'[p].todo
                                   /\ (Busy(p)' => op'[p].cmd # source'[d])
    BY <1>1, <1>2, <1>3, <1>8 DEF Sole, Busy
  <2>4. \A p, q \in Operators : sweep'[p].state # "none" /\ sweep'[q].state # "none" => p = q
    BY <2>2
  <2>5. \A p \in Operators : Cancelling(p)' => status'[op'[p].cmd] \in Terminal
    BY <1>8 DEF Sole, Cancelling
  <2>6. \A c, d \in Commands : source'[c] # None /\ c # d => source'[c] # source'[d]
    BY <1>8 DEF Sole
  <2> QED BY <2>1, <2>3, <2>4, <2>5, <2>6 DEF Sole
<1>9. Empty => Empty'
  BY <1>4 DEF Empty
<1> QED BY <1>5, <1>6, <1>7, <1>8, <1>9 DEF SweepInv

LEMMA ItemIs ==
  ASSUME SweepInv, NEW o \in Operators, NEW c \in Commands, NextItem(o, c)
  PROVE  /\ ~Busy(o) /\ c \in sweep[o].todo /\ sweep' \in [Operators -> SweepType]
         /\ sweep'[o].state = sweep[o].state /\ sweep'[o].todo = sweep[o].todo \ {c}
         /\ \A p \in Operators : p # o => sweep'[p] = sweep[p]
BY DEF NextItem, Busy, SweepInv, SweepTyped, SweepType

LEMMA RequeueKeeps ==
  ASSUME SweepInv, UNCHANGED budget, NEW o \in Operators, NEW c \in Commands, Remediate(o, c)
  PROVE  SweepInv' /\ (Sole => Sole') /\ (Empty => Empty')
<1>1. /\ NextItem(o, c) /\ UNCHANGED <<status, source, worker>>
      /\ op' = [op EXCEPT ![o] =
                  [kind |-> "preflight", pc |-> "requeue_read", cmd |-> c, token |-> None]]
  BY DEF Remediate, Begin, storeVars, rowVars
<1>2. status[c] \in {"queued", "running"}
  BY DEF Remediate, Eligible, Reclaimable, Lapsed
<1>3. /\ ~Busy(o) /\ c \in sweep[o].todo /\ sweep' \in [Operators -> SweepType]
      /\ sweep'[o].state = sweep[o].state /\ sweep'[o].todo = sweep[o].todo \ {c}
      /\ \A p \in Operators : p # o => sweep'[p] = sweep[p]
  BY <1>1, ItemIs
<1>4. /\ op' \in [Operators -> OpCall] /\ \A p \in Operators : p # o => op'[p] = op[p]
      /\ op'[o].kind = "preflight" /\ op'[o].pc = "requeue_read" /\ op'[o].cmd = c
  BY <1>1 DEF SweepInv, SweepTyped, OpCall, OperatorSteps, OperatorKinds
<1>5. SweepTyped' /\ WorkOK'
  BY <1>1, <1>3, <1>4 DEF SweepInv, SweepTyped, WorkOK
<1>6. \A p \in Operators : CallOK(p)'
  BY <1>1, <1>2, <1>3, <1>4 DEF SweepInv, CallOK, Busy, RequeueSteps
<1>7. SourceOK'
  BY <1>1, <1>3, <1>4 DEF SweepInv, SourceOK, Replaced, Cancelling, Busy
<1>8. ASSUME Sole PROVE Sole'
  BY <1>1, <1>3, <1>4, <1>8 DEF Sole, Busy, Cancelling
<1>9. ~Empty
  BY <1>2 DEF Empty
<1> QED BY <1>5, <1>6, <1>7, <1>8, <1>9 DEF SweepInv

(* Steps that only shorten a list or end a preflight.                      *)
LEMMA LessKeeps ==
  ASSUME SweepInv, UNCHANGED <<status, source, worker, budget>>, NEW o \in Operators,
         sweep' \in [Operators -> SweepType], op' \in [Operators -> OpCall],
         \A p \in Operators : p # o => sweep'[p] = sweep[p] /\ op'[p] = op[p],
         sweep'[o].todo \subseteq sweep[o].todo,
         sweep'[o].state = sweep[o].state
           \/ (sweep'[o].state \in {"done", "aborted"} /\ sweep'[o].todo = {} /\ op'[o].pc = "idle"
               /\ sweep[o].state # "none"),
         op'[o] = op[o] \/ (op'[o].pc = "idle" /\ (~Cancelling(o) \/ sweep'[o].state = "aborted"))
           \/ (op[o].pc = "requeue_read" /\ op'[o] = [op[o] EXCEPT !.pc = "cancel_read"]),
         sweep[o].state = "aborted" => sweep'[o].state = "aborted"
  PROVE  SweepInv' /\ (Sole => Sole') /\ (Empty => Empty')
<1>1. SweepTyped' /\ WorkOK' /\ (Empty => Empty')
  BY DEF SweepInv, SweepTyped, WorkOK, Empty
<1>2. \/ op'[o] = op[o] \/ (op'[o].pc = "idle" /\ (~Cancelling(o) \/ sweep'[o].state = "aborted"))
      \/ /\ op[o].pc = "requeue_read" /\ op'[o].pc = "cancel_read"
         /\ op'[o].cmd = op[o].cmd /\ op'[o].kind = op[o].kind
  BY DEF SweepInv, SweepTyped, OpCall
<1>3. \A p \in Operators : CallOK(p)'
  BY <1>2 DEF SweepInv, CallOK, Busy, RequeueSteps
<1>4. SourceOK'
  BY <1>2 DEF SweepInv, SourceOK, Replaced, Cancelling
<1>5. ASSUME Sole PROVE Sole'
  BY <1>2, <1>5 DEF Sole, Busy, Cancelling
<1> QED BY <1>1, <1>3, <1>4, <1>5 DEF SweepInv

LEMMA CallsIn == NoCall \in OpCall /\ NoCall.pc = "idle"
BY DEF NoCall, OpCall, OperatorSteps, OperatorKinds

LEMMA EndsIn ==
  ASSUME NEW s \in {"none", "sweeping", "done", "aborted"}
  PROVE  NoSweep(s) \in SweepType /\ NoSweep(s).state = s /\ NoSweep(s).todo = {}
BY DEF NoSweep, SweepType

LEMMA LeaveKeeps ==
  ASSUME SweepInv, UNCHANGED budget, NEW o \in Operators, NEW c \in Commands, LeaveManual(o, c)
  PROVE  SweepInv' /\ (Sole => Sole') /\ (Empty => Empty')
<1>1. NextItem(o, c) /\ UNCHANGED <<status, source, worker, op>>
  BY DEF LeaveManual, vars, storeVars, rowVars
<1>2. op' \in [Operators -> OpCall]
  BY <1>1 DEF SweepInv, SweepTyped
<1> QED BY <1>1, <1>2, ItemIs, LessKeeps

LEMMA ReadKeeps ==
  ASSUME SweepInv, UNCHANGED budget, NEW o \in Operators, RequeueRead(o)
  PROVE  SweepInv' /\ (Sole => Sole') /\ (Empty => Empty')
<1>1. /\ op[o].pc = "requeue_read" /\ UNCHANGED <<status, source, worker>> /\ Busy(o)
      /\ sweep[o].state = "sweeping" /\ ~Cancelling(o)
  BY DEF RequeueRead, storeVars, rowVars, Busy, SweepInv, CallOK, Cancelling
<1>2. CASE op' = [op EXCEPT ![o].pc = "cancel_read"] /\ sweep' = sweep
  <2>1. op' \in [Operators -> OpCall] /\ op'[o] = [op[o] EXCEPT !.pc = "cancel_read"]
        /\ \A p \in Operators : p # o => op'[p] = op[p]
    BY <1>2 DEF SweepInv, SweepTyped, OpCall, OperatorSteps
  <2>2. sweep' \in [Operators -> SweepType]
    BY <1>2 DEF SweepInv, SweepTyped
  <2> QED BY <1>1, <1>2, <2>1, <2>2, LessKeeps
<1>3. CASE op' = [op EXCEPT ![o] = NoCall] /\ sweep' = [sweep EXCEPT ![o] = NoSweep("aborted")]
  <2>1. op' \in [Operators -> OpCall] /\ op'[o].pc = "idle"
        /\ \A p \in Operators : p # o => op'[p] = op[p]
    BY <1>3, CallsIn DEF SweepInv, SweepTyped
  <2>2. sweep' \in [Operators -> SweepType] /\ sweep'[o].state = "aborted" /\ sweep'[o].todo = {}
        /\ \A p \in Operators : p # o => sweep'[p] = sweep[p]
    BY <1>3, EndsIn DEF SweepInv, SweepTyped
  <2> QED BY <1>1, <2>1, <2>2, LessKeeps
<1> QED BY <1>2, <1>3 DEF RequeueRead, GoTo, Return

LEMMA EndKeeps ==
  ASSUME SweepInv, UNCHANGED budget, NEW o \in Operators, EndSweep(o)
  PROVE  SweepInv' /\ (Sole => Sole') /\ (Empty => Empty')
<1>1. /\ op[o].pc = "idle" /\ UNCHANGED <<status, source, worker, op>>
      /\ sweep[o].state = "sweeping" /\ sweep' = [sweep EXCEPT ![o] = NoSweep("done")]
  BY DEF EndSweep, vars, storeVars, rowVars
<1>2. op' \in [Operators -> OpCall]
  BY <1>1 DEF SweepInv, SweepTyped
<1>3. sweep' \in [Operators -> SweepType] /\ sweep'[o].state = "done" /\ sweep'[o].todo = {}
      /\ \A p \in Operators : p # o => sweep'[p] = sweep[p]
  BY <1>1, EndsIn DEF SweepInv, SweepTyped
<1> QED BY <1>1, <1>2, <1>3, LessKeeps

LEMMA DiesKeeps ==
  ASSUME SweepInv, UNCHANGED budget, NEW o \in Operators, SweeperDies(o)
  PROVE  SweepInv' /\ (Sole => Sole') /\ (Empty => Empty')
<1>1. /\ UNCHANGED <<status, source, worker>> /\ op' = [op EXCEPT ![o] = NoCall]
      /\ sweep[o].state = "sweeping"
      /\ sweep' = [sweep EXCEPT ![o] = NoSweep("aborted")]
  <2>1. Busy(o)
    BY DEF SweeperDies, OperatorDies, Busy
  <2>2. sweep[o].state = "sweeping"
    BY <2>1 DEF SweepInv, CallOK
  <2> QED BY <2>2 DEF SweeperDies, OperatorDies, storeVars, rowVars
<1>2. op' \in [Operators -> OpCall] /\ op'[o].pc = "idle"
      /\ \A p \in Operators : p # o => op'[p] = op[p]
  BY <1>1, CallsIn DEF SweepInv, SweepTyped
<1>3. sweep' \in [Operators -> SweepType] /\ sweep'[o].state = "aborted" /\ sweep'[o].todo = {}
      /\ \A p \in Operators : p # o => sweep'[p] = sweep[p]
  BY <1>1, EndsIn DEF SweepInv, SweepTyped
<1> QED BY <1>1, <1>2, <1>3, LessKeeps

-----------------------------------------------------------------------------

LEMMA OthersKeep ==
  ASSUME SweepInv, OtherStoreStep, UNCHANGED <<sweep, budget>>
  PROVE  SweepInv' /\ (Sole => Sole') /\ (Empty => Empty')
<1>1. ASSUME NEW w \in Workers, Heartbeat(w) PROVE UNCHANGED <<status, source, worker, op, sweep>>
  BY <1>1 DEF Heartbeat
<1>2. ASSUME NEW c \in Commands, LeaseLapses(c)
      PROVE  UNCHANGED <<status, source, worker, op, sweep>>
  BY <1>2 DEF LeaseLapses
<1>3. budget' \in BudgetType /\ budget'.nights <= budget.nights
      /\ budget'.submissions = budget.submissions
  BY DEF SweepInv, SweepTyped, BudgetType
<1>4. CASE UNCHANGED <<status, source, worker, op, sweep>>
  BY <1>3, <1>4, RestKeeps
<1>5. CASE \E w \in Workers : \/ \E wanted \in Commands \cup {None} : Claim(w, wanted)
                              \/ WorkerStep(w) \/ WorkerDies(w)
  BY <1>5, WorkersMove, WorkerKeeps
<1>6. CASE \E o \in Operators : OperatorStep(o)
  BY <1>6, OperatorKeeps
<1> QED BY <1>1, <1>2, <1>4, <1>5, <1>6 DEF OtherStoreStep

LEMMA RestIs ==
  ASSUME UNCHANGED preflightVars PROVE UNCHANGED <<status, source, worker, op, sweep>>
BY DEF preflightVars, vars, storeVars, rowVars

LEMMA NightsKeep ==
  ASSUME SweepInv, NEW o \in Operators, NightStep(o)
  PROVE  SweepInv' /\ (Sole => Sole') /\ (Empty => Empty')
<1> USE DEF SweepInv, SweepTyped, BudgetType
<1>1. CASE UNCHANGED preflightVars
      /\ \/ UNCHANGED budget
         \/ budget' = [budget EXCEPT !.nights = @ - 1] /\ budget.nights > 0
         \/ budget' = [budget EXCEPT !.plans = @ - 1] /\ budget.plans > 0
  <2>1. budget' \in BudgetType /\ budget'.nights <= budget.nights
        /\ budget'.submissions = budget.submissions
    BY <1>1
  <2> QED BY <1>1, <2>1, RestIs, RestKeeps
<1>2. ASSUME NEW mode \in budget.modes, NEW limit \in budget.limits, NEW hours \in Hours,
             StartNight(o, mode, limit, hours)
      PROVE  SweepInv' /\ (Sole => Sole') /\ (Empty => Empty')
  <2>1. budget' = [budget EXCEPT !.nights = @ - 1] /\ budget.nights > 0
    BY <1>2 DEF StartNight
  <2>2. CASE UNCHANGED preflightVars
    BY <1>1, <2>1, <2>2
  <2>3. CASE StartSweep(o)
    <3>1. UNCHANGED <<status, source, worker, op>>
      BY <2>3 DEF StartSweep, vars, storeVars, rowVars
    <3> QED BY <2>1, <2>3, <3>1, StartKeeps
  <2> QED BY <1>2, <2>2, <2>3 DEF StartNight, DryPreflight
<1>3. ASSUME NEW c \in Commands, RequeueItem(o, c) \/ LeaveItem(o, c)
      PROVE  SweepInv' /\ (Sole => Sole') /\ (Empty => Empty')
  BY <1>3, RequeueKeeps, LeaveKeeps DEF RequeueItem, LeaveItem
<1>4. CASE SweepRead(o) \/ FinishSweep(o)
  BY <1>4, ReadKeeps, EndKeeps DEF SweepRead, FinishSweep
<1>5. ASSUME NEW sight \in Sights, Plan(o, sight) PROVE SweepInv' /\ (Sole => Sole') /\ (Empty => Empty')
  BY <1>1, <1>5 DEF Plan
<1>6. CASE CompileNext(o) \/ TellEnqueued(o) \/ StartOwnShift(o) \/ TellRun(o)
  BY <1>1, <1>6 DEF CompileNext, TellEnqueued, StartOwnShift, TellRun
<1> QED BY <1>2, <1>3, <1>4, <1>5, <1>6 DEF NightStep

LEMMA SweepsNext ==
  ASSUME SweepInv, [OvernightNext]_overnightVars
  PROVE  SweepInv' /\ (Sole => Sole') /\ (Empty => Empty')
<1> USE DEF SweepInv, SweepTyped, BudgetType
<1>1. ASSUME UNCHANGED <<status, source, worker, op, sweep>>,
             \/ UNCHANGED budget
             \/ budget' = [budget EXCEPT !.hand = @ - 1] /\ budget.hand > 0
             \/ budget' = [budget EXCEPT !.shifts = @ - 1] /\ budget.shifts > 0
      PROVE  SweepInv' /\ (Sole => Sole') /\ (Empty => Empty')
  <2>1. budget' \in BudgetType /\ budget'.nights <= budget.nights
        /\ budget'.submissions = budget.submissions
    BY <1>1
  <2> QED BY <1>1, <2>1, RestKeeps
<1>2. CASE UNCHANGED overnightVars
  BY <1>1, <1>2, RestIs DEF overnightVars, nightVars
<1>3. CASE OtherStoreStep /\ UNCHANGED <<sweep, nightVars>>
  BY <1>3, OthersKeep DEF nightVars
<1>4. ASSUME NEW c \in Commands, NEW k \in Classes, SubmitOne(c, k)
      PROVE  SweepInv' /\ (Sole => Sole') /\ (Empty => Empty')
  BY <1>4, SubmitOneKeeps
<1>5. ASSUME NEW o \in Operators, NightStep(o) \/ SweepingNightDies(o)
      PROVE  SweepInv' /\ (Sole => Sole') /\ (Empty => Empty')
  BY <1>5, NightsKeep, DiesKeeps DEF SweepingNightDies
<1>6. ASSUME NEW o \in Operators, NightDies(o) PROVE SweepInv' /\ (Sole => Sole') /\ (Empty => Empty')
  BY <1>1, <1>6 DEF NightDies, storeVars, rowVars
<1>7. CASE ShiftDies
  BY <1>1, <1>7 DEF ShiftDies, storeVars, rowVars
<1>8. ASSUME NEW content \in HandGraphs, EnqueueByHand(content)
      PROVE  SweepInv' /\ (Sole => Sole') /\ (Empty => Empty')
  BY <1>1, <1>8, RestIs DEF EnqueueByHand
<1>9. CASE StartLaunchdShift
  BY <1>1, <1>9, RestIs DEF StartLaunchdShift
<1>10. ASSUME NEW p \in ShiftProcesses, ShiftStep(p)
       PROVE  SweepInv' /\ (Sole => Sole') /\ (Empty => Empty')
  BY <1>1, <1>10, RestIs DEF ShiftStep, TakeFile, RouteFile, TellOutcome, EndShift
<1> QED BY <1>2, <1>3, <1>4, <1>5, <1>6, <1>7, <1>8, <1>9, <1>10 DEF OvernightNext

LEMMA SweepsHold == OvernightSpec => []SweepInv
<1>1. SweepInv /\ [OvernightNext]_overnightVars => SweepInv'
  BY SweepsNext
<1> QED BY <1>1, InitSweeps, PTL DEF OvernightSpec

(* Whatever crashes, a preflight that ran to its end left no command       *)
(* canceled without a replacement.                                         *)
THEOREM RemediationAlwaysRequeues == OvernightSpec => []RemediationIsRequeue
<1>1. SweepInv => RemediationIsRequeue
  BY DEF SweepInv, SourceOK, RemediationIsRequeue, Replaced, Cancelling, CallOK, Busy
<1> QED BY <1>1, SweepsHold, PTL

(* When no more than one night sweeps what is submitted, work is never     *)
(* doubled either.                                                         *)
THEOREM PreflightAlwaysKeepsWork ==
  ASSUME OneNight PROVE OvernightSpec => []PreflightKeepsWork
<1>1. SweepInv /\ (Sole \/ Empty) => PreflightKeepsWork
  <2> SUFFICES ASSUME SweepInv, Sole \/ Empty PROVE PreflightKeepsWork
    OBVIOUS
  <2>1. None \notin Commands
    BY NoneAssumption, CommandsAssumption
  <2>2. ASSUME NEW c \in Commands, NEW d \in Commands, c \in Open,
               source[d] = c \/ (source[c] # None /\ source[c] = source[d] /\ c # d)
        PROVE  FALSE
    <3>1. status[c] \notin Terminal \cup {"absent"}
      BY <2>2 DEF Open
    <3>2. CASE Empty
      BY <3>1, <3>2 DEF Empty
    <3>3. CASE Sole
      BY <2>1, <2>2, <3>1, <3>3 DEF Sole
    <3> QED BY <3>2, <3>3
  <2>3. OneOpenCopy
    BY <2>2 DEF OneOpenCopy
  <2>4. RemediationIsRequeue
    BY DEF SweepInv, SourceOK, RemediationIsRequeue, Replaced, Cancelling, CallOK, Busy
  <2> QED BY <2>3, <2>4 DEF PreflightKeepsWork
<1>2. SweepInv /\ (Sole \/ Empty) /\ [OvernightNext]_overnightVars => (Sole \/ Empty)'
  BY SweepsNext
<1>3. OvernightInit => SweepInv /\ (Sole \/ Empty)
  BY InitSweeps
<1> QED BY <1>1, <1>2, <1>3, SweepsHold, PTL DEF OvernightSpec

-----------------------------------------------------------------------------
(* A run's directory.  Only the run's own shift moves its graphs, so what  *)
(* it counted is what the directory holds: while the shift works, the file *)
(* it moved and has not counted yet is the only difference.                *)

Graphs == ShiftProcesses \X Nat
Dirs == Outcomes \cup {"queue", "running"}
IsSeq(s) == s \in Seq({s[i] : i \in DOMAIN s})

ShiftType == [at : {"off", "next", "running", "tell"}, todo : SUBSET Graphs,
              graph : Graphs \cup {<<>>}, to : Dirs, tally : [Outcomes -> Nat]]

NightSteps == {"off", "preflight", "plan", "compile", "shift", "record", "over", "dead"}

IsNight(n) ==
  /\ n = [at |-> n.at, mode |-> n.mode, limit |-> n.limit, hours |-> n.hours, plan |-> n.plan,
          graphs |-> n.graphs, automated |-> n.automated, manual |-> n.manual,
          shift |-> n.shift, skipped |-> n.skipped]
  /\ n.at \in NightSteps /\ n.mode \in Modes \cup {"none"}
  /\ IsSeq(n.graphs) /\ n.shift \in [Outcomes -> Nat] /\ n.skipped \in Nat

(* Whose a file is tells where it was queued.                              *)
FileOK(f) ==
  /\ f = [graph |-> f.graph, queue |-> f.queue, dir |-> f.dir, content |-> f.content]
  /\ f.graph \in Graphs /\ f.queue \in ShiftProcesses /\ f.dir \in Dirs
  /\ f.graph[1] = Launchd => f.graph[2] > budget.hand /\ f.queue = Launchd
  /\ f.graph[1] \in Operators =>
       LET n == night[f.graph[1]] IN
         /\ n.mode \notin {"dry enqueue", "dry run"} /\ f.graph[2] \in 1 .. Len(n.graphs)
         /\ f.queue = IF n.mode = "run" THEN f.graph[1] ELSE Launchd
         /\ n.mode = "run" /\ n.at \in {"preflight", "plan", "compile"} => f.dir = "queue"

FilesOK ==
  /\ IsFiniteSet(files)
  /\ \A f \in files : FileOK(f)
  /\ \A f, g \in files : f.graph = g.graph => f = g

Lies(g, p, d) == \E f \in files : f.graph = g /\ f.queue = p /\ f.dir = d

ShiftOK(p) ==
  /\ shift[p].at = "off" => shift[p].todo = {}
  /\ \A g \in shift[p].todo : Lies(g, p, "queue")
  /\ shift[p].at = "running" => Lies(shift[p].graph, p, "running")
  /\ shift[p].at = "tell" => shift[p].to \in Outcomes /\ Lies(shift[p].graph, p, shift[p].to)

InDir(o, d) == {f \in NightGraphs(o) : f.dir = d}

Tallied(o) ==
  /\ \A d \in Outcomes :
       shift[o].tally[d] + (IF shift[o].at = "tell" /\ shift[o].to = d THEN 1 ELSE 0)
         = Cardinality(InDir(o, d))
  /\ shift[o].todo = {f.graph : f \in InDir(o, "queue")}
  /\ \A f \in InDir(o, "running") : shift[o].at = "running" /\ f.graph = shift[o].graph

Accounted(o) ==
  /\ \A d \in Outcomes : night[o].shift[d] = Cardinality(InDir(o, d))
  /\ night[o].skipped = Cardinality(InDir(o, "queue"))
  /\ InDir(o, "running") = {}

NightOK(o) ==
  /\ night[o].at = "off" => night[o] = NoNight
  /\ sweep[o].state = "sweeping" => night[o].at = "preflight"
  /\ night[o].at = "shift" <=> shift[o].at # "off"
  /\ night[o].at \in {"shift", "record"} => night[o].mode = "run"
  /\ night[o].mode = "dry run" => night[o].shift = NoNight.shift /\ night[o].skipped = 0
  /\ night[o].at = "shift" => Tallied(o)
  /\ night[o].at = "record" \/ (night[o].at = "over" /\ night[o].mode = "run") => Accounted(o)

(* A run's event repeats what its night ended with.                        *)
EventOK(e) ==
  e.kind = "run" =>
    /\ e.night \in Operators /\ night[e.night].at = "over"
    /\ night[e.night].mode \in {"run", "dry run"}
    /\ e.shift = night[e.night].shift /\ e.skipped = night[e.night].skipped
    /\ e.status = RunStatus(e.night)

AccountTyped ==
  /\ budget \in BudgetType
  /\ night = [o \in Operators |-> night[o]] /\ \A o \in Operators : IsNight(night[o])
  /\ shift \in [ShiftProcesses -> ShiftType]
  /\ IsSeq(ledger)

AccountInv ==
  /\ AccountTyped
  /\ FilesOK
  /\ \A p \in ShiftProcesses : ShiftOK(p)
  /\ \A o \in Operators : NightOK(o)
  /\ \A i \in 1 .. Len(ledger) : EventOK(ledger[i])

-----------------------------------------------------------------------------

LEMMA AppendIs ==
  ASSUME NEW s, IsSeq(s), NEW e
  PROVE  /\ IsSeq(Append(s, e)) /\ Len(s) \in Nat /\ Len(Append(s, e)) = Len(s) + 1
         /\ \A i \in 1 .. Len(s) : Append(s, e)[i] = s[i]
         /\ Append(s, e)[Len(s) + 1] = e
<1> DEFINE S == {s[i] : i \in DOMAIN s} \cup {e}
<1>1. s \in Seq(S) /\ e \in S
  BY DEF IsSeq
<1> HIDE DEF S
<1>2. PICK t \in Seq(S) : /\ t = Append(s, e) /\ Len(t) = Len(s) + 1 /\ t[Len(s) + 1] = e
                          /\ \A i \in 1 .. Len(s) : t[i] = s[i]
  <2>1. Append(s, e) \in Seq(S)
    BY <1>1, AppendProperties
  <2>2. Len(Append(s, e)) = Len(s) + 1 /\ Append(s, e)[Len(s) + 1] = e
    BY <1>1, AppendProperties
  <2>3. \A i \in 1 .. Len(s) : Append(s, e)[i] = s[i]
    BY <1>1, AppendProperties
  <2> QED BY <2>1, <2>2, <2>3
<1>3. t \in Seq({t[i] : i \in DOMAIN t})
  BY <1>2
<1> QED BY <1>1, <1>2, <1>3 DEF IsSeq

LEMMA EmptyIs == IsSeq(<<>>) /\ Len(<<>>) = 0
BY DEF IsSeq

LEMMA NoShiftIs == NoShift \in ShiftType /\ NoShift.at = "off" /\ NoShift.todo = {}
                   /\ NoShift.tally = [o \in Outcomes |-> 0]
BY DEF NoShift, ShiftType, Dirs

LEMMA NoNightIs == /\ IsNight(NoNight) /\ NoNight.at = "off" /\ NoNight.mode = "none"
                   /\ NoNight.graphs = <<>> /\ NoNight.skipped = 0
                   /\ NoNight.shift = [o \in Outcomes |-> 0]
BY EmptyIs DEF NoNight, IsNight, NightSteps

LEMMA InitAccounts == OvernightInit => AccountInv
<1> SUFFICES ASSUME OvernightInit PROVE AccountInv
  OBVIOUS
<1> USE DEF OvernightInit
<1>1. AccountTyped
  BY NoNightIs, NoShiftIs, EmptyIs, BudgetsAssumption DEF AccountTyped
<1>2. FilesOK
  BY FS_EmptySet DEF FilesOK
<1>3. \A p \in ShiftProcesses : ShiftOK(p)
  BY NoShiftIs DEF ShiftOK
<1>4. \A o \in Operators : NightOK(o)
  BY NoNightIs, NoShiftIs DEF NightOK, PreflightInit, NoSweep, ShiftProcesses
<1>5. \A i \in 1 .. Len(ledger) : EventOK(ledger[i])
  BY EmptyIs
<1> QED BY <1>1, <1>2, <1>3, <1>4, <1>5 DEF AccountInv

Early == {"preflight", "plan", "compile"}

(* A process goes on with its night, its shift or its events; the files    *)
(* stay where they are.                                                    *)
LEMMA MovesKeep ==
  ASSUME AccountInv, NEW p \in ShiftProcesses, files' = files, AccountTyped',
         budget'.hand = budget.hand,
         \A q \in ShiftProcesses : q # p => shift'[q] = shift[q],
         \A q \in Operators : q # p => night'[q] = night[q] /\ sweep'[q].state = sweep[q].state,
         ShiftOK(p)',
         p \in Operators =>
           /\ NightOK(p)'
           /\ night'[p] = night[p] \/ night[p].at # "over"
           /\ \/ night[p].at = "off"
              \/ /\ night'[p].graphs = night[p].graphs /\ night'[p].mode = night[p].mode
                 /\ night'[p].at \in Early => night[p].at \in Early,
         \A i \in 1 .. Len(ledger') :
           (i \in 1 .. Len(ledger) /\ ledger'[i] = ledger[i]) \/ EventOK(ledger[i])'
  PROVE  AccountInv'
<1>1. ASSUME NEW f \in files PROVE FileOK(f)'
  <2>1. FileOK(f)
    BY DEF AccountInv, FilesOK
  <2>2. CASE f.graph[1] = p /\ p \in Operators /\ night[p].at = "off"
    <3>1. Len(night[p].graphs) = 0
      BY <2>2, NoNightIs, EmptyIs DEF AccountInv, NightOK
    <3>2. f.graph[2] \in 1 .. Len(night[p].graphs)
      BY <2>1, <2>2 DEF FileOK
    <3> QED BY <3>1, <3>2
  <2>3. CASE f.graph[1] = p /\ p \in Operators /\ night[p].at # "off"
    BY <2>1, <2>3 DEF FileOK, Early
  <2>4. CASE f.graph[1] \in Operators /\ f.graph[1] # p
    BY <2>1, <2>4 DEF FileOK
  <2>5. CASE f.graph[1] \notin Operators
    BY <2>1, <2>5 DEF FileOK
  <2> QED BY <2>2, <2>3, <2>4, <2>5
<1>2. FilesOK'
  BY <1>1 DEF AccountInv, FilesOK
<1>3. \A q \in ShiftProcesses : ShiftOK(q)'
  BY DEF AccountInv, ShiftOK, Lies
<1>4. ASSUME NEW q \in Operators PROVE NightOK(q)'
  <2>1. CASE q = p
    BY <2>1
  <2>2. CASE q # p
    <3>1. NightOK(q) /\ q \in ShiftProcesses /\ night'[q] = night[q] /\ shift'[q] = shift[q]
          /\ sweep'[q].state = sweep[q].state
      BY <2>2 DEF AccountInv, ShiftProcesses
    <3>2. \A d \in Dirs : InDir(q, d)' = InDir(q, d)
      BY DEF InDir, NightGraphs
    <3>3. Outcomes \subseteq Dirs /\ {"queue", "running"} \subseteq Dirs
      BY DEF Dirs
    <3>4. Tallied(q) => Tallied(q)'
      BY <3>1, <3>2, <3>3 DEF Tallied
    <3>5. Accounted(q) => Accounted(q)'
      BY <3>1, <3>2, <3>3 DEF Accounted
    <3> QED BY <3>1, <3>4, <3>5 DEF NightOK
  <2> QED BY <2>1, <2>2
<1>5. ASSUME NEW e, EventOK(e) PROVE EventOK(e)'
  <2>1. CASE e.kind = "run"
    <3>1. PICK o \in Operators : o = e.night /\ night[o].at = "over"
            /\ night[o].mode \in {"run", "dry run"} /\ e.shift = night[o].shift
            /\ e.skipped = night[o].skipped /\ e.status = RunStatus(o)
      BY <1>5, <2>1 DEF EventOK
    <3>2. night'[o] = night[o]
      BY <3>1
    <3>3. RunStatus(o)' = RunStatus(o)
      BY <3>2 DEF RunStatus, Dry
    <3> QED BY <3>1, <3>2, <3>3 DEF EventOK
  <2>2. CASE e.kind # "run"
    BY <2>2 DEF EventOK
  <2> QED BY <2>1, <2>2
<1>6. ASSUME NEW i \in 1 .. Len(ledger') PROVE EventOK(ledger[i])'
  <2>1. PICK e : e = ledger'[i]
    OBVIOUS
  <2>2. CASE i \in 1 .. Len(ledger) /\ e = ledger[i]
    <3>1. EventOK(e)
      BY <2>2 DEF AccountInv
    <3>2. EventOK(e)'
      BY <1>5, <3>1
    <3> QED BY <2>1, <3>2 DEF EventOK
  <2>3. CASE EventOK(ledger[i])'
    BY <2>3
  <2> QED BY <2>1, <2>2, <2>3
<1> QED BY <1>2, <1>3, <1>4, <1>6 DEF AccountInv

(* One field of a night changes.                                           *)
LEMMA StepIs ==
  ASSUME AccountInv, NEW o \in Operators, NEW step \in NightSteps,
         night' = [night EXCEPT ![o].at = step]
  PROVE  /\ night' = [q \in Operators |-> night'[q]] /\ \A q \in Operators : IsNight(night'[q])
         /\ night'[o].at = step /\ night'[o].mode = night[o].mode
         /\ night'[o].graphs = night[o].graphs /\ night'[o].shift = night[o].shift
         /\ night'[o].skipped = night[o].skipped
         /\ \A q \in Operators : q # o => night'[q] = night[q]
<1>1. /\ night = [q \in Operators |-> night[q]] /\ \A q \in Operators : IsNight(night[q])
  BY DEF AccountInv, AccountTyped
<1>2. PICK n : n = [night[o] EXCEPT !.at = step]
  OBVIOUS
<1>3. night' = [night EXCEPT ![o] = n]
  BY <1>2
<1>4. IsNight(n) /\ n.at = step /\ n.mode = night[o].mode /\ n.graphs = night[o].graphs
      /\ n.shift = night[o].shift /\ n.skipped = night[o].skipped
  BY <1>1, <1>2 DEF IsNight
<1>5. night' = [q \in Operators |-> night'[q]] /\ night'[o] = n
      /\ \A q \in Operators : q # o => night'[q] = night[q]
  BY <1>1, <1>3
<1> QED BY <1>1, <1>4, <1>5

LEMMA AutomatedIs ==
  ASSUME AccountInv, NEW o \in Operators, NEW k,
         night' = [night EXCEPT ![o].automated = k] \/ night' = [night EXCEPT ![o].manual = k]
  PROVE  /\ night' = [q \in Operators |-> night'[q]] /\ \A q \in Operators : IsNight(night'[q])
         /\ night'[o].at = night[o].at /\ night'[o].mode = night[o].mode
         /\ night'[o].graphs = night[o].graphs /\ night'[o].shift = night[o].shift
         /\ night'[o].skipped = night[o].skipped
         /\ \A q \in Operators : q # o => night'[q] = night[q]
<1>1. /\ night = [q \in Operators |-> night[q]] /\ \A q \in Operators : IsNight(night[q])
  BY DEF AccountInv, AccountTyped
<1>2. PICK n : /\ n = [night[o] EXCEPT !.automated = k] \/ n = [night[o] EXCEPT !.manual = k]
               /\ night' = [night EXCEPT ![o] = n]
  OBVIOUS
<1>3. IsNight(n) /\ n.at = night[o].at /\ n.mode = night[o].mode /\ n.graphs = night[o].graphs
      /\ n.shift = night[o].shift /\ n.skipped = night[o].skipped
  BY <1>1, <1>2 DEF IsNight
<1>4. night' = [q \in Operators |-> night'[q]] /\ night'[o] = n
      /\ \A q \in Operators : q # o => night'[q] = night[q]
  BY <1>1, <1>2
<1> QED BY <1>1, <1>3, <1>4

(* The processes that only change the command store.                       *)
LEMMA IdleKeeps ==
  ASSUME AccountInv, UNCHANGED <<night, shift, files, ledger>>,
         budget' \in BudgetType, budget'.hand = budget.hand,
         \A o \in Operators : sweep'[o].state = sweep[o].state
  PROVE  AccountInv'
<1>1. AccountTyped'
  BY DEF AccountInv, AccountTyped
<1>2. Launchd \in ShiftProcesses /\ Launchd \notin Operators
  BY LaunchdAssumption DEF ShiftProcesses
<1>3. ShiftOK(Launchd)'
  BY <1>2 DEF AccountInv, ShiftOK, Lies
<1> QED BY <1>1, <1>2, <1>3, MovesKeep

(* A night before its first graph, or one that dies.                       *)
LEMMA EarlyKeeps ==
  ASSUME AccountInv, NEW o \in Operators, UNCHANGED <<files, ledger>>,
         budget' \in BudgetType, budget'.hand = budget.hand,
         night' = [q \in Operators |-> night'[q]], \A q \in Operators : IsNight(night'[q]),
         \A q \in Operators : q # o => night'[q] = night[q] /\ sweep'[q].state = sweep[q].state,
         shift' = shift \/ (shift' = [shift EXCEPT ![o] = NoShift] /\ night'[o].at = "dead"),
         \/ night[o].at = "off"
         \/ /\ night[o].at # "over" /\ night'[o].graphs = night[o].graphs
            /\ night'[o].mode = night[o].mode
            /\ night'[o].shift = night[o].shift /\ night'[o].skipped = night[o].skipped,
         \/ night'[o].at \in Early /\ night[o].at \in Early \cup {"off"}
         \/ night'[o].at = "dead" /\ (shift' # shift \/ night[o].at # "shift"),
         sweep'[o].state = "sweeping" => night'[o].at = "preflight",
         night'[o].mode = "dry run" => night'[o].shift = NoNight.shift /\ night'[o].skipped = 0
  PROVE  AccountInv'
<1>1. o \in ShiftProcesses /\ shift \in [ShiftProcesses -> ShiftType]
  BY DEF ShiftProcesses, AccountInv, AccountTyped
<1>2. shift' \in [ShiftProcesses -> ShiftType]
      /\ (\A q \in ShiftProcesses : q # o => shift'[q] = shift[q])
      /\ (shift' # shift => shift'[o] = NoShift)
  BY <1>1, NoShiftIs
<1>3. AccountTyped'
  BY <1>2 DEF AccountInv, AccountTyped
<1>4. ShiftOK(o)'
  <2>1. CASE shift' = shift
    <3>1. ShiftOK(o)
      BY <1>1 DEF AccountInv
    <3> QED BY <2>1, <3>1 DEF ShiftOK, Lies
  <2>2. CASE shift'[o] = NoShift
    BY <2>2, NoShiftIs DEF ShiftOK
  <2> QED BY <1>2, <2>1, <2>2
<1>5. night'[o].at # "shift" /\ shift'[o].at = "off"
  <2>1. CASE shift' # shift
    BY <1>2, <2>1, NoShiftIs DEF Early
  <2>2. CASE shift' = shift
    BY <1>1, <2>2 DEF AccountInv, NightOK, Early
  <2> QED BY <2>1, <2>2
<1>6. night'[o].at \notin {"off", "shift", "record", "over"}
  BY DEF Early
<1>7. NightOK(o)'
  BY <1>5, <1>6, NoNightIs DEF NightOK
<1>8. \A i \in 1 .. Len(ledger') : i \in 1 .. Len(ledger) /\ ledger'[i] = ledger[i]
  OBVIOUS
<1> QED BY <1>1, <1>2, <1>3, <1>4, <1>6, <1>7, <1>8, MovesKeep DEF Early

LEMMA StartNightKeeps ==
  ASSUME AccountInv, NEW o \in Operators, NEW mode \in budget.modes, NEW limit, NEW hours,
         StartNight(o, mode, limit, hours)
  PROVE  AccountInv'
<1>1. /\ night[o].at = "off" /\ UNCHANGED <<shift, files, ledger>> /\ budget.nights > 0
      /\ budget' = [budget EXCEPT !.nights = @ - 1]
  BY DEF StartNight
<1>2. budget' \in BudgetType /\ budget'.hand = budget.hand /\ mode \in Modes
  BY <1>1 DEF AccountInv, AccountTyped, BudgetType
<1>3. PICK start : start = [NoNight EXCEPT !.at = "preflight", !.mode = mode, !.limit = limit,
                                          !.hours = hours]
  OBVIOUS
<1>4. /\ start.at = "preflight" /\ start.shift = NoNight.shift /\ start.skipped = 0
      /\ IsNight(start)
  BY <1>2, <1>3, NoNightIs DEF NoNight, IsNight, NightSteps
<1>5. PICK n : /\ n = start \/ \E a, m : n = [start EXCEPT !.at = "plan", !.automated = a, !.manual = m]
               /\ night' = [night EXCEPT ![o] = n]
               /\ n.at # "preflight" => sweep' = sweep
               /\ \A q \in Operators : q # o => sweep'[q].state = sweep[q].state
  <2>1. CASE mode \in {"dry enqueue", "dry run"}
    <3>1. DryPreflight(o, start)
      BY <1>3, <2>1 DEF StartNight
    <3>2. sweep' = sweep
      BY <3>1 DEF DryPreflight, preflightVars
    <3>3. PICK a, m : night' = [night EXCEPT ![o] = [start EXCEPT !.at = "plan", !.automated = a,
                                                                   !.manual = m]]
      BY <3>1 DEF DryPreflight
    <3> QED BY <3>2, <3>3
  <2>2. CASE mode \notin {"dry enqueue", "dry run"}
    <3>1. StartSweep(o) /\ night' = [night EXCEPT ![o] = start]
      BY <1>3, <2>2 DEF StartNight
    <3>2. \A q \in Operators : q # o => sweep'[q] = sweep[q]
      BY <3>1 DEF StartSweep
    <3> QED BY <1>4, <3>1, <3>2
  <2> QED BY <2>1, <2>2
<1>6. /\ IsNight(n) /\ n.at \in {"preflight", "plan"} /\ n.shift = NoNight.shift /\ n.skipped = 0
  BY <1>4, <1>5 DEF IsNight, NightSteps
<1>7. /\ night' = [q \in Operators |-> night'[q]] /\ night'[o] = n
      /\ \A q \in Operators : IsNight(night'[q])
      /\ \A q \in Operators : q # o => night'[q] = night[q]
  BY <1>5, <1>6 DEF AccountInv, AccountTyped
<1>8. sweep'[o].state = "sweeping" => night'[o].at = "preflight"
  BY <1>1, <1>5, <1>7 DEF AccountInv, NightOK
<1> QED BY <1>1, <1>2, <1>5, <1>6, <1>7, <1>8, EarlyKeeps DEF Early

LEMMA SweepingIs ==
  ASSUME AccountInv, NEW o \in Operators, sweep[o].state = "sweeping"
  PROVE  night[o].at = "preflight" /\ night[o].at \in Early
         /\ (night[o].mode = "dry run" => night[o].shift = NoNight.shift /\ night[o].skipped = 0)
BY DEF AccountInv, NightOK, Early

LEMMA ItemsKeep ==
  ASSUME SweepInv, AccountInv, NEW o \in Operators, NEW c \in Commands,
         RequeueItem(o, c) \/ LeaveItem(o, c)
  PROVE  AccountInv'
<1>1. NextItem(o, c) /\ UNCHANGED <<budget, shift, files, ledger>>
  BY DEF RequeueItem, LeaveItem, Remediate, LeaveManual
<1>2. PICK k : night' = [night EXCEPT ![o].automated = k] \/ night' = [night EXCEPT ![o].manual = k]
  BY DEF RequeueItem, LeaveItem
<1>3. /\ c \in sweep[o].todo /\ sweep'[o].state = sweep[o].state
      /\ \A q \in Operators : q # o => sweep'[q] = sweep[q]
  BY <1>1, ItemIs
<1>4. sweep[o].state = "sweeping"
  BY <1>3 DEF SweepInv, CallOK
<1>5. budget' \in BudgetType
  BY <1>1 DEF AccountInv, AccountTyped
<1> QED BY <1>1, <1>2, <1>3, <1>4, <1>5, AutomatedIs, SweepingIs, EarlyKeeps

LEMMA CallsEnd ==
  ASSUME SweepInv, AccountInv, NEW o \in Operators,
         SweepRead(o) \/ FinishSweep(o) \/ SweepingNightDies(o)
  PROVE  AccountInv'
<1>1. UNCHANGED <<budget, shift, files, ledger>> /\ sweep[o].state = "sweeping"
  <2>1. Busy(o) => sweep[o].state = "sweeping"
    BY DEF SweepInv, CallOK
  <2> QED BY <2>1 DEF SweepRead, FinishSweep, SweepingNightDies, RequeueRead, EndSweep, SweeperDies,
             OperatorDies, Busy
<1>2. PICK s \in {"sweeping", "done", "aborted"}, step \in {"preflight", "plan", "dead"} :
        /\ sweep'[o].state = s /\ night' = [night EXCEPT ![o].at = step]
        /\ (s = "sweeping") <=> (step = "preflight")
        /\ \A q \in Operators : q # o => sweep'[q] = sweep[q]
  <2>1. night[o].at = "preflight" /\ sweep \in [Operators -> SweepType]
    BY <1>1, SweepingIs DEF SweepInv, SweepTyped
  <2>2. NoSweep("done").state = "done" /\ NoSweep("aborted").state = "aborted"
    BY DEF NoSweep
  <2>3. CASE SweepRead(o)
    <3>1. CASE sweep' = sweep
      <4>1. night' = [night EXCEPT ![o].at = "preflight"]
        BY <1>1, <2>1, <2>3, <3>1 DEF SweepRead
      <4> QED BY <1>1, <3>1, <4>1
    <3>2. CASE sweep' = [sweep EXCEPT ![o] = NoSweep("aborted")]
      <4>1. sweep'[o].state = "aborted" /\ \A q \in Operators : q # o => sweep'[q] = sweep[q]
        BY <2>1, <2>2, <3>2
      <4>2. night' = [night EXCEPT ![o].at = "dead"]
        BY <2>3, <4>1 DEF SweepRead
      <4> QED BY <4>1, <4>2
    <3> QED BY <2>3, <3>1, <3>2 DEF SweepRead, RequeueRead
  <2>4. CASE FinishSweep(o)
    <3>1. sweep'[o].state = "done" /\ \A q \in Operators : q # o => sweep'[q] = sweep[q]
      BY <2>1, <2>2, <2>4 DEF FinishSweep, EndSweep
    <3> QED BY <2>4, <3>1 DEF FinishSweep, At
  <2>5. CASE SweepingNightDies(o)
    <3>1. sweep' = [sweep EXCEPT ![o] = NoSweep("aborted")]
      BY <1>1, <2>5 DEF SweepingNightDies, SweeperDies
    <3>2. sweep'[o].state = "aborted" /\ \A q \in Operators : q # o => sweep'[q] = sweep[q]
      BY <2>1, <2>2, <3>1
    <3> QED BY <2>5, <3>2 DEF SweepingNightDies, At
  <2> QED BY <2>3, <2>4, <2>5
<1>3. step \in NightSteps /\ budget' \in BudgetType
  BY <1>1, <1>2 DEF NightSteps, AccountInv, AccountTyped
<1>4. /\ night' = [q \in Operators |-> night'[q]] /\ \A q \in Operators : IsNight(night'[q])
      /\ night'[o].at = step /\ night'[o].mode = night[o].mode
      /\ night'[o].graphs = night[o].graphs /\ night'[o].shift = night[o].shift
      /\ night'[o].skipped = night[o].skipped
      /\ \A q \in Operators : q # o => night'[q] = night[q]
  BY <1>2, <1>3, StepIs
<1>5. night[o].at = "preflight" /\ night[o].at \in Early
      /\ (night[o].mode = "dry run" => night[o].shift = NoNight.shift /\ night[o].skipped = 0)
  BY <1>1, SweepingIs
<1>6. /\ night[o].at # "over" /\ night[o].at # "shift"
      /\ night'[o].at \in Early \/ night'[o].at = "dead"
      /\ night'[o].mode = "dry run" => night'[o].shift = NoNight.shift /\ night'[o].skipped = 0
      /\ sweep'[o].state = "sweeping" => night'[o].at = "preflight"
      /\ \A q \in Operators : q # o => night'[q] = night[q] /\ sweep'[q].state = sweep[q].state
  BY <1>2, <1>4, <1>5 DEF Early
<1> QED BY <1>1, <1>3, <1>4, <1>5, <1>6, EarlyKeeps

LEMMA PlanKeeps ==
  ASSUME AccountInv, NEW o \in Operators, NEW sight, Plan(o, sight)
  PROVE  AccountInv'
<1>1. /\ night[o].at = "plan" /\ UNCHANGED <<shift, files, ledger, sweep>>
      /\ budget' = [budget EXCEPT !.plans = @ - 1] /\ budget.plans > 0
  BY DEF Plan, preflightVars
<1>2. budget' \in BudgetType /\ budget'.hand = budget.hand
  BY <1>1 DEF AccountInv, AccountTyped, BudgetType
<1>3. night = [q \in Operators |-> night[q]] /\ \A q \in Operators : IsNight(night[q])
  BY DEF AccountInv, AccountTyped
<1>4. PICK plan, n : /\ n = [night[o] EXCEPT !.at = "compile", !.plan = plan]
                     /\ night' = [night EXCEPT ![o] = n]
  BY <1>3 DEF Plan
<1>5. IsNight(n) /\ n.at = "compile" /\ n.mode = night[o].mode /\ n.graphs = night[o].graphs
      /\ n.shift = night[o].shift /\ n.skipped = night[o].skipped
  <2>1. PICK m : m = [night[o] EXCEPT !.at = "compile"]
    OBVIOUS
  <2>2. IsNight(m) /\ m.at = "compile" /\ m.mode = night[o].mode /\ m.graphs = night[o].graphs
        /\ m.shift = night[o].shift /\ m.skipped = night[o].skipped
    BY <1>3, <2>1 DEF IsNight, NightSteps
  <2>3. n = [m EXCEPT !.plan = plan]
    BY <1>3, <1>4, <2>1 DEF IsNight
  <2> QED BY <2>2, <2>3 DEF IsNight
<1>6. /\ night' = [q \in Operators |-> night'[q]]
      /\ night'[o] = n
      /\ \A q \in Operators : IsNight(night'[q])
      /\ \A q \in Operators : q # o => night'[q] = night[q]
  BY <1>3, <1>4, <1>5
<1>7. /\ sweep'[o].state # "sweeping"
      /\ (night[o].mode = "dry run" => night[o].shift = NoNight.shift /\ night[o].skipped = 0)
  BY <1>1 DEF AccountInv, NightOK
<1>8. /\ night[o].at \in Early /\ night'[o].at \in Early
      /\ \A q \in Operators : q # o => night'[q] = night[q] /\ sweep'[q].state = sweep[q].state
      /\ night'[o].mode = "dry run" => night'[o].shift = NoNight.shift /\ night'[o].skipped = 0
  BY <1>1, <1>5, <1>6, <1>7 DEF Early
<1> QED BY <1>1, <1>2, <1>5, <1>6, <1>7, <1>8, EarlyKeeps

LEMMA NightDiesKeeps ==
  ASSUME AccountInv, NEW o \in Operators, NightDies(o)
  PROVE  AccountInv'
<1>1. /\ night[o].at \in {"plan", "compile", "shift", "record"}
      /\ UNCHANGED <<budget, files, ledger, sweep>>
      /\ night' = [night EXCEPT ![o].at = "dead"] /\ shift' = [shift EXCEPT ![o] = NoShift]
  BY DEF NightDies, At
<1>2. o \in ShiftProcesses /\ shift \in [ShiftProcesses -> ShiftType] /\ "dead" \in NightSteps
  BY DEF AccountInv, AccountTyped, ShiftProcesses, NightSteps
<1>3. /\ night' = [q \in Operators |-> night'[q]] /\ \A q \in Operators : IsNight(night'[q])
      /\ night'[o].at = "dead" /\ night'[o].mode = night[o].mode
      /\ night'[o].graphs = night[o].graphs /\ night'[o].shift = night[o].shift
      /\ night'[o].skipped = night[o].skipped
      /\ \A q \in Operators : q # o => night'[q] = night[q]
  BY <1>1, <1>2, StepIs
<1>4. night[o].at = "shift" => shift' # shift
  BY <1>1, <1>2, NoShiftIs DEF AccountInv, NightOK
<1>5. /\ sweep'[o].state # "sweeping" /\ budget' \in BudgetType
      /\ (night'[o].mode = "dry run" => night'[o].shift = NoNight.shift /\ night'[o].skipped = 0)
  <2>1. NightOK(o) /\ budget \in BudgetType
    BY DEF AccountInv, AccountTyped
  <2> QED BY <1>1, <1>3, <2>1 DEF NightOK
<1>6. \A q \in Operators : q # o => night'[q] = night[q] /\ sweep'[q].state = sweep[q].state
  BY <1>1, <1>3
<1> QED BY <1>1, <1>3, <1>4, <1>5, <1>6, EarlyKeeps

(* The events of a night and the start of its shift.                       *)

LEMMA ToldIs ==
  ASSUME AccountInv, NEW e, ledger' = Append(ledger, e), EventOK(e)'
  PROVE  /\ IsSeq(ledger)'
         /\ \A i \in 1 .. Len(ledger') :
              (i \in 1 .. Len(ledger) /\ ledger'[i] = ledger[i]) \/ EventOK(ledger[i])'
<1>1. IsSeq(ledger)
  BY DEF AccountInv, AccountTyped
<1>2. IsSeq(ledger') /\ Len(ledger) \in Nat /\ Len(ledger') = Len(ledger) + 1
      /\ (\A i \in 1 .. Len(ledger) : ledger'[i] = ledger[i]) /\ ledger'[Len(ledger) + 1] = e
  BY <1>1, AppendIs
<1>3. ASSUME NEW i \in 1 .. Len(ledger')
      PROVE  (i \in 1 .. Len(ledger) /\ ledger'[i] = ledger[i]) \/ EventOK(ledger[i])'
  <2>1. CASE i \in 1 .. Len(ledger)
    BY <1>2, <2>1
  <2>2. CASE i \notin 1 .. Len(ledger)
    <3>1. ledger'[i] = e
      BY <1>2, <1>3, <2>2
    <3> QED BY <3>1 DEF EventOK
  <2> QED BY <2>1, <2>2
<1>4. IsSeq(ledger)'
  BY <1>2 DEF IsSeq
<1> QED BY <1>3, <1>4

LEMMA TellEnqueuedKeeps ==
  ASSUME AccountInv, NEW o \in Operators, TellEnqueued(o)
  PROVE  AccountInv'
<1>1. /\ night[o].at = "compile" /\ night[o].mode \in {"enqueue", "dry enqueue"}
      /\ UNCHANGED <<budget, shift, files, sweep>> /\ night' = [night EXCEPT ![o].at = "over"]
  BY DEF TellEnqueued, Compiled, At, preflightVars
<1>2. PICK e : ledger' = Append(ledger, e) /\ e.kind = "enqueue"
  <2>1. PICK verdict : Append1(NightEvent(o, "enqueue", verdict))
    BY DEF TellEnqueued
  <2> QED BY <2>1 DEF Append1, NightEvent
<1>3. EventOK(e)'
  BY <1>2 DEF EventOK
<1>4. o \in ShiftProcesses /\ "over" \in NightSteps
  BY DEF ShiftProcesses, NightSteps
<1>5. /\ night' = [q \in Operators |-> night'[q]] /\ \A q \in Operators : IsNight(night'[q])
      /\ night'[o].at = "over" /\ night'[o].mode = night[o].mode
      /\ night'[o].graphs = night[o].graphs /\ night'[o].shift = night[o].shift
      /\ night'[o].skipped = night[o].skipped
      /\ \A q \in Operators : q # o => night'[q] = night[q]
  BY <1>1, <1>4, StepIs
<1>6. AccountTyped'
  BY <1>1, <1>2, <1>3, <1>5, ToldIs DEF AccountInv, AccountTyped
<1>7. ShiftOK(o)'
  <2>1. ShiftOK(o)
    BY <1>4 DEF AccountInv
  <2> QED BY <1>1, <2>1 DEF ShiftOK, Lies
<1>8. NightOK(o)'
  <2>1. NightOK(o)
    BY DEF AccountInv
  <2> QED BY <1>1, <1>5, <2>1 DEF NightOK
<1> QED BY <1>1, <1>2, <1>3, <1>4, <1>5, <1>6, <1>7, <1>8, ToldIs, MovesKeep DEF Early

(* A run's directory holds its own graphs and nothing else.                *)
LEMMA OwnIs ==
  ASSUME AccountInv, NEW o \in Operators, night[o].mode = "run", NEW f \in files
  PROVE  f.queue = o <=> f.graph[1] = o
<1>1. FileOK(f) /\ f.graph[1] \in Operators \cup {Launchd}
  BY DEF AccountInv, FilesOK, FileOK, Graphs, ShiftProcesses
<1> QED BY <1>1, LaunchdAssumption DEF FileOK

LEMMA ListingIs ==
  ASSUME AccountInv, NEW p \in ShiftProcesses, shift' = Listing(p), files' = files
  PROVE  /\ shift' \in [ShiftProcesses -> ShiftType] /\ shift'[p].at = "next"
         /\ shift'[p].todo = InQueue(p) /\ shift'[p].tally = [d \in Outcomes |-> 0]
         /\ \A q \in ShiftProcesses : q # p => shift'[q] = shift[q]
         /\ ShiftOK(p)'
<1>1. shift \in [ShiftProcesses -> ShiftType]
  BY DEF AccountInv, AccountTyped
<1>2. InQueue(p) \subseteq Graphs
  BY DEF InQueue, AccountInv, FilesOK, FileOK
<1>3. PICK s : s = [NoShift EXCEPT !.at = "next", !.todo = InQueue(p)]
  OBVIOUS
<1>4. s \in ShiftType /\ s.at = "next" /\ s.todo = InQueue(p) /\ s.tally = [d \in Outcomes |-> 0]
  BY <1>2, <1>3, NoShiftIs DEF ShiftType
<1>5. shift' = [shift EXCEPT ![p] = s]
  BY <1>3 DEF Listing
<1>6. shift' \in [ShiftProcesses -> ShiftType] /\ shift'[p] = s
      /\ \A q \in ShiftProcesses : q # p => shift'[q] = shift[q]
  BY <1>1, <1>4, <1>5
<1>7. \A g \in InQueue(p) : Lies(g, p, "queue")'
  BY DEF InQueue, Lies
<1>8. ShiftOK(p)'
  BY <1>4, <1>6, <1>7 DEF ShiftOK
<1> QED BY <1>4, <1>6, <1>8

LEMMA SameDirs ==
  ASSUME files' = files PROVE \A o \in Operators, d \in Dirs : InDir(o, d)' = InDir(o, d)
BY DEF InDir, NightGraphs

LEMMA DirsAre == Outcomes \subseteq Dirs /\ {"queue", "running"} \subseteq Dirs
                 /\ "queue" \notin Outcomes /\ "running" \notin Outcomes
BY DEF Dirs, Outcomes

LEMMA StartOwnKeeps ==
  ASSUME AccountInv, NEW o \in Operators, StartOwnShift(o)
  PROVE  AccountInv'
<1>1. /\ night[o].at = "compile" /\ night[o].mode = "run"
      /\ UNCHANGED <<budget, files, ledger, sweep>> /\ night' = [night EXCEPT ![o].at = "shift"]
      /\ shift' = Listing(o)
  BY DEF StartOwnShift, Compiled, At, preflightVars
<1>2. o \in ShiftProcesses /\ "shift" \in NightSteps
  BY DEF ShiftProcesses, NightSteps
<1>3. /\ night' = [q \in Operators |-> night'[q]] /\ \A q \in Operators : IsNight(night'[q])
      /\ night'[o].at = "shift" /\ night'[o].mode = night[o].mode
      /\ night'[o].graphs = night[o].graphs /\ night'[o].shift = night[o].shift
      /\ night'[o].skipped = night[o].skipped
      /\ \A q \in Operators : q # o => night'[q] = night[q]
  BY <1>1, <1>2, StepIs
<1>4. /\ shift' \in [ShiftProcesses -> ShiftType] /\ shift'[o].at = "next"
      /\ shift'[o].todo = InQueue(o) /\ shift'[o].tally = [d \in Outcomes |-> 0]
      /\ \A q \in ShiftProcesses : q # o => shift'[q] = shift[q]
      /\ ShiftOK(o)'
  BY <1>1, <1>2, ListingIs
<1>5. AccountTyped'
  BY <1>1, <1>3, <1>4 DEF AccountInv, AccountTyped
<1>6. \A f \in NightGraphs(o) : f.dir = "queue"
  BY <1>1 DEF AccountInv, FilesOK, FileOK, NightGraphs
<1>7. Tallied(o)'
  <2>1. \A d \in Outcomes : InDir(o, d) = {} /\ Cardinality(InDir(o, d)) = 0
    BY <1>6, DirsAre, FS_EmptySet DEF InDir
  <2>2. InQueue(o) = {f.graph : f \in InDir(o, "queue")} /\ InDir(o, "running") = {}
    BY <1>1, <1>6, OwnIs DEF InQueue, InDir, NightGraphs
  <2> QED BY <1>1, <1>4, <2>1, <2>2, DirsAre, SameDirs DEF Tallied
<1>8. NightOK(o)'
  <2>1. NightOK(o)
    BY DEF AccountInv
  <2> QED BY <1>1, <1>3, <1>4, <1>7, <2>1 DEF NightOK
<1>9. \A i \in 1 .. Len(ledger') : i \in 1 .. Len(ledger) /\ ledger'[i] = ledger[i]
  BY <1>1
<1> QED BY <1>1, <1>2, <1>3, <1>4, <1>5, <1>8, <1>9, MovesKeep DEF Early

(* The shifts of launchd start and die without a night.                    *)
LEMMA LaunchdKeeps ==
  ASSUME AccountInv, StartLaunchdShift \/ ShiftDies
  PROVE  AccountInv'
<1>1. UNCHANGED <<night, files, ledger, sweep>> /\ Launchd \in ShiftProcesses /\ Launchd \notin Operators
      /\ shift \in [ShiftProcesses -> ShiftType]
  BY LaunchdAssumption DEF StartLaunchdShift, ShiftDies, preflightVars, ShiftProcesses, AccountInv,
     AccountTyped
<1>2. /\ shift' \in [ShiftProcesses -> ShiftType] /\ ShiftOK(Launchd)'
      /\ \A q \in ShiftProcesses : q # Launchd => shift'[q] = shift[q]
      /\ budget' \in BudgetType /\ budget'.hand = budget.hand
  <2>1. CASE StartLaunchdShift
    <3>1. budget' \in BudgetType /\ budget'.hand = budget.hand
      BY <2>1 DEF StartLaunchdShift, AccountInv, AccountTyped, BudgetType
    <3> QED BY <1>1, <2>1, <3>1, ListingIs DEF StartLaunchdShift
  <2>2. CASE ShiftDies
    <3>1. shift' = [shift EXCEPT ![Launchd] = NoShift] /\ budget' = budget
      BY <2>2 DEF ShiftDies
    <3>2. /\ shift' \in [ShiftProcesses -> ShiftType] /\ shift'[Launchd] = NoShift
          /\ \A q \in ShiftProcesses : q # Launchd => shift'[q] = shift[q]
      BY <1>1, <3>1, NoShiftIs
    <3>3. ShiftOK(Launchd)'
      BY <3>2, NoShiftIs DEF ShiftOK
    <3>4. budget \in BudgetType
      BY DEF AccountInv, AccountTyped
    <3> QED BY <3>1, <3>2, <3>3, <3>4
  <2> QED BY <2>1, <2>2
<1>3. AccountTyped'
  BY <1>1, <1>2 DEF AccountInv, AccountTyped
<1>4. \A i \in 1 .. Len(ledger') : i \in 1 .. Len(ledger) /\ ledger'[i] = ledger[i]
  BY <1>1
<1> QED BY <1>1, <1>2, <1>3, <1>4, MovesKeep

LEMMA TellRunKeeps ==
  ASSUME AccountInv, NEW o \in Operators, TellRun(o)
  PROVE  AccountInv'
<1>1. /\ \/ night[o].mode = "dry run" /\ night[o].at = "compile"
         \/ night[o].at = "record" /\ night[o].mode = "run"
      /\ UNCHANGED <<budget, shift, files, sweep>> /\ night' = [night EXCEPT ![o].at = "over"]
  <2>1. night[o].at = "record" => night[o].mode = "run"
    BY DEF AccountInv, NightOK
  <2> QED BY <2>1 DEF TellRun, Compiled, At, preflightVars
<1>2. PICK e, verdict : /\ ledger' = Append(ledger, e) /\ verdict = RunStatus(o)
                        /\ e = NightEvent(o, "run", verdict)
  BY DEF TellRun, Append1
<1>3. o \in ShiftProcesses /\ "over" \in NightSteps
  BY DEF ShiftProcesses, NightSteps
<1>4. /\ night' = [q \in Operators |-> night'[q]] /\ \A q \in Operators : IsNight(night'[q])
      /\ night'[o].at = "over" /\ night'[o].mode = night[o].mode
      /\ night'[o].graphs = night[o].graphs /\ night'[o].shift = night[o].shift
      /\ night'[o].skipped = night[o].skipped
      /\ \A q \in Operators : q # o => night'[q] = night[q]
  BY <1>1, <1>3, StepIs
<1>5. RunStatus(o)' = RunStatus(o)
  BY <1>4 DEF RunStatus, Dry
<1>6. e.kind = "run" /\ e.night = o /\ e.status = RunStatus(o) /\ e.shift = night[o].shift
      /\ e.skipped = night[o].skipped
  BY <1>2 DEF NightEvent
<1>7. EventOK(e)'
  BY <1>1, <1>4, <1>5, <1>6 DEF EventOK
<1>8. AccountTyped'
  BY <1>1, <1>2, <1>4, <1>7, ToldIs DEF AccountInv, AccountTyped
<1>9. ShiftOK(o)'
  <2>1. ShiftOK(o)
    BY <1>3 DEF AccountInv
  <2> QED BY <1>1, <2>1 DEF ShiftOK, Lies
<1>10. NightOK(o)'
  <2>1. NightOK(o)
    BY DEF AccountInv
  <2>2. Accounted(o) => Accounted(o)'
    <3>1. \A d \in Dirs : InDir(o, d)' = InDir(o, d)
      BY <1>1, SameDirs
    <3>2. /\ InDir(o, "queue")' = InDir(o, "queue") /\ InDir(o, "running")' = InDir(o, "running")
          /\ \A d \in Outcomes : InDir(o, d)' = InDir(o, d)
      BY <3>1, DirsAre
    <3> QED BY <1>4, <3>2 DEF Accounted
  <2> QED BY <1>1, <1>4, <2>1, <2>2 DEF NightOK
<1>11. \A i \in 1 .. Len(ledger') :
         (i \in 1 .. Len(ledger) /\ ledger'[i] = ledger[i]) \/ EventOK(ledger[i])'
  BY <1>2, <1>7, ToldIs
<1> QED BY <1>1, <1>3, <1>4, <1>8, <1>9, <1>10, <1>11, MovesKeep DEF Early

(* The outcome of a graph is told.                                         *)
LEMMA TellOutcomeKeeps ==
  ASSUME AccountInv, NEW p \in ShiftProcesses, TellOutcome(p)
  PROVE  AccountInv'
<1>1. /\ UNCHANGED <<night, files, sweep, budget>> /\ shift[p].at = "tell"
      /\ shift \in [ShiftProcesses -> ShiftType] /\ shift[p].to \in Outcomes
      /\ shift' = [shift EXCEPT ![p].at = "next", ![p].tally[shift[p].to] = @ + 1]
  BY DEF TellOutcome, preflightVars, AccountInv, AccountTyped, ShiftOK
<1>2. PICK d, t : /\ d = shift[p].to /\ d \in Outcomes
                  /\ t = [shift[p].tally EXCEPT ![d] = @ + 1]
  BY <1>1
<1>3. PICK s : s = [shift[p] EXCEPT !.at = "next", !.tally = t]
  OBVIOUS
<1>4. shift' = [shift EXCEPT ![p] = s]
  BY <1>1, <1>2, <1>3 DEF ShiftType
<1>5. /\ t \in [Outcomes -> Nat] /\ t[d] = shift[p].tally[d] + 1
      /\ \A c \in Outcomes : c # d => t[c] = shift[p].tally[c]
  BY <1>1, <1>2 DEF ShiftType
<1>6. s \in ShiftType /\ s.at = "next" /\ s.todo = shift[p].todo /\ s.tally = t
  BY <1>1, <1>3, <1>5 DEF ShiftType
<1>7. /\ shift' \in [ShiftProcesses -> ShiftType] /\ shift'[p] = s
      /\ \A q \in ShiftProcesses : q # p => shift'[q] = shift[q]
  BY <1>1, <1>4, <1>6
<1>8. PICK e : ledger' = Append(ledger, e) /\ e.kind = d
  BY <1>2 DEF TellOutcome, Append1
<1>9. e.kind # "run"
  BY <1>2, <1>8 DEF Outcomes
<1>10. EventOK(e)'
  BY <1>9 DEF EventOK
<1>11. AccountTyped'
  BY <1>1, <1>7, <1>8, <1>10, ToldIs DEF AccountInv, AccountTyped
<1>12. ShiftOK(p)'
  <2>1. ShiftOK(p)
    BY DEF AccountInv
  <2> QED BY <1>1, <1>6, <1>7, <2>1 DEF ShiftOK, Lies
<1>13. ASSUME p \in Operators PROVE NightOK(p)'
  <2>1. NightOK(p) /\ night[p].at = "shift" /\ Tallied(p)
    BY <1>1, <1>13 DEF AccountInv, NightOK
  <2>2. Tallied(p)'
    <3>1. \A c \in Outcomes : shift'[p].tally[c] = Cardinality(InDir(p, c)')
      BY <1>1, <1>2, <1>5, <1>6, <1>7, <1>13, <2>1, SameDirs, DirsAre DEF Tallied, ShiftType
    <3>2. shift'[p].todo = {f.graph : f \in InDir(p, "queue")'} /\ InDir(p, "running")' = {}
      BY <1>1, <1>6, <1>7, <1>13, <2>1, SameDirs, DirsAre DEF Tallied
    <3>3. \A c \in Outcomes : shift'[p].tally[c] \in Nat
      BY <1>5, <1>6, <1>7
    <3> QED BY <1>6, <1>7, <3>1, <3>2, <3>3 DEF Tallied
  <2> QED BY <1>1, <1>6, <1>7, <2>1, <2>2 DEF NightOK
<1>14. \A i \in 1 .. Len(ledger') :
         (i \in 1 .. Len(ledger) /\ ledger'[i] = ledger[i]) \/ EventOK(ledger[i])'
  BY <1>8, <1>10, ToldIs
<1>15. p \in Operators => night[p].at # "over"
  BY <1>1 DEF AccountInv, NightOK
<1> QED BY <1>1, <1>7, <1>11, <1>12, <1>13, <1>14, <1>15, MovesKeep

LEMMA ImageHasSize ==
  ASSUME NEW F, IsFiniteSet(F), \A f, g \in F : f.graph = g.graph => f = g
  PROVE  Cardinality({f.graph : f \in F}) = Cardinality(F)
<1>1. PICK T, m : T = {f.graph : f \in F} /\ m = [f \in F |-> f.graph]
  OBVIOUS
<1>2. m \in Bijection(F, T)
  BY <1>1 DEF Bijection, Injection, Surjection, IsInjective
<1>3. Cardinality(T) = Cardinality(F)
  BY <1>2, FS_Bijection DEF ExistsBijection
<1> QED BY <1>1, <1>3

LEMMA DirsFinite ==
  ASSUME AccountInv, NEW o, NEW d
  PROVE  /\ IsFiniteSet(InDir(o, d)) /\ Cardinality(InDir(o, d)) \in Nat
         /\ \A f, g \in InDir(o, d) : f.graph = g.graph => f = g
<1>1. IsFiniteSet(files) /\ InDir(o, d) \in SUBSET files
  BY DEF AccountInv, FilesOK, InDir, NightGraphs
<1>2. IsFiniteSet(InDir(o, d))
  BY <1>1, FS_Subset
<1>3. \A f, g \in InDir(o, d) : f.graph = g.graph => f = g
  BY DEF AccountInv, FilesOK, InDir, NightGraphs
<1> QED BY <1>2, <1>3, FS_CardinalityType

LEMMA EndShiftKeeps ==
  ASSUME AccountInv, NEW p \in ShiftProcesses, EndShift(p)
  PROVE  AccountInv'
<1>1. /\ UNCHANGED <<files, sweep, budget>> /\ shift[p].at = "next"
      /\ shift \in [ShiftProcesses -> ShiftType]
      /\ shift' = [shift EXCEPT ![p] = NoShift]
  BY DEF EndShift, preflightVars, AccountInv, AccountTyped
<1>2. /\ shift' \in [ShiftProcesses -> ShiftType] /\ shift'[p] = NoShift
      /\ \A q \in ShiftProcesses : q # p => shift'[q] = shift[q]
  BY <1>1, NoShiftIs
<1>3. PICK e : ledger' = Append(ledger, e) /\ e.kind = "shift_end"
  BY DEF EndShift, Append1
<1>4. EventOK(e)'
  BY <1>3 DEF EventOK
<1>5. ShiftOK(p)'
  BY <1>2, NoShiftIs DEF ShiftOK
<1>6. \A i \in 1 .. Len(ledger') :
         (i \in 1 .. Len(ledger) /\ ledger'[i] = ledger[i]) \/ EventOK(ledger[i])'
  BY <1>3, <1>4, ToldIs
<1>7. night = [q \in Operators |-> night[q]] /\ \A q \in Operators : IsNight(night[q])
  BY DEF AccountInv, AccountTyped
<1>8. CASE p = Launchd
  <2>1. night' = night /\ p \notin Operators
    BY <1>8, LaunchdAssumption DEF EndShift
  <2>2. AccountTyped'
    BY <1>1, <1>2, <1>3, <1>4, <2>1, ToldIs DEF AccountInv, AccountTyped
  <2> QED BY <1>1, <1>2, <1>5, <1>6, <2>1, <2>2, MovesKeep
<1>9. CASE p # Launchd
  <2>1. p \in Operators
    BY <1>9 DEF ShiftProcesses
  <2>2. NightOK(p) /\ night[p].at = "shift" /\ night[p].mode = "run" /\ Tallied(p)
    BY <1>1, <2>1 DEF AccountInv, NightOK
  <2>3. PICK t, k : t = shift[p].tally /\ t \in [Outcomes -> Nat] /\ k = Cardinality(shift[p].todo)
    BY <1>1 DEF ShiftType
  <2>4. shift[p].todo = {f.graph : f \in InDir(p, "queue")}
    BY <2>2 DEF Tallied
  <2>5. k = Cardinality(InDir(p, "queue")) /\ k \in Nat
    BY <2>3, <2>4, ImageHasSize, DirsFinite
  <2>6. PICK n : /\ n = [night[p] EXCEPT !.at = "record", !.shift = t, !.skipped = k]
                 /\ night' = [night EXCEPT ![p] = n]
    BY <1>7, <1>9, <2>1, <2>3 DEF EndShift
  <2>7. /\ n.at = "record" /\ n.mode = night[p].mode /\ n.graphs = night[p].graphs /\ n.shift = t
        /\ n.skipped = k /\ IsNight(n)
    <3>1. PICK a : a = [night[p] EXCEPT !.at = "record"]
      OBVIOUS
    <3>2. IsNight(a) /\ a.at = "record" /\ a.mode = night[p].mode /\ a.graphs = night[p].graphs
      BY <1>7, <2>1, <3>1 DEF IsNight, NightSteps
    <3>3. PICK b : b = [a EXCEPT !.shift = t]
      OBVIOUS
    <3>4. IsNight(b) /\ b.at = "record" /\ b.mode = night[p].mode /\ b.graphs = night[p].graphs
          /\ b.shift = t
      BY <2>3, <3>2, <3>3 DEF IsNight
    <3>5. n = [b EXCEPT !.skipped = k]
      BY <1>7, <2>1, <2>6, <3>1, <3>3 DEF IsNight
    <3> QED BY <2>5, <3>4, <3>5 DEF IsNight
  <2>8. /\ night' = [q \in Operators |-> night'[q]] /\ night'[p] = n
        /\ \A q \in Operators : IsNight(night'[q])
        /\ \A q \in Operators : q # p => night'[q] = night[q]
    BY <1>7, <2>1, <2>6, <2>7
  <2>9. AccountTyped'
    BY <1>1, <1>2, <1>3, <1>4, <2>8, ToldIs DEF AccountInv, AccountTyped
  <2>10. Accounted(p)'
    <3>1. \A d \in Outcomes : t[d] = Cardinality(InDir(p, d))
      BY <1>1, <2>2, <2>3 DEF Tallied
    <3>2. InDir(p, "running") = {}
      BY <1>1, <2>2 DEF Tallied
    <3> QED BY <1>1, <2>1, <2>5, <2>7, <2>8, <3>1, <3>2, SameDirs, DirsAre DEF Accounted
  <2>11. NightOK(p)'
    BY <1>1, <1>2, <2>2, <2>7, <2>8, <2>10, NoShiftIs DEF NightOK
  <2> QED BY <1>1, <1>2, <1>5, <1>6, <2>1, <2>2, <2>7, <2>8, <2>9, <2>11, MovesKeep DEF Early
<1> QED BY <1>8, <1>9

(* A night has compiled one more graph; a graph is queued under a name no  *)
(* file has.                                                               *)
LEMMA AddKeeps ==
  ASSUME AccountInv, AccountTyped', NEW m,
         \/ files' = files
         \/ /\ files' = files \cup {m}
            /\ FileOK(m)'
            /\ m.dir = "queue"
            /\ \A f \in files : f.graph # m.graph
            /\ \A q \in Operators : m.graph[1] = q => night[q].at = "compile",
         UNCHANGED <<shift, ledger>>, budget'.hand <= budget.hand,
         \A q \in Operators : sweep'[q].state = sweep[q].state,
         \A q \in Operators :
           \/ night'[q] = night[q]
           \/ /\ night[q].at = "compile" /\ night'[q].at = "compile"
              /\ night'[q].mode = night[q].mode /\ night'[q].shift = night[q].shift
              /\ night'[q].skipped = night[q].skipped
              /\ \A i \in 1 .. Len(night[q].graphs) : i \in 1 .. Len(night'[q].graphs)
  PROVE  AccountInv'
<1>1. ASSUME NEW f \in files PROVE FileOK(f)'
  <2>1. FileOK(f) /\ f.graph \in Graphs /\ budget.hand \in Nat /\ budget'.hand \in Nat
    BY DEF AccountInv, FilesOK, FileOK, AccountTyped, BudgetType
  <2>2. PICK k : k = f.graph[2] /\ k \in Nat
    BY <2>1 DEF Graphs
  <2>3. f.graph[1] = Launchd => f.graph[2] > budget'.hand /\ f.queue = Launchd
    <3>1. f.graph[1] = Launchd => k > budget.hand /\ f.queue = Launchd
      BY <2>1, <2>2 DEF FileOK
    <3> QED BY <2>1, <2>2, <3>1
  <2>4. ASSUME f.graph[1] \in Operators
        PROVE  LET n == night'[f.graph[1]] IN
                 /\ n.mode \notin {"dry enqueue", "dry run"} /\ f.graph[2] \in 1 .. Len(n.graphs)
                 /\ f.queue = IF n.mode = "run" THEN f.graph[1] ELSE Launchd
                 /\ n.mode = "run" /\ n.at \in {"preflight", "plan", "compile"} => f.dir = "queue"
    <3>1. PICK q \in Operators : q = f.graph[1]
      BY <2>4
    <3>2. CASE night'[q] = night[q]
      BY <2>1, <3>1, <3>2 DEF FileOK
    <3>3. CASE night'[q] # night[q]
      <4>1. /\ night[q].at = "compile" /\ night'[q].mode = night[q].mode
            /\ \A i \in 1 .. Len(night[q].graphs) : i \in 1 .. Len(night'[q].graphs)
        BY <3>3
      <4> QED BY <2>1, <3>1, <4>1 DEF FileOK
    <3> QED BY <3>2, <3>3
  <2> QED BY <2>1, <2>3, <2>4 DEF FileOK
<1>2. FilesOK'
  <2>1. IsFiniteSet(files) /\ \A f, g \in files : f.graph = g.graph => f = g
    BY DEF AccountInv, FilesOK
  <2>2. IsFiniteSet(files')
    BY <2>1, FS_AddElement
  <2>3. \A f \in files' : FileOK(f)'
    BY <1>1
  <2>4. \A f, g \in files' : f.graph = g.graph => f = g
    BY <2>1
  <2> QED BY <2>2, <2>3, <2>4 DEF FilesOK
<1>3. \A q \in ShiftProcesses : ShiftOK(q)'
  BY DEF AccountInv, ShiftOK, Lies
<1>4. ASSUME NEW q \in Operators PROVE NightOK(q)'
  <2>1. NightOK(q) /\ q \in ShiftProcesses
    BY DEF AccountInv, ShiftProcesses
  <2>2. CASE night[q].at = "compile"
    <3>1. /\ night'[q].at = "compile" /\ night'[q].mode = night[q].mode
          /\ night'[q].shift = night[q].shift /\ night'[q].skipped = night[q].skipped
      BY <2>2
    <3> QED BY <2>1, <2>2, <3>1 DEF NightOK
  <2>3. CASE night[q].at # "compile"
    <3>1. night'[q] = night[q] /\ (files' # files => m.graph[1] # q)
      BY <2>3
    <3>2. \A d \in Dirs : InDir(q, d)' = InDir(q, d)
      BY <3>1 DEF InDir, NightGraphs
    <3>3. Tallied(q) => Tallied(q)'
      BY <3>2, DirsAre DEF Tallied
    <3>4. Accounted(q) => Accounted(q)'
      BY <3>1, <3>2, DirsAre DEF Accounted
    <3> QED BY <2>1, <3>1, <3>3, <3>4 DEF NightOK
  <2> QED BY <2>2, <2>3
<1>5. ASSUME NEW e, EventOK(e) PROVE EventOK(e)'
  <2>1. CASE e.kind = "run"
    <3>1. PICK o \in Operators : o = e.night /\ night[o].at = "over"
            /\ night[o].mode \in {"run", "dry run"} /\ e.shift = night[o].shift
            /\ e.skipped = night[o].skipped /\ e.status = RunStatus(o)
      BY <1>5, <2>1 DEF EventOK
    <3>2. night'[o] = night[o]
      BY <3>1
    <3>3. RunStatus(o)' = RunStatus(o)
      BY <3>2 DEF RunStatus, Dry
    <3> QED BY <3>1, <3>2, <3>3 DEF EventOK
  <2>2. CASE e.kind # "run"
    BY <2>2 DEF EventOK
  <2> QED BY <2>1, <2>2
<1>6. ASSUME NEW i \in 1 .. Len(ledger') PROVE EventOK(ledger[i])'
  <2>1. PICK e : e = ledger[i] /\ ledger' = ledger
    OBVIOUS
  <2>2. EventOK(e)
    BY <1>6, <2>1 DEF AccountInv
  <2>3. EventOK(e)'
    BY <1>5, <2>2
  <2> QED BY <2>1, <2>3 DEF EventOK
<1> QED BY <1>2, <1>3, <1>4, <1>6 DEF AccountInv

LEMMA ByHandKeeps ==
  ASSUME AccountInv, NEW content, EnqueueByHand(content)
  PROVE  AccountInv'
<1>1. /\ UNCHANGED <<night, shift, ledger, sweep>> /\ budget.hand > 0
      /\ budget' = [budget EXCEPT !.hand = @ - 1] /\ budget \in BudgetType
  BY DEF EnqueueByHand, preflightVars, AccountInv, AccountTyped
<1>2. budget' \in BudgetType /\ budget'.hand = budget.hand - 1 /\ budget.hand \in Nat
  BY <1>1 DEF BudgetType
<1>3. PICK m : /\ m = [graph |-> <<Launchd, budget.hand>>, queue |-> Launchd, dir |-> "queue",
                       content |-> content]
               /\ files' = files \cup {m}
  BY DEF EnqueueByHand
<1>4. m.graph = <<Launchd, budget.hand>> /\ m.graph[1] = Launchd /\ m.graph[2] = budget.hand
  BY <1>3
<1>5. Launchd \notin Operators /\ Launchd \in ShiftProcesses
  BY LaunchdAssumption DEF ShiftProcesses
<1>6. FileOK(m)'
  <2>1. m = [graph |-> m.graph, queue |-> m.queue, dir |-> m.dir, content |-> m.content]
        /\ m.dir \in Dirs /\ m.queue = Launchd
    BY <1>3, DirsAre
  <2>2. m.graph \in Graphs
    BY <1>2, <1>4, <1>5 DEF Graphs
  <2>3. m.graph[1] = Launchd => m.graph[2] > budget'.hand
    BY <1>2, <1>4
  <2>4. m.graph[1] \notin Operators
    BY <1>4, <1>5
  <2> QED BY <1>5, <2>1, <2>2, <2>3, <2>4 DEF FileOK
<1>7. ASSUME NEW f \in files PROVE f.graph # m.graph
  <2>1. FileOK(f)
    BY DEF AccountInv, FilesOK
  <2>2. f.graph[1] = Launchd => f.graph[2] > budget.hand
    BY <2>1 DEF FileOK
  <2>3. ~(budget.hand > budget.hand)
    BY <1>2
  <2> QED BY <1>4, <2>2, <2>3
<1>8. AccountTyped'
  BY <1>1, <1>2 DEF AccountInv, AccountTyped
<1>9. m.dir = "queue" /\ budget'.hand <= budget.hand
  BY <1>2, <1>3
<1>10. \A q \in Operators : m.graph[1] = q => night[q].at = "compile"
  BY <1>4, <1>5
<1>11. \A q \in Operators : night'[q] = night[q] /\ sweep'[q].state = sweep[q].state
  BY <1>1
<1> QED BY <1>1, <1>3, <1>6, <1>7, <1>8, <1>9, <1>10, <1>11, AddKeeps

LEMMA CompileKeeps ==
  ASSUME AccountInv, NEW o \in Operators, CompileNext(o)
  PROVE  AccountInv'
<1>1. UNCHANGED <<sweep, budget, shift, ledger>> /\ night[o].at = "compile"
  BY DEF CompileNext, preflightVars
<1>2. night = [q \in Operators |-> night[q]] /\ \A q \in Operators : IsNight(night[q])
  BY DEF AccountInv, AccountTyped
<1>3. PICK graph, r, queued, content :
        /\ graph = <<o, Len(night[o].graphs) + 1>>
        /\ night' = [night EXCEPT ![o].graphs = Append(@, r)]
        /\ queued => ~Dry(o)
        /\ files' = IF ~queued THEN files
                    ELSE files \cup {[graph |-> graph, queue |-> QueueOf(o), dir |-> "queue",
                                      content |-> content]}
  BY Zenon DEF CompileNext
<1>4. PICK gs : gs = Append(night[o].graphs, r)
  OBVIOUS
<1>5. /\ IsSeq(gs) /\ Len(night[o].graphs) \in Nat /\ Len(gs) = Len(night[o].graphs) + 1
  BY <1>2, <1>4, AppendIs DEF IsNight
<1>6. PICK n : n = [night[o] EXCEPT !.graphs = gs]
  OBVIOUS
<1>7. night' = [night EXCEPT ![o] = n]
  BY <1>2, <1>3, <1>4, <1>6
<1>8. /\ IsNight(n) /\ n.at = "compile" /\ n.mode = night[o].mode /\ n.graphs = gs
      /\ n.shift = night[o].shift /\ n.skipped = night[o].skipped
  BY <1>1, <1>2, <1>5, <1>6 DEF IsNight
<1>9. /\ night' = [q \in Operators |-> night'[q]]
      /\ night'[o] = n
      /\ \A q \in Operators : IsNight(night'[q])
      /\ \A q \in Operators : q # o => night'[q] = night[q]
  BY <1>2, <1>7, <1>8
<1>10. AccountTyped'
  BY <1>1, <1>9 DEF AccountInv, AccountTyped
<1>13. /\ \A i \in 1 .. Len(night[o].graphs) : i \in 1 .. Len(night'[o].graphs)
       /\ \A q \in Operators : sweep'[q].state = sweep[q].state
       /\ budget'.hand <= budget.hand
  BY <1>1, <1>5, <1>8, <1>9 DEF AccountInv, AccountTyped, BudgetType
<1>11. CASE ~queued
  <2>1. files' = files
    BY <1>3, <1>11
  <2> QED BY <1>1, <1>8, <1>9, <1>10, <1>13, <2>1, AddKeeps
<1>12. CASE queued
  <2>1. PICK m : /\ m = [graph |-> graph, queue |-> QueueOf(o), dir |-> "queue",
                         content |-> content]
                 /\ files' = files \cup {m}
    BY <1>3, <1>12
  <2>2. m.graph = graph /\ graph[1] = o /\ graph[2] = Len(night[o].graphs) + 1
        /\ m.dir = "queue" /\ m.queue = QueueOf(o)
    BY <1>3, <2>1
  <2>3. o \in ShiftProcesses /\ Launchd \in ShiftProcesses /\ o # Launchd
        /\ QueueOf(o) \in ShiftProcesses
    BY LaunchdAssumption DEF ShiftProcesses, QueueOf
  <2>11. graph \in Graphs
    BY <1>3, <1>5, <2>3 DEF Graphs
  <2>4. night[o].mode \notin {"dry enqueue", "dry run"}
        /\ QueueOf(o) = IF night[o].mode = "run" THEN o ELSE Launchd
    BY <1>3, <1>12 DEF Dry, QueueOf
  <2>5. FileOK(m)'
    <3>1. m = [graph |-> m.graph, queue |-> m.queue, dir |-> m.dir, content |-> m.content]
          /\ m.dir \in Dirs
      BY <2>1, DirsAre
    <3>2. graph[2] \in 1 .. Len(gs)
      BY <1>5, <2>2
    <3> QED BY <1>8, <1>9, <2>2, <2>3, <2>4, <2>11, <3>1, <3>2 DEF FileOK
  <2>6. ASSUME NEW f \in files PROVE f.graph # m.graph
    <3>1. FileOK(f)
      BY DEF AccountInv, FilesOK
    <3>2. f.graph[1] = o => f.graph[2] \in 1 .. Len(night[o].graphs)
      BY <3>1 DEF FileOK
    <3>3. Len(night[o].graphs) + 1 \notin 1 .. Len(night[o].graphs)
      BY <1>5
    <3> QED BY <2>2, <3>2, <3>3
  <2>7. \A q \in Operators : m.graph[1] = q => night[q].at = "compile"
    BY <1>1, <2>2
  <2> QED BY <1>1, <1>8, <1>9, <1>10, <1>13, <2>1, <2>2, <2>5, <2>6, <2>7, AddKeeps
<1> QED BY <1>11, <1>12

-----------------------------------------------------------------------------
(* A shift moves a file from directory `a` to directory `b`.               *)

LEMMA FileIs ==
  ASSUME AccountInv, NEW f \in files PROVE File(f.graph) = f
BY DEF AccountInv, FilesOK, File

(* What that does to the directories of the shift's run.                   *)
LEMMA DirsMove ==
  ASSUME AccountInv, NEW p \in Operators, night[p].mode = "run",
         NEW f \in files, f.queue = p, NEW b \in Dirs, f.dir # b,
         NEW m, m = [f EXCEPT !.dir = b], files' = (files \ {f}) \cup {m}
  PROVE  /\ f \in InDir(p, f.dir) /\ m \notin InDir(p, b)
         /\ InDir(p, f.dir)' = InDir(p, f.dir) \ {f}
         /\ InDir(p, b)' = InDir(p, b) \cup {m}
         /\ \A d \in Dirs \ {f.dir, b} : InDir(p, d)' = InDir(p, d)
<1>1. f.graph[1] = p
  BY OwnIs
<1>2. FileOK(f) /\ \A h \in files : h.graph = f.graph => h = f
  BY DEF AccountInv, FilesOK
<1>3. m.graph = f.graph /\ m.dir = b
  BY <1>2 DEF FileOK
<1>4. m \notin files
  BY <1>2, <1>3
<1> QED BY <1>1, <1>3, <1>4 DEF InDir, NightGraphs

LEMMA MoveKeeps ==
  ASSUME AccountInv, AccountTyped', NEW p \in ShiftProcesses,
         NEW f \in files, f.queue = p, NEW b \in Dirs, b # "queue", f.dir # b,
         NEW m, m = [f EXCEPT !.dir = b], files' = (files \ {f}) \cup {m},
         UNCHANGED <<budget, night, ledger, sweep>>, ShiftOK(p)',
         \A q \in ShiftProcesses : q # p => shift'[q] = shift[q],
         shift[p].at # "off", shift'[p].at # "off",
         p \in Operators => Tallied(p)'
  PROVE  AccountInv'
<1>1. FileOK(f) /\ IsFiniteSet(files) /\ \A g, h \in files : g.graph = h.graph => g = h
  BY DEF AccountInv, FilesOK
<1>2. m = [graph |-> f.graph, queue |-> p, dir |-> b, content |-> f.content]
      /\ m.graph = f.graph /\ m.queue = p /\ m.dir = b /\ m.content = f.content
  BY <1>1 DEF FileOK
<1>3. p \in Operators => NightOK(p) /\ night[p].at = "shift" /\ night[p].mode = "run"
  BY DEF AccountInv, NightOK
<1>4. f.graph[1] \in Operators /\ night[f.graph[1]].mode = "run" => f.graph[1] = p
  BY <1>1 DEF FileOK
<1>5. FileOK(m)'
  <2>1. FileOK(m)
    BY <1>1, <1>2, <1>3, <1>4 DEF FileOK
  <2> QED BY <2>1 DEF FileOK
<1>6. FilesOK'
  <2>1. IsFiniteSet(files')
    <3>1. IsFiniteSet(files \ {f})
      BY <1>1, FS_RemoveElement
    <3> QED BY <3>1, FS_AddElement
  <2>2. ASSUME NEW g \in files PROVE FileOK(g)'
    <3>1. FileOK(g)
      BY DEF AccountInv, FilesOK
    <3> QED BY <3>1 DEF FileOK
  <2>3. \A g \in files' : FileOK(g)'
    BY <1>5, <2>2
  <2>4. ASSUME NEW g \in files \ {f} PROVE g.graph # m.graph
    <3>1. g.graph # f.graph
      BY <1>1
    <3> QED BY <1>2, <3>1
  <2>5. ASSUME NEW g \in files', NEW h \in files', g.graph = h.graph PROVE g = h
    BY <1>1, <2>4, <2>5
  <2> QED BY <2>1, <2>3, <2>5 DEF FilesOK
<1>7. ASSUME NEW q \in ShiftProcesses PROVE ShiftOK(q)'
  <2>1. CASE q = p
    BY <2>1
  <2>2. CASE q # p
    <3>1. ShiftOK(q) /\ shift'[q] = shift[q]
      BY <2>2 DEF AccountInv
    <3>2. ASSUME NEW g, NEW d, Lies(g, q, d) PROVE Lies(g, q, d)'
      <4>1. PICK h \in files : h.graph = g /\ h.queue = q /\ h.dir = d
        BY <3>2 DEF Lies
      <4>2. h \in files'
        BY <2>2, <4>1
      <4> QED BY <4>1, <4>2 DEF Lies
    <3>3. \A g \in shift[q].todo : Lies(g, q, "queue")'
      BY <3>1, <3>2 DEF ShiftOK
    <3>4. shift[q].at = "running" => Lies(shift[q].graph, q, "running")'
      <4>1. PICK g : g = shift[q].graph
        OBVIOUS
      <4>2. shift[q].at = "running" => Lies(g, q, "running")'
        BY <3>1, <3>2, <4>1 DEF ShiftOK
      <4> QED BY <3>1, <4>1, <4>2 DEF Lies
    <3>5. shift[q].at = "tell" => shift[q].to \in Outcomes /\ Lies(shift[q].graph, q, shift[q].to)'
      <4>1. PICK g, d : g = shift[q].graph /\ d = shift[q].to
        OBVIOUS
      <4>2. shift[q].at = "tell" => d \in Outcomes /\ Lies(g, q, d)'
        BY <3>1, <3>2, <4>1 DEF ShiftOK
      <4> QED BY <3>1, <4>1, <4>2 DEF Lies
    <3> QED BY <3>1, <3>3, <3>4, <3>5 DEF ShiftOK, Lies
  <2> QED BY <2>1, <2>2
<1>8. ASSUME NEW q \in Operators PROVE NightOK(q)'
  <2>1. NightOK(q) /\ q \in ShiftProcesses
    BY DEF AccountInv, ShiftProcesses
  <2>2. CASE q = p
    <3>1. night[q].at = "shift" /\ Tallied(q)'
      BY <1>3, <2>2
    <3> QED BY <2>1, <2>2, <3>1 DEF NightOK
  <2>3. CASE q # p
    <3>1. shift'[q] = shift[q]
      BY <2>1, <2>3
    <3>2. night[q].mode = "run" => \A d \in Dirs : InDir(q, d)' = InDir(q, d)
      <4>1. night[q].mode = "run" => f.graph[1] # q /\ m.graph[1] # q
        BY <1>2, <1>4, <2>3
      <4> QED BY <4>1 DEF InDir, NightGraphs
    <3>3. night[q].mode = "run" /\ Tallied(q) => Tallied(q)'
      BY <3>1, <3>2, DirsAre DEF Tallied
    <3>4. night[q].mode = "run" /\ Accounted(q) => Accounted(q)'
      BY <3>2, DirsAre DEF Accounted
    <3> QED BY <2>1, <3>1, <3>3, <3>4 DEF NightOK
  <2> QED BY <2>2, <2>3
<1>9. \A i \in 1 .. Len(ledger') : EventOK(ledger[i])'
  <2>1. ASSUME NEW e, EventOK(e) PROVE EventOK(e)'
    BY <2>1 DEF EventOK, RunStatus, Dry
  <2>2. ASSUME NEW i \in 1 .. Len(ledger') PROVE EventOK(ledger[i])'
    <3>1. PICK e : e = ledger[i] /\ ledger' = ledger
      OBVIOUS
    <3>2. EventOK(e)
      BY <2>2, <3>1 DEF AccountInv
    <3>3. EventOK(e)'
      BY <2>1, <3>2
    <3> QED BY <3>1, <3>3 DEF EventOK
  <2> QED BY <2>2
<1> QED BY <1>6, <1>7, <1>8, <1>9 DEF AccountInv

LEMMA TakeKeeps ==
  ASSUME AccountInv, NEW p \in ShiftProcesses, NEW g \in shift[p].todo, TakeFile(p, g)
  PROVE  AccountInv'
<1>1. /\ shift[p].at = "next" /\ shift \in [ShiftProcesses -> ShiftType]
      /\ UNCHANGED <<budget, night, ledger, sweep>>
  BY DEF TakeFile, preflightVars, AccountInv, AccountTyped
<1>2. PICK f \in files : f.graph = g /\ f.queue = p /\ f.dir = "queue"
  BY DEF AccountInv, ShiftOK, Lies
<1>3. File(g) = f
  BY <1>2, FileIs
<1>4. PICK b, at : /\ (b = "running" /\ at = "running") \/ (b = "rejected" /\ at = "tell")
                   /\ shift' = [shift EXCEPT ![p].todo = @ \ {g}, ![p].graph = g,
                                             ![p].to = "rejected", ![p].at = at]
                   /\ files' = Moved(g, b)
  <2>1. CASE File(g).content.verdict = "safe"
    BY <2>1 DEF TakeFile
  <2>2. CASE File(g).content.verdict # "safe"
    BY <2>2 DEF TakeFile
  <2> QED BY <2>1, <2>2
<1>5. PICK m : m = [f EXCEPT !.dir = b] /\ files' = (files \ {f}) \cup {m}
  BY <1>3, <1>4 DEF Moved
<1>6. FileOK(f) /\ \A h \in files : h.graph = g => h = f
  BY <1>2 DEF AccountInv, FilesOK
<1>7. m.graph = g /\ m.queue = p /\ m.dir = b /\ b \in Dirs /\ b # "queue" /\ g \in Graphs
  BY <1>2, <1>4, <1>5, <1>6, DirsAre DEF FileOK, Outcomes
<1>8. PICK s : s = [shift[p] EXCEPT !.todo = @ \ {g}, !.graph = g, !.to = "rejected", !.at = at]
  OBVIOUS
<1>9. /\ s \in ShiftType /\ s.todo = shift[p].todo \ {g} /\ s.graph = g /\ s.to = "rejected"
      /\ s.at = at /\ s.tally = shift[p].tally
  BY <1>1, <1>4, <1>7, <1>8 DEF ShiftType, Dirs, Outcomes
<1>10. /\ shift' \in [ShiftProcesses -> ShiftType] /\ shift'[p] = s
       /\ \A q \in ShiftProcesses : q # p => shift'[q] = shift[q]
  BY <1>1, <1>4, <1>8, <1>9
<1>11. AccountTyped'
  BY <1>1, <1>10 DEF AccountInv, AccountTyped
<1>12. ShiftOK(p)'
  <2>1. ASSUME NEW h \in s.todo PROVE Lies(h, p, "queue")'
    <3>1. PICK k \in files : k.graph = h /\ k.queue = p /\ k.dir = "queue"
      BY <1>9, <2>1 DEF AccountInv, ShiftOK, Lies
    <3>2. k \in files'
      BY <1>2, <1>5, <1>9, <2>1, <3>1
    <3> QED BY <3>1, <3>2 DEF Lies
  <2>2. Lies(g, p, b)'
    BY <1>5, <1>7 DEF Lies
  <2>3. s.at # "off" /\ (s.at = "running" => b = "running") /\ (s.at = "tell" => b = s.to)
        /\ s.to \in Outcomes
    BY <1>4, <1>9 DEF Outcomes
  <2> QED BY <1>9, <1>10, <2>1, <2>2, <2>3 DEF ShiftOK, Lies
<1>13. ASSUME p \in Operators PROVE Tallied(p)'
  <2>1. Tallied(p) /\ night[p].mode = "run"
    BY <1>1, <1>13 DEF AccountInv, NightOK
  <2>2. /\ f \in InDir(p, "queue") /\ m \notin InDir(p, b)
        /\ InDir(p, "queue")' = InDir(p, "queue") \ {f}
        /\ InDir(p, b)' = InDir(p, b) \cup {m}
        /\ \A d \in Dirs \ {"queue", b} : InDir(p, d)' = InDir(p, d)
    BY <1>2, <1>5, <1>7, <1>13, <2>1, DirsMove
  <2>3. s.todo = {h.graph : h \in InDir(p, "queue")'}
    <3>1. \A h \in InDir(p, "queue") : h \in files
      BY DEF InDir, NightGraphs
    <3>2. shift[p].todo = {h.graph : h \in InDir(p, "queue")}
      BY <2>1 DEF Tallied
    <3> QED BY <1>2, <1>6, <1>9, <2>2, <3>1, <3>2
  <2>4. InDir(p, "running") = {}
    BY <1>1, <2>1 DEF Tallied
  <2>5. \A d \in Outcomes : s.tally[d] = Cardinality(InDir(p, d)) /\ s.tally[d] \in Nat
    BY <1>1, <1>9, <2>1 DEF Tallied, ShiftType
  <2>6. CASE b = "running"
    <3>1. \A d \in Outcomes : InDir(p, d)' = InDir(p, d)
      BY <2>2, <2>6, DirsAre
    <3>2. \A d \in Outcomes : s.tally[d] + (IF s.at = "tell" /\ s.to = d THEN 1 ELSE 0)
                                = Cardinality(InDir(p, d))
      BY <1>4, <1>9, <2>5, <2>6
    <3>3. \A h \in InDir(p, "running")' : s.at = "running" /\ h.graph = s.graph
      BY <1>4, <1>7, <1>9, <2>2, <2>4, <2>6
    <3> QED BY <1>10, <2>3, <3>1, <3>2, <3>3 DEF Tallied
  <2>7. CASE b = "rejected"
    <3>1. InDir(p, "running")' = {}
      BY <2>2, <2>4, <2>7, DirsAre
    <3>2. Cardinality(InDir(p, "rejected") \cup {m}) = Cardinality(InDir(p, "rejected")) + 1
      BY <2>2, <2>7, DirsFinite, FS_AddElement
    <3>3. ASSUME NEW d \in Outcomes
          PROVE  s.tally[d] + (IF s.at = "tell" /\ s.to = d THEN 1 ELSE 0)
                   = Cardinality(InDir(p, d)')
      <4>1. CASE d = "rejected"
        BY <1>4, <1>9, <2>2, <2>5, <2>7, <3>2, <4>1
      <4>2. CASE d # "rejected"
        BY <1>9, <2>2, <2>5, <2>7, <4>2, DirsAre
      <4> QED BY <4>1, <4>2
    <3> QED BY <1>10, <2>3, <3>1, <3>3 DEF Tallied
  <2> QED BY <1>4, <2>6, <2>7
<1>14. shift'[p].at # "off"
  BY <1>4, <1>9, <1>10
<1> QED BY <1>1, <1>2, <1>5, <1>7, <1>10, <1>11, <1>12, <1>13, <1>14, MoveKeeps

LEMMA RouteKeeps ==
  ASSUME AccountInv, NEW p \in ShiftProcesses, NEW b \in {"completed", "failed"}, RouteFile(p, b)
  PROVE  AccountInv'
<1>1. /\ shift[p].at = "running" /\ shift \in [ShiftProcesses -> ShiftType]
      /\ UNCHANGED <<budget, night, ledger, sweep>>
      /\ shift' = [shift EXCEPT ![p].at = "tell", ![p].to = b]
      /\ files' = Moved(shift[p].graph, b)
  BY DEF RouteFile, preflightVars, AccountInv, AccountTyped
<1>2. PICK f \in files : f.graph = shift[p].graph /\ f.queue = p /\ f.dir = "running"
  BY <1>1 DEF AccountInv, ShiftOK, Lies
<1>3. File(shift[p].graph) = f
  BY <1>2, FileIs
<1>4. PICK m : m = [f EXCEPT !.dir = b] /\ files' = (files \ {f}) \cup {m}
  BY <1>1, <1>3 DEF Moved
<1>5. FileOK(f) /\ \A h \in files : h.graph = f.graph => h = f
  BY <1>2 DEF AccountInv, FilesOK
<1>6. m.graph = f.graph /\ m.queue = p /\ m.dir = b /\ b \in Outcomes /\ b \in Dirs /\ b # "queue"
      /\ b # "running"
  BY <1>2, <1>4, <1>5 DEF FileOK, Outcomes, Dirs
<1>7. PICK s : s = [shift[p] EXCEPT !.at = "tell", !.to = b]
  OBVIOUS
<1>8. /\ s \in ShiftType /\ s.todo = shift[p].todo /\ s.graph = shift[p].graph /\ s.to = b
      /\ s.at = "tell" /\ s.tally = shift[p].tally
  BY <1>1, <1>6, <1>7 DEF ShiftType
<1>9. /\ shift' \in [ShiftProcesses -> ShiftType] /\ shift'[p] = s
      /\ \A q \in ShiftProcesses : q # p => shift'[q] = shift[q]
  BY <1>1, <1>7, <1>8
<1>10. AccountTyped'
  BY <1>1, <1>9 DEF AccountInv, AccountTyped
<1>11. ShiftOK(p)'
  <2>1. ASSUME NEW h \in s.todo PROVE Lies(h, p, "queue")'
    <3>1. PICK k \in files : k.graph = h /\ k.queue = p /\ k.dir = "queue"
      BY <1>8, <2>1 DEF AccountInv, ShiftOK, Lies
    <3>2. k \in files'
      BY <1>2, <1>4, <3>1
    <3> QED BY <3>1, <3>2 DEF Lies
  <2>2. Lies(s.graph, p, b)'
    BY <1>2, <1>4, <1>6, <1>8 DEF Lies
  <2> QED BY <1>6, <1>8, <1>9, <2>1, <2>2 DEF ShiftOK, Lies
<1>12. ASSUME p \in Operators PROVE Tallied(p)'
  <2>1. Tallied(p) /\ night[p].mode = "run"
    BY <1>1, <1>12 DEF AccountInv, NightOK
  <2>2. /\ f \in InDir(p, "running") /\ m \notin InDir(p, b)
        /\ InDir(p, "running")' = InDir(p, "running") \ {f}
        /\ InDir(p, b)' = InDir(p, b) \cup {m}
        /\ \A d \in Dirs \ {"running", b} : InDir(p, d)' = InDir(p, d)
    BY <1>2, <1>4, <1>6, <1>12, <2>1, DirsMove
  <2>3. s.todo = {h.graph : h \in InDir(p, "queue")'}
    BY <1>6, <1>8, <2>1, <2>2, DirsAre DEF Tallied
  <2>4. InDir(p, "running")' = {}
    <3>1. ASSUME NEW h \in InDir(p, "running") PROVE h = f
      BY <1>2, <1>5, <2>1 DEF Tallied, InDir, NightGraphs
    <3> QED BY <2>2, <3>1
  <2>5. \A d \in Outcomes : s.tally[d] = Cardinality(InDir(p, d)) /\ s.tally[d] \in Nat
    BY <1>1, <1>8, <2>1 DEF Tallied, ShiftType
  <2>6. Cardinality(InDir(p, b) \cup {m}) = Cardinality(InDir(p, b)) + 1
    BY <2>2, DirsFinite, FS_AddElement
  <2>7. ASSUME NEW d \in Outcomes
        PROVE  s.tally[d] + (IF s.at = "tell" /\ s.to = d THEN 1 ELSE 0) = Cardinality(InDir(p, d)')
    <3>1. CASE d = b
      BY <1>8, <2>2, <2>5, <2>6, <3>1
    <3>2. CASE d # b
      BY <1>8, <2>2, <2>5, <3>2, DirsAre
    <3> QED BY <3>1, <3>2
  <2> QED BY <1>9, <2>3, <2>4, <2>7 DEF Tallied
<1>13. shift'[p].at # "off"
  BY <1>8, <1>9
<1> QED BY <1>1, <1>2, <1>4, <1>6, <1>9, <1>10, <1>11, <1>12, <1>13, MoveKeeps

-----------------------------------------------------------------------------

LEMMA AccountNext ==
  ASSUME SweepInv, AccountInv, [OvernightNext]_overnightVars
  PROVE  AccountInv'
<1> USE DEF nightVars
<1>1. budget \in BudgetType
  BY DEF AccountInv, AccountTyped
<1>2. CASE UNCHANGED overnightVars
  BY <1>1, <1>2, IdleKeeps DEF overnightVars, preflightVars
<1>3. CASE OtherStoreStep /\ UNCHANGED <<sweep, nightVars>>
  BY <1>1, <1>3, IdleKeeps
<1>4. ASSUME NEW c \in Commands, NEW k \in Classes, SubmitOne(c, k) PROVE AccountInv'
  <2>1. budget' = [budget EXCEPT !.submissions = @ - 1] /\ budget.submissions > 0
        /\ UNCHANGED <<sweep, night, shift, files, ledger>>
    BY <1>4 DEF SubmitOne
  <2>2. budget' \in BudgetType /\ budget'.hand = budget.hand
    BY <1>1, <2>1 DEF BudgetType
  <2> QED BY <2>1, <2>2, IdleKeeps
<1>5. ASSUME NEW o \in Operators, NightStep(o) PROVE AccountInv'
  <2>1. ASSUME NEW mode \in budget.modes, NEW limit \in budget.limits, NEW hours \in Hours,
               StartNight(o, mode, limit, hours)
        PROVE  AccountInv'
    BY <2>1, StartNightKeeps
  <2>2. ASSUME NEW c \in Commands, RequeueItem(o, c) \/ LeaveItem(o, c) PROVE AccountInv'
    BY <2>2, ItemsKeep
  <2>3. CASE SweepRead(o) \/ FinishSweep(o)
    BY <2>3, CallsEnd
  <2>4. ASSUME NEW sight \in Sights, Plan(o, sight) PROVE AccountInv'
    BY <2>4, PlanKeeps
  <2> QED BY <1>5, <2>1, <2>2, <2>3, <2>4, CompileKeeps, TellEnqueuedKeeps, StartOwnKeeps,
             TellRunKeeps DEF NightStep
<1>6. ASSUME NEW o \in Operators, SweepingNightDies(o) PROVE AccountInv'
  BY <1>6, CallsEnd
<1>7. ASSUME NEW o \in Operators, NightDies(o) PROVE AccountInv'
  BY <1>7, NightDiesKeeps
<1>8. ASSUME NEW content \in HandGraphs, EnqueueByHand(content) PROVE AccountInv'
  BY <1>8, ByHandKeeps
<1>9. ASSUME NEW p \in ShiftProcesses, ShiftStep(p) PROVE AccountInv'
  BY <1>9, TakeKeeps, RouteKeeps, TellOutcomeKeeps, EndShiftKeeps DEF ShiftStep
<1> QED BY <1>2, <1>3, <1>4, <1>5, <1>6, <1>7, <1>8, <1>9, LaunchdKeeps DEF OvernightNext

LEMMA AccountsHold == OvernightSpec => []AccountInv
<1>1. SweepInv /\ AccountInv /\ [OvernightNext]_overnightVars => AccountInv'
  BY AccountNext
<1> QED BY <1>1, InitAccounts, SweepsHold, PTL DEF OvernightSpec

(* What a run tells the ledger adds up with its directory for good: the    *)
(* totals of its shift are the files it left in each directory, what it    *)
(* skipped still lies in the queue, and it calls itself completed only if  *)
(* nothing it started went wrong - whatever the other shifts, nights and   *)
(* crashes do.                                                             *)
THEOREM NightAlwaysAccounted == OvernightSpec => []NightIsAccounted
<1>1. AccountInv => NightIsAccounted
  <2> SUFFICES ASSUME AccountInv, NEW i \in Told({"run"}), NEW run, run = ledger[i]
               PROVE  /\ \A d \in Outcomes : run.shift[d] = Cardinality(InDir(run.night, d))
                      /\ run.skipped = Cardinality(InDir(run.night, "queue"))
                      /\ Cardinality(InDir(run.night, "running")) = 0
                      /\ run.status = "completed" =>
                           \A f \in NightGraphs(run.night) : f.dir \in {"completed", "queue"}
    BY DEF NightIsAccounted, InDir
  <2>1. EventOK(run) /\ run.kind = "run"
    BY DEF Told, AccountInv
  <2>2. PICK o \in Operators : /\ o = run.night /\ night[o].at = "over"
                               /\ night[o].mode \in {"run", "dry run"}
                               /\ run.shift = night[o].shift /\ run.skipped = night[o].skipped
                               /\ run.status = RunStatus(o)
    BY <2>1 DEF EventOK
  <2>3. NightOK(o) /\ IsNight(night[o])
    BY DEF AccountInv, AccountTyped
  <2>4. Accounted(o)
    <3>1. CASE night[o].mode = "run"
      BY <2>2, <2>3, <3>1 DEF NightOK
    <3>2. CASE night[o].mode = "dry run"
      <4>1. NightGraphs(o) = {}
        BY <3>2 DEF NightGraphs, AccountInv, FilesOK, FileOK
      <4>2. \A d : InDir(o, d) = {} /\ Cardinality(InDir(o, d)) = 0
        BY <4>1, FS_EmptySet DEF InDir
      <4> QED BY <2>3, <3>2, <4>2, NoNightIs DEF NightOK, Accounted
    <3> QED BY <2>2, <3>1, <3>2
  <2>5. Cardinality(InDir(o, "running")) = 0
    BY <2>4, FS_EmptySet DEF Accounted
  <2>6. ASSUME run.status = "completed", NEW f \in NightGraphs(o)
        PROVE  f.dir \in {"completed", "queue"}
    <3>1. night[o].shift \in [Outcomes -> Nat] /\ night[o].shift.rejected \in Nat
          /\ night[o].shift.failed \in Nat /\ night[o].shift.blocked \in Nat
      BY <2>3 DEF IsNight, Outcomes
    <3>2. night[o].shift.rejected = 0 /\ night[o].shift.failed = 0 /\ night[o].shift.blocked = 0
      <4>1. PICK r \in Nat, x \in Nat, b \in Nat : /\ r = night[o].shift.rejected /\ x = night[o].shift.failed
                                   /\ b = night[o].shift.blocked
        BY <3>1
      <4>2. ~Dry(o)
        BY <2>2, <2>6 DEF RunStatus
      <4>3. ~(r + x > 0)
        BY <2>2, <2>6, <4>1, <4>2 DEF RunStatus
      <4>4. r + x = 0
        BY <4>1, <4>3
      <4>5. ~(b > 0)
        BY <2>2, <2>6, <4>1, <4>2, <4>4 DEF RunStatus
      <4> QED BY <4>1, <4>4, <4>5
    <3>3. \A d \in {"rejected", "failed", "blocked"} : Cardinality(InDir(o, d)) = 0
      BY <2>4, <3>1, <3>2 DEF Accounted, Outcomes
    <3>4. \A d \in {"rejected", "failed", "blocked"} : InDir(o, d) = {}
      BY <3>3, DirsFinite, FS_EmptySet
    <3>5. f.dir \in Dirs
      BY DEF NightGraphs, AccountInv, FilesOK, FileOK
    <3> QED BY <2>4, <3>4, <3>5 DEF Accounted, InDir, Dirs, Outcomes
  <2> QED BY <2>2, <2>4, <2>5, <2>6 DEF Accounted
<1> QED BY <1>1, AccountsHold, PTL

-----------------------------------------------------------------------------
(* The plan of a night.  Its actions are the autonomous ones, in an order  *)
(* that is strict and total on them, so that the sorted sequence exists;   *)
(* what the scheduled ones use up only grows.                              *)

LEMMA LeastNumber ==
  ASSUME NEW T \in SUBSET Nat, T # {} PROVE \E n \in T : \A m \in T : n <= m
<1>1. PICK n \in T : \A m \in T : <<m, n>> \notin OpToRel(<, Nat)
  BY NatLessThanWellFounded, WFMin
<1>2. \A m \in T : ~(m < n)
  BY <1>1 DEF OpToRel
<1>3. n \in Nat /\ \A m \in T : m \in Nat
  OBVIOUS
<1>4. \A m \in T : n <= m
  BY <1>2, <1>3
<1> QED BY <1>4

Priorities == {"critical", "high", "medium", "low"}

(* What an item says of an action: its verb, its class and its timeout.    *)
Known(p, i, l) ==
  CASE i = 2 -> <<"project.verify", Manifest[p].gates["verify"].class, Manifest[p].gates["verify"].timeout>>
    [] i = 1 -> <<"project.smoke", Manifest[p].gates["smoke"].class, Manifest[p].gates["smoke"].timeout>>
    [] i = 5 -> <<"project.status", 0, 0>>
    [] i = 7 /\ l = 0 -> <<"launchd.status", 0, 0>>
    [] i = 7 /\ l # 0 -> <<"logs.read", 0, 0>>
    [] i \notin {1, 2, 5, 7} -> <<"project.inspect", 0, 0>>

ActionOf(p, i, j, l, urgency) ==
  [project |-> p, item |-> <<i, j, l>>, verb |-> Known(p, i, l)[1],
   lane |-> Lane(Known(p, i, l)[1], Known(p, i, l)[2]), priority |-> urgency,
   class |-> Known(p, i, l)[2], timeout |-> Known(p, i, l)[3],
   recommended |-> TRUE, eligible |-> TRUE]

Services == UNION {Manifest[p].services : p \in Projects}
Ids == {v.id : v \in Services} \cup {0}
Logs == (UNION {v.logs : v \in Services}) \cup {0}

LEMMA MadeIs ==
  ASSUME NEW p, NEW i, NEW j, NEW l, NEW verb, NEW urgency, NEW recommended, NEW k, NEW timeout,
         NEW a, a = MakeAction(p, <<i, j, l>>, verb, urgency, recommended, k, timeout),
         a.eligible, a.recommended, Known(p, i, l) = <<verb, k, timeout>>
  PROVE  a = ActionOf(p, i, j, l, urgency) /\ k <= 1
<1>1. PICK allowed \in BOOLEAN : allowed = (Decision(k, FALSE) = "allow")
  OBVIOUS
<1>2. a = [project |-> p, item |-> <<i, j, l>>, verb |-> verb, lane |-> Lane(verb, k),
           priority |-> urgency, class |-> k, timeout |-> timeout,
           recommended |-> recommended /\ allowed, eligible |-> allowed /\ k <= 1]
  BY <1>1 DEF MakeAction
<1>3. a.recommended = (recommended /\ allowed) /\ a.eligible = (allowed /\ k <= 1)
  BY <1>2
<1>4. (recommended /\ allowed) = TRUE /\ (allowed /\ k <= 1) = TRUE
  BY <1>3
<1>5. Known(p, i, l)[1] = verb /\ Known(p, i, l)[2] = k /\ Known(p, i, l)[3] = timeout
  OBVIOUS
<1>6. a = [project |-> p, item |-> <<i, j, l>>, verb |-> verb, lane |-> Lane(verb, k),
           priority |-> urgency, class |-> k, timeout |-> timeout,
           recommended |-> TRUE, eligible |-> TRUE]
  BY <1>2, <1>4
<1> QED BY <1>4, <1>5, <1>6 DEF ActionOf

LEMMA UrgencyIs ==
  ASSUME NEW p, NEW health PROVE PriorityForProject(p, health) \in Priorities
BY DEF PriorityForProject, Priorities

LEMMA Shape ==
  ASSUME NEW sight, NEW a \in Autonomous(sight)
  PROVE  \E p \in Projects, i \in 1 .. 7, j \in Ids, l \in Logs, urgency \in Priorities :
           a = ActionOf(p, i, j, l, urgency)
<1>1. PICK p \in Projects : a \in ProjectPlan(p, sight[p]) /\ a.eligible /\ a.recommended
  BY DEF Autonomous
<1>2. PICK seen : seen = sight[p]
  OBVIOUS
<1>3. 0 \in Ids /\ 0 \in Logs
  BY DEF Ids, Logs
<1>4. CASE a \in RootActions(p, seen)
  <2>1. a = MakeAction(p, <<6, 0, 0>>, "project.inspect", PriorityForProject(p, "missing"), TRUE, 0, 0)
    BY <1>4 DEF RootActions, Item
  <2>2. Known(p, 6, 0) = <<"project.inspect", 0, 0>>
    BY DEF Known
  <2>3. a = ActionOf(p, 6, 0, 0, PriorityForProject(p, "missing"))
    BY <1>1, <2>1, <2>2, MadeIs
  <2> QED BY <1>3, <2>3, UrgencyIs
<1>5. CASE a \in GitActions(p, seen)
  <2>1. CASE seen.git = "dirty"
    <3>1. a = MakeAction(p, <<5, 0, 0>>, "project.status", PriorityForProject(p, Health(p, seen)),
                         TRUE, 0, 0)
      BY <1>5, <2>1 DEF GitActions, Item
    <3>2. Known(p, 5, 0) = <<"project.status", 0, 0>>
      BY DEF Known
    <3>3. a = ActionOf(p, 5, 0, 0, PriorityForProject(p, Health(p, seen)))
      BY <1>1, <3>1, <3>2, MadeIs
    <3> QED BY <1>3, <3>3, UrgencyIs
  <2>2. CASE seen.git # "dirty"
    <3>1. a = MakeAction(p, <<4, 0, 0>>, "project.inspect", "medium", TRUE, 0, 0)
      BY <1>5, <2>2 DEF GitActions, Item
    <3>2. Known(p, 4, 0) = <<"project.inspect", 0, 0>>
      BY DEF Known
    <3>3. a = ActionOf(p, 4, 0, 0, "medium")
      BY <1>1, <3>1, <3>2, MadeIs
    <3> QED BY <1>3, <3>3 DEF Priorities
  <2> QED BY <2>1, <2>2
<1>6. CASE a \in GateActions(p, seen)
  <2>1. CASE \E g \in Gates : Manifest[p].gates[g].declared \/ ~seen.root
    <3>1. CASE a = MakeAction(p, <<2, 0, 0>>, "project.verify", PriorityForProject(p, Health(p, seen)),
                     seen.root, Manifest[p].gates["verify"].class, Manifest[p].gates["verify"].timeout)
      <4>1. Known(p, 2, 0) = <<"project.verify", Manifest[p].gates["verify"].class,
                               Manifest[p].gates["verify"].timeout>>
        BY DEF Known
      <4>2. a = ActionOf(p, 2, 0, 0, PriorityForProject(p, Health(p, seen)))
        BY <1>1, <3>1, <4>1, MadeIs
      <4> QED BY <1>3, <4>2, UrgencyIs
    <3>2. ASSUME NEW urgency \in Priorities,
                 a = MakeAction(p, <<1, 0, 0>>, "project.smoke", urgency, seen.root,
                       Manifest[p].gates["smoke"].class, Manifest[p].gates["smoke"].timeout)
          PROVE  a = ActionOf(p, 1, 0, 0, urgency)
      <4>1. Known(p, 1, 0) = <<"project.smoke", Manifest[p].gates["smoke"].class,
                               Manifest[p].gates["smoke"].timeout>>
        BY DEF Known
      <4> QED BY <1>1, <3>2, <4>1, MadeIs
    <3>3. \/ a = MakeAction(p, <<2, 0, 0>>, "project.verify", PriorityForProject(p, Health(p, seen)),
                     seen.root, Manifest[p].gates["verify"].class, Manifest[p].gates["verify"].timeout)
          \/ \E urgency \in Priorities :
               a = MakeAction(p, <<1, 0, 0>>, "project.smoke", urgency, seen.root,
                       Manifest[p].gates["smoke"].class, Manifest[p].gates["smoke"].timeout)
      <4>1. PICK g \in Gates, urgency \in Priorities :
              /\ g = "verify" => urgency = PriorityForProject(p, Health(p, seen))
              /\ a = MakeAction(p, <<Item[g], 0, 0>>,
                                IF g = "verify" THEN "project.verify" ELSE "project.smoke", urgency,
                                seen.root, Manifest[p].gates[g].class, Manifest[p].gates[g].timeout)
        BY <1>6, <2>1, UrgencyIs DEF GateActions, Priorities
      <4>2. Item["verify"] = 2 /\ Item["smoke"] = 1
        BY DEF Item
      <4>3. CASE g = "verify"
        BY <4>1, <4>2, <4>3
      <4>4. CASE g # "verify"
        <5>1. g = "smoke"
          BY <4>4 DEF Gates
        <5> QED BY <4>1, <4>2, <4>4, <5>1
      <4> QED BY <4>3, <4>4
    <3> QED BY <1>3, <3>1, <3>2, <3>3
  <2>2. CASE ~ \E g \in Gates : Manifest[p].gates[g].declared \/ ~seen.root
    <3>1. PICK urgency, recommended :
            /\ urgency \in Priorities
            /\ a = MakeAction(p, <<3, 0, 0>>, "project.inspect", urgency, recommended, 0, 0)
      BY <1>6, <2>2 DEF GateActions, Item, Priorities
    <3>2. Known(p, 3, 0) = <<"project.inspect", 0, 0>>
      BY DEF Known
    <3>3. a = ActionOf(p, 3, 0, 0, urgency)
      BY <1>1, <3>1, <3>2, MadeIs
    <3> QED BY <1>3, <3>1, <3>3
  <2> QED BY <2>1, <2>2
<1>7. CASE a \in ServiceActions(p, seen)
  <2>1. PICK v, urgency :
          /\ v \in Manifest[p].services /\ urgency \in Priorities
          /\ \/ a = MakeAction(p, <<7, v.id, 0>>, "launchd.status", urgency, TRUE, 0, 0)
             \/ \E l \in v.logs : a = MakeAction(p, <<7, v.id, l>>, "logs.read", urgency, TRUE, 0, 0)
             \/ a = MakeAction(p, <<7, v.id, 99>>, "ops.repair_launchagent", urgency, FALSE, 2, 0)
    <3>1. PICK v \in Manifest[p].services : a \in ServiceItems(p, v)
      BY <1>7 DEF ServiceActions
    <3>2. PICK urgency : urgency = IF v.required THEN PriorityForProject(p, "attention") ELSE "low"
      OBVIOUS
    <3>3. urgency \in Priorities /\ Item.service = 7
      BY <3>2, UrgencyIs DEF Priorities, Item
    <3>4. a \in {MakeAction(p, <<7, v.id, 0>>, "launchd.status", urgency, TRUE, 0, 0) :
                   b \in {x \in {1} : v.agent}}
            \cup {MakeAction(p, <<7, v.id, l>>, "logs.read", urgency, TRUE, 0, 0) : l \in v.logs}
            \cup {MakeAction(p, <<7, v.id, 99>>, "ops.repair_launchagent", urgency, FALSE, 2, 0) :
                   r \in {x \in {1} : v.required}}
      BY <3>1, <3>2, <3>3 DEF ServiceItems
    <3> QED BY <3>3, <3>4
  <2>2. v \in Services /\ v.id \in Ids /\ v.logs \subseteq Logs /\ v.logs \subseteq Nat \ {0}
    <3>1. v \in Services
      BY <2>1 DEF Services
    <3> QED BY <2>1, <3>1, ManifestAssumption DEF Ids, Logs
  <2>3. CASE a = MakeAction(p, <<7, v.id, 0>>, "launchd.status", urgency, TRUE, 0, 0)
    <3>1. Known(p, 7, 0) = <<"launchd.status", 0, 0>>
      BY DEF Known
    <3>2. a = ActionOf(p, 7, v.id, 0, urgency)
      BY <1>1, <2>3, <3>1, MadeIs
    <3> QED BY <1>3, <2>1, <2>2, <3>2
  <2>4. ASSUME NEW l \in v.logs, a = MakeAction(p, <<7, v.id, l>>, "logs.read", urgency, TRUE, 0, 0)
        PROVE  a = ActionOf(p, 7, v.id, l, urgency)
    <3>1. l # 0
      BY <2>2
    <3>2. Known(p, 7, l) = <<"logs.read", 0, 0>>
      BY <3>1 DEF Known
    <3> QED BY <1>1, <2>4, <3>2, MadeIs
  <2>5. CASE a = MakeAction(p, <<7, v.id, 99>>, "ops.repair_launchagent", urgency, FALSE, 2, 0)
    BY <1>1, <2>5 DEF MakeAction
  <2>6. \A l \in v.logs : l \in Logs
    BY <2>2
  <2>7. 7 \in 1 .. 7
    OBVIOUS
  <2> QED BY <2>1, <2>2, <2>3, <2>4, <2>5, <2>6, <2>7
<1> QED BY <1>1, <1>2, <1>4, <1>5, <1>6, <1>7 DEF ProjectPlan

LEMMA KeysAre ==
  ASSUME NEW sight, NEW a \in Autonomous(sight)
  PROVE  SortKey(a) \in [1 .. 6 -> Nat] /\ a.timeout \in Nat
<1>1. PICK p \in Projects, i \in 1 .. 7, j \in Ids, l \in Logs, urgency \in Priorities :
        a = ActionOf(p, i, j, l, urgency)
  BY Shape
<1>2. p \in Nat /\ i \in Nat /\ j \in Nat /\ l \in Nat
  BY ManifestAssumption DEF Ids, Logs, Services
<1>3. a.priority = urgency /\ a.project = p /\ a.item = <<i, j, l>> /\ a.timeout = Known(p, i, l)[3]
  BY <1>1 DEF ActionOf
<1>4. PriorityRank[a.priority] \in Nat
  BY <1>3 DEF PriorityRank, Priorities
<1>5. ActionKindRank(a) \in Nat
  BY DEF ActionKindRank
<1>6. a.timeout \in Nat
  <2>1. Manifest[p].gates["verify"].timeout \in Nat /\ Manifest[p].gates["smoke"].timeout \in Nat
    BY ManifestAssumption DEF Gates
  <2> QED BY <1>3, <2>1 DEF Known
<1>7. a.item[1] = i /\ a.item[2] = j /\ a.item[3] = l
  BY <1>3
<1> QED BY <1>2, <1>3, <1>4, <1>5, <1>6, <1>7 DEF SortKey

LEMMA KeysTell ==
  ASSUME NEW sight, NEW a \in Autonomous(sight), NEW b \in Autonomous(sight), SortKey(a) = SortKey(b)
  PROVE  a = b
<1>1. PICK p \in Projects, i \in 1 .. 7, j \in Ids, l \in Logs, urgency \in Priorities :
        a = ActionOf(p, i, j, l, urgency)
  BY Shape
<1>2. PICK p2 \in Projects, i2 \in 1 .. 7, j2 \in Ids, l2 \in Logs, urgency2 \in Priorities :
        b = ActionOf(p2, i2, j2, l2, urgency2)
  BY Shape
<1>3. /\ a.priority = urgency /\ a.project = p /\ a.item = <<i, j, l>>
      /\ b.priority = urgency2 /\ b.project = p2 /\ b.item = <<i2, j2, l2>>
  BY <1>1, <1>2 DEF ActionOf
<1>4. /\ PriorityRank[a.priority] = PriorityRank[b.priority] /\ a.project = b.project
      /\ a.item[1] = b.item[1] /\ a.item[2] = b.item[2] /\ a.item[3] = b.item[3]
  BY DEF SortKey
<1>5. urgency = urgency2
  BY <1>3, <1>4 DEF PriorityRank, Priorities
<1>6. p = p2 /\ i = i2 /\ j = j2 /\ l = l2
  BY <1>3, <1>4
<1> QED BY <1>1, <1>2, <1>5, <1>6

(* The order of comparePlanned is a strict total order.                    *)
LEMMA Irreflexive ==
  ASSUME NEW sight, NEW a \in Autonomous(sight) PROVE ~ComparePlanned(a, a)
<1>1. PICK k \in [1 .. 6 -> Nat] : k = SortKey(a)
  BY KeysAre
<1>2. \A i \in 1 .. 6 : ~(k[i] < k[i])
  OBVIOUS
<1> QED BY <1>1, <1>2 DEF ComparePlanned

LEMMA Transitive ==
  ASSUME NEW sight, NEW a \in Autonomous(sight), NEW b \in Autonomous(sight),
         NEW c \in Autonomous(sight), ComparePlanned(a, b), ComparePlanned(b, c)
  PROVE  ComparePlanned(a, c)
<1>1. PICK k \in [1 .. 6 -> Nat], l \in [1 .. 6 -> Nat], m \in [1 .. 6 -> Nat] :
        k = SortKey(a) /\ l = SortKey(b) /\ m = SortKey(c)
  BY KeysAre
<1>2. PICK i \in 1 .. 6 : k[i] < l[i] /\ \A h \in 1 .. i - 1 : k[h] = l[h]
  BY <1>1 DEF ComparePlanned
<1>3. PICK j \in 1 .. 6 : l[j] < m[j] /\ \A h \in 1 .. j - 1 : l[h] = m[h]
  BY <1>1 DEF ComparePlanned
<1>4. \E h \in 1 .. 6 : k[h] < m[h] /\ \A g \in 1 .. h - 1 : k[g] = m[g]
  <2>1. CASE i < j
    <3>1. k[i] < m[i] /\ \A g \in 1 .. i - 1 : k[g] = m[g]
      BY <1>2, <1>3, <2>1
    <3> QED BY <3>1
  <2>2. CASE j < i
    <3>1. k[j] < m[j] /\ \A g \in 1 .. j - 1 : k[g] = m[g]
      BY <1>2, <1>3, <2>2
    <3> QED BY <3>1
  <2>3. CASE i = j
    <3>1. k[i] < m[i] /\ \A g \in 1 .. i - 1 : k[g] = m[g]
      BY <1>2, <1>3, <2>3
    <3> QED BY <3>1
  <2> QED BY <2>1, <2>2, <2>3
<1> QED BY <1>1, <1>4 DEF ComparePlanned

LEMMA Total ==
  ASSUME NEW sight, NEW a \in Autonomous(sight), NEW b \in Autonomous(sight), a # b
  PROVE  ComparePlanned(a, b) \/ ComparePlanned(b, a)
<1>1. PICK k \in [1 .. 6 -> Nat], l \in [1 .. 6 -> Nat] : k = SortKey(a) /\ l = SortKey(b)
  BY KeysAre
<1>2. PICK T : T = {i \in 1 .. 6 : k[i] # l[i]}
  OBVIOUS
<1>3. T # {}
  <2>1. k # l
    BY <1>1, KeysTell
  <2> QED BY <1>2, <2>1
<1>4. PICK i \in T : \A j \in T : i <= j
  BY <1>2, <1>3, LeastNumber
<1>5. i \in 1 .. 6 /\ k[i] # l[i] /\ k[i] \in Nat /\ l[i] \in Nat
  BY <1>2
<1>6. \A j \in 1 .. i - 1 : k[j] = l[j]
  BY <1>2, <1>4, <1>5
<1>7. k[i] < l[i] \/ l[i] < k[i]
  BY <1>5
<1> QED BY <1>1, <1>5, <1>6, <1>7 DEF ComparePlanned

(* In a finite total order, every number of predecessors occurs.           *)
LEMMA RanksFill ==
  ASSUME NEW S, IsFiniteSet(S), NEW R,
         \A a \in S : <<a, a>> \notin R,
         \A a, b \in S : a # b => <<a, b>> \in R \/ <<b, a>> \in R,
         \A a, b, c \in S : <<a, b>> \in R /\ <<b, c>> \in R => <<a, c>> \in R,
         NEW i \in 1 .. Cardinality(S)
  PROVE  \E a \in S : Cardinality({b \in S : <<b, a>> \in R}) = i - 1
<1>1. PICK rank : rank = [a \in S |-> Cardinality({b \in S : <<b, a>> \in R}) + 1]
  OBVIOUS
<1>2. PICK n \in Nat : n = Cardinality(S)
  BY FS_CardinalityType
<1>3. ASSUME NEW a \in S
      PROVE  /\ IsFiniteSet({b \in S : <<b, a>> \in R})
             /\ Cardinality({b \in S : <<b, a>> \in R}) \in Nat
             /\ Cardinality({b \in S : <<b, a>> \in R}) < n
  <2>1. PICK B : B = {b \in S : <<b, a>> \in R}
    OBVIOUS
  <2>2. B \in SUBSET S /\ a \notin B
    BY <2>1
  <2>3. IsFiniteSet(B) /\ Cardinality(B) <= n /\ Cardinality(B) # n /\ Cardinality(B) \in Nat
    BY <1>2, <2>2, FS_Subset, FS_CardinalityType
  <2>4. Cardinality(B) < n
    BY <2>3
  <2> QED BY <2>1, <2>3, <2>4
<1>4. ASSUME NEW a \in S, NEW b \in S, <<a, b>> \in R PROVE rank[a] < rank[b]
  <2>1. PICK A, B : A = {c \in S : <<c, a>> \in R} /\ B = {c \in S : <<c, b>> \in R}
    OBVIOUS
  <2>2. A \in SUBSET B /\ a \in B /\ a \notin A
    BY <1>4, <2>1
  <2>3. IsFiniteSet(B) /\ Cardinality(A) \in Nat /\ Cardinality(B) \in Nat
    BY <1>3, <2>1
  <2>4. Cardinality(A) <= Cardinality(B) /\ Cardinality(A) # Cardinality(B)
    BY <2>2, <2>3, FS_Subset
  <2>5. rank[a] = Cardinality(A) + 1 /\ rank[b] = Cardinality(B) + 1
    BY <1>1, <2>1
  <2> QED BY <2>3, <2>4, <2>5
<1>5. rank \in [S -> 1 .. n]
  <2>1. ASSUME NEW a \in S PROVE rank[a] \in 1 .. n
    <3>1. PICK k : k = Cardinality({b \in S : <<b, a>> \in R})
      OBVIOUS
    <3>2. rank[a] = k + 1 /\ k \in Nat /\ k < n
      BY <1>1, <1>3, <3>1
    <3> QED BY <3>2
  <2> QED BY <1>1, <2>1
<1>6. ASSUME NEW a \in S, NEW b \in S, rank[a] = rank[b] PROVE a = b
  <2>1. rank[a] \in Nat /\ rank[b] \in Nat
    BY <1>5
  <2>2. ~(<<a, b>> \in R) /\ ~(<<b, a>> \in R)
    BY <1>4, <1>6, <2>1
  <2> QED BY <2>2
<1>7. rank \in Injection(S, 1 .. n)
  BY <1>5, <1>6 DEF Injection, IsInjective
<1>8. IsFiniteSet(1 .. n) /\ Cardinality(1 .. n) = n
  BY FS_Interval, <1>2
<1>9. rank \in Surjection(S, 1 .. n)
  BY <1>2, <1>7, <1>8, FS_Injection
<1>10. PICK a \in S : rank[a] = i
  BY <1>2, <1>9 DEF Surjection
<1>11. Cardinality({b \in S : <<b, a>> \in R}) + 1 = i /\ i \in Nat
  BY <1>1, <1>10
<1>12. Cardinality({b \in S : <<b, a>> \in R}) = i - 1
  BY <1>3, <1>11
<1> QED BY <1>12

LEMMA ImageFinite ==
  ASSUME NEW S, IsFiniteSet(S), NEW m PROVE IsFiniteSet({m[x] : x \in S})
<1>1. PICK T, f : T = {m[x] : x \in S} /\ f = [x \in S |-> m[x]]
  OBVIOUS
<1>2. f \in Surjection(S, T)
  BY <1>1 DEF Surjection
<1> QED BY <1>1, <1>2, FS_Surjection

LEMMA AutonomousFinite ==
  ASSUME NEW sight PROVE IsFiniteSet(Autonomous(sight))
<1>1. IsFiniteSet(Projects) /\ \A p \in Projects : IsFiniteSet(Manifest[p].services)
  BY ManifestAssumption
<1>2. IsFiniteSet(Services)
  <2>1. PICK m : m = [p \in Projects |-> Manifest[p].services]
    OBVIOUS
  <2>2. IsFiniteSet({m[p] : p \in Projects})
    BY <1>1, ImageFinite
  <2>3. {m[p] : p \in Projects} = {Manifest[p].services : p \in Projects}
    BY <2>1
  <2> QED BY <1>1, <2>2, <2>3, FS_UNION DEF Services
<1>3. IsFiniteSet(Ids)
  <2>1. PICK m : m = [v \in Services |-> v.id]
    OBVIOUS
  <2>2. IsFiniteSet({m[v] : v \in Services})
    BY <1>2, ImageFinite
  <2>3. {m[v] : v \in Services} = {v.id : v \in Services}
    BY <2>1
  <2> QED BY <2>2, <2>3, FS_AddElement DEF Ids
<1>4. IsFiniteSet(Logs)
  <2>1. PICK m : m = [v \in Services |-> v.logs]
    OBVIOUS
  <2>2. IsFiniteSet({m[v] : v \in Services})
    BY <1>2, ImageFinite
  <2>3. {m[v] : v \in Services} = {v.logs : v \in Services}
    BY <2>1
  <2>4. \A L \in {v.logs : v \in Services} : IsFiniteSet(L)
    BY ManifestAssumption DEF Services
  <2>5. IsFiniteSet(UNION {v.logs : v \in Services})
    BY <2>2, <2>3, <2>4, FS_UNION
  <2> QED BY <2>5, FS_AddElement DEF Logs
<1>5. IsFiniteSet(Priorities)
  <2>1. IsFiniteSet(({} \cup {"critical"}) \cup {"high"})
    BY FS_EmptySet, FS_AddElement
  <2>2. IsFiniteSet(((({} \cup {"critical"}) \cup {"high"}) \cup {"medium"}) \cup {"low"})
    BY <2>1, FS_AddElement
  <2>3. Priorities = ((({} \cup {"critical"}) \cup {"high"}) \cup {"medium"}) \cup {"low"}
    BY DEF Priorities
  <2> QED BY <2>2, <2>3
<1>6. PICK X : X = (Projects \X (1 .. 7)) \X ((Ids \X Logs) \X Priorities)
  OBVIOUS
<1>7. IsFiniteSet(X)
  <2>1. IsFiniteSet(1 .. 7)
    <3>1. PICK k \in Int : k = 7
      OBVIOUS
    <3>2. IsFiniteSet(1 .. k)
      BY FS_Interval
    <3> QED BY <3>1, <3>2
  <2>2. IsFiniteSet(Projects \X (1 .. 7)) /\ IsFiniteSet(Ids \X Logs)
    BY <1>1, <1>3, <1>4, <2>1, FS_Product
  <2>3. IsFiniteSet((Ids \X Logs) \X Priorities)
    BY <1>5, <2>2, FS_Product
  <2> QED BY <1>6, <2>2, <2>3, FS_Product
<1>8. PICK m : m = [x \in X |-> ActionOf(x[1][1], x[1][2], x[2][1][1], x[2][1][2], x[2][2])]
  OBVIOUS
<1>9. ASSUME NEW a \in Autonomous(sight) PROVE a \in {m[x] : x \in X}
  <2>1. PICK p \in Projects, i \in 1 .. 7, j \in Ids, l \in Logs, urgency \in Priorities :
          a = ActionOf(p, i, j, l, urgency)
    BY Shape
  <2>2. PICK x : x = <<<<p, i>>, <<<<j, l>>, urgency>>>>
    OBVIOUS
  <2>3. x \in X /\ x[1][1] = p /\ x[1][2] = i /\ x[2][1][1] = j /\ x[2][1][2] = l /\ x[2][2] = urgency
    BY <1>6, <2>2
  <2>4. m[x] = a
    BY <1>8, <2>1, <2>3
  <2> QED BY <2>3, <2>4
<1>10. IsFiniteSet({m[x] : x \in X}) /\ Autonomous(sight) \in SUBSET {m[x] : x \in X}
  BY <1>7, <1>9, ImageFinite
<1> QED BY <1>10, FS_Subset

(* The candidates are all the autonomous actions, each once and sorted.    *)
Sorted(s) == \A i, j \in 1 .. Len(s) : i < j => ComparePlanned(s[i], s[j])

LEMMA CandidatesAre ==
  ASSUME NEW sight
  PROVE  /\ Candidates(sight) \in Seq(Autonomous(sight))
         /\ Len(Candidates(sight)) = Cardinality(Autonomous(sight))
         /\ Sorted(Candidates(sight))
<1>1. PICK S, R, n : /\ S = Autonomous(sight) /\ n = Cardinality(S) /\ n \in Nat
                     /\ R = {x \in S \X S : ComparePlanned(x[1], x[2])}
  BY AutonomousFinite, FS_CardinalityType
<1>2. IsFiniteSet(S)
  BY <1>1, AutonomousFinite
<1>3. \A a \in S, b \in S : <<a, b>> \in R <=> ComparePlanned(a, b)
  BY <1>1
<1>4. /\ \A a \in S : <<a, a>> \notin R
      /\ \A a, b \in S : a # b => <<a, b>> \in R \/ <<b, a>> \in R
      /\ \A a, b, c \in S : <<a, b>> \in R /\ <<b, c>> \in R => <<a, c>> \in R
  BY <1>1, <1>3, Irreflexive, Transitive, Total
<1>5. ASSUME NEW a \in S
      PROVE  {b \in S : <<b, a>> \in R} = {b \in S : ComparePlanned(b, a)}
  BY <1>3
<1>6. PICK s : s = Candidates(sight)
  OBVIOUS
<1>7. s = [i \in 1 .. n |-> CHOOSE a \in S : Cardinality({b \in S : ComparePlanned(b, a)}) = i - 1]
  BY <1>1, <1>6 DEF Candidates
<1>8. ASSUME NEW i \in 1 .. n
      PROVE  s[i] \in S /\ Cardinality({b \in S : <<b, s[i]>> \in R}) = i - 1
  <2>1. \E a \in S : Cardinality({b \in S : <<b, a>> \in R}) = i - 1
    <3>1. i \in 1 .. Cardinality(S)
      BY <1>1
    <3> QED BY <1>2, <1>4, <3>1, RanksFill
  <2>2. \E a \in S : Cardinality({b \in S : ComparePlanned(b, a)}) = i - 1
    BY <1>5, <2>1
  <2>3. s[i] \in S /\ Cardinality({b \in S : ComparePlanned(b, s[i])}) = i - 1
    BY <1>7, <2>2
  <2> QED BY <1>5, <2>3
<1>9. s \in Seq(S) /\ Len(s) = n
  <2> DEFINE Ith(i) == CHOOSE a \in S : Cardinality({b \in S : ComparePlanned(b, a)}) = i - 1
  <2>3. s = [i \in 1 .. n |-> Ith(i)]
    BY <1>7
  <2> HIDE DEF Ith
  <2>1. s = [i \in 1 .. n |-> s[i]]
    BY <2>3
  <2>2. s \in [1 .. n -> S]
    BY <1>8, <2>1
  <2> QED BY <1>1, <2>2
<1>10. ASSUME NEW i \in 1 .. n, NEW j \in 1 .. n, i < j PROVE ComparePlanned(s[i], s[j])
  <2>1. PICK A, B : A = {b \in S : <<b, s[i]>> \in R} /\ B = {b \in S : <<b, s[j]>> \in R}
    OBVIOUS
  <2>2. Cardinality(A) = i - 1 /\ Cardinality(B) = j - 1
    BY <1>8, <2>1
  <2>3. IsFiniteSet(A)
    BY <1>2, <2>1, FS_Subset
  <2>4. s[i] # s[j]
    <3>1. s[i] = s[j] => A = B
      BY <2>1
    <3>2. i - 1 # j - 1
      BY <1>10
    <3> QED BY <2>2, <3>1, <3>2
  <2>5. ~(<<s[j], s[i]>> \in R)
    <3>1. SUFFICES ASSUME <<s[j], s[i]>> \in R PROVE FALSE
      OBVIOUS
    <3>2. B \in SUBSET A
      BY <1>4, <1>8, <2>1, <3>1
    <3>3. Cardinality(B) <= Cardinality(A)
      BY <2>3, <3>2, FS_Subset
    <3> QED BY <1>10, <2>2, <3>3
  <2>6. <<s[i], s[j]>> \in R
    BY <1>4, <1>8, <2>4, <2>5
  <2> QED BY <1>3, <1>8, <2>6
<1> QED BY <1>1, <1>6, <1>9, <1>10 DEF Sorted

(* The recursion of overnightPlan has a solution.                          *)
Uses(u, minutes, capacity, n) ==
  u = [i \in 0 .. n |->
         IF i = 0 THEN 0
         ELSE u[i - 1] + (IF Fits(u[i - 1], minutes[i], capacity) THEN minutes[i] ELSE 0)]

LEMMA UsedExists ==
  ASSUME NEW minutes, NEW capacity, NEW n \in Nat PROVE \E u : Uses(u, minutes, capacity, n)
<1> DEFINE T == {k \in Nat : ~ \E u : Uses(u, minutes, capacity, k)}
<1>1. SUFFICES ASSUME n \in T PROVE FALSE
  OBVIOUS
<1>2. PICK k \in T : \A m \in T : k <= m
  BY <1>1, LeastNumber
<1>3. CASE k = 0
  <2>1. PICK u : u = [i \in 0 .. 0 |-> 0]
    OBVIOUS
  <2>2. Uses(u, minutes, capacity, 0)
    BY <2>1 DEF Uses
  <2> QED BY <1>2, <1>3, <2>2
<1>4. CASE k # 0
  <2>1. k - 1 \in Nat /\ k - 1 \notin T
    BY <1>2, <1>4
  <2>2. PICK u : Uses(u, minutes, capacity, k - 1)
    BY <2>1
  <2>3. PICK last : last = u[k - 1] + (IF Fits(u[k - 1], minutes[k], capacity) THEN minutes[k] ELSE 0)
    OBVIOUS
  <2>4. PICK v : v = [i \in 0 .. k |-> IF i = k THEN last ELSE u[i]]
    OBVIOUS
  <2>5. \A i \in 0 .. k - 1 : v[i] = u[i]
    BY <1>2, <2>4
  <2>6. ASSUME NEW i \in 0 .. k
        PROVE  v[i] = IF i = 0 THEN 0
                      ELSE v[i - 1] + (IF Fits(v[i - 1], minutes[i], capacity) THEN minutes[i] ELSE 0)
    <3>1. CASE i = k
      <4>1. v[i - 1] = u[k - 1] /\ v[i] = last /\ i # 0
        BY <1>2, <1>4, <2>4, <2>5, <3>1
      <4> QED BY <2>3, <3>1, <4>1
    <3>2. CASE i # k
      <4>1. i \in 0 .. k - 1 /\ (i # 0 => i - 1 \in 0 .. k - 1)
        BY <1>2, <3>2
      <4>2. u[i] = IF i = 0 THEN 0
                   ELSE u[i - 1] + (IF Fits(u[i - 1], minutes[i], capacity) THEN minutes[i] ELSE 0)
        BY <2>2, <4>1 DEF Uses
      <4> QED BY <2>5, <4>1, <4>2
    <3> QED BY <3>1, <3>2
  <2>7. Uses(v, minutes, capacity, k)
    BY <2>4, <2>6 DEF Uses
  <2> QED BY <1>2, <2>7
<1> QED BY <1>3, <1>4

LEMMA UsedIs ==
  ASSUME NEW minutes, NEW capacity \in Nat, NEW n \in Nat, \A i \in 1 .. n : minutes[i] \in Nat,
         NEW u, Uses(u, minutes, capacity, n)
  PROVE  /\ \A i \in 0 .. n : u[i] \in Nat
         /\ \A i \in 0 .. n, j \in 0 .. n : i <= j => u[i] <= u[j]
         /\ \A i \in 1 .. n :
              u[i] = u[i - 1] + (IF Fits(u[i - 1], minutes[i], capacity) THEN minutes[i] ELSE 0)
<1>1. /\ u[0] = 0
      /\ \A i \in 1 .. n :
           u[i] = u[i - 1] + (IF Fits(u[i - 1], minutes[i], capacity) THEN minutes[i] ELSE 0)
  BY DEF Uses
<1>2. \A i \in 0 .. n : u[i] \in Nat
  <2> DEFINE T == {i \in 0 .. n : u[i] \notin Nat}
  <2>1. SUFFICES ASSUME T # {} PROVE FALSE
    OBVIOUS
  <2>6. T \in SUBSET Nat
    OBVIOUS
  <2>2. PICK k \in T : \A m \in T : k <= m
    BY <2>1, <2>6, LeastNumber
  <2>3. k \in 1 .. n /\ k - 1 \in 0 .. n /\ k - 1 \notin T
    BY <1>1, <2>2
  <2>4. u[k - 1] \in Nat
    BY <2>3
  <2>5. u[k] \in Nat
    BY <1>1, <2>3, <2>4
  <2> QED BY <2>5
<1>3. ASSUME NEW i \in 0 .. n, NEW j \in 0 .. n, i <= j PROVE u[i] <= u[j]
  <2> DEFINE T == {k \in 0 .. n : i <= k /\ ~(u[i] <= u[k])}
  <2>1. SUFFICES ASSUME T # {} PROVE FALSE
    BY <1>3
  <2>8. T \in SUBSET Nat
    OBVIOUS
  <2>2. PICK k \in T : \A m \in T : k <= m
    BY <2>1, <2>8, LeastNumber
  <2>3. k # i
    BY <1>2, <2>2
  <2>4. k \in 1 .. n /\ k - 1 \in 0 .. n /\ k - 1 \notin T /\ i <= k - 1
    BY <2>2, <2>3
  <2>5. u[i] <= u[k - 1] /\ u[k - 1] \in Nat /\ u[k] \in Nat /\ u[i] \in Nat /\ minutes[k] \in Nat
    BY <1>2, <2>4
  <2>6. u[k - 1] <= u[k]
    BY <1>1, <2>4, <2>5
  <2>7. u[i] <= u[k]
    BY <2>5, <2>6
  <2> QED BY <2>2, <2>7
<1> QED BY <1>1, <1>2, <1>3

LEMMA MinutesAre ==
  ASSUME NEW sight, NEW a \in Autonomous(sight) PROVE EstimateMinutes(a) \in Nat
<1>1. PICK t \in Nat : t = a.timeout
  BY KeysAre
<1>2. (t + 9) \div 10 \in Nat
  BY <1>1
<1> QED BY <1>1, <1>2 DEF EstimateMinutes, AtMost, AtLeast

(* The scheduled actions of a plan run one after the other inside the      *)
(* night, and one is left out only when it does not fit.                   *)
Kept(plan, hours) ==
  LET Ends(i) == plan[i].start + plan[i].minutes
      Capacity == BoundedHours(hours) * 60
      Taken == {i \in 1 .. Len(plan) : plan[i].scheduled} IN
    \A i \in 1 .. Len(plan) :
      IF i \in Taken
        THEN Ends(i) <= Capacity /\ \A j \in Taken : j < i => Ends(j) <= plan[i].start
        ELSE Ends(i) > Capacity
             /\ \A j \in Taken : i < j => plan[j].minutes < plan[i].minutes

LEMMA PlansAreKept ==
  ASSUME NEW sight, NEW hours \in Nat PROVE Kept(OvernightActions(sight, hours), hours)
<1>1. PICK queue, n, capacity, minutes :
        /\ queue = Candidates(sight) /\ n = Len(queue) /\ capacity = BoundedHours(hours) * 60
        /\ minutes = [i \in 1 .. n |-> EstimateMinutes(queue[i])]
  OBVIOUS
<1>2. queue \in Seq(Autonomous(sight)) /\ n \in Nat
  BY <1>1, CandidatesAre
<1>3. \A i \in 1 .. n : queue[i] \in Autonomous(sight)
  BY <1>1, <1>2
<1>4. \A i \in 1 .. n : minutes[i] = EstimateMinutes(queue[i]) /\ minutes[i] \in Nat
  BY <1>1, <1>3, MinutesAre
<1>5. capacity \in Nat
  <2>1. BoundedHours(hours) \in Nat
    BY DEF BoundedHours, AtMost
  <2> QED BY <1>1, <2>1
<1>6. PICK u : /\ Uses(u, minutes, capacity, n)
               /\ u = CHOOSE used :
                   used = [i \in 0 .. n |->
                             IF i = 0 THEN 0
                             ELSE used[i - 1] + (IF Fits(used[i - 1], EstimateMinutes(queue[i]), capacity)
                                                 THEN EstimateMinutes(queue[i]) ELSE 0)]
  <2>1. PICK v : Uses(v, minutes, capacity, n)
    BY <1>2, UsedExists
  <2>2. \A w : Uses(w, minutes, capacity, n) <=>
                 w = [i \in 0 .. n |->
                             IF i = 0 THEN 0
                             ELSE w[i - 1] + (IF Fits(w[i - 1], EstimateMinutes(queue[i]), capacity)
                                                 THEN EstimateMinutes(queue[i]) ELSE 0)]
    BY <1>2, <1>4 DEF Uses
  <2> QED BY <2>1, <2>2
<1>7. PICK plan : plan = OvernightActions(sight, hours)
  OBVIOUS
<1>8. plan = [i \in 1 .. n |->
                [action |-> queue[i], start |-> u[i - 1], minutes |-> EstimateMinutes(queue[i]),
                 scheduled |-> Fits(u[i - 1], EstimateMinutes(queue[i]), capacity)]]
  BY <1>1, <1>6, <1>7 DEF OvernightActions
<1>9. /\ \A i \in 0 .. n : u[i] \in Nat
      /\ \A i \in 0 .. n, j \in 0 .. n : i <= j => u[i] <= u[j]
      /\ \A i \in 1 .. n :
           u[i] = u[i - 1] + (IF Fits(u[i - 1], minutes[i], capacity) THEN minutes[i] ELSE 0)
  <2>1. n \in Nat /\ (\A i \in 1 .. n : minutes[i] \in Nat) /\ Uses(u, minutes, capacity, n)
    BY <1>2, <1>4, <1>6
  <2> QED BY <1>5, <2>1, UsedIs
<1>10. Len(plan) = n
  BY <1>2, <1>8
<1>11. ASSUME NEW i \in 1 .. n
       PROVE  /\ plan[i].start = u[i - 1] /\ plan[i].minutes = minutes[i]
              /\ plan[i].scheduled <=> u[i - 1] + minutes[i] <= capacity
              /\ u[i - 1] \in Nat /\ u[i] \in Nat /\ minutes[i] \in Nat
              /\ plan[i].scheduled => u[i] = u[i - 1] + minutes[i]
  <2>1. i - 1 \in 0 .. n /\ i \in 0 .. n
    BY <1>2
  <2>2. u[i - 1] \in Nat /\ u[i] \in Nat /\ minutes[i] \in Nat /\ minutes[i] = EstimateMinutes(queue[i])
    BY <1>4, <1>9, <2>1
  <2>3. /\ plan[i].start = u[i - 1] /\ plan[i].minutes = minutes[i]
        /\ plan[i].scheduled = Fits(u[i - 1], minutes[i], capacity)
    BY <1>8, <2>2
  <2>4. u[i] = u[i - 1] + (IF Fits(u[i - 1], minutes[i], capacity) THEN minutes[i] ELSE 0)
    BY <1>9
  <2> QED BY <2>2, <2>3, <2>4 DEF Fits
<1>12. ASSUME NEW i \in 1 .. n, plan[i].scheduled
       PROVE  /\ plan[i].start + plan[i].minutes <= capacity
              /\ \A j \in 1 .. n : plan[j].scheduled /\ j < i =>
                   plan[j].start + plan[j].minutes <= plan[i].start
  <2>1. ASSUME NEW j \in 1 .. n, plan[j].scheduled, j < i
        PROVE  plan[j].start + plan[j].minutes <= plan[i].start
    <3>1. u[j] <= u[i - 1]
      BY <1>2, <1>9, <2>1
    <3> QED BY <1>11, <2>1, <3>1
  <2> QED BY <1>11, <1>12, <2>1
<1>13. ASSUME NEW i \in 1 .. n, ~plan[i].scheduled
       PROVE  /\ plan[i].start + plan[i].minutes > capacity
              /\ \A j \in 1 .. n : plan[j].scheduled /\ i < j => plan[j].minutes < plan[i].minutes
  <2>1. ASSUME NEW j \in 1 .. n, plan[j].scheduled, i < j
        PROVE  plan[j].minutes < plan[i].minutes
    <3>1. u[i - 1] <= u[j - 1]
      BY <1>2, <1>9, <2>1
    <3>2. u[j - 1] + minutes[j] <= capacity /\ ~(u[i - 1] + minutes[i] <= capacity)
      BY <1>11, <1>13, <2>1
    <3>3. minutes[j] < minutes[i]
      BY <1>5, <1>11, <3>1, <3>2
    <3> QED BY <1>11, <3>3
  <2> QED BY <1>5, <1>11, <1>13, <2>1
<1>14. Kept(plan, hours)
  BY <1>1, <1>10, <1>12, <1>13 DEF Kept
<1> QED BY <1>7, <1>14

-----------------------------------------------------------------------------
(* A night keeps its hours, and the plan it made for them.                 *)

PlanOK(plan, hours) ==
  hours \in Nat /\ (plan = <<>> \/ \E sight \in Sights : plan = OvernightActions(sight, hours))

PlanInv == \A o \in Operators : PlanOK(night[o].plan, night[o].hours)

LEMMA PlanStays ==
  ASSUME AccountInv, PlanInv, NEW o \in Operators, NEW x, NEW y, NEW z,
         \/ night' = [night EXCEPT ![o].at = x]
         \/ night' = [night EXCEPT ![o].automated = x]
         \/ night' = [night EXCEPT ![o].manual = x]
         \/ night' = [night EXCEPT ![o].graphs = x]
         \/ night' = [night EXCEPT ![o].at = x, ![o].shift = y, ![o].skipped = z]
  PROVE  PlanInv'
<1>1. night = [q \in Operators |-> night[q]] /\ \A q \in Operators : IsNight(night[q])
  BY DEF AccountInv, AccountTyped
<1>2. PICK n : /\ \/ n = [night[o] EXCEPT !.at = x]
                  \/ n = [night[o] EXCEPT !.automated = x]
                  \/ n = [night[o] EXCEPT !.manual = x]
                  \/ n = [night[o] EXCEPT !.graphs = x]
                  \/ n = [night[o] EXCEPT !.at = x, !.shift = y, !.skipped = z]
               /\ night' = [night EXCEPT ![o] = n]
  BY <1>1
<1>3. n.plan = night[o].plan /\ n.hours = night[o].hours
  BY <1>1, <1>2 DEF IsNight
<1>4. \A q \in Operators : night'[q].plan = night[q].plan /\ night'[q].hours = night[q].hours
  BY <1>1, <1>2, <1>3
<1> QED BY <1>4 DEF PlanInv

LEMMA PlanMade ==
  ASSUME AccountInv, PlanInv, NEW o \in Operators, NEW n, PlanOK(n.plan, n.hours),
         night' = [night EXCEPT ![o] = n]
  PROVE  PlanInv'
<1>1. night = [q \in Operators |-> night[q]]
  BY DEF AccountInv, AccountTyped
<1>2. \A q \in Operators : night'[q] = IF q = o THEN n ELSE night[q]
  BY <1>1
<1> QED BY <1>2 DEF PlanInv

LEMMA PlanStarts ==
  ASSUME AccountInv, PlanInv, NEW o \in Operators, NEW mode, NEW limit, NEW hours \in Hours,
         StartNight(o, mode, limit, hours)
  PROVE  PlanInv'
<1>1. PICK start : start = [NoNight EXCEPT !.at = "preflight", !.mode = mode, !.limit = limit,
                                           !.hours = hours]
  OBVIOUS
<1>2. start.plan = <<>> /\ start.hours = hours /\ hours \in Nat
  BY <1>1, HoursAssumption DEF NoNight
<1>3. PICK n : night' = [night EXCEPT ![o] = n] /\ n.plan = <<>> /\ n.hours = hours
  <2>1. CASE mode \in {"dry enqueue", "dry run"}
    <3>1. DryPreflight(o, start)
      BY <1>1, <2>1 DEF StartNight
    <3>2. PICK a, m : night' = [night EXCEPT ![o] = [start EXCEPT !.at = "plan", !.automated = a,
                                                                  !.manual = m]]
      BY <3>1 DEF DryPreflight
    <3>3. PICK n : n = [start EXCEPT !.at = "plan", !.automated = a, !.manual = m]
      OBVIOUS
    <3>4. n.plan = <<>> /\ n.hours = hours
      BY <1>1, <1>2, <3>3 DEF NoNight
    <3> QED BY <3>2, <3>3, <3>4
  <2>2. CASE mode \notin {"dry enqueue", "dry run"}
    <3>1. night' = [night EXCEPT ![o] = start]
      BY <1>1, <2>2 DEF StartNight
    <3> QED BY <1>2, <3>1
  <2> QED BY <2>1, <2>2
<1>4. PlanOK(n.plan, n.hours)
  BY <1>2, <1>3 DEF PlanOK
<1> QED BY <1>3, <1>4, PlanMade

LEMMA PlanNext ==
  ASSUME AccountInv, PlanInv, [OvernightNext]_overnightVars
  PROVE  PlanInv'
<1>1. CASE UNCHANGED night
  BY <1>1 DEF PlanInv
<1>2. ASSUME NEW o \in Operators, NightStep(o) PROVE PlanInv'
  <2>1. ASSUME NEW mode \in budget.modes, NEW limit \in budget.limits, NEW hours \in Hours,
               StartNight(o, mode, limit, hours)
        PROVE  PlanInv'
    BY <2>1, PlanStarts
  <2>2. ASSUME NEW c \in Commands, RequeueItem(o, c) \/ LeaveItem(o, c) PROVE PlanInv'
    BY <2>2, PlanStays DEF RequeueItem, LeaveItem
  <2>3. CASE SweepRead(o) \/ FinishSweep(o)
    <3>1. PICK x : night' = [night EXCEPT ![o].at = x]
      BY <2>3 DEF SweepRead, FinishSweep, At
    <3> QED BY <3>1, PlanStays
  <2>4. ASSUME NEW sight \in Sights, Plan(o, sight) PROVE PlanInv'
    <3>1. PICK plan : plan = OvernightActions(sight, night[o].hours)
      OBVIOUS
    <3>2. PICK n : n = [night[o] EXCEPT !.at = "compile", !.plan = plan]
      OBVIOUS
    <3>3. night = [q \in Operators |-> night[q]] /\ IsNight(night[o])
      BY DEF AccountInv, AccountTyped
    <3>4. night' = [night EXCEPT ![o] = n]
      BY <2>4, <3>1, <3>2, <3>3 DEF Plan
    <3>5. n.plan = plan /\ n.hours = night[o].hours /\ night[o].hours \in Nat
      BY <3>2, <3>3 DEF IsNight, PlanInv, PlanOK
    <3>6. PlanOK(n.plan, n.hours)
      BY <3>1, <3>5 DEF PlanOK
    <3> QED BY <3>4, <3>6, PlanMade
  <2>5. CASE CompileNext(o)
    <3>1. PICK x : night' = [night EXCEPT ![o].graphs = x]
      BY <2>5, Zenon DEF CompileNext
    <3> QED BY <3>1, PlanStays
  <2>6. CASE TellEnqueued(o) \/ StartOwnShift(o) \/ TellRun(o)
    <3>1. PICK x : night' = [night EXCEPT ![o].at = x]
      BY <2>6 DEF TellEnqueued, StartOwnShift, TellRun, At
    <3> QED BY <3>1, PlanStays
  <2> QED BY <1>2, <2>1, <2>2, <2>3, <2>4, <2>5, <2>6 DEF NightStep
<1>3. ASSUME NEW o \in Operators, SweepingNightDies(o) \/ NightDies(o) PROVE PlanInv'
  <2>1. night' = [night EXCEPT ![o].at = "dead"]
    BY <1>3 DEF SweepingNightDies, NightDies, At
  <2> QED BY <2>1, PlanStays
<1>4. ASSUME NEW p \in ShiftProcesses, EndShift(p) PROVE PlanInv'
  <2>1. CASE p = Launchd
    BY <1>1, <1>4, <2>1 DEF EndShift
  <2>2. CASE p # Launchd
    <3>1. p \in Operators
      BY <2>2 DEF ShiftProcesses
    <3>2. PICK x, y, z : night' = [night EXCEPT ![p].at = x, ![p].shift = y, ![p].skipped = z]
      BY <1>4, <2>2 DEF EndShift
    <3> QED BY <3>1, <3>2, PlanStays
  <2> QED BY <2>1, <2>2
<1>5. ASSUME NEW p \in ShiftProcesses, ShiftStep(p) PROVE PlanInv'
  BY <1>1, <1>4, <1>5 DEF ShiftStep, TakeFile, RouteFile, TellOutcome
<1>6. CASE UNCHANGED overnightVars
  BY <1>1, <1>6 DEF overnightVars, nightVars
<1>7. CASE OtherStoreStep /\ UNCHANGED <<sweep, nightVars>>
  BY <1>1, <1>7 DEF nightVars
<1>8. ASSUME NEW c \in Commands, NEW k \in Classes, SubmitOne(c, k) PROVE PlanInv'
  BY <1>1, <1>8 DEF SubmitOne
<1>9. ASSUME NEW content \in HandGraphs, EnqueueByHand(content) PROVE PlanInv'
  BY <1>1, <1>9 DEF EnqueueByHand
<1>10. CASE StartLaunchdShift \/ ShiftDies
  BY <1>1, <1>10 DEF StartLaunchdShift, ShiftDies
<1> QED BY <1>2, <1>3, <1>5, <1>6, <1>7, <1>8, <1>9, <1>10 DEF OvernightNext

(* Every plan a night ever works off packs the night: the scheduled        *)
(* actions run one after the other inside it, and one is left out only     *)
(* when it does not fit beside those before it.                            *)
THEOREM PlanAlwaysKept == OvernightSpec => []PlanIsKept
<1>1. OvernightInit => PlanInv
  BY DEF OvernightInit, PlanInv, PlanOK, NoNight
<1>2. PlanInv => PlanIsKept
  <2>1. \A plan, hours : PlanOK(plan, hours) => Kept(plan, hours)
    <3>1. ASSUME NEW plan, NEW hours, PlanOK(plan, hours) PROVE Kept(plan, hours)
      <4>1. CASE plan = <<>>
        BY <4>1 DEF Kept
      <4>2. CASE plan # <<>>
        BY <3>1, <4>2, PlansAreKept DEF PlanOK
      <4> QED BY <4>1, <4>2
    <3> QED BY <3>1
  <2> QED BY <2>1 DEF PlanInv, PlanIsKept, Kept
<1>3. AccountInv /\ PlanInv /\ [OvernightNext]_overnightVars => PlanInv'
  BY PlanNext
<1> QED BY <1>1, <1>2, <1>3, AccountsHold, PTL DEF OvernightSpec

-----------------------------------------------------------------------------
(* Counting.                                                               *)

LEMMA Injects ==
  ASSUME NEW S, NEW T, IsFiniteSet(T), NEW m, \A x \in S : m[x] \in T,
         \A x, y \in S : m[x] = m[y] => x = y
  PROVE  /\ IsFiniteSet(S) /\ Cardinality(S) \in Nat /\ Cardinality(T) \in Nat
         /\ Cardinality(S) <= Cardinality(T)
<1>1. PICK f : f = [x \in S |-> m[x]]
  OBVIOUS
<1>2. f \in Injection(S, T)
  BY <1>1 DEF Injection, IsInjective
<1> QED BY <1>2, FS_Injection, FS_CardinalityType

LEMMA Matches ==
  ASSUME NEW S, NEW T, IsFiniteSet(S), NEW m, \A x \in S : m[x] \in T,
         \A x, y \in S : m[x] = m[y] => x = y, \A y \in T : \E x \in S : m[x] = y
  PROVE  IsFiniteSet(T) /\ Cardinality(T) = Cardinality(S) /\ Cardinality(S) \in Nat
<1>1. PICK f : f = [x \in S |-> m[x]]
  OBVIOUS
<1>2. f \in Injection(S, T) /\ f \in Surjection(S, T)
  BY <1>1 DEF Injection, Surjection, IsInjective
<1>3. ExistsBijection(S, T)
  BY <1>2 DEF ExistsBijection, Bijection
<1> QED BY <1>3, FS_Bijection, FS_CardinalityType

(* Amounts that are the sizes of disjoint sets add up to their union.      *)
LEMMA SumsUp ==
  ASSUME NEW I, IsFiniteSet(I), NEW n, NEW P,
         \A i \in I : IsFiniteSet(P[i]) /\ Cardinality(P[i]) = n[i],
         \A i, j \in I : \A x : x \in P[i] /\ x \in P[j] => i = j
  PROVE  Cardinality(UNION {{i} \X (1 .. n[i]) : i \in I}) = Cardinality(UNION {P[i] : i \in I})
<1>1. ASSUME NEW i \in I PROVE n[i] \in Nat /\ \E b : b \in Bijection(1 .. n[i], P[i])
  BY FS_CardinalityType DEF ExistsBijection
<1>2. PICK c : c = [i \in I |-> CHOOSE b : b \in Bijection(1 .. n[i], P[i])]
  OBVIOUS
<1>3. ASSUME NEW i \in I
      PROVE  /\ \A k \in 1 .. n[i] : c[i][k] \in P[i]
             /\ \A k, l \in 1 .. n[i] : c[i][k] = c[i][l] => k = l
             /\ \A x \in P[i] : \E k \in 1 .. n[i] : c[i][k] = x
  <2>1. c[i] \in Bijection(1 .. n[i], P[i])
    BY <1>1, <1>2
  <2> QED BY <2>1 DEF Bijection, Injection, Surjection, IsInjective
<1>4. PICK A, B : A = UNION {{i} \X (1 .. n[i]) : i \in I} /\ B = UNION {P[i] : i \in I}
  OBVIOUS
<1>5. IsFiniteSet(B)
  <2>1. IsFiniteSet({P[i] : i \in I})
    BY ImageFinite
  <2>2. \A T \in {P[i] : i \in I} : IsFiniteSet(T)
    OBVIOUS
  <2> QED BY <1>4, <2>1, <2>2, FS_UNION
<1>6. ASSUME NEW x \in A PROVE \E i \in I : \E k \in 1 .. n[i] : x = <<i, k>>
  BY <1>4
<1>7. \A i \in I : \A k \in 1 .. n[i] : <<i, k>> \in A
  BY <1>4
<1>8. PICK m : m = [x \in A |-> c[x[1]][x[2]]]
  OBVIOUS
<1>9. ASSUME NEW i \in I, NEW k \in 1 .. n[i] PROVE m[<<i, k>>] = c[i][k]
  BY <1>7, <1>8
<1>10. \A x \in A : m[x] \in B
  <2>1. ASSUME NEW x \in A PROVE m[x] \in B
    <3>1. PICK i \in I : \E k \in 1 .. n[i] : x = <<i, k>>
      BY <1>6
    <3>2. m[x] \in P[i]
      BY <1>3, <1>9, <3>1
    <3> QED BY <1>4, <3>2
  <2> QED BY <2>1
<1>11. \A x, y \in A : m[x] = m[y] => x = y
  <2>1. ASSUME NEW x \in A, NEW y \in A, m[x] = m[y] PROVE x = y
    <3>1. PICK i \in I : \E k \in 1 .. n[i] : x = <<i, k>>
      BY <1>6
    <3>2. PICK j \in I : \E l \in 1 .. n[j] : y = <<j, l>>
      BY <1>6
    <3>6. PICK k \in 1 .. n[i] : x = <<i, k>>
      BY <3>1
    <3>7. PICK l \in 1 .. n[j] : y = <<j, l>>
      BY <3>2
    <3>3. m[x] = c[i][k] /\ m[y] = c[j][l] /\ c[i][k] \in P[i] /\ c[j][l] \in P[j]
      BY <1>3, <1>9, <3>6, <3>7
    <3>4. i = j
      BY <2>1, <3>3
    <3>5. k = l
      BY <1>3, <2>1, <3>3, <3>4
    <3> QED BY <3>4, <3>5, <3>6, <3>7
  <2> QED BY <2>1
<1>12. \A y \in B : \E x \in A : m[x] = y
  <2>1. ASSUME NEW y \in B PROVE \E x \in A : m[x] = y
    <3>1. PICK i \in I : y \in P[i]
      BY <1>4
    <3>2. PICK k \in 1 .. n[i] : c[i][k] = y
      BY <1>3, <3>1
    <3> QED BY <1>7, <1>9, <3>2
  <2> QED BY <2>1
<1>13. IsFiniteSet(A)
  BY <1>5, <1>10, <1>11, Injects
<1>14. Cardinality(B) = Cardinality(A)
  <2>1. m \in Bijection(A, B)
    BY <1>8, <1>10, <1>11, <1>12 DEF Bijection, Injection, Surjection, IsInjective
  <2> QED BY <1>13, <2>1, FS_Bijection DEF ExistsBijection
<1> QED BY <1>4, <1>14

(* Amounts are finitely many pairs of numbers.                             *)
LEMMA AmountsFinite ==
  ASSUME NEW I \in SUBSET Nat, IsFiniteSet(I), NEW n, \A i \in I : n[i] \in Nat
  PROVE  LET A == UNION {{i} \X (1 .. n[i]) : i \in I} IN
           IsFiniteSet(A) /\ A \subseteq Nat \X Nat
<1>1. PICK m : m = [i \in I |-> {i} \X (1 .. n[i])]
  OBVIOUS
<1>2. IsFiniteSet({m[i] : i \in I})
  BY ImageFinite
<1>3. \A T \in {m[i] : i \in I} : IsFiniteSet(T)
  <2>1. ASSUME NEW i \in I PROVE IsFiniteSet({i} \X (1 .. n[i]))
    <3>1. IsFiniteSet(1 .. n[i]) /\ IsFiniteSet({i})
      <4>1. PICK k \in Int : k = n[i]
        OBVIOUS
      <4>2. IsFiniteSet(1 .. k)
        BY FS_Interval
      <4> QED BY <4>1, <4>2, FS_Singleton
    <3> QED BY <3>1, FS_Product
  <2> QED BY <1>1, <2>1
<1>4. IsFiniteSet(UNION {m[i] : i \in I})
  BY <1>2, <1>3, FS_UNION
<1>5. {m[i] : i \in I} = {{i} \X (1 .. n[i]) : i \in I}
  BY <1>1
<1>6. UNION {{i} \X (1 .. n[i]) : i \in I} \subseteq Nat \X Nat
  OBVIOUS
<1> QED BY <1>4, <1>5, <1>6

-----------------------------------------------------------------------------
(* The newest items.                                                       *)

LEMMA NewestOf ==
  ASSUME NEW A \in SUBSET (Nat \X Nat), IsFiniteSet(A), Cardinality(A) >= MaxShown
  PROVE  Cardinality(Newest(A)) = MaxShown
<1>1. PICK n \in Nat : n = Cardinality(A)
  BY FS_CardinalityType
<1>2. PICK R : R = {p \in A \X A : Newer(p[1], p[2])}
  OBVIOUS
<1>3. \A a, b \in A : <<a, b>> \in R <=> Newer(a, b)
  BY <1>2
<1>4. ASSUME NEW a \in A PROVE {b \in A : <<b, a>> \in R} = {b \in A : Newer(b, a)}
  BY <1>3
<1>5. PICK f : f = [a \in A |-> Cardinality({b \in A : Newer(b, a)}) + 1]
  OBVIOUS
<1>6. ASSUME NEW a \in A
      PROVE  f[a] \in 1 .. n /\ f[a] = Cardinality({b \in A : Newer(b, a)}) + 1
             /\ Cardinality({b \in A : Newer(b, a)}) \in Nat
  <2>1. PICK B : B = {b \in A : Newer(b, a)}
    OBVIOUS
  <2>2. B \in SUBSET A /\ a \notin B
    <3>1. a[1] \in Nat /\ a[2] \in Nat
      OBVIOUS
    <3> QED BY <2>1, <3>1 DEF Newer
  <2>3. Cardinality(B) \in Nat /\ Cardinality(B) <= n /\ Cardinality(B) # n
    BY <1>1, <2>2, FS_Subset, FS_CardinalityType
  <2> QED BY <1>5, <2>1, <2>3
<1>7. f \in Surjection(A, 1 .. n)
  <2>1. ASSUME NEW i \in 1 .. n PROVE \E a \in A : f[a] = i
    <3>1. \A a \in A : <<a, a>> \notin R
      BY <1>3 DEF Newer
    <3>2. ASSUME NEW a \in A, NEW b \in A, a # b PROVE <<a, b>> \in R \/ <<b, a>> \in R
      <4>1. a = <<a[1], a[2]>> /\ b = <<b[1], b[2]>> /\ a[1] \in Nat /\ a[2] \in Nat
            /\ b[1] \in Nat /\ b[2] \in Nat
        OBVIOUS
      <4>2. a[1] # b[1] \/ a[2] # b[2]
        BY <3>2, <4>1
      <4> QED BY <1>3, <4>1, <4>2 DEF Newer
    <3>3. ASSUME NEW a \in A, NEW b \in A, NEW c \in A, <<a, b>> \in R, <<b, c>> \in R
          PROVE  <<a, c>> \in R
      <4>1. a[1] \in Nat /\ a[2] \in Nat /\ b[1] \in Nat /\ b[2] \in Nat /\ c[1] \in Nat /\ c[2] \in Nat
        OBVIOUS
      <4> QED BY <1>3, <3>3, <4>1 DEF Newer
    <3>6. i \in 1 .. Cardinality(A)
      BY <1>1
    <3>4. PICK a \in A : Cardinality({b \in A : <<b, a>> \in R}) = i - 1
      BY <3>1, <3>2, <3>3, <3>6, RanksFill, SMTT(60)
    <3>5. f[a] = i - 1 + 1
      BY <1>4, <1>6, <3>4
    <3> QED BY <3>5
  <2> QED BY <1>5, <1>6, <2>1 DEF Surjection
<1>8. IsFiniteSet(1 .. n) /\ Cardinality(1 .. n) = n
  BY FS_Interval
<1>9. f \in Injection(A, 1 .. n)
  BY <1>1, <1>7, <1>8, FS_SurjSameCardinalityImpliesInj
<1>10. PICK S, T : S = Newest(A) /\ T = 1 .. MaxShown /\ S \subseteq A
  BY DEF Newest
<1>11. MaxShown \in Nat /\ IsFiniteSet(T) /\ Cardinality(T) = MaxShown
  BY <1>10, FS_Interval, BriefAssumption
<1>12. \A a \in A : a \in S <=> f[a] <= MaxShown
  <2>1. ASSUME NEW a \in A PROVE a \in S <=> f[a] <= MaxShown
    <3>1. a \in S <=> Cardinality({b \in A : Newer(b, a)}) < MaxShown
      BY <1>10 DEF Newest
    <3> QED BY <1>6, <1>11, <3>1
  <2> QED BY <2>1
<1>13. \A a \in S : f[a] \in T
  <2>1. ASSUME NEW a \in S PROVE f[a] \in T
    <3>1. a \in A /\ f[a] <= MaxShown
      BY <1>10, <1>12
    <3>2. f[a] \in 1 .. n
      BY <1>6, <3>1
    <3> QED BY <1>10, <1>11, <3>1, <3>2
  <2> QED BY <2>1
<1>14. \A a, b \in S : f[a] = f[b] => a = b
  BY <1>9, <1>10 DEF Injection, IsInjective
<1>15. \A i \in T : \E a \in S : f[a] = i
  <2>1. ASSUME NEW i \in T PROVE \E a \in S : f[a] = i
    <3>1. i \in 1 .. n /\ i <= MaxShown
      BY <1>1, <1>10, <1>11
    <3>2. PICK a \in A : f[a] = i
      BY <1>7, <3>1 DEF Surjection
    <3> QED BY <1>12, <3>1, <3>2
  <2> QED BY <2>1
<1>16. IsFiniteSet(S)
  BY <1>10, FS_Subset
<1>17. Cardinality(T) = Cardinality(S)
  BY <1>13, <1>14, <1>15, <1>16, Matches, ZenonT(30)
<1> QED BY <1>10, <1>11, <1>17

LEMMA NewestAmong ==
  ASSUME NEW U \in SUBSET (Nat \X Nat), IsFiniteSet(U), NEW x \in Nat \X Nat,
         Cardinality({y \in U : Newer(y, x)}) >= MaxShown
  PROVE  Cardinality({y \in Newest(U) : Newer(y, x)}) = MaxShown
<1>1. PICK A : A = {y \in U : Newer(y, x)}
  OBVIOUS
<1>2. IsFiniteSet(A) /\ A \in SUBSET (Nat \X Nat) /\ Cardinality(A) >= MaxShown
  BY <1>1, FS_Subset
<1>3. ASSUME NEW y \in A PROVE {z \in U : Newer(z, y)} = {z \in A : Newer(z, y)}
  <2>1. ASSUME NEW z \in U, Newer(z, y) PROVE Newer(z, x)
    <3>1. /\ Newer(y, x) /\ z[1] \in Nat /\ z[2] \in Nat /\ y[1] \in Nat /\ y[2] \in Nat
          /\ x[1] \in Nat /\ x[2] \in Nat
      BY <1>1
    <3> QED BY <2>1, <3>1 DEF Newer
  <2> QED BY <1>1, <2>1
<1>4. {y \in Newest(U) : Newer(y, x)} = Newest(A)
  BY <1>1, <1>3 DEF Newest
<1> QED BY <1>2, <1>4, NewestOf

(* A list shows the newest: it is full of newer items than any it lacks.   *)
ShowsNewest(shown, all) ==
  /\ shown \subseteq all
  /\ \A x \in all \ shown : Cardinality({y \in shown : Newer(y, x)}) = MaxShown

(* Two lists cut to their newest, merged and cut again.                    *)
LEMMA NewestMerged ==
  ASSUME NEW G \in SUBSET (Nat \X Nat), NEW D \in SUBSET (Nat \X Nat),
         IsFiniteSet(G), IsFiniteSet(D), NEW shown, shown = Newest(Newest(G) \cup Newest(D))
  PROVE  ShowsNewest(shown, G \cup D)
<1>1. PICK U : U = Newest(G) \cup Newest(D)
  OBVIOUS
<1>2. \A I : Newest(I) \subseteq I
  BY DEF Newest
<1>3. IsFiniteSet(Newest(G)) /\ IsFiniteSet(Newest(D))
  BY <1>2, FS_Subset
<1>4. IsFiniteSet(U) /\ U \in SUBSET (Nat \X Nat) /\ MaxShown \in Nat
  BY <1>1, <1>2, <1>3, FS_Union, BriefAssumption
<1>5. ASSUME NEW I \in {G, D, U}, NEW x \in I, x \notin Newest(I)
      PROVE  Cardinality({y \in I : Newer(y, x)}) >= MaxShown
  <2>1. IsFiniteSet({y \in I : Newer(y, x)})
    BY <1>4, FS_Subset
  <2>2. Cardinality({y \in I : Newer(y, x)}) \in Nat
    BY <2>1, FS_CardinalityType
  <2>3. ~(Cardinality({y \in I : Newer(y, x)}) < MaxShown)
    BY <1>5 DEF Newest
  <2> QED BY <1>4, <2>2, <2>3
<1>6. ASSUME NEW I \in {G, D}, NEW x \in I, x \notin Newest(I)
      PROVE  Cardinality({y \in U : Newer(y, x)}) >= MaxShown
  <2>1. Cardinality({y \in I : Newer(y, x)}) >= MaxShown
    BY <1>5, <1>6
  <2>2. Cardinality({y \in Newest(I) : Newer(y, x)}) = MaxShown
    BY <2>1, NewestAmong
  <2>3. PICK S, T : S = {y \in Newest(I) : Newer(y, x)} /\ T = {y \in U : Newer(y, x)}
    OBVIOUS
  <2>4. S \in SUBSET T /\ IsFiniteSet(T)
    BY <1>1, <1>4, <2>3, FS_Subset
  <2>5. Cardinality(S) <= Cardinality(T) /\ Cardinality(T) \in Nat
    BY <2>4, FS_Subset, FS_CardinalityType
  <2> QED BY <1>4, <2>2, <2>3, <2>5
<1>7. ASSUME NEW x \in G \cup D, x \notin shown
      PROVE  Cardinality({y \in shown : Newer(y, x)}) = MaxShown
  <2>1. Cardinality({y \in U : Newer(y, x)}) >= MaxShown
    <3>1. CASE x \in U
      BY <1>1, <1>5, <1>7, <3>1
    <3>2. CASE x \notin U
      <4>1. \/ x \in G /\ x \notin Newest(G)
            \/ x \in D /\ x \notin Newest(D)
        BY <1>1, <1>7, <3>2
      <4> QED BY <1>6, <4>1
    <3> QED BY <3>1, <3>2
  <2> QED BY <1>1, <1>4, <2>1, NewestAmong
<1> QED BY <1>1, <1>2, <1>7 DEF ShowsNewest

-----------------------------------------------------------------------------
(* The brief.  Every event of an outcome shows a file, each file once, and *)
(* the files that no event shows and no process is about to tell are as    *)
(* many as the processes that died; every event of a night repeats what    *)
(* the night compiled, and what it queued has its file for good.           *)

Shows(e) == \E f \in files : /\ f.graph = e.graph /\ f.dir = e.kind
                             /\ e.lane = EventLane(f.content) /\ e.name = f.content.name

Untold == {f \in files : /\ f.dir \in Outcomes
                         /\ \A i \in Told(Outcomes) : ledger[i].graph # f.graph}
Telling(g) == \E p \in ShiftProcesses : shift[p].at = "tell" /\ shift[p].graph = g
Lost == {f \in Untold : ~Telling(f.graph)}

OutcomeInv ==
  /\ crashes \in Nat
  /\ \A i \in Told(Outcomes) : Shows(ledger[i]) /\ ~Telling(ledger[i].graph)
  /\ \A i, j \in Told(Outcomes) : ledger[i].graph = ledger[j].graph => i = j
  /\ Cardinality(Lost) <= crashes

(* The graph its night compiled a file from.                               *)
Compiler(f) == night[f.graph[1]].graphs[f.graph[2]]

LaneInv ==
  /\ \A f \in files :
       f.graph[1] \in Operators =>
         Compiler(f).queued /\ f.content = NightContent(Compiler(f).lane)
  /\ \A o \in Operators : \A k \in Queued(night[o].graphs) : \E f \in files : f.graph = <<o, k>>
  /\ \A i \in Told(RunKinds) :
       /\ ledger[i].night \in Operators /\ night[ledger[i].night].at = "over"
       /\ ledger[i].lanes = LaneSummary(night[ledger[i].night].graphs)
  /\ \A i, j \in Told(RunKinds) : ledger[i].night = ledger[j].night => i = j
  /\ \A o \in Operators : night[o].at = "over" => \E i \in Told(RunKinds) : ledger[i].night = o

Present == {c \in Commands : status[c] # "absent"}

DebtInv ==
  /\ IsFiniteSet(Present)
  /\ \A o \in Operators : night[o].manual \in Nat
  /\ \A i \in Told(RunKinds) : ledger[i].manual \in Nat

(* One more event: what was told stays told.                               *)
LEMMA TellsOne ==
  ASSUME AccountInv, NEW e, ledger' = Append(ledger, e), NEW kinds
  PROVE  /\ Len(ledger) \in Nat /\ ledger'[Len(ledger) + 1] = e
         /\ \A i \in Told(kinds) : ledger'[i] = ledger[i] /\ i # Len(ledger) + 1
         /\ Told(kinds)' = Told(kinds) \cup (IF e.kind \in kinds THEN {Len(ledger) + 1} ELSE {})
<1>1. PICK n : n = Len(ledger)
  OBVIOUS
<1>2. IsSeq(ledger)
  BY DEF AccountInv, AccountTyped
<1>3. n \in Nat /\ Len(ledger') = n + 1 /\ ledger'[n + 1] = e
      /\ \A i \in 1 .. n : ledger'[i] = ledger[i]
  BY <1>1, <1>2, AppendIs
<1>4. 1 .. (n + 1) = (1 .. n) \cup {n + 1} /\ n + 1 \notin 1 .. n
  BY <1>3
<1>5. Told(kinds)' = {i \in 1 .. (n + 1) : ledger'[i].kind \in kinds}
  BY <1>3 DEF Told
<1>6. Told(kinds) = {i \in 1 .. n : ledger'[i].kind \in kinds}
  BY <1>1, <1>3 DEF Told
<1>7. Told(kinds)' = Told(kinds) \cup (IF e.kind \in kinds THEN {n + 1} ELSE {})
  BY <1>3, <1>4, <1>5, <1>6
<1> QED BY <1>1, <1>3, <1>4, <1>6, <1>7

-----------------------------------------------------------------------------
(* The outcomes.                                                           *)

LEMMA InitOutcomes == OvernightInit => OutcomeInv
<1> SUFFICES ASSUME OvernightInit PROVE OutcomeInv
  OBVIOUS
<1>1. Lost = {} /\ Told(Outcomes) = {} /\ crashes = 0
  BY EmptyIs DEF OvernightInit, PreflightInit, Init, Lost, Untold, Told
<1> QED BY <1>1, FS_EmptySet DEF OutcomeInv

LEMMA LostFinite == ASSUME AccountInv PROVE IsFiniteSet(Lost) /\ Cardinality(Lost) \in Nat
<1>1. Lost \in SUBSET files /\ IsFiniteSet(files)
  BY DEF AccountInv, FilesOK, Lost, Untold
<1> QED BY <1>1, FS_Subset, FS_CardinalityType

(* No file that has been told of is about to be told of, and none of them  *)
(* moves.                                                                  *)
LEMMA OutcomesStay ==
  ASSUME AccountInv, OutcomeInv,
         \A f \in files : f.dir \in Outcomes => f \in files',
         \A f \in files' : f.dir \in Outcomes => f \in files \/ Telling(f.graph)',
         \A g : Telling(g)' => Telling(g) \/ \A i \in Told(Outcomes) : ledger[i].graph # g,
         Told(Outcomes)' = Told(Outcomes), \A i \in Told(Outcomes) : ledger'[i] = ledger[i],
         \/ crashes' \in {crashes, crashes + 1} /\ \A g : Telling(g) => Telling(g)'
         \/ crashes' = crashes + 1 /\ \E x : \A g : Telling(g) /\ g # x => Telling(g)'
  PROVE  OutcomeInv'
<1>1. crashes \in Nat /\ crashes' \in Nat
  BY DEF OutcomeInv
<1>2. ASSUME NEW i \in Told(Outcomes) PROVE Shows(ledger[i])' /\ ~Telling(ledger[i].graph)'
  <2>1. PICK e : e = ledger[i] /\ e = ledger'[i]
    OBVIOUS
  <2>2. PICK f \in files : /\ f.graph = e.graph /\ f.dir = e.kind
                           /\ e.lane = EventLane(f.content) /\ e.name = f.content.name
    BY <2>1 DEF OutcomeInv, Shows
  <2>3. f \in files'
    BY <2>1, <2>2 DEF Told
  <2>4. Shows(e)'
    BY <2>2, <2>3 DEF Shows
  <2>5. PICK g : g = e.graph
    OBVIOUS
  <2>6. ~Telling(g)'
    BY <2>1, <2>5 DEF OutcomeInv
  <2> QED BY <2>1, <2>4, <2>5, <2>6 DEF Shows, Telling
<1>3. \A i, j \in Told(Outcomes) : ledger'[i].graph = ledger'[j].graph => i = j
  BY DEF OutcomeInv
<1>4. PICK L, M : L = Lost /\ M = Lost'
  OBVIOUS
<1>5. IsFiniteSet(L) /\ Cardinality(L) \in Nat /\ Cardinality(L) <= crashes
  BY <1>4, LostFinite DEF OutcomeInv
<1>6. ASSUME NEW f \in M
      PROVE  /\ f \in files /\ f.dir \in Outcomes /\ ~Telling(f.graph)'
             /\ \A i \in Told(Outcomes) : ledger[i].graph # f.graph
  BY <1>4 DEF Lost, Untold
<1>7. CASE crashes' \in {crashes, crashes + 1} /\ \A g : Telling(g) => Telling(g)'
  <2>1. \A f \in M : ~Telling(f.graph)
    BY <1>6, <1>7
  <2>2. M \in SUBSET L
    BY <1>4, <1>6, <2>1 DEF Lost, Untold
  <2>3. Cardinality(M) <= Cardinality(L) /\ Cardinality(M) \in Nat
    BY <1>5, <2>2, FS_Subset, FS_CardinalityType
  <2>4. Cardinality(M) <= crashes'
    BY <1>1, <1>5, <1>7, <2>3
  <2> QED BY <1>1, <1>2, <1>3, <1>4, <2>4 DEF OutcomeInv
<1>8. CASE crashes' = crashes + 1 /\ \E x : \A g : Telling(g) /\ g # x => Telling(g)'
  <2>1. PICK x : \A g : Telling(g) /\ g # x => Telling(g)'
    BY <1>8
  <2>2. PICK N : N = L \cup {File(x)}
    OBVIOUS
  <2>3. ASSUME NEW f \in M PROVE f \in N
    <3>1. CASE f.graph = x
      BY <1>6, <2>2, <3>1, FileIs
    <3>2. CASE f.graph # x
      <4>1. ~Telling(f.graph)
        BY <1>6, <2>1, <3>2
      <4> QED BY <1>4, <1>6, <2>2, <4>1 DEF Lost, Untold
    <3> QED BY <3>1, <3>2
  <2>4. IsFiniteSet(N) /\ Cardinality(N) \in Nat /\ Cardinality(N) <= Cardinality(L) + 1
    <3>1. IsFiniteSet(N)
          /\ Cardinality(N) = IF File(x) \in L THEN Cardinality(L) ELSE Cardinality(L) + 1
      BY <1>5, <2>2, FS_AddElement
    <3> QED BY <1>5, <3>1
  <2>5. M \in SUBSET N
    BY <2>3
  <2>6. Cardinality(M) <= Cardinality(N) /\ Cardinality(M) \in Nat
    BY <2>4, <2>5, FS_Subset, FS_CardinalityType
  <2>7. Cardinality(M) <= crashes'
    BY <1>1, <1>5, <1>8, <2>4, <2>6
  <2> QED BY <1>1, <1>2, <1>3, <1>4, <2>7 DEF OutcomeInv
<1> QED BY <1>7, <1>8

(* A shift moves a file it holds, and is about to tell when it moved it    *)
(* into the directory of an outcome.                                       *)
LEMMA MovesUntold ==
  ASSUME AccountInv, OutcomeInv, NEW p \in ShiftProcesses, NEW f \in files, f.dir \notin Outcomes,
         NEW b \in Dirs, NEW m, m = [f EXCEPT !.dir = b], files' = (files \ {f}) \cup {m},
         shift[p].at # "tell", b \in Outcomes => shift'[p].at = "tell",
         shift'[p].graph = f.graph,
         \A q \in ShiftProcesses : q # p => shift'[q] = shift[q],
         UNCHANGED <<ledger, crashes>>
  PROVE  OutcomeInv'
<1>1. m.graph = f.graph /\ m.dir = b
  <2>1. FileOK(f)
    BY DEF AccountInv, FilesOK
  <2> QED BY <2>1 DEF FileOK
<1>2. \A i \in Told(Outcomes) : ledger[i].graph # f.graph
  <2>1. ASSUME NEW i \in Told(Outcomes), ledger[i].graph = f.graph PROVE FALSE
    <3>1. PICK h \in files : h.graph = f.graph /\ h.dir = ledger[i].kind
      BY <2>1 DEF OutcomeInv, Shows
    <3>2. h = f
      BY <3>1 DEF AccountInv, FilesOK
    <3> QED BY <3>1, <3>2 DEF Told
  <2> QED BY <2>1
<1>3. ASSUME NEW h \in files', h.dir \in Outcomes PROVE h \in files \/ Telling(h.graph)'
  <2>1. CASE h = m
    <3>1. shift'[p].at = "tell" /\ shift'[p].graph = h.graph
      BY <1>1, <1>3, <2>1
    <3> QED BY <3>1 DEF Telling
  <2> QED BY <1>3, <2>1
<1>4. ASSUME NEW g, Telling(g)'
      PROVE  Telling(g) \/ \A i \in Told(Outcomes) : ledger[i].graph # g
  <2>1. PICK q \in ShiftProcesses : shift'[q].at = "tell" /\ shift'[q].graph = g
    BY <1>4 DEF Telling
  <2> QED BY <1>2, <2>1 DEF Telling
<1>5. \A g : Telling(g) => Telling(g)'
  <2>1. ASSUME NEW g, Telling(g) PROVE Telling(g)'
    <3>1. PICK q \in ShiftProcesses : shift[q].at = "tell" /\ shift[q].graph = g
      BY <2>1 DEF Telling
    <3>2. shift'[q] = shift[q]
      BY <3>1
    <3> QED BY <3>1, <3>2 DEF Telling
  <2> QED BY <2>1
<1>6. Told(Outcomes)' = Told(Outcomes) /\ \A i \in Told(Outcomes) : ledger'[i] = ledger[i]
  BY DEF Told
<1>7. \A h \in files : h.dir \in Outcomes => h \in files'
  OBVIOUS
<1> QED BY <1>3, <1>4, <1>5, <1>6, <1>7, OutcomesStay

LEMMA TakeTells ==
  ASSUME AccountInv, OutcomeInv, NEW p \in ShiftProcesses, NEW g \in shift[p].todo,
         TakeFile(p, g), UNCHANGED crashes
  PROVE  OutcomeInv'
<1>1. /\ shift[p].at = "next" /\ shift \in [ShiftProcesses -> ShiftType] /\ UNCHANGED ledger
  BY DEF TakeFile, AccountInv, AccountTyped
<1>2. PICK f \in files : f.graph = g /\ f.queue = p /\ f.dir = "queue"
  BY DEF AccountInv, ShiftOK, Lies
<1>3. File(g) = f
  BY <1>2, FileIs
<1>4. PICK b, at : /\ (b = "running" /\ at = "running") \/ (b = "rejected" /\ at = "tell")
                   /\ shift' = [shift EXCEPT ![p].todo = @ \ {g}, ![p].graph = g,
                                             ![p].to = "rejected", ![p].at = at]
                   /\ files' = Moved(g, b)
  <2>1. CASE File(g).content.verdict = "safe"
    BY <2>1 DEF TakeFile
  <2>2. CASE File(g).content.verdict # "safe"
    BY <2>2 DEF TakeFile
  <2> QED BY <2>1, <2>2
<1>5. PICK m : m = [f EXCEPT !.dir = b] /\ files' = (files \ {f}) \cup {m}
  BY <1>3, <1>4 DEF Moved
<1>6. PICK s : s = [shift[p] EXCEPT !.todo = @ \ {g}, !.graph = g, !.to = "rejected", !.at = at]
  OBVIOUS
<1>7. s.graph = g /\ s.at = at
  BY <1>1, <1>6 DEF ShiftType
<1>8. shift'[p] = s /\ \A q \in ShiftProcesses : q # p => shift'[q] = shift[q]
  BY <1>1, <1>4, <1>6
<1>9. b \in Dirs /\ (b \in Outcomes => at = "tell") /\ f.dir \notin Outcomes
  BY <1>2, <1>4, DirsAre DEF Outcomes
<1> QED BY <1>1, <1>2, <1>5, <1>7, <1>8, <1>9, MovesUntold

LEMMA RouteTells ==
  ASSUME AccountInv, OutcomeInv, NEW p \in ShiftProcesses, NEW b \in {"completed", "failed"},
         RouteFile(p, b), UNCHANGED crashes
  PROVE  OutcomeInv'
<1>1. /\ shift[p].at = "running" /\ shift \in [ShiftProcesses -> ShiftType] /\ UNCHANGED ledger
      /\ shift' = [shift EXCEPT ![p].at = "tell", ![p].to = b]
      /\ files' = Moved(shift[p].graph, b)
  BY DEF RouteFile, AccountInv, AccountTyped
<1>2. PICK f \in files : f.graph = shift[p].graph /\ f.queue = p /\ f.dir = "running"
  BY <1>1 DEF AccountInv, ShiftOK, Lies
<1>3. File(shift[p].graph) = f
  BY <1>2, FileIs
<1>4. PICK m : m = [f EXCEPT !.dir = b] /\ files' = (files \ {f}) \cup {m}
  BY <1>1, <1>3 DEF Moved
<1>5. PICK s : s = [shift[p] EXCEPT !.at = "tell", !.to = b]
  OBVIOUS
<1>6. s.graph = shift[p].graph /\ s.at = "tell"
  BY <1>1, <1>5 DEF ShiftType
<1>7. shift'[p] = s /\ \A q \in ShiftProcesses : q # p => shift'[q] = shift[q]
  BY <1>1, <1>5
<1>8. b \in Dirs /\ f.dir \notin Outcomes
  BY <1>2, DirsAre DEF Outcomes
<1> QED BY <1>1, <1>2, <1>4, <1>6, <1>7, <1>8, MovesUntold

LEMMA OutcomeTold ==
  ASSUME AccountInv, OutcomeInv, NEW p \in ShiftProcesses, TellOutcome(p), UNCHANGED crashes
  PROVE  OutcomeInv'
<1>1. /\ files' = files /\ shift[p].at = "tell" /\ shift \in [ShiftProcesses -> ShiftType]
      /\ shift[p].to \in Outcomes
      /\ shift' = [shift EXCEPT ![p].at = "next", ![p].tally[shift[p].to] = @ + 1]
  BY DEF TellOutcome, AccountInv, AccountTyped, ShiftOK
<1>2. PICK g, d : g = shift[p].graph /\ d = shift[p].to
  OBVIOUS
<1>3. PICK f \in files : f.graph = g /\ f.queue = p /\ f.dir = d
  BY <1>1, <1>2 DEF AccountInv, ShiftOK, Lies
<1>4. File(g) = f
  BY <1>3, FileIs
<1>5. PICK e : /\ ledger' = Append(ledger, e) /\ e.kind = d /\ e.graph = g
               /\ e.lane = EventLane(f.content) /\ e.name = f.content.name
  BY <1>2, <1>4 DEF TellOutcome, Append1
<1>6. PICK n : n = Len(ledger) + 1
  OBVIOUS
<1>7. /\ ledger'[n] = e
      /\ \A i \in Told(Outcomes) : ledger'[i] = ledger[i] /\ i # n
      /\ Told(Outcomes)' = Told(Outcomes) \cup {n}
  BY <1>1, <1>2, <1>5, <1>6, TellsOne
<1>8. shift'[p].at = "next" /\ \A q \in ShiftProcesses : q # p => shift'[q] = shift[q]
  BY <1>1 DEF ShiftType
<1>9. ASSUME NEW h, Telling(h)' PROVE Telling(h) /\ h # g
  <2>1. PICK q \in ShiftProcesses : shift'[q].at = "tell" /\ shift'[q].graph = h
    BY <1>9 DEF Telling
  <2>2. q # p /\ shift[q].at = "tell" /\ shift[q].graph = h
    BY <1>8, <2>1
  <2>3. Lies(h, q, shift[q].to)
    BY <2>2 DEF AccountInv, ShiftOK
  <2>4. PICK k \in files : k.graph = h /\ k.queue = q
    BY <2>3 DEF Lies
  <2>5. h = g => k = f
    BY <1>3, <2>4 DEF AccountInv, FilesOK
  <2> QED BY <1>3, <2>2, <2>4, <2>5 DEF Telling
<1>10. Telling(g)
  BY <1>1, <1>2 DEF Telling
<1>11. ASSUME NEW i \in Told(Outcomes)'
       PROVE  Shows(ledger[i])' /\ ~Telling(ledger[i].graph)'
  <2>1. PICK a, x : a = ledger'[i] /\ x = a.graph
    OBVIOUS
  <2>2. CASE i = n
    <3>1. a = e /\ x = g
      BY <1>5, <1>7, <2>1, <2>2
    <3>2. Shows(e)'
      BY <1>1, <1>3, <1>5 DEF Shows
    <3>3. ~Telling(g)'
      BY <1>9
    <3> QED BY <2>1, <3>1, <3>2, <3>3 DEF Shows, Telling
  <2>3. CASE i # n
    <3>1. i \in Told(Outcomes) /\ a = ledger[i]
      BY <1>7, <1>11, <2>1, <2>3
    <3>2. Shows(a) /\ ~Telling(x)
      BY <2>1, <3>1 DEF OutcomeInv
    <3>3. Shows(a)' /\ ~Telling(x)'
      BY <1>1, <1>9, <3>2 DEF Shows
    <3> QED BY <2>1, <3>3 DEF Shows, Telling
  <2> QED BY <2>2, <2>3
<1>12. ASSUME NEW i \in Told(Outcomes), ledger[i].graph = g PROVE FALSE
  BY <1>10, <1>12 DEF OutcomeInv
<1>13. ASSUME NEW i \in Told(Outcomes)', NEW j \in Told(Outcomes)',
              ledger'[i].graph = ledger'[j].graph
       PROVE  i = j
  <2>1. CASE i = n
    BY <1>5, <1>7, <1>12, <1>13, <2>1
  <2>2. CASE j = n
    BY <1>5, <1>7, <1>12, <1>13, <2>2
  <2>3. CASE i # n /\ j # n
    BY <1>7, <1>13, <2>3 DEF OutcomeInv
  <2> QED BY <2>1, <2>2, <2>3
<1>14. PICK L, M : L = Lost /\ M = Lost'
  OBVIOUS
<1>15. ASSUME NEW x \in M PROVE x \in L
  <2>1. /\ x \in files /\ x.dir \in Outcomes /\ ~Telling(x.graph)'
        /\ \A i \in Told(Outcomes)' : ledger'[i].graph # x.graph
    BY <1>1, <1>14 DEF Lost, Untold
  <2>2. x.graph # g /\ \A i \in Told(Outcomes) : ledger[i].graph # x.graph
    BY <1>5, <1>7, <2>1
  <2>3. ASSUME Telling(x.graph) PROVE FALSE
    <3>1. PICK q \in ShiftProcesses : shift[q].at = "tell" /\ shift[q].graph = x.graph
      BY <2>3 DEF Telling
    <3>2. q # p
      BY <1>2, <2>2, <3>1
    <3>3. shift'[q] = shift[q]
      BY <1>8, <3>2
    <3> QED BY <2>1, <3>1, <3>3 DEF Telling
  <2> QED BY <1>14, <2>1, <2>2, <2>3 DEF Lost, Untold
<1>16. Cardinality(M) <= crashes'
  <2>1. IsFiniteSet(L) /\ Cardinality(L) \in Nat /\ Cardinality(L) <= crashes /\ crashes \in Nat
    BY <1>14, LostFinite DEF OutcomeInv
  <2>2. M \in SUBSET L
    BY <1>15
  <2>3. Cardinality(M) <= Cardinality(L) /\ Cardinality(M) \in Nat
    BY <2>1, <2>2, FS_Subset, FS_CardinalityType
  <2> QED BY <2>1, <2>3
<1> QED BY <1>11, <1>13, <1>14, <1>16 DEF OutcomeInv

(* Any other step: nothing is moved, and no outcome is told.               *)
LEMMA OutcomesIdle ==
  ASSUME AccountInv, OutcomeInv, crashes' \in {crashes, crashes + 1},
         files' = files \/ \E m : m.dir = "queue" /\ files' = files \cup {m},
         \A p \in ShiftProcesses :
           shift'[p] = shift[p] \/ (shift[p].at # "tell" /\ shift'[p].at # "tell"),
         ledger' = ledger \/ \E e : ledger' = Append(ledger, e) /\ e.kind \notin Outcomes
  PROVE  OutcomeInv'
<1>1. \A f \in files : f \in files'
  OBVIOUS
<1>2. \A f \in files' : f.dir \in Outcomes => f \in files
  BY DirsAre
<1>3. \A g : Telling(g)' <=> Telling(g)
  BY DEF Telling
<1>4. Told(Outcomes)' = Told(Outcomes) /\ \A i \in Told(Outcomes) : ledger'[i] = ledger[i]
  <2>1. CASE ledger' = ledger
    BY <2>1 DEF Told
  <2>2. CASE \E e : ledger' = Append(ledger, e) /\ e.kind \notin Outcomes
    <3>1. PICK e : ledger' = Append(ledger, e) /\ e.kind \notin Outcomes
      BY <2>2
    <3>2. Told(Outcomes)' = Told(Outcomes) \cup {}
      BY <3>1, TellsOne
    <3>3. \A i \in Told(Outcomes) : ledger'[i] = ledger[i]
      BY <3>1, TellsOne
    <3> QED BY <3>2, <3>3
  <2> QED BY <2>1, <2>2
<1> QED BY <1>1, <1>2, <1>3, <1>4, OutcomesStay

LEMMA ShiftLost ==
  ASSUME AccountInv, OutcomeInv, NEW p \in ShiftProcesses, UNCHANGED <<files, ledger>>,
         shift' = [shift EXCEPT ![p] = NoShift], crashes' = crashes + 1
  PROVE  OutcomeInv'
<1>1. shift'[p].at = "off" /\ \A q \in ShiftProcesses : q # p => shift'[q] = shift[q]
  BY NoShiftIs DEF AccountInv, AccountTyped
<1>2. PICK x : x = shift[p].graph
  OBVIOUS
<1>3. ASSUME NEW g, Telling(g), g # x PROVE Telling(g)'
  <2>1. PICK q \in ShiftProcesses : shift[q].at = "tell" /\ shift[q].graph = g
    BY <1>3 DEF Telling
  <2>2. shift'[q] = shift[q]
    BY <1>1, <1>2, <1>3, <2>1
  <2> QED BY <2>1, <2>2 DEF Telling
<1>4. ASSUME NEW g, Telling(g)' PROVE Telling(g)
  <2>1. PICK q \in ShiftProcesses : shift'[q].at = "tell" /\ shift'[q].graph = g
    BY <1>4 DEF Telling
  <2>2. shift'[q] = shift[q]
    BY <1>1, <2>1
  <2> QED BY <2>1, <2>2 DEF Telling
<1>5. Told(Outcomes)' = Told(Outcomes)
  BY DEF Told
<1> QED BY <1>3, <1>4, <1>5, OutcomesStay

(* How many processes have died.                                           *)
LEMMA StoreCrashes ==
  ASSUME OtherStoreStep PROVE crashes' \in {crashes, crashes + 1}
<1> USE DEF faultVars
<1>1. ASSUME NEW w \in Workers, NEW wanted, Claim(w, wanted) PROVE crashes' = crashes
  BY <1>1 DEF Claim
<1>2. ASSUME NEW w \in Workers, Heartbeat(w) PROVE crashes' = crashes
  BY <1>2 DEF Heartbeat
<1>3. ASSUME NEW w \in Workers, WorkerStep(w) PROVE crashes' = crashes
  BY <1>3 DEF WorkerStep, ReadClaim, Executed, FinishActivity, FinishCommand, AppendTerminalEvent
<1>4. ASSUME NEW w \in Workers, WorkerDies(w) PROVE crashes' = crashes + 1
  BY <1>4 DEF WorkerDies
<1>5. ASSUME NEW c \in Commands, LeaseLapses(c) PROVE crashes' = crashes
  BY <1>5 DEF LeaseLapses
<1>6. ASSUME NEW o \in Operators, OperatorStep(o) PROVE crashes' = crashes
  BY <1>6 DEF OperatorStep, CancelRead, CancelWrite, CancelMark, SubmitReplacement, ReadTokens,
     ConsumeToken, ResumeWrite, ResumeMark
<1> QED BY <1>1, <1>2, <1>3, <1>4, <1>5, <1>6 DEF OtherStoreStep

LEMMA PreflightCrashes ==
  ASSUME UNCHANGED preflightVars PROVE crashes' = crashes
BY DEF preflightVars, vars, faultVars

LEMMA NightCrashes ==
  ASSUME NEW o \in Operators, NightStep(o) PROVE crashes' = crashes
<1>1. UNCHANGED vars => crashes' = crashes
  BY DEF vars, faultVars
<1>2. ASSUME NEW mode, NEW limit, NEW hours, StartNight(o, mode, limit, hours)
      PROVE  crashes' = crashes
  BY <1>1, <1>2, PreflightCrashes DEF StartNight, DryPreflight, StartSweep
<1>3. ASSUME NEW c \in Commands, RequeueItem(o, c) \/ LeaveItem(o, c) PROVE crashes' = crashes
  BY <1>1, <1>3 DEF RequeueItem, LeaveItem, Remediate, LeaveManual, Begin, faultVars
<1>4. CASE SweepRead(o) \/ FinishSweep(o)
  BY <1>1, <1>4 DEF SweepRead, FinishSweep, RequeueRead, EndSweep, faultVars
<1>5. ASSUME NEW sight, Plan(o, sight) PROVE crashes' = crashes
  BY <1>5, PreflightCrashes DEF Plan
<1>6. CASE CompileNext(o) \/ TellEnqueued(o) \/ StartOwnShift(o) \/ TellRun(o)
  BY <1>6, PreflightCrashes DEF CompileNext, TellEnqueued, StartOwnShift, TellRun
<1> QED BY <1>2, <1>3, <1>4, <1>5, <1>6 DEF NightStep

LEMMA NightOutcomes ==
  ASSUME AccountInv, OutcomeInv, NEW o \in Operators, NightStep(o)
  PROVE  OutcomeInv'
<1>1. crashes' \in {crashes, crashes + 1}
  BY NightCrashes
<1>2. CASE UNCHANGED <<shift, files, ledger>>
  BY <1>1, <1>2, OutcomesIdle
<1>3. CASE CompileNext(o)
  <2>1. UNCHANGED <<shift, ledger>>
    BY <1>3 DEF CompileNext
  <2>2. files' = files \/ \E m : m.dir = "queue" /\ files' = files \cup {m}
    <3>1. PICK graph, queued, content :
            files' = IF ~queued THEN files
                     ELSE files \cup {[graph |-> graph, queue |-> QueueOf(o), dir |-> "queue",
                                       content |-> content]}
      BY <1>3, Zenon DEF CompileNext
    <3> QED BY <3>1
  <2> QED BY <1>1, <2>1, <2>2, OutcomesIdle
<1>4. CASE TellEnqueued(o) \/ TellRun(o)
  <2>1. UNCHANGED <<shift, files>>
    BY <1>4 DEF TellEnqueued, TellRun
  <2>2. PICK e : ledger' = Append(ledger, e) /\ e.kind \in RunKinds
    <3>1. PICK kind, verdict : kind \in RunKinds /\ Append1(NightEvent(o, kind, verdict))
      <4>1. CASE TellEnqueued(o)
        <5>1. PICK verdict : Append1(NightEvent(o, "enqueue", verdict))
          BY <4>1 DEF TellEnqueued
        <5> QED BY <5>1 DEF RunKinds
      <4>2. CASE TellRun(o)
        <5>1. PICK verdict : Append1(NightEvent(o, "run", verdict))
          BY <4>2 DEF TellRun
        <5> QED BY <5>1 DEF RunKinds
      <4> QED BY <1>4, <4>1, <4>2
    <3> QED BY <3>1 DEF Append1, NightEvent
  <2>3. e.kind \notin Outcomes
    BY <2>2 DEF RunKinds, Outcomes
  <2> QED BY <1>1, <2>1, <2>2, <2>3, OutcomesIdle
<1>5. CASE StartOwnShift(o)
  <2>1. o \in ShiftProcesses /\ UNCHANGED <<files, ledger>> /\ shift' = Listing(o)
        /\ night[o].at = "compile"
    BY <1>5 DEF StartOwnShift, Compiled, ShiftProcesses
  <2>2. shift[o].at = "off"
    BY <2>1 DEF AccountInv, NightOK, AccountTyped, ShiftType
  <2>3. shift'[o].at = "next" /\ \A q \in ShiftProcesses : q # o => shift'[q] = shift[q]
    BY <2>1, ListingIs
  <2>4. \A p \in ShiftProcesses :
          shift'[p] = shift[p] \/ (shift[p].at # "tell" /\ shift'[p].at # "tell")
    BY <2>2, <2>3
  <2> QED BY <1>1, <2>1, <2>4, OutcomesIdle
<1>6. ASSUME NEW mode, NEW limit, NEW hours, StartNight(o, mode, limit, hours)
      PROVE  UNCHANGED <<shift, files, ledger>>
  BY <1>6 DEF StartNight
<1>7. ASSUME NEW c \in Commands, RequeueItem(o, c) \/ LeaveItem(o, c)
      PROVE  UNCHANGED <<shift, files, ledger>>
  BY <1>7 DEF RequeueItem, LeaveItem
<1>8. ASSUME NEW sight, Plan(o, sight) PROVE UNCHANGED <<shift, files, ledger>>
  BY <1>8 DEF Plan
<1>9. SweepRead(o) \/ FinishSweep(o) => UNCHANGED <<shift, files, ledger>>
  BY DEF SweepRead, FinishSweep
<1> QED BY <1>2, <1>3, <1>4, <1>5, <1>6, <1>7, <1>8, <1>9 DEF NightStep

LEMMA OutcomesNext ==
  ASSUME AccountInv, OutcomeInv, [OvernightNext]_overnightVars
  PROVE  OutcomeInv'
<1>1. CASE crashes' \in {crashes, crashes + 1} /\ UNCHANGED <<shift, files, ledger>>
  BY <1>1, OutcomesIdle
<1>2. CASE UNCHANGED overnightVars
  BY <1>1, <1>2, PreflightCrashes DEF overnightVars, nightVars
<1>3. CASE OtherStoreStep /\ UNCHANGED <<sweep, nightVars>>
  BY <1>1, <1>3, StoreCrashes DEF nightVars
<1>4. ASSUME NEW c \in Commands, NEW k \in Classes, SubmitOne(c, k) PROVE OutcomeInv'
  BY <1>1, <1>4 DEF SubmitOne, Submit, faultVars
<1>5. ASSUME NEW o \in Operators, NightStep(o) PROVE OutcomeInv'
  BY <1>5, NightOutcomes
<1>6. ASSUME NEW o \in Operators, SweepingNightDies(o) PROVE OutcomeInv'
  BY <1>1, <1>6 DEF SweepingNightDies, SweeperDies, OperatorDies
<1>7. ASSUME NEW o \in Operators, NightDies(o) PROVE OutcomeInv'
  BY <1>7, ShiftLost DEF NightDies, Killed, ShiftProcesses
<1>8. CASE ShiftDies
  BY <1>8, ShiftLost DEF ShiftDies, Killed, ShiftProcesses
<1>9. ASSUME NEW content \in HandGraphs, EnqueueByHand(content) PROVE OutcomeInv'
  <2>1. UNCHANGED <<shift, ledger>> /\ crashes' = crashes
    BY <1>9, PreflightCrashes DEF EnqueueByHand
  <2>2. \E m : m.dir = "queue" /\ files' = files \cup {m}
    BY <1>9 DEF EnqueueByHand
  <2> QED BY <2>1, <2>2, OutcomesIdle
<1>10. CASE StartLaunchdShift
  <2>1. UNCHANGED <<files, ledger>> /\ crashes' = crashes /\ shift[Launchd].at = "off"
        /\ shift' = Listing(Launchd) /\ Launchd \in ShiftProcesses
    BY <1>10, PreflightCrashes DEF StartLaunchdShift, ShiftProcesses
  <2>2. shift'[Launchd].at = "next"
        /\ \A q \in ShiftProcesses : q # Launchd => shift'[q] = shift[q]
    BY <2>1, ListingIs
  <2>3. \A p \in ShiftProcesses :
          shift'[p] = shift[p] \/ (shift[p].at # "tell" /\ shift'[p].at # "tell")
    BY <2>1, <2>2
  <2> QED BY <2>1, <2>3, OutcomesIdle
<1>11. ASSUME NEW p \in ShiftProcesses, ShiftStep(p) PROVE OutcomeInv'
  <2>1. crashes' = crashes
    BY <1>11, PreflightCrashes DEF ShiftStep, TakeFile, RouteFile, TellOutcome, EndShift
  <2>2. CASE EndShift(p)
    <3>1. files' = files /\ shift[p].at = "next" /\ shift' = [shift EXCEPT ![p] = NoShift]
      BY <2>2 DEF EndShift
    <3>2. PICK e : ledger' = Append(ledger, e) /\ e.kind = "shift_end"
      BY <2>2 DEF EndShift, Append1
    <3>3. e.kind \notin Outcomes
      BY <3>2 DEF Outcomes
    <3>4. shift'[p].at = "off" /\ \A q \in ShiftProcesses : q # p => shift'[q] = shift[q]
      BY <3>1, NoShiftIs DEF AccountInv, AccountTyped
    <3>5. \A q \in ShiftProcesses :
            shift'[q] = shift[q] \/ (shift[q].at # "tell" /\ shift'[q].at # "tell")
      BY <3>1, <3>4
    <3> QED BY <2>1, <3>1, <3>2, <3>3, <3>5, OutcomesIdle
  <2> QED BY <1>11, <2>1, <2>2, TakeTells, RouteTells, OutcomeTold DEF ShiftStep
<1> QED BY <1>2, <1>3, <1>4, <1>5, <1>6, <1>7, <1>8, <1>9, <1>10, <1>11 DEF OvernightNext

-----------------------------------------------------------------------------
(* The lanes.                                                              *)

LEMMA InitLanes == OvernightInit => LaneInv
<1> SUFFICES ASSUME OvernightInit PROVE LaneInv
  OBVIOUS
<1>1. files = {} /\ Told(RunKinds) = {}
  BY EmptyIs DEF OvernightInit, Told
<1>2. \A o \in Operators : night[o].at = "off" /\ night[o].graphs = <<>>
  BY NoNightIs DEF OvernightInit
<1>3. Queued(<<>>) = {}
  BY EmptyIs DEF Queued
<1> QED BY <1>1, <1>2, <1>3 DEF LaneInv

(* A step that compiles nothing and ends no night.                         *)
Steady ==
  /\ \A f \in files : \E g \in files' : g.graph = f.graph
  /\ \A g \in files' :
       g.graph[1] \in Operators => \E f \in files : f.graph = g.graph /\ f.content = g.content
  /\ \A o \in Operators :
       /\ night'[o].graphs = night[o].graphs
       /\ (night'[o].at = "over") <=> (night[o].at = "over")
  /\ Told(RunKinds)' = Told(RunKinds)
  /\ \A i \in Told(RunKinds) : ledger'[i] = ledger[i]

LEMMA SteadyKeeps == ASSUME LaneInv, Steady PROVE LaneInv'
<1>1. ASSUME NEW g \in files', g.graph[1] \in Operators
      PROVE  Compiler(g)'.queued /\ g.content = NightContent(Compiler(g)'.lane)
  <2>1. PICK f \in files : f.graph = g.graph /\ f.content = g.content
    BY <1>1 DEF Steady
  <2>2. PICK o, c : o = f.graph[1] /\ c = night[o].graphs[f.graph[2]]
    OBVIOUS
  <2>3. c.queued /\ f.content = NightContent(c.lane)
    BY <1>1, <2>1, <2>2 DEF LaneInv, Compiler
  <2>4. night'[o].graphs = night[o].graphs
    BY <1>1, <2>1, <2>2 DEF Steady
  <2>5. Compiler(g)' = c
    BY <2>1, <2>2, <2>4 DEF Compiler
  <2> QED BY <2>1, <2>3, <2>5
<1>2. ASSUME NEW o \in Operators, NEW k \in Queued(night'[o].graphs)
      PROVE  \E g \in files' : g.graph = <<o, k>>
  <2>1. k \in Queued(night[o].graphs)
    BY <1>2 DEF Steady
  <2>2. PICK f \in files : f.graph = <<o, k>>
    BY <2>1 DEF LaneInv
  <2> QED BY <2>2 DEF Steady
<1>3. ASSUME NEW i \in Told(RunKinds)'
      PROVE  /\ ledger'[i].night \in Operators /\ night'[ledger'[i].night].at = "over"
             /\ ledger'[i].lanes = LaneSummary(night'[ledger'[i].night].graphs)
  <2>1. i \in Told(RunKinds) /\ ledger'[i] = ledger[i]
    BY <1>3 DEF Steady
  <2>2. PICK q : q = ledger[i].night
    OBVIOUS
  <2>3. q \in Operators /\ night[q].at = "over" /\ ledger[i].lanes = LaneSummary(night[q].graphs)
    BY <2>1, <2>2 DEF LaneInv
  <2>4. night'[q].at = "over" /\ night'[q].graphs = night[q].graphs
    BY <2>3 DEF Steady
  <2> QED BY <2>1, <2>2, <2>3, <2>4
<1>4. \A i, j \in Told(RunKinds)' : ledger'[i].night = ledger'[j].night => i = j
  BY DEF LaneInv, Steady
<1>5. \A o \in Operators :
        night'[o].at = "over" => \E i \in Told(RunKinds)' : ledger'[i].night = o
  BY DEF LaneInv, Steady
<1> QED BY <1>1, <1>2, <1>3, <1>4, <1>5 DEF LaneInv, Compiler

LEMMA CompileLanes ==
  ASSUME AccountInv, LaneInv, NEW o \in Operators, CompileNext(o)
  PROVE  LaneInv'
<1>1. night[o].at = "compile" /\ ledger' = ledger
  BY DEF CompileNext
<1>2. night = [q \in Operators |-> night[q]] /\ \A q \in Operators : IsNight(night[q])
  BY DEF AccountInv, AccountTyped
<1>3. PICK action, queued :
        /\ night' = [night EXCEPT
                       ![o].graphs = Append(@, [lane |-> action.lane, queued |-> queued,
                                                status |-> GraphStatus(action)])]
        /\ files' = IF ~queued THEN files
                    ELSE files \cup {[graph |-> <<o, Len(night[o].graphs) + 1>>,
                                      queue |-> QueueOf(o), dir |-> "queue",
                                      content |-> NightContent(action.lane)]}
  BY Zenon DEF CompileNext
<1>4. PICK r, lane, g :
        /\ r = [lane |-> action.lane, queued |-> queued, status |-> GraphStatus(action)]
        /\ lane = action.lane
        /\ g = [graph |-> <<o, Len(night[o].graphs) + 1>>, queue |-> QueueOf(o),
                dir |-> "queue", content |-> NightContent(lane)]
  OBVIOUS
<1>5. r.queued = queued /\ r.lane = lane /\ g.content = NightContent(lane)
      /\ g.graph = <<o, Len(night[o].graphs) + 1>>
  BY <1>4
<1>6. files' = IF ~queued THEN files ELSE files \cup {g}
  BY <1>3, <1>4
<1>7. PICK gs, old, n : gs = Append(old, r) /\ old = night[o].graphs /\ n = Len(old)
  OBVIOUS
<1>8. /\ n \in Nat /\ Len(gs) = n + 1 /\ gs[n + 1] = r
      /\ \A k \in 1 .. n : gs[k] = old[k]
  BY <1>2, <1>7, AppendIs DEF IsNight
<1>9. PICK new : new = [night[o] EXCEPT !.graphs = gs]
  OBVIOUS
<1>10. night' = [night EXCEPT ![o] = new]
  BY <1>2, <1>3, <1>4, <1>7, <1>9
<1>11. new.at = "compile" /\ new.graphs = gs
  BY <1>1, <1>2, <1>9 DEF IsNight
<1>12. night'[o] = new /\ \A q \in Operators : q # o => night'[q] = night[q]
  BY <1>2, <1>10
<1>13. \A f \in files : f \in files'
  BY <1>6
<1>14. ASSUME NEW h \in files', h.graph[1] \in Operators
       PROVE  Compiler(h)'.queued /\ h.content = NightContent(Compiler(h)'.lane)
  <2>1. CASE h \in files
    <3>1. PICK q, k : q = h.graph[1] /\ k = h.graph[2]
      OBVIOUS
    <3>2. PICK c : c = night[q].graphs[k]
      OBVIOUS
    <3>3. c.queued /\ h.content = NightContent(c.lane)
      BY <1>14, <2>1, <3>1, <3>2 DEF LaneInv, Compiler
    <3>4. k \in 1 .. Len(night[q].graphs)
      <4>1. FileOK(h)
        BY <2>1 DEF AccountInv, FilesOK
      <4> QED BY <1>14, <3>1, <4>1 DEF FileOK
    <3>5. night'[q].graphs[k] = c
      <4>1. CASE q = o
        BY <1>7, <1>8, <1>11, <1>12, <3>2, <3>4, <4>1
      <4>2. CASE q # o
        BY <1>12, <1>14, <3>1, <3>2, <4>2
      <4> QED BY <4>1, <4>2
    <3>6. Compiler(h)' = c
      BY <3>1, <3>5 DEF Compiler
    <3> QED BY <3>3, <3>6
  <2>2. CASE h \notin files
    <3>1. queued /\ h.graph = <<o, n + 1>> /\ h.content = NightContent(lane)
      BY <1>5, <1>6, <1>7, <2>2
    <3>2. h.graph[1] = o /\ h.graph[2] = n + 1
      BY <3>1
    <3>3. Compiler(h)' = r
      BY <1>8, <1>11, <1>12, <3>2 DEF Compiler
    <3> QED BY <1>5, <3>1, <3>3
  <2> QED BY <2>1, <2>2
<1>15. ASSUME NEW q \in Operators, NEW k \in Queued(night'[q].graphs)
       PROVE  \E f \in files' : f.graph = <<q, k>>
  <2>1. CASE k \in Queued(night[q].graphs)
    <3>1. PICK f \in files : f.graph = <<q, k>>
      BY <2>1 DEF LaneInv
    <3> QED BY <1>13, <3>1
  <2>2. CASE k \notin Queued(night[q].graphs)
    <3>1. q = o
      BY <1>12, <1>15, <2>2
    <3>2. k \in 1 .. (n + 1) /\ gs[k].queued
      BY <1>8, <1>11, <1>12, <1>15, <3>1 DEF Queued
    <3>3. k = n + 1
      <4>1. CASE k \in 1 .. n
        BY <1>7, <1>8, <2>2, <3>1, <3>2, <4>1 DEF Queued
      <4> QED BY <1>8, <3>2, <4>1
    <3>4. queued
      BY <1>5, <1>8, <3>2, <3>3
    <3> QED BY <1>5, <1>6, <1>7, <3>1, <3>3, <3>4
  <2> QED BY <2>1, <2>2
<1>16. Told(RunKinds)' = Told(RunKinds)
  BY <1>1 DEF Told
<1>17. ASSUME NEW i \in Told(RunKinds)'
       PROVE  /\ ledger'[i].night \in Operators /\ night'[ledger'[i].night].at = "over"
              /\ ledger'[i].lanes = LaneSummary(night'[ledger'[i].night].graphs)
  <2>1. PICK q : q = ledger[i].night
    OBVIOUS
  <2>2. q \in Operators /\ night[q].at = "over" /\ ledger[i].lanes = LaneSummary(night[q].graphs)
    BY <1>16, <2>1 DEF LaneInv
  <2>3. night'[q] = night[q]
    BY <1>1, <1>12, <2>2
  <2> QED BY <1>1, <2>1, <2>2, <2>3
<1>18. \A q \in Operators :
         night'[q].at = "over" => \E i \in Told(RunKinds)' : ledger'[i].night = q
  BY <1>1, <1>11, <1>12, <1>16 DEF LaneInv
<1>19. \A i, j \in Told(RunKinds)' : ledger'[i].night = ledger'[j].night => i = j
  BY <1>1, <1>16 DEF LaneInv
<1> QED BY <1>14, <1>15, <1>17, <1>18, <1>19 DEF LaneInv, Compiler

(* The event of a night that ends.                                         *)
LEMMA NightTold ==
  ASSUME AccountInv, LaneInv, NEW o \in Operators, night[o].at # "over", UNCHANGED files,
         NEW kind \in RunKinds, NEW verdict, Append1(NightEvent(o, kind, verdict)), At(o, "over")
  PROVE  LaneInv'
<1>1. PICK e : ledger' = Append(ledger, e) /\ e.kind \in RunKinds /\ e.night = o
               /\ e.lanes = LaneSummary(night[o].graphs)
  BY DEF Append1, NightEvent
<1>2. PICK n : n = Len(ledger) + 1
  OBVIOUS
<1>3. /\ ledger'[n] = e /\ Told(RunKinds)' = Told(RunKinds) \cup {n}
      /\ \A i \in Told(RunKinds) : ledger'[i] = ledger[i] /\ i # n
  BY <1>1, <1>2, TellsOne
<1>4. /\ night'[o].at = "over" /\ night'[o].graphs = night[o].graphs
      /\ \A q \in Operators : q # o => night'[q] = night[q]
  <2>1. "over" \in NightSteps /\ night' = [night EXCEPT ![o].at = "over"]
    BY DEF NightSteps, At
  <2> QED BY <2>1, StepIs
<1>5. ASSUME NEW g \in files', g.graph[1] \in Operators
      PROVE  Compiler(g)'.queued /\ g.content = NightContent(Compiler(g)'.lane)
  <2>1. PICK q : q = g.graph[1]
    OBVIOUS
  <2>2. night'[q].graphs = night[q].graphs
    BY <1>4, <1>5, <2>1
  <2>3. Compiler(g)' = Compiler(g)
    BY <2>1, <2>2 DEF Compiler
  <2> QED BY <1>5, <2>3 DEF LaneInv
<1>6. ASSUME NEW q \in Operators, NEW k \in Queued(night'[q].graphs)
      PROVE  \E f \in files' : f.graph = <<q, k>>
  <2>1. night'[q].graphs = night[q].graphs
    BY <1>4
  <2>2. k \in Queued(night[q].graphs)
    BY <1>6, <2>1
  <2> QED BY <2>2 DEF LaneInv
<1>7. ASSUME NEW i \in Told(RunKinds)
      PROVE  /\ ledger[i].night \in Operators /\ ledger[i].night # o
             /\ night'[ledger[i].night].at = "over"
             /\ ledger[i].lanes = LaneSummary(night'[ledger[i].night].graphs)
  <2>1. PICK q : q = ledger[i].night
    OBVIOUS
  <2>2. q \in Operators /\ night[q].at = "over" /\ ledger[i].lanes = LaneSummary(night[q].graphs)
    BY <2>1 DEF LaneInv
  <2>3. q # o /\ night'[q] = night[q]
    BY <1>4, <2>2
  <2> QED BY <2>1, <2>2, <2>3
<1>8. ASSUME NEW i \in Told(RunKinds)'
      PROVE  /\ ledger'[i].night \in Operators /\ night'[ledger'[i].night].at = "over"
             /\ ledger'[i].lanes = LaneSummary(night'[ledger'[i].night].graphs)
  <2>1. CASE i = n
    BY <1>1, <1>3, <1>4, <2>1
  <2>2. CASE i # n
    BY <1>3, <1>7, <1>8, <2>2
  <2> QED BY <2>1, <2>2
<1>9. ASSUME NEW i \in Told(RunKinds)', NEW j \in Told(RunKinds)',
             ledger'[i].night = ledger'[j].night
      PROVE  i = j
  <2>1. CASE i = n
    BY <1>1, <1>3, <1>7, <1>9, <2>1
  <2>2. CASE j = n
    BY <1>1, <1>3, <1>7, <1>9, <2>2
  <2>3. CASE i # n /\ j # n
    BY <1>3, <1>9, <2>3 DEF LaneInv
  <2> QED BY <2>1, <2>2, <2>3
<1>10. ASSUME NEW q \in Operators, night'[q].at = "over"
       PROVE  \E i \in Told(RunKinds)' : ledger'[i].night = q
  <2>1. CASE q = o
    BY <1>1, <1>3, <2>1
  <2>2. CASE q # o
    <3>1. PICK i \in Told(RunKinds) : ledger[i].night = q
      BY <1>4, <1>10, <2>2 DEF LaneInv
    <3> QED BY <1>3, <3>1
  <2> QED BY <2>1, <2>2
<1> QED BY <1>5, <1>6, <1>8, <1>9, <1>10 DEF LaneInv, Compiler

(* A night goes on without compiling, ending or being told of.             *)
LEMMA NightSteady ==
  ASSUME NEW o \in Operators, UNCHANGED <<files, ledger>>,
         night'[o].graphs = night[o].graphs, night[o].at # "over", night'[o].at # "over",
         \A q \in Operators : q # o => night'[q] = night[q]
  PROVE  Steady
<1>1. \A q \in Operators : /\ night'[q].graphs = night[q].graphs
                           /\ (night'[q].at = "over") <=> (night[q].at = "over")
  BY DEF Steady
<1>2. Told(RunKinds)' = Told(RunKinds)
  BY DEF Told
<1> QED BY <1>1, <1>2 DEF Steady

(* No night goes on, or only its shift ends.                               *)
LEMMA ShiftSteady ==
  ASSUME AccountInv,
         \A f \in files : \E g \in files' : g.graph = f.graph,
         \A g \in files' :
           g.graph[1] \in Operators => \E f \in files : f.graph = g.graph /\ f.content = g.content,
         \A o \in Operators : /\ night'[o].graphs = night[o].graphs
                              /\ (night'[o].at = "over") <=> (night[o].at = "over"),
         ledger' = ledger \/ \E e : ledger' = Append(ledger, e) /\ e.kind \notin RunKinds
  PROVE  Steady
<1>1. CASE ledger' = ledger
  BY <1>1 DEF Told, Steady
<1>2. CASE \E e : ledger' = Append(ledger, e) /\ e.kind \notin RunKinds
  <2>1. PICK e : ledger' = Append(ledger, e) /\ e.kind \notin RunKinds
    BY <1>2
  <2>2. Told(RunKinds)' = Told(RunKinds) \cup {}
    BY <2>1, TellsOne
  <2>3. \A i \in Told(RunKinds) : ledger'[i] = ledger[i]
    BY <2>1, TellsOne
  <2> QED BY <2>2, <2>3 DEF Steady
<1> QED BY <1>1, <1>2

(* A file that moves keeps its graph and its content.                      *)
LEMMA MoveSteady ==
  ASSUME AccountInv, NEW f \in files, NEW b, files' = Moved(f.graph, b), UNCHANGED <<night, ledger>>
  PROVE  Steady
<1>1. File(f.graph) = f
  BY FileIs
<1>2. PICK m : m = [f EXCEPT !.dir = b] /\ files' = (files \ {f}) \cup {m}
  BY <1>1 DEF Moved
<1>3. m.graph = f.graph /\ m.content = f.content
  <2>1. FileOK(f)
    BY DEF AccountInv, FilesOK
  <2> QED BY <1>2, <2>1 DEF FileOK
<1>4. \A h \in files : \E g \in files' : g.graph = h.graph
  BY <1>2, <1>3
<1>5. \A g \in files' :
        g.graph[1] \in Operators => \E h \in files : h.graph = g.graph /\ h.content = g.content
  BY <1>2, <1>3
<1> QED BY <1>4, <1>5, ShiftSteady

LEMMA NightLanes ==
  ASSUME SweepInv, AccountInv, LaneInv, NEW o \in Operators, NightStep(o)
  PROVE  LaneInv'
<1>1. ASSUME NEW mode \in budget.modes, NEW limit, NEW hours, StartNight(o, mode, limit, hours)
      PROVE  Steady
  <2>1. night[o].at = "off" /\ night[o] = NoNight /\ UNCHANGED <<files, ledger>>
    BY <1>1 DEF StartNight, AccountInv, NightOK
  <2>2. PICK start : start = [NoNight EXCEPT !.at = "preflight", !.mode = mode, !.limit = limit,
                                            !.hours = hours]
    OBVIOUS
  <2>3. PICK n : /\ n = start \/ \E a, m : n = [start EXCEPT !.at = "plan", !.automated = a, !.manual = m]
                 /\ night' = [night EXCEPT ![o] = n]
    <3>1. CASE mode \in {"dry enqueue", "dry run"}
      <4>1. DryPreflight(o, start)
        BY <1>1, <2>2, <3>1 DEF StartNight
      <4> QED BY <4>1 DEF DryPreflight
    <3>2. CASE mode \notin {"dry enqueue", "dry run"}
      BY <1>1, <2>2, <3>2 DEF StartNight
    <3> QED BY <3>1, <3>2
  <2>4. start.at = "preflight" /\ start.graphs = <<>> /\ DOMAIN start = DOMAIN NoNight
    BY <2>2 DEF NoNight
  <2>5. n.at # "over" /\ n.graphs = NoNight.graphs
    BY <2>2, <2>3, <2>4 DEF NoNight
  <2>6. night'[o] = n /\ \A q \in Operators : q # o => night'[q] = night[q]
    BY <2>3 DEF AccountInv, AccountTyped
  <2> QED BY <2>1, <2>5, <2>6, NightSteady
<1>2. ASSUME NEW c \in Commands, RequeueItem(o, c) \/ LeaveItem(o, c) PROVE Steady
  <2>1. NextItem(o, c) /\ UNCHANGED <<files, ledger>>
    BY <1>2 DEF RequeueItem, LeaveItem, Remediate, LeaveManual
  <2>2. PICK k : night' = [night EXCEPT ![o].automated = k] \/ night' = [night EXCEPT ![o].manual = k]
    BY <1>2 DEF RequeueItem, LeaveItem
  <2>3. c \in sweep[o].todo
    BY <2>1, ItemIs
  <2>4. sweep[o].state = "sweeping"
    BY <2>3 DEF SweepInv, CallOK
  <2>5. night[o].at = "preflight"
    BY <2>4, SweepingIs
  <2>6. /\ night'[o].at = night[o].at /\ night'[o].graphs = night[o].graphs
        /\ \A q \in Operators : q # o => night'[q] = night[q]
    BY <2>2, AutomatedIs
  <2> QED BY <2>1, <2>5, <2>6, NightSteady
<1>3. ASSUME SweepRead(o) \/ FinishSweep(o) PROVE Steady
  <2>1. UNCHANGED <<files, ledger>> /\ sweep[o].state = "sweeping"
    <3>1. Busy(o) => sweep[o].state = "sweeping"
      BY DEF SweepInv, CallOK
    <3> QED BY <1>3, <3>1 DEF SweepRead, FinishSweep, RequeueRead, EndSweep, Busy
  <2>2. night[o].at = "preflight"
    BY <2>1, SweepingIs
  <2>3. PICK step \in {"preflight", "plan", "dead"} : night' = [night EXCEPT ![o].at = step]
    BY <1>3, <2>2 DEF SweepRead, FinishSweep, At
  <2>4. step \in NightSteps
    BY DEF NightSteps
  <2>5. /\ night'[o].at = step /\ night'[o].graphs = night[o].graphs
        /\ \A q \in Operators : q # o => night'[q] = night[q]
    BY <2>3, <2>4, StepIs
  <2> QED BY <2>1, <2>2, <2>5, NightSteady
<1>4. ASSUME NEW sight, Plan(o, sight) PROVE Steady
  <2>1. night[o].at = "plan" /\ UNCHANGED <<files, ledger>>
    BY <1>4 DEF Plan
  <2>2. night = [q \in Operators |-> night[q]] /\ IsNight(night[o])
    BY DEF AccountInv, AccountTyped
  <2>3. PICK plan, n : /\ n = [night[o] EXCEPT !.at = "compile", !.plan = plan]
                       /\ night' = [night EXCEPT ![o] = n]
    BY <1>4, <2>2 DEF Plan
  <2>4. n.at = "compile" /\ n.graphs = night[o].graphs
    BY <2>2, <2>3 DEF IsNight
  <2>5. night'[o] = n /\ \A q \in Operators : q # o => night'[q] = night[q]
    BY <2>2, <2>3
  <2> QED BY <2>1, <2>4, <2>5, NightSteady
<1>5. ASSUME StartOwnShift(o) PROVE Steady
  <2>1. night[o].at = "compile" /\ UNCHANGED <<files, ledger>>
        /\ night' = [night EXCEPT ![o].at = "shift"] /\ "shift" \in NightSteps
    BY <1>5 DEF StartOwnShift, Compiled, At, NightSteps
  <2>2. /\ night'[o].at = "shift" /\ night'[o].graphs = night[o].graphs
        /\ \A q \in Operators : q # o => night'[q] = night[q]
    BY <2>1, StepIs
  <2> QED BY <2>1, <2>2, NightSteady
<1>6. ASSUME TellEnqueued(o) \/ TellRun(o) PROVE LaneInv'
  <2>1. UNCHANGED files /\ At(o, "over") /\ night[o].at \in {"compile", "record"}
    BY <1>6 DEF TellEnqueued, TellRun, Compiled
  <2>2. PICK kind, verdict : kind \in RunKinds /\ Append1(NightEvent(o, kind, verdict))
    <3>1. CASE TellEnqueued(o)
      <4>1. PICK verdict : Append1(NightEvent(o, "enqueue", verdict))
        BY <3>1 DEF TellEnqueued
      <4> QED BY <4>1 DEF RunKinds
    <3>2. CASE TellRun(o)
      <4>1. PICK verdict : Append1(NightEvent(o, "run", verdict))
        BY <3>2 DEF TellRun
      <4> QED BY <4>1 DEF RunKinds
    <3> QED BY <1>6, <3>1, <3>2
  <2> QED BY <2>1, <2>2, NightTold
<1> QED BY <1>1, <1>2, <1>3, <1>4, <1>5, <1>6, SteadyKeeps, CompileLanes DEF NightStep

LEMMA ShiftLanes ==
  ASSUME AccountInv, LaneInv, NEW p \in ShiftProcesses, ShiftStep(p)
  PROVE  LaneInv'
<1>1. ASSUME NEW g \in shift[p].todo, TakeFile(p, g) PROVE Steady
  <2>1. PICK f \in files : f.graph = g
    BY DEF AccountInv, ShiftOK, Lies
  <2>2. UNCHANGED <<night, ledger>>
    BY <1>1 DEF TakeFile
  <2>3. PICK b : files' = Moved(g, b)
    BY <1>1 DEF TakeFile
  <2> QED BY <2>1, <2>2, <2>3, MoveSteady
<1>2. ASSUME NEW b, RouteFile(p, b) PROVE Steady
  <2>1. UNCHANGED <<night, ledger>> /\ files' = Moved(shift[p].graph, b)
        /\ shift[p].at = "running"
    BY <1>2 DEF RouteFile
  <2>2. PICK f \in files : f.graph = shift[p].graph
    BY <2>1 DEF AccountInv, ShiftOK, Lies
  <2> QED BY <2>1, <2>2, MoveSteady
<1>3. ASSUME TellOutcome(p) PROVE Steady
  <2>1. UNCHANGED <<night, files>> /\ shift[p].at = "tell"
    BY <1>3 DEF TellOutcome
  <2>2. shift[p].to \in Outcomes
    BY <2>1 DEF AccountInv, ShiftOK
  <2>3. PICK e : ledger' = Append(ledger, e) /\ e.kind = shift[p].to
    BY <1>3 DEF TellOutcome, Append1
  <2>4. e.kind \notin RunKinds
    BY <2>2, <2>3 DEF RunKinds, Outcomes
  <2> QED BY <2>1, <2>3, <2>4, ShiftSteady
<1>4. ASSUME EndShift(p) PROVE Steady
  <2>1. PICK e : ledger' = Append(ledger, e) /\ e.kind = "shift_end"
    BY <1>4 DEF EndShift, Append1
  <2>2. e.kind \notin RunKinds
    BY <2>1 DEF RunKinds
  <2>3. files' = files /\ shift[p].at = "next"
    BY <1>4 DEF EndShift
  <2>4. CASE p = Launchd
    <3>1. night' = night
      BY <1>4, <2>4 DEF EndShift
    <3> QED BY <2>1, <2>2, <2>3, <3>1, ShiftSteady
  <2>5. CASE p # Launchd
    <3>1. p \in Operators
      BY <2>5 DEF ShiftProcesses
    <3>2. night = [q \in Operators |-> night[q]] /\ IsNight(night[p]) /\ night[p].at = "shift"
      BY <2>3, <3>1 DEF AccountInv, AccountTyped, NightOK
    <3>3. PICK tally, skipped :
            night' = [night EXCEPT ![p].at = "record", ![p].shift = tally, ![p].skipped = skipped]
      BY <1>4, <2>5 DEF EndShift
    <3>4. PICK n : n = [night[p] EXCEPT !.at = "record", !.shift = tally, !.skipped = skipped]
      OBVIOUS
    <3>5. n.at = "record" /\ n.graphs = night[p].graphs
      BY <3>2, <3>4 DEF IsNight
    <3>6. night' = [night EXCEPT ![p] = n]
      BY <3>2, <3>3, <3>4
    <3>7. night'[p] = n /\ \A q \in Operators : q # p => night'[q] = night[q]
      BY <3>1, <3>2, <3>6
    <3>8. \A o \in Operators : /\ night'[o].graphs = night[o].graphs
                               /\ (night'[o].at = "over") <=> (night[o].at = "over")
      BY <3>2, <3>5, <3>7
    <3> QED BY <2>1, <2>2, <2>3, <3>8, ShiftSteady
  <2> QED BY <2>4, <2>5
<1> QED BY <1>1, <1>2, <1>3, <1>4, SteadyKeeps DEF ShiftStep

LEMMA LanesNext ==
  ASSUME SweepInv, AccountInv, LaneInv, [OvernightNext]_overnightVars
  PROVE  LaneInv'
<1>1. CASE UNCHANGED <<night, files, ledger>>
  BY <1>1, ShiftSteady, SteadyKeeps
<1>2. CASE UNCHANGED overnightVars
  BY <1>1, <1>2 DEF overnightVars, nightVars
<1>3. CASE OtherStoreStep /\ UNCHANGED <<sweep, nightVars>>
  BY <1>1, <1>3 DEF nightVars
<1>4. ASSUME NEW c \in Commands, NEW k \in Classes, SubmitOne(c, k) PROVE LaneInv'
  BY <1>1, <1>4 DEF SubmitOne
<1>5. ASSUME NEW o \in Operators, NightStep(o) PROVE LaneInv'
  BY <1>5, NightLanes
<1>6. ASSUME NEW o \in Operators, SweepingNightDies(o) \/ NightDies(o) PROVE LaneInv'
  <2>1. UNCHANGED <<files, ledger>> /\ night' = [night EXCEPT ![o].at = "dead"]
    BY <1>6 DEF SweepingNightDies, NightDies, At
  <2>2. night[o].at # "over"
    <3>1. CASE SweepingNightDies(o)
      <4>1. sweep[o].state = "sweeping"
        BY <3>1 DEF SweepInv, CallOK, Busy, SweepingNightDies, SweeperDies, OperatorDies
      <4> QED BY <4>1, SweepingIs
    <3>2. CASE NightDies(o)
      BY <3>2 DEF NightDies
    <3> QED BY <1>6, <3>1, <3>2
  <2>3. "dead" \in NightSteps
    BY DEF NightSteps
  <2>4. /\ night'[o].at = "dead" /\ night'[o].graphs = night[o].graphs
        /\ \A q \in Operators : q # o => night'[q] = night[q]
    BY <2>1, <2>3, StepIs
  <2> QED BY <2>1, <2>2, <2>4, NightSteady, SteadyKeeps
<1>7. CASE StartLaunchdShift \/ ShiftDies
  BY <1>1, <1>7 DEF StartLaunchdShift, ShiftDies
<1>8. ASSUME NEW content \in HandGraphs, EnqueueByHand(content) PROVE LaneInv'
  <2>1. UNCHANGED <<night, ledger>>
    BY <1>8 DEF EnqueueByHand
  <2>2. PICK m : m.graph = <<Launchd, budget.hand>> /\ files' = files \cup {m}
    BY <1>8 DEF EnqueueByHand
  <2>3. m.graph[1] \notin Operators
    BY <2>2, LaunchdAssumption
  <2>4. \A g \in files' :
          g.graph[1] \in Operators => \E f \in files : f.graph = g.graph /\ f.content = g.content
    BY <2>2, <2>3
  <2>5. \A f \in files : \E g \in files' : g.graph = f.graph
    BY <2>2
  <2> QED BY <2>1, <2>4, <2>5, ShiftSteady, SteadyKeeps
<1>9. ASSUME NEW p \in ShiftProcesses, ShiftStep(p) PROVE LaneInv'
  BY <1>9, ShiftLanes
<1> QED BY <1>2, <1>3, <1>4, <1>5, <1>6, <1>7, <1>8, <1>9 DEF OvernightNext

-----------------------------------------------------------------------------
(* The debt.                                                               *)

LEMMA InitDebts == OvernightInit => DebtInv
<1> SUFFICES ASSUME OvernightInit PROVE DebtInv
  OBVIOUS
<1>1. Present = {} /\ Told(RunKinds) = {}
  BY EmptyIs DEF OvernightInit, PreflightInit, Init, Present, Told
<1>2. \A o \in Operators : night[o].manual = 0
  BY DEF OvernightInit, NoNight
<1> QED BY <1>1, <1>2, FS_EmptySet DEF DebtInv

(* A step adds one command at most.                                        *)
Adds(n) == \A c \in Commands : status'[c] # "absent" => status[c] # "absent" \/ c = n

LEMMA StoreAdds ==
  ASSUME SweepInv, OtherStoreStep, UNCHANGED <<sweep, budget>>
  PROVE  \E n : Adds(n)
<1>1. UNCHANGED status => Adds(None)
  BY DEF Adds
<1>2. CASE \/ \E w \in Workers : Heartbeat(w)
           \/ \E c \in Commands : LeaseLapses(c)
  BY <1>1, <1>2 DEF Heartbeat, LeaseLapses
<1>3. CASE \E w \in Workers : \/ \E wanted \in Commands \cup {None} : Claim(w, wanted)
                              \/ WorkerStep(w) \/ WorkerDies(w)
  <2>1. WorkerMove
    BY <1>3, WorkersMove
  <2>2. Adds(None)
    BY <2>1 DEF WorkerMove, Adds
  <2> QED BY <2>2
<1>4. ASSUME NEW o \in Operators, OperatorStep(o) PROVE \E n : Adds(n)
  <2>1. op[o].pc \in RequeueSteps
    BY DEF SweepInv, CallOK
  <2>2. ~(ReadTokens(o) \/ ConsumeToken(o) \/ ResumeWrite(o) \/ ResumeMark(o))
    BY <2>1 DEF ReadTokens, ConsumeToken, ResumeWrite, ResumeMark, RequeueSteps
  <2>3. CASE CancelRead(o) \/ CancelMark(o)
    <3>1. UNCHANGED status
      <4>1. CASE CancelRead(o)
        BY <4>1 DEF CancelRead, storeVars, rowVars
      <4>2. CASE CancelMark(o)
        BY <4>2, <2>1 DEF CancelMark, RequeueSteps, SweepInv, CallOK, Busy
      <4> QED BY <2>3, <4>1, <4>2
    <3> QED BY <1>1, <3>1
  <2>4. CASE CancelWrite(o)
    <3>1. status' = [status EXCEPT ![op[o].cmd] = "canceled"]
      BY <2>4 DEF CancelWrite
    <3>2. Adds(op[o].cmd)
      BY <3>1 DEF Adds, SweepInv, SweepTyped
    <3> QED BY <3>2
  <2>5. ASSUME NEW n \in Commands, SubmitReplacement(o, n) PROVE Adds(n)
    <3>1. PICK k, src : Insert(n, k, src)
      BY <2>5 DEF SubmitReplacement
    <3>2. status' = [status EXCEPT ![n] = InitialStatus(k)]
      BY <3>1 DEF Insert
    <3> QED BY <3>2 DEF Adds, SweepInv, SweepTyped
  <2> QED BY <1>4, <2>2, <2>3, <2>4, <2>5 DEF OperatorStep
<1> QED BY <1>2, <1>3, <1>4 DEF OtherStoreStep

LEMMA OneAdded ==
  ASSUME SweepInv, [OvernightNext]_overnightVars
  PROVE  \E n : Adds(n)
<1>1. UNCHANGED <<status, source, worker, op, sweep>> \/ UNCHANGED status => Adds(None)
  BY DEF Adds
<1>2. CASE UNCHANGED preflightVars
  BY <1>1, <1>2, RestIs
<1>3. CASE UNCHANGED overnightVars
  BY <1>2, <1>3 DEF overnightVars
<1>4. CASE OtherStoreStep /\ UNCHANGED <<sweep, nightVars>>
  BY <1>4, StoreAdds DEF nightVars
<1>5. ASSUME NEW c \in Commands, NEW k \in Classes, SubmitOne(c, k) PROVE Adds(c)
  <2>1. status' = [status EXCEPT ![c] = InitialStatus(k)]
    BY <1>5 DEF SubmitOne, Submit, Insert
  <2> QED BY <2>1 DEF Adds, SweepInv, SweepTyped
<1>6. ASSUME NEW o \in Operators, NightStep(o) PROVE Adds(None)
  <2>1. UNCHANGED vars => UNCHANGED status
    BY DEF vars, storeVars, rowVars
  <2>2. ASSUME NEW mode, NEW limit, NEW hours, StartNight(o, mode, limit, hours)
        PROVE  UNCHANGED status
    BY <2>1, <2>2, RestIs DEF StartNight, DryPreflight, StartSweep
  <2>3. ASSUME NEW c \in Commands, RequeueItem(o, c) \/ LeaveItem(o, c) PROVE UNCHANGED status
    BY <2>1, <2>3 DEF RequeueItem, LeaveItem, Remediate, LeaveManual, Begin, storeVars, rowVars
  <2>4. SweepRead(o) \/ FinishSweep(o) => UNCHANGED status
    BY <2>1 DEF SweepRead, FinishSweep, RequeueRead, EndSweep, storeVars, rowVars
  <2>5. ASSUME NEW sight, Plan(o, sight) PROVE UNCHANGED status
    BY <2>5, RestIs DEF Plan
  <2>6. CompileNext(o) \/ TellEnqueued(o) \/ StartOwnShift(o) \/ TellRun(o) => UNCHANGED status
    BY RestIs DEF CompileNext, TellEnqueued, StartOwnShift, TellRun
  <2> QED BY <1>1, <1>6, <2>2, <2>3, <2>4, <2>5, <2>6 DEF NightStep
<1>7. ASSUME NEW o \in Operators, SweepingNightDies(o) \/ NightDies(o) PROVE Adds(None)
  BY <1>1, <1>7 DEF SweepingNightDies, SweeperDies, OperatorDies, NightDies, storeVars, rowVars
<1>8. ShiftDies => Adds(None)
  BY <1>1 DEF ShiftDies, storeVars, rowVars
<1>9. ASSUME NEW content \in HandGraphs, EnqueueByHand(content) PROVE UNCHANGED preflightVars
  BY <1>9 DEF EnqueueByHand
<1>10. StartLaunchdShift => UNCHANGED preflightVars
  BY DEF StartLaunchdShift
<1>11. ASSUME NEW p \in ShiftProcesses, ShiftStep(p) PROVE UNCHANGED preflightVars
  BY <1>11 DEF ShiftStep, TakeFile, RouteFile, TellOutcome, EndShift
<1> QED BY <1>2, <1>3, <1>4, <1>5, <1>6, <1>7, <1>8, <1>9, <1>10, <1>11 DEF OvernightNext

(* One night changes, and what it left to the operator is a number.        *)
LEMMA NightDebt ==
  ASSUME AccountInv, DebtInv, NEW o \in Operators, NEW n, n.manual \in Nat,
         night' = [night EXCEPT ![o] = n]
  PROVE  \A q \in Operators : night'[q].manual \in Nat
<1>1. night' = [q \in Operators |-> IF q = o THEN n ELSE night[q]]
  BY DEF AccountInv, AccountTyped
<1> QED BY <1>1 DEF DebtInv

LEMMA StepDebt ==
  ASSUME AccountInv, DebtInv, NEW o \in Operators, NEW step, night' = [night EXCEPT ![o].at = step]
  PROVE  \A q \in Operators : night'[q].manual \in Nat
<1>1. IsNight(night[o]) /\ night[o].manual \in Nat
  BY DEF AccountInv, AccountTyped, DebtInv
<1>2. PICK n : n = [night[o] EXCEPT !.at = step]
  OBVIOUS
<1>3. n.manual \in Nat
  BY <1>1, <1>2 DEF IsNight
<1>4. night' = [night EXCEPT ![o] = n]
  BY <1>2
<1> QED BY <1>3, <1>4, NightDebt

LEMMA NightDebts ==
  ASSUME AccountInv, DebtInv, NEW o \in Operators, NightStep(o)
  PROVE  \A q \in Operators : night'[q].manual \in Nat
<1>1. IsNight(night[o]) /\ night[o].manual \in Nat /\ night = [q \in Operators |-> night[q]]
  BY DEF AccountInv, AccountTyped, DebtInv
<1>2. ASSUME NEW mode, NEW limit, NEW hours, StartNight(o, mode, limit, hours)
      PROVE  \A q \in Operators : night'[q].manual \in Nat
  <2>1. PICK start : start = [NoNight EXCEPT !.at = "preflight", !.mode = mode, !.limit = limit,
                                            !.hours = hours]
    OBVIOUS
  <2>2. start.manual \in Nat
    BY <2>1 DEF NoNight
  <2>3. CASE mode \in {"dry enqueue", "dry run"}
    <3>1. DryPreflight(o, start)
      BY <1>2, <2>1, <2>3 DEF StartNight
    <3>2. PICK stale \in SUBSET Open, requeued \in SUBSET Commands :
            night' = [night EXCEPT ![o] = [start EXCEPT !.at = "plan",
                        !.automated = Cardinality(requeued),
                        !.manual = Cardinality(stale \ requeued)]]
      BY <3>1 DEF DryPreflight
    <3>3. PICK m : m = Cardinality(stale \ requeued)
      OBVIOUS
    <3>4. m \in Nat
      <4>1. stale \ requeued \in SUBSET Present
        BY DEF Open, Present
      <4> QED BY <3>3, <4>1, FS_Subset, FS_CardinalityType DEF DebtInv
    <3>5. PICK n : n = [start EXCEPT !.at = "plan", !.automated = Cardinality(requeued), !.manual = m]
      OBVIOUS
    <3>6. n.manual = m
      BY <2>1, <3>5 DEF NoNight
    <3>7. night' = [night EXCEPT ![o] = n]
      BY <3>2, <3>3, <3>5
    <3> QED BY <3>4, <3>6, <3>7, NightDebt
  <2>4. CASE mode \notin {"dry enqueue", "dry run"}
    <3>1. night' = [night EXCEPT ![o] = start]
      BY <1>2, <2>1, <2>4 DEF StartNight
    <3> QED BY <2>2, <3>1, NightDebt
  <2> QED BY <2>3, <2>4
<1>3. ASSUME NEW c \in Commands, RequeueItem(o, c)
      PROVE  \A q \in Operators : night'[q].manual \in Nat
  <2>1. PICK n : n = [night[o] EXCEPT !.automated = @ + 1] /\ night' = [night EXCEPT ![o] = n]
    BY <1>3 DEF RequeueItem
  <2>2. n.manual = night[o].manual
    BY <1>1, <2>1 DEF IsNight
  <2>3. n.manual \in Nat
    BY <1>1, <2>2
  <2> QED BY <2>1, <2>3, NightDebt
<1>4. ASSUME NEW c \in Commands, LeaveItem(o, c)
      PROVE  \A q \in Operators : night'[q].manual \in Nat
  <2>1. PICK n : n = [night[o] EXCEPT !.manual = @ + 1] /\ night' = [night EXCEPT ![o] = n]
    BY <1>4 DEF LeaveItem
  <2>2. n.manual = night[o].manual + 1
    BY <1>1, <2>1 DEF IsNight
  <2>3. n.manual \in Nat
    BY <1>1, <2>2
  <2> QED BY <2>1, <2>3, NightDebt
<1>5. ASSUME SweepRead(o) \/ FinishSweep(o) \/ StartOwnShift(o) \/ TellEnqueued(o) \/ TellRun(o)
      PROVE  \A q \in Operators : night'[q].manual \in Nat
  <2>1. PICK step : night' = [night EXCEPT ![o].at = step]
    <3>1. CASE SweepRead(o)
      BY <3>1 DEF SweepRead
    <3> QED BY <1>5, <3>1 DEF FinishSweep, StartOwnShift, TellEnqueued, TellRun, At
  <2> QED BY <2>1, StepDebt
<1>6. ASSUME NEW sight, Plan(o, sight) PROVE \A q \in Operators : night'[q].manual \in Nat
  <2>1. PICK plan, n : /\ n = [night[o] EXCEPT !.at = "compile", !.plan = plan]
                       /\ night' = [night EXCEPT ![o] = n]
    BY <1>1, <1>6 DEF Plan
  <2>2. n.manual = night[o].manual
    BY <1>1, <2>1 DEF IsNight
  <2> QED BY <1>1, <2>1, <2>2, NightDebt
<1>7. ASSUME CompileNext(o) PROVE \A q \in Operators : night'[q].manual \in Nat
  <2>1. PICK r : night' = [night EXCEPT ![o].graphs = Append(@, r)]
    BY <1>7, Zenon DEF CompileNext
  <2>2. PICK gs, n : n = [night[o] EXCEPT !.graphs = gs] /\ night' = [night EXCEPT ![o] = n]
    BY <1>1, <2>1
  <2>3. n.manual = night[o].manual
    BY <1>1, <2>2 DEF IsNight
  <2> QED BY <1>1, <2>2, <2>3, NightDebt
<1> QED BY <1>2, <1>3, <1>4, <1>5, <1>6, <1>7 DEF NightStep

LEMMA EndShiftDebt ==
  ASSUME AccountInv, DebtInv, NEW p \in ShiftProcesses, EndShift(p)
  PROVE  \A q \in Operators : night'[q].manual \in Nat
<1>1. CASE p = Launchd
  BY <1>1 DEF EndShift, DebtInv
<1>2. CASE p # Launchd
  <2>1. p \in Operators
    BY <1>2 DEF ShiftProcesses
  <2>2. IsNight(night[p]) /\ night[p].manual \in Nat /\ night = [q \in Operators |-> night[q]]
    BY <2>1 DEF AccountInv, AccountTyped, DebtInv
  <2>3. PICK tally, skipped :
          night' = [night EXCEPT ![p].at = "record", ![p].shift = tally, ![p].skipped = skipped]
    BY <1>2 DEF EndShift
  <2>4. PICK n : n = [night[p] EXCEPT !.at = "record", !.shift = tally, !.skipped = skipped]
    OBVIOUS
  <2>5. night' = [night EXCEPT ![p] = n]
    BY <2>2, <2>3, <2>4
  <2>6. n.manual \in Nat
    BY <2>2, <2>4 DEF IsNight
  <2> QED BY <2>1, <2>5, <2>6, NightDebt
<1> QED BY <1>1, <1>2

(* What nights tell of their debt.                                         *)
LEMMA DebtsTold ==
  ASSUME AccountInv, DebtInv,
         \/ ledger' = ledger
         \/ \E e : ledger' = Append(ledger, e) /\ (e.kind \in RunKinds => e.manual \in Nat)
  PROVE  \A i \in Told(RunKinds)' : ledger'[i].manual \in Nat
<1>1. CASE ledger' = ledger
  BY <1>1 DEF Told, DebtInv
<1>2. CASE \E e : ledger' = Append(ledger, e) /\ (e.kind \in RunKinds => e.manual \in Nat)
  <2>1. PICK e : ledger' = Append(ledger, e) /\ (e.kind \in RunKinds => e.manual \in Nat)
    BY <1>2
  <2>2. PICK n : n = Len(ledger) + 1
    OBVIOUS
  <2>3. /\ ledger'[n] = e /\ \A i \in Told(RunKinds) : ledger'[i] = ledger[i]
        /\ Told(RunKinds)' = Told(RunKinds) \cup (IF e.kind \in RunKinds THEN {n} ELSE {})
    BY <2>1, <2>2, TellsOne
  <2>4. ASSUME NEW i \in Told(RunKinds)' PROVE ledger'[i].manual \in Nat
    <3>1. CASE i \in Told(RunKinds)
      BY <2>3, <3>1 DEF DebtInv
    <3>2. CASE i \notin Told(RunKinds)
      <4>1. i = n /\ e.kind \in RunKinds
        BY <2>3, <2>4, <3>2
      <4> QED BY <2>1, <2>3, <4>1
    <3> QED BY <3>1, <3>2
  <2> QED BY <2>4
<1> QED BY <1>1, <1>2

LEMMA DebtsNext ==
  ASSUME SweepInv, AccountInv, DebtInv, [OvernightNext]_overnightVars
  PROVE  DebtInv'
<1>1. IsFiniteSet(Present')
  <2>1. PICK n : Adds(n)
    BY OneAdded
  <2>2. PICK P, Q : P = Present \cup {n} /\ Q = Present'
    OBVIOUS
  <2>3. Q \in SUBSET P
    BY <2>1, <2>2 DEF Present, Adds
  <2>4. IsFiniteSet(P)
    BY <2>2, FS_AddElement DEF DebtInv
  <2> QED BY <2>2, <2>3, <2>4, FS_Subset
<1>2. CASE UNCHANGED <<night, ledger>>
  <2>1. Told(RunKinds)' = Told(RunKinds)
    BY <1>2 DEF Told
  <2> QED BY <1>1, <1>2, <2>1 DEF DebtInv
<1>3. CASE UNCHANGED overnightVars
  BY <1>2, <1>3 DEF overnightVars, nightVars
<1>4. CASE OtherStoreStep /\ UNCHANGED <<sweep, nightVars>>
  BY <1>2, <1>4 DEF nightVars
<1>5. ASSUME NEW c \in Commands, NEW k \in Classes, SubmitOne(c, k) PROVE DebtInv'
  BY <1>2, <1>5 DEF SubmitOne
<1>6. ASSUME NEW o \in Operators, NightStep(o) PROVE DebtInv'
  <2>1. \/ ledger' = ledger
        \/ \E e : ledger' = Append(ledger, e) /\ (e.kind \in RunKinds => e.manual \in Nat)
    <3>1. CASE TellEnqueued(o) \/ TellRun(o)
      <4>1. PICK kind, verdict : Append1(NightEvent(o, kind, verdict))
        BY <3>1 DEF TellEnqueued, TellRun
      <4>2. PICK e : ledger' = Append(ledger, e) /\ e.manual = night[o].manual
        BY <4>1 DEF Append1, NightEvent
      <4> QED BY <4>2 DEF DebtInv
    <3>2. ASSUME NEW mode, NEW limit, NEW hours, StartNight(o, mode, limit, hours)
          PROVE  ledger' = ledger
      BY <3>2 DEF StartNight
    <3>3. ASSUME NEW c \in Commands, RequeueItem(o, c) \/ LeaveItem(o, c) PROVE ledger' = ledger
      BY <3>3 DEF RequeueItem, LeaveItem
    <3>4. ASSUME NEW sight, Plan(o, sight) PROVE ledger' = ledger
      BY <3>4 DEF Plan
    <3>5. SweepRead(o) \/ FinishSweep(o) \/ CompileNext(o) \/ StartOwnShift(o) => ledger' = ledger
      BY DEF SweepRead, FinishSweep, CompileNext, StartOwnShift
    <3> QED BY <1>6, <3>1, <3>2, <3>3, <3>4, <3>5 DEF NightStep
  <2>2. \A i \in Told(RunKinds)' : ledger'[i].manual \in Nat
    BY <2>1, DebtsTold
  <2>3. \A q \in Operators : night'[q].manual \in Nat
    BY <1>6, NightDebts
  <2> QED BY <1>1, <2>2, <2>3 DEF DebtInv
<1>7. ASSUME NEW o \in Operators, SweepingNightDies(o) \/ NightDies(o) PROVE DebtInv'
  <2>1. ledger' = ledger /\ night' = [night EXCEPT ![o].at = "dead"]
    BY <1>7 DEF SweepingNightDies, NightDies, At
  <2>2. \A i \in Told(RunKinds)' : ledger'[i].manual \in Nat
    BY <2>1, DebtsTold
  <2>3. \A q \in Operators : night'[q].manual \in Nat
    BY <2>1, StepDebt
  <2> QED BY <1>1, <2>2, <2>3 DEF DebtInv
<1>8. CASE StartLaunchdShift \/ ShiftDies
  BY <1>2, <1>8 DEF StartLaunchdShift, ShiftDies
<1>9. ASSUME NEW content \in HandGraphs, EnqueueByHand(content) PROVE DebtInv'
  BY <1>2, <1>9 DEF EnqueueByHand
<1>10. ASSUME NEW p \in ShiftProcesses, ShiftStep(p) PROVE DebtInv'
  <2>1. ASSUME (\E g : TakeFile(p, g)) \/ (\E b : RouteFile(p, b)) PROVE DebtInv'
    BY <1>2, <2>1 DEF TakeFile, RouteFile
  <2>2. ASSUME TellOutcome(p) PROVE DebtInv'
    <3>1. night' = night /\ shift[p].at = "tell"
      BY <2>2 DEF TellOutcome
    <3>2. shift[p].to \in Outcomes
      BY <3>1 DEF AccountInv, ShiftOK
    <3>3. PICK e : ledger' = Append(ledger, e) /\ e.kind = shift[p].to
      BY <2>2 DEF TellOutcome, Append1
    <3>4. e.kind \notin RunKinds
      BY <3>2, <3>3 DEF RunKinds, Outcomes
    <3>5. \A i \in Told(RunKinds)' : ledger'[i].manual \in Nat
      BY <3>3, <3>4, DebtsTold
    <3> QED BY <1>1, <3>1, <3>5 DEF DebtInv
  <2>3. ASSUME EndShift(p) PROVE DebtInv'
    <3>1. PICK e : ledger' = Append(ledger, e) /\ e.kind = "shift_end"
      BY <2>3 DEF EndShift, Append1
    <3>2. e.kind \notin RunKinds
      BY <3>1 DEF RunKinds
    <3>3. \A i \in Told(RunKinds)' : ledger'[i].manual \in Nat
      BY <3>1, <3>2, DebtsTold
    <3>4. \A q \in Operators : night'[q].manual \in Nat
      BY <2>3, EndShiftDebt
    <3> QED BY <1>1, <3>3, <3>4 DEF DebtInv
  <2> QED BY <1>10, <2>1, <2>2, <2>3 DEF ShiftStep
<1> QED BY <1>3, <1>4, <1>5, <1>6, <1>7, <1>8, <1>9, <1>10 DEF OvernightNext

-----------------------------------------------------------------------------
(* The brief is honest: the list.                                          *)

LEMMA LedgerIs ==
  ASSUME AccountInv
  PROVE  /\ Len(ledger) \in Nat
         /\ \A kinds : Of(1, kinds) = Told(kinds) /\ Told(kinds) \in SUBSET Nat
                       /\ IsFiniteSet(Told(kinds))
<1>1. PICK n : n = Len(ledger)
  OBVIOUS
<1>2. n \in Nat
  BY <1>1, AppendIs DEF AccountInv, AccountTyped
<1>3. ASSUME NEW kinds
      PROVE  /\ Of(1, kinds) = Told(kinds) /\ Told(kinds) \in SUBSET Nat
             /\ IsFiniteSet(Told(kinds))
  <2>1. PICK T : T = Told(kinds)
    OBVIOUS
  <2>2. T \in SUBSET (1 .. n) /\ IsFiniteSet(1 .. n) /\ 1 .. n \subseteq Nat
    <3>1. IsFiniteSet(1 .. n) /\ 1 .. n \subseteq Nat
      BY <1>2, FS_Interval
    <3>2. T \in SUBSET (1 .. n)
      BY <1>1, <2>1 DEF Told
    <3> QED BY <3>1, <3>2
  <2>3. IsFiniteSet(T)
    BY <2>2, FS_Subset
  <2> QED BY <2>1, <2>2, <2>3 DEF Of, Since, Told
<1> QED BY <1>1, <1>2, <1>3

LEMMA ListIsNewest == ASSUME AccountInv, DebtInv PROVE NewestIsShown
<1>1. PICK n : n = Len(ledger) /\ n \in Nat
  BY LedgerIs
<1>2. ASSUME NEW s \in 1 .. n
      PROVE  ShowsNewest(ManualAttention(s), GhostItems(s) \cup DebtItems(s))
  <2>1. \A kinds : Of(s, kinds) \subseteq Told(kinds)
    BY <1>1 DEF Of, Since, Told
  <2>2. PICK G, D, shown : G = GhostItems(s) /\ D = DebtItems(s) /\ shown = ManualAttention(s)
    OBVIOUS
  <2>3. G \in SUBSET (Nat \X Nat) /\ IsFiniteSet(G)
    <3>1. PICK S : S = Of(s, Outcomes \ {"completed"})
      OBVIOUS
    <3>2. S \in SUBSET Nat /\ IsFiniteSet(S)
      <4>1. PICK T : T = Told(Outcomes \ {"completed"})
        OBVIOUS
      <4>2. T \in SUBSET Nat /\ IsFiniteSet(T) /\ S \in SUBSET T
        BY <2>1, <3>1, <4>1, LedgerIs
      <4> QED BY <4>2, FS_Subset
    <3>3. PICK h : h = [i \in S |-> <<i, 1>>]
      OBVIOUS
    <3>4. G = {h[i] : i \in S}
      BY <2>2, <3>1, <3>3 DEF GhostItems
    <3>5. G \in SUBSET (Nat \X Nat)
      BY <3>2, <3>3, <3>4
    <3> QED BY <3>2, <3>4, <3>5, ImageFinite
  <2>4. D \in SUBSET (Nat \X Nat) /\ IsFiniteSet(D)
    <3>1. PICK I : I = RunLike(s)
      OBVIOUS
    <3>2. I \in SUBSET Nat /\ IsFiniteSet(I) /\ I \subseteq Told(RunKinds)
      <4>1. PICK T : T = Told(RunKinds)
        OBVIOUS
      <4>2. I \subseteq Of(s, RunKinds)
        BY <3>1 DEF RunLike
      <4>3. T \in SUBSET Nat /\ IsFiniteSet(T) /\ I \in SUBSET T
        BY <2>1, <4>1, <4>2, LedgerIs
      <4> QED BY <4>1, <4>3, FS_Subset
    <3>3. PICK m : m = [i \in I |-> ledger[i].manual]
      OBVIOUS
    <3>4. \A i \in I : m[i] \in Nat /\ m[i] = ledger[i].manual
      BY <3>2, <3>3 DEF DebtInv
    <3>5. D = UNION {{i} \X (1 .. m[i]) : i \in I}
      BY <2>2, <3>1, <3>4 DEF DebtItems
    <3> QED BY <3>2, <3>4, <3>5, AmountsFinite
  <2>5. shown = Newest(Newest(G) \cup Newest(D))
    BY <2>2 DEF ManualAttention
  <2>6. ShowsNewest(shown, G \cup D)
    BY <2>3, <2>4, <2>5, NewestMerged
  <2> QED BY <2>2, <2>6
<1> QED BY <1>1, <1>2 DEF NewestIsShown, ShowsNewest

-----------------------------------------------------------------------------
(* The brief is honest: the outcomes.                                      *)

LEMMA ThreeParts ==
  ASSUME NEW A, NEW B, NEW C, IsFiniteSet(A), IsFiniteSet(B), IsFiniteSet(C),
         NEW D, D \subseteq A \cup B \cup C
  PROVE  Cardinality(D) <= Cardinality(A) + Cardinality(B) + Cardinality(C)
<1>1. /\ IsFiniteSet(A \cup B) /\ Cardinality(A \cup B) \in Nat
      /\ Cardinality(A \cup B) <= Cardinality(A) + Cardinality(B)
      /\ Cardinality(A) \in Nat /\ Cardinality(B) \in Nat /\ Cardinality(C) \in Nat
  <2>1. IsFiniteSet(A \cup B)
        /\ Cardinality(A \cup B) = Cardinality(A) + Cardinality(B) - Cardinality(A \cap B)
    BY FS_Union
  <2>2. IsFiniteSet(A \cap B)
    BY FS_Intersection
  <2>3. Cardinality(A \cap B) \in Nat /\ Cardinality(A) \in Nat /\ Cardinality(B) \in Nat
        /\ Cardinality(C) \in Nat
    BY <2>2, FS_CardinalityType
  <2>4. Cardinality(A \cup B) \in Nat
    BY <2>1, FS_CardinalityType
  <2> QED BY <2>1, <2>3, <2>4
<1>2. PICK U : U = A \cup B
  OBVIOUS
<1>3. /\ IsFiniteSet(U \cup C) /\ Cardinality(U \cup C) \in Nat
      /\ Cardinality(U \cup C) <= Cardinality(U) + Cardinality(C)
  <2>1. IsFiniteSet(U \cup C)
        /\ Cardinality(U \cup C) = Cardinality(U) + Cardinality(C) - Cardinality(U \cap C)
    BY <1>1, <1>2, FS_Union
  <2>2. IsFiniteSet(U \cap C)
    BY <1>1, <1>2, FS_Intersection
  <2>3. Cardinality(U \cap C) \in Nat /\ Cardinality(U \cup C) \in Nat
    BY <2>1, <2>2, FS_CardinalityType
  <2> QED BY <1>1, <1>2, <2>1, <2>3
<1>4. Cardinality(D) <= Cardinality(U \cup C) /\ Cardinality(D) \in Nat
  <2>1. D \in SUBSET (U \cup C)
    BY <1>2
  <2> QED BY <1>3, <2>1, FS_Subset, FS_CardinalityType
<1> QED BY <1>1, <1>2, <1>3, <1>4

(* The file of an event, and the event of a file.                          *)
LEMMA ShownFile ==
  ASSUME AccountInv, OutcomeInv, NEW i \in Told(Outcomes)
  PROVE  \E f \in files : /\ File(ledger[i].graph) = f
                          /\ f.graph = ledger[i].graph /\ f.dir = ledger[i].kind
                          /\ ledger[i].lane = EventLane(f.content)
                          /\ ledger[i].name = f.content.name
<1>1. PICK g : g = ledger[i].graph
  OBVIOUS
<1>2. PICK f \in files : /\ f.graph = g /\ f.dir = ledger[i].kind
                         /\ ledger[i].lane = EventLane(f.content)
                         /\ ledger[i].name = f.content.name
  BY <1>1 DEF OutcomeInv, Shows
<1>3. File(g) = f
  BY <1>2, FileIs
<1> QED BY <1>1, <1>2, <1>3

LEMMA ShownEvent ==
  ASSUME AccountInv, OutcomeInv, NEW f \in files, f.dir \in Outcomes, f \notin Lost,
         ~Telling(f.graph)
  PROVE  \E i \in Told({f.dir}) : ledger[i].graph = f.graph /\ ledger[i].lane = EventLane(f.content)
<1>1. PICK i \in Told(Outcomes) : ledger[i].graph = f.graph
  BY DEF Lost, Untold
<1>2. PICK h \in files : /\ h.graph = ledger[i].graph /\ h.dir = ledger[i].kind
                         /\ ledger[i].lane = EventLane(h.content)
  BY ShownFile
<1>3. h = f
  BY <1>1, <1>2 DEF AccountInv, FilesOK
<1>4. i \in Told({f.dir})
  BY <1>2, <1>3 DEF Told
<1> QED BY <1>1, <1>2, <1>3, <1>4

(* What is being told of: one file per process.                            *)
Flying == {f \in files : Telling(f.graph)}

LEMMA OneEach ==
  ASSUME AccountInv
  PROVE  /\ IsFiniteSet(Flying) /\ IsFiniteSet(InFlight)
         /\ Cardinality(Flying) <= Cardinality(InFlight)
<1>1. PICK F, P : F = Flying /\ P = InFlight
  OBVIOUS
<1>2. IsFiniteSet(files) /\ \A f, g \in files : f.graph = g.graph => f = g
  BY DEF AccountInv, FilesOK
<1>3. PICK m : m = [p \in P |-> File(shift[p].graph)]
  OBVIOUS
<1>4. ASSUME NEW p \in P PROVE m[p] \in files /\ m[p].queue = p
  <2>1. p \in ShiftProcesses /\ shift[p].at = "tell"
    BY <1>1 DEF InFlight
  <2>2. PICK g : g = shift[p].graph
    OBVIOUS
  <2>3. Lies(g, p, shift[p].to)
    BY <2>1, <2>2 DEF AccountInv, ShiftOK
  <2>4. PICK f \in files : f.graph = g /\ f.queue = p
    BY <2>3 DEF Lies
  <2>5. File(g) = f
    BY <2>4, FileIs
  <2> QED BY <1>3, <2>2, <2>4, <2>5
<1>5. \A p, q \in P : m[p] = m[q] => p = q
  BY <1>4
<1>6. IsFiniteSet(P)
  BY <1>2, <1>4, <1>5, Injects
<1>7. PICK w : w = [f \in F |-> CHOOSE p \in P : shift[p].graph = f.graph]
  OBVIOUS
<1>8. ASSUME NEW f \in F PROVE w[f] \in P /\ shift[w[f]].graph = f.graph
  <2>1. \E p \in P : shift[p].graph = f.graph
    BY <1>1 DEF Flying, Telling, InFlight
  <2> QED BY <1>7, <2>1
<1>9. \A f, g \in F : w[f] = w[g] => f = g
  BY <1>1, <1>2, <1>8 DEF Flying
<1> QED BY <1>1, <1>6, <1>8, <1>9, Injects

LEMMA FilesOfOutcomes ==
  ASSUME AccountInv, OutcomeInv, NEW K \in SUBSET Outcomes
  PROVE  LET E == {f \in files : f.dir \in K} IN
           /\ Cardinality(Told(K)) <= Cardinality(E)
           /\ Cardinality(E) <= Cardinality(Told(K)) + crashes + Cardinality(InFlight)
<1>1. PICK E, T : E = {f \in files : f.dir \in K} /\ T = Told(K)
  OBVIOUS
<1>2. IsFiniteSet(E) /\ \A f, g \in files : f.graph = g.graph => f = g
  <2>1. E \in SUBSET files /\ IsFiniteSet(files)
    BY <1>1 DEF AccountInv, FilesOK
  <2> QED BY <2>1, FS_Subset DEF AccountInv, FilesOK
<1>3. T \subseteq Told(Outcomes) /\ \A i \in T : ledger[i].kind \in K
  BY <1>1 DEF Told
<1>4. PICK m : m = [i \in T |-> File(ledger[i].graph)]
  OBVIOUS
<1>5. ASSUME NEW i \in T PROVE m[i] \in E /\ m[i].graph = ledger[i].graph
  <2>1. i \in Told(Outcomes)
    BY <1>3
  <2>2. PICK f \in files : /\ File(ledger[i].graph) = f
                           /\ f.graph = ledger[i].graph /\ f.dir = ledger[i].kind
    BY <2>1, ShownFile
  <2> QED BY <1>1, <1>3, <1>4, <2>2
<1>6. \A i, j \in T : m[i] = m[j] => i = j
  BY <1>3, <1>5 DEF OutcomeInv
<1>7. IsFiniteSet(T) /\ Cardinality(T) \in Nat /\ Cardinality(T) <= Cardinality(E)
  BY <1>2, <1>5, <1>6, Injects
<1>8. PICK R, L, F : R = (E \ Lost) \ Flying /\ L = Lost /\ F = Flying
  OBVIOUS
<1>9. PICK w : w = [f \in R |-> CHOOSE i \in T : ledger[i].graph = f.graph]
  OBVIOUS
<1>10. ASSUME NEW f \in R PROVE w[f] \in T /\ ledger[w[f]].graph = f.graph
  <2>1. f \in files /\ f.dir \in K /\ f.dir \in Outcomes /\ f \notin Lost /\ ~Telling(f.graph)
    BY <1>1, <1>8 DEF Flying
  <2>2. PICK i \in Told({f.dir}) : ledger[i].graph = f.graph
    BY <2>1, ShownEvent
  <2>3. i \in T
    BY <1>1, <2>1, <2>2 DEF Told
  <2> QED BY <1>9, <2>2, <2>3
<1>11. \A f, g \in R : w[f] = w[g] => f = g
  BY <1>1, <1>2, <1>8, <1>10
<1>12. IsFiniteSet(R) /\ Cardinality(R) \in Nat /\ Cardinality(R) <= Cardinality(T)
  BY <1>7, <1>10, <1>11, Injects
<1>13. IsFiniteSet(L) /\ Cardinality(L) \in Nat /\ Cardinality(L) <= crashes /\ crashes \in Nat
  BY <1>8, LostFinite DEF OutcomeInv
<1>14. IsFiniteSet(F) /\ Cardinality(F) \in Nat /\ Cardinality(InFlight) \in Nat
       /\ Cardinality(F) <= Cardinality(InFlight)
  BY <1>8, OneEach, FS_CardinalityType
<1>15. E \subseteq R \cup L \cup F
  BY <1>8
<1>16. Cardinality(E) <= Cardinality(R) + Cardinality(L) + Cardinality(F)
  BY <1>12, <1>13, <1>14, <1>15, ThreeParts
<1>17. Cardinality(E) \in Nat
  BY <1>2, FS_CardinalityType
<1>18. Cardinality(E) <= Cardinality(T) + crashes + Cardinality(InFlight)
  BY <1>7, <1>12, <1>13, <1>14, <1>16, <1>17
<1> QED BY <1>1, <1>7, <1>18

LEMMA OutcomesTold == ASSUME AccountInv, OutcomeInv, DebtInv PROVE OutcomesAreTold
<1>1. ASSUME NEW d \in Outcomes
      PROVE  LET n == Cardinality({f \in files : f.dir = d}) IN
               /\ Cardinality(Of(1, {d})) <= n
               /\ n <= Cardinality(Of(1, {d})) + crashes + Cardinality(InFlight)
  <2>1. Of(1, {d}) = Told({d}) /\ {d} \in SUBSET Outcomes
    BY LedgerIs
  <2>2. {f \in files : f.dir = d} = {f \in files : f.dir \in {d}}
    OBVIOUS
  <2> QED BY <2>1, <2>2, FilesOfOutcomes
<1>2. ASSUME BriefStatus(1) # "attention"
      PROVE  Cardinality({f \in files : f.dir \in Outcomes \ {"completed"}})
               <= crashes + Cardinality(InFlight)
  <2>1. PICK K, T, a : K = Outcomes \ {"completed"} /\ T = Told(K) /\ a = DebtAttention(1)
    OBVIOUS
  <2>2. Of(1, K) = T /\ IsFiniteSet(T)
    BY <2>1, LedgerIs
  <2>3. ~(Cardinality(T) + a > 0)
    BY <1>2, <2>1, <2>2 DEF BriefStatus, AttentionCount
  <2>4. Cardinality(T) \in Nat
    BY <2>2, FS_CardinalityType
  <2>5. a \in Nat
    <3>1. PICK I : I = RunLike(1) /\ I \subseteq Told(RunKinds)
      BY LedgerIs DEF RunLike
    <3>2. I \in SUBSET Nat /\ IsFiniteSet(I)
      <4>1. PICK S : S = Told(RunKinds)
        OBVIOUS
      <4>2. S \in SUBSET Nat /\ IsFiniteSet(S) /\ I \in SUBSET S
        BY <3>1, <4>1, LedgerIs
      <4> QED BY <4>2, FS_Subset
    <3>3. PICK m : m = [i \in I |-> ledger[i].manual]
      OBVIOUS
    <3>4. \A i \in I : m[i] \in Nat /\ m[i] = ledger[i].manual
      BY <3>1, <3>3 DEF DebtInv
    <3>5. DebtItems(1) = UNION {{i} \X (1 .. m[i]) : i \in I}
      BY <3>1, <3>4 DEF DebtItems
    <3>6. IsFiniteSet(DebtItems(1))
      BY <3>2, <3>4, <3>5, AmountsFinite
    <3> QED BY <2>1, <3>6, FS_CardinalityType DEF DebtAttention
  <2>6. Cardinality(T) = 0
    BY <2>3, <2>4, <2>5
  <2>7. crashes \in Nat /\ Cardinality(InFlight) \in Nat
    BY OneEach, FS_CardinalityType DEF OutcomeInv
  <2>8. Cardinality({f \in files : f.dir \in K}) <= Cardinality(T) + crashes + Cardinality(InFlight)
    BY <2>1, FilesOfOutcomes
  <2> QED BY <2>1, <2>6, <2>7, <2>8
<1> QED BY <1>1, <1>2 DEF OutcomesAreTold

-----------------------------------------------------------------------------
(* The brief is honest: the lanes.                                         *)

Mine(lane) == {f \in files : f.graph[1] \in Operators /\ f.content.action = lane}

(* What a night compiled into a lane and queued are its files of the lane. *)
LEMMA NightLane ==
  ASSUME AccountInv, LaneInv, NEW o \in Operators, NEW lane
  PROVE  LET mine == {f \in Mine(lane) : f.graph[1] = o} IN
           /\ IsFiniteSet(mine)
           /\ Cardinality(InLane(night[o].graphs, lane) \cap Queued(night[o].graphs))
                = Cardinality(mine)
<1>1. PICK S, gs : S = {f \in Mine(lane) : f.graph[1] = o} /\ gs = night[o].graphs
  OBVIOUS
<1>2. PICK T : T = InLane(gs, lane) \cap Queued(gs)
  OBVIOUS
<1>3. IsFiniteSet(S)
  <2>1. S \in SUBSET files /\ IsFiniteSet(files)
    BY <1>1 DEF Mine, AccountInv, FilesOK
  <2> QED BY <2>1, FS_Subset
<1>4. ASSUME NEW f \in S
      PROVE  f \in files /\ f.graph = <<o, f.graph[2]>> /\ f.graph[2] \in T
  <2>1. f \in files /\ f.graph[1] = o /\ f.content.action = lane
    BY <1>1 DEF Mine
  <2>2. FileOK(f)
    BY <2>1 DEF AccountInv, FilesOK
  <2>3. f.graph = <<o, f.graph[2]>> /\ f.graph[2] \in 1 .. Len(gs)
    <3>1. f.graph \in ShiftProcesses \X Nat
      BY <2>2 DEF FileOK, Graphs
    <3>2. f.graph = <<f.graph[1], f.graph[2]>>
      BY <3>1
    <3>3. f.graph[2] \in 1 .. Len(night[f.graph[1]].graphs)
      BY <2>1, <2>2 DEF FileOK
    <3> QED BY <1>1, <2>1, <3>2, <3>3
  <2>4. PICK c : c = gs[f.graph[2]]
    OBVIOUS
  <2>5. c.queued /\ f.content = NightContent(c.lane)
    BY <1>1, <2>1, <2>4 DEF LaneInv, Compiler
  <2>6. c.lane = lane
    BY <2>1, <2>5 DEF NightContent
  <2> QED BY <1>2, <2>1, <2>3, <2>4, <2>5, <2>6 DEF InLane, Queued
<1>5. PICK m : m = [f \in S |-> f.graph[2]]
  OBVIOUS
<1>6. \A f \in S : m[f] \in T /\ f.graph = <<o, m[f]>>
  BY <1>4, <1>5
<1>7. \A f, g \in S : m[f] = m[g] => f = g
  BY <1>4, <1>6 DEF AccountInv, FilesOK
<1>8. ASSUME NEW k \in T PROVE \E f \in S : m[f] = k
  <2>1. k \in Queued(gs) /\ gs[k].lane = lane
    BY <1>2 DEF InLane
  <2>2. PICK f \in files : f.graph = <<o, k>>
    BY <1>1, <2>1 DEF LaneInv
  <2>3. f.graph[1] = o /\ f.graph[2] = k
    BY <2>2
  <2>4. PICK c : c = gs[k]
    OBVIOUS
  <2>5. f.content = NightContent(c.lane)
    BY <1>1, <2>3, <2>4 DEF LaneInv, Compiler
  <2>6. f.content.action = lane
    BY <2>1, <2>4, <2>5 DEF NightContent
  <2>7. f \in S
    BY <1>1, <2>3, <2>6 DEF Mine
  <2> QED BY <1>5, <2>3, <2>7
<1>9. Cardinality(T) = Cardinality(S)
  <2>1. m \in Bijection(S, T)
    BY <1>5, <1>6, <1>7, <1>8 DEF Bijection, Injection, Surjection, IsInjective
  <2> QED BY <1>3, <2>1, FS_Bijection DEF ExistsBijection
<1> QED BY <1>1, <1>2, <1>3, <1>9

(* Every night told one event.                                             *)
LEMMA EachToldOnce ==
  ASSUME AccountInv, LaneInv PROVE RunLike(1) = Told(RunKinds)
<1>1. Of(1, RunKinds) = Told(RunKinds)
  BY LedgerIs
<1> QED BY <1>1 DEF RunLike, LaneInv

LEMMA LaneQueued ==
  ASSUME AccountInv, LaneInv, \A o \in Operators : night[o].at \in {"off", "over"},
         NEW lane \in Lanes
  PROVE  LaneOf(1, lane).queued = Cardinality(Mine(lane))
<1>1. PICK I, n, P : /\ I = Told(RunKinds)
                     /\ n = [i \in I |-> ledger[i].lanes[lane].queued]
                     /\ P = [i \in I |-> {f \in Mine(lane) : f.graph[1] = ledger[i].night}]
  OBVIOUS
<1>2. ASSUME NEW i \in I PROVE IsFiniteSet(P[i]) /\ Cardinality(P[i]) = n[i]
  <2>1. PICK o : o = ledger[i].night
    OBVIOUS
  <2>2. o \in Operators /\ ledger[i].lanes = LaneSummary(night[o].graphs)
    BY <1>1, <2>1 DEF LaneInv
  <2>3. n[i] = Cardinality(InLane(night[o].graphs, lane) \cap Queued(night[o].graphs))
    BY <1>1, <2>2 DEF LaneSummary
  <2>4. P[i] = {f \in Mine(lane) : f.graph[1] = o}
    BY <1>1, <2>1
  <2> QED BY <2>2, <2>3, <2>4, NightLane
<1>3. \A i, j \in I : \A x : x \in P[i] /\ x \in P[j] => i = j
  BY <1>1 DEF LaneInv
<1>4. IsFiniteSet(I)
  BY <1>1, LedgerIs
<1>5. Cardinality(UNION {{i} \X (1 .. n[i]) : i \in I}) = Cardinality(UNION {P[i] : i \in I})
  BY <1>2, <1>3, <1>4, SumsUp
<1>6. UNION {P[i] : i \in I} = Mine(lane)
  <2>1. ASSUME NEW f \in Mine(lane) PROVE \E i \in I : f \in P[i]
    <3>1. PICK o : o = f.graph[1]
      OBVIOUS
    <3>2. f \in files /\ o \in Operators /\ FileOK(f)
      BY <3>1 DEF Mine, AccountInv, FilesOK
    <3>3. f.graph[2] \in 1 .. Len(night[o].graphs)
      BY <3>1, <3>2 DEF FileOK
    <3>4. night[o].at # "off"
      <4>1. ASSUME night[o].at = "off" PROVE FALSE
        <5>1. night[o].graphs = <<>>
          BY <3>2, <4>1, NoNightIs DEF AccountInv, NightOK
        <5> QED BY <3>3, <5>1, EmptyIs
      <4> QED BY <4>1
    <3>5. PICK i \in I : ledger[i].night = o
      BY <1>1, <3>2, <3>4 DEF LaneInv
    <3> QED BY <1>1, <3>1, <3>5
  <2> QED BY <1>1, <2>1
<1>7. QueuedItems(1, lane) = UNION {{i} \X (1 .. n[i]) : i \in I}
  <2>1. RunLike(1) = I
    BY <1>1, EachToldOnce
  <2> QED BY <1>1, <2>1 DEF QueuedItems
<1> QED BY <1>5, <1>6, <1>7 DEF LaneOf

(* The lane an event shows is that of its file.                            *)
LEMMA LaneShown ==
  ASSUME AccountInv, OutcomeInv, LaneInv, NEW i \in Told(Outcomes),
         ledger[i].graph[1] \in Operators, NEW lane \in Lanes
  PROVE  \E f \in files : /\ File(ledger[i].graph) = f /\ f.dir = ledger[i].kind
                          /\ f.graph = ledger[i].graph
                          /\ (GhostLane(ledger[i]) = lane => f \in Mine(lane))
<1>1. PICK e : e = ledger[i]
  OBVIOUS
<1>2. PICK f \in files : /\ File(e.graph) = f /\ f.graph = e.graph /\ f.dir = e.kind
                         /\ e.lane = EventLane(f.content) /\ e.name = f.content.name
  BY <1>1, ShownFile
<1>3. PICK c : c = Compiler(f)
  OBVIOUS
<1>4. f.graph[1] \in Operators /\ f.content = NightContent(c.lane)
  BY <1>1, <1>2, <1>3 DEF LaneInv
<1>5. PICK l : l = c.lane /\ f.content.action = l /\ f.content.name = "overnight"
               /\ EventLane(f.content) = l
  BY <1>4 DEF NightContent, EventLane, OrElse
<1>6. ASSUME GhostLane(e) = lane PROVE l = lane
  <2>1. CASE e.lane # "none"
    BY <1>2, <1>5, <1>6, <2>1 DEF GhostLane
  <2>2. CASE e.lane = "none"
    <3>1. l = "none"
      BY <1>2, <1>5, <2>2
    <3>2. CASE Readable(e.graph) = {}
      BY <1>2, <1>5, <1>6, <2>2, <3>2 DEF GhostLane, Lanes
    <3>3. CASE Readable(e.graph) # {}
      <4>1. PICK h : h = CHOOSE g \in Readable(e.graph) : TRUE
        OBVIOUS
      <4>2. h \in files /\ h.graph = e.graph
        BY <3>3, <4>1 DEF Readable
      <4>3. h = f
        BY <1>2, <4>2 DEF AccountInv, FilesOK
      <4>4. InferredLane(f.content) = lane
        BY <1>6, <2>2, <3>3, <4>1, <4>3 DEF GhostLane
      <4>5. f.content = NightContent("none")
        BY <1>4, <1>5, <3>1
      <4>6. InferredLane(NightContent("none")) = "frontier"
        BY DEF InferredLane, NightContent, OrElse, NormalizedLane, GenericTools
      <4> QED BY <4>4, <4>5, <4>6 DEF Lanes
    <3> QED BY <3>2, <3>3
  <2> QED BY <2>1, <2>2
<1> QED BY <1>1, <1>2, <1>4, <1>5, <1>6 DEF Mine

LEMMA LaneEnded ==
  ASSUME AccountInv, OutcomeInv, LaneInv, NEW lane \in Lanes, NEW d \in Outcomes
  PROVE  Cardinality({f \in Mine(lane) : f.dir = d}) >=
           Cardinality({i \in Of(1, {d}) : ledger[i].graph[1] \in Operators
                                           /\ GhostLane(ledger[i]) = lane})
<1>1. PICK S, T : /\ S = {i \in Of(1, {d}) : ledger[i].graph[1] \in Operators
                                             /\ GhostLane(ledger[i]) = lane}
                  /\ T = {f \in Mine(lane) : f.dir = d}
  OBVIOUS
<1>2. IsFiniteSet(T)
  <2>1. T \in SUBSET files /\ IsFiniteSet(files)
    BY <1>1 DEF Mine, AccountInv, FilesOK
  <2> QED BY <2>1, FS_Subset
<1>3. Of(1, {d}) = Told({d})
  BY LedgerIs
<1>4. PICK m : m = [i \in S |-> File(ledger[i].graph)]
  OBVIOUS
<1>5. ASSUME NEW i \in S
      PROVE  i \in Told(Outcomes) /\ m[i] \in T /\ m[i].graph = ledger[i].graph
  <2>1. /\ i \in Told(Outcomes) /\ ledger[i].kind = d /\ ledger[i].graph[1] \in Operators
        /\ GhostLane(ledger[i]) = lane
    BY <1>1, <1>3 DEF Told
  <2>2. PICK f \in files : /\ File(ledger[i].graph) = f /\ f.dir = ledger[i].kind
                           /\ f.graph = ledger[i].graph
                           /\ (GhostLane(ledger[i]) = lane => f \in Mine(lane))
    BY <2>1, LaneShown
  <2> QED BY <1>1, <1>4, <2>1, <2>2
<1>6. \A i, j \in S : m[i] = m[j] => i = j
  BY <1>5 DEF OutcomeInv
<1>7. Cardinality(S) <= Cardinality(T) /\ Cardinality(S) \in Nat /\ Cardinality(T) \in Nat
  BY <1>2, <1>5, <1>6, Injects
<1> QED BY <1>1, <1>7

(* When nothing died and nothing is being told of, a lane with a failed    *)
(* file asks for attention.                                                *)
LEMMA LaneAsks ==
  ASSUME AccountInv, OutcomeInv, LaneInv, NEW lane \in Lanes, NEW f \in Mine(lane),
         f.dir = "failed", InFlight = {}, crashes = 0
  PROVE  LaneStatus(LaneOf(1, lane)) = "attention"
<1>1. f \in files /\ f.graph[1] \in Operators /\ f.content.action = lane
  BY DEF Mine
<1>2. ~Telling(f.graph)
  BY DEF InFlight, Telling
<1>3. f \notin Lost
  <2>1. IsFiniteSet(Lost) /\ Cardinality(Lost) \in Nat /\ Cardinality(Lost) <= 0
    BY LostFinite DEF OutcomeInv
  <2>2. Cardinality(Lost) = 0
    BY <2>1
  <2>3. Lost = {}
    BY <2>1, <2>2, FS_EmptySet
  <2> QED BY <2>3
<1>4. "failed" \in Outcomes \ {"completed"}
  BY DEF Outcomes
<1>5. PICK i \in Told({"failed"}) : ledger[i].lane = EventLane(f.content)
  BY <1>1, <1>2, <1>3, <1>4, ShownEvent
<1>6. PICK c : f.content = NightContent(c.lane)
  BY <1>1 DEF LaneInv
<1>7. EventLane(f.content) = lane /\ lane # "none"
  BY <1>1, <1>6 DEF NightContent, EventLane, OrElse, Lanes
<1>8. GhostLane(ledger[i]) = lane
  BY <1>5, <1>7 DEF GhostLane
<1>9. PICK S : S = {j \in Of(1, {"failed"}) : GhostLane(ledger[j]) = lane}
  OBVIOUS
<1>10. IsFiniteSet(S) /\ i \in S
  <2>1. PICK T : T = Told({"failed"})
    OBVIOUS
  <2>2. Of(1, {"failed"}) = T /\ IsFiniteSet(T)
    BY <2>1, LedgerIs
  <2>3. S \in SUBSET T
    BY <1>9, <2>2
  <2> QED BY <1>5, <1>8, <1>9, <2>1, <2>2, <2>3, FS_Subset
<1>11. Cardinality(S) > 0
  <2>1. Cardinality(S) \in Nat /\ Cardinality(S) # 0
    BY <1>10, FS_EmptySet, FS_CardinalityType
  <2> QED BY <2>1
<1>12. LaneOf(1, lane).ended["failed"] = Cardinality(S)
  BY <1>4, <1>9 DEF LaneOf
<1> QED BY <1>4, <1>11, <1>12 DEF LaneStatus

LEMMA LanesTold == ASSUME AccountInv, OutcomeInv, LaneInv PROVE LanesAgree
<1> SUFFICES ASSUME \A o \in Operators : night[o].at \in {"off", "over"}, NEW lane \in Lanes
             PROVE  LET mine == Mine(lane) IN
               /\ LaneOf(1, lane).queued = Cardinality(mine)
               /\ \A d \in Outcomes :
                    Cardinality({f \in mine : f.dir = d}) >=
                      Cardinality({i \in Of(1, {d}) : ledger[i].graph[1] \in Operators
                                                      /\ GhostLane(ledger[i]) = lane})
               /\ (\E f \in mine : f.dir = "failed") /\ InFlight = {} /\ crashes = 0 =>
                    LaneStatus(LaneOf(1, lane)) = "attention"
  BY DEF LanesAgree, Mine
<1> QED BY LaneQueued, LaneEnded, LaneAsks

(* What a brief says of outcomes and of lanes is true of the files, and    *)
(* what it lists is newest: whatever nights, shifts and graphs enqueued by *)
(* hand went on at once, and wherever a process was killed.                *)
THEOREM BriefAlwaysHonest == OvernightSpec => []BriefIsHonest
<1>1. OvernightInit => OutcomeInv /\ LaneInv /\ DebtInv
  BY InitOutcomes, InitLanes, InitDebts
<1>2. SweepInv /\ AccountInv /\ OutcomeInv /\ LaneInv /\ DebtInv
        /\ [OvernightNext]_overnightVars => OutcomeInv' /\ LaneInv' /\ DebtInv'
  BY OutcomesNext, LanesNext, DebtsNext
<1>3. AccountInv /\ OutcomeInv /\ LaneInv /\ DebtInv => BriefIsHonest
  BY OutcomesTold, LanesTold, ListIsNewest DEF BriefIsHonest
<1> QED BY <1>1, <1>2, <1>3, SweepsHold, AccountsHold, PTL DEF OvernightSpec

=============================================================================
