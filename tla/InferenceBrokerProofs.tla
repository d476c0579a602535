------------------------ MODULE InferenceBrokerProofs ------------------------
(***************************************************************************)
(* What the broker keeps for any number of calls, classes and models: its  *)
(* slots are exact, and its buckets implement the rate budget.             *)
(***************************************************************************)
EXTENDS InferenceBroker, FiniteSetTheorems, TLAPS

LEMMA FullIsNat == ASSUME NEW m \in Models PROVE Full(m) \in Nat /\ Full(m) >= RefillTicks
<1>1. Capacity[m] \in Nat /\ Capacity[m] >= 1 /\ RefillTicks \in Nat /\ RefillTicks >= 1
  BY BrokerAssumption
<1>2. \A a, b \in Nat : a >= 1 => a * b \in Nat /\ a * b >= b
  OBVIOUS
<1> QED  BY <1>1, <1>2 DEF Full

(* A call that runs has a model, and the first candidate is one.           *)
LEMMA CandidatesHave ==
  ASSUME NEW c \in Calls
  PROVE  /\ Len(Candidates[ClassOf[c]]) \in Nat
         /\ DOMAIN Candidates[ClassOf[c]] = 1 .. Len(Candidates[ClassOf[c]])
         /\ 1 \in DOMAIN Candidates[ClassOf[c]]
         /\ \A i \in DOMAIN Candidates[ClassOf[c]] : Candidates[ClassOf[c]][i] \in Models
<1>1. Candidates[ClassOf[c]] \in Seq(Models) /\ Candidates[ClassOf[c]] # <<>>
  BY BrokerAssumption
<1> QED  BY <1>1

CallRecord == [at : CallSteps, model : Nat, tries : Nat, wait : Nat]

(* A call that is inside has a candidate and an attempt; one that waits    *)
(* for its slot will begin with the first.                                 *)
CallInv(c) ==
  /\ call[c].at \in Running =>
       call[c].model \in DOMAIN Candidates[ClassOf[c]] /\ call[c].tries < MaxAttempts
  /\ call[c].at = "new" => call[c].model = 1 /\ call[c].tries = 0

Inside(k) == {c \in Calls : ClassOf[c] = k /\ call[c].at \in Running}

BrokerInv ==
  /\ BrokerTypeOK
  /\ \A c \in Calls : CallInv(c)
  /\ \A k \in Classes : IsFiniteSet(Inside(k))
  /\ SlotsAreExact

-----------------------------------------------------------------------------
(* The bucket                                                              *)

(* The lazily computed content is in the bucket's range.                   *)
LEMMA RefilledType ==
  ASSUME BrokerTypeOK, NEW m \in Models
  PROVE  /\ Refilled(m) \in Nat /\ Refilled(m) <= Full(m)
         /\ tokens[m] \in Nat /\ due[m] \in Int /\ Full(m) \in Nat /\ Full(m) >= RefillTicks
         /\ tokens[m] <= Full(m) /\ due[m] >= -Full(m)
<1>1. /\ tokens[m] \in Nat /\ due[m] \in Int /\ Full(m) \in Nat /\ Full(m) >= RefillTicks
      /\ tokens[m] <= Full(m) /\ due[m] >= -Full(m)
  BY FullIsNat DEF BrokerTypeOK
<1> QED  BY <1>1 DEF Refilled, Lesser

BucketType ==
  /\ tokens \in [Models -> Nat] /\ due \in [Models -> Int]
  /\ \A m \in Models : tokens[m] <= Full(m) /\ due[m] >= -Full(m)

LEMMA AcquireType ==
  ASSUME BrokerTypeOK, NEW m \in Models, AcquireGranted(m) \/ AcquireDenied(m)
  PROVE  BucketType'
<1>1. RefillTicks \in Nat
  BY BrokerAssumption
<1>2. /\ tokens' \in [Models -> Nat] /\ due' \in [Models -> Int]
  BY <1>1, RefilledType DEF BrokerTypeOK, AcquireGranted, AcquireDenied
<1>3. ASSUME NEW x \in Models PROVE tokens'[x] <= Full(x) /\ due'[x] >= -Full(x)
  <2>1. x = m \/ (tokens'[x] = tokens[x] /\ due'[x] = due[x])
    BY DEF BrokerTypeOK, AcquireGranted, AcquireDenied
  <2>2. tokens'[m] <= Refilled(m) /\ due'[m] = 0
    BY <1>1, RefilledType DEF BrokerTypeOK, AcquireGranted, AcquireDenied
  <2>3. tokens'[m] \in Nat /\ Refilled(m) \in Nat /\ Full(m) \in Nat /\ Refilled(m) <= Full(m)
    BY <1>2, RefilledType
  <2>4. CASE x = m
    BY <2>2, <2>3, <2>4
  <2>5. CASE x # m
    BY <2>1, <2>5, RefilledType
  <2> QED  BY <2>4, <2>5
<1> QED  BY <1>2, <1>3 DEF BucketType, Full

LEMMA PenalizeType ==
  ASSUME BrokerTypeOK, NEW m \in Models, NEW ticks \in Nat, Penalize(m, ticks)
  PROVE  BucketType' /\ cooldown' \in [Models -> Nat]
<1>1. /\ tokens' \in [Models -> Nat] /\ due' \in [Models -> Int] /\ cooldown' \in [Models -> Nat]
  BY DEF BrokerTypeOK, Penalize
<1>2. ASSUME NEW x \in Models PROVE tokens'[x] <= Full(x) /\ due'[x] >= -Full(x)
  <2>1. \/ x = m /\ tokens'[x] = 0 /\ due'[x] = ticks
        \/ tokens'[x] = tokens[x] /\ due'[x] = due[x]
    BY DEF BrokerTypeOK, Penalize
  <2> QED  BY <2>1, RefilledType
<1> QED  BY <1>1, <1>2 DEF BucketType, Full

-----------------------------------------------------------------------------
(* The calls                                                               *)

Enters(c) ==
  /\ call[c].at = "new" /\ call'[c].at = "token"
  /\ inFlight[ClassOf[c]] < MaxParallel[ClassOf[c]]
  /\ inFlight' = [inFlight EXCEPT ![ClassOf[c]] = @ + 1]

Stays(c) ==
  call[c].at \in Running /\ call'[c].at \in Running /\ UNCHANGED inFlight

Leaves(c) ==
  /\ call[c].at \in Running /\ call'[c].at \in {"ok", "failed"}
  /\ inFlight' = [inFlight EXCEPT ![ClassOf[c]] = @ - 1]

(* However a call moves, it enters, stays inside or leaves, and keeps its  *)
(* own invariant; the other calls stand still.                             *)
LEMMA CallMoves ==
  ASSUME BrokerInv, NEW c \in Calls, CallStep(c)
  PROVE  /\ Enters(c) \/ Stays(c) \/ Leaves(c)
         /\ call' \in [Calls -> CallRecord]
         /\ \A d \in Calls : d # c => call'[d] = call[d]
         /\ CallInv(c)'
<1> USE DEF CallRecord
<1>0. /\ call \in [Calls -> CallRecord] /\ call[c] \in CallRecord
      /\ CallInv(c) /\ MaxAttempts \in Nat \ {0}
      /\ Penalty \in Nat /\ RetryAfter \in Nat /\ MaxBackoff \in Nat
  BY BrokerAssumption DEF BrokerInv, BrokerTypeOK
<1>1. CASE Enter(c)
  <2>1. call[c].at = "new" /\ call' = [call EXCEPT ![c].at = "token"] /\ Enters(c)
    BY <1>0, <1>1 DEF Enter, Enters
  <2>2. /\ call'[c].at = "token" /\ call'[c].model = call[c].model
        /\ call'[c].tries = call[c].tries
    BY <1>0, <2>1
  <2>3. CallInv(c)'
    BY <1>0, <2>1, <2>2, CandidatesHave DEF CallInv, Running
  <2> QED  BY <1>0, <2>1, <2>3 DEF CallSteps
<1>2. CASE Acquire(c)
  BY <1>0, <1>2 DEF Acquire, Stays, CallInv, CallSteps, Running
<1>3. CASE Succeed(c)
  BY <1>0, <1>3 DEF Succeed, Leave, Leaves, CallInv, CallSteps, Running
<1>4. ASSUME NEW wait \in Nat, call[c].at = "sent", Retryable(c, wait)
      PROVE  /\ Stays(c) /\ call' \in [Calls -> CallRecord] /\ CallInv(c)'
             /\ \A d \in Calls : d # c => call'[d] = call[d]
  BY <1>0, <1>4 DEF Retryable, Stays, CallInv, CallSteps, Running
<1>5. CASE TooMany(c) \/ ServerError(c)
  <2>1. call[c].at = "sent" /\ \E wait \in Nat : Retryable(c, wait)
    BY <1>0, <1>5 DEF TooMany, ServerError
  <2> QED  BY <2>1, <1>4
<1>6. ASSUME call[c].at \in Running, NextModel(c)
      PROVE  /\ Stays(c) \/ Leaves(c)
             /\ call' \in [Calls -> CallRecord] /\ CallInv(c)'
             /\ \A d \in Calls : d # c => call'[d] = call[d]
  <2>1. CASE call[c].model < Len(Candidates[ClassOf[c]])
    <3>1. /\ call' = [call EXCEPT ![c] = [at |-> "token", model |-> call[c].model + 1,
                                          tries |-> 0, wait |-> 0]]
          /\ Stays(c)
      BY <1>0, <1>6, <2>1 DEF NextModel, Stays, Running
    <3>2. call[c].model + 1 \in DOMAIN Candidates[ClassOf[c]]
      BY <1>0, <1>6, <2>1, CandidatesHave DEF CallInv
    <3>3. CallInv(c)'
      BY <1>0, <3>1, <3>2 DEF CallInv, Running
    <3> QED  BY <1>0, <3>1, <3>3 DEF CallSteps
  <2>2. CASE ~(call[c].model < Len(Candidates[ClassOf[c]]))
    <3>1. call' = [call EXCEPT ![c].at = "failed"] /\ Leaves(c)
      BY <1>0, <1>6, <2>2 DEF NextModel, Leave, Leaves
    <3>2. call'[c].at = "failed"
      BY <1>0, <3>1
    <3> QED  BY <1>0, <3>1, <3>2 DEF CallInv, CallSteps, Running
  <2> QED  BY <2>1, <2>2
<1>7. CASE Refused(c)
  BY <1>6, <1>7 DEF Refused, Running
<1>8. CASE Resume(c)
  <2>1. CASE call[c].tries + 1 < MaxAttempts
    BY <1>0, <1>8, <2>1 DEF Resume, Stays, CallInv, CallSteps, Running
  <2>2. CASE ~(call[c].tries + 1 < MaxAttempts)
    BY <1>6, <1>8, <2>2 DEF Resume, Running
  <2> QED  BY <2>1, <2>2
<1> QED  BY <1>1, <1>2, <1>3, <1>5, <1>7, <1>8 DEF CallStep

(* The bucket a running call stands at is that of a model.                 *)
LEMMA ModelOfRunning ==
  ASSUME NEW c \in Calls, CallInv(c), call[c].at \in Running PROVE ModelOf(c) \in Models
BY CandidatesHave DEF CallInv, ModelOf

LEMMA BucketStep ==
  ASSUME BrokerInv, NEW c \in Calls, CallStep(c)
  PROVE  BucketType' /\ cooldown' \in [Models -> Nat]
<1>0. /\ BrokerTypeOK /\ CallInv(c) /\ cooldown \in [Models -> Nat]
      /\ RetryAfter \in Nat /\ Penalty \in Nat
  BY BrokerAssumption DEF BrokerInv, BrokerTypeOK
<1>1. CASE Acquire(c)
  BY <1>0, <1>1, ModelOfRunning, AcquireType DEF Acquire, Running
<1>2. CASE TooMany(c)
  <2>1. ModelOf(c) \in Models
    BY <1>0, <1>2, ModelOfRunning DEF TooMany, Running
  <2> QED  BY <1>0, <1>2, <2>1, PenalizeType DEF TooMany
<1>3. CASE Enter(c) \/ Succeed(c) \/ ServerError(c) \/ Refused(c) \/ Resume(c)
  BY <1>0, <1>3 DEF BrokerTypeOK, BucketType, Full, Enter, Succeed, ServerError, Refused, Resume
<1> QED  BY <1>1, <1>2, <1>3 DEF CallStep

(* One call in or out, one slot taken or given back.                       *)
LEMMA SlotStep ==
  ASSUME BrokerInv, NEW c \in Calls, CallStep(c), NEW k \in Classes
  PROVE  /\ IsFiniteSet(Inside(k)')
         /\ inFlight'[k] \in Nat
         /\ inFlight'[k] = Cardinality(Inside(k)') /\ inFlight'[k] <= MaxParallel[k]
<1>0. /\ IsFiniteSet(Inside(k)) /\ inFlight[k] = Cardinality(Inside(k))
      /\ inFlight[k] <= MaxParallel[k] /\ inFlight \in [Classes -> Nat]
      /\ ClassOf[c] \in Classes /\ MaxParallel[k] \in Nat
  BY BrokerAssumption DEF BrokerInv, BrokerTypeOK, SlotsAreExact, Inside
<1>1. \A d \in Calls : d # c => call'[d] = call[d]
  BY CallMoves
<1>2. CASE ClassOf[c] # k
  <2>1. Inside(k)' = Inside(k)
    BY <1>1, <1>2 DEF Inside
  <2>2. inFlight'[k] = inFlight[k]
    BY <1>0, <1>2, CallMoves DEF Enters, Stays, Leaves
  <2> QED  BY <1>0, <2>1, <2>2
<1>3. CASE ClassOf[c] = k
  <2>1. CASE Enters(c)
    <3>1. Inside(k)' = Inside(k) \cup {c} /\ c \notin Inside(k)
      BY <1>1, <1>3, <2>1 DEF Enters, Inside, Running
    <3>2. inFlight'[k] = inFlight[k] + 1 /\ inFlight[k] < MaxParallel[k]
      BY <1>0, <1>3, <2>1 DEF Enters
    <3> QED  BY <1>0, <3>1, <3>2, FS_AddElement
  <2>2. CASE Stays(c)
    <3>1. Inside(k)' = Inside(k)
      BY <1>1, <1>3, <2>2 DEF Stays, Inside
    <3> QED  BY <1>0, <2>2, <3>1 DEF Stays
  <2>3. CASE Leaves(c)
    <3>1. Inside(k)' = Inside(k) \ {c} /\ c \in Inside(k)
      BY <1>1, <1>3, <2>3 DEF Leaves, Inside, Running
    <3>2. inFlight'[k] = inFlight[k] - 1
      BY <1>0, <1>3, <2>3 DEF Leaves
    <3>3. Cardinality(Inside(k)') = inFlight[k] - 1 /\ IsFiniteSet(Inside(k)')
      BY <1>0, <3>1, FS_RemoveElement
    <3>4. Cardinality(Inside(k)') \in Nat
      BY <3>3, FS_CardinalityType
    <3> QED  BY <1>0, <3>2, <3>3, <3>4
  <2> QED  BY <2>1, <2>2, <2>3, CallMoves
<1> QED  BY <1>2, <1>3

-----------------------------------------------------------------------------

LEMMA InitEstablishes == ASSUME BrokerInit PROVE BrokerInv
<1>1. \A m \in Models : Full(m) \in Nat
  BY FullIsNat
<1>2. BrokerTypeOK
  BY <1>1 DEF BrokerInit, BrokerTypeOK, CallSteps, Running
<1>3. \A k \in Classes : Inside(k) = {}
  BY DEF BrokerInit, Inside, Running
<1>4. \A k \in Classes : MaxParallel[k] \in Nat /\ inFlight[k] = 0
  BY BrokerAssumption DEF BrokerInit
<1>5. SlotsAreExact
  <2>1. \A k \in Classes : inFlight[k] = Cardinality(Inside(k)) /\ inFlight[k] <= MaxParallel[k]
    BY <1>3, <1>4, FS_EmptySet
  <2> QED  BY <2>1 DEF SlotsAreExact, Inside
<1>6. \A c \in Calls : CallInv(c)
  BY DEF BrokerInit, CallInv, Running
<1> QED  BY <1>2, <1>3, <1>5, <1>6, FS_EmptySet DEF BrokerInv

LEMMA CallStepPreserves ==
  ASSUME BrokerInv, NEW c \in Calls, CallStep(c) PROVE BrokerInv'
<1>1. \A d \in Calls : CallInv(d)'
  BY CallMoves DEF BrokerInv, CallInv
<1>2. \A k \in Classes : /\ IsFiniteSet(Inside(k)')
                         /\ inFlight'[k] \in Nat
                         /\ inFlight'[k] = Cardinality(Inside(k)')
                         /\ inFlight'[k] <= MaxParallel[k]
  BY SlotStep
<1>3. inFlight' \in [Classes -> Nat]
  <2>1. /\ inFlight \in [Classes -> Nat]
        /\ \E i : inFlight' = [inFlight EXCEPT ![ClassOf[c]] = i]
    <3>1. inFlight \in [Classes -> Nat] /\ ClassOf[c] \in Classes
      BY BrokerAssumption DEF BrokerInv, BrokerTypeOK
    <3>2. CASE Enters(c)
      BY <3>1, <3>2 DEF Enters
    <3>3. CASE Stays(c)
      <4>1. inFlight' = [inFlight EXCEPT ![ClassOf[c]] = inFlight[ClassOf[c]]]
        BY <3>1, <3>3 DEF Stays
      <4> QED  BY <3>1, <4>1
    <3>4. CASE Leaves(c)
      BY <3>1, <3>4 DEF Leaves
    <3> QED  BY <3>2, <3>3, <3>4, CallMoves
  <2> QED  BY <1>2, <2>1
<1>4. BrokerTypeOK'
  <2>1. call' \in [Calls -> CallRecord] /\ BucketType' /\ cooldown' \in [Models -> Nat]
    BY CallMoves, BucketStep
  <2> QED  BY <1>1, <1>3, <2>1 DEF BrokerTypeOK, BucketType, CallRecord, CallInv
<1> QED  BY <1>1, <1>2, <1>4 DEF BrokerInv, SlotsAreExact, Inside

LEMMA TickPreserves == ASSUME BrokerInv, Tick PROVE BrokerInv'
<1>0. /\ call \in [Calls -> CallRecord] /\ due \in [Models -> Int]
      /\ cooldown \in [Models -> Nat] /\ BrokerTypeOK
      /\ \A c \in Calls : CallInv(c)
  BY DEF BrokerInv, BrokerTypeOK, CallRecord
<1>1. /\ call' \in [Calls -> CallRecord]
      /\ \A c \in Calls : /\ call'[c].at = call[c].at /\ call'[c].model = call[c].model
                          /\ call'[c].tries = call[c].tries
  <2>1. call' = [c \in Calls |-> [call[c] EXCEPT !.wait = Less(@)]]
    BY DEF Tick
  <2>2. \A n \in Nat : Less(n) \in Nat
    BY DEF Less
  <2>3. ASSUME NEW c \in Calls
        PROVE  /\ call'[c] = [call[c] EXCEPT !.wait = Less(call[c].wait)]
               /\ call[c] \in CallRecord /\ Less(call[c].wait) \in Nat
    BY <1>0, <2>1, <2>2 DEF CallRecord
  <2>4. \A c \in Calls : call'[c] \in CallRecord
    BY <2>3 DEF CallRecord
  <2>5. \A c \in Calls : /\ call'[c].at = call[c].at /\ call'[c].model = call[c].model
                         /\ call'[c].tries = call[c].tries
    BY <2>3 DEF CallRecord
  <2> QED  BY <2>1, <2>4, <2>5
<1>2. /\ cooldown' \in [Models -> Nat] /\ due' \in [Models -> Int]
      /\ \A m \in Models : due'[m] >= -Full(m)
  <2>1. \A m \in Models : Full(m) \in Nat /\ due[m] >= -Full(m)
    BY <1>0, RefilledType
  <2> QED  BY <1>0, <2>1 DEF Tick, Less
<1>3. \A c \in Calls : CallInv(c)'
  BY <1>0, <1>1 DEF CallInv
<1>4. BrokerTypeOK'
  BY <1>0, <1>1, <1>2, <1>3 DEF BrokerTypeOK, Tick, CallRecord, CallInv, Full
<1>5. \A k \in Classes : Inside(k)' = Inside(k)
  BY <1>1 DEF Inside
<1> QED  BY <1>3, <1>4, <1>5 DEF BrokerInv, SlotsAreExact, Inside, Tick

LEMMA StutterPreserves == ASSUME BrokerInv, UNCHANGED brokerVars PROVE BrokerInv'
BY DEF BrokerInv, BrokerTypeOK, CallInv, Inside, SlotsAreExact, brokerVars, Full

LEMMA Invariant == BrokerSpec => []BrokerInv
<1>1. BrokerInv /\ [BrokerNext]_brokerVars => BrokerInv'
  BY CallStepPreserves, TickPreserves, StutterPreserves DEF BrokerNext
<1> QED  BY <1>1, InitEstablishes, PTL DEF BrokerSpec

(* Every state is in the types stated for it; a running call always has a  *)
(* candidate model and an attempt left.                                    *)
THEOREM BrokerTypeCorrect == BrokerSpec => []BrokerTypeOK
<1>1. BrokerInv => BrokerTypeOK
  BY DEF BrokerInv
<1> QED  BY <1>1, Invariant, PTL

(* For any number of calls: the semaphore of a class counts the calls      *)
(* inside and stays within maxParallel (callClass, inference/broker.ts).   *)
THEOREM SlotsAlwaysExact == BrokerSpec => []SlotsAreExact
<1>1. BrokerInv => SlotsAreExact
  BY DEF BrokerInv
<1> QED  BY <1>1, Invariant, PTL

-----------------------------------------------------------------------------
(* The refinement                                                          *)

(* What the operations on the bucket do to the content acquire would find. *)
LEMMA GrantedSpends ==
  ASSUME BrokerInv, NEW m \in Models, AcquireGranted(m)
  PROVE  /\ Credit[m] >= RefillTicks
         /\ Credit' = [Credit EXCEPT ![m] = @ - RefillTicks]
<1>0. /\ tokens \in [Models -> Nat] /\ due \in [Models -> Int] /\ RefillTicks \in Nat \ {0}
      /\ Refilled(m) \in Nat /\ Refilled(m) <= Full(m) /\ Full(m) \in Nat
      /\ Refilled(m) >= RefillTicks
  BY BrokerAssumption, RefilledType DEF BrokerInv, BrokerTypeOK, AcquireGranted
<1>1. Refilled(m)' = Refilled(m) - RefillTicks
  <2>1. tokens'[m] = Refilled(m) - RefillTicks /\ due'[m] = 0
    BY <1>0 DEF AcquireGranted
  <2>2. Refilled(m)' = Lesser(Full(m), tokens'[m] + (IF due'[m] < 0 THEN -due'[m] ELSE 0))
    BY DEF Refilled, Full, Lesser
  <2> QED  BY <1>0, <2>1, <2>2 DEF Lesser
<1>2. ASSUME NEW x \in Models, x # m PROVE Refilled(x)' = Refilled(x)
  <2>1. tokens'[x] = tokens[x] /\ due'[x] = due[x]
    BY <1>0, <1>2 DEF AcquireGranted
  <2> QED  BY <2>1 DEF Refilled, Lesser, Full
<1> QED  BY <1>0, <1>1, <1>2 DEF Credit

LEMMA DeniedKeeps ==
  ASSUME BrokerInv, NEW m \in Models, AcquireDenied(m) PROVE Credit' = Credit
<1>0. /\ tokens \in [Models -> Nat] /\ due \in [Models -> Int]
      /\ Refilled(m) \in Nat /\ Refilled(m) <= Full(m) /\ Full(m) \in Nat
  BY RefilledType DEF BrokerInv, BrokerTypeOK
<1>1. Refilled(m)' = Refilled(m)
  <2>1. tokens'[m] = Refilled(m) /\ due'[m] = 0
    BY <1>0 DEF AcquireDenied
  <2>2. Refilled(m)' = Lesser(Full(m), tokens'[m] + (IF due'[m] < 0 THEN -due'[m] ELSE 0))
    BY DEF Refilled, Full, Lesser
  <2> QED  BY <1>0, <2>1, <2>2 DEF Lesser
<1>2. ASSUME NEW x \in Models, x # m PROVE Refilled(x)' = Refilled(x)
  <2>1. tokens'[x] = tokens[x] /\ due'[x] = due[x]
    BY <1>0, <1>2 DEF AcquireDenied
  <2> QED  BY <2>1 DEF Refilled, Lesser, Full
<1> QED  BY <1>1, <1>2 DEF Credit

LEMMA PenaltyLowers ==
  ASSUME BrokerInv, NEW m \in Models, NEW ticks \in Nat, Penalize(m, ticks)
  PROVE  \A x \in Models : Credit'[x] <= Credit[x]
<1>0. /\ tokens \in [Models -> Nat] /\ due \in [Models -> Int]
      /\ \A x \in Models : Refilled(x) \in Nat /\ Full(x) \in Nat
  BY RefilledType DEF BrokerInv, BrokerTypeOK
<1>1. Refilled(m)' <= Refilled(m)
  <2>1. tokens'[m] = 0 /\ due'[m] = ticks
    BY <1>0 DEF Penalize
  <2>2. Refilled(m)' = Lesser(Full(m), tokens'[m] + (IF due'[m] < 0 THEN -due'[m] ELSE 0))
    BY DEF Refilled, Full, Lesser
  <2> QED  BY <1>0, <2>1, <2>2 DEF Lesser
<1>2. ASSUME NEW x \in Models, x # m PROVE Refilled(x)' = Refilled(x)
  <2>1. tokens'[x] = tokens[x] /\ due'[x] = due[x]
    BY <1>0, <1>2 DEF Penalize
  <2> QED  BY <2>1 DEF Refilled, Lesser, Full
<1> QED  BY <1>0, <1>1, <1>2 DEF Credit

LEMMA TickRefills ==
  ASSUME BrokerInv, Tick
  PROVE  /\ \A m \in Models : Credit'[m] <= Credit[m] + 1 /\ Credit'[m] <= Full(m)
         /\ Pending' = Pending
<1>1. ASSUME NEW m \in Models
      PROVE  Refilled(m)' <= Refilled(m) + 1 /\ Refilled(m)' <= Full(m)
  <2>1. /\ tokens[m] \in Nat /\ due[m] \in Int /\ Full(m) \in Nat
        /\ tokens'[m] = tokens[m] /\ (due'[m] = due[m] - 1 \/ due'[m] = due[m])
    BY RefilledType DEF BrokerInv, Tick
  <2>2. /\ Refilled(m) = Lesser(Full(m), tokens[m] + (IF due[m] < 0 THEN -due[m] ELSE 0))
        /\ Refilled(m)' = Lesser(Full(m), tokens'[m] + (IF due'[m] < 0 THEN -due'[m] ELSE 0))
    BY DEF Refilled, Full, Lesser
  <2> QED  BY <2>1, <2>2 DEF Lesser
<1>2. \A c \in Calls : call'[c].at = call[c].at /\ call'[c].model = call[c].model
  <2>1. /\ call \in [Calls -> CallRecord]
        /\ \A c \in Calls : call'[c] = [call[c] EXCEPT !.wait = Less(call[c].wait)]
    BY DEF Tick, BrokerInv, BrokerTypeOK, CallRecord
  <2> QED  BY <2>1 DEF CallRecord
<1>3. Pending' = Pending
  BY <1>2 DEF Pending, ModelOf
<1> QED  BY <1>1, <1>3 DEF Credit

(* Where a call has no request out, before or after.                       *)
LEMMA PendingIs ==
  ASSUME BrokerInv, NEW c \in Calls, CallStep(c)
  PROVE  Pending' = [Pending EXCEPT ![c] =
                       IF call'[c].at = "sent" THEN ModelOf(c)' ELSE None]
<1>1. \A d \in Calls : d # c => call'[d] = call[d]
  BY CallMoves
<1> QED  BY <1>1 DEF Pending, ModelOf

LEMMA CallStepSimulates ==
  ASSUME BrokerInv, NEW c \in Calls, CallStep(c)
  PROVE  Budget!Next \/ UNCHANGED <<Credit, Pending>>
<1>0. /\ call \in [Calls -> CallRecord] /\ CallInv(c)
      /\ \A m \in Models : Credit[m] = Refilled(m) /\ Refilled(m) \in Nat
      /\ None \notin Models /\ MaxBackoff \in Nat /\ RetryAfter \in Nat /\ Penalty \in Nat
  BY BrokerAssumption, RefilledType DEF BrokerInv, BrokerTypeOK, CallRecord, Credit
<1>1. ASSUME call[c].at # "sent", call'[c].at # "sent", UNCHANGED <<tokens, due>>
      PROVE  UNCHANGED <<Credit, Pending>>
  <2>1. Pending' = [Pending EXCEPT ![c] = Pending[c]]
    BY <1>1, PendingIs DEF Pending
  <2> QED  BY <1>1, <2>1 DEF Credit, Refilled, Lesser, Full, Pending
<1>2. ASSUME call'[c].at # "sent", \A m \in Models : Credit'[m] <= Credit[m]
      PROVE  Budget!Next
  <2>1. Budget!Answer(c)
    BY <1>2, PendingIs DEF Budget!Answer
  <2> QED  BY <2>1 DEF Budget!Next
<1>3. ASSUME call'[c].at # "sent", UNCHANGED <<tokens, due>>
      PROVE  Budget!Next
  <2>1. \A m \in Models : Credit'[m] <= Credit[m]
    BY <1>0, <1>3 DEF Credit, Refilled, Lesser, Full
  <2> QED  BY <1>2, <1>3, <2>1
<1>4. CASE Acquire(c)
  <2>0. call[c].at = "token" /\ ModelOf(c) \in Models /\ Pending[c] = None
    BY <1>0, <1>4, ModelOfRunning DEF Acquire, Running, Pending
  <2>1. CASE AcquireGranted(ModelOf(c)) /\ call' = [call EXCEPT ![c].at = "sent"]
    <3>1. call'[c].at = "sent" /\ ModelOf(c)' = ModelOf(c)
      BY <1>0, <2>1 DEF CallRecord, ModelOf
    <3>2. Pending' = [Pending EXCEPT ![c] = ModelOf(c)]
      BY <3>1, PendingIs
    <3>3. Budget!Send(c, ModelOf(c))
      BY <2>0, <2>1, <3>2, GrantedSpends DEF Budget!Send
    <3> QED  BY <2>0, <3>3 DEF Budget!Next
  <2>2. CASE AcquireDenied(ModelOf(c)) /\ UNCHANGED call
    <3>1. Pending' = Pending
      BY <2>2 DEF Pending, ModelOf
    <3> QED  BY <2>0, <2>2, <3>1, DeniedKeeps
  <2> QED  BY <1>4, <2>1, <2>2 DEF Acquire
<1>5. CASE TooMany(c)
  <2>1. /\ call[c].at = "sent" /\ \E wait \in Nat : Retryable(c, wait)
        /\ Penalize(ModelOf(c), RetryAfter) \/ Penalize(ModelOf(c), Penalty)
    BY <1>0, <1>5 DEF TooMany
  <2>2. call'[c].at = "delay" /\ ModelOf(c) \in Models
    BY <1>0, <2>1, ModelOfRunning DEF Retryable, CallRecord, Running
  <2> QED  BY <1>0, <1>2, <2>1, <2>2, PenaltyLowers
<1>6. CASE Enter(c)
  <2>1. call[c].at = "new" /\ call'[c].at = "token"
    BY <1>0, <1>6 DEF Enter, CallRecord
  <2> QED  BY <1>1, <1>6, <2>1 DEF Enter
<1>7. ASSUME NextModel(c) \/ Leave(c, "ok") \/ \E wait \in Nat : Retryable(c, wait)
      PROVE  call'[c].at # "sent"
  BY <1>0, <1>7 DEF NextModel, Leave, Retryable, CallRecord
<1>8. CASE Succeed(c) \/ ServerError(c) \/ Refused(c)
  BY <1>0, <1>3, <1>7, <1>8 DEF Succeed, ServerError, Refused
<1>9. CASE Resume(c)
  <2>1. call[c].at = "delay" /\ call'[c].at # "sent"
    BY <1>0, <1>7, <1>9 DEF Resume, CallRecord
  <2> QED  BY <1>1, <1>9, <2>1 DEF Resume
<1> QED  BY <1>4, <1>5, <1>6, <1>8, <1>9 DEF CallStep

(* Every behaviour of the broker, with its lazily refilled buckets, is one *)
(* of the rate budget: whatever the calls do, a model is never sent more   *)
(* than its burst and its rate allow (TokenBucket, inference/rate-limit.ts)*)
THEOREM BrokerImplementsBudget == BrokerSpec => ImplementsBudget
<1>1. BrokerInit => Budget!Init
  <2>1. ASSUME BrokerInit, NEW m \in Models PROVE Refilled(m) = Full(m)
    BY <2>1, FullIsNat DEF BrokerInit, Refilled, Lesser
  <2>2. ASSUME BrokerInit PROVE Credit = [m \in Models |-> Capacity[m] * RefillTicks]
    BY <2>1, <2>2 DEF Credit, Full
  <2>3. ASSUME BrokerInit PROVE Pending = [c \in Calls |-> None]
    BY <2>3 DEF BrokerInit, Pending
  <2> QED  BY <2>2, <2>3 DEF Budget!Init, Budget!Full
<1>2. BrokerInv /\ [BrokerNext]_brokerVars => [Budget!Next]_<<Credit, Pending>>
  <2>1. ASSUME BrokerInv, Tick PROVE Budget!Next
    <3>1. Budget!Tick
      BY <2>1, TickRefills DEF Budget!Tick, Budget!Full, Full
    <3> QED  BY <3>1 DEF Budget!Next
  <2>2. ASSUME UNCHANGED brokerVars PROVE UNCHANGED <<Credit, Pending>>
    BY <2>2 DEF brokerVars, Credit, Pending, Refilled, Lesser, Full, ModelOf
  <2> QED  BY <2>1, <2>2, CallStepSimulates DEF BrokerNext
<1> QED  BY <1>1, <1>2, Invariant, PTL DEF BrokerSpec, ImplementsBudget, Budget!Spec

=============================================================================
