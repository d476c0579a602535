----------------------------- MODULE RateBudget -----------------------------
(***************************************************************************)
(* What the inference broker owes a provider: requests to a model are sent *)
(* against a credit that grows by one unit per tick up to a bound, and     *)
(* each request spends RefillTicks units.  Over any stretch of time a      *)
(* model is sent no more than its burst plus one request per RefillTicks.  *)
(***************************************************************************)
EXTENDS Integers

CONSTANTS Calls, Models, None, Capacity, RefillTicks

VARIABLES
  credit,   \* of each model
  pending   \* the model each call has a request at, or None

Full(m) == Capacity[m] * RefillTicks

Init ==
  /\ credit = [m \in Models |-> Full(m)]
  /\ pending = [c \in Calls |-> None]

Send(c, m) ==
  /\ pending[c] = None
  /\ credit[m] >= RefillTicks
  /\ credit' = [credit EXCEPT ![m] = @ - RefillTicks]
  /\ pending' = [pending EXCEPT ![c] = m]

\* An answer; the provider may ask for less.
Answer(c) ==
  /\ pending' = [pending EXCEPT ![c] = None]
  /\ \A m \in Models : credit'[m] <= credit[m]

Tick ==
  /\ \A m \in Models : credit'[m] <= credit[m] + 1 /\ credit'[m] <= Full(m)
  /\ UNCHANGED pending

Next ==
  \/ \E c \in Calls : Answer(c) \/ \E m \in Models : Send(c, m)
  \/ Tick

Spec == Init /\ [][Next]_<<credit, pending>>

=============================================================================
