--------------------------- MODULE ExecutionGate ----------------------------
(***************************************************************************)
(* What the policy promises about execution, with nothing of how the queue *)
(* keeps it: commands become permitted and stay so, and a worker executes  *)
(* one command at a time, a permitted one.                                 *)
(***************************************************************************)
CONSTANTS Commands, Workers, None

VARIABLES
  permitted,  \* the commands the policy let through
  executing   \* the command each worker executes, or None

Init ==
  /\ permitted = {}
  /\ executing = [w \in Workers |-> None]

Permit(c) ==
  /\ permitted' = permitted \cup {c}
  /\ UNCHANGED executing

Start(w, c) ==
  /\ executing[w] = None
  /\ c \in permitted
  /\ executing' = [executing EXCEPT ![w] = c]
  /\ UNCHANGED permitted

Stop(w) ==
  /\ executing' = [executing EXCEPT ![w] = None]
  /\ UNCHANGED permitted

Next ==
  \/ \E c \in Commands : Permit(c)
  \/ \E w \in Workers, c \in Commands : Start(w, c)
  \/ \E w \in Workers : Stop(w)

Spec == Init /\ [][Next]_<<permitted, executing>>

=============================================================================
