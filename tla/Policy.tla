------------------------------- MODULE Policy -------------------------------
(***************************************************************************)
(* The policy evaluator (policy/evaluator.ts) and the ledger-backed        *)
(* approval tokens it shares with the approval queue (approvals/queue.ts). *)
(*                                                                         *)
(* A token is a policy.approval_granted event; it is consumed by a later   *)
(* policy.approval_consumed event that names it.  Both live in the         *)
(* append-only ledger, so the state is what the two kinds of events say.   *)
(* Tokens are granted to a trace; a command has exactly one trace, so a    *)
(* trace is identified with its command.                                   *)
(***************************************************************************)
EXTENDS Naturals, FiniteSets

CONSTANTS
  Traces,     \* the traces an approval can be granted for
  Tokens,     \* the approval tokens that may ever be granted
  None        \* the JavaScript null

\* null is none of the values it stands in for.
ASSUME NoneAssumption == None \notin Traces \cup Tokens

VARIABLES
  tokenState,   \* of each token: not granted yet, active, or past its TTL
  tokenTrace,   \* the trace a granted token is for
  consumptions  \* how many approval_consumed events name the token

approvalVars == <<tokenState, tokenTrace, consumptions>>

ApprovalClasses == 0 .. 3

-----------------------------------------------------------------------------

(* evaluatePolicyAction: classes 0 and 1 are allowed, class 2 is allowed   *)
(* when the caller consumed a token, class 3 is denied whatever happens.   *)
Decision(approvalClass, consumed) ==
  CASE approvalClass \in {0, 1} -> "allow"
    [] approvalClass = 2 -> IF consumed THEN "allow" ELSE "requires_approval"
    [] OTHER -> "deny"

(* MUTANT: a token granted for any trace will do.                          *)
ActiveTokensOfAny(tr) ==
  {t \in Tokens : tokenState[t] = "active" /\ consumptions[t] = 0}

(* The tokens consumeApprovalToken may pick for a trace: granted for it,   *)
(* inside their TTL, and named by no approval_consumed event.              *)
ActiveTokens(tr) ==
  {t \in Tokens : /\ tokenState[t] = "active"
                  /\ tokenTrace[t] = tr
                  /\ consumptions[t] = 0}

(* Some token granted for the trace was consumed.                          *)
ApprovalConsumed(tr) ==
  \E t \in Tokens : tokenTrace[t] = tr /\ consumptions[t] > 0

-----------------------------------------------------------------------------

ApprovalTypeOK ==
  /\ tokenState \in [Tokens -> {"ungranted", "active", "expired"}]
  /\ tokenTrace \in [Tokens -> Traces \cup {None}]
  /\ consumptions \in [Tokens -> Nat]

ApprovalInit ==
  /\ tokenState = [t \in Tokens |-> "ungranted"]
  /\ tokenTrace = [t \in Tokens |-> None]
  /\ consumptions = [t \in Tokens |-> 0]

(* approveTrace, reached as `frontier policy approve`: grants a fresh      *)
(* token for any trace, with no look at what the trace already has.        *)
ApproveTrace(t, tr) ==
  /\ tokenState[t] = "ungranted"
  /\ tokenState' = [tokenState EXCEPT ![t] = "active"]
  /\ tokenTrace' = [tokenTrace EXCEPT ![t] = tr]
  /\ UNCHANGED consumptions

(* approvePendingTrace, reached from `approval approve`, /v1/approvals and *)
(* the MCP bridge: the request must be pending.  A trace that has an       *)
(* active token is answered already_approved without a grant, and one that *)
(* ever had a token consumed is not listed and the call throws.            *)
ApprovePendingTrace(t, tr) ==
  /\ ~ApprovalConsumed(tr)
  /\ ActiveTokens(tr) = {}
  /\ ApproveTrace(t, tr)

(* The TTL of a granted token runs out.                                    *)
TokenExpires(t) ==
  /\ tokenState[t] = "active"
  /\ tokenState' = [tokenState EXCEPT ![t] = "expired"]
  /\ UNCHANGED <<tokenTrace, consumptions>>

(* The append that ends consumeApprovalToken.  The reads that chose the    *)
(* token happened earlier, in another statement: nothing is re-checked.    *)
AppendConsumption(t) ==
  /\ consumptions' = [consumptions EXCEPT ![t] = @ + 1]
  /\ UNCHANGED <<tokenState, tokenTrace>>

=============================================================================
