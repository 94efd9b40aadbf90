--------------------------- MODULE ActorContract ---------------------------
(***************************************************************************)
(* What an actor promises to its clients (src/actor/runtime.ts, ActorRef): *)
(* messages are accepted in one order and only while it is open, their     *)
(* receipts resolve in that order, a failed transition stops it for good   *)
(* before anybody learns of the failure, and close answers when nothing    *)
(* accepted is left unresolved.                                            *)
(***************************************************************************)
EXTENDS Naturals, Sequences

VARIABLES
  accepting,  \* "open", "closing" or "transition_failed"
  receipts,   \* the outcome of each accepted message, in acceptance order
  closed      \* FALSE, or TRUE once the closing snapshot is published

vars == <<accepting, receipts, closed>>

Has(outcome) == \E n \in DOMAIN receipts : receipts[n] = outcome

OldestPending(n) ==
  /\ receipts[n] = "pending"
  /\ \A m \in 1..(n - 1) : receipts[m] # "pending"

Settle(outcome) ==
  /\ \E n \in DOMAIN receipts :
       /\ OldestPending(n)
       /\ receipts' = [receipts EXCEPT ![n] = outcome]
  /\ UNCHANGED <<accepting, closed>>

Init == accepting = "open" /\ receipts = <<>> /\ closed = FALSE

Accept ==
  /\ accepting = "open"
  /\ receipts' = Append(receipts, "pending")
  /\ UNCHANGED <<accepting, closed>>

RequestClose ==
  /\ accepting = "open"
  /\ accepting' = "closing"
  /\ UNCHANGED <<receipts, closed>>

Commit == accepting # "transition_failed" /\ Settle("committed")

\* The failed transition is that of the oldest pending message.
Stop ==
  /\ accepting # "transition_failed"
  /\ Has("pending")
  /\ accepting' = "transition_failed"
  /\ UNCHANGED <<receipts, closed>>

Fail == accepting = "transition_failed" /\ ~Has("failed") /\ Settle("failed")

Cancel == Has("failed") /\ Settle("not_processed")

Close ==
  /\ accepting # "open"
  /\ ~Has("pending")
  /\ ~closed
  /\ closed' = TRUE
  /\ UNCHANGED <<accepting, receipts>>

Resolve == Commit \/ Fail \/ Cancel

Next == Accept \/ RequestClose \/ Stop \/ Resolve \/ Close

Spec == Init /\ [][Next]_vars
FairSpec == Spec /\ WF_vars(Resolve) /\ WF_vars(Close)
=============================================================================
