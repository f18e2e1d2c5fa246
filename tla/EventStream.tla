----------------------------- MODULE EventStream -----------------------------
(***************************************************************************)
(* What the bridge between the SDK's callbacks and the route's `for await` *)
(* loop promises (EventQueue in src/api/src/agent/copilot-driver.ts): the  *)
(* consumer sees the pushed events, each once and in push order; after the *)
(* producer closes the stream the consumer is released, and not before it  *)
(* has seen everything pushed up to the close.  Events pushed after the    *)
(* close may or may not be seen.                                           *)
(***************************************************************************)
EXTENDS Integers, Sequences

CONSTANT Events

VARIABLES
    pushed,     \* every event handed to the stream, in order
    delivered,  \* every event the consumer has seen, in order
    cutoff,     \* Len(pushed) at the first close, NotClosed before it
    ended       \* the consumer's loop has finished

vars == <<pushed, delivered, cutoff, ended>>

NotClosed == -1

Init ==
    /\ pushed = <<>>
    /\ delivered = <<>>
    /\ cutoff = NotClosed
    /\ ended = FALSE

Send(e) ==
    /\ pushed' = Append(pushed, e)
    /\ UNCHANGED <<delivered, cutoff, ended>>

Shut ==
    /\ cutoff = NotClosed
    /\ cutoff' = Len(pushed)
    /\ UNCHANGED <<pushed, delivered, ended>>

Deliver ==
    /\ ~ended
    /\ Len(delivered) < Len(pushed)
    /\ delivered' = Append(delivered, pushed[Len(delivered) + 1])
    /\ UNCHANGED <<pushed, cutoff, ended>>

End ==
    /\ ~ended
    /\ cutoff # NotClosed
    /\ Len(delivered) >= cutoff
    /\ ended' = TRUE
    /\ UNCHANGED <<pushed, delivered, cutoff>>

Next ==
    \/ \E e \in Events : Send(e)
    \/ Shut
    \/ Deliver
    \/ End

SafeSpec == Init /\ [][Next]_vars

\* The consumer is always eventually served: an event that is there is
\* delivered, and a closed stream that has nothing owed is ended.
Spec == SafeSpec /\ WF_vars(Deliver \/ End)
==============================================================================
