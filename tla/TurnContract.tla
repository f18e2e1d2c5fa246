----------------------------- MODULE TurnContract -----------------------------
(***************************************************************************)
(* What the stream of one turn promises its readers, whatever driver makes *)
(* it (shared/types/chat-and-agent-runtime.ts): calls are made and         *)
(* answered, and the turn ends in a verdict.  It is done only when every   *)
(* call has been answered, nothing but a failure follows the verdict, and  *)
(* a failure is final.                                                     *)
(***************************************************************************)
CONSTANT PossibleCalls

VARIABLES
    open,       \* the calls made and not yet answered
    verdict     \* "none", "done" or "error"

vars == <<open, verdict>>

Init == open = {} /\ verdict = "none"

Make ==
    /\ verdict = "none"
    /\ \E call \in open' \ open : call \in PossibleCalls /\ open' = open \cup {call}
    /\ UNCHANGED verdict

Answer ==
    /\ verdict = "none"
    /\ \E call \in open \ open' : open' = open \ {call}
    /\ UNCHANGED verdict

Finish ==
    /\ verdict = "none"
    /\ open = {}
    /\ verdict' = "done"
    /\ UNCHANGED open

\* The turn fails, be it after it was done.
Fail ==
    /\ verdict \in {"none", "done"}
    /\ verdict' = "error"
    /\ UNCHANGED open

Next == Make \/ Answer \/ Finish \/ Fail

Spec == Init /\ [][Next]_vars
==============================================================================
