------------------------------ MODULE EventQueue ------------------------------
(***************************************************************************)
(* The push/pull queue of src/api/src/agent/copilot-driver.ts: callbacks   *)
(* of the SDK session push events, one async generator pulls them.         *)
(*                                                                         *)
(* JavaScript runs each call to completion, so a push, a close, and one    *)
(* advance of the generator up to its next `yield` or `await` are atomic.  *)
(* What is not atomic is the hand-over: push resolves the promise of a     *)
(* parked generator and returns, and the generator resumes from its        *)
(* `await` in a later microtask.  Other pushes and the close may run in    *)
(* between.  `slot` is that resolved but not yet observed promise.         *)
(***************************************************************************)
EXTENDS Integers, Sequences

CONSTANTS
    Events,     \* the events the callbacks push
    Done,       \* the {done: true} result, not an event
    MaxEvents   \* bound on the number of pushes

ASSUME EventsAssumption ==
    /\ Done \notin Events
    /\ MaxEvents \in Nat

VARIABLES
    queue,      \* the fields of the EventQueue object and its promise
    iter,       \* where the generator is
    pushed,     \* history: every event pushed
    delivered,  \* history: every event the generator has yielded
    cutoff      \* history: Len(pushed) at the first close, -1 before it

vars == <<queue, iter, pushed, delivered, cutoff>>

\* The queue object: nothing buffered, no consumer parked, open, and no
\* promise of the generator resolved.
EmptyQueue == [buffer |-> <<>>, waiting |-> FALSE, closed |-> FALSE, slot |-> <<>>]

\* Mutant: push does not forget the promise it resolved.
MutantKeepsPromise(q, e) ==
    IF q.waiting THEN [q EXCEPT !.slot = <<e>>] ELSE [q EXCEPT !.buffer = Append(@, e)]

\* push(event): a parked generator gets it directly, else it is buffered.
Push(q, e) ==
    IF q.waiting
    THEN [q EXCEPT !.slot = <<e>>, !.waiting = FALSE]
    ELSE [q EXCEPT !.buffer = Append(@, e)]

\* Mutant: close queues the end as if it were an event.
MutantQueuesTheEnd(q) == [q EXCEPT !.closed = TRUE, !.buffer = Append(@, Done)]

\* Mutant: close does not resolve the promise of a parked generator.
MutantLeavesParked(q) == [q EXCEPT !.closed = TRUE]

\* close(): a parked generator is told there is no more.
Close(q) ==
    IF q.waiting
    THEN [q EXCEPT !.closed = TRUE, !.slot = <<Done>>, !.waiting = FALSE]
    ELSE [q EXCEPT !.closed = TRUE]

Init ==
    /\ queue = EmptyQueue
    /\ iter = "pulling"
    /\ pushed = <<>>
    /\ delivered = <<>>
    /\ cutoff = -1

PushEvent(e) ==
    /\ Len(pushed) < MaxEvents
    /\ queue' = Push(queue, e)
    /\ pushed' = Append(pushed, e)
    /\ UNCHANGED <<iter, delivered, cutoff>>

CloseQueue ==
    /\ queue' = Close(queue)
    /\ cutoff' = IF cutoff = -1 THEN Len(pushed) ELSE cutoff
    /\ UNCHANGED <<iter, pushed, delivered>>

\* One turn of the generator's loop: yield the head of the buffer,
TakeBuffered ==
    /\ iter = "pulling"
    /\ queue.buffer # <<>>
    /\ delivered' = Append(delivered, Head(queue.buffer))
    /\ queue' = [queue EXCEPT !.buffer = Tail(@)]
    /\ UNCHANGED <<iter, pushed, cutoff>>

\* Mutant: the loop looks at `closed` first.
MutantReturnsEarly ==
    /\ iter = "pulling"
    /\ queue.closed
    /\ iter' = "returned"
    /\ UNCHANGED <<queue, pushed, delivered, cutoff>>

\* or return, once closed,
ReturnClosed ==
    /\ iter = "pulling"
    /\ queue.buffer = <<>>
    /\ queue.closed
    /\ iter' = "returned"
    /\ UNCHANGED <<queue, pushed, delivered, cutoff>>

\* or park on a fresh promise.
Park ==
    /\ iter = "pulling"
    /\ queue.buffer = <<>>
    /\ ~queue.closed
    /\ iter' = "awaiting"
    /\ queue' = [queue EXCEPT !.waiting = TRUE]
    /\ UNCHANGED <<pushed, delivered, cutoff>>

\* The generator resumes from its await with the value of its promise.
ResumeWithEvent ==
    /\ iter = "awaiting"
    /\ queue.slot # <<>>
    /\ queue.slot[1] # Done
    /\ delivered' = Append(delivered, queue.slot[1])
    /\ iter' = "pulling"
    /\ queue' = [queue EXCEPT !.slot = <<>>]
    /\ UNCHANGED <<pushed, cutoff>>

ResumeDone ==
    /\ iter = "awaiting"
    /\ queue.slot = <<Done>>
    /\ iter' = "returned"
    /\ queue' = [queue EXCEPT !.slot = <<>>]
    /\ UNCHANGED <<pushed, delivered, cutoff>>

Producer == CloseQueue \/ \E e \in Events : PushEvent(e)

Consumer == TakeBuffered \/ ReturnClosed \/ Park \/ ResumeWithEvent \/ ResumeDone

Next == Producer \/ Consumer

\* The route's loop always asks for the next event, and the runtime always
\* runs a resolved promise's continuation.
Spec == Init /\ [][Next]_vars /\ WF_vars(Consumer)

------------------------------------------------------------------------------
TypeOK ==
    /\ queue \in [buffer : Seq(Events), waiting : BOOLEAN, closed : BOOLEAN,
                  slot : {<<>>} \cup {<<e>> : e \in Events \cup {Done}}]
    /\ iter \in {"pulling", "awaiting", "returned"}
    /\ pushed \in Seq(Events)
    /\ delivered \in Seq(Events)
    /\ cutoff \in Int

\* The event in flight to a resumed generator, if any.
InFlight == IF queue.slot = <<>> \/ queue.slot = <<Done>> THEN <<>> ELSE queue.slot

\* Seen, in flight and buffered events, in that order, are the pushed ones:
\* nothing is lost, doubled or overtaken, however pushes fall between the
\* resolution of a parked generator's promise and its resumption.
NoEventLostOrReordered == delivered \o InFlight \o queue.buffer = pushed

\* A generator that parked can always be woken: it parks only on an open queue
\* with nothing buffered, and its promise is either still held by the queue or
\* already resolved.
NoLostWakeup ==
    iter = "awaiting" =>
        /\ queue.waiting \/ queue.slot # <<>>
        /\ queue.waiting => ~queue.closed /\ queue.buffer = <<>>

\* When the loop over the queue has ended, the traveller has been shown every
\* event pushed before the session went idle.
EndsAfterEverythingPushed ==
    iter = "returned" => cutoff # -1 /\ Len(delivered) >= cutoff

\* The queue implements the stream, liveness included.
Stream == INSTANCE EventStream WITH ended <- (iter = "returned")
ImplementsStream == Stream!Spec
==============================================================================
