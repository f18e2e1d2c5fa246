--------------------------- MODULE EventQueue_proofs ---------------------------
(***************************************************************************)
(* Proofs about EventQueue for every set of events and every bound: the    *)
(* order invariant, the wake-up invariant and the safety half of the       *)
(* refinement of EventStream.                                              *)
(***************************************************************************)
EXTENDS EventQueue, SequenceTheorems, TLAPS

\* Appending to the last of three concatenated sequences appends to the whole.
LEMMA AppendToLast ==
    ASSUME NEW S, NEW d \in Seq(S), NEW h \in Seq(S), NEW b \in Seq(S), NEW e \in S
    PROVE  d \o h \o Append(b, e) = Append(d \o h \o b, e)
<1>1. Append(b, e) = b \o <<e>>
  BY AppendIsConcat
<1>2. Append(d \o h \o b, e) = (d \o h \o b) \o <<e>>
  BY AppendIsConcat, ConcatProperties
<1>3. d \o h \in Seq(S) /\ <<e>> \in Seq(S)
  BY ConcatProperties
<1> QED
  BY <1>1, <1>2, <1>3, ConcatAssociative

\* Moving the head of a buffer behind the delivered sequence changes nothing.
LEMMA MoveHead ==
    ASSUME NEW S, NEW d \in Seq(S), NEW b \in Seq(S), b # <<>>
    PROVE  Append(d, Head(b)) \o Tail(b) = d \o b
<1>1. Head(b) \in S /\ Tail(b) \in Seq(S) /\ b = <<Head(b)>> \o Tail(b)
  BY HeadTailProperties
<1>2. Append(d, Head(b)) = d \o <<Head(b)>>
  BY <1>1, AppendIsConcat
<1>3. <<Head(b)>> \in Seq(S)
  BY <1>1
<1> QED
  BY <1>1, <1>2, <1>3, ConcatAssociative

LEMMA LenFacts ==
    ASSUME NEW S, NEW s \in Seq(S)
    PROVE  Len(s) \in Nat
BY LenProperties

------------------------------------------------------------------------------
\* What the fields say of each other; NoEventLostOrReordered alone is not
\* inductive, because Close and ReturnClosed compare lengths with the cutoff.
Handover ==
    /\ queue.waiting => /\ iter = "awaiting" /\ queue.slot = <<>>
                        /\ queue.buffer = <<>> /\ ~queue.closed
    /\ queue.slot # <<>> => iter = "awaiting"
    /\ iter = "awaiting" => queue.waiting \/ queue.slot # <<>>
    /\ queue.closed <=> cutoff # -1
    /\ queue.slot = <<Done>> => cutoff # -1 /\ Len(delivered) >= cutoff
    /\ cutoff <= Len(pushed)

IInv == TypeOK /\ Handover /\ NoEventLostOrReordered /\ EndsAfterEverythingPushed

\* The slot holds nothing, an event or Done, and these are told apart.
LEMMA SlotCases ==
    ASSUME TypeOK
    PROVE  /\ queue.slot = <<>> => InFlight = <<>>
           /\ queue.slot = <<Done>> => InFlight = <<>>
           /\ \A e \in Events : queue.slot = <<e>> => InFlight = <<e>>
           /\ \/ queue.slot = <<>>
              \/ queue.slot = <<Done>>
              \/ \E e \in Events : queue.slot = <<e>>
           /\ InFlight \in Seq(Events)
           /\ queue.buffer \in Seq(Events)
<1>1. \A x : <<x>> # <<>>
  OBVIOUS
<1>2. \A e \in Events : <<e>> # <<Done>>
  BY EventsAssumption
<1>3. \A e \in Events : <<e>> \in Seq(Events)
  OBVIOUS
<1>4. <<>> \in Seq(Events)
  OBVIOUS
<1>5. queue.slot \in {<<>>} \cup {<<e>> : e \in Events \cup {Done}} /\ queue.buffer \in Seq(Events)
  BY DEF TypeOK
<1> QED
  BY <1>1, <1>2, <1>3, <1>4, <1>5 DEF InFlight

\* With nothing in flight and nothing buffered, all has been delivered.
LEMMA NothingOwed ==
    ASSUME TypeOK, NoEventLostOrReordered, InFlight = <<>>, queue.buffer = <<>>
    PROVE  delivered = pushed
<1>1. delivered \o <<>> = delivered
  BY ConcatEmptySeq DEF TypeOK
<1> QED
  BY <1>1 DEF NoEventLostOrReordered

LEMMA InitIInv == Init => IInv
<1> SUFFICES ASSUME Init PROVE IInv
  OBVIOUS
<1>1. <<>> \o <<>> = <<>> /\ Len(<<>>) = 0
  OBVIOUS
<1>2. TypeOK
  BY DEF Init, TypeOK, EmptyQueue
<1>3. InFlight = <<>>
  BY DEF Init, InFlight, EmptyQueue
<1> QED
  BY <1>1, <1>2, <1>3 DEF IInv, Init, EmptyQueue, Handover, NoEventLostOrReordered,
                         EndsAfterEverythingPushed

LEMMA PushKeepsIInv ==
    ASSUME IInv, NEW e \in Events, PushEvent(e)
    PROVE  IInv'
<1> USE DEF IInv
<1>1. /\ queue \in [buffer : Seq(Events), waiting : BOOLEAN, closed : BOOLEAN,
                    slot : {<<>>} \cup {<<x>> : x \in Events \cup {Done}}]
      /\ pushed \in Seq(Events) /\ delivered \in Seq(Events) /\ cutoff \in Int
  BY DEF TypeOK
<1>2. pushed' = Append(pushed, e) /\ pushed' \in Seq(Events) /\ Len(pushed') = Len(pushed) + 1
  BY <1>1, AppendProperties DEF PushEvent
<1>3. CASE queue.waiting
  <2>1. queue' = [queue EXCEPT !.slot = <<e>>, !.waiting = FALSE]
    BY <1>3 DEF PushEvent, Push
  <2>2. queue.slot = <<>> /\ queue.buffer = <<>> /\ iter = "awaiting" /\ ~queue.closed
    BY <1>3 DEF Handover
  <2>3. TypeOK'
    BY <1>1, <1>2, <2>1 DEF TypeOK, PushEvent
  <2>4. InFlight' = <<e>> /\ queue'.slot = <<e>> /\ queue'.slot # <<Done>>
    BY <1>1, <2>1, EventsAssumption DEF InFlight
  <2>5. delivered = pushed
    BY <2>2, SlotCases, NothingOwed
  <2>6. NoEventLostOrReordered'
    <3>1. delivered' \o InFlight' = pushed'
      BY <1>1, <1>2, <2>4, <2>5, AppendIsConcat DEF PushEvent
    <3> QED
      BY <1>1, <1>2, <2>1, <2>2, <3>1, ConcatEmptySeq DEF NoEventLostOrReordered
  <2>7. Handover'
    BY <1>1, <1>2, <2>1, <2>2, <2>4, LenFacts DEF Handover, PushEvent
  <2> QED
    BY <2>3, <2>6, <2>7 DEF EndsAfterEverythingPushed, PushEvent
<1>4. CASE ~queue.waiting
  <2>1. queue' = [queue EXCEPT !.buffer = Append(@, e)]
    BY <1>4 DEF PushEvent, Push
  <2>2. TypeOK'
    <3>1. Append(queue.buffer, e) \in Seq(Events)
      BY <1>1, AppendProperties
    <3> QED
      BY <1>1, <1>2, <2>1, <3>1 DEF TypeOK, PushEvent
  <2>3. InFlight' = InFlight /\ queue'.slot = queue.slot /\ queue'.waiting = queue.waiting
        /\ queue'.closed = queue.closed /\ queue'.buffer = Append(queue.buffer, e)
    BY <1>1, <2>1 DEF InFlight
  <2>4. NoEventLostOrReordered'
    <3>1. InFlight \in Seq(Events) /\ queue.buffer \in Seq(Events)
      BY SlotCases
    <3>2. delivered \o InFlight \o Append(queue.buffer, e)
            = Append(delivered \o InFlight \o queue.buffer, e)
      BY <1>1, <3>1, AppendToLast
    <3>3. delivered' = delivered
      BY DEF PushEvent
    <3> QED
      BY <1>2, <2>3, <3>2, <3>3 DEF NoEventLostOrReordered
  <2>5. Handover'
    BY <1>1, <1>2, <1>4, <2>3, LenFacts DEF Handover, PushEvent
  <2> QED
    BY <2>2, <2>4, <2>5 DEF EndsAfterEverythingPushed, PushEvent
<1> QED
  BY <1>3, <1>4

LEMMA CloseKeepsIInv ==
    ASSUME IInv, CloseQueue
    PROVE  IInv'
<1> USE DEF IInv
<1>1. /\ queue \in [buffer : Seq(Events), waiting : BOOLEAN, closed : BOOLEAN,
                    slot : {<<>>} \cup {<<x>> : x \in Events \cup {Done}}]
      /\ pushed \in Seq(Events) /\ delivered \in Seq(Events) /\ cutoff \in Int
  BY DEF TypeOK
<1>2. Len(pushed) \in Nat /\ Len(delivered) \in Nat
  BY <1>1, LenFacts
<1>3. cutoff' \in Int /\ cutoff' # -1 /\ cutoff' <= Len(pushed)
      /\ (cutoff # -1 => cutoff' = cutoff) /\ (cutoff = -1 => cutoff' = Len(pushed))
  BY <1>1, <1>2 DEF CloseQueue, Handover
<1>4. CASE queue.waiting
  <2>1. queue' = [queue EXCEPT !.closed = TRUE, !.slot = <<Done>>, !.waiting = FALSE]
    BY <1>4 DEF CloseQueue, Close
  <2>2. queue.slot = <<>> /\ queue.buffer = <<>> /\ iter = "awaiting" /\ cutoff = -1
    BY <1>4 DEF Handover
  <2>3. TypeOK'
    BY <1>1, <1>3, <2>1 DEF TypeOK, CloseQueue
  <2>4. InFlight' = <<>> /\ InFlight = <<>> /\ queue'.slot = <<Done>> /\ queue'.buffer = queue.buffer
        /\ queue'.closed /\ ~queue'.waiting
    BY <1>1, <2>1, <2>2 DEF InFlight
  <2>5. delivered = pushed
    BY <2>2, <2>4, NothingOwed
  <2>6. Handover'
    BY <1>1, <1>2, <1>3, <2>2, <2>4, <2>5 DEF Handover, CloseQueue
  <2> QED
    BY <2>2, <2>3, <2>4, <2>6 DEF NoEventLostOrReordered, EndsAfterEverythingPushed, CloseQueue
<1>5. CASE ~queue.waiting
  <2>1. queue' = [queue EXCEPT !.closed = TRUE]
    BY <1>5 DEF CloseQueue, Close
  <2>2. TypeOK'
    BY <1>1, <1>3, <2>1 DEF TypeOK, CloseQueue
  <2>3. InFlight' = InFlight /\ queue'.slot = queue.slot /\ queue'.buffer = queue.buffer
        /\ queue'.closed /\ ~queue'.waiting
    BY <1>1, <1>5, <2>1 DEF InFlight
  <2>4. Handover'
    BY <1>1, <1>2, <1>3, <1>5, <2>3 DEF Handover, CloseQueue
  <2> QED
    BY <1>3, <2>2, <2>3, <2>4 DEF NoEventLostOrReordered, EndsAfterEverythingPushed, CloseQueue
<1> QED
  BY <1>4, <1>5

LEMMA TakeKeepsIInv ==
    ASSUME IInv, TakeBuffered
    PROVE  IInv'
<1> USE DEF IInv
<1>1. /\ queue \in [buffer : Seq(Events), waiting : BOOLEAN, closed : BOOLEAN,
                    slot : {<<>>} \cup {<<x>> : x \in Events \cup {Done}}]
      /\ pushed \in Seq(Events) /\ delivered \in Seq(Events) /\ cutoff \in Int
  BY DEF TypeOK
<1>2. iter = "pulling" /\ queue.buffer # <<>> /\ queue.slot = <<>> /\ ~queue.waiting
  BY DEF TakeBuffered, Handover
<1>3. /\ delivered' = Append(delivered, Head(queue.buffer))
      /\ queue' = [queue EXCEPT !.buffer = Tail(@)]
      /\ UNCHANGED <<iter, pushed, cutoff>>
  BY DEF TakeBuffered
<1>4. Head(queue.buffer) \in Events /\ Tail(queue.buffer) \in Seq(Events)
  BY <1>1, <1>2, HeadTailProperties
<1>5. delivered' \in Seq(Events)
  BY <1>1, <1>3, <1>4, AppendProperties
<1>6. TypeOK'
  BY <1>1, <1>3, <1>4, <1>5 DEF TypeOK
<1>7. /\ InFlight' = <<>> /\ InFlight = <<>> /\ queue'.slot = <<>>
      /\ queue'.waiting = queue.waiting /\ queue'.closed = queue.closed
      /\ queue'.buffer = Tail(queue.buffer)
  BY <1>1, <1>2, <1>3 DEF InFlight
<1>8. NoEventLostOrReordered'
  BY <1>1, <1>2, <1>3, <1>4, <1>5, <1>7, ConcatEmptySeq, MoveHead DEF NoEventLostOrReordered
<1>9. Handover'
  BY <1>2, <1>3, <1>7 DEF Handover
<1> QED
  BY <1>2, <1>3, <1>6, <1>8, <1>9 DEF EndsAfterEverythingPushed

LEMMA ReturnKeepsIInv ==
    ASSUME IInv, ReturnClosed
    PROVE  IInv'
<1> USE DEF IInv
<1>1. iter = "pulling" /\ queue.buffer = <<>> /\ queue.slot = <<>> /\ queue.closed
      /\ iter' = "returned" /\ UNCHANGED <<queue, pushed, delivered, cutoff>>
  BY DEF ReturnClosed, Handover
<1>2. TypeOK'
  BY <1>1 DEF TypeOK
<1>3. delivered = pushed /\ cutoff # -1 /\ cutoff <= Len(pushed) /\ ~queue.waiting
  BY <1>1, SlotCases, NothingOwed DEF Handover
<1>4. Handover' /\ NoEventLostOrReordered'
  BY <1>1, <1>3 DEF Handover, NoEventLostOrReordered, InFlight
<1>5. EndsAfterEverythingPushed'
  BY <1>1, <1>3, LenFacts DEF EndsAfterEverythingPushed, TypeOK
<1> QED
  BY <1>2, <1>4, <1>5

LEMMA ParkKeepsIInv ==
    ASSUME IInv, Park
    PROVE  IInv'
<1> USE DEF IInv
<1>1. /\ queue \in [buffer : Seq(Events), waiting : BOOLEAN, closed : BOOLEAN,
                    slot : {<<>>} \cup {<<x>> : x \in Events \cup {Done}}]
      /\ queue.slot = <<>>
  BY DEF TypeOK, Park, Handover
<1>2. /\ iter = "pulling" /\ queue.buffer = <<>> /\ ~queue.closed
      /\ iter' = "awaiting" /\ queue' = [queue EXCEPT !.waiting = TRUE]
      /\ UNCHANGED <<pushed, delivered, cutoff>>
  BY DEF Park
<1>3. TypeOK'
  BY <1>1, <1>2 DEF TypeOK
<1>4. /\ queue'.slot = queue.slot /\ queue'.buffer = queue.buffer
      /\ queue'.closed = queue.closed /\ queue'.waiting
  BY <1>1, <1>2
<1>5. Handover' /\ NoEventLostOrReordered' /\ EndsAfterEverythingPushed'
  BY <1>1, <1>2, <1>4 DEF Handover, NoEventLostOrReordered, InFlight, EndsAfterEverythingPushed
<1> QED
  BY <1>3, <1>5

LEMMA ResumeEventKeepsIInv ==
    ASSUME IInv, ResumeWithEvent
    PROVE  IInv'
<1> USE DEF IInv
<1>1. /\ queue \in [buffer : Seq(Events), waiting : BOOLEAN, closed : BOOLEAN,
                    slot : {<<>>} \cup {<<x>> : x \in Events \cup {Done}}]
      /\ pushed \in Seq(Events) /\ delivered \in Seq(Events) /\ cutoff \in Int
  BY DEF TypeOK
<1>2. PICK e \in Events : queue.slot = <<e>>
  BY SlotCases DEF ResumeWithEvent
<1>3. /\ delivered' = Append(delivered, e) /\ iter' = "pulling"
      /\ queue' = [queue EXCEPT !.slot = <<>>]
      /\ UNCHANGED <<pushed, cutoff>>
  BY <1>2 DEF ResumeWithEvent
<1>4. delivered' \in Seq(Events)
  BY <1>1, <1>3, AppendProperties
<1>5. TypeOK'
  BY <1>1, <1>3, <1>4 DEF TypeOK
<1>6. /\ InFlight = <<e>> /\ InFlight' = <<>> /\ queue'.slot = <<>> /\ queue'.waiting = queue.waiting
      /\ queue'.buffer = queue.buffer /\ queue'.closed = queue.closed /\ ~queue.waiting
  BY <1>1, <1>2, <1>3, SlotCases DEF InFlight, Handover
<1>7. delivered' \o <<>> = delivered \o <<e>>
  BY <1>1, <1>3, <1>4, AppendIsConcat, ConcatEmptySeq
<1>8. NoEventLostOrReordered'
  BY <1>3, <1>6, <1>7 DEF NoEventLostOrReordered
<1>9. Handover' /\ EndsAfterEverythingPushed'
  BY <1>1, <1>3, <1>6 DEF Handover, EndsAfterEverythingPushed
<1> QED
  BY <1>5, <1>8, <1>9

LEMMA ResumeDoneKeepsIInv ==
    ASSUME IInv, ResumeDone
    PROVE  IInv'
<1> USE DEF IInv
<1>1. /\ queue \in [buffer : Seq(Events), waiting : BOOLEAN, closed : BOOLEAN,
                    slot : {<<>>} \cup {<<x>> : x \in Events \cup {Done}}]
      /\ queue.slot = <<Done>> /\ queue.slot # <<>>
  BY DEF TypeOK, ResumeDone
<1>2. /\ iter' = "returned" /\ queue' = [queue EXCEPT !.slot = <<>>]
      /\ UNCHANGED <<pushed, delivered, cutoff>>
  BY DEF ResumeDone
<1>3. TypeOK'
  BY <1>1, <1>2 DEF TypeOK
<1>4. /\ InFlight = <<>> /\ InFlight' = <<>> /\ queue'.slot = <<>> /\ queue'.waiting = queue.waiting
      /\ queue'.buffer = queue.buffer /\ queue'.closed = queue.closed /\ ~queue.waiting
  BY <1>1, <1>2 DEF InFlight, Handover
<1>5. Handover' /\ NoEventLostOrReordered' /\ EndsAfterEverythingPushed'
  BY <1>1, <1>2, <1>4 DEF Handover, NoEventLostOrReordered, EndsAfterEverythingPushed
<1> QED
  BY <1>3, <1>5

LEMMA StutterKeepsIInv ==
    ASSUME IInv, UNCHANGED vars
    PROVE  IInv'
BY DEF IInv, vars, TypeOK, Handover, NoEventLostOrReordered, InFlight, EndsAfterEverythingPushed

LEMMA NextKeepsIInv == IInv /\ [Next]_vars => IInv'
BY PushKeepsIInv, CloseKeepsIInv, TakeKeepsIInv, ReturnKeepsIInv, ParkKeepsIInv,
   ResumeEventKeepsIInv, ResumeDoneKeepsIInv, StutterKeepsIInv
   DEF Next, Producer, Consumer

LEMMA InvariantHolds == Spec => []IInv
<1>1. Init => IInv
  BY InitIInv
<1>2. IInv /\ [Next]_vars => IInv'
  BY NextKeepsIInv
<1> QED
  BY <1>1, <1>2, PTL DEF Spec

\* Every field of the queue keeps its type, for any set of events.
THEOREM QueueTypeCorrect == Spec => []TypeOK
BY InvariantHolds, PTL DEF IInv

\* No event a callback pushed is lost, doubled or overtaken on its way to the
\* route, whatever falls between a promise's resolution and its resumption.
THEOREM QueueKeepsOrder == Spec => []NoEventLostOrReordered
BY InvariantHolds, PTL DEF IInv

\* A parked generator can always be woken.
THEOREM QueueLosesNoWakeup == Spec => []NoLostWakeup
<1>1. IInv => NoLostWakeup
  BY DEF IInv, Handover, NoLostWakeup
<1> QED
  BY <1>1, InvariantHolds, PTL

\* The loop over the queue ends only after everything pushed before the
\* session went idle was seen.
THEOREM QueueEndsLate == Spec => []EndsAfterEverythingPushed
BY InvariantHolds, PTL DEF IInv

------------------------------------------------------------------------------
\* The event a generator yields is the next one of the pushed sequence.
LEMMA NextOfPushed ==
    ASSUME NEW S, NEW d \in Seq(S), NEW h \in Seq(S), h # <<>>, NEW p, d \o h = p
    PROVE  Len(d) < Len(p) /\ p[Len(d) + 1] = Head(h)
<1>1. Len(d) \in Nat /\ Len(h) \in Nat /\ Len(h) # 0
  BY LenProperties, EmptySeq
<1>2. Len(p) = Len(d) + Len(h)
  BY ConcatProperties
<1>3. p[Len(d) + 1] = h[1]
  BY <1>1, ConcatProperties
<1> QED
  BY <1>1, <1>2, <1>3

LEMMA StepSimulates ==
    ASSUME IInv, [Next]_vars
    PROVE  [Stream!Next]_(Stream!vars)
<1> USE DEF IInv
<1>t. delivered \in Seq(Events) /\ queue.buffer \in Seq(Events) /\ InFlight \in Seq(Events)
  BY SlotCases DEF TypeOK
<1>1. ASSUME NEW e \in Events, PushEvent(e)
      PROVE  Stream!Send(e)
  BY <1>1 DEF PushEvent, Stream!Send
<1>2. ASSUME CloseQueue
      PROVE  Stream!Shut \/ UNCHANGED Stream!vars
  BY <1>2 DEF CloseQueue, Stream!Shut, Stream!vars, Stream!NotClosed
<1>3. ASSUME TakeBuffered
      PROVE  Stream!Deliver
  <2>1. queue.slot = <<>> /\ iter = "pulling" /\ iter' = "pulling" /\ queue.buffer # <<>>
    BY <1>3 DEF TakeBuffered, Handover
  <2>2. delivered \o queue.buffer = pushed
    BY <1>t, <2>1, SlotCases, ConcatEmptySeq DEF NoEventLostOrReordered
  <2>3. Len(delivered) < Len(pushed) /\ pushed[Len(delivered) + 1] = Head(queue.buffer)
    BY <1>t, <2>1, <2>2, NextOfPushed
  <2> QED
    BY <1>3, <2>1, <2>3 DEF TakeBuffered, Stream!Deliver
<1>4. ASSUME ResumeWithEvent
      PROVE  Stream!Deliver
  <2>1. PICK e \in Events : queue.slot = <<e>>
    BY <1>4, SlotCases DEF ResumeWithEvent
  <2>2. InFlight = <<e>>
    BY <2>1, SlotCases
  <2>3. InFlight \o queue.buffer \in Seq(Events) /\ InFlight \o queue.buffer # <<>>
        /\ Head(InFlight \o queue.buffer) = e
    <3>1. Len(InFlight) = 1 /\ InFlight[1] = e
      BY <2>2
    <3>2. InFlight \o queue.buffer \in Seq(Events)
          /\ Len(InFlight \o queue.buffer) = Len(InFlight) + Len(queue.buffer)
      BY <1>t, ConcatProperties
    <3>3. Len(queue.buffer) \in Nat
      BY <1>t, LenFacts
    <3>4. (InFlight \o queue.buffer)[1] = e
      BY <1>t, <3>1, <3>3, ConcatProperties
    <3> QED
      BY <3>1, <3>2, <3>3, <3>4
  <2>4. delivered \o (InFlight \o queue.buffer) = pushed
    <3>1. \A d, h, b \in Seq(Events) : (d \o h) \o b = d \o (h \o b)
      BY ConcatAssociative
    <3>2. (delivered \o InFlight) \o queue.buffer = delivered \o (InFlight \o queue.buffer)
      BY <1>t, <3>1, Zenon
    <3> QED
      BY <3>2 DEF NoEventLostOrReordered
  <2>5. Len(delivered) < Len(pushed) /\ pushed[Len(delivered) + 1] = e
    BY <1>t, <2>3, <2>4, NextOfPushed
  <2> QED
    BY <1>4, <2>1, <2>5 DEF ResumeWithEvent, Stream!Deliver
<1>5. ASSUME ReturnClosed \/ ResumeDone
      PROVE  Stream!End
  <2>1. iter # "returned" /\ iter' = "returned" /\ UNCHANGED <<pushed, delivered, cutoff>>
    BY <1>5 DEF ReturnClosed, ResumeDone
  <2>2. cutoff # -1 /\ Len(delivered) >= cutoff
    <3>1. IInv'
      BY <1>5, ReturnKeepsIInv, ResumeDoneKeepsIInv
    <3>2. EndsAfterEverythingPushed'
      BY <3>1
    <3> QED
      BY <2>1, <3>2 DEF EndsAfterEverythingPushed
  <2> QED
    BY <2>1, <2>2 DEF Stream!End, Stream!NotClosed
<1>6. ASSUME Park \/ UNCHANGED vars
      PROVE  UNCHANGED Stream!vars
  BY <1>6 DEF Park, vars, Stream!vars
<1> QED
  BY <1>1, <1>2, <1>3, <1>4, <1>5, <1>6 DEF Next, Producer, Consumer, Stream!Next

\* The queue implements the abstract stream: every step of the queue is a step
\* of the stream or leaves it unchanged.  (The stream's fairness, which
\* ImplementsStream adds, is model-checked.)
THEOREM QueueImplementsStream == Spec => Stream!SafeSpec
<1>1. Init => Stream!Init
  BY DEF Init, Stream!Init, Stream!NotClosed
<1>2. IInv /\ [Next]_vars => [Stream!Next]_(Stream!vars)
  BY StepSimulates
<1> QED
  BY <1>1, <1>2, InvariantHolds, PTL DEF Spec, Stream!SafeSpec

==============================================================================
