------------------------- MODULE CopilotStream_proofs -------------------------
(***************************************************************************)
(* What the route is handed of a turn, proved from what the callbacks push:*)
(* each call announced once and answered once after that, every one of     *)
(* them before the turn is done, and all of the model's text.              *)
(***************************************************************************)
EXTENDS CopilotTurn_proofs, FiniteSetTheorems, SequenceTheorems, WellFoundedInduction

(* The events of a turn in the order they are pushed, wherever they are: handed *)
(* to the route, on their way to its generator, or buffered.                    *)

Coming(q) == IF q.slot = <<>> \/ q.slot = <<DoneEvent>> THEN <<>> ELSE q.slot

Word(d, q) == d \o Coming(q) \o q.buffer

Pushed == Word(delivered, queue)

\* What the fields of the queue say of each other.
Handover(q) ==
    /\ q.waiting => q.slot = <<>> /\ q.buffer = <<>> /\ ~q.closed
    /\ q.slot = <<DoneEvent>> => q.buffer = <<>> /\ q.closed

\* A generator that is parked or has been woken.
Parked(q) == q.waiting \/ q.slot # <<>>

\* Appending to the last of three sequences appends to the whole.
LEMMA AppendsToWhole ==
    ASSUME NEW S, NEW d \in Seq(S), NEW h \in Seq(S), NEW b \in Seq(S), NEW e \in S
    PROVE  (d \o h) \o Append(b, e) = Append((d \o h) \o b, e)
<1>1. d \o h \in Seq(S) /\ <<e>> \in Seq(S)
  BY ConcatProperties
<1>2. (d \o h) \o (b \o <<e>>) = ((d \o h) \o b) \o <<e>>
  BY <1>1, ConcatAssociative
<1>3. Append(b, e) = b \o <<e>>
  BY AppendIsConcat
<1>4. Append((d \o h) \o b, e) = ((d \o h) \o b) \o <<e>>
  BY <1>1, AppendIsConcat, ConcatProperties
<1> QED
  BY <1>2, <1>3, <1>4

\* The head of one sequence moves behind the other.
LEMMA HeadMoves ==
    ASSUME NEW S, NEW d \in Seq(S), NEW b \in Seq(S), b # <<>>
    PROVE  Head(b) \in S /\ Append(d, Head(b)) \o Tail(b) = d \o b
<1>1. Head(b) \in S /\ Tail(b) \in Seq(S) /\ b = <<Head(b)>> \o Tail(b)
  BY HeadTailProperties
<1>2. <<Head(b)>> \in Seq(S)
  BY <1>1
<1>3. Append(d, Head(b)) = d \o <<Head(b)>>
  BY <1>1, AppendIsConcat
<1>4. (d \o <<Head(b)>>) \o Tail(b) = d \o (<<Head(b)>> \o Tail(b))
  BY <1>1, <1>2, ConcatAssociative
<1> QED
  BY <1>1, <1>3, <1>4

\* The verdict is not one of the events that are pushed.
LEMMA VerdictsAreNotPushed == DoneEvent \notin AllEvents /\ ErrorEvent \notin AllEvents
<1>1. /\ \A v \in {DoneEvent, ErrorEvent} : v # Decision /\ v # Token
      /\ \A v \in {DoneEvent, ErrorEvent} : \A c : v # ToolCall(c) /\ \A ok : v # ToolResult(c, ok)
  BY DEF Decision, Token, DoneEvent, ErrorEvent, ToolCall, ToolResult
<1> QED
  BY <1>1 DEF AllEvents

LEMMA QueueParts ==
    ASSUME NEW q \in QueueObject
    PROVE  /\ q.buffer \in Seq(AllEvents) /\ Coming(q) \in Seq(AllEvents)
           /\ q.slot = <<>> \/ q.slot = <<DoneEvent>> => Coming(q) = <<>>
           /\ \A e \in AllEvents : q.slot = <<e>> => Coming(q) = <<e>>
           /\ \/ q.slot = <<>> \/ q.slot = <<DoneEvent>>
              \/ \E e \in AllEvents : q.slot = <<e>>
<1>1. \A x : <<x>> # <<>>
  OBVIOUS
<1>2. \A e \in AllEvents : <<e>> # <<DoneEvent>>
  BY VerdictsAreNotPushed
<1>3. \A e \in AllEvents : <<e>> \in Seq(AllEvents)
  OBVIOUS
<1>4. q.buffer \in Seq(AllEvents) /\ q.slot \in {<<>>} \cup {<<e>> : e \in AllEvents \cup {DoneEvent}}
  BY DEF QueueObject
<1>5. CASE q.slot = <<>> \/ q.slot = <<DoneEvent>>
  BY <1>1, <1>2, <1>4, <1>5 DEF Coming
<1>6. ASSUME NEW e \in AllEvents, q.slot = <<e>>
      PROVE  Coming(q) = <<e>> /\ q.slot # <<>> /\ q.slot # <<DoneEvent>>
  BY <1>1, <1>2, <1>6 DEF Coming
<1>7. q.slot = <<>> \/ q.slot = <<DoneEvent>> \/ \E e \in AllEvents : q.slot = <<e>>
  BY <1>4
<1> QED
  BY <1>3, <1>4, <1>5, <1>6, <1>7

\* Nothing has been handed over by a queue that is parked: an event goes to the
\* generator or behind the buffer, and either way behind all that was pushed.
LEMMA PushAppends ==
    ASSUME NEW q \in QueueObject, Handover(q), ~q.closed, NEW d \in Seq(AllEvents),
           NEW e \in AllEvents
    PROVE  /\ Word(d, Q!Push(q, e)) = Append(Word(d, q), e)
           /\ Handover(Q!Push(q, e)) /\ ~Q!Push(q, e).closed
           /\ Parked(Q!Push(q, e)) <=> Parked(q)
<1>1. /\ q.buffer \in Seq(AllEvents) /\ Coming(q) \in Seq(AllEvents)
      /\ <<e>> \in Seq(AllEvents) /\ <<e>> # <<>> /\ <<e>> # <<DoneEvent>>
  BY VerdictsAreNotPushed, QueueParts
<1>2. CASE q.waiting
  <2>1. Q!Push(q, e) = [q EXCEPT !.slot = <<e>>, !.waiting = FALSE]
    BY <1>2 DEF Q!Push
  <2>2. PICK r : r = Q!Push(q, e)
    OBVIOUS
  <2>3. r.slot = <<e>> /\ ~r.waiting /\ r.buffer = <<>> /\ r.closed = q.closed
        /\ q.slot = <<>> /\ q.buffer = <<>>
    BY <1>2, <2>1, <2>2 DEF QueueObject, Handover
  <2>4. Coming(r) = <<e>> /\ Coming(q) = <<>>
    BY <1>1, <2>3 DEF Coming
  <2>5. Word(d, r) = d \o <<e>> /\ Word(d, q) = d
    BY <1>1, <2>3, <2>4, ConcatEmptySeq, ConcatProperties DEF Word
  <2> QED
    BY <1>1, <1>2, <2>2, <2>3, <2>5, AppendIsConcat DEF Handover, Parked
<1>3. CASE ~q.waiting
  <2>1. Q!Push(q, e) = [q EXCEPT !.buffer = Append(@, e)]
    BY <1>3 DEF Q!Push
  <2>2. PICK r : r = Q!Push(q, e)
    OBVIOUS
  <2>3. r.slot = q.slot /\ ~r.waiting /\ r.buffer = Append(q.buffer, e) /\ r.closed = q.closed
    BY <1>3, <2>1, <2>2 DEF QueueObject
  <2>4. q.slot # <<DoneEvent>>
    BY DEF Handover
  <2>5. Coming(r) = Coming(q)
    BY <2>3 DEF Coming
  <2>6. Word(d, r) = Append(Word(d, q), e)
    <3>1. PICK h \in Seq(AllEvents), b \in Seq(AllEvents) : h = Coming(q) /\ b = q.buffer
      BY <1>1
    <3>2. (d \o h) \o Append(b, e) = Append((d \o h) \o b, e)
      BY AppendsToWhole
    <3> QED
      BY <2>3, <2>5, <3>1, <3>2, Zenon DEF Word
  <2> QED
    BY <1>3, <2>2, <2>3, <2>4, <2>6 DEF Handover, Parked
<1> QED  BY <1>2, <1>3

LEMMA CloseAppendsNothing ==
    ASSUME NEW q \in QueueObject, Handover(q), NEW d \in Seq(AllEvents)
    PROVE  /\ Word(d, Q!Close(q)) = Word(d, q)
           /\ Handover(Q!Close(q)) /\ Q!Close(q).closed
           /\ Parked(Q!Close(q)) <=> Parked(q)
<1>1. PICK r : r = Q!Close(q)
  OBVIOUS
<1>2. <<DoneEvent>> # <<>>
  OBVIOUS
<1>3. CASE q.waiting
  <2>1. r.slot = <<DoneEvent>> /\ ~r.waiting /\ r.buffer = q.buffer /\ r.closed
        /\ q.slot = <<>> /\ q.buffer = <<>>
    BY <1>1, <1>3 DEF Q!Close, QueueObject, Handover
  <2>2. Coming(r) = Coming(q)
    BY <2>1 DEF Coming
  <2> QED
    BY <1>1, <1>2, <1>3, <2>1, <2>2 DEF Word, Handover, Parked
<1>4. CASE ~q.waiting
  <2>1. r.slot = q.slot /\ ~r.waiting /\ r.buffer = q.buffer /\ r.closed
    BY <1>1, <1>4 DEF Q!Close, QueueObject
  <2> QED
    BY <1>1, <1>4, <2>1 DEF Word, Coming, Handover, Parked
<1> QED  BY <1>3, <1>4

\* A step of the generator moves events along.
LEMMA ConsumerMoves ==
    ASSUME queue \in QueueObject, Handover(queue), delivered \in Seq(AllEvents),
           iter = "awaiting" <=> Parked(queue), Q!Consumer
    PROVE  /\ Pushed' = Pushed
           /\ Handover(queue') /\ queue'.closed = queue.closed
           /\ iter' = "awaiting" <=> Parked(queue')
           /\ iter # "returned"
           /\ iter' = "returned" =>
                 queue'.closed /\ queue'.buffer = <<>> /\ queue'.slot = <<>>
           /\ \/ delivered' = delivered
              \/ iter' # "returned" /\ \E e \in AllEvents : delivered' = Append(delivered, e)
<1>1. CASE Q!TakeBuffered
  <2>1. PICK q : q = queue'
    OBVIOUS
  <2>2. /\ queue.buffer \in Seq(AllEvents) /\ queue.buffer # <<>> /\ iter = "pulling"
        /\ queue.slot = <<>> /\ ~queue.waiting
        /\ q.slot = <<>> /\ ~q.waiting /\ q.closed = queue.closed /\ q.buffer = Tail(queue.buffer)
    BY <1>1, <2>1 DEF Q!TakeBuffered, QueueObject, Parked
  <2>3. Coming(q) = <<>> /\ Coming(queue) = <<>>
    BY <2>2 DEF Coming
  <2>4. PICK e \in AllEvents : e = Head(queue.buffer)
    BY <2>2, HeadMoves
  <2>5. delivered' = Append(delivered, e) /\ iter' = iter
    BY <1>1, <2>4 DEF Q!TakeBuffered
  <2>6. Append(delivered, e) \o Tail(queue.buffer) = delivered \o queue.buffer
    BY <2>2, <2>4, HeadMoves
  <2>7. Word(delivered', q) = Word(delivered, queue)
    <3>1. Append(delivered, e) \in Seq(AllEvents)
      BY AppendProperties
    <3> QED
      BY <2>2, <2>3, <2>5, <2>6, <3>1, ConcatEmptySeq DEF Word
  <2> QED
    BY <2>1, <2>2, <2>5, <2>7 DEF Pushed, Handover, Parked
<1>2. CASE Q!ReturnClosed
  BY <1>2 DEF Q!ReturnClosed, Pushed, Parked
<1>3. CASE Q!Park
  <2>1. PICK q : q = queue'
    OBVIOUS
  <2>2. /\ queue.slot = <<>> /\ queue.buffer = <<>> /\ ~queue.closed /\ iter = "pulling"
        /\ q.slot = <<>> /\ q.waiting /\ ~q.closed /\ q.buffer = <<>>
        /\ delivered' = delivered /\ iter' = "awaiting"
    BY <1>3, <2>1 DEF Q!Park, QueueObject, Parked
  <2>3. Pushed' = Pushed
    BY <2>1, <2>2 DEF Pushed, Word, Coming
  <2>4. Handover(q) /\ Parked(q) /\ q.closed = queue.closed
    <3>1. queue.closed \in BOOLEAN /\ q.closed \in BOOLEAN
      BY <1>3, <2>1 DEF Q!Park, QueueObject
    <3>2. q.slot # <<DoneEvent>>
      BY <2>2
    <3> QED
      BY <2>2, <3>1, <3>2 DEF Handover, Parked
  <2> QED
    BY <2>1, <2>2, <2>3, <2>4
<1>4. CASE Q!ResumeWithEvent
  <2>1. PICK q : q = queue'
    OBVIOUS
  <2>2. PICK e \in AllEvents : queue.slot = <<e>>
    BY <1>4, QueueParts DEF Q!ResumeWithEvent
  <2>3. /\ Coming(queue) = <<e>> /\ queue.buffer \in Seq(AllEvents) /\ ~queue.waiting
        /\ q.slot = <<>> /\ ~q.waiting /\ q.closed = queue.closed /\ q.buffer = queue.buffer
        /\ delivered' = Append(delivered, e) /\ iter = "awaiting" /\ iter' = "pulling"
    BY <1>4, <2>1, <2>2, QueueParts DEF Q!ResumeWithEvent, QueueObject, Handover
  <2>4. Coming(q) = <<>>
    BY <2>3 DEF Coming
  <2>5. Word(delivered', q) = Word(delivered, queue)
    <3>1. Append(delivered, e) \in Seq(AllEvents) /\ Append(delivered, e) = delivered \o <<e>>
      BY AppendProperties, AppendIsConcat
    <3> QED
      BY <2>3, <2>4, <3>1, ConcatEmptySeq DEF Word
  <2> QED
    BY <2>1, <2>3, <2>5 DEF Pushed, Handover, Parked
<1>5. CASE Q!ResumeDone
  <2>1. PICK q : q = queue'
    OBVIOUS
  <2>2. /\ queue.slot = <<DoneEvent>> /\ queue.buffer = <<>> /\ queue.closed /\ ~queue.waiting
        /\ q.slot = <<>> /\ ~q.waiting /\ q.closed /\ q.buffer = <<>>
        /\ delivered' = delivered /\ iter = "awaiting" /\ iter' = "returned"
    BY <1>5, <2>1 DEF Q!ResumeDone, QueueObject, Handover
  <2>3. Word(delivered', q) = Word(delivered, queue)
    BY <2>2 DEF Word, Coming
  <2> QED
    BY <2>1, <2>2, <2>3 DEF Pushed, Handover, Parked
<1> QED
  BY <1>1, <1>2, <1>3, <1>4, <1>5 DEF Q!Consumer

------------------------------------------------------------------------------
\* What the fields say of the generator, and the session of the queue.
QueueInv ==
    /\ Handover(queue)
    /\ iter = "awaiting" <=> Parked(queue)
    /\ iter = "returned" => queue.closed /\ queue.buffer = <<>> /\ queue.slot = <<>>
    /\ queue.closed => session \in {"idle", "gone"}
    /\ session = "idle" => queue.closed
    /\ queue.closed => \A c \in Calls : calls[c].at \in {"unused", "over"}

\* run() up to the verdict, and the part of it that only looks things up.
Early == {"starting", "creating", "researching", "summarising"}
Before == pc \in Early \cup {"sending", "draining"}

PhaseInv ==
    /\ pc \in {"starting", "creating"} => session = "none" /\ queue = Q!EmptyQueue
    /\ pc \in {"researching", "summarising"} => session = "quiet"
    /\ pc \in {"sending", "draining"} => session \in {"working", "idle"}
    /\ pc \in Early => \A c \in Calls : calls[c].at = "unused"
    /\ pc \in Early \cup {"sending"} => delivered = <<>> /\ iter = "pulling"
    /\ Before => delivered \in Seq(AllEvents)

\* What a step of the session pushes, if anything.
Work ==
    /\ Working
    /\ \/ UNCHANGED queue
       \/ \E e \in AllEvents : Pushes(e)
    /\ UNCHANGED <<pc, client, session, grounding, iter, stream, recorded, broke>>

LEMMA SDKWorks ==
    ASSUME TypeInv, SDK
    PROVE  Work \/ Idle
<1> USE DEF Work, Pushes
<1>1. CASE Delta
  BY <1>1, DriverEvents DEF Delta
<1>2. ASSUME NEW c \in Calls, NEW tool \in Tools, RequestPermission(c, tool)
      PROVE  Work
  BY <1>2, DriverEvents DEF RequestPermission
<1>3. ASSUME NEW c \in Calls, ReadProfile(c) \/ ProfileRead(c)
      PROVE  Work
  BY <1>3, CallEvents DEF ReadProfile, ProfileRead
<1>4. ASSUME NEW c \in Calls,
             \/ onPreToolUse(c) \/ onPostToolUse(c) \/ onPostToolUseFailure(c)
             \/ \E ok \in BOOLEAN : HandlerReturns(c, ok)
      PROVE  Work
  <2>1. calls[c].tool \in Tools
    BY <1>4, TypeParts DEF onPreToolUse, HandlerReturns, onPostToolUse, onPostToolUseFailure, Move,
       CallsTyped, CallsNameTools
  <2>2. ToolCall(Call(c, calls[c].tool)) \in AllEvents
        /\ \A ok \in BOOLEAN : ToolResult(Call(c, calls[c].tool), ok) \in AllEvents
    BY <2>1, CallEvents
  <2> QED
    BY <1>4, <2>2 DEF onPreToolUse, HandlerReturns, onPostToolUse, onPostToolUseFailure,
       ReportFailure
<1> QED
  BY <1>1, <1>2, <1>3, <1>4 DEF SDK

\* An open queue after some pushes.
Follows(q, r) ==
    r \in QueueObject /\ Handover(r) /\ ~r.closed /\ (Parked(r) <=> Parked(q))

LEMMA PushFollows ==
    ASSUME NEW q, NEW r, Follows(q, r), NEW e \in AllEvents
    PROVE  Follows(q, Q!Push(r, e))
<1>1. <<>> \in Seq(AllEvents)
  OBVIOUS
<1> QED
  BY <1>1, PushAppends, PushKeepsType DEF Follows

LEMMA FollowsItself ==
    ASSUME TypeInv, QueueInv, ~queue.closed
    PROVE  Follows(queue, queue)
  BY DEF TypeInv, QueueInv, Follows

\* The look-ups of the driver push on an open queue, before anything is read.
LEMMA LookUpsFollow ==
    ASSUME TypeInv, QueueInv, PhaseInv, Create \/ Researched \/ Summarised
    PROVE  Follows(queue, queue')
<1>1. ~queue.closed
  BY DEF Create, Researched, Summarised, Step, PhaseInv, QueueInv
<1>2. Follows(queue, queue)
  BY <1>1, FollowsItself
<1>3. CASE Create
  BY <1>2, <1>3, PushFollows, DriverEvents DEF Create, Chat
<1>4. CASE Researched
  <2> DEFINE fact == Call("driver", "wikipedia.summary")
  <2>1. Follows(queue, Q!Push(Q!Push(queue, ToolCall(fact)), ToolResult(fact, TRUE)))
    BY <1>2, PushFollows, DriverEvents
  <2> QED
    BY <1>4, <2>1, PushFollows, DriverEvents DEF Researched
<1>5. CASE Summarised
  <2>1. Follows(queue, Q!Push(queue, ToolResult(Call("driver", "profile"), TRUE)))
    BY <1>2, PushFollows, DriverEvents
  <2> QED
    BY <1>5, <2>1, PushFollows, DriverEvents DEF Summarised
<1> QED
  BY <1>3, <1>4, <1>5

LEMMA QueueInvNext ==
    ASSUME TypeInv, QueueInv, PhaseInv, [Next]_vars
    PROVE  QueueInv'
<1>1. ASSUME UNCHANGED <<queue, iter, calls>>, session' = session \/ session' = "gone" PROVE QueueInv'
  BY <1>1 DEF QueueInv
<1>2. CASE Create \/ Researched \/ Summarised
  <2>1. Follows(queue, queue') /\ iter' = iter /\ iter # "returned" /\ session' \in {"working", "quiet"}
    <3>1. iter' = iter /\ iter = "pulling"
      BY <1>2 DEF Create, Researched, Summarised, Step, PhaseInv, Early
    <3>2. session' \in {"working", "quiet"}
      BY <1>2 DEF Create, Researched, Summarised, Step, PhaseInv
    <3> QED
      BY <1>2, <3>1, <3>2, LookUpsFollow
  <2>2. Handover(queue') /\ ~(queue').closed /\ (iter' = "awaiting" <=> Parked(queue'))
    BY <2>1 DEF Follows, QueueInv
  <2> QED
    BY <2>1, <2>2 DEF QueueInv
<1>3. CASE Drain
  <2>1. Q!Consumer /\ UNCHANGED <<session, calls, pc>> /\ delivered \in Seq(AllEvents)
    BY <1>3 DEF Drain, sdk, PhaseInv, Before
  <2>2. /\ Handover(queue') /\ (queue').closed = queue.closed
        /\ iter' = "awaiting" <=> Parked(queue')
        /\ iter' = "returned" => (queue').closed /\ (queue').buffer = <<>> /\ (queue').slot = <<>>
    BY <2>1, ConsumerMoves DEF TypeInv, QueueInv
  <2> QED
    BY <2>1, <2>2 DEF QueueInv
<1>4. CASE Work
  <2>1. ~queue.closed /\ iter' = iter /\ session' = session /\ iter # "returned" /\ session = "working"
    BY <1>4 DEF Work, Working, QueueInv
  <2>2. Follows(queue, queue')
    BY <1>4, <2>1, FollowsItself, PushFollows DEF Work, Pushes
  <2>3. Handover(queue') /\ ~(queue').closed /\ (iter' = "awaiting" <=> Parked(queue'))
    BY <2>1, <2>2 DEF Follows, QueueInv
  <2> QED
    BY <2>1, <2>3 DEF QueueInv
<1>5. CASE Idle
  <2>1. /\ ~queue.closed /\ iter' = iter /\ iter # "returned" /\ session' = "idle"
        /\ \A c \in Calls : calls'[c].at \in {"unused", "over"}
    BY <1>5 DEF Idle, Working, QueueInv
  <2>2. PICK r : r = Q!Push(queue, ToolResult(Chat, TRUE)) /\ queue' = Q!Close(r)
    BY <1>5 DEF Idle, CloseOut
  <2>3. Follows(queue, r)
    BY <2>1, <2>2, FollowsItself, PushFollows, DriverEvents DEF Chat
  <2>4. <<>> \in Seq(AllEvents)
    OBVIOUS
  <2>5. Handover(queue') /\ (queue').closed /\ (Parked(queue') <=> Parked(queue))
    BY <2>2, <2>3, <2>4, CloseAppendsNothing DEF Follows
  <2> QED
    BY <2>1, <2>5 DEF QueueInv
<1>6. CASE \/ Start \/ StartFails \/ CreateFails \/ Send \/ SendFails \/ Finish
           \/ Disconnect \/ DisconnectFails \/ Stop \/ StopFails \/ UNCHANGED vars
  BY <1>1, <1>6 DEF Start, StartFails, CreateFails, Send, SendFails, Finish, Disconnect,
     DisconnectFails, Stop, StopFails, vars, sdk
<1> QED
  BY <1>2, <1>3, <1>4, <1>5, <1>6, SDKWorks DEF Next, Driver

LEMMA PhaseInvNext ==
    ASSUME TypeInv, QueueInv, PhaseInv, [Next]_vars
    PROVE  PhaseInv'
<1> USE DEF PhaseInv, Before, Early, Step, sdk, stream
<1>1. CASE Start \/ Create \/ Researched \/ Summarised \/ Send
  BY <1>1 DEF Start, Create, Researched, Summarised, Send
<1>2. CASE StartFails \/ CreateFails \/ DisconnectFails \/ StopFails
  BY <1>2 DEF StartFails, CreateFails, DisconnectFails, StopFails, Throw
<1>3. CASE SendFails \/ Finish \/ Disconnect \/ Stop
  BY <1>3 DEF SendFails, Finish, Disconnect, Stop
<1>4. CASE Drain
  <2>1. delivered' = delivered \/ \E e \in AllEvents : delivered' = Append(delivered, e)
    BY <1>4, ConsumerMoves DEF Drain, TypeInv, QueueInv
  <2>2. delivered' \in Seq(AllEvents)
    BY <1>4, <2>1 DEF Drain
  <2> QED
    BY <1>4, <2>2 DEF Drain
<1>5. CASE Work
  BY <1>5 DEF Work, Working
<1>6. CASE Idle
  BY <1>6 DEF Idle, Working
<1>7. CASE UNCHANGED vars
  BY <1>7 DEF vars
<1> QED
  BY <1>1, <1>2, <1>3, <1>4, <1>5, <1>6, <1>7, SDKWorks DEF Next, Driver

------------------------------------------------------------------------------
(* Words of events in which each call is made once, and answered at most once *)
(* after that.                                                                *)

CallsIn(w) == {c \in AllCalls : \E k \in DOMAIN w : w[k] = ToolCall(c)}

AnswersIn(w) == {c \in AllCalls : \E k \in DOMAIN w, ok \in BOOLEAN : w[k] = ToolResult(c, ok)}

TokensIn(w) == {k \in DOMAIN w : w[k] = Token}

Orderly(w) ==
    \A k \in DOMAIN w, c \in AllCalls :
        /\ w[k] = ToolCall(c) => \A i \in 1 .. (k - 1) : w[i] # ToolCall(c)
        /\ \A ok \in BOOLEAN : w[k] = ToolResult(c, ok) =>
              /\ \E i \in 1 .. (k - 1) : w[i] = ToolCall(c)
              /\ \A i \in 1 .. (k - 1), yes \in BOOLEAN : w[i] # ToolResult(c, yes)

\* A word that leaves the calls of `open` unanswered, makes none but those of
\* `begun`, and has n pieces of text.
Tells(w, open, begun, n) ==
    /\ w \in Seq(AllEvents)
    /\ Orderly(w)
    /\ CallsIn(w) \ AnswersIn(w) = open
    /\ CallsIn(w) \subseteq begun
    /\ IsFiniteSet(TokensIn(w)) /\ Cardinality(TokensIn(w)) = n

LEMMA EventsDiffer ==
    /\ \A c, ok : ToolCall(c) # ToolResult(c, ok)
    /\ \A c, d, ok : ToolCall(c) # ToolResult(d, ok)
    /\ \A c, d : ToolCall(c) = ToolCall(d) => c = d
    /\ \A c, d, ok, yes : ToolResult(c, ok) = ToolResult(d, yes) => c = d /\ ok = yes
    /\ \A v \in {Decision, Token, DoneEvent, ErrorEvent} : \A c :
          v # ToolCall(c) /\ \A ok : v # ToolResult(c, ok)
    /\ Decision # Token /\ DoneEvent # Token /\ ErrorEvent # Token /\ DoneEvent # ErrorEvent
    /\ \A c : Token # ToolCall(c) /\ \A ok : Token # ToolResult(c, ok)
  BY DEF ToolCall, ToolResult, Decision, Token, DoneEvent, ErrorEvent

LEMMA Longer ==
    ASSUME NEW S, NEW w \in Seq(S), NEW e
    PROVE  /\ DOMAIN w = 1 .. Len(w) /\ Len(w) \in Nat
           /\ DOMAIN Append(w, e) = 1 .. (Len(w) + 1)
           /\ DOMAIN Append(w, e) = DOMAIN w \cup {Len(w) + 1}
           /\ \A k \in 1 .. Len(w) : Append(w, e)[k] = w[k]
           /\ Append(w, e)[Len(w) + 1] = e
  OBVIOUS

\* An event that is new to an orderly word keeps it so.
LEMMA StaysOrderly ==
    ASSUME NEW S, NEW w \in Seq(S), Orderly(w), NEW e,
           \A c \in AllCalls :
              /\ e = ToolCall(c) => c \notin CallsIn(w)
              /\ \A ok \in BOOLEAN : e = ToolResult(c, ok) => c \in CallsIn(w) \ AnswersIn(w)
    PROVE  Orderly(Append(w, e))
<1>1. PICK v : v = Append(w, e)
  OBVIOUS
<1>2. PICK n \in Nat : n = Len(w)
  BY Longer
<1>3. DOMAIN w = 1 .. n /\ DOMAIN v = 1 .. (n + 1) /\ v[n + 1] = e /\ \A k \in 1 .. n : v[k] = w[k]
  BY <1>1, <1>2, Longer
<1>4. ASSUME NEW k \in 1 .. n, NEW c \in AllCalls
      PROVE  /\ v[k] = ToolCall(c) => \A i \in 1 .. (k - 1) : v[i] # ToolCall(c)
             /\ \A ok \in BOOLEAN : v[k] = ToolResult(c, ok) =>
                   /\ \E i \in 1 .. (k - 1) : v[i] = ToolCall(c)
                   /\ \A i \in 1 .. (k - 1), yes \in BOOLEAN : v[i] # ToolResult(c, yes)
  <2>1. v[k] = w[k] /\ \A i \in 1 .. (k - 1) : i \in 1 .. n /\ v[i] = w[i]
    BY <1>3
  <2> QED
    BY <1>3, <2>1 DEF Orderly
<1>5. ASSUME NEW c \in AllCalls
      PROVE  /\ e = ToolCall(c) => \A i \in 1 .. n : v[i] # ToolCall(c)
             /\ \A ok \in BOOLEAN : e = ToolResult(c, ok) =>
                   /\ \E i \in 1 .. n : v[i] = ToolCall(c)
                   /\ \A i \in 1 .. n, yes \in BOOLEAN : v[i] # ToolResult(c, yes)
  BY <1>3 DEF CallsIn, AnswersIn
<1>6. (n + 1) - 1 = n /\ \A k \in 1 .. (n + 1) : k \in 1 .. n \/ k = n + 1
  OBVIOUS
<1>7. Orderly(v)
  BY <1>3, <1>4, <1>5, <1>6 DEF Orderly
<1> QED
  BY <1>1, <1>7

LEMMA WordGrows ==
    ASSUME NEW S, NEW w \in Seq(S), NEW e
    PROVE  /\ CallsIn(Append(w, e)) = CallsIn(w) \cup {c \in AllCalls : e = ToolCall(c)}
           /\ AnswersIn(Append(w, e)) =
                 AnswersIn(w) \cup {c \in AllCalls : \E ok \in BOOLEAN : e = ToolResult(c, ok)}
           /\ TokensIn(Append(w, e)) = TokensIn(w) \cup {k \in {Len(w) + 1} : e = Token}
           /\ Len(w) + 1 \notin TokensIn(w)
<1>1. PICK v : v = Append(w, e)
  OBVIOUS
<1>2. PICK n \in Nat : n = Len(w)
  BY Longer
<1>3. /\ DOMAIN v = DOMAIN w \cup {n + 1} /\ v[n + 1] = e /\ \A k \in DOMAIN w : v[k] = w[k]
      /\ n + 1 \notin DOMAIN w
  BY <1>1, <1>2, Longer
<1>4. CallsIn(v) = CallsIn(w) \cup {c \in AllCalls : e = ToolCall(c)}
  BY <1>3 DEF CallsIn
<1>5. AnswersIn(v) = AnswersIn(w) \cup {c \in AllCalls : \E ok \in BOOLEAN : e = ToolResult(c, ok)}
  BY <1>3 DEF AnswersIn
<1>6. TokensIn(v) = TokensIn(w) \cup {k \in {n + 1} : e = Token} /\ n + 1 \notin TokensIn(w)
  BY <1>3 DEF TokensIn
<1> QED
  BY <1>1, <1>2, <1>4, <1>5, <1>6

\* In an orderly word an answer has a call before it.
LEMMA AnsweredWereMade ==
    ASSUME NEW S, NEW w \in Seq(S), Orderly(w)
    PROVE  AnswersIn(w) \subseteq CallsIn(w)
<1> SUFFICES ASSUME NEW c \in AnswersIn(w) PROVE c \in CallsIn(w)
  OBVIOUS
<1>1. PICK k \in DOMAIN w, ok \in BOOLEAN : w[k] = ToolResult(c, ok)
  BY DEF AnswersIn
<1>2. c \in AllCalls
  BY DEF AnswersIn
<1>3. PICK i \in 1 .. (k - 1) : w[i] = ToolCall(c)
  BY <1>1, <1>2 DEF Orderly
<1>4. i \in DOMAIN w
  BY Longer
<1> QED
  BY <1>2, <1>3, <1>4 DEF CallsIn

\* What each event adds to the tale.
LEMMA TellsMore ==
    ASSUME NEW w, NEW open, NEW begun, NEW n \in Nat, Tells(w, open, begun, n)
    PROVE  /\ Tells(Append(w, Decision), open, begun, n)
           /\ Tells(Append(w, Token), open, begun, n + 1)
           /\ \A c \in AllCalls \ begun : Tells(Append(w, ToolCall(c)), open \cup {c}, begun \cup {c}, n)
           /\ \A c \in open : \A ok \in BOOLEAN :
                 Tells(Append(w, ToolResult(c, ok)), open \ {c}, begun, n)
<1>1. w \in Seq(AllEvents) /\ Orderly(w) /\ AnswersIn(w) \subseteq CallsIn(w)
  BY AnsweredWereMade DEF Tells
<1>2. Decision \in AllEvents /\ Token \in AllEvents
  BY DriverEvents
<1>3. \A e :
         /\ CallsIn(Append(w, e)) = CallsIn(w) \cup {d \in AllCalls : e = ToolCall(d)}
         /\ AnswersIn(Append(w, e)) =
               AnswersIn(w) \cup {d \in AllCalls : \E yes \in BOOLEAN : e = ToolResult(d, yes)}
         /\ TokensIn(Append(w, e)) = TokensIn(w) \cup {k \in {Len(w) + 1} : e = Token}
         /\ Len(w) + 1 \notin TokensIn(w)
  BY <1>1, WordGrows
<1>4. Tells(Append(w, Decision), open, begun, n)
  <2>1. PICK v : v = Append(w, Decision)
    OBVIOUS
  <2>2. v \in Seq(AllEvents) /\ Orderly(v)
    BY <1>1, <1>2, <2>1, StaysOrderly, EventsDiffer
  <2>3. CallsIn(v) = CallsIn(w) /\ AnswersIn(v) = AnswersIn(w) /\ TokensIn(v) = TokensIn(w)
    <3>1. /\ CallsIn(v) = CallsIn(w) \cup {d \in AllCalls : Decision = ToolCall(d)}
          /\ AnswersIn(v) =
                AnswersIn(w) \cup {d \in AllCalls : \E yes \in BOOLEAN : Decision = ToolResult(d, yes)}
          /\ TokensIn(v) = TokensIn(w) \cup {k \in {Len(w) + 1} : Decision = Token}
          /\ Len(w) + 1 \notin TokensIn(w)
      BY <1>3, <2>1, Zenon
    <3>2. /\ {d \in AllCalls : Decision = ToolCall(d)} = {}
          /\ {d \in AllCalls : \E yes \in BOOLEAN : Decision = ToolResult(d, yes)} = {}
          /\ {k \in {Len(w) + 1} : Decision = Token} = {}
      BY EventsDiffer
    <3> QED
      BY <3>1, <3>2
  <2> QED
    BY <2>1, <2>2, <2>3 DEF Tells
<1>5. Tells(Append(w, Token), open, begun, n + 1)
  <2>1. PICK v : v = Append(w, Token)
    OBVIOUS
  <2>2. v \in Seq(AllEvents) /\ Orderly(v)
    BY <1>1, <1>2, <2>1, StaysOrderly, EventsDiffer
  <2>3. /\ CallsIn(v) = CallsIn(w) /\ AnswersIn(v) = AnswersIn(w)
        /\ TokensIn(v) = TokensIn(w) \cup {Len(w) + 1} /\ Len(w) + 1 \notin TokensIn(w)
    <3>1. /\ CallsIn(v) = CallsIn(w) \cup {d \in AllCalls : Token = ToolCall(d)}
          /\ AnswersIn(v) =
                AnswersIn(w) \cup {d \in AllCalls : \E yes \in BOOLEAN : Token = ToolResult(d, yes)}
          /\ TokensIn(v) = TokensIn(w) \cup {k \in {Len(w) + 1} : Token = Token}
          /\ Len(w) + 1 \notin TokensIn(w)
      BY <1>3, <2>1, Zenon
    <3>2. /\ {d \in AllCalls : Token = ToolCall(d)} = {}
          /\ {d \in AllCalls : \E yes \in BOOLEAN : Token = ToolResult(d, yes)} = {}
          /\ {k \in {Len(w) + 1} : Token = Token} = {Len(w) + 1}
      BY EventsDiffer
    <3> QED
      BY <3>1, <3>2
  <2>4. IsFiniteSet(TokensIn(v)) /\ Cardinality(TokensIn(v)) = n + 1
    <3>1. PICK T, x : T = TokensIn(w) /\ x = Len(w) + 1
      OBVIOUS
    <3>2. IsFiniteSet(T) /\ Cardinality(T) = n /\ x \notin T /\ TokensIn(v) = T \cup {x}
      BY <2>3, <3>1 DEF Tells
    <3> QED
      BY <3>2, FS_AddElement
  <2> QED
    BY <2>1, <2>2, <2>3, <2>4 DEF Tells
<1>6. ASSUME NEW c \in AllCalls \ begun
      PROVE  Tells(Append(w, ToolCall(c)), open \cup {c}, begun \cup {c}, n)
  <2>1. PICK v : v = Append(w, ToolCall(c))
    OBVIOUS
  <2>2. c \notin CallsIn(w) /\ ToolCall(c) \in AllEvents
    BY DEF Tells, AllEvents
  <2>3. v \in Seq(AllEvents) /\ Orderly(v)
    BY <1>1, <2>1, <2>2, StaysOrderly, EventsDiffer
  <2>4. CallsIn(v) = CallsIn(w) \cup {c} /\ AnswersIn(v) = AnswersIn(w) /\ TokensIn(v) = TokensIn(w)
    <3>1. /\ CallsIn(v) = CallsIn(w) \cup {d \in AllCalls : ToolCall(c) = ToolCall(d)}
          /\ AnswersIn(v) =
                AnswersIn(w) \cup {d \in AllCalls : \E yes \in BOOLEAN : ToolCall(c) = ToolResult(d, yes)}
          /\ TokensIn(v) = TokensIn(w) \cup {k \in {Len(w) + 1} : ToolCall(c) = Token}
          /\ Len(w) + 1 \notin TokensIn(w)
      BY <1>3, <2>1, Zenon
    <3>2. /\ {d \in AllCalls : ToolCall(c) = ToolCall(d)} = {c}
          /\ {d \in AllCalls : \E yes \in BOOLEAN : ToolCall(c) = ToolResult(d, yes)} = {}
          /\ {k \in {Len(w) + 1} : ToolCall(c) = Token} = {}
      BY EventsDiffer
    <3> QED
      BY <3>1, <3>2
  <2>5. CallsIn(v) \ AnswersIn(v) = open \cup {c} /\ CallsIn(v) \subseteq begun \cup {c}
    BY <1>1, <2>2, <2>4 DEF Tells
  <2> QED
    BY <2>1, <2>3, <2>4, <2>5 DEF Tells
<1>7. ASSUME NEW c \in open, NEW ok \in BOOLEAN
      PROVE  Tells(Append(w, ToolResult(c, ok)), open \ {c}, begun, n)
  <2>1. PICK v : v = Append(w, ToolResult(c, ok))
    OBVIOUS
  <2>2. c \in CallsIn(w) \ AnswersIn(w) /\ c \in AllCalls /\ ToolResult(c, ok) \in AllEvents
    BY DEF Tells, AllEvents, CallsIn
  <2>3. v \in Seq(AllEvents) /\ Orderly(v)
    BY <1>1, <2>1, <2>2, StaysOrderly, EventsDiffer
  <2>4. CallsIn(v) = CallsIn(w) /\ AnswersIn(v) = AnswersIn(w) \cup {c} /\ TokensIn(v) = TokensIn(w)
    <3>1. /\ CallsIn(v) = CallsIn(w) \cup {d \in AllCalls : ToolResult(c, ok) = ToolCall(d)}
          /\ AnswersIn(v) =
                AnswersIn(w) \cup {d \in AllCalls : \E yes \in BOOLEAN : ToolResult(c, ok) = ToolResult(d, yes)}
          /\ TokensIn(v) = TokensIn(w) \cup {k \in {Len(w) + 1} : ToolResult(c, ok) = Token}
          /\ Len(w) + 1 \notin TokensIn(w)
      BY <1>3, <2>1, Zenon
    <3>2. /\ {d \in AllCalls : ToolResult(c, ok) = ToolCall(d)} = {}
          /\ {d \in AllCalls : \E yes \in BOOLEAN : ToolResult(c, ok) = ToolResult(d, yes)} = {c}
          /\ {k \in {Len(w) + 1} : ToolResult(c, ok) = Token} = {}
      BY <2>2, EventsDiffer
    <3> QED
      BY <3>1, <3>2
  <2>5. CallsIn(v) \ AnswersIn(v) = open \ {c} /\ CallsIn(v) \subseteq begun
    BY <2>4 DEF Tells
  <2> QED
    BY <2>1, <2>3, <2>4, <2>5 DEF Tells
<1> QED
  BY <1>4, <1>5, <1>6, <1>7

------------------------------------------------------------------------------
(* What is pushed of a turn, from where its calls are. *)

\* A tool whose call is at `place` is under way, or was.
CallUnderway(place, name) ==
    \/ name = place.tool /\ place.at \in {"running", "reading", "read"}
    \/ name = "profile" /\ place.at = "reading"

CallBegun(place, name) ==
    /\ place.at \notin {"unused", "approved"}
    /\ name = place.tool \/ (name = "profile" /\ place.at # "running")

\* What the driver has announced at p, and perhaps more.
LookedUp(p) ==
    IF p \in {"starting", "creating"} THEN {}
    ELSE IF p = "researching" THEN {"copilot.chat"}
    ELSE IF p = "summarising" THEN {"copilot.chat", "wikipedia.summary", "profile"}
    ELSE {"copilot.chat", "wikipedia.summary", "profile", "trip-summariser"}

Profile == Call("driver", "profile")

Underway(p, places, closed) ==
    {x \in AllCalls :
        \/ x.of \in Calls /\ CallUnderway(places[x.of], x.name)
        \/ x = Chat /\ p \notin {"starting", "creating"} /\ ~closed
        \/ x = Profile /\ p = "summarising"}

Begun(p, places) ==
    {x \in AllCalls :
        \/ x.of \in Calls /\ CallBegun(places[x.of], x.name)
        \/ x.of = "driver" /\ x.name \in LookedUp(p)}

\* Up to the verdict the pushed events tell of the calls under way, and of all the
\* text.
TaleInv ==
    Before => Tells(Pushed, Underway(pc, calls, queue.closed), Begun(pc, calls), tokens)

LEMMA CallParts ==
    /\ \A of, name : Call(of, name).of = of /\ Call(of, name).name = name
    /\ \A x \in AllCalls : \A of, name : x = Call(of, name) <=> x.of = of /\ x.name = name
    /\ \A c \in Calls : \A name \in Tools \cup {"profile"} : Call(c, name) \in AllCalls
    /\ \A x \in AllCalls : x.of \in Calls =>
          x.of # "driver" /\ x.name \in Tools \cup {"profile"}
    /\ \A name \in {"copilot.chat", "profile", "wikipedia.summary", "trip-summariser"} :
          Call("driver", name) \in AllCalls
  BY TurnAssumption DEF Call, AllCalls

\* A call that moves changes nothing of the others.
LEMMA CallMoves ==
    ASSUME NEW c \in Calls, NEW old, NEW new, NEW p, NEW closed,
           \A d \in Calls \ {c} : new[d] = old[d]
    PROVE  /\ \A x \in AllCalls : x.of # c =>
                 /\ x \in Underway(p, new, closed) <=> x \in Underway(p, old, closed)
                 /\ x \in Begun(p, new) <=> x \in Begun(p, old)
           /\ \A x \in AllCalls, places \in {old, new} : x.of = c =>
                 /\ x \in Underway(p, places, closed) <=> CallUnderway(places[c], x.name)
                 /\ x \in Begun(p, places) <=> CallBegun(places[c], x.name)
<1>1. c # "driver"
  BY TurnAssumption
<1>2. \A x \in AllCalls : x.of # c => x.of \notin Calls \/ new[x.of] = old[x.of]
  OBVIOUS
<1>3. \A x \in AllCalls : x.of # c =>
                 /\ x \in Underway(p, new, closed) <=> x \in Underway(p, old, closed)
                 /\ x \in Begun(p, new) <=> x \in Begun(p, old)
  BY <1>2 DEF Underway, Begun
<1>4. \A x \in AllCalls : x.of = c => x # Chat /\ x # Profile
  BY <1>1, CallParts DEF Chat, Profile
<1>5. \A x \in AllCalls, places \in {old, new} : x.of = c =>
                 /\ x \in Underway(p, places, closed) <=> CallUnderway(places[c], x.name)
                 /\ x \in Begun(p, places) <=> CallBegun(places[c], x.name)
  BY <1>1, <1>4 DEF Underway, Begun
<1> QED
  BY <1>3, <1>5

LEMMA TellsMayBegin ==
    ASSUME NEW w, NEW open, NEW begun, NEW more, NEW n, Tells(w, open, begun, n), begun \subseteq more
    PROVE  Tells(w, open, more, n)
  BY DEF Tells

\* The driver's calls before its message is sent.
LEMMA EarlyTale ==
    ASSUME NEW p \in Early \cup {"sending"}, NEW places, \A c \in Calls : places[c].at = "unused"
    PROVE  /\ Underway(p, places, FALSE) =
                 IF p \in {"starting", "creating"} THEN {}
                 ELSE IF p = "summarising" THEN {Chat, Profile} ELSE {Chat}
           /\ Begun(p, places) = {x \in AllCalls : x.of = "driver" /\ x.name \in LookedUp(p)}
<1>1. Chat \in AllCalls /\ Profile \in AllCalls
  BY CallParts DEF Chat, Profile
<1>2. \A c \in Calls : \A name : ~CallUnderway(places[c], name) /\ ~CallBegun(places[c], name)
  BY DEF CallUnderway, CallBegun
<1> QED
  BY <1>1, <1>2 DEF Underway, Begun, Early

\* A step of the session pushes on an open queue, behind all that was pushed.
LEMMA WorkAppends ==
    ASSUME TypeInv, QueueInv, PhaseInv, Work, Before
    PROVE  /\ ~queue.closed /\ ~(queue').closed
           /\ UNCHANGED queue => Pushed' = Pushed
           /\ \A e \in AllEvents : Pushes(e) => Pushed' = Append(Pushed, e)
<1>1. ~queue.closed /\ delivered \in Seq(AllEvents) /\ delivered' = delivered /\ queue \in QueueObject
  BY DEF Work, Working, QueueInv, PhaseInv, stream, TypeInv
<1>2. ASSUME NEW e \in AllEvents, Pushes(e)
      PROVE  ~(queue').closed /\ Pushed' = Append(Pushed, e)
  BY <1>1, <1>2, PushAppends DEF Pushes, Pushed, QueueInv
<1>3. CASE UNCHANGED queue
  BY <1>1, <1>2, <1>3 DEF Pushed
<1>4. CASE \E e \in AllEvents : Pushes(e)
  BY <1>1, <1>2, <1>4 DEF Pushed
<1> QED
  BY <1>1, <1>2, <1>3, <1>4 DEF Work

\* The sets of calls under way and begun follow the place of c.
Accounts(c, name, place, next, U, B, U2, B2) ==
    /\ (\A n \in Tools \cup {"profile"} :
            CallUnderway(next, n) <=> CallUnderway(place, n)) => U2 = U
    /\ (\A n \in Tools \cup {"profile"} :
            CallUnderway(next, n) <=> CallUnderway(place, n) \/ n = name)
          => U2 = U \cup {Call(c, name)}
    /\ (\A n \in Tools \cup {"profile"} :
            CallUnderway(next, n) <=> CallUnderway(place, n) /\ n # name)
          => U2 = U \ {Call(c, name)}
    /\ (\A n \in Tools \cup {"profile"} : CallBegun(place, n) => CallBegun(next, n))
          => B \subseteq B2
    /\ CallUnderway(place, name) => Call(c, name) \in U
    /\ ~CallBegun(place, name) => Call(c, name) \notin B
    /\ CallBegun(next, name) => Call(c, name) \in B2

\* The call c is at `place`, and now at `next`.
LEMMA CallTale ==
    ASSUME NEW c \in Calls, queue.closed = FALSE, (queue').closed = FALSE, pc' = pc,
           \A d \in Calls \ {c} : calls'[d] = calls[d],
           NEW place, NEW next, place = calls[c], next = calls'[c],
           NEW name \in Tools \cup {"profile"}, NEW U, NEW B, NEW U2, NEW B2,
           U = Underway(pc, calls, queue.closed), B = Begun(pc, calls),
           U2 = Underway(pc', calls', (queue').closed), B2 = Begun(pc', calls')
    PROVE  Accounts(c, name, place, next, U, B, U2, B2)
<1>1. PICK p, old, new :
         p = pc /\ old = calls /\ new = calls' /\ \A d \in Calls \ {c} : new[d] = old[d]
  OBVIOUS
<1>2. /\ \A x \in AllCalls : x.of # c =>
            /\ x \in Underway(p, new, FALSE) <=> x \in Underway(p, old, FALSE)
            /\ x \in Begun(p, new) <=> x \in Begun(p, old)
      /\ \A x \in AllCalls, places \in {old, new} : x.of = c =>
            /\ x \in Underway(p, places, FALSE) <=> CallUnderway(places[c], x.name)
            /\ x \in Begun(p, places) <=> CallBegun(places[c], x.name)
  <2>1. \A d \in Calls \ {c} : new[d] = old[d]
    BY <1>1
  <2> QED
    BY <2>1, CallMoves
<1>3. /\ \A x \in AllCalls : x.of = c => x.name \in Tools \cup {"profile"}
      /\ \A x \in AllCalls : x = Call(c, name) <=> x.of = c /\ x.name = name
      /\ Call(c, name) \in AllCalls /\ Call(c, name).of = c /\ Call(c, name).name = name
  BY CallParts
<1>4. old[c] = place /\ new[c] = next
  BY <1>1
<1>5. \A places : Underway(p, places, FALSE) \subseteq AllCalls /\ Begun(p, places) \subseteq AllCalls
  BY DEF Underway, Begun
<1>6. /\ U = Underway(p, old, FALSE) /\ B = Begun(p, old)
      /\ U2 = Underway(p, new, FALSE) /\ B2 = Begun(p, new)
  BY <1>1
<1>7. U \subseteq AllCalls /\ B \subseteq AllCalls /\ U2 \subseteq AllCalls /\ B2 \subseteq AllCalls
  BY <1>5, <1>6
<1>8. /\ \A x \in AllCalls : x.of # c => (x \in U2 <=> x \in U) /\ (x \in B2 <=> x \in B)
      /\ \A x \in AllCalls : x.of = c =>
            /\ x \in U <=> CallUnderway(place, x.name)
            /\ x \in U2 <=> CallUnderway(next, x.name)
            /\ x \in B <=> CallBegun(place, x.name)
            /\ x \in B2 <=> CallBegun(next, x.name)
  BY <1>2, <1>4, <1>6
<1> QED
  BY <1>3, <1>7, <1>8 DEF Accounts

\* What a step of the session pushes is told of the calls it moves.
LEMMA CallsTell ==
    ASSUME TypeInv, QueueInv, PhaseInv, TaleInv, Before, NEW c \in Calls,
           \/ \E tool \in Tools : RequestPermission(c, tool)
           \/ onPreToolUse(c) \/ ReadProfile(c) \/ ProfileRead(c)
           \/ \E ok \in BOOLEAN : HandlerReturns(c, ok)
           \/ onPostToolUse(c) \/ onPostToolUseFailure(c)
    PROVE  TaleInv'
<1> USE DEF Move
<1>1. Work /\ tokens' = tokens /\ pc' = pc /\ tokens \in Nat
  <2>1. SDK
    BY DEF SDK
  <2>2. tokens' = tokens /\ pc' = pc /\ pc \in Early \cup {"sending", "draining"}
    BY DEF RequestPermission, onPreToolUse, ReadProfile, ProfileRead, HandlerReturns,
       onPostToolUse, onPostToolUseFailure, Before
  <2>3. tokens \in Nat
    BY TurnAssumption DEF TypeInv, TypeOK
  <2>4. Idle => session' # session
    BY DEF Idle, Working
  <2>5. session' = session
    BY DEF RequestPermission, onPreToolUse, ReadProfile, ProfileRead, HandlerReturns,
       onPostToolUse, onPostToolUseFailure
  <2> QED
    BY <2>1, <2>2, <2>3, <2>4, <2>5, SDKWorks
<1>2. /\ UNCHANGED queue => Pushed' = Pushed
      /\ \A e \in AllEvents : Pushes(e) => Pushed' = Append(Pushed, e)
      /\ queue.closed = FALSE /\ (queue').closed = FALSE
  <2>1. ~queue.closed /\ ~(queue').closed
    BY <1>1, WorkAppends
  <2>2. queue \in QueueObject /\ queue' \in QueueObject
    BY <1>1, PushKeepsType DEF TypeInv, Work, Pushes
  <2>3. queue.closed = FALSE /\ (queue').closed = FALSE
    BY <2>1, <2>2 DEF QueueObject
  <2> QED
    BY <1>1, <2>3, WorkAppends
<1>3. PICK place, next : place = calls[c] /\ next = calls'[c]
  OBVIOUS
<1>4. /\ \A d \in Calls \ {c} : calls'[d] = calls[d]
      /\ place.at # "unused" => place.tool \in Tools /\ next.tool = place.tool
      /\ place.at = "unused" => next.at \in {"approved", "over"}
      /\ \A to : calls' = [calls EXCEPT ![c].at = to] => next.at = to
  <2>1. calls \in [Calls -> [tool : Tools \cup {"none"},
                            at : {"unused", "approved", "running", "reading", "read",
                                  "returned", "over"}]]
        /\ CallsNameTools
    BY DEF TypeInv, TypeOK
  <2>2. \/ /\ place.at = "unused"
           /\ \E tool \in Tools, at \in {"approved", "over"} :
                 calls' = [calls EXCEPT ![c] = [tool |-> tool, at |-> at]]
        \/ /\ place.at # "unused"
           /\ \E to : calls' = [calls EXCEPT ![c].at = to]
    BY <1>3 DEF RequestPermission, onPreToolUse, ReadProfile, ProfileRead,
       HandlerReturns, onPostToolUse, onPostToolUseFailure
  <2> QED
    BY <1>1, <1>3, <2>1, <2>2 DEF CallsNameTools
<1>5. PICK U, B, U2, B2, w, n :
         /\ U = Underway(pc, calls, queue.closed) /\ B = Begun(pc, calls)
         /\ U2 = Underway(pc', calls', (queue').closed) /\ B2 = Begun(pc', calls')
         /\ w = Pushed /\ n = tokens
  OBVIOUS
<1>6. Tells(w, U, B, n) /\ n \in Nat
  BY <1>1, <1>5 DEF TaleInv
<1>7. SUFFICES Tells(Pushed', U2, B2, n)
  BY <1>1, <1>5 DEF TaleInv
<1>8. "profile" \notin Tools
  BY TurnAssumption
<1>9. \A name \in Tools \cup {"profile"} : Accounts(c, name, place, next, U, B, U2, B2)
  <2>1. \A d \in Calls \ {c} : calls'[d] = calls[d]
    BY <1>4
  <2> QED
    BY <1>1, <1>2, <1>3, <1>5, <2>1, CallTale
\* An event that neither calls nor answers, or no event.
<1>10. CASE \/ \E tool \in Tools : RequestPermission(c, tool)
            \/ onPostToolUse(c) /\ calls[c].tool \in Own
  <2>1. /\ \/ place.at = "unused" /\ next.at \in {"approved", "over"}
           \/ place.at = "returned" /\ next.at = "over" /\ next.tool = place.tool
        /\ Pushes(Decision) \/ UNCHANGED queue
    BY <1>3, <1>4, <1>10 DEF RequestPermission, onPostToolUse
  <2>2. U2 = U /\ B \subseteq B2
    BY <1>8, <1>9, <2>1 DEF CallUnderway, CallBegun, Accounts
  <2>3. Pushed' = w \/ Pushed' = Append(w, Decision)
    BY <1>2, <1>5, <2>1, DriverEvents
  <2>4. Tells(Pushed', U, B, n)
    BY <1>6, <2>3, TellsMore
  <2> QED
    BY <2>2, <2>4, TellsMayBegin
\* An announcement.
<1>11. CASE onPreToolUse(c) \/ ReadProfile(c)
  <2>1. PICK name \in Tools \cup {"profile"} :
          /\ \/ place.at = "approved" /\ next.at = "running" /\ name = place.tool
             \/ place.at = "running" /\ next.at = "reading" /\ name = "profile"
          /\ Pushes(ToolCall(Call(c, name)))
          /\ next.tool = place.tool /\ place.tool \in Tools
    BY <1>3, <1>4, <1>11 DEF onPreToolUse, ReadProfile, TypeInv, TypeOK
  <2>2. /\ U2 = U \cup {Call(c, name)} /\ B \subseteq B2
        /\ Call(c, name) \notin B /\ Call(c, name) \in B2
    BY <1>8, <1>9, <2>1 DEF CallUnderway, CallBegun, Accounts
  <2>3. Call(c, name) \in AllCalls /\ ToolCall(Call(c, name)) \in AllEvents
    BY CallParts, CallEvents
  <2>4. Pushed' = Append(w, ToolCall(Call(c, name)))
    BY <1>2, <1>5, <2>1, <2>3
  <2>5. Tells(Pushed', U2, B \cup {Call(c, name)}, n)
    BY <1>6, <2>2, <2>3, <2>4, TellsMore
  <2> QED
    BY <2>2, <2>5, TellsMayBegin
\* An answer.
<1>12. CASE \/ ProfileRead(c) \/ onPostToolUseFailure(c)
            \/ \E ok \in BOOLEAN : HandlerReturns(c, ok)
            \/ onPostToolUse(c) /\ calls[c].tool \notin Own
  <2>1. PICK name \in Tools \cup {"profile"}, ok \in BOOLEAN :
          /\ \/ place.at = "reading" /\ next.at = "read" /\ name = "profile"
             \/ place.at \in {"running", "read"} /\ next.at \in {"returned", "over"} /\ name = place.tool
          /\ Pushes(ToolResult(Call(c, name), ok))
          /\ next.tool = place.tool /\ place.tool \in Tools
    <3>1. CASE ProfileRead(c)
      BY <1>3, <1>4, <3>1 DEF ProfileRead, TypeInv, TypeOK
    <3>2. CASE onPostToolUseFailure(c)
      BY <1>3, <1>4, <3>2 DEF onPostToolUseFailure, ReportFailure, TypeInv, TypeOK
    <3>3. ASSUME NEW ok \in BOOLEAN, HandlerReturns(c, ok)
          PROVE  \E name \in Tools : /\ place.at \in {"running", "read"} /\ next.at = "returned"
                                     /\ name = place.tool /\ Pushes(ToolResult(Call(c, name), ok))
                                     /\ next.tool = place.tool
      BY <1>3, <1>4, <3>3 DEF HandlerReturns, TypeInv, TypeOK
    <3>4. CASE onPostToolUse(c) /\ calls[c].tool \notin Own
      BY <1>3, <1>4, <3>4 DEF onPostToolUse, TypeInv, TypeOK
    <3> QED
      BY <1>12, <3>1, <3>2, <3>3, <3>4
  <2>2. U2 = U \ {Call(c, name)} /\ B \subseteq B2 /\ Call(c, name) \in U
    BY <1>8, <1>9, <2>1 DEF CallUnderway, CallBegun, Accounts
  <2>3. ToolResult(Call(c, name), ok) \in AllEvents
    BY CallEvents
  <2>4. Pushed' = Append(w, ToolResult(Call(c, name), ok))
    BY <1>2, <1>5, <2>1, <2>3
  <2>5. Tells(Pushed', U2, B, n)
    BY <1>6, <2>2, <2>4, TellsMore
  <2> QED
    BY <2>2, <2>5, TellsMayBegin
<1> QED
  BY <1>10, <1>11, <1>12

\* An open queue of which nothing has been read, and what pushes make of it.
Telling(q, open, begun, n) ==
    q \in QueueObject /\ Handover(q) /\ ~q.closed /\ Tells(Word(<<>>, q), open, begun, n)

LEMMA PushTells ==
    ASSUME NEW q, NEW open, NEW begun, NEW n \in Nat, Telling(q, open, begun, n)
    PROVE  /\ Telling(Q!Push(q, Decision), open, begun, n)
           /\ \A c \in AllCalls \ begun : \A more, b :
                 more = open \cup {c} /\ b = begun \cup {c} => Telling(Q!Push(q, ToolCall(c)), more, b, n)
           /\ \A c \in open : \A rest :
                 rest = open \ {c} => Telling(Q!Push(q, ToolResult(c, TRUE)), rest, begun, n)
<1>1. <<>> \in Seq(AllEvents)
  OBVIOUS
<1>2. PICK w : w = Word(<<>>, q)
  OBVIOUS
<1>3. Tells(w, open, begun, n)
  BY <1>2 DEF Telling
<1>4. ASSUME NEW e \in AllEvents, NEW o, NEW b, Tells(Append(w, e), o, b, n)
      PROVE  Telling(Q!Push(q, e), o, b, n)
  BY <1>1, <1>2, <1>4, PushAppends, PushKeepsType DEF Telling
<1>5. Telling(Q!Push(q, Decision), open, begun, n)
  BY <1>3, <1>4, TellsMore, DriverEvents
<1>6. ASSUME NEW c \in AllCalls \ begun
      PROVE  Telling(Q!Push(q, ToolCall(c)), open \cup {c}, begun \cup {c}, n)
  <2>1. ToolCall(c) \in AllEvents
    BY DEF AllEvents
  <2> QED
    BY <1>3, <1>4, <2>1, TellsMore
<1>7. ASSUME NEW c \in open
      PROVE  Telling(Q!Push(q, ToolResult(c, TRUE)), open \ {c}, begun, n)
  <2>1. c \in AllCalls
    BY <1>3 DEF Tells, CallsIn
  <2>2. ToolResult(c, TRUE) \in AllEvents
    <3>1. \A ok \in BOOLEAN : ToolResult(c, ok) \in AllEvents
      BY <2>1 DEF AllEvents
    <3> QED
      BY <3>1
  <2> QED
    BY <1>3, <1>4, <2>2, TellsMore
<1> QED
  BY <1>5, <1>6, <1>7

\* The events that the look-ups of run() announce.
LEMMA LookUpsTell ==
    ASSUME TypeInv, QueueInv, PhaseInv, TaleInv, Create \/ Researched \/ Summarised
    PROVE  TaleInv'
<1>1. /\ queue \in QueueObject /\ Handover(queue) /\ queue.closed = FALSE /\ delivered = <<>>
      /\ delivered' = delivered /\ tokens' = tokens /\ calls' = calls /\ tokens \in Nat
      /\ \A c \in Calls : calls[c].at = "unused"
      /\ pc \in Early /\ pc' \in Early \cup {"sending"}
  <2>1. ~queue.closed
    BY DEF Create, Researched, Summarised, Step, PhaseInv, QueueInv
  <2>2. tokens \in Nat /\ queue \in QueueObject /\ queue.closed = FALSE
    BY <2>1, TurnAssumption DEF TypeInv, TypeOK, QueueObject
  <2> QED
    BY <2>2 DEF Create, Researched, Summarised, Step, PhaseInv, QueueInv, Early, stream
<1>2. (queue').closed = FALSE
  <2>1. queue' \in QueueObject /\ ~(queue').closed
    BY LookUpsFollow DEF Follows
  <2> QED
    BY <2>1 DEF QueueObject
<1>3. PICK n, B, B2, U, U2 :
         /\ n = tokens /\ U = Underway(pc, calls, FALSE) /\ U2 = Underway(pc', calls', FALSE)
         /\ B = Begun(pc, calls) /\ B2 = Begun(pc', calls')
  OBVIOUS
<1>4. Tells(Word(<<>>, queue), U, B, n)
  BY <1>1, <1>3 DEF TaleInv, Before, Pushed
<1>5. SUFFICES Tells(Word(<<>>, queue'), U2, B2, n)
  BY <1>1, <1>2, <1>3 DEF TaleInv, Pushed
<1>6. /\ U = IF pc \in {"starting", "creating"} THEN {}
             ELSE IF pc = "summarising" THEN {Chat, Profile} ELSE {Chat}
      /\ U2 = IF pc' \in {"starting", "creating"} THEN {}
              ELSE IF pc' = "summarising" THEN {Chat, Profile} ELSE {Chat}
      /\ B = {x \in AllCalls : x.of = "driver" /\ x.name \in LookedUp(pc)}
      /\ B2 = {x \in AllCalls : x.of = "driver" /\ x.name \in LookedUp(pc')}
  BY <1>1, <1>3, EarlyTale
<1> DEFINE fact == Call("driver", "wikipedia.summary")
           card == Call("driver", "trip-summariser")
<1>7. /\ {Chat, Profile, fact, card} \subseteq AllCalls
      /\ \A x \in {Chat, Profile, fact, card} : x.of = "driver"
      /\ Chat.name = "copilot.chat" /\ Profile.name = "profile"
      /\ fact.name = "wikipedia.summary" /\ card.name = "trip-summariser"
  BY CallParts DEF Chat, Profile
<1>8. n \in Nat /\ Telling(queue, U, B, n)
  BY <1>1, <1>3, <1>4 DEF Telling
<1>9. SUFFICES \E begun : begun \subseteq B2 /\ Telling(queue', U2, begun, n)
  BY TellsMayBegin DEF Telling
<1> HIDE DEF fact, card
<1>10. CASE Create
  <2>1. U = {} /\ B = {} /\ pc = "creating"
    BY <1>6, <1>10 DEF LookedUp, Create
  <2>2. Telling(Q!Push(queue, Decision), {}, {}, n)
    BY <1>8, PushTells, <2>1
  <2>3. Telling(Q!Push(Q!Push(queue, Decision), ToolCall(Chat)), {Chat}, {Chat}, n)
    <3>1. Chat \in AllCalls \ {} /\ {Chat} = {} \cup {Chat}
      BY <1>7
    <3> QED
      BY <1>8, <2>2, <3>1, PushTells
  <2>4. CASE grounding = {"summary"}
    <3>1. queue' = Q!Push(Q!Push(Q!Push(queue, Decision), ToolCall(Chat)), ToolCall(Profile))
          /\ pc' = "summarising"
      BY <1>10, <2>4 DEF Create, Profile
    <3>2. Telling(queue', {Chat} \cup {Profile}, {Chat} \cup {Profile}, n)
      BY <1>7, <1>8, PushTells, <2>3, <3>1
    <3> QED
      BY <1>6, <1>7, <3>1, <3>2 DEF LookedUp
  <2>5. CASE grounding # {"summary"}
    <3>1. queue' = Q!Push(Q!Push(queue, Decision), ToolCall(Chat)) /\ pc' \in {"researching", "sending"}
      <4>1. grounding # {} /\ "research" \notin grounding => grounding = {"summary"}
        BY DEF TypeInv, TypeOK
      <4> QED
        BY <1>10, <2>5, <4>1 DEF Create
    <3> QED
      BY <1>6, <1>7, <2>3, <3>1 DEF LookedUp
  <2> QED
    BY <2>4, <2>5
<1>11. CASE Researched
  <2>1. U = {Chat} /\ B \subseteq {x \in AllCalls : x.of = "driver" /\ x.name = "copilot.chat"}
        /\ pc = "researching"
    BY <1>6, <1>11 DEF LookedUp, Researched
  <2>2. Telling(Q!Push(queue, ToolCall(fact)), {Chat} \cup {fact}, B \cup {fact}, n)
    BY <1>7, <1>8, PushTells, <2>1
  <2>3. Telling(Q!Push(Q!Push(queue, ToolCall(fact)), ToolResult(fact, TRUE)), {Chat}, B \cup {fact}, n)
    <3>1. ({Chat} \cup {fact}) \ {fact} = {Chat}
      BY <1>7
    <3> QED
      BY <1>7, <1>8, PushTells, <2>2, <3>1
  <2>4. CASE "summary" \in grounding
    <3>1. /\ queue' = Q!Push(Q!Push(Q!Push(queue, ToolCall(fact)), ToolResult(fact, TRUE)),
                             ToolCall(Profile))
          /\ pc' = "summarising"
      BY <1>11, <2>4 DEF Researched, Profile, fact
    <3>2. Telling(queue', {Chat} \cup {Profile}, (B \cup {fact}) \cup {Profile}, n)
      BY <1>7, <1>8, PushTells, <2>1, <2>3, <3>1
    <3> QED
      BY <1>6, <1>7, <2>1, <3>1, <3>2 DEF LookedUp
  <2>5. CASE "summary" \notin grounding
    <3>1. /\ queue' = Q!Push(Q!Push(queue, ToolCall(fact)), ToolResult(fact, TRUE))
          /\ pc' = "sending"
      BY <1>11, <2>5 DEF Researched, fact
    <3> QED
      BY <1>6, <1>7, <2>1, <2>3, <3>1 DEF LookedUp
  <2> QED
    BY <2>4, <2>5
<1>12. CASE Summarised
  <2>1. /\ U = {Chat, Profile} /\ pc = "summarising" /\ pc' = "sending"
        /\ B \subseteq {x \in AllCalls : x.of = "driver" /\ x.name # "trip-summariser"}
    BY <1>6, <1>12 DEF LookedUp, Summarised, Step
  <2>2. PICK q : q = Q!Push(queue, ToolResult(Profile, TRUE))
    OBVIOUS
  <2>3. Telling(q, {Chat}, B, n)
    <3>1. {Chat, Profile} \ {Profile} = {Chat}
      BY <1>7
    <3> QED
      BY <1>7, <1>8, PushTells, <2>1, <2>2, <3>1
  <2>4. Telling(Q!Push(q, ToolCall(card)), {Chat} \cup {card}, B \cup {card}, n)
    BY <1>7, <1>8, PushTells, <2>1, <2>3
  <2>5. Telling(Q!Push(Q!Push(q, ToolCall(card)), ToolResult(card, TRUE)), {Chat}, B \cup {card}, n)
    <3>1. ({Chat} \cup {card}) \ {card} = {Chat}
      BY <1>7
    <3> QED
      BY <1>7, <1>8, PushTells, <2>4, <3>1
  <2>6. queue' = Q!Push(Q!Push(q, ToolCall(card)), ToolResult(card, TRUE))
    BY <1>12, <2>2 DEF Summarised, Profile, card
  <2> QED
    BY <1>6, <1>7, <2>1, <2>5, <2>6 DEF LookedUp
<1> QED
  BY <1>10, <1>11, <1>12

\* session.idle answers the model's own call, and there is no other.
LEMMA IdleTells ==
    ASSUME TypeInv, QueueInv, PhaseInv, TaleInv, Before, Idle
    PROVE  TaleInv'
<1>1. /\ queue \in QueueObject /\ Handover(queue) /\ queue.closed = FALSE
      /\ delivered \in Seq(AllEvents) /\ delivered' = delivered /\ tokens' = tokens /\ calls' = calls
      /\ pc \in {"sending", "draining"} /\ pc' = pc /\ tokens \in Nat
  <2>1. ~queue.closed /\ pc \in {"sending", "draining"}
    BY DEF Idle, Working, PhaseInv, QueueInv, Before, Early
  <2>2. tokens \in Nat /\ queue \in QueueObject /\ queue.closed = FALSE
    BY <2>1, TurnAssumption DEF TypeInv, TypeOK, QueueObject
  <2> QED
    BY <2>1, <2>2 DEF Idle, PhaseInv, QueueInv, stream
<1>2. PICK q : q = Q!Push(queue, ToolResult(Chat, TRUE)) /\ queue' = Q!Close(q)
  BY DEF Idle, CloseOut
<1>3. /\ q \in QueueObject /\ Handover(q) /\ ~q.closed
      /\ Word(delivered, q) = Append(Pushed, ToolResult(Chat, TRUE))
  BY <1>1, <1>2, PushAppends, PushKeepsType, DriverEvents DEF Chat, Pushed
<1>4. Pushed' = Append(Pushed, ToolResult(Chat, TRUE)) /\ (queue').closed = TRUE
  <2>1. Q!Close(q).closed = TRUE
    BY <1>3 DEF Q!Close, QueueObject
  <2> QED
    BY <1>1, <1>2, <1>3, <2>1, CloseAppendsNothing DEF Pushed
<1>5. Chat \in AllCalls /\ Chat # Profile
  BY CallParts DEF Chat, Profile
<1>6. Underway(pc, calls, FALSE) = {Chat} /\ Underway(pc, calls, TRUE) = {}
  <2>1. \A c \in Calls : \A name : ~CallUnderway(calls[c], name)
    BY DEF Idle, CallUnderway
  <2> QED
    BY <1>1, <1>5, <2>1 DEF Underway
<1>7. Tells(Pushed, {Chat}, Begun(pc, calls), tokens)
  BY <1>1, <1>6 DEF TaleInv
<1>8. Tells(Pushed', {}, Begun(pc, calls), tokens)
  <2>1. {Chat} \ {Chat} = {}
    OBVIOUS
  <2>2. PICK w, B, n : w = Pushed /\ B = Begun(pc, calls) /\ n = tokens
    OBVIOUS
  <2>3. n \in Nat /\ Tells(w, {Chat}, B, n)
    BY <1>1, <1>7, <2>2
  <2>4. Tells(Append(w, ToolResult(Chat, TRUE)), {Chat} \ {Chat}, B, n)
    BY <2>3, TellsMore
  <2> QED
    BY <1>4, <2>1, <2>2, <2>4
<1> QED
  BY <1>1, <1>4, <1>6, <1>8 DEF TaleInv

LEMMA TaleInvNext ==
    ASSUME TypeInv, QueueInv, PhaseInv, TaleInv, [Next]_vars
    PROVE  TaleInv'
<1> SUFFICES ASSUME Before' PROVE TaleInv'
  BY DEF TaleInv
<1> USE DEF Before, Early
<1>1. CASE Create \/ Researched \/ Summarised
  BY <1>1, LookUpsTell
<1>2. CASE Start
  <2>1. Begun(pc', calls') = Begun(pc, calls) /\ Underway(pc', calls', (queue').closed) = Underway(pc, calls, queue.closed)
    BY <1>2 DEF Start, Step, Begun, Underway, LookedUp
  <2> QED
    BY <1>2, <2>1 DEF Start, Step, TaleInv, Pushed, stream
<1>3. CASE Send
  <2>1. Begun(pc', calls') = Begun(pc, calls) /\ Underway(pc', calls', (queue').closed) = Underway(pc, calls, queue.closed)
    BY <1>3 DEF Send, Step, Begun, Underway, LookedUp, sdk
  <2> QED
    BY <1>3, <2>1 DEF Send, Step, TaleInv, Pushed, stream, sdk
<1>4. CASE Drain
  <2>1. /\ Q!Consumer /\ pc' = pc /\ calls' = calls /\ tokens' = tokens
        /\ delivered \in Seq(AllEvents) /\ queue \in QueueObject
    BY <1>4 DEF Drain, sdk, PhaseInv, TypeInv
  <2>2. Pushed' = Pushed /\ (queue').closed = queue.closed
    BY <2>1, ConsumerMoves DEF QueueInv
  <2> QED
    BY <1>4, <2>1, <2>2 DEF TaleInv, Drain
<1>5. CASE Idle
  <2>1. Before
    BY <1>5 DEF Idle
  <2> QED
    BY <1>5, <2>1, IdleTells
<1>6. CASE Delta
  <2>1. /\ Work /\ Pushes(Token) /\ tokens' = tokens + 1 /\ calls' = calls /\ pc' = pc /\ Before
        /\ Token \in AllEvents /\ tokens \in Nat
    <3>1. tokens \in Nat
      BY TurnAssumption DEF TypeInv, TypeOK
    <3>2. SDK /\ ~Idle
      BY <1>6 DEF SDK, Delta, Idle, Working
    <3> QED
      BY <1>6, <3>1, <3>2, SDKWorks, DriverEvents DEF Delta
  <2>2. Pushed' = Append(Pushed, Token) /\ ~queue.closed /\ ~(queue').closed
    BY <2>1, WorkAppends
  <2>3. Underway(pc', calls', (queue').closed) = Underway(pc, calls, queue.closed)
    BY <2>1, <2>2 DEF Underway
  <2> QED
    BY <2>1, <2>2, <2>3, TellsMore DEF TaleInv
<1>7. ASSUME NEW c \in Calls,
             \/ \E tool \in Tools : RequestPermission(c, tool)
             \/ onPreToolUse(c) \/ ReadProfile(c) \/ ProfileRead(c)
             \/ \E ok \in BOOLEAN : HandlerReturns(c, ok)
             \/ onPostToolUse(c) \/ onPostToolUseFailure(c)
      PROVE  TaleInv'
  <2>1. pc' = pc
    BY <1>7 DEF RequestPermission, onPreToolUse, ReadProfile, ProfileRead, HandlerReturns,
       onPostToolUse, onPostToolUseFailure
  <2> QED
    BY <1>7, <2>1, CallsTell
<1>8. CASE UNCHANGED vars
  BY <1>8 DEF vars, TaleInv, Pushed, sdk, stream
<1>9. CASE \/ StartFails \/ CreateFails \/ SendFails \/ Finish
           \/ Disconnect \/ DisconnectFails \/ Stop \/ StopFails
  BY <1>9 DEF StartFails, CreateFails, SendFails, Finish, Disconnect, DisconnectFails, Stop,
     StopFails, Throw, Step
<1> QED
  BY <1>1, <1>2, <1>3, <1>4, <1>5, <1>6, <1>7, <1>8, <1>9 DEF Next, Driver, SDK

\* The protocol of a turn up to its verdict.
Protocol == TypeInv /\ QueueInv /\ PhaseInv /\ TaleInv

LEMMA ProtocolInit == Init => Protocol
<1> SUFFICES ASSUME Init PROVE Protocol
  OBVIOUS
<1> USE DEF Init
<1>1. TypeInv
  BY TypeInvInit
<1>2. QueueInv
  BY DEF QueueInv, Handover, Parked, Q!EmptyQueue
<1>3. PhaseInv
  BY DEF PhaseInv, Early, Before
<1>4. TaleInv
  <2>1. Word(<<>>, Q!EmptyQueue) = <<>>
    BY DEF Word, Coming, Q!EmptyQueue
  <2>2. Underway("starting", calls, FALSE) = {} /\ queue.closed = FALSE
    BY DEF Underway, CallUnderway, Q!EmptyQueue
  <2>3. CallsIn(<<>>) = {} /\ AnswersIn(<<>>) = {} /\ TokensIn(<<>>) = {} /\ Orderly(<<>>)
        /\ <<>> \in Seq(AllEvents)
    BY DEF CallsIn, AnswersIn, TokensIn, Orderly
  <2>4. Pushed = <<>>
    BY <2>1 DEF Pushed
  <2>5. Tells(<<>>, {}, Begun(pc, calls), 0)
    BY <2>3, FS_EmptySet DEF Tells
  <2> QED
    BY <2>2, <2>4, <2>5 DEF TaleInv
<1> QED
  BY <1>1, <1>2, <1>3, <1>4 DEF Protocol

LEMMA ProtocolNext == Protocol /\ [Next]_vars => Protocol'
  BY TypeInvNext, QueueInvNext, PhaseInvNext, TaleInvNext DEF Protocol

------------------------------------------------------------------------------
(* What the route is handed is the beginning of what is pushed. *)

LEMMA WordBegins ==
    ASSUME NEW d \in Seq(AllEvents), NEW q \in QueueObject
    PROVE  DOMAIN d \subseteq DOMAIN Word(d, q) /\ \A k \in DOMAIN d : Word(d, q)[k] = d[k]
<1>1. \A S : \A a, b \in Seq(S) :
         DOMAIN a \subseteq DOMAIN (a \o b) /\ \A k \in DOMAIN a : (a \o b)[k] = a[k]
  OBVIOUS
<1>2. PICK h \in Seq(AllEvents), b \in Seq(AllEvents) : h = Coming(q) /\ b = q.buffer
  BY QueueParts
<1>3. PICK w : w = d \o h
  OBVIOUS
<1>4. w \in Seq(AllEvents)
  BY <1>3, ConcatProperties
<1>5. DOMAIN d \subseteq DOMAIN w /\ \A k \in DOMAIN d : w[k] = d[k]
  BY <1>1, <1>3
<1>6. DOMAIN w \subseteq DOMAIN (w \o b) /\ \A k \in DOMAIN w : (w \o b)[k] = w[k]
  BY <1>1, <1>4
<1>7. Word(d, q) = w \o b
  BY <1>2, <1>3 DEF Word
<1> QED
  BY <1>5, <1>6, <1>7

LEMMA BeginningIsOrderly ==
    ASSUME NEW S, NEW d \in Seq(S), NEW w, Orderly(w),
           DOMAIN d \subseteq DOMAIN w, \A k \in DOMAIN d : w[k] = d[k]
    PROVE  Orderly(d)
<1>1. DOMAIN d = 1 .. Len(d) /\ Len(d) \in Nat
  BY Longer
<1>2. \A k \in DOMAIN d : k \in DOMAIN w /\ w[k] = d[k] /\ \A i \in 1 .. (k - 1) : i \in DOMAIN d /\ w[i] = d[i]
  BY <1>1
<1> QED
  BY <1>2 DEF Orderly

\* The last event of an orderly word is new.
LEMMA LastIsNew ==
    ASSUME NEW S, NEW w \in Seq(S), NEW e, Orderly(Append(w, e))
    PROVE  /\ Orderly(w)
           /\ \A c \in AllCalls :
                 /\ e = ToolCall(c) => c \notin CallsIn(w)
                 /\ \A ok \in BOOLEAN : e = ToolResult(c, ok) => c \in CallsIn(w) \ AnswersIn(w)
<1>1. PICK v : v = Append(w, e)
  OBVIOUS
<1>2. PICK n \in Nat : n = Len(w)
  BY Longer
<1>3. DOMAIN w = 1 .. n /\ DOMAIN v = 1 .. (n + 1) /\ v[n + 1] = e /\ \A k \in 1 .. n : v[k] = w[k]
  BY <1>1, <1>2, Longer
<1>4. Orderly(w)
  <2>1. DOMAIN w \subseteq DOMAIN v /\ \A k \in DOMAIN w : v[k] = w[k]
    BY <1>3
  <2> QED
    BY <1>1, <2>1, BeginningIsOrderly
<1>5. n + 1 \in DOMAIN v /\ (n + 1) - 1 = n
  BY <1>3
<1>6. ASSUME NEW c \in AllCalls
      PROVE  /\ e = ToolCall(c) => \A i \in 1 .. n : v[i] # ToolCall(c)
             /\ \A ok \in BOOLEAN : e = ToolResult(c, ok) =>
                   /\ \E i \in 1 .. n : v[i] = ToolCall(c)
                   /\ \A i \in 1 .. n, yes \in BOOLEAN : v[i] # ToolResult(c, yes)
  BY <1>1, <1>3, <1>5 DEF Orderly
<1>7. ASSUME NEW c \in AllCalls
      PROVE  /\ e = ToolCall(c) => c \notin CallsIn(w)
             /\ \A ok \in BOOLEAN : e = ToolResult(c, ok) => c \in CallsIn(w) \ AnswersIn(w)
  BY <1>3, <1>6 DEF CallsIn, AnswersIn
<1> QED
  BY <1>4, <1>7

LEMMA DeliveredIsOrderly ==
    ASSUME Protocol, Before
    PROVE  delivered \in Seq(AllEvents) /\ Orderly(delivered)
<1>1. delivered \in Seq(AllEvents) /\ queue \in QueueObject /\ Orderly(Pushed)
  BY DEF Protocol, PhaseInv, TypeInv, TaleInv, Tells
<1> QED
  BY <1>1, WordBegins, BeginningIsOrderly DEF Pushed

\* The calls of the contract are those of the word.
LEMMA CallsOfWord ==
    ASSUME NEW d \in Seq(Shown)
    PROVE  /\ {e.call : e \in {e \in Range(d) : e.type = "tool_call"}} = CallsIn(d)
           /\ {e.call : e \in {e \in Range(d) : e.type = "tool_result"}} = AnswersIn(d)
<1>1. \A k \in DOMAIN d : d[k] \in Shown
  OBVIOUS
<1>2. ASSUME NEW e \in Shown
      PROVE  /\ e.type = "tool_call" <=> \E c \in AllCalls : e = ToolCall(c)
             /\ e.type = "tool_result" <=> \E c \in AllCalls, ok \in BOOLEAN : e = ToolResult(c, ok)
  BY EventKinds DEF Decision, Token, DoneEvent, ErrorEvent, ToolCall, ToolResult
<1>3. \A c, ok : ToolCall(c).call = c /\ ToolResult(c, ok).call = c
  BY DEF ToolCall, ToolResult
<1>4. {e.call : e \in {e \in Range(d) : e.type = "tool_call"}} = CallsIn(d)
  <2>1. ASSUME NEW c
        PROVE  c \in {e.call : e \in {e \in Range(d) : e.type = "tool_call"}}
                 <=> \E k \in DOMAIN d : d[k].type = "tool_call" /\ d[k].call = c
    BY DEF Range
  <2>2. ASSUME NEW k \in DOMAIN d, NEW c
        PROVE  d[k].type = "tool_call" /\ d[k].call = c <=> c \in AllCalls /\ d[k] = ToolCall(c)
    BY <1>1, <1>2, <1>3
  <2> QED
    BY <2>1, <2>2 DEF CallsIn
<1>5. {e.call : e \in {e \in Range(d) : e.type = "tool_result"}} = AnswersIn(d)
  <2>1. ASSUME NEW c
        PROVE  c \in {e.call : e \in {e \in Range(d) : e.type = "tool_result"}}
                 <=> \E k \in DOMAIN d : d[k].type = "tool_result" /\ d[k].call = c
    BY DEF Range
  <2>2. ASSUME NEW k \in DOMAIN d, NEW c
        PROVE  d[k].type = "tool_result" /\ d[k].call = c
                 <=> c \in AllCalls /\ \E ok \in BOOLEAN : d[k] = ToolResult(c, ok)
    BY <1>1, <1>2, <1>3
  <2>3. ASSUME NEW c
        PROVE  c \in AnswersIn(d) <=>
                 c \in AllCalls /\ \E k \in DOMAIN d : \E ok \in BOOLEAN : d[k] = ToolResult(c, ok)
    BY DEF AnswersIn
  <2>4. ASSUME NEW c
        PROVE  c \in {e.call : e \in {e \in Range(d) : e.type = "tool_result"}} <=> c \in AnswersIn(d)
    <3>1. (\E k \in DOMAIN d : d[k].type = "tool_result" /\ d[k].call = c)
             <=> c \in AllCalls /\ \E k \in DOMAIN d : \E ok \in BOOLEAN : d[k] = ToolResult(c, ok)
      BY <2>2, Zenon
    <3> QED
      BY <2>1, <2>3, <3>1, Zenon
  <2> QED
    BY <2>4
<1> QED
  BY <1>4, <1>5

LEMMA CallsHanded ==
    ASSUME delivered \in Seq(Shown)
    PROVE  Made = CallsIn(delivered) /\ Answered = AnswersIn(delivered)
  BY CallsOfWord DEF Made, Answered, Told

\* What an event that is handed over adds to them.
LEMMA HandedCalls ==
    ASSUME delivered \in Seq(Shown), NEW e \in Shown, delivered' = Append(delivered, e)
    PROVE  /\ Made' = Made \cup {c \in AllCalls : e = ToolCall(c)}
           /\ Answered' = Answered \cup {c \in AllCalls : \E ok \in BOOLEAN : e = ToolResult(c, ok)}
<1>1. delivered' \in Seq(Shown)
  OBVIOUS
<1>2. Made' = CallsIn(delivered') /\ Answered' = AnswersIn(delivered')
  BY <1>1, CallsOfWord DEF Made, Answered, Told
<1>3. PICK d \in Seq(Shown) : d = delivered
  OBVIOUS
<1>4. /\ CallsIn(Append(d, e)) = CallsIn(d) \cup {c \in AllCalls : e = ToolCall(c)}
      /\ AnswersIn(Append(d, e)) =
            AnswersIn(d) \cup {c \in AllCalls : \E ok \in BOOLEAN : e = ToolResult(c, ok)}
  BY WordGrows
<1> QED
  BY <1>2, <1>3, <1>4, CallsHanded

\* What a step hands to the route.
Hands(e) == delivered' = Append(delivered, e) /\ trail' = applyAuditEvent(trail, Turn, e)

HandsNothing == UNCHANGED <<delivered, trail>> /\ (Before' <=> Before)

HandsEvent == Before /\ Before' /\ \E e \in AllEvents : Hands(e)

HandsDone ==
    /\ Before /\ ~Before' /\ Hands(DoneEvent)
    /\ CallsIn(delivered) = AnswersIn(delivered)
    /\ Cardinality(TokensIn(delivered)) = tokens
    /\ session = "idle" /\ pc' = "disconnecting"

HandsError == ~Before' /\ Hands(ErrorEvent) /\ (Before => delivered = <<>>)

\* The generator has returned: everything pushed has been handed over, and nothing
\* is under way.
LEMMA FinishTellsAll ==
    ASSUME Protocol, Finish
    PROVE  HandsDone
<1>1. /\ pc = "draining" /\ pc' = "disconnecting" /\ iter = "returned" /\ Before /\ ~Before'
      /\ Hands(DoneEvent)
  BY DEF Finish, Step, Before, Early, Yield, Seen, Hands
<1>2. queue.closed /\ queue.buffer = <<>> /\ queue.slot = <<>> /\ queue \in QueueObject
      /\ delivered \in Seq(AllEvents) /\ session = "idle"
  BY <1>1 DEF Protocol, QueueInv, PhaseInv, TypeInv
<1>3. Pushed = delivered
  BY <1>2, ConcatEmptySeq DEF Pushed, Word, Coming
<1>4. Tells(delivered, Underway(pc, calls, queue.closed), Begun(pc, calls), tokens)
  BY <1>1, <1>3 DEF Protocol, TaleInv
<1>5. Underway(pc, calls, queue.closed) = {}
  <2>1. \A c \in Calls : \A name : ~CallUnderway(calls[c], name)
    BY <1>2 DEF Protocol, QueueInv, CallUnderway
  <2> QED
    BY <1>1, <1>2, <2>1 DEF Underway
<1>6. CallsIn(delivered) = AnswersIn(delivered)
  BY <1>2, <1>4, <1>5, AnsweredWereMade DEF Tells
<1> QED
  BY <1>1, <1>2, <1>4, <1>6 DEF HandsDone, Tells

LEMMA HandSteps ==
    ASSUME Protocol, [Next]_vars
    PROVE  HandsNothing \/ HandsEvent \/ HandsDone \/ HandsError
<1> USE DEF Step, Before, Early, stream, sdk
<1>1. CASE StartFails \/ CreateFails \/ DisconnectFails \/ StopFails
  BY <1>1 DEF StartFails, CreateFails, DisconnectFails, StopFails, Throw, HandsError, Hands,
     Protocol, PhaseInv
<1>2. CASE Start \/ Create \/ Researched \/ Summarised \/ Send \/ Disconnect \/ Stop
  BY <1>2 DEF Start, Create, Researched, Summarised, Send, Disconnect, Stop, HandsNothing
<1>3. CASE SendFails
  BY <1>3 DEF SendFails, Yield, Seen, HandsError, Hands, Protocol, PhaseInv
<1>4. CASE Drain
  <2>1. delivered \in Seq(AllEvents) /\ pc = "draining" /\ pc' = pc
    BY <1>4 DEF Drain, Protocol, PhaseInv
  <2>2. delivered' = delivered \/ \E e \in AllEvents : delivered' = Append(delivered, e)
    BY <1>4, ConsumerSteps DEF Drain, Protocol, TypeInv
  <2>3. CASE delivered' = delivered
    BY <1>4, <2>1, <2>3 DEF Drain, HandsNothing
  <2>4. CASE delivered' # delivered
    <3>1. PICK e \in AllEvents : delivered' = Append(delivered, e)
      BY <2>2, <2>4
    <3>2. Last(delivered') = e
      BY <2>1, <3>1 DEF Last
    <3> QED
      BY <1>4, <2>1, <2>4, <3>1, <3>2 DEF Drain, Seen, HandsEvent, Hands
  <2> QED
    BY <2>3, <2>4
<1>5. CASE Finish
  BY <1>5, FinishTellsAll
<1>6. CASE SDK
  <2>1. UNCHANGED <<pc, delivered, trail>>
    BY <1>6, SDKWorks DEF Work, Idle, Protocol
  <2> QED
    BY <2>1 DEF HandsNothing
<1>7. CASE UNCHANGED vars
  BY <1>7 DEF vars, HandsNothing
<1> QED
  BY <1>1, <1>2, <1>3, <1>4, <1>5, <1>6, <1>7 DEF Next, Driver

\* An event handed over before the verdict opens a call or closes one that is
\* open, or does neither.
LEMMA HandedInOrder ==
    ASSUME Protocol, Protocol', Before, Before', NEW e \in AllEvents,
           delivered' = Append(delivered, e)
    PROVE  \A c \in AllCalls :
              /\ e = ToolCall(c) => c \notin Made /\ c \notin Answered
              /\ \A ok \in BOOLEAN : e = ToolResult(c, ok) => c \in Made \ Answered
<1>1. delivered \in Seq(AllEvents) /\ delivered \in Seq(Shown) /\ Orderly(delivered)
  BY DeliveredIsOrderly DEF Protocol, TypeInv, TypeOK, Shown
<1>2. Orderly(delivered')
  <2>1. delivered' \in Seq(AllEvents) /\ queue' \in QueueObject /\ Orderly(Pushed')
    BY DEF Protocol, PhaseInv, TypeInv, TaleInv, Tells
  <2> QED
    BY <2>1, WordBegins, BeginningIsOrderly DEF Pushed
<1>3. \A c \in AllCalls :
         /\ e = ToolCall(c) => c \notin CallsIn(delivered)
         /\ \A ok \in BOOLEAN : e = ToolResult(c, ok) => c \in CallsIn(delivered) \ AnswersIn(delivered)
  BY <1>1, <1>2, LastIsNew
<1>4. AnswersIn(delivered) \subseteq CallsIn(delivered)
  BY <1>1, AnsweredWereMade
<1> QED
  BY <1>1, <1>3, <1>4, CallsHanded

------------------------------------------------------------------------------
(* The contract of the stream *)

\* The verdict of what has been handed over.
Verdict(d) ==
    IF d = <<>> \/ Last(d) \notin {DoneEvent, ErrorEvent} THEN "none" ELSE Last(d).type

LEMMA Verdicts ==
    ASSUME NEW d \in Seq(Shown)
    PROVE  /\ Verdict(d) \in {"none", "done", "error"}
           /\ d \in Seq(AllEvents) => Verdict(d) = "none"
           /\ \A e \in Shown : Verdict(Append(d, e)) =
                 IF e \in {DoneEvent, ErrorEvent} THEN e.type ELSE "none"
<1>1. DoneEvent.type = "done" /\ ErrorEvent.type = "error"
  BY DEF DoneEvent, ErrorEvent
<1>2. \A e \in Shown : Append(d, e) # <<>> /\ Last(Append(d, e)) = e
  BY DEF Last
<1>3. d \in Seq(AllEvents) => d = <<>> \/ Last(d) \in AllEvents
  BY DEF Last
<1> QED
  BY <1>1, <1>2, <1>3, VerdictsAreNotPushed DEF Verdict

LEMMA StreamKeepsContract ==
    ASSUME Protocol, Protocol', [Next]_vars
    PROVE  [Contract!Next]_(Contract!vars)
<1>1. delivered \in Seq(Shown) /\ (Before => delivered \in Seq(AllEvents))
  BY DEF Protocol, TypeInv, TypeOK, Shown, PhaseInv
<1>2. PICK open, open2, verdict, verdict2 :
         /\ open = Made \ Answered /\ open2 = Made' \ Answered'
         /\ verdict = Verdict(delivered) /\ verdict2 = Verdict(delivered')
  OBVIOUS
<1>3. SUFFICES \/ open2 = open /\ verdict2 = verdict
               \/ /\ verdict = "none" /\ verdict2 = verdict
                  /\ \E call \in open2 \ open : call \in AllCalls /\ open2 = open \cup {call}
               \/ /\ verdict = "none" /\ verdict2 = verdict
                  /\ \E call \in open \ open2 : open2 = open \ {call}
               \/ verdict = "none" /\ open = {} /\ verdict2 = "done" /\ open2 = open
               \/ verdict \in {"none", "done"} /\ verdict2 = "error" /\ open2 = open
  BY <1>2 DEF Contract!Next, Contract!Make, Contract!Answer, Contract!Finish, Contract!Fail,
     Contract!vars, Verdict
<1>4. CASE HandsNothing
  BY <1>2, <1>4 DEF HandsNothing, Made, Answered, Told
<1>5. CASE HandsEvent
  <2>1. PICK e \in AllEvents : Before /\ Before' /\ delivered' = Append(delivered, e)
    BY <1>5 DEF HandsEvent, Hands
  <2>2. verdict = "none" /\ verdict2 = "none"
    <3>1. e \in Shown /\ e \notin {DoneEvent, ErrorEvent}
      BY VerdictsAreNotPushed DEF Shown
    <3> QED
      BY <1>1, <1>2, <2>1, <3>1, Verdicts
  <2>3. /\ open2 = (Made \cup {c \in AllCalls : e = ToolCall(c)})
                      \ (Answered \cup {c \in AllCalls : \E ok \in BOOLEAN : e = ToolResult(c, ok)})
        /\ e \in Shown
    BY <1>1, <1>2, <2>1, HandedCalls DEF Shown
  <2>4. \A c \in AllCalls :
              /\ e = ToolCall(c) => c \notin Made /\ c \notin Answered
              /\ \A ok \in BOOLEAN : e = ToolResult(c, ok) => c \in Made \ Answered
    BY <2>1, HandedInOrder
  <2>5. CASE e \in {Decision, Token, DoneEvent, ErrorEvent}
    <3>1. \A c : e # ToolCall(c) /\ \A ok : e # ToolResult(c, ok)
      BY <2>5, EventsDiffer
    <3>2. open2 = open
      BY <1>2, <2>3, <3>1
    <3> QED
      BY <2>2, <3>2
  <2>6. ASSUME NEW c \in AllCalls, e = ToolCall(c)
        PROVE  \E call \in open2 \ open : call \in AllCalls /\ open2 = open \cup {call}
    <3>1. /\ {d \in AllCalls : e = ToolCall(d)} = {c}
          /\ {d \in AllCalls : \E ok \in BOOLEAN : e = ToolResult(d, ok)} = {}
      BY <2>6, EventsDiffer
    <3>2. c \notin Made /\ c \notin Answered
      BY <2>4, <2>6
    <3>3. c \in open2 \ open /\ open2 = open \cup {c}
      BY <1>2, <2>3, <3>1, <3>2
    <3> QED
      BY <3>3
  <2>7. ASSUME NEW c \in AllCalls, NEW ok \in BOOLEAN, e = ToolResult(c, ok)
        PROVE  \E call \in open \ open2 : open2 = open \ {call}
    <3>1. /\ {d \in AllCalls : e = ToolCall(d)} = {}
          /\ {d \in AllCalls : \E yes \in BOOLEAN : e = ToolResult(d, yes)} = {c}
      BY <2>7, EventsDiffer
    <3>2. c \in Made \ Answered
      BY <2>4, <2>7
    <3>3. c \in open \ open2 /\ open2 = open \ {c}
      BY <1>2, <2>3, <3>1, <3>2
    <3> QED
      BY <3>3
  <2> QED
    BY <2>2, <2>3, <2>5, <2>6, <2>7, EventKinds
<1>6. ASSUME NEW v \in {DoneEvent, ErrorEvent}, Hands(v)
      PROVE  verdict2 = v.type /\ open2 = open
  <2>1. v \in Shown /\ delivered' = Append(delivered, v)
    BY <1>6 DEF Shown, Hands
  <2>2. {c \in AllCalls : v = ToolCall(c)} = {}
        /\ {c \in AllCalls : \E ok \in BOOLEAN : v = ToolResult(c, ok)} = {}
    BY EventsDiffer
  <2>3. Made' = Made /\ Answered' = Answered
    BY <1>1, <2>1, <2>2, HandedCalls
  <2> QED
    BY <1>1, <1>2, <2>1, <2>3, Verdicts
<1>7. CASE HandsDone
  <2>1. verdict = "none" /\ Hands(DoneEvent) /\ open = {}
    BY <1>1, <1>2, <1>7, Verdicts, CallsHanded DEF HandsDone
  <2> QED
    BY <1>6, <2>1 DEF DoneEvent
<1>8. CASE HandsError
  <2>1. verdict2 = "error" /\ open2 = open
    BY <1>6, <1>8 DEF HandsError, ErrorEvent
  <2>2. verdict \in {"none", "done", "error"}
    BY <1>1, <1>2, Verdicts
  <2> QED
    BY <2>1, <2>2
<1> QED
  BY <1>4, <1>5, <1>7, <1>8, HandSteps

\* The stream of a turn keeps its contract, whatever the tools do and however their
\* callbacks interleave with the generator: a result comes for an open call only,
\* the turn is done when every call has been answered, and only a failure follows.
THEOREM StreamImplementsContract == Spec => ImplementsContract
<1>1. Init => Contract!Init
  BY DEF Init, Contract!Init, Made, Answered, Told, Range
<1>2. Protocol /\ Protocol' /\ [Next]_vars => [Contract!Next]_(Contract!vars)
  BY StreamKeepsContract
<1> QED
  BY <1>1, <1>2, ProtocolInit, ProtocolNext, PTL DEF Spec, ImplementsContract, Contract!Spec

------------------------------------------------------------------------------
(* The rows of the panel and the calls they are of *)

Pending(rows) == PendingIn(rows, Turn)

Newest(rows, c) == {k \in Pending(rows) : IsNewest(k, Candidates(rows, Turn, {c.name}))}

\* What each event before the verdict does to the pending rows, and to the answers.
LEMMA RowsGrow ==
    ASSUME NEW rows \in Seq(Rows), NEW row, NEW after, after = Append(rows, row)
    PROVE  /\ DOMAIN after = DOMAIN rows \cup {Len(rows) + 1} /\ Len(rows) + 1 \notin DOMAIN rows
           /\ \A k \in DOMAIN rows : after[k] = rows[k]
           /\ after[Len(rows) + 1] = row
  BY Longer

LEMMA QuietRows ==
    ASSUME NEW rows \in Seq(Rows), NEW e \in {Decision, Token}, NEW after,
           after = applyAuditEvent(rows, Turn, e)
    PROVE  /\ Pending(after) = Pending(rows)
           /\ DOMAIN rows \subseteq DOMAIN after /\ \A k \in DOMAIN rows : after[k] = rows[k]
           /\ \A k \in DOMAIN after \ DOMAIN rows : after[k].answer = NoCall
<1>1. CASE e = Token
  <2>1. after = rows
    BY <1>1 DEF applyAuditEvent, Token
  <2> QED
    BY <2>1
<1>2. CASE e = Decision
  <2>1. PICK row : row = Row(Turn, "decision", "ok", NoCall) /\ after = Append(rows, row)
    BY <1>2 DEF applyAuditEvent, Decision
  <2>2. row.status = "ok" /\ row.answer = NoCall
    BY <2>1 DEF Row
  <2>3. PICK n : /\ DOMAIN after = DOMAIN rows \cup {n} /\ n \notin DOMAIN rows
                 /\ after[n] = row /\ \A k \in DOMAIN rows : after[k] = rows[k]
    BY <2>1, RowsGrow
  <2>4. Pending(after) = Pending(rows)
    BY <2>2, <2>3 DEF Pending, PendingIn
  <2> QED
    BY <2>2, <2>3, <2>4
<1> QED
  BY <1>1, <1>2

\* A row n is added for the call c.
AddsRow(rows, after, n, c) ==
    /\ Pending(after) = Pending(rows) \cup {n}
    /\ DOMAIN after = DOMAIN rows \cup {n} /\ n \notin DOMAIN rows
    /\ after[n] = Row(Turn, c.name, "pending", c)
    /\ \A k \in DOMAIN rows : after[k] = rows[k]

LEMMA CallRows ==
    ASSUME NEW rows \in Seq(Rows), NEW c \in AllCalls, NEW after,
           after = applyAuditEvent(rows, Turn, ToolCall(c))
    PROVE  AddsRow(rows, after, Len(rows) + 1, c)
<1> DEFINE n == Len(rows) + 1
<1>1. PICK row : row = Row(Turn, c.name, "pending", c) /\ after = Append(rows, row)
  BY DEF applyAuditEvent, ToolCall
<1>2. row.status = "pending" /\ row.turn = Turn
  BY <1>1 DEF Row
<1>3. /\ DOMAIN after = DOMAIN rows \cup {n} /\ n \notin DOMAIN rows
      /\ after[n] = row /\ \A k \in DOMAIN rows : after[k] = rows[k]
  BY <1>1, RowsGrow
<1>4. Pending(after) = Pending(rows) \cup {n}
  BY <1>2, <1>3 DEF Pending, PendingIn
<1> QED
  BY <1>1, <1>3, <1>4 DEF AddsRow

LEMMA ResultRows ==
    ASSUME NEW rows \in Seq(Rows), NEW c \in AllCalls, NEW ok \in BOOLEAN, NEW after,
           after = applyAuditEvent(rows, Turn, ToolResult(c, ok))
    PROVE  /\ DOMAIN after = DOMAIN rows
           /\ Pending(after) = Pending(rows) \ Newest(rows, c)
           /\ \A k \in DOMAIN rows \ Newest(rows, c) : after[k] = rows[k]
           /\ \A k \in Newest(rows, c) :
                 after[k].answer = c /\ after[k].name = rows[k].name /\ after[k].call = rows[k].call
<1>1. PICK e : e = ToolResult(c, ok)
  OBVIOUS
<1>2. e.call = c /\ e.ok = ok /\ after = resolveEntry(rows, Turn, e)
  BY <1>1 DEF applyAuditEvent, ToolResult
<1>3. \A k \in DOMAIN rows : IsNewest(k, Candidates(rows, Turn, {c.name})) <=> k \in Newest(rows, c)
  BY DEF Newest, IsNewest, Candidates, Pending
<1>4. /\ DOMAIN after = DOMAIN rows
      /\ \A k \in DOMAIN rows : after[k] =
            IF k \in Newest(rows, c)
            THEN [rows[k] EXCEPT !.status = IF ok THEN "ok" ELSE "error", !.answer = c]
            ELSE rows[k]
  BY <1>2, <1>3 DEF resolveEntry
<1>5. \A k \in DOMAIN rows : rows[k] \in Rows
  OBVIOUS
<1>6. ASSUME NEW k \in Newest(rows, c)
      PROVE  /\ after[k].answer = c /\ after[k].name = rows[k].name /\ after[k].call = rows[k].call
             /\ after[k].status # "pending" /\ k \in DOMAIN rows
  <2>1. k \in DOMAIN rows
    BY DEF Newest, Pending, PendingIn
  <2>2. rows[k] \in Rows
    BY <1>5, <2>1
  <2> QED
    BY <1>4, <2>1, <2>2 DEF Rows
<1>7. Pending(after) = Pending(rows) \ Newest(rows, c)
  BY <1>4, <1>6 DEF Pending, PendingIn
<1> QED
  BY <1>4, <1>6, <1>7

RowNames == {c.name : c \in AllCalls} \cup {"decision", "agent_unavailable"}

OverlappedNames == {name \in RowNames : Overlapped(name)}

\* A row has been given its own answer, or its name is one that overlapped.
AnswersFit(rows, overlapped) ==
    \A k \in DOMAIN rows :
        rows[k].answer # NoCall => rows[k].answer = rows[k].call \/ rows[k].name \in overlapped

\* A pending row is of one call, which has not been answered unless another of its
\* name was open.
PendingFit(rows, made, answered, overlapped) ==
    \A k \in Pending(rows) :
        /\ rows[k].call \in made /\ rows[k].name = rows[k].call.name
        /\ rows[k].call \notin answered \/ rows[k].name \in overlapped
        /\ \A l \in Pending(rows) : rows[l].call = rows[k].call => l = k

RowInv ==
    /\ AnswersFit(trail, OverlappedNames)
    /\ Before => PendingFit(trail, Made, Answered, OverlappedNames)

\* Two calls of a name that are open overlap.
LEMMA OpenCallsOverlap ==
    ASSUME delivered \in Seq(Shown), NEW c \in Made \ Answered, NEW d \in Made \ Answered,
           c # d, c.name = d.name
    PROVE  Overlapped(c.name)
<1>1. /\ c \in AllCalls /\ d \in AllCalls
      /\ \A i \in DOMAIN delivered : \A ok \in BOOLEAN :
            delivered[i] # ToolResult(c, ok) /\ delivered[i] # ToolResult(d, ok)
  BY CallsHanded DEF CallsIn, AnswersIn
<1>2. PICK j \in DOMAIN delivered, k \in DOMAIN delivered :
         delivered[j] = ToolCall(c) /\ delivered[k] = ToolCall(d)
  BY CallsHanded DEF CallsIn
<1>3. /\ delivered[j].type = "tool_call" /\ delivered[k].type = "tool_call"
      /\ delivered[j].call = c /\ delivered[k].call = d
  BY <1>2 DEF ToolCall
<1>4. DOMAIN delivered = 1 .. Len(delivered) /\ Len(delivered) \in Nat
  BY Longer
<1>5. j < k \/ k < j
  BY <1>2, <1>4, EventsDiffer
<1>6. CASE j < k
  <2>1. \A i \in j .. k : i \in DOMAIN delivered
    BY <1>4
  <2> QED
    BY <1>1, <1>3, <1>6, <2>1 DEF Overlapped
<1>7. CASE k < j
  <2>1. \A i \in k .. j : i \in DOMAIN delivered
    BY <1>4
  <2> QED
    BY <1>1, <1>3, <1>7, <2>1 DEF Overlapped
<1> QED
  BY <1>5, <1>6, <1>7

\* Names stay overlapped.
LEMMA OverlapsStay ==
    ASSUME delivered \in Seq(Shown), NEW e \in Shown, delivered' = Append(delivered, e)
    PROVE  OverlappedNames \subseteq OverlappedNames'
<1> SUFFICES ASSUME NEW name \in OverlappedNames PROVE name \in OverlappedNames'
  OBVIOUS
<1>1. name \in RowNames /\ Overlapped(name)
  BY DEF OverlappedNames
<1>2. Overlapped(name)'
  BY <1>1, OverlapsLast
<1> QED
  BY <1>1, <1>2 DEF OverlappedNames

\* What a call, a result and the other events do to fitting rows.
LEMMA CallFits ==
    ASSUME NEW rows \in Seq(Rows), NEW made \in SUBSET AllCalls, NEW answered, NEW lap,
           AnswersFit(rows, lap), PendingFit(rows, made, answered, lap),
           NEW c \in AllCalls \ made, c \notin answered, NEW more, lap \subseteq more
    PROVE  LET after == applyAuditEvent(rows, Turn, ToolCall(c))
           IN  AnswersFit(after, more) /\ PendingFit(after, made \cup {c}, answered, more)
<1>1. PICK after : after = applyAuditEvent(rows, Turn, ToolCall(c))
  OBVIOUS
<1>2. PICK n : AddsRow(rows, after, n, c)
  BY <1>1, CallRows
<1>3. /\ Pending(after) = Pending(rows) \cup {n}
      /\ DOMAIN after = DOMAIN rows \cup {n} /\ n \notin DOMAIN rows
      /\ after[n] = Row(Turn, c.name, "pending", c)
      /\ \A k \in DOMAIN rows : after[k] = rows[k]
  BY <1>2 DEF AddsRow
<1>4. after[n].answer = NoCall /\ after[n].call = c /\ after[n].name = c.name
  BY <1>3 DEF Row
<1>5. Pending(rows) \subseteq DOMAIN rows
  BY DEF Pending, PendingIn
<1>6. AnswersFit(after, more)
  BY <1>3, <1>4 DEF AnswersFit
<1>7. PendingFit(after, made \cup {c}, answered, more)
  BY <1>3, <1>4, <1>5 DEF PendingFit
<1> QED
  BY <1>1, <1>6, <1>7

LEMMA ResultFits ==
    ASSUME NEW rows \in Seq(Rows), NEW made, NEW answered, NEW lap,
           AnswersFit(rows, lap), PendingFit(rows, made, answered, lap),
           NEW c \in AllCalls, NEW ok \in BOOLEAN, NEW more, lap \subseteq more,
           \A k \in Pending(rows) :
              rows[k].name = c.name => rows[k].call = c \/ c.name \in more
    PROVE  LET after == applyAuditEvent(rows, Turn, ToolResult(c, ok))
           IN  AnswersFit(after, more) /\ PendingFit(after, made, answered \cup {c}, more)
<1>1. PICK after : after = applyAuditEvent(rows, Turn, ToolResult(c, ok))
  OBVIOUS
<1>2. /\ DOMAIN after = DOMAIN rows
      /\ Pending(after) = Pending(rows) \ Newest(rows, c)
      /\ \A k \in DOMAIN rows \ Newest(rows, c) : after[k] = rows[k]
      /\ \A k \in Newest(rows, c) :
            after[k].answer = c /\ after[k].name = rows[k].name /\ after[k].call = rows[k].call
  BY <1>1, ResultRows
<1>3. \A k \in Newest(rows, c) : k \in Pending(rows) /\ rows[k].name = c.name
  BY DEF Newest, IsNewest, Candidates
<1>4. Pending(rows) \subseteq DOMAIN rows /\ \A k \in Pending(rows) : k \in Int
  BY Longer DEF Pending, PendingIn
<1>5. AnswersFit(after, more)
  <2> SUFFICES ASSUME NEW k \in DOMAIN after, after[k].answer # NoCall
               PROVE  after[k].answer = after[k].call \/ after[k].name \in more
    BY DEF AnswersFit
  <2>1. CASE k \in Newest(rows, c)
    BY <1>2, <1>3, <2>1
  <2>2. CASE k \notin Newest(rows, c)
    BY <1>2, <2>2 DEF AnswersFit
  <2> QED
    BY <2>1, <2>2
\* A row of c that is left pending has a newer one of the name before it.
<1>6. ASSUME NEW k \in Pending(after), rows[k].call = c PROVE rows[k].name \in more
  <2>1. k \in Pending(rows) /\ k \notin Newest(rows, c) /\ rows[k].name = c.name
    BY <1>2, <1>6 DEF PendingFit
  <2>2. k \in Candidates(rows, Turn, {c.name})
    BY <2>1 DEF Candidates, Pending
  <2>3. PICK l \in Candidates(rows, Turn, {c.name}) : ~(l <= k)
    BY <2>1, <2>2 DEF Newest, IsNewest
  <2>4. l \in Pending(rows) /\ rows[l].name = c.name /\ l # k
    BY <1>4, <2>1, <2>3 DEF Candidates, Pending
  <2>5. rows[l].call # c
    BY <1>6, <2>1, <2>4 DEF PendingFit
  <2> QED
    BY <2>1, <2>4, <2>5
<1>7. PendingFit(after, made, answered \cup {c}, more)
  <2> SUFFICES ASSUME NEW k \in Pending(after)
               PROVE  /\ after[k].call \in made /\ after[k].name = after[k].call.name
                      /\ after[k].call \notin answered \cup {c} \/ after[k].name \in more
                      /\ \A l \in Pending(after) : after[l].call = after[k].call => l = k
    BY DEF PendingFit
  <2>1. \A l \in Pending(after) : l \in Pending(rows) /\ after[l] = rows[l]
    BY <1>2, <1>4
  <2> QED
    BY <1>6, <2>1 DEF PendingFit
<1> QED
  BY <1>1, <1>5, <1>7

LEMMA QuietFits ==
    ASSUME NEW rows \in Seq(Rows), NEW made, NEW answered, NEW lap,
           AnswersFit(rows, lap), PendingFit(rows, made, answered, lap),
           NEW e \in {Decision, Token}, NEW more, lap \subseteq more
    PROVE  LET after == applyAuditEvent(rows, Turn, e)
           IN  AnswersFit(after, more) /\ PendingFit(after, made, answered, more)
<1>1. PICK after : after = applyAuditEvent(rows, Turn, e)
  OBVIOUS
<1>2. /\ Pending(after) = Pending(rows)
      /\ DOMAIN rows \subseteq DOMAIN after /\ \A k \in DOMAIN rows : after[k] = rows[k]
      /\ \A k \in DOMAIN after \ DOMAIN rows : after[k].answer = NoCall
  BY <1>1, QuietRows
<1>3. Pending(rows) \subseteq DOMAIN rows
  BY DEF Pending, PendingIn
<1>4. AnswersFit(after, more)
  BY <1>2 DEF AnswersFit
<1>5. PendingFit(after, made, answered, more)
  BY <1>2, <1>3 DEF PendingFit
<1> QED
  BY <1>1, <1>4, <1>5

LEMMA EventKeepsRows ==
    ASSUME Protocol, Protocol', RowInv, HandsEvent
    PROVE  RowInv'
<1>1. PICK e \in AllEvents : Hands(e) /\ Before /\ Before'
  BY DEF HandsEvent
<1>2. /\ delivered \in Seq(Shown) /\ trail \in Seq(Rows) /\ e \in Shown
      /\ delivered' = Append(delivered, e) /\ trail' = applyAuditEvent(trail, Turn, e)
  BY <1>1 DEF Protocol, TypeInv, TypeOK, Shown, Hands
<1>3. PICK rows, made, answered, lap, more :
         /\ rows = trail /\ made = Made /\ answered = Answered
         /\ lap = OverlappedNames /\ more = OverlappedNames'
  OBVIOUS
<1>4. /\ rows \in Seq(Rows) /\ made \subseteq AllCalls /\ lap \subseteq more
      /\ AnswersFit(rows, lap) /\ PendingFit(rows, made, answered, lap)
  BY <1>1, <1>2, <1>3, OverlapsStay, CallsHanded DEF RowInv, CallsIn
<1>5. /\ Made' = made \cup {c \in AllCalls : e = ToolCall(c)}
      /\ Answered' = answered \cup {c \in AllCalls : \E ok \in BOOLEAN : e = ToolResult(c, ok)}
  BY <1>2, <1>3, HandedCalls
<1>6. SUFFICES AnswersFit(trail', more) /\ PendingFit(trail', Made', Answered', more)
  BY <1>3 DEF RowInv
<1>7. CASE e \in {Decision, Token}
  <2>1. Made' = made /\ Answered' = answered
    BY <1>5, <1>7, EventsDiffer
  <2> QED
    BY <1>2, <1>3, <1>4, <1>7, <2>1, QuietFits
<1>8. ASSUME NEW c \in AllCalls, e = ToolCall(c)
      PROVE  AnswersFit(trail', more) /\ PendingFit(trail', Made', Answered', more)
  <2>1. /\ {d \in AllCalls : e = ToolCall(d)} = {c}
        /\ {d \in AllCalls : \E ok \in BOOLEAN : e = ToolResult(d, ok)} = {}
    BY <1>8, EventsDiffer
  <2>2. c \notin made /\ c \notin answered
    BY <1>1, <1>2, <1>3, <1>8, HandedInOrder
  <2>3. Made' = made \cup {c} /\ Answered' = answered
    BY <1>5, <2>1
  <2> QED
    BY <1>2, <1>3, <1>4, <1>8, <2>2, <2>3, CallFits
<1>9. ASSUME NEW c \in AllCalls, NEW ok \in BOOLEAN, e = ToolResult(c, ok)
      PROVE  AnswersFit(trail', more) /\ PendingFit(trail', Made', Answered', more)
  <2>1. /\ {d \in AllCalls : e = ToolCall(d)} = {}
        /\ {d \in AllCalls : \E yes \in BOOLEAN : e = ToolResult(d, yes)} = {c}
    BY <1>9, EventsDiffer
  <2>2. c \in made \ answered
    BY <1>1, <1>2, <1>3, <1>9, HandedInOrder
  <2>3. Made' = made /\ Answered' = answered \cup {c}
    BY <1>5, <2>1
  <2>4. ASSUME NEW k \in Pending(rows), rows[k].name = c.name
        PROVE  rows[k].call = c \/ c.name \in more
    <3>1. /\ rows[k].call \in made /\ rows[k].name = rows[k].call.name
          /\ rows[k].call \notin answered \/ rows[k].name \in lap
      BY <1>4 DEF PendingFit
    <3>2. CASE rows[k].call \notin answered /\ rows[k].call # c
      <4>1. Overlapped(c.name)
        BY <1>2, <1>3, <2>2, <2>4, <3>1, <3>2, OpenCallsOverlap
      <4>2. c.name \in RowNames
        BY DEF RowNames
      <4> QED
        BY <1>3, <1>4, <4>1, <4>2 DEF OverlappedNames
    <3> QED
      BY <1>4, <2>4, <3>1, <3>2
  <2> QED
    BY <1>2, <1>3, <1>4, <1>9, <2>3, <2>4, ResultFits
<1> QED
  BY <1>7, <1>8, <1>9 DEF AllEvents

\* A failure closes rows without an answer, or adds one that has none.
LEMMA ErrorFits ==
    ASSUME NEW rows \in Seq(Rows), NEW lap, AnswersFit(rows, lap), NEW more, lap \subseteq more
    PROVE  AnswersFit(applyAuditEvent(rows, Turn, ErrorEvent), more)
<1>1. PICK after : after = failEntry(rows, Turn)
  OBVIOUS
<1>2. applyAuditEvent(rows, Turn, ErrorEvent) = after
  BY <1>1 DEF applyAuditEvent, ErrorEvent
<1>3. CASE Candidates(rows, Turn, AnyName(rows)) = {}
  <2>1. PICK row : row = Row(Turn, "agent_unavailable", "error", NoCall) /\ after = Append(rows, row)
    BY <1>1, <1>3 DEF failEntry
  <2>2. row.answer = NoCall
    BY <2>1 DEF Row
  <2>3. /\ DOMAIN after = DOMAIN rows \cup {Len(rows) + 1} /\ after[Len(rows) + 1] = row
        /\ \A k \in DOMAIN rows : after[k] = rows[k]
    BY <2>1, RowsGrow
  <2> QED
    BY <1>2, <2>2, <2>3 DEF AnswersFit
<1>4. CASE Candidates(rows, Turn, AnyName(rows)) # {}
  <2>1. /\ DOMAIN after = DOMAIN rows
        /\ \A k \in DOMAIN rows :
              after[k] = rows[k] \/ after[k] = [rows[k] EXCEPT !.status = "error"]
    BY <1>1, <1>4 DEF failEntry
  <2>2. ASSUME NEW k \in DOMAIN rows
        PROVE  /\ after[k].answer = rows[k].answer /\ after[k].call = rows[k].call
               /\ after[k].name = rows[k].name
    <3>1. rows[k] \in Rows
      OBVIOUS
    <3> QED
      BY <2>1, <3>1 DEF Rows
  <2> QED
    BY <1>2, <2>1, <2>2 DEF AnswersFit
<1> QED
  BY <1>3, <1>4

LEMMA RowInvInit == Init => RowInv
<1> SUFFICES ASSUME Init PROVE RowInv
  OBVIOUS
<1>1. PICK row : row = Row("earlier", "copilot.chat", "pending", Chat) /\ trail = <<row>>
  BY DEF Init
<1>2. DOMAIN trail = {1} /\ trail[1] = row
  BY <1>1
<1>3. row.turn = "earlier" /\ row.answer = NoCall
  BY <1>1 DEF Row
<1>4. Pending(trail) = {}
  BY <1>2, <1>3 DEF Pending, PendingIn, Turn
<1> QED
  BY <1>2, <1>3, <1>4 DEF RowInv, AnswersFit, PendingFit

LEMMA RowInvNext ==
    ASSUME Protocol, Protocol', RowInv, [Next]_vars
    PROVE  RowInv'
<1>1. delivered \in Seq(Shown) /\ trail \in Seq(Rows)
  BY DEF Protocol, TypeInv, TypeOK, Shown
<1>2. CASE HandsNothing
  BY <1>2 DEF HandsNothing, RowInv, OverlappedNames, Overlapped, Made, Answered, Told
<1>3. CASE HandsEvent
  BY <1>3, EventKeepsRows
<1>4. CASE HandsDone
  <2>1. trail' = trail /\ ~Before' /\ delivered' = Append(delivered, DoneEvent)
    BY <1>4 DEF HandsDone, Hands, applyAuditEvent, DoneEvent
  <2>2. OverlappedNames \subseteq OverlappedNames'
    BY <1>1, <2>1, OverlapsStay DEF Shown
  <2> QED
    BY <2>1, <2>2 DEF RowInv, AnswersFit
<1>5. CASE HandsError
  <2>1. /\ trail' = applyAuditEvent(trail, Turn, ErrorEvent) /\ ~Before'
        /\ delivered' = Append(delivered, ErrorEvent)
    BY <1>5 DEF HandsError, Hands
  <2>2. OverlappedNames \subseteq OverlappedNames'
    BY <1>1, <2>1, OverlapsStay DEF Shown
  <2>3. AnswersFit(trail', OverlappedNames')
    BY <1>1, <2>1, <2>2, ErrorFits DEF RowInv
  <2> QED
    BY <2>1, <2>3 DEF RowInv
<1> QED
  BY <1>2, <1>3, <1>4, <1>5, HandSteps

\* A row of the panel shows the result of the call that made it, unless two calls of
\* one name were open at once: with at most one open, the newest pending row of the
\* name is that call's.
THEOREM OwnAnswers == Spec => []OwnAnswersUnlessOverlapping
<1>1. Protocol /\ RowInv => OwnAnswersUnlessOverlapping
  BY DEF RowInv, AnswersFit, OverlappedNames, OwnAnswersUnlessOverlapping
<1>2. Protocol /\ Protocol' /\ RowInv /\ [Next]_vars => RowInv'
  BY RowInvNext
<1> QED
  BY <1>1, <1>2, RowInvInit, ProtocolInit, ProtocolNext, PTL DEF Spec

------------------------------------------------------------------------------
(* As many rows of a name are pending as calls of it are open *)

SameSize(A, B) == IsFiniteSet(A) /\ IsFiniteSet(B) /\ Cardinality(A) = Cardinality(B)

LEMMA SizesOfNothing ==
    ASSUME NEW A, NEW B, SameSize(A, B)
    PROVE  A = {} <=> B = {}
  BY FS_EmptySet DEF SameSize

LEMMA SizesGrow ==
    ASSUME NEW A, NEW B, SameSize(A, B), NEW a, NEW b, a \notin A, b \notin B
    PROVE  SameSize(A \cup {a}, B \cup {b})
<1>1. IsFiniteSet(A) /\ IsFiniteSet(B) /\ Cardinality(A) = Cardinality(B)
  BY DEF SameSize
<1> QED
  BY <1>1, FS_AddElement DEF SameSize

LEMMA SizesShrink ==
    ASSUME NEW A, NEW B, SameSize(A, B), NEW a \in A, NEW b \in B
    PROVE  SameSize(A \ {a}, B \ {b})
<1>1. IsFiniteSet(A) /\ IsFiniteSet(B) /\ Cardinality(A) = Cardinality(B)
  BY DEF SameSize
<1> QED
  BY <1>1, FS_RemoveElement DEF SameSize

\* A set of positions that is not empty has a last one.
LEMMA LastPosition ==
    ASSUME NEW n \in Nat, NEW P \in SUBSET (1 .. n), P # {}
    PROVE  \E k \in P : \A j \in P : j <= k
<1>1. PICK R : R = OpToRel(<, Nat) /\ IsWellFoundedOn(R, Nat)
  BY NatLessThanWellFounded, Zenon
<1>2. \A x, y \in Nat : <<x, y>> \in R <=> x < y
  BY <1>1 DEF OpToRel
<1>3. PICK D : D = {m \in Nat : n - m \in P}
  OBVIOUS
<1>4. \A k \in P : k \in Int /\ n - k \in D /\ n - (n - k) = k
  BY <1>3
<1>5. D \subseteq Nat /\ D # {}
  BY <1>3, <1>4
<1>6. PICK x \in D : \A y \in D : ~(<<y, x>> \in R)
  BY <1>1, <1>5, WFMin, Zenon
<1>7. x \in Nat /\ n - x \in P
  BY <1>3, <1>6
<1>8. \A y \in D : y \in Nat /\ ~(y < x)
  BY <1>2, <1>5, <1>6
<1>9. ASSUME NEW j \in P PROVE j <= n - x
  <2>1. j \in Int /\ n - j \in D
    BY <1>4
  <2>2. ~(n - j < x)
    BY <1>8, <2>1
  <2> QED
    BY <1>7, <2>1, <2>2
<1> QED
  BY <1>7, <1>9

PendingNamed(rows, name) == Candidates(rows, Turn, {name})

OpenNamed(made, answered, name) == {c \in made \ answered : c.name = name}

Matched(rows, made, answered) ==
    \A c \in AllCalls :
        SameSize(PendingNamed(rows, c.name), OpenNamed(made, answered, c.name))

MatchInv ==
    /\ Before => Matched(trail, Made, Answered)
    /\ ~Before => Pending(trail) = {}

LEMMA PendingNamedRows ==
    ASSUME NEW rows, NEW name
    PROVE  PendingNamed(rows, name) = {k \in Pending(rows) : rows[k].name = name}
  BY DEF PendingNamed, Candidates, Pending

\* The newest pending row of a name that has one is a row of it, and the only one.
LEMMA NewestRow ==
    ASSUME NEW rows \in Seq(Rows), NEW c \in AllCalls, PendingNamed(rows, c.name) # {}
    PROVE  \E k \in PendingNamed(rows, c.name) : Newest(rows, c) = {k}
<1>1. PICK P : P = PendingNamed(rows, c.name)
  OBVIOUS
<1>2. P \subseteq 1 .. Len(rows) /\ Len(rows) \in Nat /\ P # {}
  BY <1>1, Longer DEF PendingNamed, Candidates, PendingIn
<1>3. PICK k \in P : \A j \in P : j <= k
  BY <1>2, LastPosition
<1>4. \A j \in P : j \in Int
  BY <1>2
<1>5. Newest(rows, c) = {j \in P : \A i \in P : i <= j}
  BY <1>1 DEF Newest, IsNewest, PendingNamed, Candidates, Pending
<1>6. {j \in P : \A i \in P : i <= j} = {k}
  BY <1>3, <1>4
<1> QED
  BY <1>1, <1>3, <1>5, <1>6

LEMMA QuietMatches ==
    ASSUME NEW rows \in Seq(Rows), NEW made, NEW answered, Matched(rows, made, answered),
           NEW e \in {Decision, Token}
    PROVE  Matched(applyAuditEvent(rows, Turn, e), made, answered)
<1>1. PICK after : after = applyAuditEvent(rows, Turn, e)
  OBVIOUS
<1>2. /\ Pending(after) = Pending(rows)
      /\ \A k \in DOMAIN rows : after[k] = rows[k]
  BY <1>1, QuietRows
<1>3. Pending(rows) \subseteq DOMAIN rows
  BY DEF Pending, PendingIn
<1>4. \A name : PendingNamed(after, name) = PendingNamed(rows, name)
  BY <1>2, <1>3, PendingNamedRows
<1> QED
  BY <1>1, <1>4 DEF Matched

LEMMA CallMatches ==
    ASSUME NEW rows \in Seq(Rows), NEW made, NEW answered, Matched(rows, made, answered),
           NEW c \in AllCalls, c \notin made, c \notin answered
    PROVE  Matched(applyAuditEvent(rows, Turn, ToolCall(c)), made \cup {c}, answered)
<1>1. PICK after : after = applyAuditEvent(rows, Turn, ToolCall(c))
  OBVIOUS
<1>2. PICK n : AddsRow(rows, after, n, c)
  BY <1>1, CallRows
<1>3. /\ Pending(after) = Pending(rows) \cup {n} /\ n \notin Pending(rows)
      /\ after[n].name = c.name /\ \A k \in Pending(rows) : after[k] = rows[k]
  BY <1>2 DEF AddsRow, Row, Pending, PendingIn
<1>4. SUFFICES ASSUME NEW d \in AllCalls
               PROVE  SameSize(PendingNamed(after, d.name), OpenNamed(made \cup {c}, answered, d.name))
  BY <1>1 DEF Matched
<1>5. SameSize(PendingNamed(rows, d.name), OpenNamed(made, answered, d.name))
  BY DEF Matched
<1>6. CASE d.name = c.name
  <2>1. /\ PendingNamed(after, d.name) = PendingNamed(rows, d.name) \cup {n}
        /\ n \notin PendingNamed(rows, d.name)
    BY <1>3, <1>6, PendingNamedRows
  <2>2. /\ OpenNamed(made \cup {c}, answered, d.name) = OpenNamed(made, answered, d.name) \cup {c}
        /\ c \notin OpenNamed(made, answered, d.name)
    BY <1>6 DEF OpenNamed
  <2>3. SameSize(PendingNamed(rows, d.name) \cup {n}, OpenNamed(made, answered, d.name) \cup {c})
    BY <1>5, <2>1, <2>2, SizesGrow
  <2> QED
    BY <2>1, <2>2, <2>3
<1>7. CASE d.name # c.name
  <2>1. PendingNamed(after, d.name) = PendingNamed(rows, d.name)
    BY <1>3, <1>7, PendingNamedRows
  <2>2. OpenNamed(made \cup {c}, answered, d.name) = OpenNamed(made, answered, d.name)
    BY <1>7 DEF OpenNamed
  <2> QED
    BY <1>5, <2>1, <2>2
<1> QED
  BY <1>6, <1>7

LEMMA ResultMatches ==
    ASSUME NEW rows \in Seq(Rows), NEW made, NEW answered, Matched(rows, made, answered),
           NEW c \in AllCalls, c \in made \ answered, NEW ok \in BOOLEAN
    PROVE  Matched(applyAuditEvent(rows, Turn, ToolResult(c, ok)), made, answered \cup {c})
<1>1. PICK after : after = applyAuditEvent(rows, Turn, ToolResult(c, ok))
  OBVIOUS
<1>2. /\ Pending(after) = Pending(rows) \ Newest(rows, c)
      /\ \A k \in DOMAIN rows \ Newest(rows, c) : after[k] = rows[k]
  BY <1>1, ResultRows
<1>3. c \in OpenNamed(made, answered, c.name)
  BY DEF OpenNamed
<1>4. SameSize(PendingNamed(rows, c.name), OpenNamed(made, answered, c.name))
  BY DEF Matched
<1>5. PendingNamed(rows, c.name) # {}
  BY <1>3, <1>4, SizesOfNothing
<1>6. PICK n \in PendingNamed(rows, c.name) : Newest(rows, c) = {n}
  BY <1>5, NewestRow
<1>7. /\ n \in Pending(rows) /\ rows[n].name = c.name /\ Pending(after) = Pending(rows) \ {n}
      /\ \A k \in Pending(rows) \ {n} : after[k] = rows[k]
  <2>1. Pending(rows) \subseteq DOMAIN rows
    BY DEF Pending, PendingIn
  <2> QED
    BY <1>2, <1>6, <2>1, PendingNamedRows
<1>8. SUFFICES ASSUME NEW d \in AllCalls
               PROVE  SameSize(PendingNamed(after, d.name), OpenNamed(made, answered \cup {c}, d.name))
  BY <1>1 DEF Matched
<1>9. SameSize(PendingNamed(rows, d.name), OpenNamed(made, answered, d.name))
  BY DEF Matched
<1>10. CASE d.name = c.name
  <2>1. PendingNamed(after, d.name) = PendingNamed(rows, d.name) \ {n}
    BY <1>7, <1>10, PendingNamedRows
  <2>2. OpenNamed(made, answered \cup {c}, d.name) = OpenNamed(made, answered, d.name) \ {c}
    BY <1>10 DEF OpenNamed
  <2>3. n \in PendingNamed(rows, d.name) /\ c \in OpenNamed(made, answered, d.name)
    BY <1>3, <1>6, <1>10
  <2>4. SameSize(PendingNamed(rows, d.name) \ {n}, OpenNamed(made, answered, d.name) \ {c})
    BY <1>9, <2>3, SizesShrink
  <2> QED
    BY <2>1, <2>2, <2>4
<1>11. CASE d.name # c.name
  <2>1. PendingNamed(after, d.name) = PendingNamed(rows, d.name)
    BY <1>7, <1>11, PendingNamedRows
  <2>2. OpenNamed(made, answered \cup {c}, d.name) = OpenNamed(made, answered, d.name)
    BY <1>11 DEF OpenNamed
  <2> QED
    BY <1>9, <2>1, <2>2
<1> QED
  BY <1>10, <1>11

\* With no call open no row is pending.
LEMMA NoneOpenNonePending ==
    ASSUME NEW rows, NEW made \in SUBSET AllCalls, NEW answered, NEW lap,
           Matched(rows, made, answered), PendingFit(rows, made, answered, lap),
           made \subseteq answered
    PROVE  Pending(rows) = {}
<1> SUFFICES ASSUME NEW k \in Pending(rows) PROVE FALSE
  OBVIOUS
<1>1. PICK c \in AllCalls : rows[k].name = c.name
  BY DEF PendingFit
<1>2. OpenNamed(made, answered, c.name) = {}
  BY DEF OpenNamed
<1>3. SameSize(PendingNamed(rows, c.name), OpenNamed(made, answered, c.name))
  BY DEF Matched
<1>4. PendingNamed(rows, c.name) = {}
  BY <1>2, <1>3, SizesOfNothing
<1> QED
  BY <1>1, <1>4, PendingNamedRows

\* A failure that no row is pending for has a row of its own.
LEMMA ErrorSettles ==
    ASSUME NEW rows \in Seq(Rows), Pending(rows) = {}
    PROVE  Pending(applyAuditEvent(rows, Turn, ErrorEvent)) = {}
<1>1. PICK after : after = failEntry(rows, Turn)
  OBVIOUS
<1>2. applyAuditEvent(rows, Turn, ErrorEvent) = after
  BY <1>1 DEF applyAuditEvent, ErrorEvent
<1>3. Candidates(rows, Turn, AnyName(rows)) = {}
  BY DEF Candidates, Pending
<1>4. PICK row : row = Row(Turn, "agent_unavailable", "error", NoCall) /\ after = Append(rows, row)
  BY <1>1, <1>3 DEF failEntry
<1>5. row.status = "error"
  BY <1>4 DEF Row
<1>6. /\ DOMAIN after = DOMAIN rows \cup {Len(rows) + 1} /\ after[Len(rows) + 1] = row
      /\ \A k \in DOMAIN rows : after[k] = rows[k]
  BY <1>4, RowsGrow
<1> QED
  BY <1>2, <1>5, <1>6 DEF Pending, PendingIn

LEMMA MatchInvInit == Init => MatchInv
<1> SUFFICES ASSUME Init PROVE MatchInv
  OBVIOUS
<1>1. PICK row : row = Row("earlier", "copilot.chat", "pending", Chat) /\ trail = <<row>>
  BY DEF Init
<1>2. row.turn = "earlier"
  BY <1>1 DEF Row
<1>3. Pending(trail) = {}
  BY <1>1, <1>2 DEF Pending, PendingIn, Turn
<1>4. Made = {}
  BY DEF Init, Made, Told, Range
<1>5. \A name : PendingNamed(trail, name) = {} /\ OpenNamed(Made, Answered, name) = {}
  BY <1>3, <1>4, PendingNamedRows DEF OpenNamed
<1>6. SameSize({}, {})
  BY FS_EmptySet DEF SameSize
<1> QED
  BY <1>3, <1>5, <1>6 DEF MatchInv, Matched

LEMMA EventKeepsMatch ==
    ASSUME Protocol, Protocol', MatchInv, HandsEvent
    PROVE  MatchInv'
<1>1. PICK e \in AllEvents : Hands(e) /\ Before /\ Before'
  BY DEF HandsEvent
<1>2. /\ delivered \in Seq(Shown) /\ trail \in Seq(Rows) /\ e \in Shown
      /\ delivered' = Append(delivered, e) /\ trail' = applyAuditEvent(trail, Turn, e)
  BY <1>1 DEF Protocol, TypeInv, TypeOK, Shown, Hands
<1>3. PICK rows, made, answered : rows = trail /\ made = Made /\ answered = Answered
  OBVIOUS
<1>4. rows \in Seq(Rows) /\ Matched(rows, made, answered)
  BY <1>1, <1>2, <1>3 DEF MatchInv
<1>5. /\ Made' = made \cup {c \in AllCalls : e = ToolCall(c)}
      /\ Answered' = answered \cup {c \in AllCalls : \E ok \in BOOLEAN : e = ToolResult(c, ok)}
  BY <1>2, <1>3, HandedCalls
<1>6. SUFFICES Matched(trail', Made', Answered')
  BY <1>1 DEF MatchInv
<1>7. CASE e \in {Decision, Token}
  <2>1. Made' = made /\ Answered' = answered
    BY <1>5, <1>7, EventsDiffer
  <2> QED
    BY <1>2, <1>3, <1>4, <1>7, <2>1, QuietMatches
<1>8. ASSUME NEW c \in AllCalls, e = ToolCall(c)
      PROVE  Matched(trail', Made', Answered')
  <2>1. /\ {d \in AllCalls : e = ToolCall(d)} = {c}
        /\ {d \in AllCalls : \E ok \in BOOLEAN : e = ToolResult(d, ok)} = {}
    BY <1>8, EventsDiffer
  <2>2. c \notin made /\ c \notin answered
    BY <1>1, <1>2, <1>3, <1>8, HandedInOrder
  <2>3. Made' = made \cup {c} /\ Answered' = answered
    BY <1>5, <2>1
  <2> QED
    BY <1>2, <1>3, <1>4, <1>8, <2>2, <2>3, CallMatches
<1>9. ASSUME NEW c \in AllCalls, NEW ok \in BOOLEAN, e = ToolResult(c, ok)
      PROVE  Matched(trail', Made', Answered')
  <2>1. /\ {d \in AllCalls : e = ToolCall(d)} = {}
        /\ {d \in AllCalls : \E yes \in BOOLEAN : e = ToolResult(d, yes)} = {c}
    BY <1>9, EventsDiffer
  <2>2. c \in made \ answered
    BY <1>1, <1>2, <1>3, <1>9, HandedInOrder
  <2>3. Made' = made /\ Answered' = answered \cup {c}
    BY <1>5, <2>1
  <2> QED
    BY <1>2, <1>3, <1>4, <1>9, <2>2, <2>3, ResultMatches
<1> QED
  BY <1>7, <1>8, <1>9 DEF AllEvents

LEMMA MatchInvNext ==
    ASSUME Protocol, Protocol', RowInv, MatchInv, [Next]_vars
    PROVE  MatchInv'
<1>1. delivered \in Seq(Shown) /\ trail \in Seq(Rows)
  BY DEF Protocol, TypeInv, TypeOK, Shown
<1>2. Made = CallsIn(delivered) /\ Answered = AnswersIn(delivered) /\ Made \subseteq AllCalls
  BY <1>1, CallsHanded DEF CallsIn
<1>3. CASE HandsNothing
  BY <1>3 DEF HandsNothing, MatchInv, Made, Answered, Told
<1>4. CASE HandsEvent
  BY <1>4, EventKeepsMatch
<1>5. CASE HandsDone
  <2>1. /\ trail' = trail /\ Before /\ ~Before' /\ Made \subseteq Answered
    BY <1>2, <1>5 DEF HandsDone, Hands, applyAuditEvent, DoneEvent
  <2>2. Pending(trail) = {}
    BY <1>2, <2>1, NoneOpenNonePending DEF RowInv, MatchInv
  <2> QED
    BY <2>1, <2>2 DEF MatchInv
<1>6. CASE HandsError
  <2>1. /\ trail' = applyAuditEvent(trail, Turn, ErrorEvent) /\ ~Before'
        /\ Before => delivered = <<>>
    BY <1>6 DEF HandsError, Hands
  <2>2. Before => Made \subseteq Answered
    BY <1>2, <2>1 DEF CallsIn
  <2>3. Pending(trail) = {}
    BY <1>2, <2>2, NoneOpenNonePending DEF RowInv, MatchInv
  <2>4. Pending(trail') = {}
    BY <1>1, <2>1, <2>3, ErrorSettles
  <2> QED
    BY <2>1, <2>4 DEF MatchInv
<1> QED
  BY <1>3, <1>4, <1>5, <1>6, HandSteps

\* Before the verdict neither "done" nor an error has been handed over.
LEMMA NoVerdictBefore ==
    ASSUME Protocol, Before
    PROVE  DoneEvent \notin Told /\ ErrorEvent \notin Told
<1>1. delivered \in Seq(AllEvents)
  BY DEF Protocol, PhaseInv
<1>2. Told \subseteq AllEvents
  BY <1>1 DEF Told, Range
<1> QED
  BY <1>2, VerdictsAreNotPushed

\* Once the traveller is told that the turn is done or has failed no row of it is
\* pending: until then as many rows of each name are pending as calls of it are open.
THEOREM Settled == Spec => []SettledAtTheVerdict
<1>1. Protocol /\ MatchInv => SettledAtTheVerdict
  BY NoVerdictBefore DEF MatchInv, SettledAtTheVerdict, Occurs, Pending
<1>2. Protocol /\ Protocol' /\ RowInv /\ [Next]_vars => RowInv'
  BY RowInvNext
<1>3. Protocol /\ Protocol' /\ RowInv /\ MatchInv /\ [Next]_vars => MatchInv'
  BY MatchInvNext
<1> QED
  BY <1>1, <1>2, <1>3, RowInvInit, MatchInvInit, ProtocolInit, ProtocolNext, PTL DEF Spec

------------------------------------------------------------------------------
(* The stored reply *)

ReplyInv ==
    /\ Before => ~recorded
    /\ ~Before /\ Token \in Told => DoneEvent \in Told
    /\ DoneEvent \in Told =>
          session \in {"idle", "gone"} /\ Cardinality(TokensIn(delivered)) = tokens
    /\ pc = "threw" /\ DoneEvent \in Told => broke \cap {"disconnect", "stop"} # {}
    /\ recorded => Token \in Told
    /\ pc = "ended" => recorded = (Token \in Told)

\* A verdict is one more event, and no text.
LEMMA VerdictAddsNoText ==
    ASSUME NEW d \in Seq(Shown), NEW v \in {DoneEvent, ErrorEvent}
    PROVE  Range(Append(d, v)) = Range(d) \cup {v} /\ TokensIn(Append(d, v)) = TokensIn(d)
<1>1. PICK w : w = Append(d, v)
  OBVIOUS
<1>2. /\ DOMAIN w = DOMAIN d \cup {Len(d) + 1} /\ w[Len(d) + 1] = v
      /\ \A k \in DOMAIN d : w[k] = d[k]
  BY <1>1, Longer
<1>3. Range(w) = Range(d) \cup {v}
  BY <1>2 DEF Range
<1>4. v # Token
  BY DEF DoneEvent, ErrorEvent, Token
<1>5. TokensIn(w) = TokensIn(d)
  BY <1>2, <1>4 DEF TokensIn
<1> QED
  BY <1>1, <1>3, <1>5

\* After the verdict a failure of the tear-down is reported and nothing stored.
LEMMA TearDownFails ==
    ASSUME Protocol, ReplyInv, DisconnectFails \/ StopFails
    PROVE  ReplyInv'
<1>1. /\ pc \in {"disconnecting", "stopping"} /\ pc' = "threw" /\ ~Before /\ ~Before'
      /\ UNCHANGED <<session, tokens, recorded>> /\ broke' \cap {"disconnect", "stop"} # {}
      /\ delivered' = Append(delivered, ErrorEvent) /\ delivered \in Seq(Shown)
  BY DEF DisconnectFails, StopFails, Throw, Before, Early, Protocol, TypeInv, TypeOK, Shown
<1>2. Told' = Told \cup {ErrorEvent} /\ TokensIn(delivered') = TokensIn(delivered)
  BY <1>1, VerdictAddsNoText DEF Told
<1>3. ErrorEvent # DoneEvent /\ ErrorEvent # Token
  BY DEF ErrorEvent, DoneEvent, Token
<1>4. /\ Token \in Told' <=> Token \in Told
      /\ DoneEvent \in Told' <=> DoneEvent \in Told
  BY <1>2, <1>3
<1> QED
  BY <1>1, <1>2, <1>4 DEF ReplyInv

\* A failure before the verdict is all the traveller is told.
LEMMA FailsSilently ==
    ASSUME Protocol, ReplyInv, StartFails \/ CreateFails \/ SendFails
    PROVE  ReplyInv'
<1>1. /\ delivered = <<>> /\ delivered' = Append(delivered, ErrorEvent) /\ recorded' = FALSE
      /\ pc' \in {"threw", "disconnecting"} /\ ~Before'
  BY DEF StartFails, CreateFails, SendFails, Throw, Yield, Step, Before, Early, Protocol, PhaseInv,
     ReplyInv
<1>2. Told' = {ErrorEvent}
  BY <1>1 DEF Told, Range
<1>3. ErrorEvent # DoneEvent /\ ErrorEvent # Token
  BY DEF ErrorEvent, DoneEvent, Token
<1> QED
  BY <1>1, <1>2, <1>3 DEF ReplyInv

LEMMA ReplyInvNext ==
    ASSUME Protocol, Protocol', ReplyInv, [Next]_vars
    PROVE  ReplyInv'
<1> USE DEF Step, stream, sdk
<1>1. delivered \in Seq(Shown)
  BY DEF Protocol, TypeInv, TypeOK, Shown
<1>2. CASE StartFails \/ CreateFails \/ SendFails
  BY <1>2, FailsSilently
<1>3. CASE DisconnectFails \/ StopFails
  BY <1>3, TearDownFails
<1>4. CASE Start \/ Create \/ Researched \/ Summarised \/ Send \/ Drain
  <2>1. Before /\ Before' /\ recorded' = recorded
    BY <1>4 DEF Start, Create, Researched, Summarised, Send, Drain, Before, Early
  <2>2. pc' \notin {"threw", "ended"} /\ DoneEvent \notin Told'
    <3>1. \A d : d \in Seq(AllEvents) => DoneEvent \notin Range(d)
      BY VerdictsAreNotPushed DEF Range
    <3>2. delivered' \in Seq(AllEvents)
      BY <2>1 DEF Protocol, PhaseInv
    <3> QED
      BY <2>1, <3>1, <3>2 DEF Told, Before, Early
  <2> QED
    BY <2>1, <2>2 DEF ReplyInv
<1>5. CASE Finish
  <2>1. /\ Before /\ ~Before' /\ recorded' = FALSE /\ pc' = "disconnecting"
        /\ UNCHANGED <<session, tokens>> /\ session = "idle"
        /\ delivered' = Append(delivered, DoneEvent) /\ Cardinality(TokensIn(delivered)) = tokens
    BY <1>5, FinishTellsAll DEF HandsDone, Hands, Finish, ReplyInv
  <2>2. Told' = Told \cup {DoneEvent} /\ TokensIn(delivered') = TokensIn(delivered)
    BY <1>1, <2>1, VerdictAddsNoText DEF Told
  <2> QED
    BY <2>1, <2>2 DEF ReplyInv
<1>6. CASE Disconnect
  BY <1>6 DEF Disconnect, ReplyInv, Told, Before, Early
<1>7. CASE Stop
  BY <1>7 DEF Stop, Record, ReplyInv, Told, Before, Early
<1>8. CASE SDK
  <2>1. /\ UNCHANGED <<pc, delivered, recorded, broke>> /\ session = "working"
    BY <1>8, SDKWorks DEF Work, Idle, Working, Protocol
  <2>2. DoneEvent \notin Told
    BY <2>1 DEF ReplyInv
  <2> QED
    BY <2>1, <2>2 DEF ReplyInv, Told, Before
<1>9. CASE UNCHANGED vars
  BY <1>9 DEF vars, ReplyInv, Told, Before
<1> QED
  BY <1>2, <1>3, <1>4, <1>5, <1>6, <1>7, <1>8, <1>9 DEF Next, Driver

\* The stored reply is the whole of what the model streamed in a turn that was done,
\* and a reply the traveller saw completed is lost only to a tear-down that failed.
THEOREM RecordsReply == Spec => []RecordsTheWholeReply
<1>1. Init => ReplyInv
  BY DEF Init, ReplyInv, Before, Told, Range
<1>2. Protocol /\ Protocol' /\ ReplyInv /\ [Next]_vars => ReplyInv'
  BY ReplyInvNext
<1>3. Protocol /\ ReplyInv => RecordsTheWholeReply
  <2> SUFFICES ASSUME Protocol, ReplyInv PROVE RecordsTheWholeReply
    OBVIOUS
  <2>1. delivered \in Seq(Shown) /\ tokens \in Nat
    BY DEF Protocol, TypeInv, TypeOK, Shown, TurnAssumption
  <2>2. IsFiniteSet(TokensIn(delivered))
    <3>1. TokensIn(delivered) \subseteq 1 .. Len(delivered) /\ Len(delivered) \in Nat
      BY <2>1 DEF TokensIn
    <3>2. IsFiniteSet(1 .. Len(delivered))
      BY <3>1, FS_Interval
    <3> QED
      BY <3>1, <3>2, FS_Subset
  <2>3. ASSUME recorded
        PROVE  DoneEvent \in Told /\ tokens > 0 /\ Cardinality(TokensIn(delivered)) = tokens
    <3>1. Token \in Told /\ DoneEvent \in Told /\ Cardinality(TokensIn(delivered)) = tokens
      BY <2>3 DEF ReplyInv
    <3>2. TokensIn(delivered) # {}
      BY <3>1 DEF Told, Range, TokensIn
    <3>3. tokens # 0
      BY <2>2, <3>1, <3>2, FS_EmptySet
    <3> QED
      BY <2>1, <3>1, <3>3
  <2>4. Over /\ DoneEvent \in Told /\ Token \in Told /\ ~recorded =>
            broke \cap {"disconnect", "stop"} # {}
    BY DEF Over, ReplyInv
  <2> QED
    BY <2>3, <2>4 DEF RecordsTheWholeReply, Occurs, TokensIn
<1> QED
  BY <1>1, <1>2, <1>3, ProtocolInit, ProtocolNext, PTL DEF Spec
==============================================================================
