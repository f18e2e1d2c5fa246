-------------------------- MODULE CopilotTurn_proofs --------------------------
(***************************************************************************)
(* Proofs about CopilotTurn for every set of calls and of tools, every     *)
(* grounding and any amount of text.                                       *)
(***************************************************************************)
EXTENDS CopilotTurn, TLAPS

Shown == AllEvents \cup {DoneEvent, ErrorEvent}

\* The folds, and what the route is handed, move together.  What `Next` does to
\* them is one of these; every proof below starts from it.
Yields == \E e \in Shown : Yield(e) /\ pc' \notin {"ended", "threw"}

Throws ==
    /\ pc' = "threw"
    /\ delivered' = Append(delivered, ErrorEvent)
    /\ spans' = endTrace(spans)
    /\ trail' = applyAuditEvent(trail, Turn, ErrorEvent)

Ends == spans' = endTrace(spans) /\ UNCHANGED <<delivered, trail>>

Rests == UNCHANGED stream /\ (pc' \in {"ended", "threw"} => pc \in {"ended", "threw"})

StreamStep == Yields \/ Throws \/ Ends \/ Rests

------------------------------------------------------------------------------
\* The queue object, as EventQueue's TypeOK has it.
QueueObject ==
    [buffer : Seq(AllEvents), waiting : BOOLEAN, closed : BOOLEAN,
     slot : {<<>>} \cup {<<e>> : e \in AllEvents \cup {DoneEvent}}]

\* A call that was approved is of some tool.
CallsNameTools == \A c \in Calls : calls[c].at # "unused" => calls[c].tool \in Tools

\* The inductive invariant behind TypeOK.
TypeInv == TypeOK /\ CallsNameTools /\ queue \in QueueObject /\ iter \in {"pulling", "awaiting", "returned"}

LEMMA PushKeepsType ==
    ASSUME NEW q \in QueueObject, NEW e \in AllEvents
    PROVE  Q!Push(q, e) \in QueueObject
<1>1. CASE q.waiting
  BY <1>1 DEF QueueObject, Q!Push
<1>2. CASE ~q.waiting
  <2>1. Append(q.buffer, e) \in Seq(AllEvents)
    BY DEF QueueObject
  <2> QED
    BY <1>2, <2>1 DEF QueueObject, Q!Push
<1> QED
  BY <1>1, <1>2

LEMMA CloseKeepsType ==
    ASSUME NEW q \in QueueObject
    PROVE  Q!Close(q) \in QueueObject
  BY DEF QueueObject, Q!Close

LEMMA DriverEvents ==
    /\ Decision \in AllEvents /\ Token \in AllEvents
    /\ \A name \in {"copilot.chat", "profile", "wikipedia.summary", "trip-summariser"} :
          /\ ToolCall(Call("driver", name)) \in AllEvents
          /\ \A ok \in BOOLEAN : ToolResult(Call("driver", name), ok) \in AllEvents
<1>1. \A name \in {"copilot.chat", "profile", "wikipedia.summary", "trip-summariser"} :
         Call("driver", name) \in AllCalls
  BY DEF AllCalls, Call
<1>2. Decision \in AllEvents /\ Token \in AllEvents
  BY DEF AllEvents, Decision, Token, ToolCall, ToolResult
<1>3. ASSUME NEW c \in AllCalls PROVE ToolCall(c) \in AllEvents
  BY DEF AllEvents
<1>4. ASSUME NEW c \in AllCalls, NEW ok \in BOOLEAN PROVE ToolResult(c, ok) \in AllEvents
  BY DEF AllEvents
<1> QED
  BY <1>1, <1>2, <1>3, <1>4

LEMMA CallEvents ==
    ASSUME NEW c \in Calls, NEW name \in Tools \cup {"profile"}
    PROVE  /\ ToolCall(Call(c, name)) \in AllEvents
           /\ \A ok \in BOOLEAN : ToolResult(Call(c, name), ok) \in AllEvents
  BY DEF AllEvents, AllCalls, Call

\* A step of the generator hands over an event of the session, or nothing.
LEMMA ConsumerSteps ==
    ASSUME queue \in QueueObject, iter \in {"pulling", "awaiting", "returned"}, Q!Consumer
    PROVE  /\ queue' \in QueueObject
           /\ iter' \in {"pulling", "awaiting", "returned"}
           /\ \/ delivered' = delivered
              \/ \E e \in AllEvents : delivered' = Append(delivered, e)
<1>1. CASE Q!TakeBuffered
  <2>1. Head(queue.buffer) \in AllEvents /\ Tail(queue.buffer) \in Seq(AllEvents)
    BY <1>1 DEF Q!TakeBuffered, QueueObject
  <2> QED
    BY <1>1, <2>1 DEF Q!TakeBuffered, QueueObject
<1>2. CASE Q!ReturnClosed
  BY <1>2 DEF Q!ReturnClosed
<1>3. CASE Q!Park
  BY <1>3 DEF Q!Park, QueueObject
<1>4. CASE Q!ResumeWithEvent
  <2>1. queue.slot[1] \in AllEvents
    BY <1>4 DEF Q!ResumeWithEvent, QueueObject
  <2> QED
    BY <1>4, <2>1 DEF Q!ResumeWithEvent, QueueObject
<1>5. CASE Q!ResumeDone
  BY <1>5 DEF Q!ResumeDone, QueueObject
<1> QED
  BY <1>1, <1>2, <1>3, <1>4, <1>5 DEF Q!Consumer

------------------------------------------------------------------------------
\* What a step does to the stream.
LEMMA StreamSteps ==
    ASSUME TypeInv, [Next]_vars
    PROVE  StreamStep
<1> USE DEF stream, sdk, Step, StreamStep
<1>1. CASE StartFails \/ CreateFails \/ DisconnectFails \/ StopFails
  BY <1>1 DEF StartFails, CreateFails, DisconnectFails, StopFails, Throw, Throws
<1>2. CASE Start \/ Create \/ Researched \/ Summarised \/ Send \/ Disconnect
  BY <1>2 DEF Start, Create, Researched, Summarised, Send, Disconnect, Rests
<1>3. CASE SendFails \/ Finish
  BY <1>3 DEF SendFails, Finish, Yields, Shown
<1>4. CASE Drain
  <2>1. PICK e \in AllEvents : delivered' = delivered \/ delivered' = Append(delivered, e)
    BY <1>4, ConsumerSteps, DriverEvents DEF Drain, TypeInv
  <2>2. CASE delivered' = delivered
    BY <1>4, <2>2 DEF Drain, Rests
  <2>3. CASE delivered' # delivered
    <3>1. delivered' = Append(delivered, e) /\ delivered \in Seq(Shown)
      BY <2>1, <2>3 DEF TypeInv, TypeOK, Shown
    <3>2. Last(delivered') = e
      BY <3>1 DEF Last, Shown
    <3> QED
      BY <1>4, <2>3, <3>1, <3>2 DEF Drain, Yields, Yield, Shown
  <2> QED
    BY <2>2, <2>3
<1>5. CASE Stop
  BY <1>5 DEF Stop, Ends
<1>6. CASE Delta \/ Idle
  BY <1>6 DEF Delta, Idle, Rests
<1>7. ASSUME NEW c \in Calls,
             \/ \E tool \in Tools : RequestPermission(c, tool)
             \/ onPreToolUse(c) \/ ReadProfile(c) \/ ProfileRead(c)
             \/ \E ok \in BOOLEAN : HandlerReturns(c, ok)
             \/ onPostToolUse(c) \/ onPostToolUseFailure(c)
      PROVE  Rests
  BY <1>7 DEF RequestPermission, onPreToolUse, ReadProfile, ProfileRead, HandlerReturns,
     onPostToolUse, onPostToolUseFailure, Rests
<1>8. CASE UNCHANGED vars
  BY <1>8 DEF vars, Rests
<1> QED
  BY <1>1, <1>2, <1>3, <1>4, <1>5, <1>6, <1>7, <1>8 DEF Next, Driver, SDK

------------------------------------------------------------------------------
LEMMA EventKinds ==
    ASSUME NEW e \in Shown
    PROVE  \/ e \in {Decision, Token, DoneEvent, ErrorEvent}
           \/ \E c \in AllCalls : e = ToolCall(c)
           \/ \E c \in AllCalls, ok \in BOOLEAN : e = ToolResult(c, ok)
  BY DEF Shown, AllEvents

LEMMA RowsAppend ==
    ASSUME NEW entries \in Seq(Rows), NEW name, NEW status \in {"pending", "ok", "error"},
           NEW call \in AllCalls \cup {NoCall},
           name \in {c.name : c \in AllCalls} \cup {"decision", "agent_unavailable"}
    PROVE  Append(entries, Row(Turn, name, status, call)) \in Seq(Rows)
<1>1. Row(Turn, name, status, call) \in Rows
  BY DEF Row, Rows, Turn
<1> QED
  BY <1>1

\* A row of the panel that is replaced by a row leaves a panel.
LEMMA RowsReplaced ==
    ASSUME NEW entries \in Seq(Rows), NEW entries2,
           entries2 = [k \in DOMAIN entries |-> entries2[k]],
           \A k \in DOMAIN entries : entries2[k] \in Rows
    PROVE  entries2 \in Seq(Rows)
<1>1. DOMAIN entries = 1 .. Len(entries) /\ Len(entries) \in Nat
  OBVIOUS
<1>2. entries2 \in [1 .. Len(entries) -> Rows]
  BY <1>1
<1> QED
  BY <1>1, <1>2

LEMMA ResolveKeepsRows ==
    ASSUME NEW entries \in Seq(Rows), NEW c \in AllCalls, NEW ok \in BOOLEAN
    PROVE  resolveEntry(entries, Turn, ToolResult(c, ok)) \in Seq(Rows)
<1> DEFINE e == ToolResult(c, ok)
           after == resolveEntry(entries, Turn, e)
<1>1. e.ok = ok /\ e.call = c
  BY DEF ToolResult
<1>2. ASSUME NEW k \in DOMAIN entries PROVE after[k] \in Rows
  <2>1. entries[k] \in Rows
    OBVIOUS
  <2>2. [entries[k] EXCEPT !.status = IF ok THEN "ok" ELSE "error", !.answer = c] \in Rows
    BY <2>1 DEF Rows
  <2> QED
    BY <1>1, <2>1, <2>2 DEF resolveEntry
<1>3. after = [k \in DOMAIN entries |-> after[k]]
  BY DEF resolveEntry
<1> QED
  BY <1>2, <1>3, RowsReplaced

LEMMA FailKeepsRows ==
    ASSUME NEW entries \in Seq(Rows)
    PROVE  failEntry(entries, Turn) \in Seq(Rows)
<1> DEFINE after == failEntry(entries, Turn)
           at == Candidates(entries, Turn, AnyName(entries))
<1>1. CASE at = {}
  BY <1>1, RowsAppend DEF failEntry
<1>2. CASE at # {}
  <2>1. ASSUME NEW k \in DOMAIN entries PROVE after[k] \in Rows
    <3>1. entries[k] \in Rows
      OBVIOUS
    <3>2. [entries[k] EXCEPT !.status = "error"] \in Rows
      BY <3>1 DEF Rows
    <3> QED
      BY <1>2, <3>1, <3>2 DEF failEntry
  <2>2. after = [k \in DOMAIN entries |-> after[k]]
    BY <1>2 DEF failEntry
  <2> QED
    BY <2>1, <2>2, RowsReplaced
<1> QED
  BY <1>1, <1>2

LEMMA AuditKeepsRows ==
    ASSUME NEW entries \in Seq(Rows), NEW e \in Shown
    PROVE  applyAuditEvent(entries, Turn, e) \in Seq(Rows)
<1>1. CASE e \in {Decision, Token, DoneEvent, ErrorEvent}
  <2>1. Append(entries, Row(Turn, "decision", "ok", NoCall)) \in Seq(Rows)
    BY RowsAppend
  <2> QED
    BY <1>1, <2>1, FailKeepsRows DEF applyAuditEvent, Decision, Token, DoneEvent, ErrorEvent
<1>2. CASE \E c \in AllCalls : e = ToolCall(c)
  <2>1. PICK c \in AllCalls : e = ToolCall(c)
    BY <1>2
  <2>2. e.type = "tool_call" /\ e.call = c
    BY <2>1 DEF ToolCall
  <2>3. Append(entries, Row(Turn, c.name, "pending", c)) \in Seq(Rows)
    BY RowsAppend
  <2> QED
    BY <2>2, <2>3 DEF applyAuditEvent
<1>3. CASE \E c \in AllCalls, ok \in BOOLEAN : e = ToolResult(c, ok)
  <2>1. PICK c \in AllCalls, ok \in BOOLEAN : e = ToolResult(c, ok)
    BY <1>3
  <2>2. e.type = "tool_result"
    BY <2>1 DEF ToolResult
  <2> QED
    BY <2>1, <2>2, ResolveKeepsRows DEF applyAuditEvent
<1> QED
  BY <1>1, <1>2, <1>3, EventKinds

SpanSets == [pending : SUBSET AllCalls, ended : SUBSET AllCalls]

LEMMA TraceKeepsSpans ==
    ASSUME NEW s \in SpanSets, NEW e \in Shown
    PROVE  traceEvent(s, e) \in SpanSets /\ endTrace(s) \in SpanSets
<1>1. endTrace(s) \in SpanSets
  BY DEF endTrace, SpanSets
<1>2. CASE e \in {Decision, Token, DoneEvent, ErrorEvent}
  BY <1>1, <1>2 DEF traceEvent, Decision, Token, DoneEvent, ErrorEvent
<1>3. CASE \E c \in AllCalls : e = ToolCall(c)
  <2>1. PICK c \in AllCalls : e = ToolCall(c)
    BY <1>3
  <2>2. e.type = "tool_call" /\ e.call = c
    BY <2>1 DEF ToolCall
  <2>3. startSpan(s, c) \in SpanSets
    BY DEF startSpan, SpanSets
  <2> QED
    BY <1>1, <2>2, <2>3 DEF traceEvent
<1>4. CASE \E c \in AllCalls, ok \in BOOLEAN : e = ToolResult(c, ok)
  <2>1. e.type = "tool_result"
    BY <1>4 DEF ToolResult
  <2>2. endSpan(s, e.call.name) \in SpanSets
    BY DEF endSpan, SpanSets
  <2> QED
    BY <1>1, <2>1, <2>2 DEF traceEvent
<1> QED
  BY <1>2, <1>3, <1>4, EventKinds

------------------------------------------------------------------------------
\* TypeInv without the stream.
ControlTyped ==
    /\ pc \in {"starting", "creating", "researching", "summarising", "sending", "draining",
               "disconnecting", "stopping", "ended", "threw"}
    /\ client \in {"off", "started", "stopped"}
    /\ session \in {"none", "quiet", "working", "idle", "gone"}
    /\ grounding \subseteq {"research", "summary"}
    /\ tokens \in 0 .. MaxTokens
    /\ recorded \in BOOLEAN
    /\ broke \subseteq {"start", "create", "send", "disconnect", "stop"}

CallsTyped ==
    /\ calls \in [Calls -> [tool : Tools \cup {"none"},
                            at : {"unused", "approved", "running", "reading", "read",
                                  "returned", "over"}]]
    /\ CallsNameTools

QueueTyped == queue \in QueueObject /\ iter \in {"pulling", "awaiting", "returned"}

StreamTyped == delivered \in Seq(Shown) /\ spans \in SpanSets /\ trail \in Seq(Rows)

LEMMA TypeParts == TypeInv <=> ControlTyped /\ CallsTyped /\ QueueTyped /\ StreamTyped
  BY DEF TypeInv, TypeOK, ControlTyped, CallsTyped, QueueTyped, StreamTyped, Shown, SpanSets

LEMMA StreamKeepsType ==
    ASSUME StreamTyped, StreamStep
    PROVE  StreamTyped'
<1> USE DEF StreamTyped
<1>1. CASE Yields
  <2>1. PICK e \in Shown : Yield(e)
    BY <1>1 DEF Yields
  <2>2. delivered' \in Seq(Shown)
    BY <2>1 DEF Yield
  <2>3. trail' \in Seq(Rows) /\ spans' \in SpanSets
    BY <2>1, AuditKeepsRows, TraceKeepsSpans DEF Yield, Seen
  <2> QED
    BY <2>2, <2>3
<1>2. CASE Throws
  <2>1. ErrorEvent \in Shown
    BY DEF Shown
  <2>2. delivered' \in Seq(Shown)
    BY <1>2, <2>1 DEF Throws
  <2>3. trail' \in Seq(Rows) /\ spans' \in SpanSets
    BY <1>2, <2>1, AuditKeepsRows, TraceKeepsSpans DEF Throws
  <2> QED
    BY <2>2, <2>3
<1>3. CASE Ends
  <2>1. ErrorEvent \in Shown
    BY DEF Shown
  <2> QED
    BY <1>3, <2>1, TraceKeepsSpans DEF Ends
<1>4. CASE Rests
  BY <1>4 DEF Rests, stream
<1> QED
  BY <1>1, <1>2, <1>3, <1>4 DEF StreamStep

LEMMA ControlKeepsType ==
    ASSUME ControlTyped, [Next]_vars
    PROVE  ControlTyped'
<1> USE DEF ControlTyped, stream, sdk, Step
<1>1. CASE StartFails \/ CreateFails \/ DisconnectFails \/ StopFails
  BY <1>1 DEF StartFails, CreateFails, DisconnectFails, StopFails, Throw
<1>2. CASE Start \/ Create \/ Researched \/ Summarised
  BY <1>2 DEF Start, Create, Researched, Summarised
<1>3. CASE Send \/ SendFails \/ Drain \/ Finish \/ Disconnect
  BY <1>3 DEF Send, SendFails, Drain, Finish, Disconnect
<1>4. CASE Stop
  BY <1>4 DEF Stop, Record
<1>5. CASE Delta
  <2>1. tokens' \in 0 .. MaxTokens
    BY <1>5, TurnAssumption DEF Delta
  <2> QED
    BY <1>5, <2>1 DEF Delta
<1>6. CASE Idle
  BY <1>6 DEF Idle
<1>7. ASSUME NEW c \in Calls,
             \/ \E tool \in Tools : RequestPermission(c, tool)
             \/ onPreToolUse(c) \/ ReadProfile(c) \/ ProfileRead(c)
             \/ \E ok \in BOOLEAN : HandlerReturns(c, ok)
             \/ onPostToolUse(c) \/ onPostToolUseFailure(c)
      PROVE  ControlTyped'
  BY <1>7 DEF RequestPermission, onPreToolUse, ReadProfile, ProfileRead, HandlerReturns,
     onPostToolUse, onPostToolUseFailure
<1>8. CASE UNCHANGED vars
  BY <1>8 DEF vars
<1> QED
  BY <1>1, <1>2, <1>3, <1>4, <1>5, <1>6, <1>7, <1>8 DEF Next, Driver, SDK

\* A call that moves on keeps its tool.
LEMMA MoveKeepsCalls ==
    ASSUME CallsTyped, NEW c \in Calls,
           NEW from \in {"approved", "running", "reading", "read", "returned"},
           NEW to \in {"running", "reading", "read", "returned", "over"},
           Move(c, from, to)
    PROVE  CallsTyped'
  BY DEF CallsTyped, CallsNameTools, Move

LEMMA CallsKeepType ==
    ASSUME CallsTyped, [Next]_vars
    PROVE  CallsTyped'
<1>1. CASE UNCHANGED calls
  BY <1>1 DEF CallsTyped, CallsNameTools
<1>2. ASSUME NEW c \in Calls, NEW tool \in Tools, RequestPermission(c, tool)
      PROVE  CallsTyped'
  BY <1>2 DEF RequestPermission, CallsTyped, CallsNameTools
<1>3. ASSUME NEW c \in Calls,
             \/ onPreToolUse(c) \/ ReadProfile(c) \/ ProfileRead(c)
             \/ \E ok \in BOOLEAN : HandlerReturns(c, ok)
             \/ onPostToolUse(c) \/ onPostToolUseFailure(c)
      PROVE  CallsTyped'
  BY <1>3, MoveKeepsCalls DEF onPreToolUse, ReadProfile, ProfileRead, HandlerReturns,
     onPostToolUse, onPostToolUseFailure
<1>4. Driver \/ Delta \/ Idle \/ UNCHANGED vars => UNCHANGED calls
  BY DEF Driver, Start, StartFails, Create, CreateFails, Researched, Summarised, Send, SendFails,
     Drain, Finish, Disconnect, DisconnectFails, Stop, StopFails, Delta, Idle, vars, sdk
<1> QED
  BY <1>1, <1>2, <1>3, <1>4 DEF Next, SDK

LEMMA QueueKeepsType ==
    ASSUME CallsTyped, QueueTyped, [Next]_vars
    PROVE  QueueTyped'
<1> USE PushKeepsType DEF QueueTyped, Pushes
<1>1. CASE UNCHANGED <<queue, iter>>
  BY <1>1
<1>2. CASE Create
  <2>1. Q!Push(Q!Push(queue, Decision), ToolCall(Chat)) \in QueueObject
    BY DriverEvents DEF Chat
  <2> QED
    BY <1>2, <2>1, DriverEvents DEF Create
<1>3. CASE Researched
  <2> DEFINE fact == Call("driver", "wikipedia.summary")
  <2>1. Q!Push(Q!Push(queue, ToolCall(fact)), ToolResult(fact, TRUE)) \in QueueObject
    BY DriverEvents
  <2> QED
    BY <1>3, <2>1, DriverEvents DEF Researched
<1>4. CASE Summarised
  <2>1. Q!Push(queue, ToolResult(Call("driver", "profile"), TRUE)) \in QueueObject
    BY DriverEvents
  <2> QED
    BY <1>4, <2>1, DriverEvents DEF Summarised
<1>5. CASE Drain
  BY <1>5, ConsumerSteps DEF Drain
<1>6. CASE Delta
  BY <1>6, DriverEvents DEF Delta, stream
<1>7. CASE Idle
  <2>1. Q!Push(queue, ToolResult(Chat, TRUE)) \in QueueObject
    BY DriverEvents DEF Chat
  <2> QED
    BY <1>7, <2>1, CloseKeepsType DEF Idle, CloseOut, stream
<1>8. ASSUME NEW c \in Calls, NEW tool \in Tools, RequestPermission(c, tool)
      PROVE  QueueTyped'
  BY <1>8, DriverEvents DEF RequestPermission, stream
<1>9. ASSUME NEW c \in Calls, ReadProfile(c) \/ ProfileRead(c)
      PROVE  QueueTyped'
  BY <1>9, CallEvents DEF ReadProfile, ProfileRead, stream
<1>10. ASSUME NEW c \in Calls,
              \/ onPreToolUse(c) \/ onPostToolUse(c) \/ onPostToolUseFailure(c)
              \/ \E ok \in BOOLEAN : HandlerReturns(c, ok)
       PROVE  QueueTyped'
  <2>1. calls[c].tool \in Tools
    BY <1>10 DEF onPreToolUse, HandlerReturns, onPostToolUse, onPostToolUseFailure, Move,
       CallsTyped, CallsNameTools
  <2> QED
    BY <1>10, <2>1, CallEvents DEF onPreToolUse, HandlerReturns, onPostToolUse,
       onPostToolUseFailure, ReportFailure, stream
<1>11. CASE \/ Start \/ StartFails \/ CreateFails \/ Send \/ SendFails \/ Finish
            \/ Disconnect \/ DisconnectFails \/ Stop \/ StopFails \/ UNCHANGED vars
  BY <1>1, <1>11 DEF Start, StartFails, CreateFails, Send, SendFails, Finish, Disconnect,
     DisconnectFails, Stop, StopFails, vars
<1> QED
  BY <1>2, <1>3, <1>4, <1>5, <1>6, <1>7, <1>8, <1>9, <1>10, <1>11 DEF Next, Driver, SDK

LEMMA TypeInvInit == Init => TypeInv
<1> SUFFICES ASSUME Init PROVE TypeInv
  OBVIOUS
<1> USE DEF Init
<1>1. ControlTyped
  <2>1. grounding \subseteq {"research", "summary"} /\ 0 \in 0 .. MaxTokens
    BY TurnAssumption
  <2> QED
    BY <2>1 DEF ControlTyped
<1>2. CallsTyped
  BY DEF CallsTyped, CallsNameTools
<1>3. QueueTyped
  BY DEF QueueTyped, QueueObject, Q!EmptyQueue
<1>4. StreamTyped
  <2>1. Row("earlier", "copilot.chat", "pending", Chat) \in Rows
    BY DEF Row, Rows, Chat, Call, AllCalls
  <2> QED
    BY <2>1 DEF StreamTyped, NoSpans, SpanSets
<1> QED
  BY <1>1, <1>2, <1>3, <1>4, TypeParts

LEMMA TypeInvNext == TypeInv /\ [Next]_vars => TypeInv'
<1> SUFFICES ASSUME TypeInv, [Next]_vars PROVE TypeInv'
  OBVIOUS
<1>1. ControlTyped' /\ CallsTyped' /\ QueueTyped' /\ StreamTyped'
  BY TypeParts, ControlKeepsType, CallsKeepType, QueueKeepsType, StreamSteps, StreamKeepsType
<1> QED
  BY <1>1 DEF TypeInv, TypeOK, ControlTyped, CallsTyped, QueueTyped, StreamTyped, Shown, SpanSets

\* The turn, its queue and its stream are well typed in every run: in particular
\* only events of AllEvents, a done and errors ever reach the route.
THEOREM TurnTypeCorrect == Spec => []TypeOK
<1>1. TypeInv => TypeOK
  BY DEF TypeInv
<1> QED
  BY TypeInvInit, TypeInvNext, <1>1, PTL DEF Spec

------------------------------------------------------------------------------
\* A fold changes none but pending rows of its turn.
LEMMA FoldKeepsClosedRows ==
    ASSUME NEW entries \in Seq(Rows), NEW e, NEW k \in DOMAIN entries,
           entries[k].turn # Turn \/ entries[k].status # "pending"
    PROVE  LET after == applyAuditEvent(entries, Turn, e)
           IN  k \in DOMAIN after /\ after[k] = entries[k]
<1>1. ASSUME NEW row PROVE k \in DOMAIN Append(entries, row) /\ Append(entries, row)[k] = entries[k]
  OBVIOUS
<1>2. ASSUME NEW names PROVE ~IsNewest(k, Candidates(entries, Turn, names))
  BY DEF IsNewest, Candidates, PendingIn
<1>3. LET after == resolveEntry(entries, Turn, e)
      IN  k \in DOMAIN after /\ after[k] = entries[k]
  BY <1>2 DEF resolveEntry
<1>4. LET after == failEntry(entries, Turn)
      IN  k \in DOMAIN after /\ after[k] = entries[k]
  BY <1>1, <1>2 DEF failEntry
<1> QED
  BY <1>1, <1>3, <1>4 DEF applyAuditEvent

\* A row that was closed, and every row of another turn, stays as it is, in
\* every run of a turn.
THEOREM ClosedRowsHold == Spec => ClosedRowsStand
<1> DEFINE Stands == \A k \in DOMAIN trail :
                         trail[k].turn # Turn \/ trail[k].status # "pending" =>
                             k \in DOMAIN trail' /\ trail'[k] = trail[k]
<1>1. ASSUME TypeInv, [Next]_vars PROVE Stands
  <2>1. trail \in Seq(Rows)
    BY <1>1 DEF TypeInv, TypeOK
  <2>2. \/ trail' = trail
        \/ \E e \in Shown : trail' = applyAuditEvent(trail, Turn, e)
    BY <1>1, StreamSteps
       DEF StreamStep, Yields, Yield, Seen, Throws, Ends, Rests, stream, Shown
  <2> QED
    BY <2>1, <2>2, FoldKeepsClosedRows
<1> QED
  BY <1>1, TypeInvInit, TypeInvNext, PTL DEF Spec, ClosedRowsStand

------------------------------------------------------------------------------
\* The SDK process is started and stopped by two steps of run(), and every step
\* that throws in between says what broke.
ClientInv ==
    /\ pc = "starting" => client = "off"
    /\ pc = "ended" => client = "stopped"
    /\ pc = "threw" /\ client = "started" => broke \cap {"create", "disconnect", "stop"} # {}

LEMMA ClientInvNext == ClientInv /\ [Next]_vars => ClientInv'
<1> SUFFICES ASSUME ClientInv, [Next]_vars PROVE ClientInv'
  OBVIOUS
<1> USE DEF ClientInv, Step, sdk, stream
<1>1. CASE StartFails \/ CreateFails \/ DisconnectFails \/ StopFails
  BY <1>1 DEF StartFails, CreateFails, DisconnectFails, StopFails, Throw
<1>2. CASE Start \/ Create \/ Researched \/ Summarised
  BY <1>2 DEF Start, Create, Researched, Summarised
<1>3. CASE Send \/ SendFails \/ Drain \/ Finish \/ Disconnect
  BY <1>3 DEF Send, SendFails, Drain, Finish, Disconnect
<1>4. CASE Stop
  BY <1>4 DEF Stop
<1>5. CASE SDK
  BY <1>5 DEF SDK, Delta, Idle, RequestPermission, onPreToolUse, ReadProfile, ProfileRead,
     HandlerReturns, onPostToolUse, onPostToolUseFailure
<1>6. CASE UNCHANGED vars
  BY <1>6 DEF vars
<1> QED
  BY <1>1, <1>2, <1>3, <1>4, <1>5, <1>6 DEF Next, Driver

\* A turn that is over leaves its process running only if the session could not be
\* created or disconnected, or the process refused to stop: the finally block of
\* run() covers everything else, a failing send included.
THEOREM TurnStopsItsClient == Spec => []StopsItsClient
<1>1. Init => ClientInv
  BY DEF Init, ClientInv
<1>2. ClientInv => StopsItsClient
  BY DEF ClientInv, StopsItsClient, Over
<1> QED
  BY <1>1, ClientInvNext, <1>2, PTL DEF Spec

------------------------------------------------------------------------------
\* The call was announced, and its result has not been delivered since.
OpenSince(c, j) ==
    /\ j \in DOMAIN delivered
    /\ delivered[j] = ToolCall(c)
    /\ \A i \in j .. Len(delivered) : \A ok \in BOOLEAN : delivered[i] # ToolResult(c, ok)

\* SpansEndUnlessOverlapping before the turn is over: a span that is pending is
\* of a call still open, so that the call taking its place overlaps it.
SpanInv ==
    /\ Over => spans.pending = {}
    /\ \A c \in Made : c \in spans.pending \cup spans.ended \/ Overlapped(c.name)
    /\ \A c \in spans.pending : \E j \in DOMAIN delivered : OpenSince(c, j)

LEMMA Appended ==
    ASSUME NEW s \in Seq(Shown), NEW e \in Shown
    PROVE  /\ DOMAIN Append(s, e) = DOMAIN s \cup {Len(s) + 1}
           /\ DOMAIN s = 1 .. Len(s) /\ Len(s) \in Nat /\ Len(Append(s, e)) = Len(s) + 1
           /\ \A k \in DOMAIN s : Append(s, e)[k] = s[k]
           /\ Append(s, e)[Len(s) + 1] = e
  OBVIOUS

\* Calls that overlapped stay so.
LEMMA OverlapsLast ==
    ASSUME NEW e \in Shown, delivered \in Seq(Shown), delivered' = Append(delivered, e),
           NEW name, Overlapped(name)
    PROVE  Overlapped(name)'
<1>1. PICK j \in DOMAIN delivered, k \in DOMAIN delivered :
         /\ j < k
         /\ delivered[j].type = "tool_call" /\ delivered[k].type = "tool_call"
         /\ delivered[j].call.name = name /\ delivered[k].call.name = name
         /\ \A i \in j .. k : \A ok \in BOOLEAN : delivered[i] # ToolResult(delivered[j].call, ok)
  BY DEF Overlapped
<1>2. j \in DOMAIN delivered' /\ k \in DOMAIN delivered'
      /\ \A i \in j .. k : i \in DOMAIN delivered /\ delivered'[i] = delivered[i]
      /\ j \in j .. k /\ k \in j .. k
  BY <1>1, Appended
<1>3. /\ delivered'[j] = delivered[j] /\ delivered'[k] = delivered[k]
      /\ \A i \in j .. k : \A ok \in BOOLEAN : delivered'[i] # ToolResult(delivered'[j].call, ok)
  BY <1>1, <1>2
<1> QED
  BY <1>1, <1>2, <1>3 DEF Overlapped

\* A call stays open until its own result is delivered.
LEMMA StaysOpen ==
    ASSUME NEW e \in Shown, delivered \in Seq(Shown), delivered' = Append(delivered, e),
           NEW c, NEW j, OpenSince(c, j), \A ok \in BOOLEAN : e # ToolResult(c, ok)
    PROVE  OpenSince(c, j)'
<1>1. j \in DOMAIN delivered' /\ delivered'[j] = ToolCall(c)
  BY Appended DEF OpenSince
<1>2. ASSUME NEW i \in j .. Len(delivered'), NEW ok \in BOOLEAN
      PROVE  delivered'[i] # ToolResult(c, ok)
  <2>1. (i \in j .. Len(delivered) /\ i \in DOMAIN delivered) \/ i = Len(delivered) + 1
    BY Appended DEF OpenSince
  <2> QED
    BY <2>1, Appended DEF OpenSince
<1> QED
  BY <1>1, <1>2 DEF OpenSince

\* A call of a name that is open overlaps it.
LEMMA CallOverlaps ==
    ASSUME NEW c \in AllCalls, delivered \in Seq(Shown), ToolCall(c) \in Shown,
           delivered' = Append(delivered, ToolCall(c)),
           NEW d, NEW j, OpenSince(d, j), d.name = c.name
    PROVE  Overlapped(c.name)'
<1> DEFINE k == Len(delivered) + 1
<1>1. \A ok \in BOOLEAN : ToolCall(c) # ToolResult(d, ok)
  BY DEF ToolCall, ToolResult
<1>2. OpenSince(d, j)' /\ Len(delivered') = k
  BY <1>1, StaysOpen, Appended
<1>3. k \in DOMAIN delivered' /\ delivered'[k] = ToolCall(c) /\ j \in DOMAIN delivered' /\ j < k
      /\ delivered'[j] = ToolCall(d)
  BY <1>2, Appended DEF OpenSince
<1>4. /\ delivered'[j].type = "tool_call" /\ delivered'[k].type = "tool_call"
      /\ delivered'[j].call = d /\ delivered'[k].call = c
  BY <1>3 DEF ToolCall
<1>5. \A i \in j .. k : \A ok \in BOOLEAN : delivered'[i] # ToolResult(d, ok)
  BY <1>2 DEF OpenSince
<1> QED
  BY <1>3, <1>4, <1>5 DEF Overlapped

LEMMA MadeGrows ==
    ASSUME NEW e \in Shown, delivered \in Seq(Shown), delivered' = Append(delivered, e),
           NEW c \in Made'
    PROVE  c \in Made \/ (e.type = "tool_call" /\ c = e.call)
<1>1. PICK k \in DOMAIN delivered' : delivered'[k].type = "tool_call" /\ c = delivered'[k].call
  BY DEF Made, Told, Range
<1>2. k \in DOMAIN delivered \/ k = Len(delivered) + 1
  BY <1>1, Appended
<1>3. CASE k \in DOMAIN delivered
  BY <1>1, <1>3, Appended DEF Made, Told, Range
<1>4. CASE k = Len(delivered) + 1
  BY <1>1, <1>4, Appended
<1> QED
  BY <1>2, <1>3, <1>4

\* An event that neither calls nor answers leaves the spans.
LEMMA SpansRest ==
    ASSUME SpanInv, delivered \in Seq(Shown), ~Over', spans' = spans,
           NEW e \in {Decision, Token, DoneEvent, ErrorEvent}, e \in Shown,
           delivered' = Append(delivered, e)
    PROVE  SpanInv'
<1>1. e.type # "tool_call" /\ \A c : \A ok \in BOOLEAN : e # ToolResult(c, ok)
  BY DEF Decision, Token, DoneEvent, ErrorEvent, ToolResult
<1>2. \A c \in Made' : c \in Made
  BY <1>1, MadeGrows
<1>3. \A c \in Made' : c \in spans'.pending \cup spans'.ended \/ Overlapped(c.name)'
  BY <1>2, OverlapsLast DEF SpanInv
<1>4. \A c \in spans'.pending : \E j \in DOMAIN delivered' : OpenSince(c, j)'
  BY <1>1, StaysOpen, Appended DEF SpanInv
<1> QED
  BY <1>3, <1>4 DEF SpanInv

LEMMA SpanStarts ==
    ASSUME SpanInv, delivered \in Seq(Shown), spans \in SpanSets, ~Over', NEW c \in AllCalls,
           ToolCall(c) \in Shown, delivered' = Append(delivered, ToolCall(c)),
           spans' = startSpan(spans, c)
    PROVE  SpanInv'
<1>1. spans'.pending = {d \in spans.pending : d.name # c.name} \cup {c} /\ spans'.ended = spans.ended
  BY DEF startSpan, SpanSets
<1>2. ToolCall(c).call = c /\ \A d : \A ok \in BOOLEAN : ToolCall(c) # ToolResult(d, ok)
  BY DEF ToolCall, ToolResult
<1>3. \A d \in spans.pending : d.name = c.name => Overlapped(c.name)'
  BY CallOverlaps DEF SpanInv
<1>4. ASSUME NEW d \in Made'
      PROVE  d \in spans'.pending \cup spans'.ended \/ Overlapped(d.name)'
  <2>1. CASE d = c
    BY <1>1, <2>1
  <2>2. CASE d \in Made
    <3>1. d \in spans.pending \cup spans.ended \/ Overlapped(d.name)'
      BY <2>2, OverlapsLast DEF SpanInv
    <3> QED
      BY <1>1, <1>3, <3>1
  <2> QED
    BY <1>2, <2>1, <2>2, MadeGrows
<1>5. ASSUME NEW d \in spans'.pending PROVE \E j \in DOMAIN delivered' : OpenSince(d, j)'
  <2>1. CASE d = c
    <3>1. PICK k \in Nat : k = Len(delivered) + 1
      BY Appended
    <3>2. k \in DOMAIN delivered' /\ delivered'[k] = ToolCall(c) /\ Len(delivered') = k
      BY <3>1, Appended
    <3>3. OpenSince(c, k)'
      BY <1>2, <3>1, <3>2 DEF OpenSince
    <3> QED
      BY <2>1, <3>2, <3>3
  <2>2. CASE d \in spans.pending
    BY <1>2, <2>2, StaysOpen, Appended DEF SpanInv
  <2> QED
    BY <1>1, <2>1, <2>2
<1> QED
  BY <1>4, <1>5 DEF SpanInv

LEMMA SpanEnds ==
    ASSUME SpanInv, delivered \in Seq(Shown), spans \in SpanSets, ~Over', NEW c \in AllCalls,
           NEW ok \in BOOLEAN, ToolResult(c, ok) \in Shown,
           delivered' = Append(delivered, ToolResult(c, ok)), spans' = endSpan(spans, c.name)
    PROVE  SpanInv'
<1> DEFINE e == ToolResult(c, ok)
           ending == {d \in spans.pending : d.name = c.name}
<1>1. spans'.pending = spans.pending \ ending /\ spans'.ended = spans.ended \cup ending
  BY DEF endSpan
<1>2. e.type # "tool_call" /\ \A d : d # c => \A yes \in BOOLEAN : e # ToolResult(d, yes)
  BY DEF ToolResult
<1>3. \A d \in Made' : d \in Made
  BY <1>2, MadeGrows
<1>4. \A d \in Made' : d \in spans'.pending \cup spans'.ended \/ Overlapped(d.name)'
  BY <1>1, <1>3, OverlapsLast DEF SpanInv
<1>5. \A d \in spans'.pending : d \in spans.pending /\ d # c
  BY <1>1
<1>6. \A d \in spans'.pending : \E j \in DOMAIN delivered' : OpenSince(d, j)'
  BY <1>2, <1>5, StaysOpen, Appended DEF SpanInv
<1> QED
  BY <1>4, <1>6 DEF SpanInv

\* The end of the trace ends what is pending.
LEMMA TraceEnds ==
    ASSUME SpanInv, spans' = endTrace(spans), delivered \in Seq(Shown),
           \/ UNCHANGED delivered
           \/ delivered' = Append(delivered, ErrorEvent)
    PROVE  SpanInv'
<1>1. spans'.pending = {} /\ spans'.ended = spans.ended \cup spans.pending
  BY DEF endTrace
<1>2. ErrorEvent \in Shown /\ ErrorEvent.type # "tool_call"
  BY DEF Shown, ErrorEvent
<1>3. \A c \in Made' : c \in Made
  BY <1>2, MadeGrows DEF Made, Told
<1>4. \A c : Overlapped(c.name) => Overlapped(c.name)'
  BY <1>2, OverlapsLast DEF Overlapped
<1> QED
  BY <1>1, <1>3, <1>4 DEF SpanInv

LEMMA SpanInvNext ==
    ASSUME TypeInv, SpanInv, [Next]_vars
    PROVE  SpanInv'
<1>1. delivered \in Seq(Shown) /\ spans \in SpanSets
  BY TypeParts DEF StreamTyped
<1>2. StreamStep
  BY StreamSteps
<1>3. CASE Yields
  <2>1. PICK e \in Shown : Yield(e) /\ ~Over'
    BY <1>3 DEF Yields, Over
  <2>2. delivered' = Append(delivered, e) /\ spans' = traceEvent(spans, e)
    BY <2>1 DEF Yield, Seen
  <2>3. CASE e \in {Decision, Token, DoneEvent, ErrorEvent}
    <3>1. spans' = spans
      BY <2>2, <2>3 DEF traceEvent, Decision, Token, DoneEvent, ErrorEvent
    <3> QED
      BY <1>1, <2>1, <2>2, <2>3, <3>1, SpansRest
  <2>4. ASSUME NEW c \in AllCalls, e = ToolCall(c) PROVE SpanInv'
    <3>1. spans' = startSpan(spans, c)
      BY <2>2, <2>4 DEF traceEvent, ToolCall
    <3> QED
      BY <1>1, <2>1, <2>2, <2>4, <3>1, SpanStarts
  <2>5. ASSUME NEW c \in AllCalls, NEW ok \in BOOLEAN, e = ToolResult(c, ok) PROVE SpanInv'
    <3>1. spans' = endSpan(spans, c.name)
      BY <2>2, <2>5 DEF traceEvent, ToolResult
    <3> QED
      BY <1>1, <2>1, <2>2, <2>5, <3>1, SpanEnds
  <2> QED
    BY <2>3, <2>4, <2>5, EventKinds
<1>4. CASE Throws
  BY <1>1, <1>4, TraceEnds DEF Throws
<1>5. CASE Ends
  BY <1>1, <1>5, TraceEnds DEF Ends
<1>6. CASE Rests
  BY <1>6 DEF Rests, stream, SpanInv, Over, Made, Told, Overlapped, OpenSince
<1> QED
  BY <1>2, <1>3, <1>4, <1>5, <1>6 DEF StreamStep

\* When a turn is over every span that was started has been ended, unless a second
\* call of its name took its place while it was open: the finally block of
\* traceAgentTurn leaves nothing else behind, however the turn went.
THEOREM TurnEndsItsSpans == Spec => []SpansEndUnlessOverlapping
<1>1. Init => SpanInv
  BY DEF Init, SpanInv, Over, Made, Told, Range, NoSpans
<1>2. SpanInv => SpansEndUnlessOverlapping
  BY DEF SpanInv, SpansEndUnlessOverlapping
<1>3. TypeInv /\ SpanInv /\ [Next]_vars => SpanInv'
  BY SpanInvNext
<1> QED
  BY <1>1, <1>2, <1>3, TypeInvInit, TypeInvNext, PTL DEF Spec
==============================================================================
