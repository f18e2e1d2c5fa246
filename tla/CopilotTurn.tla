----------------------------- MODULE CopilotTurn -----------------------------
(***************************************************************************)
(* One turn of the copilot driver that is left to the model (every turn    *)
(* but a booking): the SDK client and session, the callbacks and tool      *)
(* handlers that push events, the generator that drains them, the route    *)
(* that writes and traces them, and the audit panel of the client.         *)
(*                                                                         *)
(* The SDK is external.  Assumed of it: it asks permission, announces and  *)
(* runs each call in this order, several calls at a time if it likes;      *)
(* reports each success or failure to a hook; and goes idle only when      *)
(* every call is over.                                                     *)
(***************************************************************************)
EXTENDS AuditTrail, FiniteSets, SequencesExt

CONSTANTS
    Calls,      \* the tool calls the model may make, a bound
    Tools,      \* what it may call
    Own,        \* the tools whose handlers are the driver's and push their results
    Allowed,    \* the tools the permission handler approves
    Groundings, \* what a message can ask the driver to look up: sets of
                \* "research" and "summary"
    MaxTokens   \* bounds the pieces of text the model streams

ASSUME TurnAssumption ==
    /\ Own \subseteq Allowed /\ Allowed \subseteq Tools
    /\ Groundings \subseteq SUBSET {"research", "summary"}
    /\ MaxTokens \in Nat
    \* The driver's own look-ups are not among the calls of the model.
    /\ "driver" \notin Calls /\ "profile" \notin Tools

VARIABLES
    pc,         \* where the driver's run() is
    client,     \* the SDK client's process: "off", "started" or "stopped"
    session,    \* the SDK session: "none", "quiet", "working", "idle" or "gone"
    grounding,  \* what the message asks the driver to look up first
    calls,      \* where each tool call is
    tokens,     \* pieces of text streamed so far
    queue,      \* the EventQueue
    iter,       \* its generator
    delivered,  \* history: the events the route has been handed
    spans,      \* the trace of the turn
    recorded,   \* has the route stored the reply
    trail,      \* the rows of its audit panel
    broke       \* history: the calls into the SDK that failed

sdk == <<client, session, calls, tokens, broke>>
stream == <<delivered, spans, trail>>
vars == <<pc, sdk, grounding, queue, iter, stream, recorded>>

AllCalls ==
    [of : Calls, name : Tools \cup {"profile"}]
        \cup [of : {"driver"},
              name : {"copilot.chat", "profile", "wikipedia.summary", "trip-summariser"}]

AllEvents ==
    {Decision, Token} \cup {ToolCall(c) : c \in AllCalls}
        \cup {ToolResult(c, ok) : c \in AllCalls, ok \in BOOLEAN}

\* The queue's own specification; its history of pushes is not kept here.
Q == INSTANCE EventQueue WITH
        Events <- AllEvents, Done <- DoneEvent, MaxEvents <- 0, pushed <- <<>>, cutoff <- 0

Chat == Call("driver", "copilot.chat")

Turn == "now"

------------------------------------------------------------------------------
(* Steps are composed of what they do to each part. *)

Step(from, to) == pc = from /\ pc' = to

Move(c, from, to) == calls[c].at = from /\ calls' = [calls EXCEPT ![c].at = to]

\* The route is handed an event: it is traced, written, and folded into the
\* panel of the client.  (A client that stops reading sees the rows of a prefix;
\* the server is not told.)
Seen(e) ==
    /\ spans' = traceEvent(spans, e)
    /\ trail' = applyAuditEvent(trail, Turn, e)

Yield(e) == delivered' = Append(delivered, e) /\ Seen(e)

\* run() throws: tracing ends, nothing is recorded, and the route itself writes
\* an error event to the client.
Throw(what) ==
    /\ pc' = "threw"
    /\ broke' = broke \cup {what}
    /\ delivered' = Append(delivered, ErrorEvent)
    /\ spans' = endTrace(spans)
    /\ trail' = applyAuditEvent(trail, Turn, ErrorEvent)
    /\ UNCHANGED recorded

Init ==
    /\ pc = "starting"
    /\ client = "off"
    /\ session = "none"
    /\ grounding \in Groundings
    /\ calls = [c \in Calls |-> [tool |-> "none", at |-> "unused"]]
    /\ tokens = 0
    /\ queue = Q!EmptyQueue
    /\ iter = "pulling"
    /\ delivered = <<>>
    /\ spans = NoSpans
    /\ recorded = FALSE
    \* An earlier turn was abandoned before the model had answered.
    /\ trail = <<Row("earlier", "copilot.chat", "pending", Chat)>>
    /\ broke = {}

------------------------------------------------------------------------------
(* The driver *)

Start ==
    /\ Step("starting", "creating")
    /\ client' = "started"
    /\ UNCHANGED <<session, grounding, calls, tokens, queue, iter, stream, recorded, broke>>

StartFails ==
    /\ pc = "starting"
    /\ Throw("start")
    /\ UNCHANGED <<client, session, grounding, calls, tokens, queue, iter>>

\* The session is created, and the model's turn announced.  Then the look-ups
\* the message asks for: research first, and its profile for a summary.
Create ==
    /\ pc = "creating"
    /\ pc' = IF grounding = {} THEN "sending"
             ELSE IF "research" \in grounding THEN "researching" ELSE "summarising"
    /\ session' = IF grounding = {} THEN "working" ELSE "quiet"
    /\ LET announced == Q!Push(Q!Push(queue, Decision), ToolCall(Chat))
       IN  queue' = IF grounding = {"summary"}
                    THEN Q!Push(announced, ToolCall(Call("driver", "profile")))
                    ELSE announced
    /\ UNCHANGED <<client, grounding, calls, tokens, iter, stream, recorded, broke>>

\* createSession is called before the try block: the client is not stopped.
CreateFails ==
    /\ pc = "creating"
    /\ Throw("create")
    /\ UNCHANGED <<client, session, grounding, calls, tokens, queue, iter>>

\* researchPlace answered, or gave up.
Researched ==
    /\ pc = "researching"
    /\ pc' = IF "summary" \in grounding THEN "summarising" ELSE "sending"
    /\ session' = IF "summary" \in grounding THEN session ELSE "working"
    /\ LET fact == Call("driver", "wikipedia.summary")
           told == Q!Push(Q!Push(queue, ToolCall(fact)), ToolResult(fact, TRUE))
       IN  queue' = IF "summary" \in grounding
                    THEN Q!Push(told, ToolCall(Call("driver", "profile")))
                    ELSE told
    /\ UNCHANGED <<client, grounding, calls, tokens, iter, stream, recorded, broke>>

\* The profile arrived: the summary card is pushed.
Summarised ==
    /\ Step("summarising", "sending")
    /\ session' = "working"
    /\ LET profile == Call("driver", "profile")
           card == Call("driver", "trip-summariser")
       IN  queue' = Q!Push(Q!Push(Q!Push(queue, ToolResult(profile, TRUE)), ToolCall(card)),
                           ToolResult(card, TRUE))
    /\ UNCHANGED <<client, grounding, calls, tokens, iter, stream, recorded, broke>>

\* session.send is answered.  The session may have been at work meanwhile.
Send ==
    /\ Step("sending", "draining")
    /\ UNCHANGED <<sdk, grounding, queue, iter, stream, recorded>>

\* Mutant: the error is reported without the clean-up of the finally block.
MutantSkipsCleanUp ==
    /\ Step("sending", "ended")
    /\ broke' = broke \cup {"send"}
    /\ Yield(ErrorEvent)
    /\ UNCHANGED <<client, session, grounding, calls, tokens, queue, iter, recorded>>

\* ... or fails: what has been queued is never delivered.
SendFails ==
    /\ Step("sending", "disconnecting")
    /\ broke' = broke \cup {"send"}
    /\ Yield(ErrorEvent)
    /\ UNCHANGED <<client, session, grounding, calls, tokens, queue, iter, recorded>>

\* One step of the loop over the queue.
Drain ==
    /\ pc = "draining"
    /\ Q!Consumer
    /\ IF delivered' = delivered
       THEN UNCHANGED <<spans, trail>>
       ELSE Seen(Last(delivered'))
    /\ UNCHANGED <<pc, sdk, grounding, recorded>>

Finish ==
    /\ Step("draining", "disconnecting")
    /\ iter = "returned"
    /\ Yield(DoneEvent)
    /\ UNCHANGED <<sdk, grounding, queue, iter, recorded>>

Disconnect ==
    /\ Step("disconnecting", "stopping")
    /\ session' = "gone"
    /\ UNCHANGED <<client, grounding, calls, tokens, queue, iter, stream, recorded, broke>>

\* disconnect throws inside the finally block: the client is not stopped.
DisconnectFails ==
    /\ pc = "disconnecting"
    /\ Throw("disconnect")
    /\ UNCHANGED <<client, session, grounding, calls, tokens, queue, iter>>

\* Mutant: the reply is recorded whether or not there is one.
MutantRecordsAnyway == recorded' = TRUE

\* The route stores the text it was handed, if any.
Record == recorded' = (Token \in Range(delivered))

\* The generator ends, and with it the trace.
Stop ==
    /\ Step("stopping", "ended")
    /\ client' = "stopped"
    /\ spans' = endTrace(spans)
    /\ Record
    /\ UNCHANGED <<session, grounding, calls, tokens, queue, iter, delivered, trail, broke>>

StopFails ==
    /\ pc = "stopping"
    /\ Throw("stop")
    /\ UNCHANGED <<client, session, grounding, calls, tokens, queue, iter>>

Driver ==
    \/ Start \/ StartFails \/ Create \/ CreateFails \/ Researched \/ Summarised
    \/ Send \/ SendFails \/ Drain \/ Finish
    \/ Disconnect \/ DisconnectFails \/ Stop \/ StopFails

------------------------------------------------------------------------------
(* The SDK session, its hooks and the handlers of the driver's tools *)

Working == session = "working"

Pushes(e) == queue' = Q!Push(queue, e)

\* assistant.message_delta
Delta ==
    /\ Working
    /\ tokens < MaxTokens
    /\ tokens' = tokens + 1
    /\ Pushes(Token)
    /\ UNCHANGED <<pc, client, session, grounding, calls, iter, stream, recorded, broke>>

\* onPermissionRequest
RequestPermission(c, tool) ==
    /\ Working
    /\ calls[c].at = "unused"
    /\ calls' = [calls EXCEPT ![c] = [tool |-> tool,
                                      at |-> IF tool \in Allowed THEN "approved" ELSE "over"]]
    /\ Pushes(Decision)
    /\ UNCHANGED <<pc, client, session, grounding, tokens, iter, stream, recorded, broke>>

onPreToolUse(c) ==
    /\ Working
    /\ Move(c, "approved", "running")
    /\ Pushes(ToolCall(Call(c, calls[c].tool)))
    /\ UNCHANGED <<pc, client, session, grounding, tokens, iter, stream, recorded, broke>>

\* A handler reads the traveller's profile, which never fails.
ReadProfile(c) ==
    /\ Working
    /\ calls[c].tool \in Own
    /\ Move(c, "running", "reading")
    /\ Pushes(ToolCall(Call(c, "profile")))
    /\ UNCHANGED <<pc, client, session, grounding, tokens, iter, stream, recorded, broke>>

ProfileRead(c) ==
    /\ Working
    /\ Move(c, "reading", "read")
    /\ Pushes(ToolResult(Call(c, "profile"), TRUE))
    /\ UNCHANGED <<pc, client, session, grounding, tokens, iter, stream, recorded, broke>>

\* A handler of the driver pushes its own result, and returns ...
HandlerReturns(c, ok) ==
    /\ Working
    /\ calls[c].tool \in Own
    /\ \/ Move(c, "running", "returned")
       \/ ok /\ Move(c, "read", "returned")
    /\ Pushes(ToolResult(Call(c, calls[c].tool), ok))
    /\ UNCHANGED <<pc, client, session, grounding, tokens, iter, stream, recorded, broke>>

\* ... to a hook that leaves it alone.
onPostToolUse(c) ==
    /\ Working
    /\ IF calls[c].tool \in Own
       THEN Move(c, "returned", "over") /\ UNCHANGED queue
       ELSE Move(c, "running", "over") /\ Pushes(ToolResult(Call(c, calls[c].tool), TRUE))
    /\ UNCHANGED <<pc, client, session, grounding, tokens, iter, stream, recorded, broke>>

\* Mutant: the driver's tools are left alone here, too.
MutantForgetsFailures(c) ==
    IF calls[c].tool \in Own THEN UNCHANGED queue
    ELSE Pushes(ToolResult(Call(c, calls[c].tool), FALSE))

ReportFailure(c) == Pushes(ToolResult(Call(c, calls[c].tool), FALSE))

\* A tool throws before it has pushed a result.
onPostToolUseFailure(c) ==
    /\ Working
    /\ Move(c, "running", "over") \/ Move(c, "read", "over")
    /\ ReportFailure(c)
    /\ UNCHANGED <<pc, client, session, grounding, tokens, iter, stream, recorded, broke>>

\* Mutant: the queue is closed before the model's row is.
MutantClosesFirst == queue' = Q!Close(queue)

CloseOut == queue' = Q!Close(Q!Push(queue, ToolResult(Chat, TRUE)))

\* session.idle
Idle ==
    /\ Working
    /\ \A c \in Calls : calls[c].at \in {"unused", "over"}
    /\ session' = "idle"
    /\ CloseOut
    /\ UNCHANGED <<pc, client, grounding, calls, tokens, iter, stream, recorded, broke>>

SDK ==
    \/ Delta \/ Idle
    \/ \E c \in Calls :
          \/ \E tool \in Tools : RequestPermission(c, tool)
          \/ onPreToolUse(c) \/ ReadProfile(c) \/ ProfileRead(c)
          \/ \E ok \in BOOLEAN : HandlerReturns(c, ok)
          \/ onPostToolUse(c) \/ onPostToolUseFailure(c)

Next == Driver \/ SDK

Spec == Init /\ [][Next]_vars

------------------------------------------------------------------------------
Over == pc \in {"ended", "threw"}

Rows == [turn : {"now", "earlier"}, status : {"pending", "ok", "error"},
         name : {c.name : c \in AllCalls} \cup {"decision", "agent_unavailable"},
         call : AllCalls \cup {NoCall}, answer : AllCalls \cup {NoCall}]

TypeOK ==
    /\ pc \in {"starting", "creating", "researching", "summarising", "sending", "draining",
               "disconnecting", "stopping", "ended", "threw"}
    /\ client \in {"off", "started", "stopped"}
    /\ session \in {"none", "quiet", "working", "idle", "gone"}
    /\ grounding \subseteq {"research", "summary"}
    /\ calls \in [Calls -> [tool : Tools \cup {"none"},
                            at : {"unused", "approved", "running", "reading", "read",
                                  "returned", "over"}]]
    /\ tokens \in 0 .. MaxTokens
    /\ delivered \in Seq(AllEvents \cup {DoneEvent, ErrorEvent})
    /\ spans \in [pending : SUBSET AllCalls, ended : SUBSET AllCalls]
    /\ recorded \in BOOLEAN
    /\ trail \in Seq(Rows)
    /\ broke \subseteq {"start", "create", "send", "disconnect", "stop"}

Told == Range(delivered)
Occurs(e) == e \in Told

Made == {e.call : e \in {e \in Told : e.type = "tool_call"}}
Answered == {e.call : e \in {e \in Told : e.type = "tool_result"}}

\* Two calls of this name were open at once, so that their results cannot be
\* told apart.
Overlapped(name) ==
    \E j, k \in DOMAIN delivered :
        /\ j < k
        /\ delivered[j].type = "tool_call" /\ delivered[k].type = "tool_call"
        /\ delivered[j].call.name = name /\ delivered[k].call.name = name
        /\ \A i \in j .. k : \A ok \in BOOLEAN : delivered[i] # ToolResult(delivered[j].call, ok)

\* Once the traveller is told that the turn is done or has failed, no row of it
\* is pending: every call that was announced has been closed, by its handler or
\* by a hook, before the session went idle (AC-002-2, AC-002-6).
SettledAtTheVerdict ==
    (Occurs(DoneEvent) \/ Occurs(ErrorEvent)) => PendingIn(trail, Turn) = {}

\* A row is closed by the result of the call that made it, however the events of
\* concurrent tools interleave, unless two calls of one name were open at once:
\* lastPendingIndex then takes the newest (FR-002-2, "paired").
OwnAnswersUnlessOverlapping ==
    \A k \in DOMAIN trail :
        trail[k].answer # NoCall =>
            trail[k].answer = trail[k].call \/ Overlapped(trail[k].name)

\* A row that is closed, and every row of another turn, stays as it is.
ClosedRowsStand ==
    [][\A k \in DOMAIN trail :
          trail[k].turn # Turn \/ trail[k].status # "pending" =>
              k \in DOMAIN trail' /\ trail'[k] = trail[k]]_vars

\* When the turn is over every span that was started has been ended, so that it
\* is exported, unless a second call of its name took its place.
SpansEndUnlessOverlapping ==
    Over => \A c \in Made : c \in spans.ended \/ Overlapped(c.name)

\* A turn that is over leaves its SDK process running only if the session could
\* not be created or disconnected, or the process refused to stop.
StopsItsClient ==
    Over /\ client = "started" => broke \cap {"create", "disconnect", "stop"} # {}

\* The stored reply is the whole of what the model streamed and the turn was done;
\* a reply the traveller saw completed is missing from the conversation only if
\* the session could not be torn down.
RecordsTheWholeReply ==
    /\ recorded => /\ Occurs(DoneEvent)
                   /\ tokens > 0
                   /\ Cardinality({k \in DOMAIN delivered : delivered[k] = Token}) = tokens
    /\ Over /\ Occurs(DoneEvent) /\ Occurs(Token) /\ ~recorded =>
          broke \cap {"disconnect", "stop"} # {}

\* The stream keeps the contract of a turn.
Contract == INSTANCE TurnContract WITH
                PossibleCalls <- AllCalls,
                open <- Made \ Answered,
                verdict <- IF delivered = <<>> \/ Last(delivered) \notin {DoneEvent, ErrorEvent}
                           THEN "none" ELSE Last(delivered).type
ImplementsContract == Contract!Spec
==============================================================================
