---------------------------- MODULE ResponsesWire ----------------------------
(***************************************************************************)
(* An agent's events on their way through the Responses protocol: the      *)
(* hosted agent writes them as frames (responses/openai-responses.ts), and *)
(* the API reads events from the frames again (foundry-agent-proxy.ts).    *)
(*                                                                         *)
(* The events are those of AuditTrail; a token also says whose it is and   *)
(* which.  Of a frame only what the reader looks at is kept: the text of a *)
(* delta, and name, arguments, output and ok of a finished function call.  *)
(* Frames the reader ignores (created, in_progress, added, text done) are  *)
(* left out.                                                               *)
(***************************************************************************)
EXTENDS AuditTrail

Say(of, n) == [type |-> "token", of |-> of, n |-> n]

Delta(token) == [type |-> "response.output_text.delta", delta |-> token]
FunctionCall(args, e) ==
    [type |-> "response.output_item.done", item |-> "function_call",
     name |-> e.call.name, arguments |-> args, output |-> e.call, ok |-> e.ok]
MessageItem == [type |-> "response.output_item.done", item |-> "message"]
Completed == [type |-> "response.completed"]
Failed == [type |-> "response.failed"]

\* What the writer keeps: the calls without a result yet, at most one of a name,
\* whether it wrote any text, and whether it has failed, which ends it.
NewWriter == [frames |-> <<>>, pending |-> {}, messageOpen |-> FALSE, failed |-> FALSE]

Named(calls, name) == {c \in calls : c.name = name}

\* The arguments of the call that waits under this name; {} if none does.
pendingArgs(w, e) ==
    [w EXCEPT !.frames = Append(@, FunctionCall(Named(w.pending, e.call.name), e)),
              !.pending = @ \ Named(@, e.call.name)]

writeEvent(w, e) ==
    IF w.failed THEN w ELSE
    CASE e.type = "token"       -> [w EXCEPT !.frames = Append(@, Delta(e)), !.messageOpen = TRUE]
      [] e.type = "tool_call"   -> [w EXCEPT !.pending = (@ \ Named(@, e.call.name)) \cup {e.call}]
      [] e.type = "tool_result" -> pendingArgs(w, e)
      [] e.type = "error"       -> [w EXCEPT !.frames = Append(@, Failed), !.failed = TRUE]
      [] OTHER                  -> w

Written(events) ==
    LET after[k \in 0 .. Len(events)] ==
            IF k = 0 THEN NewWriter ELSE writeEvent(after[k - 1], events[k])
    IN  after[Len(events)]

\* The frames of a whole turn.
streamResponses(events) ==
    LET w == Written(events)
    IN  IF w.failed THEN w.frames
        ELSE w.frames \o (IF w.messageOpen THEN <<MessageItem>> ELSE <<>>) \o <<Completed>>

\* The frames of a turn that throws: no verdict follows (app.ts:157-164).
BrokenOff(events) == Written(events).frames

\* Mutant: a call that failed is reported as done.
MutantAlwaysOk(f) == TRUE

ResultOk(f) == f.ok

\* A function call is read as a call and its result.
FunctionCallEvents(f) ==
    IF f.item # "function_call" THEN <<>>
    ELSE LET call == IF f.arguments = {} THEN Call("nobody", f.name)
                     ELSE CHOOSE c \in f.arguments : TRUE
         IN  <<ToolCall([call EXCEPT !.name = f.name]), ToolResult(f.output, ResultOk(f))>>

mapResponsesEvent(f) ==
    CASE f.type = "response.output_text.delta" -> <<f.delta>>
      [] f.type = "response.output_item.done"  -> FunctionCallEvents(f)
      [] f.type = "response.completed"         -> <<DoneEvent>>
      [] f.type = "response.failed"            -> <<ErrorEvent>>

\* What the API makes of a stream of frames.
Read(frames) ==
    LET upTo[k \in 0 .. Len(frames)] ==
            IF k = 0 THEN <<>> ELSE upTo[k - 1] \o mapResponsesEvent(frames[k])
    IN  upTo[Len(frames)]
==============================================================================
