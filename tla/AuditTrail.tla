------------------------------ MODULE AuditTrail ------------------------------
(***************************************************************************)
(* The two folds of a turn's event stream: the rows of the audit panel     *)
(* (shared/audit.ts) and the spans of the trace (telemetry/agent-spans.ts).*)
(*                                                                         *)
(* A call is known to the code by its name only.  In the model it also     *)
(* says whose call it is, so that the properties can tell which call a     *)
(* row or a span was closed for.  Summaries, durations and types of rows   *)
(* are left out.                                                           *)
(***************************************************************************)
EXTENDS Integers, Sequences

Decision == [type |-> "decision"]
Token == [type |-> "token"]
DoneEvent == [type |-> "done"]
ErrorEvent == [type |-> "error"]
ToolCall(call) == [type |-> "tool_call", call |-> call]
ToolResult(call, ok) == [type |-> "tool_result", call |-> call, ok |-> ok]

Call(of, name) == [of |-> of, name |-> name]

NoCall == Call("nobody", "none")

------------------------------------------------------------------------------
(* The audit panel.  A row: [turn, name, status, call, answer], where `call`  *)
(* and `answer` are the call that made it and the one whose result closed it. *)

PendingIn(entries, turn) ==
    {k \in DOMAIN entries : entries[k].turn = turn /\ entries[k].status = "pending"}

IsNewest(k, indices) == k \in indices /\ \A j \in indices : j <= k

Row(turn, name, status, call) ==
    [turn |-> turn, name |-> name, status |-> status, call |-> call, answer |-> NoCall]

\* Mutant: the row is looked for in every turn.
MutantAnyTurn(entries, turn, names) ==
    {k \in DOMAIN entries : entries[k].status = "pending" /\ entries[k].name \in names}

\* Mutant: the newest row is taken, whatever was called.
MutantAnyName(entries, turn, names) == PendingIn(entries, turn)

\* Where lastPendingIndex looks for the newest row.
Candidates(entries, turn, names) ==
    {k \in PendingIn(entries, turn) : entries[k].name \in names}

\* Mutant: a result that failed leaves the row "failed", which no row can be.
MutantFailed(entries, turn, e) ==
    [k \in DOMAIN entries |->
        IF IsNewest(k, Candidates(entries, turn, {e.call.name}))
        THEN [entries[k] EXCEPT !.status = IF e.ok THEN "ok" ELSE "failed", !.answer = e.call]
        ELSE entries[k]]

\* A result closes the newest pending row of its turn and name, if there is one.
resolveEntry(entries, turn, e) ==
    [k \in DOMAIN entries |->
        IF IsNewest(k, Candidates(entries, turn, {e.call.name}))
        THEN [entries[k] EXCEPT !.status = IF e.ok THEN "ok" ELSE "error", !.answer = e.call]
        ELSE entries[k]]

AnyName(entries) == {entries[k].name : k \in DOMAIN entries}

\* An error fails the newest pending row of its turn, or is a row of its own.
failEntry(entries, turn) ==
    IF Candidates(entries, turn, AnyName(entries)) = {}
    THEN Append(entries, Row(turn, "agent_unavailable", "error", NoCall))
    ELSE [k \in DOMAIN entries |->
             IF IsNewest(k, Candidates(entries, turn, AnyName(entries)))
             THEN [entries[k] EXCEPT !.status = "error"]
             ELSE entries[k]]

applyAuditEvent(entries, turn, e) ==
    CASE e.type = "decision"    -> Append(entries, Row(turn, "decision", "ok", NoCall))
      [] e.type = "tool_call"   -> Append(entries, Row(turn, e.call.name, "pending", e.call))
      [] e.type = "tool_result" -> resolveEntry(entries, turn, e)
      [] e.type = "error"       -> failEntry(entries, turn)
      [] OTHER                  -> entries

------------------------------------------------------------------------------
(* The trace: the spans not yet ended, at most one of a name, and the ended   *)
(* ones.                                                                      *)

NoSpans == [pending |-> {}, ended |-> {}]

\* Mutant: there is room for one pending span.
MutantOneSlot(spans, call) == [spans EXCEPT !.pending = {call}]

\* A span replaces the pending one of its name, which is never ended.
startSpan(spans, call) ==
    [spans EXCEPT !.pending = {c \in @ : c.name # call.name} \cup {call}]

endSpan(spans, name) ==
    LET ending == {c \in spans.pending : c.name = name}
    IN  [pending |-> spans.pending \ ending, ended |-> spans.ended \cup ending]

traceEvent(spans, e) ==
    CASE e.type = "tool_call"   -> startSpan(spans, e.call)
      [] e.type = "tool_result" -> endSpan(spans, e.call.name)
      [] OTHER                  -> spans

\* The end of the turn ends what is pending.
endTrace(spans) == [pending |-> {}, ended |-> spans.ended \cup spans.pending]
==============================================================================
