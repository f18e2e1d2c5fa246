----------------------------- MODULE HostedChat -----------------------------
(***************************************************************************)
(* A chat from the browser to the agent and back: the composer and the     *)
(* thread of the page (web/lib/useChat.ts, web/app/page.tsx), its proxy    *)
(* route, POST /api/chat, and behind it one of three agents: the local     *)
(* driver (LocalDriver) and the runtime's failure scripts (RuntimeFaults), *)
(* the Copilot SDK in the same process, or the agent hosted on Foundry     *)
(* (foundry-agent-proxy), which answers through the Responses protocol     *)
(* (ResponsesWire).                                                        *)
(*                                                                         *)
(* A turn is one message sent.  The streams between browser, API and agent *)
(* keep the order of events, so an event passes through them in one step.  *)
(* The browser may stop reading (New chat, a lost connection); nobody      *)
(* tells the API, which goes on with the turn.  An abort rejects the read  *)
(* at once and what follows (catch, finally, the composer's own await)     *)
(* runs before the next event of the page: it is part of the same action.  *)
(***************************************************************************)
EXTENDS LocalDriver

CONSTANTS
    Texts,          \* what the traveller may type
    LocalTurns,     \* bounds the messages sent when the agent is in this process
    FoundryTurns,   \* and when it is hosted
    VariedTurns,    \* bounds the local turns of every kind; later ones are bookings
    None

ASSUME ChatAssumption ==
    /\ LocalTurns \in Nat /\ FoundryTurns \in Nat /\ VariedTurns \in Nat
    /\ None \notin Texts /\ None \notin Int

VARIABLES
    route,          \* which agent answers: the local driver, the Copilot SDK in this
                    \* process, or the one hosted on Foundry
    \* the page
    chat,           \* the session: how many chats were begun before this one
    messages,       \* the exchanges of this chat: a message and the bubble below it
    streaming, abortRef,
    reading,        \* the turns whose stream some send is reading
    failed,         \* the turns whose send has seen an error event
    error,          \* is the error notice shown
    draft,
    rows,           \* the audit panel
    \* the API
    turns,          \* the turns sent so far
    conversationBySession,
    stray           \* history: the chats of which two turns created a
                    \* conversation at once, and those of which one could not

page == <<chat, messages, streaming, abortRef, reading, failed, error, draft, rows>>
vars == <<route, page, turns, conversationBySession, stray>>

Turns == 1 .. (IF route = "foundry" THEN FoundryTurns ELSE LocalTurns)
Chats == 0 .. Len(turns)

Init ==
    /\ route \in {"local", "sdk", "foundry"}
    /\ chat = 0
    /\ messages = <<>>
    /\ streaming = FALSE
    /\ abortRef = None
    /\ reading = {}
    /\ failed = {}
    /\ error = FALSE
    /\ draft = None
    /\ rows = <<>>
    /\ turns = <<>>
    /\ conversationBySession = [c \in {} |-> None]
    /\ stray = [raced |-> {}, refused |-> {}]

------------------------------------------------------------------------------
(* The page *)

\* Typing, and the cards that put a phrase into the composer.
Compose ==
    /\ draft' \in Texts
    /\ UNCHANGED <<route, chat, messages, streaming, abortRef, reading, failed, error, rows,
                   turns, conversationBySession, stray>>

\* Mutant: a message can be sent while a reply streams.
MutantWhileBusy == draft # None

canSend == draft # None /\ ~streaming

\* The message and an empty bubble are shown, and the message is posted.
submit ==
    LET t == Len(turns) + 1
    IN  /\ canSend
        /\ t \in Turns
        /\ turns' = Append(turns, [phase |-> "posted", chat |-> chat, text |-> draft,
                                   script |-> <<>>, stream |-> <<>>, cutShort |-> FALSE,
                                   known |-> {}, seen |-> {}, tag |-> None, via |-> None])
        /\ messages' = Append(messages, [turn |-> t, said |-> <<>>, cards |-> {}, done |-> FALSE])
        /\ streaming' = TRUE
        /\ abortRef' = t
        /\ reading' = reading \cup {t}
        /\ error' = FALSE
        /\ draft' = None
        /\ UNCHANGED <<route, chat, failed, rows, conversationBySession, stray>>

\* Mutant: a message that failed is not put back.
MutantForgets(t, ok) == draft

\* A message that failed is put back, over anything typed since.
Restored(t, ok) == IF ok THEN draft ELSE turns[t].text

\* A send ends: its `finally`, and the rest of submit.
Settle(t, ok) ==
    /\ streaming' = FALSE
    /\ abortRef' = None
    /\ reading' = reading \ {t}
    /\ draft' = Restored(t, ok)

\* Mutant: the old reply is read on.
MutantKeepsReading(t) == UNCHANGED <<abortRef, reading, draft, turns>> /\ streaming' = FALSE

\* A send is aborted.  The API is not told, but what is still to come reaches nobody
\* and is not kept.
Abort(t) == Settle(t, FALSE) /\ turns' = [turns EXCEPT ![t].stream = <<>>]

\* New chat, or home: the reply that streams is given up.
reset ==
    /\ messages # <<>>
    /\ chat' = chat + 1
    /\ messages' = <<>>
    /\ error' = FALSE
    /\ rows' = <<>>
    /\ IF abortRef # None THEN Abort(abortRef)
       ELSE streaming' = FALSE /\ UNCHANGED <<abortRef, reading, draft, turns>>
    /\ UNCHANGED <<route, failed, conversationBySession, stray>>

\* The browser goes offline, or the read fails: what has come stays.
LoseConnection(t) ==
    /\ t \in reading
    /\ Abort(t)
    /\ error' = TRUE
    /\ UNCHANGED <<route, chat, messages, failed, rows, conversationBySession, stray>>

CardTools ==
    {"destination-advisor", "weather-window", "travel-search", "booking-simulator",
     "personalise", "trip-summariser", "wikipedia.summary"}

\* The tools of which some results are for the reply only: a place that is not known,
\* dates that are missing.  The validators find nothing in them to show.
Wordy == {"weather-window", "travel-search"}

\* The card a result can become: that of its tool, if it has one and the result is
\* one to show.
CardsOf(e) ==
    IF e.type # "tool_result" THEN {{}}
    ELSE IF ~e.ok \/ e.call.name \notin CardTools THEN {{}}
    ELSE IF e.call.name \in Wordy THEN {{}, {e.call}}
    ELSE {{e.call}}

\* A bubble after an event.
Applied(m, e, card) ==
    [m EXCEPT !.said = IF e.type = "token" THEN Append(@, e) ELSE @,
              !.cards = @ \cup card,
              !.done = @ \/ e.type = "done"]

\* An event changes the last bubble, whoever sent it.
applyEvent(e, card) ==
    IF messages = <<>> THEN messages
    ELSE [messages EXCEPT ![Len(messages)] = Applied(messages[Len(messages)], e, card)]

------------------------------------------------------------------------------
(* The API's turn *)

Phase(t) == turns[t].phase
To(t, to) == turns' = [turns EXCEPT ![t].phase = to]

\* An answer of the SDK, with a tool called while the model's own call is open.
Answer(t) == Turn(t, Tool(t, "travel-search", TRUE) \o <<Say(t, 1)>>)

\* A failure reported after the end.
LateFailure(t) == Reply(t) \o <<DoneEvent, ErrorEvent>>

\* Two calls of one tool at once; they are told apart by whom they are of.
Twins(t) ==
    LET a == Call(t, "travel-search")
        b == Call(-t, "travel-search")
    IN  <<ToolCall(a), ToolCall(b), ToolResult(a, TRUE), ToolResult(b, FALSE), Say(t, 1), DoneEvent>>

\* What the agent's driver emits when nothing breaks, and where it may break off,
\* which the local driver does not.  What it says when nobody reads is of no
\* consequence here.
Scripts(t) ==
    IF t \notin reading THEN {<<>>}
    ELSE IF route # "local" THEN {Answer(t), LateFailure(t), Twins(t)}
    ELSE IF t <= VariedTurns THEN run(t) \cup runFault(t)
    ELSE runBooking(t)

Broken(t) ==
    IF t \in reading /\ route # "local" THEN {SubSeq(Answer(t), 1, k) : k \in 0 .. Len(Answer(t)) - 1}
    ELSE {}

\* The API hears of the turn and records it: it knows of the turns answered before.
Answered(c) == {k \in DOMAIN turns : turns[k].chat = c /\ Phase(k) = "over" /\ turns[k].via # None}

Arrive(t) ==
    /\ Phase(t) = "posted"
    /\ \/ /\ route # "foundry"
          /\ \/ \E s \in Scripts(t) :
                   turns' = [turns EXCEPT ![t].phase = "streaming", ![t].script = s, ![t].stream = s]
             \/ \E p \in Broken(t) :
                   turns' = [turns EXCEPT ![t].phase = "streaming", ![t].script = Answer(t),
                                          ![t].stream = p \o <<ErrorEvent>>]
       \/ /\ route = "foundry"
          /\ turns' = [turns EXCEPT ![t].phase = "ensure", ![t].known = Answered(turns[t].chat)]
    /\ UNCHANGED <<route, page, conversationBySession, stray>>

\* The message never gets there.
NeverArrives(t) ==
    /\ Phase(t) = "posted"
    /\ To(t, "over")
    /\ IF t \in reading THEN Settle(t, FALSE) /\ error' = TRUE
       ELSE UNCHANGED <<streaming, abortRef, reading, draft, error>>
    /\ UNCHANGED <<route, chat, messages, failed, rows, conversationBySession, stray>>

\* Conversations are numbered, two numbers a turn; with none a turn is stateless.
Stateless == 0

HasConversation(c) == c \in DOMAIN conversationBySession

\* The route's own attempt comes first, for its trace; it may find no bearer.
Ensuring == {"ensure", "ensureAgain"}
Creating == {"create", "createAgain"}
After(phase) == IF phase \in {"ensure", "create"} THEN "ensureAgain" ELSE "post"

\* The conversation of the turn is known, or there is none: as the tag of the
\* trace the first time, then as what the turn is posted to.
Known(t, c) ==
    turns' = IF Phase(t) \in {"ensure", "create"}
             THEN [turns EXCEPT ![t].phase = After(@), ![t].tag = c]
             ELSE [turns EXCEPT ![t].phase = After(@), ![t].via = c]

ensureConversation(t) ==
    LET c == turns[t].chat
    IN  /\ Phase(t) \in Ensuring
        /\ \/ HasConversation(c) /\ Known(t, conversationBySession[c])
           \/ ~HasConversation(c) /\ To(t, IF Phase(t) = "ensure" THEN "create" ELSE "createAgain")
        /\ UNCHANGED <<route, page, conversationBySession, stray>>

\* No token: the trace goes by the session, and the second time the turn fails.
NoBearer(t) ==
    /\ \/ Phase(t) = "ensure" /\ Known(t, Stateless)
       \/ /\ Phase(t) = "ensureAgain"
          /\ turns' = [turns EXCEPT ![t].phase = "streaming", ![t].script = <<ErrorEvent>>,
                                    ![t].stream = <<ErrorEvent>>]
    /\ UNCHANGED <<route, page, conversationBySession, stray>>

\* Mutant: the conversation is not recorded for the session.
MutantNotRecorded(c, id) == conversationBySession

Recorded(c, id) == [k \in DOMAIN conversationBySession \cup {c} |->
                       IF k = c THEN id ELSE conversationBySession[k]]

Created(t) ==
    LET c == turns[t].chat
        id == 2 * t - (IF Phase(t) = "create" THEN 1 ELSE 0)
    IN  /\ Phase(t) \in Creating
        /\ Known(t, id)
        /\ conversationBySession' = Recorded(c, id)
        /\ stray' = IF HasConversation(c) THEN [stray EXCEPT !.raced = @ \cup {c}] ELSE stray
        /\ UNCHANGED <<route, page>>

NotCreated(t) ==
    /\ Phase(t) \in Creating
    /\ Known(t, Stateless)
    /\ stray' = [stray EXCEPT !.refused = @ \cup {turns[t].chat}]
    /\ UNCHANGED <<route, page, conversationBySession>>

Posted(k) == Phase(k) \in {"streaming", "over"} /\ turns[k].via # None

\* Mutant: without a conversation only the message is sent.
MutantMessageOnly(t) == {k \in DOMAIN turns : Posted(k) /\ turns[t].via # Stateless}

\* The turns of the session that the agent is told of: those posted to its
\* conversation, or all that the API has.
Context(t) ==
    {k \in DOMAIN turns : Posted(k) /\ (turns[t].via = Stateless \/ turns[k].via = turns[t].via)}

Streams(t, s, events, cut) ==
    turns' = [turns EXCEPT ![t].phase = "streaming", ![t].script = s, ![t].stream = events,
                           ![t].cutShort = cut, ![t].seen = {k \in Context(t) : turns[k].chat = turns[t].chat}]

\* The turn is posted to the hosted agent: it refuses, it answers, the answer is cut
\* off on the way, or the agent throws after its first frame.
Post(t) ==
    /\ Phase(t) = "post"
    /\ \/ Streams(t, <<ErrorEvent>>, <<ErrorEvent>>, FALSE)
       \/ \E s \in Scripts(t) : Streams(t, s, Read(streamResponses(s)), FALSE)
       \/ \E p \in Broken(t) : \/ Streams(t, Answer(t), Read(BrokenOff(p)) \o <<ErrorEvent>>, FALSE)
                              \/ Streams(t, Answer(t), Read(BrokenOff(p)), TRUE)
    /\ UNCHANGED <<route, page, conversationBySession, stray>>

\* The next event, to a browser that still reads.
Deliver(t) ==
    LET e == Head(turns[t].stream)
    IN  /\ t \in reading
        /\ Phase(t) = "streaming"
        /\ turns[t].stream # <<>>
        /\ turns' = [turns EXCEPT ![t].stream = Tail(@)]
        /\ \E card \in CardsOf(e) : messages' = applyEvent(e, card)
        /\ failed' = IF e.type = "error" THEN failed \cup {t} ELSE failed
        /\ error' = (error \/ e.type = "error")
        /\ rows' = applyAuditEvent(rows, t, e)
        /\ UNCHANGED <<route, chat, streaming, abortRef, reading, draft, conversationBySession, stray>>

\* Mutant: a stream is at its end when it said so.
MutantSaidDone(t) == turns[t].stream = <<>> /\ t \notin failed

Exhausted(t) == turns[t].stream = <<>>

\* The stream ends; when nobody reads, the API gets there by itself.
End(t) ==
    /\ Phase(t) = "streaming"
    /\ Exhausted(t) \/ t \notin reading
    /\ turns' = [turns EXCEPT ![t].phase = "over", ![t].stream = <<>>]
    /\ IF t \in reading THEN Settle(t, t \notin failed)
       ELSE UNCHANGED <<streaming, abortRef, reading, draft>>
    /\ UNCHANGED <<route, chat, messages, failed, error, rows, conversationBySession, stray>>

Runs(t) == Arrive(t) \/ Deliver(t) \/ End(t)

Next ==
    \/ Compose \/ submit \/ reset
    \/ \E t \in DOMAIN turns :
          \/ LoseConnection(t) \/ NeverArrives(t) \/ Runs(t)
          \/ ensureConversation(t) \/ NoBearer(t) \/ Created(t) \/ NotCreated(t) \/ Post(t)

Spec == Init /\ [][Next]_vars

\* The local driver and the failure scripts wait for their own timers and, in a
\* research turn, for a lookup that fetch's own limits end; and streams are read on.
\* The SDK and Foundry may keep a turn waiting for ever: no timeout of the code
\* bounds either, and nothing is assumed of them.
Fairness ==
    \A t \in 1 .. LocalTurns : WF_vars(route = "local" /\ t \in DOMAIN turns /\ Runs(t))

FairSpec == Spec /\ Fairness

------------------------------------------------------------------------------
(* Properties *)

Phases == {"posted", "ensure", "create", "ensureAgain", "createAgain", "post", "streaming", "over"}

TypeOK ==
    /\ route \in {"local", "sdk", "foundry"}
    /\ chat \in Chats
    /\ \A i \in DOMAIN messages : messages[i].turn \in DOMAIN turns /\ messages[i].done \in BOOLEAN
    /\ streaming \in BOOLEAN /\ error \in BOOLEAN
    /\ abortRef \in DOMAIN turns \cup {None}
    /\ reading \subseteq DOMAIN turns /\ failed \subseteq DOMAIN turns
    /\ draft \in Texts \cup {None}
    /\ \A k \in DOMAIN rows : rows[k].turn \in DOMAIN turns /\ rows[k].status \in {"ok", "pending", "error"}
    /\ \A t \in DOMAIN turns :
          /\ turns[t].phase \in Phases /\ turns[t].chat \in Chats /\ turns[t].text \in Texts
          /\ {turns[t].tag, turns[t].via} \subseteq Nat \cup {None}
    /\ DOMAIN conversationBySession \subseteq Chats

\* What a script has the agent say.
Spoken(events) ==
    LET upTo[k \in 0 .. Len(events)] ==
            IF k = 0 THEN <<>>
            ELSE IF events[k].type = "token" THEN Append(upTo[k - 1], events[k]) ELSE upTo[k - 1]
    IN  upTo[Len(events)]

\* One text begins with the other.
Begins(text, whole) ==
    Len(text) <= Len(whole) /\ \A k \in DOMAIN text : text[k] = whole[k]

ResultsOf(t) == {e.call : e \in {turns[t].script[k] : k \in {j \in DOMAIN turns[t].script :
                                     turns[t].script[j].type = "tool_result"}}}

\* Whatever stream was given up or went on behind the scenes, each bubble shows what
\* the agent said to the message above it, in its order and without a gap, and its
\* cards; and nothing on the page is of another chat (send, reset, applyEvent;
\* streamResponses, mapResponsesEvent).
OwnReplies ==
    /\ \A i \in DOMAIN messages :
          LET m == messages[i]
          IN  /\ turns[m.turn].chat = chat
              /\ Begins(m.said, Spoken(turns[m.turn].script))
              /\ m.cards \subseteq ResultsOf(m.turn)
    /\ \A k \in DOMAIN rows : turns[rows[k].turn].chat = chat

\* A row of the panel says of its call what the call's own result said, also when it
\* came through the Responses protocol, which only has finished calls; but for a
\* tool that was called twice at once, whose calls are told apart by nothing.
RowsTellTheirResult ==
    \A k \in DOMAIN rows : rows[k].answer # NoCall =>
        LET script == turns[rows[k].turn].script
        IN  /\ script # Twins(rows[k].turn) => rows[k].call = rows[k].answer
            /\ ToolResult(rows[k].answer, rows[k].status = "ok") \in {script[j] : j \in DOMAIN script}

\* The page streams exactly while one send reads, and that send can be aborted
\* (useChat's streaming, abortRef).
OneSendAtATime ==
    /\ streaming <=> reading # {}
    /\ reading # {} => reading = {abortRef}

\* A message never just vanishes: when its send ends, the reply was complete, or the
\* message is back in the composer and the traveller is told (or has left the chat).
\* The exception is an agent that throws behind Foundry: its stream ends like a
\* complete one (app.ts:157-164, foundry-agent-proxy.ts:190-208).
NoSilentLoss ==
    [][\A t \in reading \ reading' :
          \/ messages[Len(messages)].done /\ t \notin failed
          \/ turns[t].cutShort
          \/ draft' = turns[t].text /\ (error' \/ chat' # chat)]_vars

\* The conversation a turn was posted to, and the one its trace is tagged with.
ConversationsOf(t) == {turns[t].via, turns[t].tag} \ {None, Stateless}

\* A session has one conversation on Foundry, which all its turns are posted to and
\* all their traces are tagged with, unless two of its turns were creating one at
\* the same time (ensureConversation, foundry-agent-proxy.ts:44-58; app.ts:84-99).
OneConversation ==
    \A j, k \in DOMAIN turns :
        turns[j].chat = turns[k].chat =>
            \/ \A c \in ConversationsOf(j), d \in ConversationsOf(k) : c = d
            \/ turns[j].chat \in stray.raced

\* The hosted agent is told of every turn that was answered before the message came;
\* a turn that was sent without a conversation, or to the other one of two, is
\* missing from the conversation later turns are sent to.
SeesTheConversation ==
    \A t \in DOMAIN turns : Posted(t) =>
        \/ turns[t].known \subseteq turns[t].seen
        \/ turns[t].via # Stateless /\ turns[t].chat \in stray.raced \cup stray.refused

\* A local turn settles, whatever the agent does: no message streams for ever.
LocalTurnsSettle ==
    \A t \in 1 .. LocalTurns : (route = "local" /\ t \in reading) ~> t \notin reading
==============================================================================
