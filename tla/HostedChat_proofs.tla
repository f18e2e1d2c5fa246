-------------------------- MODULE HostedChat_proofs --------------------------
(***************************************************************************)
(* Proofs about HostedChat for any texts and any number of turns.          *)
(*                                                                         *)
(* The page: while a send reads, its abort handle is the one the page      *)
(* holds, and every end of a send releases both.                           *)
(*                                                                         *)
(* The conversations: whatever a turn was tagged with or posted to is what *)
(* the session's entry says, or was when a second creation replaced it,    *)
(* which is what `raced` remembers; and a turn can only be stateless where *)
(* a creation was refused.                                                 *)
(*                                                                         *)
(* The thread: the bubbles of a chat are its turns in order, one bubble    *)
(* at most is still to be filled, and it is the last.  What a bubble says  *)
(* and what is left of its stream are together the stream, which Follows   *)
(* the turn's script whatever way it came (ChatEvents_proofs); so a bubble *)
(* is a beginning of its reply, and a row is closed by its own call.       *)
(***************************************************************************)
EXTENDS ChatEvents_proofs

\* The inductive invariant behind OneSendAtATime.
SendInv ==
    /\ streaming = (reading # {})
    /\ IF reading = {} THEN abortRef = None ELSE abortRef # None /\ reading = {abortRef}

LEMMA SettledSend ==
    ASSUME SendInv, NEW t \in reading, NEW ok, Settle(t, ok) PROVE SendInv'
  BY DEF SendInv, Settle

LEMMA SendStep == SendInv /\ [Next]_vars => SendInv'
<1> SUFFICES ASSUME SendInv, [Next]_vars PROVE SendInv'
  OBVIOUS
<1> USE DEF page
<1>1. CASE UNCHANGED <<streaming, reading, abortRef>>
  BY <1>1 DEF SendInv
<1>2. CASE submit
  <2>1. Len(turns) + 1 \in Turns /\ Len(turns) + 1 # None
    BY <1>2, ChatAssumption DEF submit, Turns
  <2> QED  BY <1>2, <2>1 DEF submit, canSend, SendInv
<1>3. CASE reset
  <2>1. CASE abortRef # None
    BY <1>3, <2>1, SettledSend DEF reset, Abort, SendInv
  <2>2. CASE abortRef = None
    BY <1>3, <2>2 DEF reset, SendInv
  <2> QED  BY <2>1, <2>2
<1>4. ASSUME NEW t, LoseConnection(t) PROVE SendInv'
  BY <1>4, SettledSend DEF LoseConnection, Abort
<1>5. ASSUME NEW t, NeverArrives(t) PROVE SendInv'
  BY <1>1, <1>5, SettledSend DEF NeverArrives
<1>6. ASSUME NEW t, End(t) PROVE SendInv'
  BY <1>1, <1>6, SettledSend DEF End
<1>7. ASSUME NEW t,
             Arrive(t) \/ Deliver(t) \/ ensureConversation(t) \/ NoBearer(t)
               \/ Created(t) \/ NotCreated(t) \/ Post(t)
      PROVE  UNCHANGED <<streaming, reading, abortRef>>
  BY <1>7 DEF Arrive, Deliver, ensureConversation, NoBearer, Created, NotCreated, Post
<1>8. Compose \/ UNCHANGED vars => UNCHANGED <<streaming, reading, abortRef>>
  BY DEF Compose, vars
<1> QED
  BY <1>1, <1>2, <1>3, <1>4, <1>5, <1>6, <1>7, <1>8 DEF Next, Runs

\* However sends end, one at most reads, and the page can abort it.
THEOREM PageSendsOneAtATime == Spec => []OneSendAtATime
<1>1. Init => SendInv
  BY DEF Init, SendInv
<1>2. SendInv => OneSendAtATime
  BY DEF SendInv, OneSendAtATime
<1> QED
  BY <1>1, <1>2, SendStep, PTL DEF Spec

------------------------------------------------------------------------------

\* The turns are a sequence of records.
TurnShape(r) ==
    r = [phase |-> r.phase, chat |-> r.chat, text |-> r.text, script |-> r.script,
         stream |-> r.stream, cutShort |-> r.cutShort, known |-> r.known, seen |-> r.seen,
         tag |-> r.tag, via |-> r.via]

TurnsShape ==
    /\ \E S : turns \in Seq(S)
    /\ \A t \in DOMAIN turns : TurnShape(turns[t])

\* A turn whose conversation is not settled yet.
Early == {"posted", "ensure", "create", "ensureAgain", "createAgain"}

LEMMA TurnChanges ==
    ASSUME TurnsShape, NEW t \in DOMAIN turns, NEW r, TurnShape(r),
           turns' = [turns EXCEPT ![t] = r]
    PROVE  /\ TurnsShape'
           /\ DOMAIN turns' = DOMAIN turns /\ Len(turns') = Len(turns)
           /\ \A k \in DOMAIN turns : turns'[k] = IF k = t THEN r ELSE turns[k]
<1>1. PICK S : turns \in Seq(S)
  BY DEF TurnsShape
<1>2. turns \in Seq(S \cup {r})
  BY <1>1
<1>3. turns' \in Seq(S \cup {r})
  BY <1>2
<1>4. DOMAIN turns' = DOMAIN turns /\ Len(turns') = Len(turns)
  BY <1>2
<1>5. \A k \in DOMAIN turns : turns'[k] = IF k = t THEN r ELSE turns[k]
  OBVIOUS
<1>6. \A k \in DOMAIN turns' : TurnShape(turns'[k])
  BY <1>4, <1>5 DEF TurnsShape
<1>7. \A k \in DOMAIN turns' : TurnShape(turns[k])'
  BY <1>6 DEF TurnShape
<1> QED
  BY <1>3, <1>4, <1>5, <1>7 DEF TurnsShape

LEMMA TurnAppended ==
    ASSUME TurnsShape, NEW r, TurnShape(r), turns' = Append(turns, r)
    PROVE  /\ TurnsShape'
           /\ DOMAIN turns' = DOMAIN turns \cup {Len(turns) + 1}
           /\ Len(turns) + 1 \notin DOMAIN turns
           /\ turns'[Len(turns) + 1] = r
           /\ \A k \in DOMAIN turns : turns'[k] = turns[k]
<1>1. PICK S : turns \in Seq(S)
  BY DEF TurnsShape
<1>2. turns \in Seq(S \cup {r})
  BY <1>1
<1>3. turns' \in Seq(S \cup {r})
  BY <1>2
<1>4. /\ DOMAIN turns' = DOMAIN turns \cup {Len(turns) + 1}
      /\ Len(turns) + 1 \notin DOMAIN turns
      /\ turns'[Len(turns) + 1] = r
      /\ \A k \in DOMAIN turns : turns'[k] = turns[k]
  BY <1>2
<1>5. \A k \in DOMAIN turns' : TurnShape(turns'[k])
  BY <1>4 DEF TurnsShape
<1>6. \A k \in DOMAIN turns' : TurnShape(turns[k])'
  BY <1>5 DEF TurnShape
<1> QED
  BY <1>3, <1>4, <1>6 DEF TurnsShape

\* What a step does to the turns that were there: most leave alone what a turn is
\* tagged with and posted to, what it knew and what it saw.
Rests(k) ==
    /\ turns'[k].chat = turns[k].chat
    /\ turns'[k].tag = turns[k].tag /\ turns'[k].via = turns[k].via
    /\ turns'[k].known = turns[k].known /\ turns'[k].seen = turns[k].seen
    /\ turns[k].phase = "over" => turns'[k].phase = "over"
    /\ turns[k].phase \in {"streaming", "over"} => turns'[k].phase \in {"streaming", "over"}
    /\ turns'[k].phase \in {"streaming", "over"} => turns[k].phase \in {"streaming", "over"} \cup Early
    /\ turns'[k].phase \in Early => turns[k].phase \in Early

Elsewhere(t) == \A k \in DOMAIN turns \ {t} : turns'[k] = turns[k]

\* One turn moves, and keeps its chat and its message.
Becomes(t, phase, script, stream, cutShort) ==
    /\ DOMAIN turns' = DOMAIN turns /\ Len(turns') = Len(turns) /\ Elsewhere(t)
    /\ turns'[t].phase = phase /\ turns'[t].script = script /\ turns'[t].stream = stream
    /\ turns'[t].cutShort = cutShort
    /\ turns'[t].chat = turns[t].chat /\ turns'[t].text = turns[t].text

RestStep ==
    /\ DOMAIN turns' = DOMAIN turns
    /\ \A k \in DOMAIN turns : Rests(k)
    /\ UNCHANGED <<conversationBySession, stray>>

SendsStep ==
    \E n : /\ n \notin DOMAIN turns /\ DOMAIN turns' = DOMAIN turns \cup {n}
           /\ turns'[n].tag = None /\ turns'[n].via = None
           /\ turns'[n].known = {} /\ turns'[n].phase = "posted"
           /\ \A k \in DOMAIN turns : turns'[k] = turns[k]
           /\ UNCHANGED <<conversationBySession, stray>>

\* The API hears of a turn.
HeardStep(t) ==
    /\ DOMAIN turns' = DOMAIN turns /\ Elsewhere(t)
    /\ turns[t].phase = "posted" /\ turns'[t].phase = "ensure"
    /\ turns'[t].known = Answered(turns[t].chat)
    /\ turns'[t].chat = turns[t].chat
    /\ turns'[t].tag = turns[t].tag /\ turns'[t].via = turns[t].via
    /\ UNCHANGED <<conversationBySession, stray>>

\* A turn learns its tag or what it is posted to.
LearnsStep(t, c) ==
    /\ DOMAIN turns' = DOMAIN turns /\ Elsewhere(t)
    /\ turns[t].phase \in Early
    /\ turns'[t].chat = turns[t].chat /\ turns'[t].known = turns[t].known
    /\ \/ turns'[t].tag = c /\ turns'[t].via = turns[t].via /\ turns'[t].phase \in Early
       \/ turns'[t].tag = turns[t].tag /\ turns'[t].via = c /\ turns'[t].phase = "post"

\* The turn is posted.
PostsStep(t) ==
    /\ DOMAIN turns' = DOMAIN turns /\ Elsewhere(t)
    /\ turns[t].phase = "post" /\ turns'[t].phase = "streaming"
    /\ turns'[t].chat = turns[t].chat /\ turns'[t].known = turns[t].known
    /\ turns'[t].tag = turns[t].tag /\ turns'[t].via = turns[t].via
    /\ turns'[t].seen = {k \in Context(t) : turns[k].chat = turns[t].chat}
    /\ UNCHANGED <<conversationBySession, stray>>

LEMMA RestChange ==
    ASSUME TurnsShape, NEW t \in DOMAIN turns, NEW r, TurnShape(r),
           r.chat = turns[t].chat, r.text = turns[t].text,
           r.tag = turns[t].tag, r.via = turns[t].via,
           r.known = turns[t].known, r.seen = turns[t].seen,
           \/ r.phase = turns[t].phase
           \/ turns[t].phase \in Early /\ r.phase \in Early \cup {"streaming", "over"}
           \/ turns[t].phase = "streaming" /\ r.phase = "over",
           turns' = [turns EXCEPT ![t] = r],
           UNCHANGED <<conversationBySession, stray>>
    PROVE  TurnsShape' /\ RestStep /\ Becomes(t, r.phase, r.script, r.stream, r.cutShort)
<1>1. /\ TurnsShape' /\ DOMAIN turns' = DOMAIN turns /\ Len(turns') = Len(turns)
      /\ \A k \in DOMAIN turns : turns'[k] = IF k = t THEN r ELSE turns[k]
  BY TurnChanges
<1>2. \A k \in DOMAIN turns : Rests(k)
  <2> SUFFICES ASSUME NEW k \in DOMAIN turns PROVE Rests(k)
    OBVIOUS
  <2>1. CASE k = t
    BY <1>1, <2>1 DEF Rests, Early
  <2>2. CASE k # t
    BY <1>1, <2>2 DEF Rests
  <2> QED  BY <2>1, <2>2
<1>3. Becomes(t, r.phase, r.script, r.stream, r.cutShort)
  BY <1>1 DEF Becomes, Elsewhere
<1> QED
  BY <1>1, <1>2, <1>3 DEF RestStep

LEMMA NothingChanges ==
    ASSUME TurnsShape, UNCHANGED <<turns, conversationBySession, stray>>
    PROVE  TurnsShape' /\ RestStep
  BY DEF TurnsShape, TurnShape, RestStep, Rests

LEMMA StreamMoves ==
    ASSUME TurnsShape, NEW t, NEW stream, turns' = [turns EXCEPT ![t].stream = stream],
           UNCHANGED <<conversationBySession, stray>>
    PROVE  /\ TurnsShape' /\ RestStep
           /\ t \in DOMAIN turns =>
                 Becomes(t, turns[t].phase, turns[t].script, stream, turns[t].cutShort)
<1>1. CASE t \in DOMAIN turns
  <2> DEFINE r == [turns[t] EXCEPT !.stream = stream]
  <2>1. TurnShape(turns[t])
    BY <1>1 DEF TurnsShape
  <2>2. /\ TurnShape(r) /\ r.chat = turns[t].chat /\ r.tag = turns[t].tag
        /\ r.via = turns[t].via /\ r.known = turns[t].known /\ r.seen = turns[t].seen
        /\ r.phase = turns[t].phase /\ r.text = turns[t].text /\ r.script = turns[t].script
        /\ r.stream = stream /\ r.cutShort = turns[t].cutShort
    BY <2>1 DEF TurnShape
  <2>3. turns' = [turns EXCEPT ![t] = r]
    OBVIOUS
  <2> HIDE DEF r
  <2> QED  BY <1>1, <2>2, <2>3, RestChange
<1>2. CASE t \notin DOMAIN turns
  <2>1. turns' = turns
    BY <1>2 DEF TurnsShape
  <2> QED  BY <1>2, <2>1, NothingChanges
<1> QED
  BY <1>1, <1>2

\* Fields of a record of this shape that are replaced leave the others alone.
LEMMA PhaseReplaced ==
    ASSUME NEW x, TurnShape(x), NEW v
    PROVE  [x EXCEPT !.phase = v] =
              [phase |-> v, chat |-> x.chat, text |-> x.text, script |-> x.script,
               stream |-> x.stream, cutShort |-> x.cutShort, known |-> x.known,
               seen |-> x.seen, tag |-> x.tag, via |-> x.via]
  BY DEF TurnShape

LEMMA ScriptReplaced ==
    ASSUME NEW x, TurnShape(x), NEW v
    PROVE  [x EXCEPT !.script = v] =
              [phase |-> x.phase, chat |-> x.chat, text |-> x.text, script |-> v,
               stream |-> x.stream, cutShort |-> x.cutShort, known |-> x.known,
               seen |-> x.seen, tag |-> x.tag, via |-> x.via]
  BY DEF TurnShape

LEMMA StreamReplaced ==
    ASSUME NEW x, TurnShape(x), NEW v
    PROVE  [x EXCEPT !.stream = v] =
              [phase |-> x.phase, chat |-> x.chat, text |-> x.text, script |-> x.script,
               stream |-> v, cutShort |-> x.cutShort, known |-> x.known,
               seen |-> x.seen, tag |-> x.tag, via |-> x.via]
  BY DEF TurnShape

LEMMA CutReplaced ==
    ASSUME NEW x, TurnShape(x), NEW v
    PROVE  [x EXCEPT !.cutShort = v] =
              [phase |-> x.phase, chat |-> x.chat, text |-> x.text, script |-> x.script,
               stream |-> x.stream, cutShort |-> v, known |-> x.known,
               seen |-> x.seen, tag |-> x.tag, via |-> x.via]
  BY DEF TurnShape

LEMMA KnownReplaced ==
    ASSUME NEW x, TurnShape(x), NEW v
    PROVE  [x EXCEPT !.known = v] =
              [phase |-> x.phase, chat |-> x.chat, text |-> x.text, script |-> x.script,
               stream |-> x.stream, cutShort |-> x.cutShort, known |-> v,
               seen |-> x.seen, tag |-> x.tag, via |-> x.via]
  BY DEF TurnShape

LEMMA SeenReplaced ==
    ASSUME NEW x, TurnShape(x), NEW v
    PROVE  [x EXCEPT !.seen = v] =
              [phase |-> x.phase, chat |-> x.chat, text |-> x.text, script |-> x.script,
               stream |-> x.stream, cutShort |-> x.cutShort, known |-> x.known,
               seen |-> v, tag |-> x.tag, via |-> x.via]
  BY DEF TurnShape

LEMMA TagReplaced ==
    ASSUME NEW x, TurnShape(x), NEW v
    PROVE  [x EXCEPT !.tag = v] =
              [phase |-> x.phase, chat |-> x.chat, text |-> x.text, script |-> x.script,
               stream |-> x.stream, cutShort |-> x.cutShort, known |-> x.known,
               seen |-> x.seen, tag |-> v, via |-> x.via]
  BY DEF TurnShape

LEMMA ViaReplaced ==
    ASSUME NEW x, TurnShape(x), NEW v
    PROVE  [x EXCEPT !.via = v] =
              [phase |-> x.phase, chat |-> x.chat, text |-> x.text, script |-> x.script,
               stream |-> x.stream, cutShort |-> x.cutShort, known |-> x.known,
               seen |-> x.seen, tag |-> x.tag, via |-> v]
  BY DEF TurnShape

\* A turn moves on, or its stream does.
LEMMA TurnMoves ==
    ASSUME TurnsShape, NEW t \in DOMAIN turns, NEW phase, NEW script, NEW stream,
           \/ phase = turns[t].phase
           \/ turns[t].phase \in Early /\ phase \in Early \cup {"streaming", "over"}
           \/ turns[t].phase = "streaming" /\ phase = "over",
           turns' = [turns EXCEPT ![t].phase = phase, ![t].script = script, ![t].stream = stream],
           UNCHANGED <<conversationBySession, stray>>
    PROVE  /\ TurnsShape' /\ RestStep
           /\ Becomes(t, phase, script, stream, turns[t].cutShort)
<1> DEFINE r == [turns[t] EXCEPT !.phase = phase, !.script = script, !.stream = stream]
<1>1. TurnShape(turns[t])
  BY DEF TurnsShape
<1>2. r = [phase |-> phase, chat |-> turns[t].chat, text |-> turns[t].text, script |-> script,
           stream |-> stream, cutShort |-> turns[t].cutShort, known |-> turns[t].known,
           seen |-> turns[t].seen, tag |-> turns[t].tag, via |-> turns[t].via]
  <2> DEFINE a == [turns[t] EXCEPT !.phase = phase]
             b == [a EXCEPT !.script = script]
  <2>1. TurnShape(a) /\ a.phase = phase /\ a.chat = turns[t].chat /\ a.text = turns[t].text
        /\ a.cutShort = turns[t].cutShort /\ a.known = turns[t].known
        /\ a.seen = turns[t].seen /\ a.tag = turns[t].tag /\ a.via = turns[t].via
    BY <1>1, PhaseReplaced DEF TurnShape
  <2> HIDE DEF a
  <2>2. TurnShape(b) /\ b.phase = a.phase /\ b.chat = a.chat /\ b.text = a.text
        /\ b.cutShort = a.cutShort /\ b.known = a.known
        /\ b.seen = a.seen /\ b.tag = a.tag /\ b.via = a.via /\ b.script = script
    BY <2>1, ScriptReplaced DEF TurnShape
  <2> HIDE DEF b
  <2>3. [b EXCEPT !.stream = stream] =
          [phase |-> b.phase, chat |-> b.chat, text |-> b.text, script |-> b.script,
           stream |-> stream, cutShort |-> b.cutShort, known |-> b.known,
           seen |-> b.seen, tag |-> b.tag, via |-> b.via]
    BY <2>2, StreamReplaced
  <2>4. r = [b EXCEPT !.stream = stream]
    BY DEF a, b
  <2> HIDE DEF r
  <2> QED  BY <2>1, <2>2, <2>3, <2>4
<1>3. /\ r.chat = turns[t].chat /\ r.tag = turns[t].tag /\ r.via = turns[t].via
      /\ r.known = turns[t].known /\ r.seen = turns[t].seen /\ r.phase = phase
      /\ r.text = turns[t].text /\ r.script = script /\ r.stream = stream
      /\ r.cutShort = turns[t].cutShort
  BY <1>2
<1>4. TurnShape(r)
  BY <1>2, <1>3 DEF TurnShape
<1>5. turns' = [turns EXCEPT ![t] = r]
  OBVIOUS
<1> HIDE DEF r
<1> QED
  BY <1>3, <1>4, <1>5, RestChange

LEMMA PhaseMoves ==
    ASSUME TurnsShape, NEW t \in DOMAIN turns, NEW phase, To(t, phase),
           \/ turns[t].phase \in Early /\ phase \in Early \cup {"streaming", "over"}
           \/ turns[t].phase = "streaming" /\ phase = "over",
           UNCHANGED <<conversationBySession, stray>>
    PROVE  /\ TurnsShape' /\ RestStep
           /\ Becomes(t, phase, turns[t].script, turns[t].stream, turns[t].cutShort)
<1> DEFINE r == [turns[t] EXCEPT !.phase = phase]
<1>1. TurnShape(turns[t])
  BY DEF TurnsShape
<1>2. /\ TurnShape(r) /\ r.chat = turns[t].chat /\ r.tag = turns[t].tag
      /\ r.via = turns[t].via /\ r.known = turns[t].known /\ r.seen = turns[t].seen
      /\ r.phase = phase /\ r.text = turns[t].text /\ r.script = turns[t].script
      /\ r.stream = turns[t].stream /\ r.cutShort = turns[t].cutShort
  BY <1>1 DEF TurnShape
<1>3. turns' = [turns EXCEPT ![t] = r]
  BY DEF To
<1> HIDE DEF r
<1> QED
  BY <1>2, <1>3, RestChange

LEMMA SubmitSends == ASSUME TurnsShape, submit PROVE TurnsShape' /\ SendsStep
<1> DEFINE r == [phase |-> "posted", chat |-> chat, text |-> draft, script |-> <<>>, stream |-> <<>>,
                 cutShort |-> FALSE, known |-> {}, seen |-> {}, tag |-> None, via |-> None]
<1>1. turns' = Append(turns, r) /\ UNCHANGED <<conversationBySession, stray>>
  BY DEF submit
<1>2. /\ TurnShape(r) /\ r.tag = None /\ r.via = None /\ r.known = {} /\ r.phase = "posted"
  BY DEF TurnShape
<1> HIDE DEF r
<1> QED
  BY <1>1, <1>2, TurnAppended DEF SendsStep

LEMMA TurnEnds ==
    ASSUME TurnsShape, NEW t \in DOMAIN turns, End(t)
    PROVE  /\ TurnsShape' /\ RestStep
           /\ Becomes(t, "over", turns[t].script, <<>>, turns[t].cutShort)
<1> DEFINE a == [turns[t] EXCEPT !.phase = "over"]
           r == [a EXCEPT !.stream = <<>>]
<1>1. TurnShape(turns[t])
  BY DEF TurnsShape
<1>2. /\ TurnShape(a) /\ a.chat = turns[t].chat /\ a.tag = turns[t].tag /\ a.via = turns[t].via
      /\ a.known = turns[t].known /\ a.seen = turns[t].seen /\ a.phase = "over"
      /\ a.text = turns[t].text /\ a.script = turns[t].script /\ a.cutShort = turns[t].cutShort
  BY <1>1, PhaseReplaced DEF TurnShape
<1>3. turns' = [turns EXCEPT ![t] = r]
  BY DEF End
<1> HIDE DEF a
<1>4. /\ TurnShape(r) /\ r.chat = a.chat /\ r.tag = a.tag /\ r.via = a.via
      /\ r.known = a.known /\ r.seen = a.seen /\ r.phase = a.phase
      /\ r.text = a.text /\ r.script = a.script /\ r.stream = <<>> /\ r.cutShort = a.cutShort
  BY <1>2, StreamReplaced DEF TurnShape
<1> HIDE DEF r
<1>5. TurnsShape' /\ RestStep /\ Becomes(t, r.phase, r.script, r.stream, r.cutShort)
  BY <1>2, <1>3, <1>4, RestChange DEF End, Phase
<1> QED
  BY <1>2, <1>4, <1>5

LEMMA TurnIsHeard ==
    ASSUME TurnsShape, NEW t \in DOMAIN turns, turns[t].phase = "posted",
           turns' = [turns EXCEPT ![t].phase = "ensure", ![t].known = Answered(turns[t].chat)],
           UNCHANGED <<conversationBySession, stray>>
    PROVE  /\ TurnsShape' /\ HeardStep(t)
           /\ Becomes(t, "ensure", turns[t].script, turns[t].stream, turns[t].cutShort)
<1> DEFINE a == [turns[t] EXCEPT !.phase = "ensure"]
           r == [a EXCEPT !.known = Answered(turns[t].chat)]
<1>1. TurnShape(turns[t])
  BY DEF TurnsShape
<1>2. /\ TurnShape(a) /\ a.chat = turns[t].chat /\ a.tag = turns[t].tag /\ a.via = turns[t].via
      /\ a.phase = "ensure"
      /\ a.text = turns[t].text /\ a.script = turns[t].script /\ a.stream = turns[t].stream
      /\ a.cutShort = turns[t].cutShort
  BY <1>1, PhaseReplaced DEF TurnShape
<1>3. turns' = [turns EXCEPT ![t] = r]
  OBVIOUS
<1> HIDE DEF a
<1>4. /\ TurnShape(r) /\ r.chat = a.chat /\ r.tag = a.tag /\ r.via = a.via
      /\ r.known = Answered(turns[t].chat) /\ r.phase = a.phase
      /\ r.text = a.text /\ r.script = a.script /\ r.stream = a.stream /\ r.cutShort = a.cutShort
  BY <1>2, KnownReplaced DEF TurnShape
<1> HIDE DEF r
<1> QED
  BY <1>2, <1>3, <1>4, TurnChanges DEF HeardStep, Elsewhere, Becomes

LEMMA TurnLearns ==
    ASSUME TurnsShape, NEW t \in DOMAIN turns, NEW c, Phase(t) \in Ensuring \cup Creating, Known(t, c)
    PROVE  /\ TurnsShape' /\ LearnsStep(t, c)
           /\ Phase(t) \in {"ensure", "create"} => turns'[t].via = turns[t].via
           /\ Becomes(t, After(Phase(t)), turns[t].script, turns[t].stream, turns[t].cutShort)
<1> DEFINE a == [turns[t] EXCEPT !.phase = After(Phase(t))]
           r == IF Phase(t) \in {"ensure", "create"} THEN [a EXCEPT !.tag = c] ELSE [a EXCEPT !.via = c]
<1>1. TurnShape(turns[t])
  BY DEF TurnsShape
<1>2. /\ TurnShape(a) /\ a.chat = turns[t].chat /\ a.tag = turns[t].tag /\ a.via = turns[t].via
      /\ a.known = turns[t].known /\ a.phase = After(Phase(t))
      /\ a.text = turns[t].text /\ a.script = turns[t].script /\ a.stream = turns[t].stream
      /\ a.cutShort = turns[t].cutShort
  BY <1>1, PhaseReplaced DEF TurnShape
<1>3. turns' = [turns EXCEPT ![t] = r]
  BY DEF Known, Phase
<1> HIDE DEF a
<1>4. CASE Phase(t) \in {"ensure", "create"}
  <2>1. /\ TurnShape(r) /\ r.chat = a.chat /\ r.tag = c /\ r.via = a.via
        /\ r.known = a.known /\ r.phase = a.phase
        /\ r.text = a.text /\ r.script = a.script /\ r.stream = a.stream /\ r.cutShort = a.cutShort
    BY <1>2, <1>4, TagReplaced DEF TurnShape
  <2>2. r.phase \in Early /\ turns[t].phase \in Early
    BY <1>2, <1>4, <2>1 DEF After, Early, Phase
  <2> HIDE DEF r
  <2> QED  BY <1>2, <1>3, <2>1, <2>2, TurnChanges DEF LearnsStep, Elsewhere, Becomes
<1>5. CASE Phase(t) \notin {"ensure", "create"}
  <2>1. /\ TurnShape(r) /\ r.chat = a.chat /\ r.tag = a.tag /\ r.via = c
        /\ r.known = a.known /\ r.phase = a.phase
        /\ r.text = a.text /\ r.script = a.script /\ r.stream = a.stream /\ r.cutShort = a.cutShort
    BY <1>2, <1>5, ViaReplaced DEF TurnShape
  <2>2. r.phase = "post" /\ turns[t].phase \in Early
    BY <1>2, <1>5, <2>1 DEF After, Early, Phase, Ensuring, Creating
  <2> HIDE DEF r
  <2> QED  BY <1>2, <1>3, <1>5, <2>1, <2>2, TurnChanges DEF LearnsStep, Elsewhere, Becomes
<1> QED
  BY <1>4, <1>5

LEMMA TurnIsPosted ==
    ASSUME TurnsShape, NEW t \in DOMAIN turns, turns[t].phase = "post",
           NEW s, NEW events, NEW cut, Streams(t, s, events, cut),
           UNCHANGED <<conversationBySession, stray>>
    PROVE  TurnsShape' /\ PostsStep(t) /\ Becomes(t, "streaming", s, events, cut)
<1> DEFINE seen == {k \in Context(t) : turns[k].chat = turns[t].chat}
           a == [turns[t] EXCEPT !.phase = "streaming"]
           b == [a EXCEPT !.script = s]
           d == [b EXCEPT !.stream = events]
           e == [d EXCEPT !.cutShort = cut]
           r == [e EXCEPT !.seen = seen]
<1>1. TurnShape(turns[t])
  BY DEF TurnsShape
<1>2. turns' = [turns EXCEPT ![t] = r]
  BY DEF Streams
<1> HIDE DEF seen
<1>3. /\ TurnShape(a) /\ a.chat = turns[t].chat /\ a.tag = turns[t].tag /\ a.via = turns[t].via
      /\ a.known = turns[t].known /\ a.phase = "streaming"
      /\ a.text = turns[t].text
  BY <1>1, PhaseReplaced DEF TurnShape
<1> HIDE DEF a
<1>4. /\ TurnShape(b) /\ b.chat = a.chat /\ b.tag = a.tag /\ b.via = a.via
      /\ b.known = a.known /\ b.phase = a.phase
      /\ b.text = a.text /\ b.script = s
  BY <1>3, ScriptReplaced DEF TurnShape
<1> HIDE DEF b
<1>5. /\ TurnShape(d) /\ d.chat = b.chat /\ d.tag = b.tag /\ d.via = b.via
      /\ d.known = b.known /\ d.phase = b.phase
      /\ d.text = b.text /\ d.script = b.script /\ d.stream = events
  BY <1>4, StreamReplaced DEF TurnShape
<1> HIDE DEF d
<1>6. /\ TurnShape(e) /\ e.chat = d.chat /\ e.tag = d.tag /\ e.via = d.via
      /\ e.known = d.known /\ e.phase = d.phase
      /\ e.text = d.text /\ e.script = d.script /\ e.stream = d.stream /\ e.cutShort = cut
  BY <1>5, CutReplaced DEF TurnShape
<1> HIDE DEF e
<1>7. /\ TurnShape(r) /\ r.chat = e.chat /\ r.tag = e.tag /\ r.via = e.via
      /\ r.known = e.known /\ r.phase = e.phase /\ r.seen = seen
      /\ r.text = e.text /\ r.script = e.script /\ r.stream = e.stream /\ r.cutShort = e.cutShort
  BY <1>6, SeenReplaced DEF TurnShape
<1> HIDE DEF r
<1>8. /\ TurnsShape' /\ DOMAIN turns' = DOMAIN turns /\ Len(turns') = Len(turns) /\ turns'[t] = r
      /\ \A k \in DOMAIN turns \ {t} : turns'[k] = turns[k]
  BY <1>2, <1>7, TurnChanges
<1>9. /\ turns'[t].phase = "streaming" /\ turns'[t].chat = turns[t].chat
      /\ turns'[t].known = turns[t].known
      /\ turns'[t].tag = turns[t].tag /\ turns'[t].via = turns[t].via
  BY <1>3, <1>4, <1>5, <1>6, <1>7, <1>8
<1>10. turns'[t].seen = {k \in Context(t) : turns[k].chat = turns[t].chat}
  BY <1>7, <1>8 DEF seen
<1>11. Becomes(t, "streaming", s, events, cut)
  BY <1>3, <1>4, <1>5, <1>6, <1>7, <1>8 DEF Becomes, Elsewhere
<1> QED
  BY <1>8, <1>9, <1>10, <1>11 DEF PostsStep, Elsewhere

\* How a turn learns of a conversation.
LookedUpStep(t) ==
    LET c == turns[t].chat
    IN  /\ HasConversation(c) /\ LearnsStep(t, conversationBySession[c])
        /\ UNCHANGED <<conversationBySession, stray>>

UnauthorisedStep(t) ==
    /\ LearnsStep(t, Stateless) /\ turns'[t].via = turns[t].via
    /\ UNCHANGED <<conversationBySession, stray>>

CreatedStep(t) ==
    LET c == turns[t].chat
    IN  \E id \in Nat \ {0} :
           /\ LearnsStep(t, id)
           /\ conversationBySession' = Recorded(c, id)
           /\ stray' = IF HasConversation(c) THEN [stray EXCEPT !.raced = @ \cup {c}] ELSE stray

RefusedStep(t) ==
    /\ LearnsStep(t, Stateless)
    /\ stray' = [stray EXCEPT !.refused = @ \cup {turns[t].chat}]
    /\ UNCHANGED conversationBySession

TurnStep(t) ==
    \/ HeardStep(t) \/ LookedUpStep(t) \/ UnauthorisedStep(t) \/ CreatedStep(t)
    \/ RefusedStep(t) \/ PostsStep(t)

LEMMA ArriveSteps ==
    ASSUME TurnsShape, NEW t \in DOMAIN turns, Arrive(t)
    PROVE  TurnsShape' /\ (RestStep \/ HeardStep(t))
<1>1. turns[t].phase = "posted" /\ UNCHANGED <<conversationBySession, stray>>
  BY DEF Arrive, Phase
<1>2. ASSUME NEW s, NEW p,
             turns' = [turns EXCEPT ![t].phase = "streaming", ![t].script = s, ![t].stream = p]
      PROVE  TurnsShape' /\ RestStep
  BY <1>1, <1>2, TurnMoves DEF Early
<1>3. ASSUME turns' = [turns EXCEPT ![t].phase = "ensure", ![t].known = Answered(turns[t].chat)]
      PROVE  TurnsShape' /\ HeardStep(t)
  BY <1>1, <1>3, TurnIsHeard
<1>4. CASE route # "foundry"
  <2>1. CASE \E s \in Scripts(t) :
               turns' = [turns EXCEPT ![t].phase = "streaming", ![t].script = s, ![t].stream = s]
    <3>1. PICK s : turns' = [turns EXCEPT ![t].phase = "streaming", ![t].script = s, ![t].stream = s]
      BY <2>1
    <3> QED  BY <3>1, <1>2
  <2>2. CASE \E p \in Broken(t) :
               turns' = [turns EXCEPT ![t].phase = "streaming", ![t].script = Answer(t),
                                      ![t].stream = p \o <<ErrorEvent>>]
    <3>1. PICK p : turns' = [turns EXCEPT ![t].phase = "streaming", ![t].script = Answer(t),
                                          ![t].stream = p \o <<ErrorEvent>>]
      BY <2>2
    <3> QED  BY <3>1, <1>2
  <2> QED  BY <1>4, <2>1, <2>2 DEF Arrive
<1>5. CASE route = "foundry"
  BY <1>3, <1>5 DEF Arrive
<1> QED
  BY <1>4, <1>5

LEMMA ConversationSteps ==
    ASSUME TurnsShape, NEW t \in DOMAIN turns,
           ensureConversation(t) \/ NoBearer(t) \/ Created(t) \/ NotCreated(t)
    PROVE  TurnsShape' /\ (RestStep \/ TurnStep(t))
<1>1. CASE ensureConversation(t)
  <2>1. CASE HasConversation(turns[t].chat) /\ Known(t, conversationBySession[turns[t].chat])
    <3>1. TurnsShape' /\ LearnsStep(t, conversationBySession[turns[t].chat])
      BY <1>1, <2>1, TurnLearns DEF ensureConversation
    <3> QED  BY <1>1, <2>1, <3>1 DEF ensureConversation, TurnStep, LookedUpStep
  <2>2. CASE To(t, IF Phase(t) = "ensure" THEN "create" ELSE "createAgain")
    BY <1>1, <2>2, PhaseMoves DEF ensureConversation, Ensuring, Phase, Early
  <2> QED  BY <1>1, <2>1, <2>2 DEF ensureConversation
<1>2. CASE NoBearer(t)
  <2>1. CASE Phase(t) = "ensure" /\ Known(t, Stateless)
    <3>1. TurnsShape' /\ LearnsStep(t, Stateless) /\ turns'[t].via = turns[t].via
      BY <2>1, TurnLearns DEF Ensuring
    <3> QED  BY <1>2, <3>1 DEF NoBearer, TurnStep, UnauthorisedStep
  <2>2. CASE /\ Phase(t) = "ensureAgain"
             /\ turns' = [turns EXCEPT ![t].phase = "streaming", ![t].script = <<ErrorEvent>>,
                                       ![t].stream = <<ErrorEvent>>]
    BY <1>2, <2>2, TurnMoves DEF NoBearer, Phase, Early
  <2> QED  BY <1>2, <2>1, <2>2 DEF NoBearer
<1>3. CASE Created(t)
  <2> DEFINE c == turns[t].chat
             id == 2 * t - (IF Phase(t) = "create" THEN 1 ELSE 0)
  <2>1. id \in Nat \ {0}
    <3>1. t \in Nat \ {0}
      BY DEF TurnsShape
    <3> QED  BY <3>1
  <2>2. /\ Phase(t) \in Creating /\ Known(t, id)
        /\ conversationBySession' = Recorded(c, id)
        /\ stray' = IF HasConversation(c) THEN [stray EXCEPT !.raced = @ \cup {c}] ELSE stray
    BY <1>3 DEF Created
  <2> HIDE DEF id
  <2>3. TurnsShape' /\ LearnsStep(t, id)
    BY <2>2, TurnLearns
  <2> QED  BY <2>1, <2>2, <2>3 DEF TurnStep, CreatedStep
<1>4. CASE NotCreated(t)
  <2>1. TurnsShape' /\ LearnsStep(t, Stateless)
    BY <1>4, TurnLearns DEF NotCreated
  <2> QED  BY <1>4, <2>1 DEF NotCreated, TurnStep, RefusedStep
<1> QED
  BY <1>1, <1>2, <1>3, <1>4

LEMMA NextSteps ==
    ASSUME TurnsShape, [Next]_vars
    PROVE  /\ TurnsShape'
           /\ RestStep \/ SendsStep \/ (\E t \in DOMAIN turns : TurnStep(t))
<1> USE DEF page
<1>1. CASE submit
  BY <1>1, SubmitSends
<1>2. CASE reset
  <2>1. UNCHANGED <<conversationBySession, stray>>
    BY <1>2 DEF reset
  <2>2. CASE abortRef # None
    BY <1>2, <2>1, <2>2, StreamMoves DEF reset, Abort
  <2>3. CASE abortRef = None
    BY <1>2, <2>1, <2>3, NothingChanges DEF reset
  <2> QED  BY <2>2, <2>3
<1>3. ASSUME NEW t \in DOMAIN turns, LoseConnection(t) PROVE TurnsShape' /\ RestStep
  BY <1>3, StreamMoves DEF LoseConnection, Abort
<1>4. ASSUME NEW t \in DOMAIN turns, NeverArrives(t) PROVE TurnsShape' /\ RestStep
  BY <1>4, PhaseMoves DEF NeverArrives, Phase, Early
<1>5. ASSUME NEW t \in DOMAIN turns, Deliver(t) PROVE TurnsShape' /\ RestStep
  <2>1. turns' = [turns EXCEPT ![t].stream = Tail(turns[t].stream)]
    BY <1>5 DEF Deliver
  <2> QED  BY <1>5, <2>1, StreamMoves DEF Deliver
<1>6. ASSUME NEW t \in DOMAIN turns, Post(t) PROVE TurnsShape' /\ PostsStep(t)
  <2>1. turns[t].phase = "post" /\ UNCHANGED <<conversationBySession, stray>>
    BY <1>6 DEF Post, Phase
  <2>2. PICK s, events, cut : Streams(t, s, events, cut)
    BY <1>6 DEF Post
  <2> QED  BY <2>1, <2>2, TurnIsPosted
<1>7. CASE Compose \/ UNCHANGED vars
  BY <1>7, NothingChanges DEF Compose, vars
<1> QED
  BY <1>1, <1>2, <1>3, <1>4, <1>5, <1>6, <1>7, ArriveSteps, ConversationSteps, TurnEnds
  DEF Next, Runs, TurnStep

------------------------------------------------------------------------------

\* What a turn was tagged with or posted to is the session's conversation, or that of
\* a session whose turns raced to create one.
Settled(k, c) ==
    c \notin {None, Stateless} =>
        /\ turns[k].chat \in DOMAIN conversationBySession
        /\ c = conversationBySession[turns[k].chat] \/ turns[k].chat \in stray.raced

ConversationInv ==
    /\ TurnsShape
    /\ stray = [raced |-> stray.raced, refused |-> stray.refused]
    /\ \A c \in DOMAIN conversationBySession : conversationBySession[c] \in Nat \ {0}
    /\ \A k \in DOMAIN turns :
          /\ Settled(k, turns[k].tag) /\ Settled(k, turns[k].via)
          /\ turns[k].phase \in Early => turns[k].via = None
          /\ turns[k].via = Stateless => turns[k].chat \in stray.refused

LEMMA ConversationInit == Init => ConversationInv
<1> SUFFICES ASSUME Init PROVE ConversationInv
  OBVIOUS
<1>1. turns = <<>> /\ DOMAIN conversationBySession = {}
  BY DEF Init
<1>2. turns \in Seq({})
  BY <1>1
<1>3. DOMAIN turns = {}
  BY <1>1
<1> QED
  BY <1>1, <1>2, <1>3 DEF Init, ConversationInv, TurnsShape

\* What is said of one turn.
TurnInv(k) ==
    /\ Settled(k, turns[k].tag) /\ Settled(k, turns[k].via)
    /\ turns[k].phase \in Early => turns[k].via = None
    /\ turns[k].via = Stateless => turns[k].chat \in stray.refused

Records ==
    /\ stray = [raced |-> stray.raced, refused |-> stray.refused]
    /\ \A c \in DOMAIN conversationBySession : conversationBySession[c] \in Nat \ {0}

LEMMA ConversationParts ==
    ConversationInv <=> TurnsShape /\ Records /\ \A k \in DOMAIN turns : TurnInv(k)
  BY DEF ConversationInv, Records, TurnInv

LEMMA RestKeepsInv ==
    ASSUME ConversationInv, RestStep PROVE Records' /\ \A k \in DOMAIN turns' : TurnInv(k)'
<1>1. Records'
  BY ConversationParts DEF Records, RestStep
<1>2. ASSUME NEW k \in DOMAIN turns' PROVE TurnInv(k)'
  <2>1. k \in DOMAIN turns /\ Rests(k) /\ UNCHANGED <<conversationBySession, stray>>
    BY <1>2 DEF RestStep
  <2>2. TurnInv(k)
    BY <2>1, ConversationParts
  <2> QED  BY <2>1, <2>2 DEF TurnInv, Settled, Rests
<1> QED
  BY <1>1, <1>2

LEMMA SendKeepsInv ==
    ASSUME ConversationInv, SendsStep PROVE Records' /\ \A k \in DOMAIN turns' : TurnInv(k)'
<1>1. Records'
  BY ConversationParts DEF Records, SendsStep
<1>2. PICK n : /\ n \notin DOMAIN turns /\ DOMAIN turns' = DOMAIN turns \cup {n}
               /\ turns'[n].tag = None /\ turns'[n].via = None
               /\ turns'[n].known = {} /\ turns'[n].phase = "posted"
               /\ \A k \in DOMAIN turns : turns'[k] = turns[k]
               /\ UNCHANGED <<conversationBySession, stray>>
  BY DEF SendsStep
<1>3. ASSUME NEW k \in DOMAIN turns' PROVE TurnInv(k)'
  <2>1. CASE k = n
    BY <1>2, <2>1, ChatAssumption DEF TurnInv, Settled, Stateless
  <2>2. CASE k # n
    <3>1. k \in DOMAIN turns /\ TurnInv(k)
      BY <1>2, <1>3, <2>2, ConversationParts
    <3> QED  BY <1>2, <3>1 DEF TurnInv, Settled
  <2> QED  BY <2>1, <2>2
<1> QED
  BY <1>1, <1>3

\* Of a turn that an action leaves alone nothing is lost when conversations and
\* histories only grow.
LEMMA OtherTurnKept ==
    ASSUME NEW k, TurnInv(k), turns'[k] = turns[k],
           DOMAIN conversationBySession \subseteq DOMAIN conversationBySession',
           turns[k].chat \in DOMAIN conversationBySession =>
               \/ conversationBySession'[turns[k].chat] = conversationBySession[turns[k].chat]
               \/ turns[k].chat \in stray'.raced,
           stray.raced \subseteq stray'.raced, stray.refused \subseteq stray'.refused
    PROVE  TurnInv(k)'
  BY DEF TurnInv, Settled

\* A turn that learns something right.
LEMMA LearnerKept ==
    ASSUME NEW t, NEW c, TurnInv(t), LearnsStep(t, c),
           DOMAIN conversationBySession \subseteq DOMAIN conversationBySession',
           turns[t].chat \in DOMAIN conversationBySession =>
               \/ conversationBySession'[turns[t].chat] = conversationBySession[turns[t].chat]
               \/ turns[t].chat \in stray'.raced,
           stray.raced \subseteq stray'.raced, stray.refused \subseteq stray'.refused,
           c # None, Settled(t, c)',
           turns'[t].via = Stateless => turns[t].chat \in stray'.refused
    PROVE  TurnInv(t)'
  BY DEF TurnInv, Settled, LearnsStep, Early

LEMMA TurnStepKeepsInv ==
    ASSUME ConversationInv, NEW t \in DOMAIN turns, TurnStep(t)
    PROVE  Records' /\ \A k \in DOMAIN turns' : TurnInv(k)'
<1>1. TurnInv(t) /\ Records /\ \A k \in DOMAIN turns : TurnInv(k)
  BY ConversationParts
<1> DEFINE c == turns[t].chat
<1>2. CASE HeardStep(t)
  <2>1. Records'
    BY <1>1, <1>2 DEF Records, HeardStep
  <2>2. TurnInv(t)'
    BY <1>1, <1>2 DEF TurnInv, Settled, HeardStep, Early
  <2>3. ASSUME NEW k \in DOMAIN turns', k # t PROVE TurnInv(k)'
    BY <1>1, <1>2, <2>3 DEF HeardStep, Elsewhere, TurnInv, Settled
  <2> QED  BY <2>1, <2>2, <2>3
<1>3. CASE PostsStep(t)
  <2>1. Records'
    BY <1>1, <1>3 DEF Records, PostsStep
  <2>2. TurnInv(t)'
    BY <1>1, <1>3 DEF TurnInv, Settled, PostsStep, Early
  <2>3. ASSUME NEW k \in DOMAIN turns', k # t PROVE TurnInv(k)'
    BY <1>1, <1>3, <2>3 DEF PostsStep, Elsewhere, TurnInv, Settled
  <2> QED  BY <2>1, <2>2, <2>3
<1>4. CASE LookedUpStep(t)
  <2>1. /\ LearnsStep(t, conversationBySession[c]) /\ c \in DOMAIN conversationBySession
        /\ UNCHANGED <<conversationBySession, stray>>
    BY <1>4 DEF LookedUpStep, HasConversation
  <2>2. conversationBySession[c] \in Nat \ {0}
    BY <1>1, <2>1 DEF Records
  <2>3. conversationBySession[c] # None /\ conversationBySession[c] # Stateless
    BY <2>2, ChatAssumption DEF Stateless
  <2>4. turns'[t].chat = c /\ Settled(t, conversationBySession[c])'
    BY <2>1 DEF LearnsStep, Settled
  <2>5. turns'[t].via = Stateless => c \in stray'.refused
    BY <1>1, <2>1, <2>3 DEF LearnsStep, TurnInv
  <2>6. TurnInv(t)'
    BY <1>1, <2>1, <2>3, <2>4, <2>5, LearnerKept
  <2>7. ASSUME NEW k \in DOMAIN turns', k # t PROVE TurnInv(k)'
    BY <1>1, <2>1, <2>7, OtherTurnKept DEF LearnsStep, Elsewhere
  <2>8. Records'
    BY <1>1, <2>1 DEF Records
  <2> QED  BY <2>6, <2>7, <2>8
<1>5. CASE UnauthorisedStep(t)
  <2>1. /\ LearnsStep(t, Stateless) /\ turns'[t].via = turns[t].via
        /\ UNCHANGED <<conversationBySession, stray>>
    BY <1>5 DEF UnauthorisedStep
  <2>2. Stateless # None /\ Settled(t, Stateless)'
    BY ChatAssumption DEF Stateless, Settled
  <2>3. turns'[t].via = Stateless => c \in stray'.refused
    BY <1>1, <2>1 DEF TurnInv
  <2>4. TurnInv(t)'
    BY <1>1, <2>1, <2>2, <2>3, LearnerKept
  <2>5. ASSUME NEW k \in DOMAIN turns', k # t PROVE TurnInv(k)'
    BY <1>1, <2>1, <2>5, OtherTurnKept DEF LearnsStep, Elsewhere
  <2>6. Records'
    BY <1>1, <2>1 DEF Records
  <2> QED  BY <2>4, <2>5, <2>6
<1>6. CASE CreatedStep(t)
  <2>1. PICK id \in Nat \ {0} :
           /\ LearnsStep(t, id)
           /\ conversationBySession' = Recorded(c, id)
           /\ stray' = IF HasConversation(c) THEN [stray EXCEPT !.raced = @ \cup {c}] ELSE stray
    BY <1>6 DEF CreatedStep
  <2>2. id # None /\ id # Stateless
    BY ChatAssumption DEF Stateless
  <2>3. /\ DOMAIN conversationBySession' = DOMAIN conversationBySession \cup {c}
        /\ conversationBySession'[c] = id
        /\ \A x \in DOMAIN conversationBySession \ {c} :
              conversationBySession'[x] = conversationBySession[x]
    BY <2>1 DEF Recorded
  <2>4. /\ stray.raced \subseteq stray'.raced /\ stray'.refused = stray.refused
        /\ c \in DOMAIN conversationBySession => c \in stray'.raced
        /\ stray' = [raced |-> stray'.raced, refused |-> stray'.refused]
    <3>1. stray = [raced |-> stray.raced, refused |-> stray.refused]
      BY <1>1 DEF Records
    <3>2. CASE HasConversation(c)
      BY <2>1, <3>1, <3>2
    <3>3. CASE ~HasConversation(c)
      BY <2>1, <3>1, <3>3 DEF HasConversation
    <3> QED  BY <3>2, <3>3
  <2>5. turns'[t].chat = c /\ Settled(t, id)'
    BY <2>1, <2>3 DEF LearnsStep, Settled
  <2>6. turns'[t].via = Stateless => c \in stray'.refused
    BY <1>1, <2>1, <2>2, <2>4 DEF LearnsStep, TurnInv
  <2>7. TurnInv(t)'
    BY <1>1, <2>1, <2>2, <2>3, <2>4, <2>5, <2>6, LearnerKept
  <2>8. ASSUME NEW k \in DOMAIN turns', k # t PROVE TurnInv(k)'
    <3>1. turns'[k] = turns[k] /\ TurnInv(k)
      BY <1>1, <2>1, <2>8 DEF LearnsStep, Elsewhere
    <3> QED  BY <2>3, <2>4, <3>1, OtherTurnKept
  <2>9. Records'
    BY <1>1, <2>1, <2>3, <2>4 DEF Records
  <2> QED  BY <2>7, <2>8, <2>9
<1>7. CASE RefusedStep(t)
  <2>1. /\ LearnsStep(t, Stateless) /\ UNCHANGED conversationBySession
        /\ stray' = [stray EXCEPT !.refused = @ \cup {c}]
    BY <1>7 DEF RefusedStep
  <2>2. /\ stray'.raced = stray.raced /\ stray'.refused = stray.refused \cup {c}
        /\ stray' = [raced |-> stray'.raced, refused |-> stray'.refused]
    <3>1. stray = [raced |-> stray.raced, refused |-> stray.refused]
      BY <1>1 DEF Records
    <3> QED  BY <2>1, <3>1
  <2>3. Stateless # None /\ Settled(t, Stateless)'
    BY ChatAssumption DEF Stateless, Settled
  <2>4. TurnInv(t)'
    BY <1>1, <2>1, <2>2, <2>3, LearnerKept
  <2>5. ASSUME NEW k \in DOMAIN turns', k # t PROVE TurnInv(k)'
    <3>1. turns'[k] = turns[k] /\ TurnInv(k)
      BY <1>1, <2>1, <2>5 DEF LearnsStep, Elsewhere
    <3> QED  BY <2>1, <2>2, <3>1, OtherTurnKept
  <2>6. Records'
    BY <1>1, <2>1, <2>2 DEF Records
  <2> QED  BY <2>4, <2>5, <2>6
<1> QED
  BY <1>2, <1>3, <1>4, <1>5, <1>6, <1>7 DEF TurnStep

LEMMA ConversationStep == ConversationInv /\ [Next]_vars => ConversationInv'
<1> SUFFICES ASSUME ConversationInv, [Next]_vars PROVE ConversationInv'
  OBVIOUS
<1>1. /\ TurnsShape'
      /\ RestStep \/ SendsStep \/ (\E t \in DOMAIN turns : TurnStep(t))
  BY NextSteps DEF ConversationInv
<1>2. Records' /\ \A k \in DOMAIN turns' : TurnInv(k)'
  BY <1>1, RestKeepsInv, SendKeepsInv, TurnStepKeepsInv
<1> QED
  BY <1>1, <1>2 DEF ConversationInv, Records, TurnInv

\* A session has one conversation, which its turns are posted to and their traces
\* are tagged with, unless its turns raced to create it.
THEOREM SessionsHaveOneConversation == Spec => []OneConversation
<1>1. ConversationInv => OneConversation
  <2> SUFFICES ASSUME ConversationInv, NEW j \in DOMAIN turns, NEW k \in DOMAIN turns,
                      turns[j].chat = turns[k].chat, turns[j].chat \notin stray.raced,
                      NEW c \in ConversationsOf(j), NEW d \in ConversationsOf(k)
               PROVE  c = d
    BY DEF OneConversation
  <2>1. Settled(j, c) /\ Settled(k, d)
    BY DEF ConversationInv, ConversationsOf
  <2> QED  BY <2>1 DEF Settled, ConversationsOf
<1> QED
  BY <1>1, ConversationInit, ConversationStep, PTL DEF Spec

------------------------------------------------------------------------------

\* The turns a turn knew of were of its session, had gone to the agent and were over.
Knew(t) ==
    \A k \in turns[t].known :
        /\ k \in DOMAIN turns /\ turns[k].chat = turns[t].chat
        /\ turns[k].phase = "over" /\ turns[k].via # None

Sees(t) ==
    Posted(t) =>
        \/ turns[t].known \subseteq turns[t].seen
        \/ turns[t].via # Stateless /\ turns[t].chat \in stray.raced \cup stray.refused

\* The inductive invariant behind SeesTheConversation.
SeesInv == ConversationInv /\ \A t \in DOMAIN turns : Knew(t) /\ Sees(t)

\* No step undoes what is known of a turn that is over.
LEMMA OverStays ==
    ASSUME ConversationInv, NEW k \in DOMAIN turns, turns[k].phase = "over",
           RestStep \/ SendsStep \/ (\E t \in DOMAIN turns : TurnStep(t))
    PROVE  /\ k \in DOMAIN turns' /\ turns'[k].chat = turns[k].chat
           /\ turns'[k].phase = "over" /\ turns'[k].via = turns[k].via
<1>1. CASE RestStep
  BY <1>1 DEF RestStep, Rests
<1>2. CASE SendsStep
  BY <1>2 DEF SendsStep
<1>3. ASSUME NEW t \in DOMAIN turns, TurnStep(t)
      PROVE  DOMAIN turns' = DOMAIN turns /\ turns'[k] = turns[k]
  BY <1>3 DEF TurnStep, HeardStep, LookedUpStep, UnauthorisedStep, CreatedStep, RefusedStep,
              PostsStep, LearnsStep, Elsewhere, Early
<1> QED
  BY <1>1, <1>2, <1>3

\* What was raced or refused stays so.
LEMMA StrayGrows ==
    ASSUME ConversationInv, RestStep \/ SendsStep \/ (\E t \in DOMAIN turns : TurnStep(t))
    PROVE  stray.raced \subseteq stray'.raced /\ stray.refused \subseteq stray'.refused
<1>1. stray = [raced |-> stray.raced, refused |-> stray.refused]
  BY DEF ConversationInv
<1>2. CASE RestStep \/ SendsStep
  BY <1>2 DEF RestStep, SendsStep
<1>3. ASSUME NEW t \in DOMAIN turns, TurnStep(t)
      PROVE  \/ UNCHANGED stray
             \/ stray' = [stray EXCEPT !.raced = @ \cup {turns[t].chat}]
             \/ stray' = [stray EXCEPT !.refused = @ \cup {turns[t].chat}]
  BY <1>3 DEF TurnStep, HeardStep, LookedUpStep, UnauthorisedStep, CreatedStep, RefusedStep,
              PostsStep
<1> QED
  BY <1>1, <1>2, <1>3

LEMMA KnewStep ==
    ASSUME SeesInv, RestStep \/ SendsStep \/ (\E t \in DOMAIN turns : TurnStep(t)),
           NEW x \in DOMAIN turns'
    PROVE  Knew(x)'
<1> SUFFICES ASSUME NEW k \in turns'[x].known
             PROVE  /\ k \in DOMAIN turns' /\ turns'[k].chat = turns'[x].chat
                    /\ turns'[k].phase = "over" /\ turns'[k].via # None
  BY DEF Knew
<1>1. /\ x \in DOMAIN turns /\ turns'[x].chat = turns[x].chat
      /\ k \in DOMAIN turns /\ turns[k].chat = turns[x].chat
      /\ turns[k].phase = "over" /\ turns[k].via # None
  <2>1. CASE RestStep
    BY <2>1 DEF RestStep, Rests, SeesInv, Knew
  <2>2. CASE SendsStep
    BY <2>2 DEF SendsStep, SeesInv, Knew
  <2>3. ASSUME NEW t \in DOMAIN turns, TurnStep(t)
        PROVE  /\ DOMAIN turns' = DOMAIN turns /\ turns'[x].chat = turns[x].chat
               /\ turns'[x].known \in {turns[x].known, Answered(turns[x].chat)}
    BY <2>3 DEF TurnStep, HeardStep, LookedUpStep, UnauthorisedStep, CreatedStep, RefusedStep,
                PostsStep, LearnsStep, Elsewhere
  <2>4. ASSUME NEW t \in DOMAIN turns, TurnStep(t)
        PROVE  /\ x \in DOMAIN turns /\ turns'[x].chat = turns[x].chat
               /\ k \in DOMAIN turns /\ turns[k].chat = turns[x].chat
               /\ turns[k].phase = "over" /\ turns[k].via # None
    <3>1. CASE turns'[x].known = turns[x].known
      BY <2>3, <2>4, <3>1 DEF SeesInv, Knew
    <3>2. CASE turns'[x].known = Answered(turns[x].chat)
      BY <2>3, <2>4, <3>2 DEF Answered, Phase
    <3> QED  BY <2>3, <2>4, <3>1, <3>2
  <2> QED  BY <2>1, <2>2, <2>4
<1> QED
  BY <1>1, OverStays DEF SeesInv

\* A turn that is posted sees what it knew of.
LEMMA PostSees ==
    ASSUME SeesInv, NEW t \in DOMAIN turns, PostsStep(t) PROVE Sees(t)'
<1> SUFFICES ASSUME turns[t].via # None,
                    ~(turns[t].via # Stateless /\ turns[t].chat \in stray.raced \cup stray.refused),
                    NEW k \in turns[t].known
             PROVE  k \in Context(t) /\ turns[k].chat = turns[t].chat
  BY DEF PostsStep, Sees, Posted
<1>1. /\ k \in DOMAIN turns /\ turns[k].chat = turns[t].chat
      /\ turns[k].phase = "over" /\ turns[k].via # None
  BY DEF SeesInv, Knew
<1>2. TurnInv(k) /\ TurnInv(t)
  BY <1>1, ConversationParts DEF SeesInv
<1>3. turns[t].via = Stateless \/ turns[k].via = turns[t].via
  BY <1>1, <1>2 DEF TurnInv, Settled
<1> QED
  BY <1>1, <1>3 DEF Context, Posted, Phase

LEMMA SeesStep ==
    ASSUME SeesInv, RestStep \/ SendsStep \/ (\E t \in DOMAIN turns : TurnStep(t)),
           NEW x \in DOMAIN turns'
    PROVE  Sees(x)'
<1>1. ConversationInv /\ stray.raced \subseteq stray'.raced /\ stray.refused \subseteq stray'.refused
  BY StrayGrows DEF SeesInv
<1>2. CASE RestStep
  <2>1. x \in DOMAIN turns /\ Rests(x) /\ Sees(x) /\ TurnInv(x)
    BY <1>1, <1>2, ConversationParts DEF RestStep, SeesInv
  <2> QED  BY <1>1, <2>1 DEF Sees, Rests, Posted, Phase, TurnInv
<1>3. CASE SendsStep
  <2>1. CASE x \in DOMAIN turns
    BY <1>1, <1>3, <2>1 DEF SendsStep, SeesInv, Sees, Posted, Phase
  <2>2. CASE x \notin DOMAIN turns
    BY <1>3, <2>2 DEF SendsStep, Sees, Posted, Phase
  <2> QED  BY <2>1, <2>2
<1>4. ASSUME NEW t \in DOMAIN turns, TurnStep(t), x # t PROVE Sees(x)'
  <2>1. x \in DOMAIN turns /\ turns'[x] = turns[x]
    BY <1>4 DEF TurnStep, HeardStep, LookedUpStep, UnauthorisedStep, CreatedStep, RefusedStep,
                PostsStep, LearnsStep, Elsewhere
  <2> QED  BY <1>1, <2>1 DEF SeesInv, Sees, Posted, Phase
<1>5. ASSUME NEW t \in DOMAIN turns, TurnStep(t), ~PostsStep(t), x = t PROVE Sees(x)'
  <2>1. turns'[t].phase \in Early \cup {"post"}
    BY <1>5 DEF TurnStep, HeardStep, LookedUpStep, UnauthorisedStep, CreatedStep, RefusedStep,
                LearnsStep, Early
  <2> QED  BY <1>5, <2>1 DEF Sees, Posted, Phase, Early
<1> QED
  BY <1>2, <1>3, <1>4, <1>5, PostSees

\* The hosted agent is told of every turn that was answered before, unless a creation
\* was raced or refused in the session.
THEOREM AgentSeesTheConversation == Spec => []SeesTheConversation
<1>1. Init => SeesInv
  <2> SUFFICES ASSUME Init PROVE SeesInv
    OBVIOUS
  <2>1. DOMAIN turns = {}
    BY DEF Init
  <2> QED  BY <2>1, ConversationInit DEF SeesInv
<1>2. SeesInv /\ [Next]_vars => SeesInv'
  <2> SUFFICES ASSUME SeesInv, [Next]_vars PROVE SeesInv'
    OBVIOUS
  <2>1. ConversationInv'
    BY ConversationStep DEF SeesInv
  <2>2. RestStep \/ SendsStep \/ (\E t \in DOMAIN turns : TurnStep(t))
    BY NextSteps DEF SeesInv, ConversationInv
  <2> QED  BY <2>1, <2>2, KnewStep, SeesStep DEF SeesInv
<1>3. SeesInv => SeesTheConversation
  BY DEF SeesInv, Sees, SeesTheConversation
<1> QED
  BY <1>1, <1>2, <1>3, PTL DEF Spec

------------------------------------------------------------------------------
(* The thread of the page. *)

\* A bubble of the page.
Exchanges == [turn : Nat, said : Seq(Events), cards : SUBSET Calls, done : BOOLEAN]

\* A turn nothing was streamed of yet.
Unheard == Phases \ {"streaming", "over"}

\* One the proxy works on, before it is posted.
Behind == Unheard \ {"posted"}

\* A turn as the page depends on it.
TurnInThread(t) ==
    /\ turns[t].phase \in Phases /\ turns[t].chat \in 0 .. chat /\ turns[t].text \in Texts
    /\ turns[t].script \in Seq(Events) /\ turns[t].stream \in Seq(Events)
    /\ turns[t].cutShort \in BOOLEAN
    /\ Members(turns[t].stream) \cap Results \subseteq Members(turns[t].script)
    /\ turns[t].script # Twins(t) => Members(turns[t].stream) \subseteq OwnEvents(t)
    /\ turns[t].phase \in Unheard => turns[t].stream = <<>>
    /\ turns[t].phase \in Behind => route = "foundry"

\* A bubble and what is still to come of its reply are the beginning of it.
Bubble(i) ==
    LET m == messages[i]
    IN  /\ m.turn = Len(turns) - Len(messages) + i
        /\ turns[m.turn].chat = chat
        /\ Begins(m.said \o Spoken(turns[m.turn].stream), Spoken(turns[m.turn].script))
        /\ m.cards \subseteq ResultsOf(m.turn)
        /\ turns[m.turn].phase \in Unheard => m.said = <<>> /\ m.cards = {}

\* A row of the panel.
RowShape(r) ==
    r = [turn |-> r.turn, name |-> r.name, status |-> r.status, call |-> r.call, answer |-> r.answer]

\* What a row says is of a call of its turn, and of that call's own result.
RowInv(r) ==
    /\ RowShape(r)
    /\ r.turn \in DOMAIN turns /\ turns[r.turn].chat = chat /\ turns[r.turn].phase \notin Unheard
    /\ r.status \in {"ok", "pending", "error"}
    /\ r.status = "pending" =>
          /\ r.answer = NoCall
          /\ turns[r.turn].script # Twins(r.turn) => r.call = Call(r.turn, r.name)
    /\ r.answer # NoCall =>
          /\ turns[r.turn].script # Twins(r.turn) => r.call = r.answer
          /\ ToolResult(r.answer, r.status = "ok") \in Members(turns[r.turn].script)

\* The reply that is read is the last, and its end will be seen.
Reader(t) ==
    /\ messages # <<>> /\ t = Len(turns)
    /\ t \in failed => error
    /\ turns[t].phase = "streaming" /\ ~turns[t].cutShort /\ t \notin failed =>
          messages[Len(messages)].done \/ Members(turns[t].stream) \cap Verdicts # {}

\* What the page has of its chat.
PageInv ==
    /\ route \in {"local", "sdk", "foundry"}
    /\ chat \in Nat /\ messages \in Seq(Exchanges) /\ Len(messages) <= Len(turns)
    /\ chat + (IF messages = <<>> THEN 0 ELSE 1) <= Len(turns)
    /\ error \in BOOLEAN /\ draft \in Texts \cup {None}
    /\ failed \subseteq DOMAIN turns
    /\ \E S : rows \in Seq(S)

\* The inductive invariant behind OwnReplies, RowsTellTheirResult and NoSilentLoss.
ThreadInv ==
    /\ TurnsShape /\ SendInv /\ PageInv
    /\ \A t \in DOMAIN turns : TurnInThread(t)
    /\ \A i \in DOMAIN messages : Bubble(i)
    /\ \A k \in DOMAIN rows : RowInv(rows[k])
    /\ \A t \in reading : Reader(t)

LEMMA ThreadInit == Init => ThreadInv
<1> SUFFICES ASSUME Init PROVE ThreadInv
  OBVIOUS
<1>1. turns = <<>> /\ messages = <<>> /\ rows = <<>> /\ reading = {} /\ failed = {}
  BY DEF Init
<1>2. /\ DOMAIN turns = {} /\ DOMAIN messages = {} /\ DOMAIN rows = {} /\ Len(turns) = 0
      /\ Len(messages) = 0
  BY <1>1
<1>3. TurnsShape
  <2>1. turns \in Seq({})
    BY <1>1
  <2> QED  BY <1>2, <2>1 DEF TurnsShape
<1>4. SendInv
  BY ChatAssumption DEF Init, SendInv
<1>5. PageInv
  <2>1. messages \in Seq(Exchanges) /\ rows \in Seq({})
    BY <1>1
  <2>2. \E S : rows \in Seq(S)
    BY <2>1, Zenon
  <2>3. route \in {"local", "sdk", "foundry"} /\ chat = 0 /\ error = FALSE /\ draft = None
    BY DEF Init
  <2>4. /\ chat \in Nat /\ Len(messages) <= Len(turns)
        /\ chat + (IF messages = <<>> THEN 0 ELSE 1) <= Len(turns)
    BY <1>1, <1>2, <2>3
  <2>5. error \in BOOLEAN /\ draft \in Texts \cup {None}
    BY <2>3, Zenon
  <2>6. failed \subseteq DOMAIN turns
    BY <1>1
  <2> QED  BY <2>1, <2>2, <2>3, <2>4, <2>5, <2>6, Zenon DEF PageInv
<1> QED
  BY <1>1, <1>2, <1>3, <1>4, <1>5 DEF ThreadInv

------------------------------------------------------------------------------
(* Steps that show nothing new. *)

\* A step that leaves a turn as it is, ends it, or gives up what is still to come.
Keeps(t) ==
    /\ turns'[t].chat = turns[t].chat /\ turns'[t].text = turns[t].text
    /\ turns'[t].script = turns[t].script /\ turns'[t].cutShort = turns[t].cutShort
    /\ turns'[t].stream \in {turns[t].stream, <<>>}
    /\ turns'[t].phase \in Phases
    /\ turns'[t].phase \in Unheard => turns[t].phase \in Unheard
    /\ turns'[t].phase \in Behind => turns[t].phase \in Behind \/ route = "foundry"
    /\ turns'[t].phase = "streaming" => turns[t].phase = "streaming"

Quiet ==
    /\ TurnsShape' /\ DOMAIN turns' = DOMAIN turns /\ Len(turns') = Len(turns)
    /\ \A t \in DOMAIN turns : Keeps(t)

LEMMA QuietTurns ==
    ASSUME ThreadInv, Quiet, UNCHANGED route, chat' \in Nat, chat <= chat', NEW t \in DOMAIN turns'
    PROVE  TurnInThread(t)'
<1>1. t \in DOMAIN turns /\ TurnInThread(t) /\ Keeps(t)
  BY DEF ThreadInv, Quiet
<1>2. Members(<<>>) = {} /\ <<>> \in Seq(Events)
  BY DEF Members
<1>3. turns'[t].stream \in Seq(Events) /\ Members(turns'[t].stream) \subseteq Members(turns[t].stream)
  BY <1>1, <1>2, Zenon DEF Keeps, TurnInThread
<1>4. turns'[t].phase \in Unheard => turns'[t].stream = <<>>
  BY <1>1 DEF Keeps, TurnInThread
<1>5. turns'[t].chat \in 0 .. chat'
  BY <1>1 DEF Keeps, TurnInThread, ThreadInv, PageInv
<1>6. turns'[t].phase \in Behind => route' = "foundry"
  BY <1>1 DEF Keeps, TurnInThread
<1> QED
  BY <1>1, <1>3, <1>4, <1>5, <1>6 DEF Keeps, TurnInThread

\* The place of a bubble and of its turn.
LEMMA BubbleTurn ==
    ASSUME ThreadInv, NEW i \in DOMAIN messages
    PROVE  /\ messages[i] \in Exchanges /\ Bubble(i) /\ i \in 1 .. Len(messages)
           /\ messages[i].turn \in DOMAIN turns /\ messages[i].turn \in Nat
           /\ TurnInThread(messages[i].turn)
           /\ messages[i].turn = Len(turns) => i = Len(messages)
<1>1. messages \in Seq(Exchanges) /\ Len(messages) <= Len(turns) /\ Len(turns) \in Nat
      /\ DOMAIN turns = 1 .. Len(turns)
  BY DEF ThreadInv, PageInv, TurnsShape
<1>2. i \in 1 .. Len(messages) /\ messages[i] \in Exchanges /\ Len(messages) \in Nat
  BY <1>1
<1>3. Bubble(i) /\ messages[i].turn = Len(turns) - Len(messages) + i
  BY DEF ThreadInv, Bubble
<1>4. messages[i].turn \in 1 .. Len(turns)
  BY <1>1, <1>2, <1>3
<1> QED
  BY <1>1, <1>2, <1>3, <1>4 DEF ThreadInv

LEMMA BubbleShape ==
    ASSUME NEW m \in Exchanges
    PROVE  /\ m.turn \in Nat /\ m.said \in Seq(Events) /\ m.cards \subseteq Calls /\ m.done \in BOOLEAN
           /\ m = [turn |-> m.turn, said |-> m.said, cards |-> m.cards, done |-> m.done]
  BY DEF Exchanges

\* The bubbles and the rows after such a step.
LEMMA QuietBubbles ==
    ASSUME ThreadInv, Quiet, UNCHANGED <<chat, messages>>, NEW i \in DOMAIN messages'
    PROVE  Bubble(i)'
<1>1. PICK m : m = messages[i]
  OBVIOUS
<1> DEFINE t == m.turn
<1>2. /\ m \in Exchanges /\ Bubble(i) /\ t \in DOMAIN turns /\ TurnInThread(t)
      /\ messages'[i] = m /\ Len(messages') = Len(messages)
  BY <1>1, BubbleTurn
<1>3. Keeps(t) /\ Len(turns') = Len(turns)
  BY <1>2 DEF Quiet
<1>4. m.said \in Seq(Events)
  BY <1>2, BubbleShape
<1> DEFINE c == Spoken(turns[t].stream)
           b == Spoken(turns[t].script)
<1>5. c \in Seq(Events) /\ b \in Seq(Events) /\ Begins(m.said \o c, b)
  <2>1. turns[t].stream \in Seq(Events) /\ turns[t].script \in Seq(Events)
    BY <1>2 DEF TurnInThread
  <2>2. Begins(m.said \o c, b)
    BY <1>1, <1>2 DEF Bubble
  <2> QED  BY <2>1, <2>2, SpokenIsText
<1> HIDE DEF c, b
<1>6. Begins(m.said \o Spoken(turns'[t].stream), b)
  <2>1. CASE turns'[t].stream = turns[t].stream
    BY <1>5, <2>1 DEF c
  <2>2. CASE turns'[t].stream = <<>>
    <3>1. Spoken(turns'[t].stream) = <<>>
      BY <2>2, NothingSpoken, Zenon
    <3>2. m.said \o <<>> = m.said
      BY <1>4
    <3>3. Begins(m.said, b)
      BY <1>4, <1>5, BeginsShorter
    <3> QED  BY <3>1, <3>2, <3>3, Zenon
  <2> QED  BY <1>3, <2>1, <2>2 DEF Keeps
<1>7. b = Spoken(turns'[t].script)
  BY <1>3 DEF b, Keeps
<1>8. ResultsOf(t)' = ResultsOf(t)
  <2>1. turns'[t].script = turns[t].script
    BY <1>3 DEF Keeps
  <2> QED  BY <2>1 DEF ResultsOf
<1>9. /\ t = Len(turns) - Len(messages) + i /\ turns[t].chat = chat
      /\ m.cards \subseteq ResultsOf(t)
      /\ turns[t].phase \in Unheard => m.said = <<>> /\ m.cards = {}
  BY <1>1, <1>2 DEF Bubble
<1>10. /\ messages'[i].turn = Len(turns') - Len(messages') + i
       /\ turns'[messages'[i].turn].chat = chat'
       /\ Begins(messages'[i].said \o Spoken(turns'[messages'[i].turn].stream),
                 Spoken(turns'[messages'[i].turn].script))
       /\ turns'[messages'[i].turn].phase \in Unheard
             => messages'[i].said = <<>> /\ messages'[i].cards = {}
  BY <1>2, <1>3, <1>6, <1>7, <1>9 DEF Keeps
<1>11. m.cards \subseteq ResultsOf(t)'
  BY <1>8, <1>9
<1> QED
  BY <1>2, <1>10, <1>11 DEF Bubble, ResultsOf

LEMMA QuietRow ==
    ASSUME Quiet, UNCHANGED chat, NEW r, RowInv(r)
    PROVE  RowInv(r)'
<1>1. r.turn \in DOMAIN turns /\ Keeps(r.turn) /\ DOMAIN turns' = DOMAIN turns
  BY DEF RowInv, Quiet
<1> QED
  BY <1>1 DEF RowInv, Keeps, Unheard

\* A turn somebody reads is a turn, the last one.
LEMMA ReaderIsTurn ==
    ASSUME ThreadInv, NEW t \in reading
    PROVE  t \in DOMAIN turns /\ TurnInThread(t) /\ Reader(t) /\ Len(messages) \in DOMAIN messages
<1>1. Reader(t) /\ messages \in Seq(Exchanges) /\ Len(messages) <= Len(turns)
      /\ DOMAIN turns = 1 .. Len(turns) /\ Len(turns) \in Nat
  BY DEF ThreadInv, PageInv, TurnsShape
<1>2. messages # <<>> /\ t = Len(turns)
  BY <1>1 DEF Reader
<1>3. Len(messages) \in Nat \ {0} /\ DOMAIN messages = 1 .. Len(messages)
  BY <1>1, <1>2
<1>4. t \in DOMAIN turns
  BY <1>1, <1>2, <1>3
<1> QED
  BY <1>1, <1>3, <1>4 DEF ThreadInv

\* A step that shows nothing keeps the thread.
LEMMA QuietStep ==
    ASSUME ThreadInv, Quiet, UNCHANGED <<route, chat, messages, failed, rows>>,
           reading' \subseteq reading, \A t \in reading' : turns'[t].stream = turns[t].stream,
           error' \in BOOLEAN, error => error', draft' \in Texts \cup {None}, SendInv'
    PROVE  ThreadInv'
<1>1. chat \in Nat /\ chat' = chat
  BY DEF ThreadInv, PageInv
<1>2. \A t \in DOMAIN turns' : TurnInThread(t)'
  BY <1>1, QuietTurns
<1>3. \A i \in DOMAIN messages' : Bubble(i)'
  BY QuietBubbles
<1>4. (\A k \in DOMAIN rows : RowInv(rows[k]))'
  <2> SUFFICES ASSUME NEW k \in DOMAIN rows' PROVE RowInv(rows[k])'
    OBVIOUS
  <2>1. PICK r : r = rows[k]
    OBVIOUS
  <2>2. RowInv(r)
    BY <2>1 DEF ThreadInv
  <2>3. RowInv(r)'
    BY <2>2, QuietRow
  <2>4. rows'[k] = r
    BY <2>1
  <2> QED  BY <2>3, <2>4 DEF RowInv, RowShape
<1>5. PageInv'
  BY DEF ThreadInv, PageInv, Quiet
<1>6. ASSUME NEW t \in reading' PROVE Reader(t)'
  <2>1. t \in DOMAIN turns /\ Reader(t) /\ Keeps(t) /\ turns'[t].stream = turns[t].stream
        /\ Len(turns') = Len(turns)
    BY <1>6, ReaderIsTurn DEF Quiet
  <2>2. messages' # <<>> /\ t = Len(turns')
    BY <2>1 DEF Reader
  <2>3. t \in failed' => error'
    BY <2>1 DEF Reader
  <2>4. turns'[t].phase = "streaming" /\ ~turns'[t].cutShort /\ t \notin failed' =>
            messages'[Len(messages')].done \/ Members(turns'[t].stream) \cap Verdicts # {}
    BY <2>1 DEF Reader, Keeps
  <2> QED  BY <2>2, <2>3, <2>4 DEF Reader
<1>7. TurnsShape'
  BY DEF Quiet
<1> QED
  BY <1>2, <1>3, <1>4, <1>5, <1>6, <1>7 DEF ThreadInv

\* Steps like that: no turn moves, or one does.
LEMMA SameTurns == ASSUME ThreadInv, UNCHANGED turns PROVE Quiet
<1>1. TurnsShape' /\ DOMAIN turns' = DOMAIN turns /\ Len(turns') = Len(turns)
  BY DEF ThreadInv, TurnsShape
<1>2. \A t \in DOMAIN turns : Keeps(t)
  BY DEF ThreadInv, TurnInThread, Keeps
<1> QED
  BY <1>1, <1>2 DEF Quiet

LEMMA OneMovesQuietly ==
    ASSUME ThreadInv, TurnsShape', NEW t \in DOMAIN turns, NEW phase \in Phases, NEW stream,
           Becomes(t, phase, turns[t].script, stream, turns[t].cutShort),
           stream \in {turns[t].stream, <<>>},
           phase \in Unheard => turns[t].phase \in Unheard,
           phase \in Behind => turns[t].phase \in Behind \/ route = "foundry",
           phase = "streaming" => turns[t].phase = "streaming"
    PROVE  Quiet
<1>1. \A k \in DOMAIN turns \ {t} : Keeps(k)
  BY DEF Becomes, Elsewhere, ThreadInv, TurnInThread, Keeps
<1>2. Keeps(t)
  BY DEF Becomes, Keeps
<1> QED
  BY <1>1, <1>2 DEF Becomes, Quiet

\* What a send puts back is a text.
LEMMA PutBack ==
    ASSUME ThreadInv, NEW t \in DOMAIN turns, NEW ok, draft' = Restored(t, ok)
    PROVE  draft' \in Texts \cup {None}
  BY DEF ThreadInv, PageInv, TurnInThread, Restored

\* Typing, and steps outside.
LEMMA ComposeKeeps == ASSUME ThreadInv, SendInv', Compose \/ UNCHANGED vars PROVE ThreadInv'
<1> USE DEF page
<1>1. Quiet
  BY SameTurns DEF Compose, vars
<1>2. draft' \in Texts \cup {None} /\ error' = error /\ error \in BOOLEAN /\ reading' = reading
      /\ UNCHANGED <<route, chat, messages, failed, rows, turns>>
  BY DEF Compose, vars, ThreadInv, PageInv
<1> QED
  BY <1>1, <1>2, QuietStep

\* A send that fails, or ends.
LEMMA GivenUpKeeps ==
    ASSUME ThreadInv, SendInv', NEW t \in DOMAIN turns, LoseConnection(t) PROVE ThreadInv'
<1>1. /\ t \in reading /\ error' = TRUE /\ reading' = reading \ {t}
      /\ UNCHANGED <<route, chat, messages, failed, rows>> /\ draft' = Restored(t, FALSE)
      /\ turns' = [turns EXCEPT ![t].stream = <<>>] /\ UNCHANGED <<conversationBySession, stray>>
  BY DEF LoseConnection, Abort, Settle
<1>2. TurnsShape' /\ Becomes(t, turns[t].phase, turns[t].script, <<>>, turns[t].cutShort)
  BY <1>1, StreamMoves DEF ThreadInv
<1>3. Quiet
  BY <1>2, OneMovesQuietly DEF ThreadInv, TurnInThread
<1>4. draft' \in Texts \cup {None}
  BY <1>1, PutBack
<1>5. \A k \in reading' : turns'[k].stream = turns[k].stream
  BY <1>1, <1>2, ReaderIsTurn DEF Becomes, Elsewhere
<1> QED
  BY <1>1, <1>3, <1>4, <1>5, QuietStep

LEMMA EndKeeps ==
    ASSUME ThreadInv, SendInv', NEW t \in DOMAIN turns, End(t) PROVE ThreadInv'
<1>1. /\ UNCHANGED <<route, chat, messages, failed, rows, error>> /\ reading' = reading \ {t}
      /\ draft' = draft \/ draft' = Restored(t, t \notin failed)
  BY DEF End, Settle
<1>2. TurnsShape' /\ Becomes(t, "over", turns[t].script, <<>>, turns[t].cutShort)
  BY TurnEnds DEF ThreadInv
<1>3. Quiet
  BY <1>2, OneMovesQuietly DEF Phases, Unheard, Behind
<1>4. draft' \in Texts \cup {None} /\ error \in BOOLEAN
  BY <1>1, PutBack DEF ThreadInv, PageInv
<1>5. \A k \in reading' : turns'[k].stream = turns[k].stream
  BY <1>1, <1>2, ReaderIsTurn DEF Becomes, Elsewhere
<1> QED
  BY <1>1, <1>3, <1>4, <1>5, QuietStep

LEMMA NeverArrivesKeeps ==
    ASSUME ThreadInv, SendInv', NEW t \in DOMAIN turns, NeverArrives(t) PROVE ThreadInv'
<1>1. /\ UNCHANGED <<route, chat, messages, failed, rows>> /\ reading' = reading \ {t}
      /\ draft' = draft \/ draft' = Restored(t, FALSE)
      /\ error' = error \/ error' = TRUE
  BY DEF NeverArrives, Settle
<1>2. TurnsShape' /\ Becomes(t, "over", turns[t].script, turns[t].stream, turns[t].cutShort)
  BY PhaseMoves DEF ThreadInv, NeverArrives, Phase, Early
<1>3. Quiet
  BY <1>2, OneMovesQuietly DEF Phases, Unheard, Behind
<1>4. draft' \in Texts \cup {None} /\ error \in BOOLEAN
  BY <1>1, PutBack DEF ThreadInv, PageInv
<1>5. \A k \in reading' : turns'[k].stream = turns[k].stream
  BY <1>1, <1>2, ReaderIsTurn DEF Becomes, Elsewhere
<1> QED
  BY <1>1, <1>3, <1>4, <1>5, QuietStep

\* The API's own steps before an answer.
LEMMA ReachKeeps ==
    ASSUME ThreadInv, SendInv', NEW t \in DOMAIN turns, NEW phase \in Unheard, UNCHANGED page,
           turns[t].phase \in Unheard, turns[t].phase \in Behind \/ route = "foundry", TurnsShape', UNCHANGED route,
           Becomes(t, phase, turns[t].script, turns[t].stream, turns[t].cutShort)
    PROVE  ThreadInv'
<1> USE DEF page
<1>1. Quiet
  BY OneMovesQuietly DEF Unheard
<1>2. draft' \in Texts \cup {None} /\ error \in BOOLEAN
  BY DEF ThreadInv, PageInv
<1>3. \A k \in reading' : turns'[k].stream = turns[k].stream
  BY ReaderIsTurn DEF Becomes, Elsewhere
<1> QED
  BY <1>1, <1>2, <1>3, QuietStep

\* The proxy hears of the turn and looks for its conversation.
LEMMA HeardKeeps ==
    ASSUME ThreadInv, SendInv', NEW t \in DOMAIN turns, Arrive(t), route = "foundry"
    PROVE  ThreadInv'
<1>1. /\ turns[t].phase = "posted" /\ UNCHANGED <<route, page, conversationBySession, stray>>
      /\ turns' = [turns EXCEPT ![t].phase = "ensure", ![t].known = Answered(turns[t].chat)]
  BY DEF Arrive, Phase
<1>2. TurnsShape' /\ Becomes(t, "ensure", turns[t].script, turns[t].stream, turns[t].cutShort)
  BY <1>1, TurnIsHeard DEF ThreadInv
<1> QED
  BY <1>1, <1>2, ReachKeeps DEF Unheard, Phases

LEMMA LearnsKeeps ==
    ASSUME ThreadInv, SendInv', NEW t \in DOMAIN turns, NEW c, Phase(t) \in Ensuring \cup Creating,
           Known(t, c), UNCHANGED <<route, page>>
    PROVE  ThreadInv'
<1>1. TurnsShape' /\ Becomes(t, After(Phase(t)), turns[t].script, turns[t].stream, turns[t].cutShort)
  BY TurnLearns DEF ThreadInv
<1>2. After(Phase(t)) \in Unheard /\ turns[t].phase \in Unheard /\ turns[t].phase \in Behind
  BY DEF After, Phase, Ensuring, Creating, Behind, Unheard, Phases
<1> QED
  BY <1>1, <1>2, ReachKeeps

LEMMA ConversationKeeps ==
    ASSUME ThreadInv, SendInv', NEW t \in DOMAIN turns,
           \/ ensureConversation(t) \/ Created(t) \/ NotCreated(t)
           \/ NoBearer(t) /\ Phase(t) = "ensure"
    PROVE  ThreadInv'
<1>1. UNCHANGED <<route, page>>
  BY DEF ensureConversation, Created, NotCreated, NoBearer
<1>2. ASSUME NEW c, Known(t, c), Phase(t) \in Ensuring \cup Creating PROVE ThreadInv'
  BY <1>1, <1>2, LearnsKeeps
<1>3. CASE ensureConversation(t)
  <2>1. CASE Known(t, conversationBySession[turns[t].chat])
    BY <1>2, <1>3, <2>1 DEF ensureConversation
  <2>2. CASE To(t, IF Phase(t) = "ensure" THEN "create" ELSE "createAgain")
    <3> DEFINE phase == IF Phase(t) = "ensure" THEN "create" ELSE "createAgain"
    <3>1. Phase(t) \in Ensuring /\ UNCHANGED <<conversationBySession, stray>>
      BY <1>3 DEF ensureConversation
    <3>2. TurnsShape' /\ Becomes(t, phase, turns[t].script, turns[t].stream, turns[t].cutShort)
      BY <2>2, <3>1, PhaseMoves DEF ThreadInv, Ensuring, Phase, Early
    <3>3. phase \in Unheard /\ turns[t].phase \in Unheard /\ turns[t].phase \in Behind
      BY <3>1 DEF Phase, Ensuring, Behind, Unheard, Phases
    <3> HIDE DEF phase
    <3> QED  BY <1>1, <3>2, <3>3, ReachKeeps
  <2> QED  BY <1>3, <2>1, <2>2 DEF ensureConversation
<1>4. CASE Created(t)
  BY <1>2, <1>4 DEF Created
<1>5. CASE NotCreated(t)
  BY <1>2, <1>5 DEF NotCreated
<1>6. CASE NoBearer(t) /\ Phase(t) = "ensure"
  BY <1>2, <1>6 DEF NoBearer, Ensuring
<1> QED
  BY <1>3, <1>4, <1>5, <1>6

------------------------------------------------------------------------------
(* A chat is left, a message is sent, an answer begins. *)

\* A chat is left: nothing is shown of it any more.
LEMMA ResetKeeps == ASSUME ThreadInv, SendInv', reset PROVE ThreadInv'
<1>1. /\ messages # <<>> /\ chat' = chat + 1 /\ messages' = <<>> /\ error' = FALSE /\ rows' = <<>>
      /\ UNCHANGED <<route, failed, conversationBySession, stray>>
      /\ \/ abortRef = None /\ UNCHANGED <<reading, draft, turns>>
         \/ /\ abortRef # None /\ reading' = reading \ {abortRef} /\ draft' = Restored(abortRef, FALSE)
            /\ turns' = [turns EXCEPT ![abortRef].stream = <<>>]
  BY DEF reset, Abort, Settle
<1>2. IF reading = {} THEN abortRef = None ELSE abortRef # None /\ reading = {abortRef}
  BY DEF ThreadInv, SendInv
<1>3. reading' = {}
  BY <1>1, <1>2
<1>4. Quiet /\ draft' \in Texts \cup {None}
  <2>1. CASE abortRef = None
    BY <1>1, <2>1, SameTurns DEF ThreadInv, PageInv
  <2>2. CASE abortRef # None
    <3>1. abortRef \in reading
      BY <1>2, <2>2
    <3>2. abortRef \in DOMAIN turns
      BY <3>1, ReaderIsTurn
    <3>3. /\ TurnsShape'
          /\ Becomes(abortRef, turns[abortRef].phase, turns[abortRef].script, <<>>,
                     turns[abortRef].cutShort)
      BY <1>1, <2>2, <3>2, StreamMoves DEF ThreadInv
    <3>4. Quiet
      BY <3>2, <3>3, OneMovesQuietly DEF ThreadInv, TurnInThread
    <3> QED  BY <1>1, <2>2, <3>2, <3>4, PutBack
  <2> QED  BY <2>1, <2>2
<1>5. chat \in Nat /\ chat' \in Nat /\ chat <= chat'
  BY <1>1 DEF ThreadInv, PageInv
<1>6. \A t \in DOMAIN turns' : TurnInThread(t)'
  BY <1>1, <1>4, <1>5, QuietTurns
<1>7. DOMAIN messages' = {} /\ DOMAIN rows' = {} /\ Len(messages') = 0
  BY <1>1
<1>8. PageInv'
  <2>1. chat + 1 <= Len(turns) /\ Len(turns') = Len(turns) /\ Len(turns) \in Nat
        /\ DOMAIN turns' = DOMAIN turns /\ failed \subseteq DOMAIN turns
        /\ route \in {"local", "sdk", "foundry"}
    BY <1>1, <1>4 DEF ThreadInv, PageInv, Quiet, TurnsShape
  <2>2. messages' \in Seq(Exchanges) /\ rows' \in Seq({})
    BY <1>1
  <2>3. \E S : rows' \in Seq(S)
    BY <2>2, Zenon
  <2>4. chat' + (IF messages' = <<>> THEN 0 ELSE 1) <= Len(turns') /\ Len(messages') <= Len(turns')
    BY <1>1, <1>5, <1>7, <2>1
  <2>5. error' \in BOOLEAN /\ failed' \subseteq DOMAIN turns' /\ route' \in {"local", "sdk", "foundry"}
    BY <1>1, <2>1
  <2> QED  BY <1>4, <1>5, <2>2, <2>3, <2>4, <2>5, Zenon DEF PageInv
<1>9. TurnsShape'
  BY <1>4 DEF Quiet
<1> QED
  BY <1>3, <1>6, <1>7, <1>8, <1>9 DEF ThreadInv

\* A step that changes nothing of a turn changes nothing of a bubble or a row of it.
LEMMA BubbleRests ==
    ASSUME NEW i, Bubble(i), messages'[i] = messages[i], UNCHANGED chat,
           Len(turns') - Len(messages') = Len(turns) - Len(messages),
           turns'[messages[i].turn] = turns[messages[i].turn]
    PROVE  Bubble(i)'
  BY DEF Bubble, ResultsOf

LEMMA RowRests ==
    ASSUME NEW r, RowInv(r), UNCHANGED chat, r.turn \in DOMAIN turns',
           turns'[r.turn].chat = turns[r.turn].chat,
           turns'[r.turn].phase = turns[r.turn].phase,
           turns'[r.turn].script = turns[r.turn].script
    PROVE  RowInv(r)'
  BY DEF RowInv, RowShape

\* Rows may be looked at one by one.
LEMMA RowsHold ==
    ASSUME \A k \in DOMAIN rows' : \E r : r = rows'[k] /\ RowInv(r)'
    PROVE  (\A k \in DOMAIN rows : RowInv(rows[k]))'
  BY DEF RowInv, RowShape

\* A message is sent: its bubble has nothing to show yet.
LEMMA SubmitKeeps == ASSUME ThreadInv, SendInv', submit PROVE ThreadInv'
<1> DEFINE n == Len(turns) + 1
           r == [phase |-> "posted", chat |-> chat, text |-> draft, script |-> <<>>, stream |-> <<>>,
                 cutShort |-> FALSE, known |-> {}, seen |-> {}, tag |-> None, via |-> None]
           m == [turn |-> n, said |-> <<>>, cards |-> {}, done |-> FALSE]
           last == Len(messages) + 1
<1>1. /\ draft # None /\ ~streaming /\ turns' = Append(turns, r) /\ messages' = Append(messages, m)
      /\ reading' = reading \cup {n} /\ error' = FALSE /\ draft' = None
      /\ UNCHANGED <<route, chat, failed, rows>>
  BY DEF submit, canSend
<1>2. /\ TurnsShape /\ PageInv /\ messages \in Seq(Exchanges) /\ Len(turns) \in Nat
      /\ DOMAIN turns = 1 .. Len(turns) /\ draft \in Texts /\ chat \in Nat /\ reading = {}
      /\ Len(messages) \in Nat /\ DOMAIN messages = 1 .. Len(messages)
  <2>1. TurnsShape /\ PageInv /\ reading = {}
    BY <1>1 DEF ThreadInv, SendInv
  <2> QED  BY <1>1, <2>1 DEF PageInv, TurnsShape
<1>3. TurnShape(r) /\ r.phase = "posted" /\ r.chat = chat /\ r.text = draft /\ r.script = <<>>
      /\ r.stream = <<>> /\ r.cutShort = FALSE
  BY DEF TurnShape
<1>4. m \in Exchanges /\ m.turn = n /\ m.said = <<>> /\ m.cards = {} /\ m.done = FALSE
  BY <1>2 DEF Exchanges
<1> HIDE DEF r, m
<1>5. /\ TurnsShape' /\ DOMAIN turns' = DOMAIN turns \cup {n} /\ n \notin DOMAIN turns
      /\ turns'[n] = r /\ \A k \in DOMAIN turns : turns'[k] = turns[k]
  BY <1>1, <1>2, <1>3, TurnAppended
<1>6. Len(turns') = n
  <2>1. PICK S : turns \in Seq(S)
    BY <1>2 DEF TurnsShape
  <2>2. turns \in Seq(S \cup {r})
    BY <2>1
  <2> QED  BY <1>1, <2>2
<1>7. /\ messages' \in Seq(Exchanges) /\ Len(messages') = last /\ messages'[last] = m
      /\ DOMAIN messages' = 1 .. last /\ \A i \in 1 .. Len(messages) : messages'[i] = messages[i]
  BY <1>1, <1>2, <1>4
<1>8. Spoken(<<>>) = <<>> /\ Members(<<>>) = {} /\ <<>> \in Seq(Events) /\ <<>> \o <<>> = <<>>
      /\ Begins(<<>>, <<>>)
  BY NothingSpoken DEF Members, Begins
<1>9. ASSUME NEW k \in DOMAIN turns' PROVE TurnInThread(k)'
  <2>1. CASE k = n
    <3>1. chat \in 0 .. chat' /\ "posted" \in Phases /\ "posted" \notin Behind
      BY <1>1, <1>2 DEF Phases, Behind
    <3>2. turns'[k] = r
      BY <1>5, <2>1
    <3> QED  BY <1>2, <1>3, <1>8, <3>1, <3>2, Zenon DEF TurnInThread
  <2>2. CASE k \in DOMAIN turns
    <3>1. TurnInThread(k) /\ turns'[k] = turns[k]
      BY <1>5, <2>2 DEF ThreadInv
    <3> QED  BY <1>1, <3>1 DEF TurnInThread
  <2> QED  BY <1>5, <2>1, <2>2
<1>10. ASSUME NEW i \in DOMAIN messages' PROVE Bubble(i)'
  <2>1. CASE i = last
    <3>1. messages'[i] = m /\ turns'[n] = r
      BY <1>5, <1>7, <2>1
    <3>2. n = Len(turns') - Len(messages') + i
      BY <1>2, <1>6, <1>7, <2>1
    <3>3. Begins(m.said \o Spoken(r.stream), Spoken(r.script))
      BY <1>3, <1>4, <1>8, Zenon
    <3> QED  BY <1>1, <1>3, <1>4, <3>1, <3>2, <3>3 DEF Bubble
  <2>2. CASE i \in 1 .. Len(messages)
    <3>1. Bubble(i) /\ messages[i].turn \in DOMAIN turns
      BY <1>2, <2>2, BubbleTurn
    <3>2. Len(turns') - Len(messages') = Len(turns) - Len(messages)
      BY <1>2, <1>6, <1>7
    <3>3. messages'[i] = messages[i] /\ turns'[messages[i].turn] = turns[messages[i].turn]
      BY <1>5, <1>7, <2>2, <3>1
    <3> QED  BY <1>1, <3>1, <3>2, <3>3, BubbleRests
  <2> QED  BY <1>2, <1>7, <2>1, <2>2
<1>11. (\A k \in DOMAIN rows : RowInv(rows[k]))'
  <2>1. ASSUME NEW k \in DOMAIN rows' PROVE \E x : x = rows'[k] /\ RowInv(x)'
    <3>1. PICK x : x = rows[k]
      OBVIOUS
    <3>2. RowInv(x) /\ x = rows'[k]
      BY <1>1, <3>1 DEF ThreadInv
    <3>3. x.turn \in DOMAIN turns
      BY <3>2 DEF RowInv
    <3>4. RowInv(x)'
      BY <1>1, <1>5, <3>2, <3>3, RowRests
    <3> QED  BY <3>2, <3>4
  <2> QED  BY <2>1, RowsHold
<1>12. PageInv'
  <2>1. /\ Len(messages) <= Len(turns) /\ chat + (IF messages = <<>> THEN 0 ELSE 1) <= Len(turns)
        /\ failed \subseteq DOMAIN turns /\ \E S : rows \in Seq(S)
    BY <1>2 DEF PageInv
  <2>2. Len(messages') <= Len(turns') /\ chat' + (IF messages' = <<>> THEN 0 ELSE 1) <= Len(turns')
    BY <1>1, <1>2, <1>6, <1>7, <2>1
  <2>3. error' \in BOOLEAN /\ draft' \in Texts \cup {None}
    BY <1>1
  <2>4. failed' \subseteq DOMAIN turns' /\ \E S : rows' \in Seq(S)
    BY <1>1, <1>5, <2>1
  <2> QED  BY <1>1, <1>2, <1>7, <2>2, <2>3, <2>4 DEF PageInv
<1>13. ASSUME NEW k \in reading' PROVE Reader(k)'
  <2>1. k = n /\ n \notin failed'
    BY <1>1, <1>2, <1>5, <1>13 DEF PageInv
  <2>2. messages' # <<>>
    BY <1>2, <1>7
  <2>3. turns'[k].phase = "posted"
    BY <1>3, <1>5, <2>1
  <2> QED  BY <1>6, <2>1, <2>2, <2>3 DEF Reader
<1> QED
  BY <1>5, <1>9, <1>10, <1>11, <1>12, <1>13 DEF ThreadInv

\* The answer to a turn begins to stream.
LEMMA OpensKeeps ==
    ASSUME ThreadInv, SendInv', TurnsShape', NEW t \in DOMAIN turns, turns[t].phase \in Unheard,
           NEW s, NEW r, NEW cut \in BOOLEAN, Follows(t, s, r, cut),
           Becomes(t, "streaming", s, r, cut), UNCHANGED <<route, page>>
    PROVE  ThreadInv'
<1> USE DEF page
<1>1. /\ DOMAIN turns' = DOMAIN turns /\ Len(turns') = Len(turns)
      /\ \A k \in DOMAIN turns \ {t} : turns'[k] = turns[k]
      /\ turns'[t].phase = "streaming" /\ turns'[t].script = s /\ turns'[t].stream = r
      /\ turns'[t].cutShort = cut /\ turns'[t].chat = turns[t].chat /\ turns'[t].text = turns[t].text
  BY DEF Becomes, Elsewhere
<1>2. ASSUME NEW k \in DOMAIN turns' PROVE TurnInThread(k)'
  <2>1. k \in DOMAIN turns /\ TurnInThread(k)
    BY <1>1 DEF ThreadInv
  <2>2. CASE k = t
    BY <1>1, <2>1, <2>2 DEF TurnInThread, Follows, Phases, Unheard, Behind
  <2>3. CASE k # t
    BY <1>1, <2>1, <2>3 DEF TurnInThread
  <2> QED  BY <2>2, <2>3
<1>3. ASSUME NEW i \in DOMAIN messages' PROVE Bubble(i)'
  <2>1. PICK m : m = messages[i]
    OBVIOUS
  <2>2. Bubble(i) /\ m.turn \in DOMAIN turns /\ messages'[i] = m /\ Len(messages') = Len(messages)
    BY <2>1, BubbleTurn
  <2>3. CASE m.turn = t
    <3>1. m.said = <<>> /\ m.cards = {} /\ t = Len(turns) - Len(messages) + i /\ turns[t].chat = chat
      BY <2>1, <2>2, <2>3 DEF Bubble
    <3>2. r \in Seq(Events) /\ Begins(Spoken(r), Spoken(s))
      BY DEF Follows
    <3>3. Spoken(r) \in Seq(Events)
      BY <3>2, SpokenIsText
    <3>4. <<>> \o Spoken(r) = Spoken(r)
      BY <3>3
    <3>5. Begins(m.said \o Spoken(r), Spoken(s))
      BY <3>1, <3>2, <3>4, Zenon
    <3>6. turns'[t].phase \notin Unheard
      BY <1>1 DEF Unheard
    <3> QED  BY <1>1, <2>2, <2>3, <3>1, <3>5, <3>6 DEF Bubble
  <2>4. CASE m.turn # t
    BY <1>1, <2>1, <2>2, <2>4, BubbleRests
  <2> QED  BY <2>3, <2>4
<1>4. (\A k \in DOMAIN rows : RowInv(rows[k]))'
  <2>1. ASSUME NEW k \in DOMAIN rows' PROVE \E x : x = rows'[k] /\ RowInv(x)'
    <3>1. PICK x : x = rows[k]
      OBVIOUS
    <3>2. RowInv(x) /\ x = rows'[k]
      BY <3>1 DEF ThreadInv
    <3>3. x.turn \in DOMAIN turns /\ x.turn # t
      BY <3>2 DEF RowInv
    <3>4. RowInv(x)'
      BY <1>1, <3>2, <3>3, RowRests
    <3> QED  BY <3>2, <3>4
  <2> QED  BY <2>1, RowsHold
<1>5. PageInv'
  BY <1>1 DEF ThreadInv, PageInv
<1>6. ASSUME NEW k \in reading' PROVE Reader(k)'
  <2>1. k \in reading /\ k \in DOMAIN turns /\ Reader(k)
    BY <1>6, ReaderIsTurn
  <2>2. CASE k = t
    <3>1. ~cut => Members(r) \cap Verdicts # {}
      BY <2>1, <2>2 DEF Follows
    <3> QED  BY <1>1, <2>1, <2>2, <3>1 DEF Reader
  <2>3. CASE k # t
    BY <1>1, <2>1, <2>3 DEF Reader
  <2> QED  BY <2>2, <2>3
<1> QED
  BY <1>2, <1>3, <1>4, <1>5, <1>6 DEF ThreadInv

\* An answer of the agent in this process; one of the proxy without a bearer;
LEMMA AnswerKeeps ==
    ASSUME ThreadInv, SendInv', NEW t \in DOMAIN turns, Arrive(t), route # "foundry"
    PROVE  ThreadInv'
<1>1. turns[t].phase = "posted" /\ UNCHANGED <<route, page, conversationBySession, stray>>
  BY DEF Arrive, Phase
<1>2. TurnsShape /\ TurnInThread(t) /\ turns[t].phase \in Unheard /\ turns[t].stream = <<>>
      /\ turns[t].cutShort \in BOOLEAN /\ t \in Int
  <2>1. TurnsShape /\ TurnInThread(t) /\ turns[t].phase \in Unheard
    BY <1>1 DEF ThreadInv, Unheard, Phases
  <2> QED  BY <2>1 DEF TurnsShape, TurnInThread
<1>3. ASSUME NEW s, NEW r, Follows(t, s, r, FALSE),
             turns' = [turns EXCEPT ![t].phase = "streaming", ![t].script = s, ![t].stream = r]
      PROVE  ThreadInv'
  <2>1. TurnsShape' /\ Becomes(t, "streaming", s, r, turns[t].cutShort)
    BY <1>1, <1>2, <1>3, TurnMoves DEF Early
  <2>2. Follows(t, s, r, turns[t].cutShort)
    BY <1>3 DEF Follows
  <2> QED  BY <1>1, <1>2, <2>1, <2>2, OpensKeeps
<1>4. CASE \E s \in Scripts(t) :
             turns' = [turns EXCEPT ![t].phase = "streaming", ![t].script = s, ![t].stream = s]
  <2>1. PICK s \in Scripts(t) :
            turns' = [turns EXCEPT ![t].phase = "streaming", ![t].script = s, ![t].stream = s]
    BY <1>4
  <2>2. Follows(t, s, s, FALSE)
    BY <1>2, ScriptFollows
  <2> QED  BY <1>3, <2>1, <2>2
<1>5. CASE \E p \in Broken(t) :
             turns' = [turns EXCEPT ![t].phase = "streaming", ![t].script = Answer(t),
                                    ![t].stream = p \o <<ErrorEvent>>]
  <2>1. PICK p \in Broken(t) :
            turns' = [turns EXCEPT ![t].phase = "streaming", ![t].script = Answer(t),
                                   ![t].stream = p \o <<ErrorEvent>>]
    BY <1>5
  <2>2. Follows(t, Answer(t), p, TRUE)
    BY <1>2, BrokenFollows
  <2>3. Follows(t, Answer(t), p \o <<ErrorEvent>>, FALSE)
    BY <1>2, <2>2, ErrorFollows
  <2> QED  BY <1>3, <2>1, <2>3
<1> QED
  BY <1>4, <1>5 DEF Arrive

LEMMA RefusedKeeps ==
    ASSUME ThreadInv, SendInv', NEW t \in DOMAIN turns, NoBearer(t), Phase(t) # "ensure"
    PROVE  ThreadInv'
<1> DEFINE e == <<ErrorEvent>>
<1>1. /\ turns[t].phase = "ensureAgain" /\ UNCHANGED <<route, page, conversationBySession, stray>>
      /\ turns' = [turns EXCEPT ![t].phase = "streaming", ![t].script = e, ![t].stream = e]
  BY DEF NoBearer, Phase
<1>2. TurnsShape /\ turns[t].phase \in Unheard /\ turns[t].cutShort \in BOOLEAN /\ t \in Int
  <2>1. TurnsShape /\ TurnInThread(t) /\ turns[t].phase \in Unheard
    BY <1>1 DEF ThreadInv, Unheard, Phases
  <2> QED  BY <2>1 DEF TurnsShape, TurnInThread
<1>3. Follows(t, e, e, FALSE)
  BY <1>2, OnlyError
<1> HIDE DEF e
<1>4. TurnsShape' /\ Becomes(t, "streaming", e, e, turns[t].cutShort)
  BY <1>1, <1>2, TurnMoves DEF Early
<1>5. Follows(t, e, e, turns[t].cutShort)
  BY <1>3 DEF Follows
<1> QED
  BY <1>1, <1>2, <1>4, <1>5, OpensKeeps

\* and one that comes over the wire.
LEMMA PostKeeps ==
    ASSUME ThreadInv, SendInv', NEW t \in DOMAIN turns, Post(t)
    PROVE  ThreadInv'
<1>1. turns[t].phase = "post" /\ UNCHANGED <<route, page, conversationBySession, stray>>
  BY DEF Post, Phase
<1>2. TurnsShape /\ turns[t].phase \in Unheard /\ t \in Int /\ route = "foundry"
  <2>1. TurnsShape /\ TurnInThread(t) /\ turns[t].phase \in Unheard /\ turns[t].phase \in Behind
    BY <1>1 DEF ThreadInv, Behind, Unheard, Phases
  <2> QED  BY <2>1 DEF TurnsShape, TurnInThread
<1>3. ASSUME NEW s, NEW r, NEW cut \in BOOLEAN, Follows(t, s, r, cut), Streams(t, s, r, cut)
      PROVE  ThreadInv'
  <2>1. TurnsShape' /\ Becomes(t, "streaming", s, r, cut)
    BY <1>1, <1>2, <1>3, TurnIsPosted
  <2> QED  BY <1>1, <1>2, <1>3, <2>1, OpensKeeps
<1>4. CASE Streams(t, <<ErrorEvent>>, <<ErrorEvent>>, FALSE)
  BY <1>2, <1>3, <1>4, OnlyError
<1>5. CASE \E s \in Scripts(t) : Streams(t, s, Read(streamResponses(s)), FALSE)
  <2>1. PICK s \in Scripts(t) : Streams(t, s, Read(streamResponses(s)), FALSE)
    BY <1>5
  <2>2. Follows(t, s, Read(streamResponses(s)), FALSE)
    BY <1>2, ReadFollows
  <2> QED  BY <1>3, <2>1, <2>2
<1>6. CASE \E p \in Broken(t) : \/ Streams(t, Answer(t), Read(BrokenOff(p)) \o <<ErrorEvent>>, FALSE)
                              \/ Streams(t, Answer(t), Read(BrokenOff(p)), TRUE)
  <2>1. PICK p \in Broken(t) : \/ Streams(t, Answer(t), Read(BrokenOff(p)) \o <<ErrorEvent>>, FALSE)
                              \/ Streams(t, Answer(t), Read(BrokenOff(p)), TRUE)
    BY <1>6
  <2>2. Follows(t, Answer(t), Read(BrokenOff(p)), TRUE)
    BY <1>2, BrokenFollows
  <2>3. Follows(t, Answer(t), Read(BrokenOff(p)) \o <<ErrorEvent>>, FALSE)
    BY <1>2, <2>2, ErrorFollows
  <2> QED  BY <1>3, <2>1, <2>2, <2>3
<1> QED
  BY <1>4, <1>5, <1>6 DEF Post

------------------------------------------------------------------------------
(* An event is delivered. *)

LEMMA FirstOfStream ==
    ASSUME NEW E, NEW s \in Seq(E), s # <<>>
    PROVE  /\ Head(s) \in Members(s) /\ Head(s) \in E /\ Tail(s) \in Seq(E)
           /\ Members(s) = Members(Tail(s)) \cup {Head(s)}
<1>1. /\ Len(s) \in Nat \ {0} /\ DOMAIN s = 1 .. Len(s) /\ Head(s) = s[1] /\ s[1] \in E
      /\ Tail(s) \in Seq(E) /\ DOMAIN Tail(s) = 1 .. Len(s) - 1
      /\ \A k \in 1 .. Len(s) - 1 : Tail(s)[k] = s[k + 1]
  OBVIOUS
<1>2. Members(Tail(s)) \subseteq Members(s) /\ Head(s) \in Members(s)
  BY <1>1 DEF Members
<1>3. ASSUME NEW k \in DOMAIN s PROVE s[k] \in Members(Tail(s)) \cup {Head(s)}
  <2>1. CASE k = 1
    BY <1>1, <2>1
  <2>2. CASE k # 1
    <3>1. k - 1 \in 1 .. Len(s) - 1 /\ (k - 1) + 1 = k
      BY <1>1, <2>2
    <3>2. Tail(s)[k - 1] = s[k]
      BY <1>1, <3>1
    <3> QED  BY <1>1, <3>1, <3>2 DEF Members
  <2> QED  BY <2>1, <2>2
<1> QED
  BY <1>1, <1>2, <1>3 DEF Members

\* The row an event of the turn t makes, and what it makes of a row.
NewRow(x, t, e) ==
    \/ e.type = "decision" /\ x = Row(t, "decision", "ok", NoCall)
    \/ e.type = "tool_call" /\ x = Row(t, e.call.name, "pending", e.call)
    \/ e.type = "error" /\ x = Row(t, "agent_unavailable", "error", NoCall)

Closed(x, old, t, e) ==
    /\ old.turn = t /\ old.status = "pending"
    /\ \/ /\ e.type = "tool_result" /\ old.name = e.call.name
          /\ x = [old EXCEPT !.status = IF e.ok THEN "ok" ELSE "error", !.answer = e.call]
       \/ e.type = "error" /\ x = [old EXCEPT !.status = "error"]

RowsAfter(after, before, t, e) ==
    /\ \E S : after \in Seq(S)
    /\ \A k \in DOMAIN after :
          \/ NewRow(after[k], t, e)
          \/ k \in DOMAIN before /\ (after[k] = before[k] \/ Closed(after[k], before[k], t, e))

\* A panel as long as before is a panel.
LEMMA SameLength ==
    ASSUME NEW S, NEW r \in Seq(S), NEW f, f = [k \in DOMAIN r |-> f[k]] PROVE \E T : f \in Seq(T)
<1>1. DOMAIN r = 1 .. Len(r) /\ Len(r) \in Nat
  OBVIOUS
<1>2. f \in Seq({f[k] : k \in DOMAIN r})
  BY <1>1
<1> QED
  BY <1>2

LEMMA AuditRows ==
    ASSUME NEW S, NEW r \in Seq(S), NEW t, NEW e \in Events,
           NEW after, after = applyAuditEvent(r, t, e)
    PROVE  RowsAfter(after, r, t, e)
<1>1. ASSUME NEW x, after = Append(r, x), NewRow(x, t, e) PROVE RowsAfter(after, r, t, e)
  <2>1. r \in Seq(S \cup {x}) /\ after \in Seq(S \cup {x})
    BY <1>1
  <2>2. \A k \in DOMAIN after : (k \in DOMAIN r /\ after[k] = r[k]) \/ after[k] = x
    BY <1>1
  <2> QED  BY <1>1, <2>1, <2>2 DEF RowsAfter
<1>2. CASE e.type = "decision"
  BY <1>1, <1>2 DEF applyAuditEvent, NewRow
<1>3. CASE e.type = "tool_call"
  BY <1>1, <1>3 DEF applyAuditEvent, NewRow
<1>4. CASE e.type = "tool_result"
  <2> DEFINE C == Candidates(r, t, {e.call.name})
  <2>1. \A k \in C : r[k].turn = t /\ r[k].status = "pending" /\ r[k].name = e.call.name
    BY DEF Candidates, PendingIn
  <2>2. after = [k \in DOMAIN r |->
                    IF IsNewest(k, C)
                    THEN [r[k] EXCEPT !.status = IF e.ok THEN "ok" ELSE "error", !.answer = e.call]
                    ELSE r[k]]
    BY <1>4 DEF applyAuditEvent, resolveEntry
  <2> HIDE DEF C
  <2>3. after = [k \in DOMAIN r |-> after[k]] /\ DOMAIN after = DOMAIN r
    BY <2>2
  <2>4. \E T : after \in Seq(T)
    BY <2>3, SameLength
  <2>5. ASSUME NEW k \in DOMAIN r PROVE after[k] = r[k] \/ Closed(after[k], r[k], t, e)
    BY <1>4, <2>1, <2>2 DEF IsNewest, Closed
  <2> QED  BY <2>3, <2>4, <2>5 DEF RowsAfter
<1>5. CASE e.type = "error"
  <2> DEFINE C == Candidates(r, t, AnyName(r))
  <2>1. \A k \in C : r[k].turn = t /\ r[k].status = "pending"
    BY DEF Candidates, PendingIn
  <2>2. after = IF C = {} THEN Append(r, Row(t, "agent_unavailable", "error", NoCall))
                ELSE [k \in DOMAIN r |->
                        IF IsNewest(k, C) THEN [r[k] EXCEPT !.status = "error"] ELSE r[k]]
    BY <1>5 DEF applyAuditEvent, failEntry
  <2> HIDE DEF C
  <2>3. CASE C = {}
    BY <1>1, <1>5, <2>2, <2>3 DEF NewRow
  <2>4. CASE C # {}
    <3>1. after = [k \in DOMAIN r |-> after[k]] /\ DOMAIN after = DOMAIN r
      BY <2>2, <2>4
    <3>2. \E T : after \in Seq(T)
      BY <3>1, SameLength
    <3>3. ASSUME NEW k \in DOMAIN r PROVE after[k] = r[k] \/ Closed(after[k], r[k], t, e)
      BY <1>5, <2>1, <2>2, <2>4 DEF IsNewest, Closed
    <3> QED  BY <3>1, <3>2, <3>3 DEF RowsAfter
  <2> QED  BY <2>3, <2>4
<1>6. CASE e.type \in {"token", "done"}
  <2>1. after = r
    BY <1>6 DEF applyAuditEvent
  <2> QED  BY <2>1 DEF RowsAfter
<1> QED
  BY <1>2, <1>3, <1>4, <1>5, <1>6, EventsAre

\* What an event of a turn's own stream makes of the panel.
LEMMA RowCloses ==
    ASSUME ThreadInv, NEW t \in DOMAIN turns, NEW e \in Members(turns[t].stream), NEW old, RowInv(old),
           NEW x, Closed(x, old, t, e)
    PROVE  RowInv(x)
<1>1. /\ TurnInThread(t) /\ old.turn = t /\ RowShape(old) /\ old.status = "pending"
      /\ old.answer = NoCall /\ turns[t].chat = chat /\ turns[t].phase \notin Unheard
      /\ turns[t].script # Twins(t) => old.call = Call(t, old.name)
  BY DEF ThreadInv, Closed, RowInv
<1>2. e \in Events
  BY <1>1 DEF TurnInThread, Members
<1>3. CASE e.type = "tool_result"
  <2> DEFINE status == IF e.ok THEN "ok" ELSE "error"
  <2>1. old.name = e.call.name /\ x = [old EXCEPT !.status = status, !.answer = e.call]
    BY <1>3 DEF Closed
  <2>2. /\ e \in Results /\ e.ok \in BOOLEAN /\ e = ToolResult(e.call, e.ok)
        /\ e \in Members(turns[t].script)
    BY <1>1, <1>2, <1>3, EventsAre DEF TurnInThread, Results
  <2> HIDE DEF status
  <2>3. x = [turn |-> old.turn, name |-> old.name, status |-> status, call |-> old.call,
             answer |-> e.call]
    BY <1>1, <2>1 DEF RowShape
  <2>4. RowShape(x) /\ x.turn = t /\ x.name = old.name /\ x.status = status /\ x.call = old.call
        /\ x.answer = e.call
    BY <1>1, <2>3 DEF RowShape
  <2>5. (status = "ok") = e.ok /\ status \in {"ok", "error"}
    BY <2>2 DEF status
  <2>6. ToolResult(x.answer, x.status = "ok") \in Members(turns[t].script)
    BY <2>2, <2>4, <2>5, Zenon
  <2>7. ASSUME turns[t].script # Twins(t) PROVE x.call = x.answer
    <3>1. e \in OwnEvents(t)
      BY <1>1, <2>7 DEF TurnInThread
    <3>2. e.call = Call(t, e.call.name)
      BY <1>3, <3>1, OwnCall
    <3> QED  BY <1>1, <2>1, <2>4, <2>7, <3>2
  <2> QED  BY <1>1, <2>4, <2>5, <2>6, <2>7 DEF RowInv
<1>4. CASE e.type = "error"
  <2>1. x = [old EXCEPT !.status = "error"]
    BY <1>4 DEF Closed
  <2>2. RowShape(x) /\ x.turn = t /\ x.status = "error" /\ x.answer = NoCall
    BY <1>1, <2>1 DEF RowShape
  <2> QED  BY <1>1, <2>2 DEF RowInv
<1> QED
  BY <1>3, <1>4 DEF Closed

\* A row an event makes.
LEMMA RowOpens ==
    ASSUME ThreadInv, NEW t \in DOMAIN turns, NEW e \in Members(turns[t].stream), NEW x,
           NewRow(x, t, e), turns[t].chat = chat, turns[t].phase \notin Unheard
    PROVE  RowInv(x)
<1>1. TurnInThread(t)
  BY DEF ThreadInv
<1>2. CASE e.type = "decision" \/ e.type = "error"
  <2>1. RowShape(x) /\ x.turn = t /\ x.status \in {"ok", "error"} /\ x.answer = NoCall
    BY <1>2 DEF NewRow, Row, RowShape
  <2> QED  BY <2>1 DEF RowInv
<1>3. CASE e.type = "tool_call"
  <2>1. RowShape(x) /\ x.turn = t /\ x.status = "pending" /\ x.answer = NoCall
        /\ x.name = e.call.name /\ x.call = e.call
    BY <1>3 DEF NewRow, Row, RowShape
  <2>2. ASSUME turns[t].script # Twins(t) PROVE x.call = Call(t, x.name)
    <3>1. e \in OwnEvents(t)
      BY <1>1, <2>2 DEF TurnInThread
    <3> QED  BY <1>3, <2>1, <3>1, OwnCall
  <2> QED  BY <2>1, <2>2 DEF RowInv
<1> QED
  BY <1>2, <1>3 DEF NewRow

\* A card stands for a result of the turn.
LEMMA CardsAreResults ==
    ASSUME ThreadInv, NEW t \in DOMAIN turns, NEW e \in Members(turns[t].stream), NEW card \in CardsOf(e)
    PROVE  card \subseteq ResultsOf(t) /\ card \subseteq Calls
<1>1. TurnInThread(t) /\ e \in Events
  BY DEF ThreadInv, TurnInThread, Members
<1>2. card = {} \/ (card = {e.call} /\ e.type = "tool_result")
  <2>1. CASE e.type # "tool_result"
    <3>1. CardsOf(e) = {{}}
      BY <2>1 DEF CardsOf
    <3> QED  BY <3>1
  <2>2. CASE e.type = "tool_result"
    <3>1. CardsOf(e) \subseteq {{}, {e.call}}
      BY <2>2 DEF CardsOf
    <3> QED  BY <2>2, <3>1
  <2> QED  BY <2>1, <2>2
<1>3. ASSUME e.type = "tool_result" PROVE e.call \in ResultsOf(t) /\ e.call \in Calls
  <2>1. e \in Members(turns[t].script)
    BY <1>1, <1>3 DEF TurnInThread, Results
  <2> QED  BY <1>1, <1>3, <2>1, EventsAre DEF ResultsOf, Members
<1> QED
  BY <1>2, <1>3

\* The bubble after an event.
LEMMA BubbleAfter ==
    ASSUME NEW m \in Exchanges, NEW e \in Events, NEW card \in SUBSET Calls, NEW x,
           x = Applied(m, e, card)
    PROVE  /\ x \in Exchanges /\ x.turn = m.turn /\ x.cards = m.cards \cup card
           /\ x.said = IF e.type = "token" THEN Append(m.said, e) ELSE m.said
           /\ m.done => x.done
           /\ e.type = "done" => x.done
<1> DEFINE said == IF e.type = "token" THEN Append(m.said, e) ELSE m.said
           done == m.done \/ e.type = "done"
<1>1. /\ m.turn \in Nat /\ m.said \in Seq(Events) /\ m.cards \subseteq Calls /\ m.done \in BOOLEAN
      /\ m = [turn |-> m.turn, said |-> m.said, cards |-> m.cards, done |-> m.done]
  BY BubbleShape
<1>2. said \in Seq(Events) /\ done \in BOOLEAN
  BY <1>1
<1>3. x = [turn |-> m.turn, said |-> said, cards |-> m.cards \cup card, done |-> done]
  BY <1>1 DEF Applied
<1>4. x.done = done /\ x.turn = m.turn /\ x.cards = m.cards \cup card /\ x.said = said
  BY <1>3
<1>5. x \in Exchanges
  BY <1>1, <1>2, <1>3 DEF Exchanges
<1> QED
  BY <1>4, <1>5

\* An event is delivered: what it says moves from the stream to the bubble.
LEMMA DeliverKeeps ==
    ASSUME ThreadInv, SendInv', NEW t \in DOMAIN turns, Deliver(t) PROVE ThreadInv'
<1>1. PICK e : e = Head(turns[t].stream)
  OBVIOUS
<1>2. /\ t \in reading /\ turns[t].phase = "streaming" /\ turns[t].stream # <<>>
      /\ turns' = [turns EXCEPT ![t].stream = Tail(turns[t].stream)]
      /\ failed' = IF e.type = "error" THEN failed \cup {t} ELSE failed
      /\ error' = (error \/ e.type = "error")
      /\ rows' = applyAuditEvent(rows, t, e)
      /\ UNCHANGED <<route, chat, reading, draft, conversationBySession, stray>>
  BY <1>1 DEF Deliver, Phase
<1>3. PICK card \in CardsOf(e) : messages' = applyEvent(e, card)
  BY <1>1 DEF Deliver
<1>4. /\ TurnInThread(t) /\ Reader(t) /\ TurnsShape /\ PageInv /\ t = Len(turns) /\ messages # <<>>
      /\ Len(messages) \in DOMAIN messages /\ messages \in Seq(Exchanges)
  BY <1>2, ReaderIsTurn DEF ThreadInv, Reader, PageInv
<1> DEFINE s == turns[t].stream
           rest == Tail(s)
<1>5. /\ e \in Members(s) /\ e \in Events /\ rest \in Seq(Events) /\ s \in Seq(Events)
      /\ Members(s) = Members(rest) \cup {e}
  <2>1. s \in Seq(Events) /\ s # <<>>
    BY <1>2, <1>4 DEF TurnInThread
  <2> HIDE DEF s
  <2> QED  BY <1>1, <2>1, FirstOfStream DEF s
<1>6. TurnsShape' /\ Becomes(t, "streaming", turns[t].script, rest, turns[t].cutShort)
  BY <1>2, <1>4, StreamMoves
<1>7. /\ DOMAIN turns' = DOMAIN turns /\ Len(turns') = Len(turns)
      /\ \A k \in DOMAIN turns \ {t} : turns'[k] = turns[k]
      /\ turns'[t].phase = "streaming" /\ turns'[t].script = turns[t].script
      /\ turns'[t].stream = rest /\ turns'[t].cutShort = turns[t].cutShort
      /\ turns'[t].chat = turns[t].chat /\ turns'[t].text = turns[t].text
  BY <1>6 DEF Becomes, Elsewhere
<1>8. card \subseteq ResultsOf(t) /\ card \in SUBSET Calls
  BY <1>3, <1>5, CardsAreResults
<1> DEFINE last == Len(messages)
<1>9. PICK m : m = messages[last]
  OBVIOUS
<1>10. m \in Exchanges /\ Bubble(last) /\ last \in Nat /\ DOMAIN messages = 1 .. last
       /\ m.turn = t /\ turns[t].chat = chat
  <2>1. m \in Exchanges /\ Bubble(last) /\ last \in Nat /\ DOMAIN messages = 1 .. last
    BY <1>4, <1>9, BubbleTurn
  <2>2. m.turn = Len(turns) - Len(messages) + last /\ turns[m.turn].chat = chat
    BY <1>9, <2>1 DEF Bubble
  <2> QED  BY <1>4, <2>1, <2>2 DEF TurnsShape
<1>11. PICK x : x = Applied(m, e, card)
  OBVIOUS
<1>12. /\ x \in Exchanges /\ x.turn = m.turn /\ x.cards = m.cards \cup card
       /\ x.said = IF e.type = "token" THEN Append(m.said, e) ELSE m.said
       /\ m.done => x.done
       /\ e.type = "done" => x.done
  BY <1>5, <1>8, <1>10, <1>11, BubbleAfter
<1>13. messages' = [messages EXCEPT ![last] = x]
  BY <1>3, <1>4, <1>9, <1>11 DEF applyEvent
<1>14. /\ messages' \in Seq(Exchanges) /\ Len(messages') = last /\ DOMAIN messages' = 1 .. last
       /\ messages'[last] = x /\ \A i \in 1 .. last : i # last => messages'[i] = messages[i]
       /\ messages' # <<>>
  <2>1. last \in 1 .. last /\ x \in Exchanges /\ DOMAIN messages = 1 .. last /\ last \in Nat
    BY <1>4, <1>10, <1>12
  <2>2. messages' \in Seq(Exchanges) /\ DOMAIN messages' = 1 .. last
    BY <1>4, <1>13, <2>1
  <2>3. Len(messages') = last
    BY <2>1, <2>2
  <2>4. messages'[last] = x /\ \A i \in 1 .. last : i # last => messages'[i] = messages[i]
    BY <1>4, <1>13, <2>1
  <2>5. messages' # <<>>
    BY <2>1, <2>2
  <2> QED  BY <2>2, <2>3, <2>4, <2>5
<1> HIDE DEF rest
<1>15. ASSUME NEW k \in DOMAIN turns' PROVE TurnInThread(k)'
  <2>1. k \in DOMAIN turns /\ TurnInThread(k)
    BY <1>7 DEF ThreadInv
  <2>2. CASE k = t
    <3>1. Members(rest) \subseteq Members(turns[t].stream)
      BY <1>5
    <3>2. "streaming" \in Phases /\ "streaming" \notin Unheard /\ "streaming" \notin Behind
      BY DEF Phases, Unheard, Behind
    <3> QED  BY <1>2, <1>5, <1>7, <2>1, <2>2, <3>1, <3>2 DEF TurnInThread
  <2>3. CASE k # t
    BY <1>2, <1>7, <2>1, <2>3 DEF TurnInThread
  <2> QED  BY <2>2, <2>3
<1>16. ASSUME NEW i \in DOMAIN messages' PROVE Bubble(i)'
  <2>1. CASE i = last
    <3>1. /\ t = Len(turns') - Len(messages') + i /\ messages'[i] = x /\ x.turn = t
          /\ turns'[t].chat = chat'
      BY <1>2, <1>4, <1>7, <1>10, <1>12, <1>14, <2>1 DEF TurnsShape
    <3>2. x.cards \subseteq ResultsOf(t)'
      <4>1. m.cards \subseteq ResultsOf(t)
        BY <1>9, <1>10 DEF Bubble
      <4>2. x.cards \subseteq ResultsOf(t)
        BY <1>8, <1>12, <4>1
      <4> QED  BY <1>7, <4>2 DEF ResultsOf
    <3>3. Begins(x.said \o Spoken(rest), Spoken(turns[t].script))
      <4> DEFINE head == IF e.type = "token" THEN <<e>> ELSE <<>>
      <4>1. Spoken(s) = head \o Spoken(rest) /\ Spoken(rest) \in Seq(Events)
        <5>1. s # <<>>
          BY <1>2
        <5>2. Spoken(s) = (IF Head(s).type = "token" THEN <<Head(s)>> ELSE <<>>) \o Spoken(Tail(s))
          <6> HIDE DEF s
          <6> QED  BY <1>5, <5>1, SpokenFirst
        <5>3. Spoken(rest) \in Seq(Events)
          BY <1>5, SpokenIsText
        <5> QED  BY <1>1, <5>2, <5>3 DEF rest
      <4>2. head \in Seq(Events) /\ m.said \in Seq(Events)
        BY <1>5, <1>10, BubbleShape
      <4>3. x.said = m.said \o head
        <5>1. m.said \o <<e>> = Append(m.said, e) /\ m.said \o <<>> = m.said
          BY <1>5, <4>2, AppendIsConcat
        <5> QED  BY <1>12, <5>1
      <4> HIDE DEF head
      <4>4. (m.said \o head) \o Spoken(rest) = m.said \o (head \o Spoken(rest))
        <5> DEFINE a == m.said
                   c == Spoken(rest)
        <5>1. a \in Seq(Events) /\ head \in Seq(Events) /\ c \in Seq(Events)
          BY <4>1, <4>2
        <5> HIDE DEF a, c
        <5>2. (a \o head) \o c = a \o (head \o c)
          BY <5>1, ConcatAssociative
        <5> QED  BY <5>2 DEF a, c
      <4>5. Begins(m.said \o Spoken(s), Spoken(turns[t].script))
        BY <1>9, <1>10 DEF Bubble
      <4> QED  BY <4>1, <4>3, <4>4, <4>5
    <3>4. turns'[t].phase \notin Unheard
      BY <1>7 DEF Unheard
    <3> QED  BY <1>7, <3>1, <3>2, <3>3, <3>4 DEF Bubble, ResultsOf
  <2>2. CASE i # last
    <3>1. i \in DOMAIN messages /\ messages'[i] = messages[i] /\ Bubble(i)
          /\ messages[i].turn \in DOMAIN turns
      BY <1>10, <1>14, <2>2, BubbleTurn
    <3>2. messages[i].turn # t
      BY <1>4, <2>2, <3>1, BubbleTurn
    <3> QED  BY <1>2, <1>7, <1>14, <3>1, <3>2, BubbleRests
  <2> QED  BY <2>1, <2>2
<1>17. \E S : rows \in Seq(S)
  BY <1>4 DEF PageInv
<1>18. RowsAfter(rows', rows, t, e)
  BY <1>2, <1>5, <1>17, AuditRows
<1>19. (\A k \in DOMAIN rows : RowInv(rows[k]))'
  <2>1. ASSUME NEW k \in DOMAIN rows' PROVE \E y : y = rows'[k] /\ RowInv(y)'
    <3>1. PICK y : y = rows'[k]
      OBVIOUS
    <3>2. RowInv(y)
      <4>1. turns[t].phase \notin Unheard
        BY <1>2 DEF Unheard
      <4>2. CASE NewRow(y, t, e)
        BY <1>5, <1>10, <4>1, <4>2, RowOpens
      <4>3. CASE k \in DOMAIN rows /\ (y = rows[k] \/ Closed(y, rows[k], t, e))
        <5>1. PICK old : old = rows[k]
          OBVIOUS
        <5>2. RowInv(old)
          BY <4>3, <5>1 DEF ThreadInv
        <5> QED  BY <1>5, <4>3, <5>1, <5>2, RowCloses
      <4> QED  BY <1>18, <3>1, <4>2, <4>3 DEF RowsAfter
    <3>3. y.turn \in DOMAIN turns
      BY <3>2 DEF RowInv
    <3>4. /\ turns'[y.turn].chat = turns[y.turn].chat /\ turns'[y.turn].phase = turns[y.turn].phase
          /\ turns'[y.turn].script = turns[y.turn].script
      BY <1>2, <1>7, <3>3
    <3>5. RowInv(y)'
      BY <1>2, <1>7, <3>2, <3>3, <3>4, RowRests
    <3> QED  BY <3>1, <3>5
  <2> QED  BY <2>1, RowsHold
<1>20. PageInv'
  <2>1. failed' \subseteq DOMAIN turns' /\ error' \in BOOLEAN
    BY <1>2, <1>4, <1>7 DEF PageInv
  <2>2. \E S : rows' \in Seq(S)
    BY <1>18 DEF RowsAfter
  <2>3. Len(messages') = Len(messages) /\ (messages' = <<>>) = (messages = <<>>)
    BY <1>4, <1>14
  <2>4. Len(messages') <= Len(turns') /\ chat' + (IF messages' = <<>> THEN 0 ELSE 1) <= Len(turns')
    BY <1>2, <1>4, <1>7, <2>3 DEF PageInv
  <2> QED  BY <1>2, <1>4, <1>14, <2>1, <2>2, <2>4 DEF PageInv
<1>21. ASSUME NEW k \in reading' PROVE Reader(k)'
  <2>1. k = t
    BY <1>2, <1>4, <1>21 DEF ThreadInv, Reader
  <2>2. t \in failed' => error'
    BY <1>2, <1>4 DEF Reader
  <2>3. ASSUME ~turns'[t].cutShort, t \notin failed'
        PROVE  messages'[Len(messages')].done \/ Members(turns'[t].stream) \cap Verdicts # {}
    <3>1. t \notin failed /\ e.type # "error" /\ ~turns[t].cutShort
      BY <1>2, <1>7, <2>3
    <3>2. m.done \/ Members(s) \cap Verdicts # {}
      BY <1>2, <1>4, <1>9, <3>1 DEF Reader
    <3>3. CASE m.done \/ e.type = "done"
      BY <1>12, <1>14, <3>3
    <3>4. CASE Members(s) \cap Verdicts # {} /\ e.type # "done"
      <4>1. e \notin Verdicts
        BY <3>1, <3>4, TypesAre DEF Verdicts
      <4>2. Members(rest) \cap Verdicts # {}
        BY <1>5, <3>4, <4>1
      <4> QED  BY <1>7, <4>2
    <3> QED  BY <3>2, <3>3, <3>4
  <2> QED  BY <1>4, <1>7, <1>14, <2>1, <2>2, <2>3 DEF Reader
<1> QED
  BY <1>6, <1>15, <1>16, <1>19, <1>20, <1>21 DEF ThreadInv

------------------------------------------------------------------------------
(* The theorems about the thread. *)

\* Every step keeps the thread.
LEMMA ThreadStep == ThreadInv /\ [Next]_vars => ThreadInv'
<1> SUFFICES ASSUME ThreadInv, [Next]_vars PROVE ThreadInv'
  OBVIOUS
<1>1. SendInv'
  BY SendStep DEF ThreadInv
<1>2. Compose \/ UNCHANGED vars => ThreadInv'
  BY <1>1, ComposeKeeps
<1>3. submit => ThreadInv'
  BY <1>1, SubmitKeeps
<1>4. reset => ThreadInv'
  BY <1>1, ResetKeeps
<1>5. ASSUME NEW t \in DOMAIN turns, Runs(t) PROVE ThreadInv'
  BY <1>1, <1>5, HeardKeeps, AnswerKeeps, DeliverKeeps, EndKeeps DEF Runs
<1>6. ASSUME NEW t \in DOMAIN turns, LoseConnection(t) \/ NeverArrives(t) PROVE ThreadInv'
  BY <1>1, <1>6, GivenUpKeeps, NeverArrivesKeeps
<1>7. ASSUME NEW t \in DOMAIN turns,
             ensureConversation(t) \/ NoBearer(t) \/ Created(t) \/ NotCreated(t) \/ Post(t)
      PROVE  ThreadInv'
  BY <1>1, <1>7, ConversationKeeps, RefusedKeeps, PostKeeps
<1> QED
  BY <1>2, <1>3, <1>4, <1>5, <1>6, <1>7 DEF Next

\* Each bubble shows a beginning of what the agent said to the message above it, and its
\* own cards; the panel has rows of this chat only.
THEOREM BubblesShowTheirReplies == Spec => []OwnReplies
<1>1. ThreadInv => OwnReplies
  <2> SUFFICES ASSUME ThreadInv PROVE OwnReplies
    OBVIOUS
  <2>1. ASSUME NEW i \in DOMAIN messages
        PROVE  /\ turns[messages[i].turn].chat = chat
               /\ Begins(messages[i].said, Spoken(turns[messages[i].turn].script))
               /\ messages[i].cards \subseteq ResultsOf(messages[i].turn)
    <3>1. PICK m : m = messages[i]
      OBVIOUS
    <3>2. m \in Exchanges /\ Bubble(i) /\ TurnInThread(m.turn)
      BY <3>1, BubbleTurn
    <3> DEFINE said == m.said
               c == Spoken(turns[m.turn].stream)
               b == Spoken(turns[m.turn].script)
    <3>3. said \in Seq(Events) /\ c \in Seq(Events) /\ b \in Seq(Events)
      BY <3>2, BubbleShape, SpokenIsText DEF TurnInThread
    <3>4. Begins(said \o c, b)
      BY <3>1, <3>2 DEF Bubble
    <3>5. Begins(said, b)
      <4> HIDE DEF said, c, b
      <4> QED  BY <3>3, <3>4, BeginsShorter
    <3> QED  BY <3>1, <3>2, <3>5 DEF Bubble
  <2>2. ASSUME NEW k \in DOMAIN rows PROVE turns[rows[k].turn].chat = chat
    BY DEF ThreadInv, RowInv
  <2> QED  BY <2>1, <2>2 DEF OwnReplies
<1> QED
  BY <1>1, ThreadInit, ThreadStep, PTL DEF Spec

\* A row of the panel says of its call what the call's own result said.
THEOREM PanelTellsTheResults == Spec => []RowsTellTheirResult
<1>1. ThreadInv => RowsTellTheirResult
  BY DEF ThreadInv, RowInv, RowsTellTheirResult, Members
<1> QED
  BY <1>1, ThreadInit, ThreadStep, PTL DEF Spec

\* How a send may end.
LostNothing(t) ==
    \/ messages[Len(messages)].done /\ t \notin failed
    \/ turns[t].cutShort
    \/ draft' = turns[t].text /\ (error' \/ chat' # chat)

\* Of the ways a send ends each leaves the reply or the message.
LEMMA StepLosesNothing ==
    ASSUME ThreadInv, [Next]_vars, NEW t \in reading \ reading' PROVE LostNothing(t)
<1> USE DEF page
<1>1. /\ t \in DOMAIN turns /\ Reader(t) /\ chat \in Nat /\ error \in BOOLEAN
      /\ \A k \in reading : k = t
  BY ReaderIsTurn DEF ThreadInv, PageInv, Reader
<1>2. CASE reset
  <2>1. abortRef = t
    BY <1>1 DEF ThreadInv, SendInv
  <2>2. draft' = turns[t].text /\ chat' = chat + 1
    BY <1>2, <2>1 DEF reset, Abort, Settle, Restored
  <2> QED  BY <1>1, <2>2 DEF LostNothing
<1>3. ASSUME NEW k \in DOMAIN turns, LoseConnection(k) \/ NeverArrives(k) PROVE LostNothing(t)
  <2>1. k \in reading /\ error' = TRUE /\ draft' = Restored(k, FALSE)
    BY <1>3 DEF LoseConnection, NeverArrives, Abort, Settle
  <2> QED  BY <1>1, <2>1 DEF LostNothing, Restored
<1>4. ASSUME NEW k \in DOMAIN turns, End(k) PROVE LostNothing(t)
  <2>1. /\ k \in reading /\ turns[k].phase = "streaming" /\ turns[k].stream = <<>>
        /\ error' = error /\ draft' = Restored(k, k \notin failed)
    BY <1>4 DEF End, Settle, Exhausted, Phase
  <2>2. k = t
    BY <1>1, <2>1
  <2>3. CASE t \in failed
    BY <1>1, <2>1, <2>2, <2>3 DEF LostNothing, Restored, Reader
  <2>4. CASE t \notin failed /\ ~turns[t].cutShort
    <3>1. Members(turns[t].stream) = {}
      BY <2>1, <2>2 DEF Members
    <3> QED  BY <1>1, <2>1, <2>2, <2>4, <3>1 DEF LostNothing, Reader
  <2> QED  BY <2>3, <2>4 DEF LostNothing
<1>5. reading' # reading
  OBVIOUS
<1>6. CASE submit
  BY <1>6 DEF submit
<1>7. ASSUME NEW k, \/ Arrive(k) \/ Deliver(k) \/ ensureConversation(k) \/ NoBearer(k)
                    \/ Created(k) \/ NotCreated(k) \/ Post(k)
      PROVE  reading' = reading
  BY <1>7 DEF Arrive, Deliver, ensureConversation, NoBearer, Created, NotCreated, Post
<1>8. Compose \/ UNCHANGED vars => reading' = reading
  BY DEF Compose, vars
<1> QED
  BY <1>2, <1>3, <1>4, <1>5, <1>6, <1>7, <1>8 DEF Next, Runs

\* When a send ends, its reply is complete or its message is back in the composer, but
\* where an agent threw behind Foundry.
THEOREM MessagesAreNotLost == Spec => NoSilentLoss
<1>1. ThreadInv /\ [Next]_vars => [\A t \in reading \ reading' : LostNothing(t)]_vars
  BY StepLosesNothing
<1>2. ThreadInv /\ [Next]_vars =>
         [\A t \in reading \ reading' :
             \/ messages[Len(messages)].done /\ t \notin failed
             \/ turns[t].cutShort
             \/ draft' = turns[t].text /\ (error' \/ chat' # chat)]_vars
  BY <1>1 DEF LostNothing
<1> QED
  BY <1>2, ThreadInit, ThreadStep, PTL DEF Spec, NoSilentLoss

\* The conversations are numbers, and kept for chats there were.
NumbersInv ==
    /\ \A k \in DOMAIN turns : turns[k].tag \in Nat \cup {None} /\ turns[k].via \in Nat \cup {None}
    /\ DOMAIN conversationBySession \subseteq Chats

\* However a turn learns of a conversation, it is a number.
LEMMA NumbersStep ==
    ASSUME NumbersInv, ThreadInv, ThreadInv', ConversationInv,
           RestStep \/ SendsStep \/ (\E t \in DOMAIN turns : TurnStep(t))
    PROVE  NumbersInv'
<1>1. /\ Len(turns) \in Nat /\ DOMAIN turns = 1 .. Len(turns)
      /\ Len(turns') \in Nat /\ DOMAIN turns' = 1 .. Len(turns')
  BY DEF ThreadInv, TurnsShape
<1>2. DOMAIN turns \subseteq DOMAIN turns'
  BY DEF RestStep, SendsStep, TurnStep, HeardStep, LookedUpStep, UnauthorisedStep, CreatedStep,
         RefusedStep, PostsStep, LearnsStep
<1>3. Len(turns) <= Len(turns')
  BY <1>1, <1>2
<1>4. Chats \subseteq Chats'
  BY <1>1, <1>3 DEF Chats
<1>5. ASSUME NEW t \in DOMAIN turns, NEW c \in Nat, LearnsStep(t, c), NEW k \in DOMAIN turns'
      PROVE  turns'[k].tag \in Nat \cup {None} /\ turns'[k].via \in Nat \cup {None}
  BY <1>5 DEF LearnsStep, Elsewhere, NumbersInv
<1>6. CASE RestStep
  BY <1>4, <1>6 DEF RestStep, Rests, NumbersInv
<1>7. CASE SendsStep
  BY <1>4, <1>7 DEF SendsStep, NumbersInv
<1>8. ASSUME NEW t \in DOMAIN turns, TurnStep(t) PROVE NumbersInv'
  <2>1. CASE HeardStep(t)
    BY <1>4, <2>1 DEF HeardStep, Elsewhere, NumbersInv
  <2>2. CASE PostsStep(t)
    BY <1>4, <2>2 DEF PostsStep, Elsewhere, NumbersInv
  <2>3. CASE LookedUpStep(t)
    <3>1. conversationBySession[turns[t].chat] \in Nat
      BY <2>3 DEF LookedUpStep, HasConversation, ConversationInv
    <3> QED  BY <1>4, <1>5, <2>3, <3>1 DEF LookedUpStep, NumbersInv
  <2>4. CASE UnauthorisedStep(t) \/ RefusedStep(t)
    <3>1. Stateless \in Nat
      BY DEF Stateless
    <3> QED  BY <1>4, <1>5, <2>4, <3>1 DEF UnauthorisedStep, RefusedStep, NumbersInv
  <2>5. CASE CreatedStep(t)
    <3>1. DOMAIN conversationBySession' = DOMAIN conversationBySession \cup {turns[t].chat}
      BY <2>5 DEF CreatedStep, Recorded
    <3>2. turns[t].chat \in Chats
      <4>1. turns[t].chat \in 0 .. chat /\ chat <= Len(turns) /\ chat \in Nat
        BY <1>1 DEF ThreadInv, TurnInThread, PageInv
      <4> QED  BY <1>1, <4>1 DEF Chats
    <3> QED  BY <1>4, <1>5, <2>5, <3>1, <3>2 DEF CreatedStep, NumbersInv
  <2> QED  BY <1>8, <2>1, <2>2, <2>3, <2>4, <2>5 DEF TurnStep
<1> QED
  BY <1>6, <1>7, <1>8

\* Everything the page and the API keep is what it should be.
THEOREM HostedChatTypeCorrect == Spec => []TypeOK
<1> DEFINE Inv == ThreadInv /\ ConversationInv /\ NumbersInv
<1>1. Init => Inv
  <2> SUFFICES ASSUME Init PROVE NumbersInv
    BY ThreadInit, ConversationInit
  <2>1. DOMAIN turns = {} /\ DOMAIN conversationBySession = {}
    BY DEF Init
  <2> QED  BY <2>1 DEF NumbersInv
<1>2. Inv /\ [Next]_vars => Inv'
  <2> SUFFICES ASSUME Inv, [Next]_vars PROVE Inv'
    OBVIOUS
  <2>1. ThreadInv' /\ ConversationInv'
    BY ThreadStep, ConversationStep
  <2>2. RestStep \/ SendsStep \/ (\E t \in DOMAIN turns : TurnStep(t))
    BY NextSteps DEF ThreadInv
  <2> QED  BY <2>1, <2>2, NumbersStep
<1>3. Inv => TypeOK
  <2> SUFFICES ASSUME Inv PROVE TypeOK
    OBVIOUS
  <2>1. /\ Len(turns) \in Nat /\ chat \in Nat /\ chat <= Len(turns)
        /\ route \in {"local", "sdk", "foundry"}
        /\ error \in BOOLEAN /\ draft \in Texts \cup {None} /\ failed \subseteq DOMAIN turns
    BY DEF ThreadInv, TurnsShape, PageInv
  <2>2. chat \in Chats /\ \A c \in 0 .. chat : c \in Chats
    BY <2>1 DEF Chats
  <2>3. \A i \in DOMAIN messages : messages[i].turn \in DOMAIN turns /\ messages[i].done \in BOOLEAN
    BY BubbleTurn, BubbleShape
  <2>4. reading \subseteq DOMAIN turns
    BY ReaderIsTurn
  <2>5. streaming \in BOOLEAN /\ abortRef \in DOMAIN turns \cup {None}
    BY <2>4 DEF ThreadInv, SendInv
  <2>6. \A k \in DOMAIN rows : rows[k].turn \in DOMAIN turns /\ rows[k].status \in {"ok", "pending", "error"}
    BY DEF ThreadInv, RowInv
  <2>7. \A t \in DOMAIN turns :
           /\ turns[t].phase \in Phases /\ turns[t].chat \in Chats /\ turns[t].text \in Texts
           /\ {turns[t].tag, turns[t].via} \subseteq Nat \cup {None}
    BY <2>2 DEF ThreadInv, TurnInThread, NumbersInv
  <2>8. DOMAIN conversationBySession \subseteq Chats
    BY DEF NumbersInv
  <2> QED  BY <2>1, <2>2, <2>3, <2>4, <2>5, <2>6, <2>7, <2>8 DEF TypeOK
<1> QED
  BY <1>1, <1>2, <1>3, PTL DEF Spec
==============================================================================
