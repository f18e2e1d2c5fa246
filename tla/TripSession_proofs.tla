-------------------------- MODULE TripSession_proofs --------------------------
(***************************************************************************)
(* Proofs about TripSession for every number of instances, sessions and    *)
(* turns, both routes, both drivers, with or without restarts and          *)
(* abandoned streams; and, in the last part, what is booked and summarised *)
(* on one instance without abandoned streams: the card on screen.  The     *)
(* other instances and overlapping turns for which this fails are in runs  *)
(* of their own.                                                           *)
(***************************************************************************)
EXTENDS TripSession, TLAPS

\* Every turn that was sent has its request.
Posted == \A t \in Turns : pc[t] # "unsent" => req[t] \in Request

\* A turn holds the options its step needs: only a search of a covered place gets to
\* show and remember any, and only a model's search goes on beside its turn.
StepsHoldOptions ==
    \A t \in Turns :
        /\ pc[t] \in {"found", "shown"} => IsSearch(t) /\ req[t].message.place \in Covered
        /\ pc[t] = "resolving" => options[t] = None /\ req[t].message.kind \in {"book", "summary"}
        /\ pc[t] = "booking" => options[t] # None /\ req[t].message.kind = "book"
        /\ pc[t] = "summarising" => options[t] # None /\ req[t].message.kind = "summary"
        /\ search[t] # "none" =>
              /\ Driver = "copilot" /\ options[t] # None
              /\ pc[t] \in {"sending", "draining", "replying", "done", "failed", "lost"}
        /\ ~Settled(t) => pc[t] \in {"sending", "draining", "failed"}

\* The inductive invariant behind TypeOK.
TypeInv == TypeOK /\ Posted /\ StepsHoldOptions

------------------------------------------------------------------------------

LEMMA SearchAnswers ==
    ASSUME NEW place \in Places
    PROVE  /\ searchTravel(place) \in OptionLists \cup {None}
           /\ searchTravel(place) # None => place \in Covered /\ searchTravel(place).place = place
  BY DEF searchTravel, OptionLists

LEMMA ShownIsAnAnswer ==
    ASSUME NEW place \in Covered
    PROVE  Shown(place) \in OptionLists /\ Shown(place).place = place
  BY DEF Shown, OptionLists, searchTravel

LEMMA PickIsAnItinerary ==
    ASSUME NEW o \in OptionLists, NEW sel \in Selection \cup {FirstOfEach}
    PROVE  Pick(o, sel) \in Itineraries /\ Pick(o, sel).place = o.place
  BY DEF Itineraries, Pick

LEMMA SearchMessages ==
    ASSUME NEW m \in Message, m.kind = "search" PROVE m.place \in Places
  BY DEF Message

LEMMA BookMessages ==
    ASSUME NEW m \in Message, m.kind = "book"
    PROVE  bookingSelectionFromMessage(m) \in Selection
  BY DEF Message, bookingSelectionFromMessage, Selection

\* The turns of a transcript, as the history replayed to /responses.
LEMMA ReplayedHistory ==
    ASSUME NEW sent \in Seq(Turns)
    PROVE  [k \in DOMAIN sent |-> [role |-> "user", turn |-> sent[k]]] \in Seq(Entry)
<1>1. DOMAIN sent = 1 .. Len(sent) /\ Len(sent) \in Nat /\ \A k \in 1 .. Len(sent) : sent[k] \in Turns
  OBVIOUS
<1>2. [k \in DOMAIN sent |-> [role |-> "user", turn |-> sent[k]]] \in [1 .. Len(sent) -> Entry]
  BY <1>1 DEF Entry
<1> QED
  BY <1>1, <1>2

LEMMA AppendIsTyped ==
    ASSUME TypeOK, NEW i \in Instances, NEW s \in Sessions, NEW entry \in Entry
    PROVE  append(i, s, entry) \in [Instances -> [Sessions -> Seq(Entry)]]
  BY DEF TypeOK, append

LEMMA RecalledIsTyped ==
    ASSUME TypeOK, NEW t \in Turns, req[t] \in Request
    PROVE  Recalled(t) \in Selection \cup {FirstOfEach}
  BY DEF TypeOK, Recalled, Request

LEMMA TypeInit == Init => TypeInv
  BY DEF Init, TypeInv, TypeOK, Posted, StepsHoldOptions, Settled, Steps

LEMMA PostKeepsTypes ==
    ASSUME TypeInv, NEW t \in Turns, NEW s \in Sessions, NEW i \in Instances,
           NEW m \in Message, NEW replay \in BOOLEAN, Post(t, s, i, m, replay)
    PROVE  TypeInv'
<1> DEFINE prior == IF Surface = "responses" /\ replay /\ transcript[s] # <<>>
                    THEN [k \in DOMAIN transcript[s] |-> [role |-> "user", turn |-> transcript[s][k]]]
                    ELSE store[i][s]
           found == IF Driver = "local" /\ m.kind = "search" THEN searchTravel(m.place) ELSE None
           request == [session |-> s, instance |-> i, message |-> m,
                       history |-> prior, wanted |-> shown[s]]
<1>1. prior \in Seq(Entry)
  BY ReplayedHistory DEF TypeInv, TypeOK
<1>2. found \in OptionLists \cup {None}
  BY SearchAnswers, SearchMessages
<1>3. request \in Request
  BY <1>1 DEF TypeInv, TypeOK, Request
<1>4. /\ pc[t] = "unsent"
      /\ store' = append(i, s, [role |-> "user", turn |-> t])
      /\ req' = [req EXCEPT ![t] = request]
      /\ pc' = [pc EXCEPT ![t] = FirstStep(m, prior)]
      /\ options' = [options EXCEPT ![t] = found]
      /\ awaiting' = [awaiting EXCEPT ![s] = t]
      /\ transcript' = [transcript EXCEPT ![s] = Append(@, t)]
      /\ UNCHANGED <<lastOptions, lastSelection, search, out, shown, booking>>
  BY DEF Post
<1> HIDE DEF prior, found, request
<1>5. /\ FirstStep(m, prior) \in {"resolving", "sending", "found", "replying"}
      /\ FirstStep(m, prior) = "found" => m.kind = "search" /\ searchTravel(m.place) # None
      /\ FirstStep(m, prior) = "resolving" => m.kind \in {"book", "summary"}
  BY DEF FirstStep, isBookingQuery
<1>6. store' \in [Instances -> [Sessions -> Seq(Entry)]]
  BY <1>4, AppendIsTyped DEF TypeInv, Entry
<1>7. TypeOK'
  BY <1>2, <1>3, <1>4, <1>5, <1>6 DEF TypeInv, TypeOK, Steps
<1>8. Posted'
  BY <1>3, <1>4 DEF TypeInv, TypeOK, Posted
<1>9. StepsHoldOptions'
  <2> SUFFICES ASSUME NEW u \in Turns PROVE StepsHoldOptions!(u)'
    BY DEF StepsHoldOptions
  <2>1. CASE u = t
    <3>1. /\ pc'[t] = FirstStep(m, prior) /\ options'[t] = found
          /\ req'[t].message = m
      BY <1>4 DEF TypeInv, TypeOK, request
    <3>2. m.kind = "search" /\ searchTravel(m.place) # None => m.place \in Covered
      BY SearchAnswers, SearchMessages
    <3> QED
      BY <2>1, <1>4, <1>5, <3>1, <3>2 DEF found, IsSearch, Settled, TypeInv, StepsHoldOptions
  <2>2. CASE u # t
    BY <2>2, <1>4 DEF TypeInv, TypeOK, StepsHoldOptions, Settled, IsSearch
  <2> QED  BY <2>1, <2>2
<1> QED
  BY <1>7, <1>8, <1>9 DEF TypeInv

LEMMA TurnStepKeepsTypes ==
    ASSUME TypeInv, NEW t \in Turns, TurnStep(t)
    PROVE  TypeInv'
<1> USE DEF memory, Step
<1>1. pc[t] # "unsent" => req[t] \in Request
  BY DEF TypeInv, Posted
<1>2. ASSUME NEW place \in Covered, ModelSearches(t, place)
      PROVE  TypeInv'
  <2>1. Shown(place) \in OptionLists /\ Shown(place) # None
    BY ShownIsAnAnswer, NoneAssumption
  <2>2. TypeOK'
    BY <1>2, <2>1 DEF ModelSearches, TypeInv, TypeOK
  <2> QED
    BY <1>2, <2>1, <2>2 DEF ModelSearches, AtWork, TypeInv, TypeOK, Posted, StepsHoldOptions, Settled,
                            IsSearch
<1>3. CASE ModelRemembers(t)
  <2>1. /\ pc[t] # "unsent" /\ options[t] \in OptionLists
        /\ search[t] = "running" /\ Driver = "copilot"
    BY <1>3 DEF ModelRemembers, TypeInv, TypeOK, StepsHoldOptions, Settled
  <2>2. req[t].session \in Sessions /\ req[t].instance \in Instances
    BY <1>1, <2>1 DEF Request
  <2>3. /\ lastOptions' \in [Instances -> [Sessions -> OptionLists \cup {None}]]
        /\ booking' \in [Sessions -> [itinerary : Itineraries \cup {None}, searchedSince : BOOLEAN]]
    BY <1>3, <2>1, <2>2 DEF ModelRemembers, TypeInv, TypeOK
  <2>4. /\ search' \in [Turns -> {"none", "running", "queued", "shown", "lost"}]
        /\ UNCHANGED <<store, lastSelection, pc, req, options, out, awaiting, shown, transcript>>
    BY <1>3 DEF ModelRemembers, TypeInv, TypeOK
  <2>5. TypeOK'
    BY <2>3, <2>4 DEF TypeInv, TypeOK
  <2> QED
    BY <1>3, <2>5 DEF ModelRemembers, TypeInv, TypeOK, Posted, StepsHoldOptions, Settled, IsSearch
<1>4. CASE SendResolves(t)
  BY <1>4 DEF SendResolves, TypeInv, TypeOK, Posted, StepsHoldOptions, Settled, IsSearch, Steps
<1>5. CASE ModelShows(t)
  <2>1. req[t].session \in Sessions
    BY <1>1, <1>5 DEF ModelShows, Request
  <2>2. TypeOK'
    BY <1>5, <2>1 DEF ModelShows, TypeInv, TypeOK
  <2> QED
    BY <1>5, <2>2 DEF ModelShows, TypeInv, TypeOK, Posted, StepsHoldOptions, Settled, IsSearch
<1>6. CASE ShowOptions(t)
  <2>1. IsSearch(t) /\ req[t].message.place \in Covered /\ pc[t] # "unsent"
    BY <1>6 DEF ShowOptions, TypeInv, StepsHoldOptions
  <2>2. Shown(req[t].message.place) \in OptionLists /\ req[t].session \in Sessions
    BY <1>1, <2>1, ShownIsAnAnswer DEF Request
  <2>3. shown' \in [Sessions -> OptionLists \cup {None}]
    BY <1>6, <2>2 DEF ShowOptions, TypeInv, TypeOK
  <2>4. /\ pc' \in [Turns -> Steps] /\ options' \in [Turns -> OptionLists \cup {None}]
        /\ UNCHANGED <<memory, req, search, out, awaiting, transcript, booking>>
    BY <1>6 DEF ShowOptions, TypeInv, TypeOK, Steps
  <2>5. TypeOK'
    BY <2>3, <2>4 DEF TypeInv, TypeOK
  <2> QED
    BY <1>6, <2>5 DEF ShowOptions, TypeInv, TypeOK, Posted, StepsHoldOptions, Settled, IsSearch
<1>7. CASE RememberOptions(t)
  <2>1. IsSearch(t) /\ req[t].message.place \in Covered /\ pc[t] # "unsent"
    BY <1>7 DEF RememberOptions, TypeInv, StepsHoldOptions
  <2>2. Shown(req[t].message.place) \in OptionLists
    BY <2>1, ShownIsAnAnswer
  <2>3. req[t].session \in Sessions /\ req[t].instance \in Instances
    BY <1>1, <2>1 DEF Request
  <2>4. /\ lastOptions' \in [Instances -> [Sessions -> OptionLists \cup {None}]]
        /\ booking' \in [Sessions -> [itinerary : Itineraries \cup {None}, searchedSince : BOOLEAN]]
    BY <1>7, <2>2, <2>3 DEF RememberOptions, TypeInv, TypeOK
  <2>5. /\ pc' \in [Turns -> Steps]
        /\ UNCHANGED <<store, lastSelection, req, options, search, out, awaiting, shown, transcript>>
    BY <1>7 DEF RememberOptions, TypeInv, TypeOK, Steps
  <2>6. TypeOK'
    BY <2>4, <2>5 DEF TypeInv, TypeOK
  <2> QED
    BY <1>7, <2>6 DEF RememberOptions, TypeInv, TypeOK, Posted, StepsHoldOptions, Settled, IsSearch
<1>8. CASE ResolveOptions(t)
  <2>1. PICK o \in OptionLists \cup {None} :
           /\ options' = [options EXCEPT ![t] = o]
           /\ Step(t, "resolving", IF o = None THEN "replying"
                                   ELSE IF req[t].message.kind = "book" THEN "booking"
                                   ELSE "summarising")
    BY <1>8 DEF ResolveOptions
  <2> QED
    BY <1>8, <2>1 DEF ResolveOptions, TypeInv, TypeOK, Posted, StepsHoldOptions, Settled, IsSearch, Steps
<1>9. CASE Book(t)
  <2> DEFINE selection == bookingSelectionFromMessage(req[t].message)
  <2>1. /\ pc[t] # "unsent" /\ req[t].message.kind = "book"
        /\ options[t] \in OptionLists
    BY <1>9 DEF Book, TypeInv, TypeOK, StepsHoldOptions
  <2>2. /\ selection \in Selection
        /\ req[t].session \in Sessions /\ req[t].instance \in Instances
    BY <1>1, <2>1, BookMessages DEF Request
  <2>3. Pick(options[t], selection) \in Itineraries
    BY <2>1, <2>2, PickIsAnItinerary
  <2> HIDE DEF selection
  <2>4. /\ out' \in [Turns -> Itineraries \cup {None}]
        /\ lastSelection' \in [Instances -> [Sessions -> Selection \cup {None}]]
        /\ booking' \in [Sessions -> [itinerary : Itineraries \cup {None}, searchedSince : BOOLEAN]]
    BY <1>9, <2>2, <2>3 DEF Book, TypeInv, TypeOK, selection
  <2>5. /\ pc' \in [Turns -> Steps]
        /\ UNCHANGED <<store, lastOptions, req, options, search, awaiting, shown, transcript>>
    BY <1>9 DEF Book, TypeInv, TypeOK, Steps
  <2>6. TypeOK'
    BY <2>4, <2>5 DEF TypeInv, TypeOK
  <2> QED
    BY <1>9, <2>6 DEF Book, TypeInv, TypeOK, Posted, StepsHoldOptions, Settled, IsSearch
<1>10. CASE Summarise(t)
  <2>1. options[t] \in OptionLists /\ req[t] \in Request
    BY <1>1, <1>10 DEF Summarise, TypeInv, TypeOK, StepsHoldOptions
  <2>2. Pick(options[t], Recalled(t)) \in Itineraries
    BY <2>1, PickIsAnItinerary, RecalledIsTyped DEF TypeInv
  <2>3. TypeOK'
    BY <1>10, <2>2 DEF Summarise, TypeInv, TypeOK, Steps
  <2> QED
    BY <1>10, <2>3 DEF Summarise, TypeInv, TypeOK, Posted, StepsHoldOptions, Settled, IsSearch
<1>11. CASE ModelSummary(t)
  <2>1. PICK o \in OptionLists \cup {None} :
           out' = [out EXCEPT ![t] = IF o = None THEN None ELSE Pick(o, Recalled(t))]
    BY <1>11 DEF ModelSummary
  <2>2. req[t] \in Request
    BY <1>1, <1>11 DEF ModelSummary
  <2>3. o # None => Pick(o, Recalled(t)) \in Itineraries
    BY <2>1, <2>2, PickIsAnItinerary, RecalledIsTyped DEF TypeInv
  <2>4. TypeOK'
    BY <1>11, <2>1, <2>3 DEF ModelSummary, TypeInv, TypeOK, Steps
  <2> QED
    BY <1>11, <2>4 DEF ModelSummary, TypeInv, TypeOK, Posted, StepsHoldOptions, Settled, IsSearch
<1>12. ASSUME NEW f \in Positions, NEW h \in Positions,
             ModelBooks(t, [flight |-> f, hotel |-> h])
      PROVE  TypeInv'
  <2> DEFINE selection == [flight |-> f, hotel |-> h]
  <2>1. PICK o \in OptionLists :
           /\ out' = [out EXCEPT ![t] = Pick(o, selection)]
           /\ booking' = [booking EXCEPT ![req[t].session] =
                              [itinerary |-> Pick(o, selection), searchedSince |-> FALSE]]
    BY <1>12 DEF ModelBooks
  <2>2. Pick(o, selection) \in Itineraries
    BY PickIsAnItinerary DEF Selection
  <2>3. req[t].session \in Sessions
    BY <1>1, <1>12 DEF ModelBooks, AtWork, Request
  <2> HIDE DEF selection
  <2>4. TypeOK'
    BY <1>12, <2>1, <2>2, <2>3 DEF ModelBooks, TypeInv, TypeOK
  <2> QED
    BY <1>12, <2>4 DEF ModelBooks, TypeInv, TypeOK, Posted, StepsHoldOptions, Settled, IsSearch
<1>13. CASE ModelReplies(t)
  BY <1>13 DEF ModelReplies, TypeInv, TypeOK, Posted, StepsHoldOptions, Settled, IsSearch, Steps
<1>14. CASE ModelFails(t)
  BY <1>14 DEF ModelFails, Release, TypeInv, TypeOK, Posted, StepsHoldOptions, Settled, IsSearch, Steps
<1>15. CASE Finish(t)
  <2>1. req[t].session \in Sessions /\ req[t].instance \in Instances
    BY <1>1, <1>15 DEF Finish, Request
  <2>2. store' \in [Instances -> [Sessions -> Seq(Entry)]]
    BY <1>15, <2>1, AppendIsTyped DEF Finish, TypeInv, Entry
  <2>3. TypeOK'
    BY <1>15, <2>2 DEF Finish, Release, TypeInv, TypeOK, Steps
  <2> QED
    BY <1>15, <2>3 DEF Finish, TypeInv, TypeOK, Posted, StepsHoldOptions, Settled, IsSearch
<1> QED
  BY <1>2, <1>6, <1>7, <1>8, <1>9, <1>10, <1>11, <1>12, <1>13, <1>14, <1>15, <1>3, <1>4, <1>5
     DEF TurnStep

LEMMA TypeStep == TypeInv /\ [Next]_vars => TypeInv'
<1> SUFFICES ASSUME TypeInv, [Next]_vars PROVE TypeInv'
  OBVIOUS
<1> USE DEF memory
<1>1. ASSUME NEW t \in Turns, NEW s \in Sessions, NEW i \in Instances,
             NEW m \in Message, NEW replay \in BOOLEAN, Post(t, s, i, m, replay)
      PROVE  TypeInv'
  BY <1>1, PostKeepsTypes
<1>2. ASSUME NEW t \in Turns, TurnStep(t) PROVE TypeInv'
  BY <1>2, TurnStepKeepsTypes
<1>3. ASSUME NEW s \in Sessions, Detach(s) PROVE TypeInv'
  BY <1>3 DEF Detach, TypeInv, TypeOK, Posted, StepsHoldOptions, Settled, IsSearch
<1>4. ASSUME NEW i \in Instances, Restart(i) PROVE TypeInv'
  <2>1. TypeOK'
    BY <1>4 DEF Restart, TypeInv, TypeOK, Steps
  <2>2. \A t \in Turns :
            /\ pc'[t] = IF InFlight(t) /\ req[t].instance = i THEN "lost" ELSE pc[t]
            /\ search'[t] = IF ~Settled(t) /\ req[t].instance = i THEN "lost" ELSE search[t]
    BY <1>4 DEF Restart
  <2> QED
    BY <1>4, <2>1, <2>2 DEF Restart, TypeInv, TypeOK, Posted, StepsHoldOptions, Settled, IsSearch, InFlight
<1>5. CASE UNCHANGED vars
  BY <1>5 DEF vars, TypeInv, TypeOK, Posted, StepsHoldOptions, Settled, IsSearch
<1> QED
  BY <1>1, <1>2, <1>3, <1>4, <1>5 DEF Next

\* The state of the sessions, the booking memory and the turns is well typed.
THEOREM TripTypeCorrect == Spec => []TypeOK
<1>1. TypeInv => TypeOK
  BY DEF TypeInv
<1> QED
  BY <1>1, TypeInit, TypeStep, PTL DEF Spec

------------------------------------------------------------------------------
(* No itinerary and no remembered option leaves its session.  The facts a     *)
(* booking depends on are kept in five places; each of them only ever holds   *)
(* turns, and options searched for, of its own session.                       *)

\* A turn was sent, in session s.
Known(u, s) == pc[u] # "unsent" /\ req[u].session = s

StoreOwn ==
    \A i \in Instances, s \in Sessions : \A k \in DOMAIN store[i][s] :
        Known(store[i][s][k].turn, s)

TranscriptOwn ==
    \A s \in Sessions : \A k \in DOMAIN transcript[s] : Known(transcript[s][k], s)

HistoryOwn ==
    \A t \in Turns : pc[t] # "unsent" =>
        \A k \in DOMAIN req[t].history : Known(req[t].history[k].turn, req[t].session)

OptionsOwn ==
    \A t \in Turns : options[t] # None =>
        pc[t] # "unsent" /\ SearchedFor(req[t].session, options[t].place)

OutOwn ==
    \A t \in Turns : out[t] # None =>
        pc[t] # "unsent" /\ SearchedFor(req[t].session, out[t].place)

MemoryOwn ==
    \A i \in Instances, s \in Sessions :
        lastOptions[i][s] # None => SearchedFor(s, lastOptions[i][s].place)

OwnInv == StoreOwn /\ TranscriptOwn /\ HistoryOwn /\ OptionsOwn /\ OutOwn /\ MemoryOwn

\* A turn once sent stays sent, with its request and what its model has searched.
Kept ==
    \A u \in Turns : pc[u] # "unsent" =>
        /\ pc'[u] # "unsent" /\ req'[u] = req[u]
        /\ search[u] # "none" => search'[u] # "none" /\ options'[u] = options[u]

\* No turn is sent by the step.
NoneSent == req' = req /\ \A u \in Turns : pc'[u] # "unsent" => pc[u] # "unsent"

LEMMA StepKeepsTurns ==
    ASSUME TypeInv, NEW t \in Turns, TurnStep(t)
    PROVE  Kept /\ NoneSent /\ pc[t] # "unsent" /\ transcript' = transcript
<1> USE DEF TypeInv, TypeOK, StepsHoldOptions, Kept, NoneSent, Step
<1>1. ASSUME NEW place \in Covered, ModelSearches(t, place)
      PROVE  Kept /\ NoneSent /\ pc[t] # "unsent" /\ transcript' = transcript
  BY <1>1 DEF ModelSearches, AtWork
<1>2. CASE ShowOptions(t) \/ RememberOptions(t) \/ ResolveOptions(t) \/ Book(t) \/ Summarise(t)
  BY <1>2 DEF ShowOptions, RememberOptions, ResolveOptions, Book, Summarise
<1>3. CASE ModelSummary(t) \/ ModelRemembers(t) \/ SendResolves(t) \/ ModelShows(t)
  BY <1>3 DEF ModelSummary, ModelRemembers, SendResolves, ModelShows, Settled
<1>4. CASE ModelReplies(t) \/ ModelFails(t) \/ Finish(t)
  BY <1>4 DEF ModelReplies, ModelFails, Finish
<1>5. ASSUME NEW f \in Positions, NEW h \in Positions,
             ModelBooks(t, [flight |-> f, hotel |-> h])
      PROVE  Kept /\ NoneSent /\ pc[t] # "unsent" /\ transcript' = transcript
  BY <1>5 DEF ModelBooks, AtWork
<1> QED
  BY <1>1, <1>2, <1>3, <1>4, <1>5 DEF TurnStep

LEMMA SearchedForIsKept ==
    ASSUME Kept, NEW s, NEW place, SearchedFor(s, place)
    PROVE  SearchedFor(s, place)'
  BY DEF Kept, SearchedFor, IsSearch

LEMMA UnchangedStaysOwn ==
    ASSUME TypeInv, OwnInv, Kept
    PROVE  /\ store' = store => StoreOwn'
           /\ transcript' = transcript => TranscriptOwn'
           /\ NoneSent => HistoryOwn'
           /\ options' = options => OptionsOwn'
           /\ out' = out => OutOwn'
           /\ lastOptions' = lastOptions => MemoryOwn'
<1> USE DEF TypeInv, OwnInv, Kept
<1>1. store' = store => StoreOwn'
  <2> SUFFICES ASSUME store' = store, NEW i \in Instances, NEW s \in Sessions,
                      NEW k \in DOMAIN store[i][s]
               PROVE  Known(store[i][s][k].turn, s)'
    BY DEF StoreOwn
  <2>1. store[i][s][k] \in Entry
    BY DEF TypeOK
  <2> QED
    BY <2>1 DEF StoreOwn, Known, Entry
<1>2. transcript' = transcript => TranscriptOwn'
  <2> SUFFICES ASSUME transcript' = transcript, NEW s \in Sessions,
                      NEW k \in DOMAIN transcript[s]
               PROVE  Known(transcript[s][k], s)'
    BY DEF TranscriptOwn
  <2>1. transcript[s][k] \in Turns
    BY DEF TypeOK
  <2> QED
    BY <2>1 DEF TranscriptOwn, Known
<1>3. NoneSent => HistoryOwn'
  <2> SUFFICES ASSUME NoneSent, NEW t \in Turns, pc[t] # "unsent",
                      NEW k \in DOMAIN req[t].history
               PROVE  Known(req[t].history[k].turn, req[t].session)'
    BY DEF HistoryOwn, NoneSent
  <2>1. req[t].history[k] \in Entry
    BY DEF Posted, Request
  <2> QED
    BY <2>1 DEF HistoryOwn, Known, Entry, NoneSent
<1>4. options' = options => OptionsOwn'
  BY SearchedForIsKept DEF OptionsOwn
<1>5. out' = out => OutOwn'
  BY SearchedForIsKept DEF OutOwn
<1>6. lastOptions' = lastOptions => MemoryOwn'
  BY SearchedForIsKept DEF MemoryOwn
<1> QED
  BY <1>1, <1>2, <1>3, <1>4, <1>5, <1>6

\* What a booking or a summary resolves was searched for in its session.
LEMMA ResolvedIsOwn ==
    ASSUME TypeInv, OwnInv, NEW t \in Turns, pc[t] # "unsent", NEW o, Resolved(t, o), o # None
    PROVE  SearchedFor(req[t].session, o.place)
<1> DEFINE i == req[t].instance
           s == req[t].session
<1>1. i \in Instances /\ s \in Sessions /\ req[t].history \in Seq(Entry)
  BY DEF TypeInv, Posted, Request
<1>2. CASE lastOptions[i][s] # None
  BY <1>1, <1>2 DEF Resolved, OwnInv, MemoryOwn
<1>3. CASE lastOptions[i][s] = None
  <2>1. PICK k \in DOMAIN History(t) :
           /\ IsLastSearch(History(t), k)
           /\ o = searchTravel(req[History(t)[k].turn].message.place)
    BY <1>3 DEF Resolved
  <2>2. History(t)[k] \in Entry /\ Known(History(t)[k].turn, s)
    BY <1>1 DEF History, TypeInv, TypeOK, OwnInv, StoreOwn, HistoryOwn
  <2> DEFINE u == History(t)[k].turn
  <2>3. u \in Turns /\ req[u] \in Request /\ req[u].message.kind = "search"
    BY <2>1, <2>2 DEF Entry, Known, TypeInv, Posted, IsLastSearch, IsSearch
  <2>4. req[u].message.place \in Places
    BY <2>3, SearchMessages DEF Request
  <2>5. o.place = req[u].message.place
    BY <2>1, <2>4, SearchAnswers
  <2> QED
    BY <2>2, <2>3, <2>5 DEF SearchedFor, IsSearch, Known
<1> QED
  BY <1>2, <1>3

LEMMA OwnInit == Init => OwnInv
  BY DEF Init, OwnInv, StoreOwn, TranscriptOwn, HistoryOwn, OptionsOwn, OutOwn, MemoryOwn

\* An entry of a turn that was sent in the session is appended to it.
LEMMA AppendStaysOwn ==
    ASSUME TypeInv, TypeInv', OwnInv, Kept, NEW i \in Instances, NEW s \in Sessions,
           NEW entry \in Entry, Known(entry.turn, s)',
           store' = append(i, s, entry)
    PROVE  StoreOwn'
<1> SUFFICES ASSUME NEW j \in Instances, NEW r \in Sessions, NEW k \in DOMAIN store'[j][r]
             PROVE  Known(store[j][r][k].turn, r)'
  BY DEF StoreOwn
<1>1. store[j][r] \in Seq(Entry)
  BY DEF TypeInv, TypeOK
<1>2. CASE j = i /\ r = s
  <2>1. store'[j][r] = Append(store[j][r], entry)
    BY <1>2 DEF append, TypeInv, TypeOK
  <2>2. CASE k = Len(store[j][r]) + 1
    BY <1>1, <1>2, <2>1, <2>2
  <2>3. CASE k # Len(store[j][r]) + 1
    <3>1. k \in DOMAIN store[j][r] /\ store'[j][r][k] = store[j][r][k]
      BY <1>1, <2>1, <2>3
    <3>2. store[j][r][k] \in Entry
      BY <1>1, <3>1
    <3> QED
      BY <3>1, <3>2 DEF OwnInv, StoreOwn, Known, Kept, Entry
  <2> QED  BY <2>2, <2>3
<1>3. CASE ~(j = i /\ r = s)
  <2>1. store'[j][r] = store[j][r]
    BY <1>3 DEF append, TypeInv, TypeOK
  <2>2. store[j][r][k] \in Entry
    BY <1>1, <2>1
  <2> QED
    BY <2>1, <2>2 DEF OwnInv, StoreOwn, Known, Kept, Entry
<1> QED  BY <1>2, <1>3

\* The history a turn is sent with is of turns that were sent in its session.
LEMMA PriorIsOwn ==
    ASSUME TypeInv, OwnInv, NEW t \in Turns, NEW s \in Sessions, NEW i \in Instances,
           NEW m \in Message, NEW replay \in BOOLEAN, Post(t, s, i, m, replay)
    PROVE  \A k \in DOMAIN req'[t].history :
               req'[t].history[k].turn \in Turns /\ Known(req'[t].history[k].turn, s)
<1> DEFINE prior == IF Surface = "responses" /\ replay /\ transcript[s] # <<>>
                    THEN [k \in DOMAIN transcript[s] |-> [role |-> "user", turn |-> transcript[s][k]]]
                    ELSE store[i][s]
<1>1. req'[t].history = prior
  BY DEF Post, TypeInv, TypeOK
<1> SUFFICES \A k \in DOMAIN prior : prior[k].turn \in Turns /\ Known(prior[k].turn, s)
  BY <1>1
<1>2. transcript[s] \in Seq(Turns) /\ store[i][s] \in Seq(Entry)
  BY DEF TypeInv, TypeOK
<1>3. \A k \in DOMAIN transcript[s] : transcript[s][k] \in Turns /\ Known(transcript[s][k], s)
  BY <1>2 DEF OwnInv, TranscriptOwn
<1>4. \A k \in DOMAIN store[i][s] : store[i][s][k].turn \in Turns /\ Known(store[i][s][k].turn, s)
  <2>1. \A k \in DOMAIN store[i][s] : store[i][s][k] \in Entry
    BY <1>2
  <2>2. \A k \in DOMAIN store[i][s] : Known(store[i][s][k].turn, s)
    BY DEF OwnInv, StoreOwn
  <2> QED
    BY <2>1, <2>2 DEF Entry
<1>5. CASE Surface = "responses" /\ replay /\ transcript[s] # <<>>
  BY <1>3, <1>5
<1>6. CASE ~(Surface = "responses" /\ replay /\ transcript[s] # <<>>)
  BY <1>4, <1>6
<1> QED
  BY <1>5, <1>6

LEMMA PostKeepsOwn ==
    ASSUME TypeInv, TypeInv', OwnInv, NEW t \in Turns, NEW s \in Sessions, NEW i \in Instances,
           NEW m \in Message, NEW replay \in BOOLEAN, Post(t, s, i, m, replay)
    PROVE  OwnInv'
<1> DEFINE prior == IF Surface = "responses" /\ replay /\ transcript[s] # <<>>
                    THEN [k \in DOMAIN transcript[s] |-> [role |-> "user", turn |-> transcript[s][k]]]
                    ELSE store[i][s]
           found == IF Driver = "local" /\ m.kind = "search" THEN searchTravel(m.place) ELSE None
           request == [session |-> s, instance |-> i, message |-> m,
                       history |-> prior, wanted |-> shown[s]]
<1>1. /\ pc[t] = "unsent"
      /\ store' = append(i, s, [role |-> "user", turn |-> t])
      /\ req' = [req EXCEPT ![t] = request]
      /\ pc' = [pc EXCEPT ![t] = FirstStep(m, prior)]
      /\ options' = [options EXCEPT ![t] = found]
      /\ transcript' = [transcript EXCEPT ![s] = Append(@, t)]
      /\ UNCHANGED <<lastOptions, search, out>>
  BY DEF Post
<1>2. \A k \in DOMAIN prior : prior[k].turn \in Turns /\ Known(prior[k].turn, s)
  <2>1. req'[t].history = prior
    BY <1>1 DEF TypeInv, TypeOK
  <2> QED
    BY <2>1, PriorIsOwn
<1>3. request.session = s /\ request.history = prior /\ request.message = m
  OBVIOUS
<1> HIDE DEF prior, request
<1>4. FirstStep(m, prior) # "unsent"
  BY DEF FirstStep
<1>5. Kept /\ Known(t, s)' /\ pc'[t] # "unsent" /\ req'[t] = request
  BY <1>1, <1>3, <1>4 DEF Kept, Known, TypeInv, TypeOK
<1>6. StoreOwn'
  BY <1>1, <1>5, AppendStaysOwn DEF Entry
<1>7. TranscriptOwn'
  <2> SUFFICES ASSUME NEW r \in Sessions, NEW k \in DOMAIN transcript'[r]
               PROVE  Known(transcript[r][k], r)'
    BY DEF TranscriptOwn
  <2>1. transcript[r] \in Seq(Turns)
    BY DEF TypeInv, TypeOK
  <2>2. transcript'[r] = IF r = s THEN Append(transcript[r], t) ELSE transcript[r]
    BY <1>1 DEF TypeInv, TypeOK
  <2>3. CASE r = s /\ k = Len(transcript[r]) + 1
    BY <1>5, <2>1, <2>2, <2>3
  <2>4. CASE ~(r = s /\ k = Len(transcript[r]) + 1)
    <3>1. k \in DOMAIN transcript[r] /\ transcript'[r][k] = transcript[r][k]
      BY <2>1, <2>2, <2>4
    <3>2. transcript[r][k] \in Turns
      BY <2>1, <3>1
    <3> QED
      BY <1>5, <3>1, <3>2 DEF OwnInv, TranscriptOwn, Known, Kept
  <2> QED  BY <2>3, <2>4
<1>8. HistoryOwn'
  <2> SUFFICES ASSUME NEW u \in Turns, pc'[u] # "unsent", NEW k \in DOMAIN req'[u].history
               PROVE  Known(req[u].history[k].turn, req[u].session)'
    BY DEF HistoryOwn
  <2>1. CASE u = t
    BY <2>1, <1>2, <1>3, <1>5 DEF Known, Kept
  <2>2. CASE u # t
    <3>1. req'[u] = req[u] /\ pc[u] # "unsent"
      BY <2>2, <1>1 DEF TypeInv, TypeOK
    <3>2. req[u].history[k] \in Entry
      BY <3>1 DEF TypeInv, Posted, Request
    <3> QED
      BY <3>1, <3>2, <1>5 DEF OwnInv, HistoryOwn, Known, Kept, Entry
  <2> QED  BY <2>1, <2>2
<1>9. OptionsOwn'
  <2> SUFFICES ASSUME NEW u \in Turns, options'[u] # None
               PROVE  pc'[u] # "unsent" /\ SearchedFor(req[u].session, options[u].place)'
    BY DEF OptionsOwn
  <2>1. CASE u = t
    <3>1. m.kind = "search" /\ options'[t] = searchTravel(m.place)
      BY <2>1, <1>1 DEF TypeInv, TypeOK
    <3>2. options'[t].place = m.place
      BY <2>1, <3>1, SearchMessages, SearchAnswers
    <3> QED
      BY <2>1, <3>1, <3>2, <1>3, <1>5 DEF SearchedFor, IsSearch
  <2>2. CASE u # t
    <3>1. options[u] # None /\ options'[u] = options[u]
      BY <2>2, <1>1 DEF TypeInv, TypeOK
    <3>2. /\ pc[u] # "unsent" /\ pc'[u] # "unsent" /\ req'[u] = req[u]
          /\ SearchedFor(req[u].session, options[u].place)
      BY <3>1, <1>5 DEF OwnInv, OptionsOwn, Kept
    <3>3. SearchedFor(req[u].session, options[u].place)'
      BY <1>5, <3>1, <3>2 DEF Kept, SearchedFor, IsSearch
    <3> QED  BY <3>1, <3>2, <3>3
  <2> QED  BY <2>1, <2>2
<1>10. OutOwn' /\ MemoryOwn'
  BY <1>1, <1>5, UnchangedStaysOwn
<1> QED
  BY <1>6, <1>7, <1>8, <1>9, <1>10 DEF OwnInv

LEMMA TurnStepKeepsOwn ==
    ASSUME TypeInv, TypeInv', OwnInv, NEW t \in Turns, TurnStep(t)
    PROVE  OwnInv'
<1> USE DEF memory, Step
<1>1. /\ Kept /\ NoneSent /\ transcript' = transcript
      /\ pc[t] # "unsent" /\ req[t] \in Request /\ req' = req /\ pc'[t] # "unsent"
  BY StepKeepsTurns DEF TypeInv, Posted, Kept, NoneSent
<1>2. req[t].session \in Sessions /\ req[t].instance \in Instances
  BY <1>1 DEF Request
<1>3. TranscriptOwn' /\ HistoryOwn'
  BY <1>1, UnchangedStaysOwn
<1>4. StoreOwn'
  <2>1. CASE Finish(t)
    <3>1. store' = append(req[t].instance, req[t].session, [role |-> "assistant", turn |-> t])
      BY <2>1 DEF Finish
    <3>2. Known(t, req[t].session)'
      BY <1>1 DEF Known
    <3> QED
      BY <1>1, <1>2, <3>1, <3>2, AppendStaysOwn DEF Entry, Known
  <2>2. CASE ~Finish(t)
    <3>1. store' = store
      BY <2>2 DEF TurnStep, ShowOptions, RememberOptions, ModelSearches, ModelRemembers,
                  SendResolves, ModelShows, ResolveOptions, Book, Summarise, ModelSummary,
                  ModelBooks, ModelReplies, ModelFails
    <3> QED  BY <1>1, <3>1, UnchangedStaysOwn
  <2> QED  BY <2>1, <2>2
<1>5. MemoryOwn'
  <2>1. ASSUME NEW o, SearchedFor(req[t].session, o.place)',
               lastOptions' = [lastOptions EXCEPT ![req[t].instance][req[t].session] = o]
        PROVE  MemoryOwn'
    <3> SUFFICES ASSUME NEW i \in Instances, NEW s \in Sessions, lastOptions'[i][s] # None
                 PROVE  SearchedFor(s, lastOptions[i][s].place)'
      BY DEF MemoryOwn
    <3>1. CASE i = req[t].instance /\ s = req[t].session
      <4>1. lastOptions'[i][s] = o
        BY <2>1, <3>1 DEF TypeInv, TypeOK
      <4> QED
        BY <1>1, <2>1, <3>1, <4>1 DEF SearchedFor, IsSearch
    <3>2. CASE ~(i = req[t].instance /\ s = req[t].session)
      <4>1. lastOptions'[i][s] = lastOptions[i][s]
        BY <2>1, <3>2 DEF TypeInv, TypeOK
      <4> QED
        BY <1>1, <4>1 DEF OwnInv, MemoryOwn, SearchedFor, IsSearch, Kept
    <3> QED  BY <3>1, <3>2
  <2>2. CASE RememberOptions(t)
    <3>1. PICK place \in Covered : IsSearch(t) /\ place = req[t].message.place
      BY <2>2 DEF RememberOptions, TypeInv, StepsHoldOptions
    <3>2. Shown(place).place = place /\ SearchedFor(req[t].session, place)'
      BY <1>1, <3>1, ShownIsAnAnswer DEF SearchedFor, IsSearch
    <3>3. SearchedFor(req[t].session, Shown(place).place)'
      BY <3>2 DEF SearchedFor, IsSearch, Shown, searchTravel, prioritiseByPreferredAirlines
    <3>4. lastOptions' = [lastOptions EXCEPT ![req[t].instance][req[t].session] = Shown(place)]
      BY <2>2, <3>1 DEF RememberOptions
    <3> QED  BY <2>1, <3>3, <3>4
  <2>3. CASE ModelRemembers(t)
    <3>1. PICK o \in OptionLists : o = options[t] /\ o # None
      BY <2>3 DEF ModelRemembers, TypeInv, TypeOK, StepsHoldOptions
    <3>2. SearchedFor(req[t].session, o.place)
      BY <3>1 DEF OwnInv, OptionsOwn
    <3>3. SearchedFor(req[t].session, o.place)'
      BY <1>1, <3>2 DEF SearchedFor, IsSearch, Kept
    <3> QED  BY <2>1, <2>3, <3>1, <3>3 DEF ModelRemembers
  <2>4. CASE ~RememberOptions(t) /\ ~ModelRemembers(t)
    <3>1. lastOptions' = lastOptions
      BY <2>4 DEF TurnStep, ShowOptions, ModelSearches, SendResolves, ModelShows, ResolveOptions,
                  Book, Summarise, ModelSummary, ModelBooks, ModelReplies, ModelFails, Finish
    <3> QED  BY <1>1, <3>1, UnchangedStaysOwn
  <2> QED  BY <2>2, <2>3, <2>4
<1>6. OptionsOwn'
  <2>1. CASE ResolveOptions(t)
    <3>1. PICK o \in OptionLists \cup {None} :
             Resolved(t, o) /\ options' = [options EXCEPT ![t] = o]
      BY <2>1 DEF ResolveOptions
    <3>2. o # None => SearchedFor(req[t].session, o.place)'
      BY <1>1, <3>1, ResolvedIsOwn, SearchedForIsKept DEF SearchedFor, IsSearch, Kept
    <3> SUFFICES ASSUME NEW u \in Turns, options'[u] # None
                 PROVE  pc'[u] # "unsent" /\ SearchedFor(req[u].session, options[u].place)'
      BY DEF OptionsOwn
    <3>3. CASE u = t
      <4>1. options'[u] = o
        BY <3>1, <3>3 DEF TypeInv, TypeOK
      <4> QED
        BY <1>1, <3>2, <3>3, <4>1 DEF SearchedFor, IsSearch
    <3>4. CASE u # t
      <4>1. options'[u] = options[u]
        BY <3>1, <3>4 DEF TypeInv, TypeOK
      <4> QED
        BY <1>1, <4>1 DEF OwnInv, OptionsOwn, SearchedFor, IsSearch, Kept
    <3> QED  BY <3>3, <3>4
  <2>2. CASE ShowOptions(t)
    <3>1. options' = [options EXCEPT ![t] = None]
      BY <2>2 DEF ShowOptions
    <3> SUFFICES ASSUME NEW u \in Turns, options'[u] # None
                 PROVE  pc'[u] # "unsent" /\ SearchedFor(req[u].session, options[u].place)'
      BY DEF OptionsOwn
    <3>2. options'[u] = options[u]
      BY <3>1 DEF TypeInv, TypeOK
    <3> QED
      BY <1>1, <3>2 DEF OwnInv, OptionsOwn, SearchedFor, IsSearch, Kept
  <2>3. ASSUME NEW place \in Covered, ModelSearches(t, place) PROVE OptionsOwn'
    <3>1. /\ options' = [options EXCEPT ![t] = Shown(place)]
          /\ search' = [search EXCEPT ![t] = "running"]
      BY <2>3 DEF ModelSearches
    <3>2. Shown(place) \in OptionLists /\ Shown(place).place = place
      BY ShownIsAnAnswer
    <3> SUFFICES ASSUME NEW u \in Turns, options'[u] # None
                 PROVE  pc'[u] # "unsent" /\ SearchedFor(req[u].session, options[u].place)'
      BY DEF OptionsOwn
    <3>3. CASE u = t
      <4>1. options'[t] = Shown(place) /\ search'[t] = "running"
        BY <3>1 DEF TypeInv, TypeOK
      <4> QED
        BY <1>1, <3>3, <4>1 DEF SearchedFor
    <3>4. CASE u # t
      <4>1. options'[u] = options[u]
        BY <3>1, <3>4 DEF TypeInv, TypeOK
      <4> QED
        BY <1>1, <4>1 DEF OwnInv, OptionsOwn, SearchedFor, IsSearch, Kept
    <3> QED  BY <3>3, <3>4
  <2>4. CASE options' = options
    BY <1>1, <2>4, UnchangedStaysOwn
  <2> QED
    BY <2>1, <2>2, <2>3, <2>4 DEF TurnStep, RememberOptions, ModelRemembers, SendResolves,
       ModelShows, Book, Summarise, ModelSummary, ModelBooks, ModelReplies, ModelFails, Finish
<1>7. OutOwn'
  <2>1. ASSUME NEW value, out' = [out EXCEPT ![t] = value],
               value # None => SearchedFor(req[t].session, value.place)
        PROVE  OutOwn'
    <3>1. \A u \in Turns : out'[u] = IF u = t THEN value ELSE out[u]
      BY <2>1 DEF TypeInv, TypeOK
    <3> QED
      BY <1>1, <2>1, <3>1 DEF OwnInv, OutOwn, SearchedFor, IsSearch, Kept
  <2>2. \A o \in OptionLists, sel \in Selection \cup {FirstOfEach} : Pick(o, sel).place = o.place
    BY PickIsAnItinerary
  <2>3. CASE Book(t)
    <3>1. options[t] \in OptionLists /\ options[t] # None /\ req[t].message.kind = "book"
      BY <2>3 DEF Book, TypeInv, TypeOK, StepsHoldOptions
    <3>2. bookingSelectionFromMessage(req[t].message) \in Selection
      BY <1>1, <3>1, BookMessages DEF Request
    <3>3. SearchedFor(req[t].session, options[t].place)
      BY <3>1 DEF OwnInv, OptionsOwn
    <3> QED
      BY <2>1, <2>2, <2>3, <3>1, <3>2, <3>3 DEF Book
  <2>4. CASE Summarise(t)
    <3>1. options[t] \in OptionLists /\ options[t] # None
      BY <2>4 DEF Summarise, TypeInv, TypeOK, StepsHoldOptions
    <3>2. Recalled(t) \in Selection \cup {FirstOfEach}
      BY <1>1, RecalledIsTyped DEF TypeInv
    <3>3. SearchedFor(req[t].session, options[t].place)
      BY <3>1 DEF OwnInv, OptionsOwn
    <3> QED
      BY <2>1, <2>2, <2>4, <3>1, <3>2, <3>3 DEF Summarise
  <2>5. CASE ModelSummary(t)
    <3>1. PICK o \in OptionLists \cup {None} :
             /\ Resolved(t, o)
             /\ out' = [out EXCEPT ![t] = IF o = None THEN None ELSE Pick(o, Recalled(t))]
      BY <2>5 DEF ModelSummary
    <3>2. Recalled(t) \in Selection \cup {FirstOfEach}
      BY <1>1, RecalledIsTyped DEF TypeInv
    <3>3. o # None => SearchedFor(req[t].session, o.place)
      BY <1>1, <3>1, ResolvedIsOwn
    <3> QED
      BY <2>1, <2>2, <3>1, <3>2, <3>3
  <2>6. ASSUME NEW f \in Positions, NEW h \in Positions,
               ModelBooks(t, [flight |-> f, hotel |-> h])
        PROVE  OutOwn'
    <3> DEFINE selection == [flight |-> f, hotel |-> h]
    <3>1. PICK o \in OptionLists :
             Resolved(t, o) /\ out' = [out EXCEPT ![t] = Pick(o, selection)]
      BY <2>6 DEF ModelBooks
    <3>2. selection \in Selection
      BY DEF Selection
    <3>3. Pick(o, selection).place = o.place
      BY <2>2, <3>2
    <3> HIDE DEF selection
    <3>4. SearchedFor(req[t].session, o.place)
      BY <1>1, <3>1, ResolvedIsOwn, NoneAssumption
    <3> QED  BY <2>1, <3>1, <3>3, <3>4
  <2>7. CASE out' = out
    BY <1>1, <2>7, UnchangedStaysOwn
  <2> QED
    BY <2>3, <2>4, <2>5, <2>6, <2>7 DEF TurnStep, ShowOptions, RememberOptions, ModelSearches,
       ModelRemembers, SendResolves, ModelShows, ResolveOptions, ModelReplies, ModelFails, Finish
<1> QED
  BY <1>3, <1>4, <1>5, <1>6, <1>7 DEF OwnInv

LEMMA OwnStep == TypeInv /\ TypeInv' /\ OwnInv /\ [Next]_vars => OwnInv'
<1> SUFFICES ASSUME TypeInv, TypeInv', OwnInv, [Next]_vars PROVE OwnInv'
  OBVIOUS
<1> USE DEF memory
<1>1. ASSUME NEW t \in Turns, NEW s \in Sessions, NEW i \in Instances,
             NEW m \in Message, NEW replay \in BOOLEAN, Post(t, s, i, m, replay)
      PROVE  OwnInv'
  BY <1>1, PostKeepsOwn
<1>2. ASSUME NEW t \in Turns, TurnStep(t) PROVE OwnInv'
  BY <1>2, TurnStepKeepsOwn
<1>3. ASSUME NEW s \in Sessions, Detach(s) PROVE OwnInv'
  <2>1. Kept /\ NoneSent
    BY <1>3 DEF Detach, Kept, NoneSent
  <2> QED
    BY <1>3, <2>1, UnchangedStaysOwn DEF Detach, OwnInv
<1>4. ASSUME NEW i \in Instances, Restart(i) PROVE OwnInv'
  <2>1. Kept /\ NoneSent
    BY <1>4 DEF Restart, Kept, NoneSent, InFlight, Settled, TypeInv, TypeOK
  <2>2. StoreOwn'
    <3> SUFFICES ASSUME NEW j \in Instances, NEW s \in Sessions, NEW k \in DOMAIN store'[j][s]
                 PROVE  Known(store[j][s][k].turn, s)'
      BY DEF StoreOwn
    <3>1. j # i /\ store'[j][s] = store[j][s]
      BY <1>4 DEF Restart, TypeInv, TypeOK
    <3>2. store[j][s][k] \in Entry
      BY <3>1 DEF TypeInv, TypeOK
    <3> QED
      BY <2>1, <3>1, <3>2 DEF OwnInv, StoreOwn, Known, Kept, Entry
  <2>3. MemoryOwn'
    BY <1>4, <2>1 DEF Restart, OwnInv, MemoryOwn, SearchedFor, IsSearch, Kept, TypeInv, TypeOK
  <2> QED
    BY <1>4, <2>1, <2>2, <2>3, UnchangedStaysOwn DEF Restart, OwnInv
<1>5. CASE UNCHANGED vars
  <2>1. Kept /\ NoneSent
    BY <1>5 DEF vars, Kept, NoneSent
  <2> QED
    BY <1>5, <2>1, UnchangedStaysOwn DEF vars, OwnInv
<1> QED
  BY <1>1, <1>2, <1>3, <1>4, <1>5 DEF Next

\* Whatever instances, restarts, abandoned streams and overlapping turns do, a
\* booking, a summary and the remembered options of a session come from a search
\* made in that very session.
THEOREM SessionsKeepApart == Spec => []OwnSearches
<1>1. TypeInv /\ OwnInv => OwnSearches
  BY DEF OwnInv, OutOwn, MemoryOwn, OwnSearches
<1> QED
  BY <1>1, TypeInit, TypeStep, OwnInit, OwnStep, PTL DEF Spec

------------------------------------------------------------------------------
(* What a stored conversation holds: every reply once and after its message,  *)
(* whatever turns do; and directly after it as long as no stream is           *)
(* abandoned, so that the turns of a session follow each other.               *)

Asking(t) == [role |-> "user", turn |-> t]
Reply(t) == [role |-> "assistant", turn |-> t]

Conversation(t) == store[req[t].instance][req[t].session]

\* An entry is of a turn that was sent to this instance, in this session.
EntriesPosted ==
    \A i \in Instances, s \in Sessions : \A k \in DOMAIN store[i][s] :
        LET u == store[i][s][k].turn IN Known(u, s) /\ req[u].instance = i

\* A turn at work has its message in the conversation, and no reply yet.
RepliesAreOwed ==
    \A t \in Turns : InFlight(t) =>
        /\ \E k \in DOMAIN Conversation(t) : Conversation(t)[k] = Asking(t)
        /\ \A k \in DOMAIN Conversation(t) : Conversation(t)[k] # Reply(t)

\* The inductive invariant behind RepliesOnceAndAfterTheirMessage.
RepliesInv == EntriesPosted /\ RepliesAreOwed /\ RepliesOnceAndAfterTheirMessage

------------------------------------------------------------------------------
(* The steps, by what they do to the store. *)

\* No turn starts or goes on that had not been at work.
NoneStarts == \A u \in Turns : InFlight(u)' => InFlight(u)

\* The entry is appended to one conversation, and the others are left alone.
Recorded(i, s, entry) ==
    \A j \in Instances, r \in Sessions :
        store'[j][r] = IF j = i /\ r = s THEN Append(store[j][r], entry) ELSE store[j][r]

LEMMA AppendRecords ==
    ASSUME TypeInv, NEW i \in Instances, NEW s \in Sessions, NEW entry,
           store' = append(i, s, entry)
    PROVE  Recorded(i, s, entry)
  BY DEF TypeInv, TypeOK, append, Recorded

\* What a conversation holds after one more entry.
LEMMA AppendedEntries ==
    ASSUME NEW entries \in Seq(Entry), NEW entry \in Entry
    PROVE  /\ Append(entries, entry) \in Seq(Entry)
           /\ Len(entries) \in Nat /\ DOMAIN entries = 1 .. Len(entries)
           /\ DOMAIN Append(entries, entry) = 1 .. (Len(entries) + 1)
           /\ \A k \in 1 .. Len(entries) : Append(entries, entry)[k] = entries[k]
           /\ Append(entries, entry)[Len(entries) + 1] = entry
  OBVIOUS

LEMMA AppendedMembers ==
    ASSUME NEW entries \in Seq(Entry), NEW entry \in Entry, NEW x
    PROVE  /\ (\E k \in DOMAIN entries : entries[k] = x) =>
                  \E k \in DOMAIN Append(entries, entry) : Append(entries, entry)[k] = x
           /\ entry # x /\ (\A k \in DOMAIN entries : entries[k] # x) =>
                  \A k \in DOMAIN Append(entries, entry) : Append(entries, entry)[k] # x
<1> DEFINE longer == Append(entries, entry)
<1>1. /\ Len(entries) \in Nat /\ DOMAIN entries = 1 .. Len(entries)
      /\ DOMAIN longer = 1 .. (Len(entries) + 1)
      /\ \A k \in 1 .. Len(entries) : longer[k] = entries[k]
      /\ longer[Len(entries) + 1] = entry
  BY AppendedEntries
<1> HIDE DEF longer
<1>2. DOMAIN entries \subseteq DOMAIN longer
  BY <1>1
<1>3. \A k \in DOMAIN longer : k \in DOMAIN entries \/ k = Len(entries) + 1
  BY <1>1
<1>4. \A k \in DOMAIN entries : longer[k] = entries[k]
  BY <1>1
<1> QED
  BY <1>1, <1>2, <1>3, <1>4 DEF longer

\* A post, seen from the store and from the turns at work.
LEMMA PostRecords ==
    ASSUME TypeInv, NEW t \in Turns, NEW s \in Sessions, NEW i \in Instances,
           NEW m \in Message, NEW replay \in BOOLEAN, Post(t, s, i, m, replay)
    PROVE  /\ pc[t] = "unsent" /\ awaiting[s] = None
           /\ Recorded(i, s, Asking(t))
           /\ Kept /\ Known(t, s)' /\ req'[t].instance = i
           /\ \A u \in Turns : u # t => req'[u] = req[u] /\ (InFlight(u)' <=> InFlight(u))
           /\ awaiting' = [awaiting EXCEPT ![s] = t]
<1> DEFINE prior == IF Surface = "responses" /\ replay /\ transcript[s] # <<>>
                    THEN [k \in DOMAIN transcript[s] |-> [role |-> "user", turn |-> transcript[s][k]]]
                    ELSE store[i][s]
           request == [session |-> s, instance |-> i, message |-> m,
                       history |-> prior, wanted |-> shown[s]]
<1>1. /\ pc[t] = "unsent" /\ awaiting[s] = None
      /\ store' = append(i, s, Asking(t))
      /\ req' = [req EXCEPT ![t] = request]
      /\ pc' = [pc EXCEPT ![t] = FirstStep(m, prior)]
      /\ awaiting' = [awaiting EXCEPT ![s] = t]
      /\ search' = search /\ \A u \in Turns : u # t => options'[u] = options[u]
  BY DEF Post, Asking, TypeInv, TypeOK
<1>2. request.session = s /\ request.instance = i
  OBVIOUS
<1> HIDE DEF prior, request
<1>3. FirstStep(m, prior) # "unsent"
  BY DEF FirstStep
<1>4. Recorded(i, s, Asking(t))
  BY <1>1, AppendRecords
<1>5. /\ Kept /\ Known(t, s)' /\ req'[t].instance = i
      /\ \A u \in Turns : u # t => req'[u] = req[u] /\ pc'[u] = pc[u]
  BY <1>1, <1>2, <1>3 DEF Kept, Known, TypeInv, TypeOK
<1> QED
  BY <1>1, <1>4, <1>5 DEF InFlight

\* The last step of a turn, likewise.
LEMMA FinishRecords ==
    ASSUME TypeInv, NEW t \in Turns, Finish(t)
    PROVE  /\ InFlight(t) /\ ~InFlight(t)'
           /\ req[t] \in Request
           /\ Recorded(req[t].instance, req[t].session, Reply(t))
           /\ Kept /\ NoneSent /\ NoneStarts
<1> USE DEF Step
<1>1. pc[t] = "replying" /\ req[t] \in Request
  BY DEF Finish, TypeInv, Posted
<1>2. req[t].instance \in Instances /\ req[t].session \in Sessions
  BY <1>1 DEF Request
<1>3. store' = append(req[t].instance, req[t].session, Reply(t))
  BY DEF Finish, Reply
<1>4. Recorded(req[t].instance, req[t].session, Reply(t))
  BY <1>2, <1>3, AppendRecords
<1> QED
  BY <1>1, <1>4 DEF Finish, InFlight, TypeInv, TypeOK, Kept, NoneSent, NoneStarts

\* The other steps of a turn leave the store alone, and start none.
LEMMA OtherStepsKeepTheStore ==
    ASSUME TypeInv, NEW t \in Turns, TurnStep(t), ~Finish(t)
    PROVE  store' = store /\ Kept /\ NoneSent /\ NoneStarts
<1> USE DEF memory, Step
<1>1. Kept /\ NoneSent
  BY StepKeepsTurns
<1>2. store' = store /\ (InFlight(t) \/ pc' = pc)
  BY DEF TurnStep, ShowOptions, RememberOptions, ModelSearches, AtWork, ModelRemembers,
         SendResolves, ModelShows, ResolveOptions, Book, Summarise, ModelSummary, ModelBooks,
         ModelReplies, ModelFails, InFlight
<1>3. \A u \in Turns : u # t => pc'[u] = pc[u]
  BY DEF TurnStep, ShowOptions, RememberOptions, ModelSearches, ModelRemembers, SendResolves,
         ModelShows, ResolveOptions, Book, Summarise, ModelSummary, ModelBooks, ModelReplies,
         ModelFails, TypeInv, TypeOK
<1> QED
  BY <1>1, <1>2, <1>3 DEF NoneStarts, InFlight

------------------------------------------------------------------------------
(* Every reply once, and after its message. *)

LEMMA RepliesInit == Init => RepliesInv
  BY DEF Init, RepliesInv, EntriesPosted, RepliesAreOwed, RepliesOnceAndAfterTheirMessage,
         InFlight

LEMMA StoredEntries ==
    ASSUME TypeInv, NEW i \in Instances, NEW s \in Sessions
    PROVE  /\ store[i][s] \in Seq(Entry)
           /\ \A k \in DOMAIN store[i][s] : store[i][s][k] \in Entry /\ store[i][s][k].turn \in Turns
<1>1. store[i][s] \in Seq(Entry)
  BY DEF TypeInv, TypeOK
<1>2. \A k \in DOMAIN store[i][s] : store[i][s][k] \in Entry
  BY <1>1
<1> QED
  BY <1>1, <1>2 DEF Entry

LEMMA SameStoreKeepsReplies ==
    ASSUME TypeInv, RepliesInv, store' = store, Kept, NoneSent, NoneStarts
    PROVE  RepliesInv'
<1>1. EntriesPosted'
  <2> SUFFICES ASSUME NEW i \in Instances, NEW s \in Sessions, NEW k \in DOMAIN store[i][s]
               PROVE  Known(store[i][s][k].turn, s)' /\ req'[store[i][s][k].turn].instance = i
    BY DEF EntriesPosted
  <2> QED
    BY StoredEntries DEF RepliesInv, EntriesPosted, Known, Kept
<1>2. RepliesAreOwed'
  BY DEF RepliesInv, RepliesAreOwed, Conversation, NoneSent, NoneStarts
<1>3. RepliesOnceAndAfterTheirMessage'
  BY DEF RepliesInv, RepliesOnceAndAfterTheirMessage
<1> QED
  BY <1>1, <1>2, <1>3 DEF RepliesInv

\* An entry of a turn sent to the instance, in the session, is recorded.
LEMMA RecordKeepsEntries ==
    ASSUME TypeInv, EntriesPosted, Kept, NEW i \in Instances, NEW s \in Sessions,
           NEW entry \in Entry, Recorded(i, s, entry),
           Known(entry.turn, s)', req'[entry.turn].instance = i
    PROVE  EntriesPosted'
<1> SUFFICES ASSUME NEW j \in Instances, NEW r \in Sessions, NEW k \in DOMAIN store'[j][r]
             PROVE  Known(store[j][r][k].turn, r)' /\ req'[store'[j][r][k].turn].instance = j
  BY DEF EntriesPosted
<1>1. ASSUME k \in DOMAIN store[j][r], store'[j][r][k] = store[j][r][k]
      PROVE  Known(store[j][r][k].turn, r)' /\ req'[store'[j][r][k].turn].instance = j
  BY <1>1, StoredEntries DEF EntriesPosted, Known, Kept
<1>2. CASE j = i /\ r = s
  <2>1. store'[j][r] = Append(store[j][r], entry)
    BY <1>2 DEF Recorded
  <2>2. \/ k = Len(store[j][r]) + 1 /\ store'[j][r][k] = entry
        \/ k \in DOMAIN store[j][r] /\ store'[j][r][k] = store[j][r][k]
    BY <2>1, AppendedEntries, StoredEntries
  <2> QED
    BY <1>1, <1>2, <2>2
<1>3. CASE ~(j = i /\ r = s)
  BY <1>1, <1>3 DEF Recorded
<1> QED  BY <1>2, <1>3

\* A turn whose conversation grows by an entry that is not its reply is owed one still.
LEMMA RecordKeepsOwed ==
    ASSUME TypeInv, RepliesAreOwed, NEW i \in Instances, NEW s \in Sessions,
           NEW entry \in Entry, Recorded(i, s, entry),
           NEW u \in Turns, InFlight(u), req[u] \in Request, req'[u] = req[u],
           entry # Reply(u)
    PROVE  /\ \E k \in DOMAIN Conversation(u)' : Conversation(u)'[k] = Asking(u)
           /\ \A k \in DOMAIN Conversation(u)' : Conversation(u)'[k] # Reply(u)
<1>1. PICK j \in Instances, r \in Sessions : j = req[u].instance /\ r = req[u].session
  BY DEF Request
<1>2. Conversation(u) = store[j][r] /\ Conversation(u)' = store'[j][r]
  BY <1>1 DEF Conversation
<1>3. /\ \E k \in DOMAIN store[j][r] : store[j][r][k] = Asking(u)
      /\ \A k \in DOMAIN store[j][r] : store[j][r][k] # Reply(u)
  BY <1>2 DEF RepliesAreOwed
<1>4. CASE j = i /\ r = s
  <2>1. store'[j][r] = Append(store[j][r], entry)
    BY <1>1, <1>4 DEF Recorded
  <2>2. store[j][r] \in Seq(Entry)
    BY StoredEntries
  <2>3. /\ \E k \in DOMAIN store'[j][r] : store'[j][r][k] = Asking(u)
        /\ \A k \in DOMAIN store'[j][r] : store'[j][r][k] # Reply(u)
    BY <1>3, <2>1, <2>2, AppendedMembers
  <2> QED
    BY <1>2, <2>3
<1>5. CASE ~(j = i /\ r = s)
  <2>1. store'[j][r] = store[j][r]
    BY <1>1, <1>5 DEF Recorded
  <2> QED
    BY <1>2, <1>3, <2>1
<1> QED  BY <1>4, <1>5

\* An entry is recorded that is a message, or the first reply to one.
LEMMA RecordKeepsReplies ==
    ASSUME TypeInv, RepliesOnceAndAfterTheirMessage, NEW i \in Instances, NEW s \in Sessions,
           NEW entry \in Entry, Recorded(i, s, entry),
           entry.role = "assistant" =>
               /\ \E k \in DOMAIN store[i][s] : store[i][s][k] = Asking(entry.turn)
               /\ \A k \in DOMAIN store[i][s] : store[i][s][k] # entry
    PROVE  RepliesOnceAndAfterTheirMessage'
<1> SUFFICES ASSUME NEW j \in Instances, NEW r \in Sessions, NEW k \in DOMAIN store'[j][r],
                    store'[j][r][k].role = "assistant"
             PROVE  /\ \E n \in 1 .. (k - 1) : store'[j][r][n] = Asking(store'[j][r][k].turn)
                    /\ \A n \in 1 .. (k - 1) : store'[j][r][n] # store'[j][r][k]
  BY DEF RepliesOnceAndAfterTheirMessage, Asking
<1>1. /\ Len(store[j][r]) \in Nat /\ DOMAIN store[j][r] = 1 .. Len(store[j][r])
  BY AppendedEntries, StoredEntries
<1>2. ASSUME k \in DOMAIN store[j][r],
             \A n \in DOMAIN store[j][r] : store'[j][r][n] = store[j][r][n]
      PROVE  /\ \E n \in 1 .. (k - 1) : store'[j][r][n] = Asking(store'[j][r][k].turn)
             /\ \A n \in 1 .. (k - 1) : store'[j][r][n] # store'[j][r][k]
  <2>1. /\ store'[j][r][k] = store[j][r][k]
        /\ \A n \in 1 .. (k - 1) : n \in DOMAIN store[j][r] /\ store'[j][r][n] = store[j][r][n]
    BY <1>1, <1>2
  <2>2. /\ \E n \in 1 .. (k - 1) : store[j][r][n] = Asking(store[j][r][k].turn)
        /\ \A n \in 1 .. (k - 1) : store[j][r][n] # store[j][r][k]
    BY <1>2, <2>1 DEF RepliesOnceAndAfterTheirMessage, Asking
  <2> QED
    BY <2>1, <2>2
<1>3. CASE j = i /\ r = s
  <2>1. store'[j][r] = Append(store[j][r], entry)
    BY <1>3 DEF Recorded
  <2>2. /\ DOMAIN store'[j][r] = 1 .. (Len(store[j][r]) + 1)
        /\ \A n \in DOMAIN store[j][r] : store'[j][r][n] = store[j][r][n]
        /\ store'[j][r][Len(store[j][r]) + 1] = entry
    BY <2>1, AppendedEntries, StoredEntries
  <2>3. CASE k = Len(store[j][r]) + 1
    <3>1. store'[j][r][k] = entry /\ 1 .. (k - 1) = DOMAIN store[j][r]
      BY <1>1, <2>2, <2>3
    <3> QED
      BY <1>3, <2>2, <3>1
  <2>4. CASE k # Len(store[j][r]) + 1
    BY <1>1, <1>2, <2>2, <2>4
  <2> QED  BY <2>3, <2>4
<1>4. CASE ~(j = i /\ r = s)
  BY <1>2, <1>4 DEF Recorded
<1> QED  BY <1>3, <1>4

LEMMA RepliesStep == TypeInv /\ [Next]_vars => (RepliesInv => RepliesInv')
<1> SUFFICES ASSUME TypeInv, RepliesInv, [Next]_vars PROVE RepliesInv'
  OBVIOUS
<1> USE DEF memory
<1>1. ASSUME NEW t \in Turns, NEW s \in Sessions, NEW i \in Instances,
             NEW m \in Message, NEW replay \in BOOLEAN, Post(t, s, i, m, replay)
      PROVE  RepliesInv'
  <2>1. /\ pc[t] = "unsent" /\ Recorded(i, s, Asking(t))
        /\ Kept /\ Known(t, s)' /\ req'[t].instance = i
        /\ \A u \in Turns : u # t => req'[u] = req[u] /\ (InFlight(u)' <=> InFlight(u))
    BY <1>1, PostRecords
  <2>2. Asking(t) \in Entry /\ Asking(t).turn = t /\ Asking(t).role = "user"
    BY DEF Asking, Entry
  <2>3. EntriesPosted'
    BY <2>1, <2>2, RecordKeepsEntries DEF RepliesInv
  <2>4. RepliesOnceAndAfterTheirMessage'
    BY <2>1, <2>2, RecordKeepsReplies DEF RepliesInv
  <2>5. RepliesAreOwed'
    <3> SUFFICES ASSUME NEW u \in Turns, InFlight(u)'
                 PROVE  /\ \E k \in DOMAIN Conversation(u)' : Conversation(u)'[k] = Asking(u)
                        /\ \A k \in DOMAIN Conversation(u)' : Conversation(u)'[k] # Reply(u)
      BY DEF RepliesAreOwed, Asking, Reply
    <3>1. CASE u = t
      <4>1. Conversation(t)' = Append(store[i][s], Asking(t))
        BY <2>1 DEF Conversation, Known, Recorded
      <4>2. \A k \in DOMAIN store[i][s] : store[i][s][k] # Reply(t)
        BY <2>1 DEF RepliesInv, EntriesPosted, Known, Reply
      <4>3. Asking(t) # Reply(t)
        BY DEF Asking, Reply
      <4> QED
        BY <2>2, <3>1, <4>1, <4>2, <4>3, AppendedEntries, StoredEntries
    <3>2. CASE u # t
      <4>1. InFlight(u) /\ req'[u] = req[u]
        BY <2>1, <3>2
      <4>2. req[u] \in Request
        BY <4>1 DEF InFlight, TypeInv, Posted
      <4>3. Asking(t) # Reply(u)
        BY DEF Asking, Reply
      <4> QED
        BY <2>1, <2>2, <4>1, <4>2, <4>3, RecordKeepsOwed DEF RepliesInv
    <3> QED  BY <3>1, <3>2
  <2> QED
    BY <2>3, <2>4, <2>5 DEF RepliesInv
<1>2. ASSUME NEW t \in Turns, Finish(t) PROVE RepliesInv'
  <2>1. /\ InFlight(t) /\ ~InFlight(t)' /\ req[t] \in Request
        /\ Recorded(req[t].instance, req[t].session, Reply(t))
        /\ Kept /\ NoneSent /\ NoneStarts
    BY <1>2, FinishRecords
  <2>2. PICK i \in Instances, s \in Sessions : i = req[t].instance /\ s = req[t].session
    BY <2>1 DEF Request
  <2>3. Reply(t) \in Entry /\ Reply(t).turn = t /\ Reply(t).role = "assistant"
    BY DEF Reply, Entry
  <2>4. EntriesPosted'
    <3>1. Known(t, s)' /\ req'[t].instance = i
      BY <2>1, <2>2 DEF Known, Kept, NoneSent, InFlight
    <3> QED
      BY <2>1, <2>2, <2>3, <3>1, RecordKeepsEntries DEF RepliesInv
  <2>5. RepliesOnceAndAfterTheirMessage'
    <3>1. /\ \E k \in DOMAIN store[i][s] : store[i][s][k] = Asking(t)
          /\ \A k \in DOMAIN store[i][s] : store[i][s][k] # Reply(t)
      BY <2>1, <2>2 DEF RepliesInv, RepliesAreOwed, Conversation
    <3> QED
      BY <2>1, <2>2, <2>3, <3>1, RecordKeepsReplies DEF RepliesInv
  <2>6. RepliesAreOwed'
    <3> SUFFICES ASSUME NEW u \in Turns, InFlight(u)'
                 PROVE  /\ \E k \in DOMAIN Conversation(u)' : Conversation(u)'[k] = Asking(u)
                        /\ \A k \in DOMAIN Conversation(u)' : Conversation(u)'[k] # Reply(u)
      BY DEF RepliesAreOwed, Asking, Reply
    <3>1. u # t /\ InFlight(u) /\ req'[u] = req[u] /\ req[u] \in Request
      BY <2>1 DEF NoneStarts, NoneSent, InFlight, TypeInv, Posted
    <3>2. Reply(t) # Reply(u)
      BY <3>1 DEF Reply
    <3> QED
      BY <2>1, <2>2, <2>3, <3>1, <3>2, RecordKeepsOwed DEF RepliesInv
  <2> QED
    BY <2>4, <2>5, <2>6 DEF RepliesInv
<1>3. ASSUME NEW t \in Turns, TurnStep(t), ~Finish(t) PROVE RepliesInv'
  BY <1>3, OtherStepsKeepTheStore, SameStoreKeepsReplies
<1>4. ASSUME NEW s \in Sessions, Detach(s) PROVE RepliesInv'
  <2>1. store' = store /\ Kept /\ NoneSent /\ NoneStarts
    BY <1>4 DEF Detach, Kept, NoneSent, NoneStarts, InFlight
  <2> QED
    BY <2>1, SameStoreKeepsReplies
<1>5. ASSUME NEW i \in Instances, Restart(i) PROVE RepliesInv'
  <2>1. /\ \A j \in Instances, r \in Sessions :
              store'[j][r] = IF j = i THEN <<>> ELSE store[j][r]
        /\ req' = req /\ Kept
        /\ \A u \in Turns : InFlight(u)' => InFlight(u) /\ req[u].instance # i
    BY <1>5 DEF Restart, Kept, InFlight, Settled, TypeInv, TypeOK
  <2>2. EntriesPosted'
    <3> SUFFICES ASSUME NEW j \in Instances, NEW r \in Sessions, NEW k \in DOMAIN store'[j][r]
                 PROVE  Known(store[j][r][k].turn, r)' /\ req'[store'[j][r][k].turn].instance = j
      BY DEF EntriesPosted
    <3>1. store'[j][r] = store[j][r]
      BY <2>1
    <3> QED
      BY <2>1, <3>1, StoredEntries DEF RepliesInv, EntriesPosted, Known, Kept
  <2>3. RepliesAreOwed'
    <3> SUFFICES ASSUME NEW u \in Turns, InFlight(u)'
                 PROVE  /\ \E k \in DOMAIN Conversation(u)' : Conversation(u)'[k] = Asking(u)
                        /\ \A k \in DOMAIN Conversation(u)' : Conversation(u)'[k] # Reply(u)
      BY DEF RepliesAreOwed, Asking, Reply
    <3>1. InFlight(u) /\ req[u].instance # i /\ req[u] \in Request
      BY <2>1 DEF InFlight, TypeInv, Posted
    <3>2. Conversation(u)' = Conversation(u)
      BY <2>1, <3>1 DEF Conversation, Request
    <3> QED
      BY <3>1, <3>2 DEF RepliesInv, RepliesAreOwed
  <2>4. RepliesOnceAndAfterTheirMessage'
    <3> SUFFICES ASSUME NEW j \in Instances, NEW r \in Sessions, NEW k \in DOMAIN store'[j][r]
                 PROVE  RepliesOnceAndAfterTheirMessage!(j, r)!(k)'
      BY DEF RepliesOnceAndAfterTheirMessage
    <3>1. store'[j][r] = store[j][r]
      BY <2>1
    <3> QED
      BY <3>1 DEF RepliesInv, RepliesOnceAndAfterTheirMessage
  <2> QED
    BY <2>2, <2>3, <2>4 DEF RepliesInv
<1>6. CASE UNCHANGED vars
  <2>1. store' = store /\ Kept /\ NoneSent /\ NoneStarts
    BY <1>6 DEF vars, Kept, NoneSent, NoneStarts, InFlight
  <2> QED
    BY <2>1, SameStoreKeepsReplies
<1> QED
  BY <1>1, <1>2, <1>3, <1>4, <1>5, <1>6 DEF Next

\* Whatever turns overlap, are abandoned or are lost with their instance, a
\* stored conversation holds a reply only after the message it answers, and once.
THEOREM RepliesOnce == Spec => []RepliesOnceAndAfterTheirMessage
<1>1. RepliesInv => RepliesOnceAndAfterTheirMessage
  BY DEF RepliesInv
<1> QED
  BY <1>1, TypeInit, TypeStep, RepliesInit, RepliesStep, PTL DEF Spec

------------------------------------------------------------------------------
(* Without abandoned streams.  A session is waiting for its turn at work, so  *)
(* it has one at most, and a message is the last entry until it is answered.  *)

Attended == \A t \in Turns : InFlight(t) => awaiting[req[t].session] = t

AskedLast ==
    \A t \in Turns : InFlight(t) =>
        Conversation(t) # <<>> /\ Conversation(t)[Len(Conversation(t))] = Asking(t)

\* The inductive invariant behind RepliesFollowTheirMessages.
OrderInv == Attended /\ AskedLast /\ RepliesFollowTheirMessages

\* Turns of one session do not overlap.
LEMMA OneAtATime ==
    ASSUME Attended, NEW t \in Turns, NEW u \in Turns, InFlight(t), InFlight(u),
           req[t].session = req[u].session
    PROVE  t = u
  BY DEF Attended

\* A step of another turn does not make a session stop waiting for its own.
LEMMA StepKeepsWaiting ==
    ASSUME TypeInv, NEW t \in Turns, TurnStep(t), NEW s \in Sessions,
           awaiting[s] # t \/ InFlight(t)'
    PROVE  awaiting'[s] = awaiting[s]
<1> USE DEF memory, Step
<1>1. CASE awaiting[s] # t
  BY <1>1 DEF TurnStep, ShowOptions, RememberOptions, ModelSearches, ModelRemembers,
     SendResolves, ModelShows, ResolveOptions, Book, Summarise, ModelSummary, ModelBooks,
     ModelReplies, ModelFails, Finish, Release
<1>2. CASE InFlight(t)'
  <2>1. ~ModelFails(t) /\ ~Finish(t)
    BY <1>2 DEF ModelFails, Finish, InFlight, TypeInv, TypeOK
  <2> QED
    BY <2>1 DEF TurnStep, ShowOptions, RememberOptions, ModelSearches, ModelRemembers,
       SendResolves, ModelShows, ResolveOptions, Book, Summarise, ModelSummary, ModelBooks,
       ModelReplies
<1> QED  BY <1>1, <1>2

\* A turn that goes on had been at work, and its session waits for it.
LEMMA AttendedStep ==
    ASSUME ~CanDetach, TypeInv, Attended, [Next]_vars
    PROVE  Attended'
<1> USE DEF memory
<1> SUFFICES ASSUME NEW u \in Turns, InFlight(u)' PROVE awaiting'[req'[u].session] = u
  BY DEF Attended
<1>1. ASSUME InFlight(u) PROVE req[u] \in Request /\ req[u].session \in Sessions
  BY <1>1 DEF InFlight, TypeInv, Posted, Request
<1>2. ASSUME NEW t \in Turns, NEW s \in Sessions, NEW i \in Instances,
             NEW m \in Message, NEW replay \in BOOLEAN, Post(t, s, i, m, replay)
      PROVE  awaiting'[req'[u].session] = u
  <2>1. /\ awaiting[s] = None /\ awaiting' = [awaiting EXCEPT ![s] = t] /\ Known(t, s)'
        /\ \A v \in Turns : v # t => req'[v] = req[v] /\ (InFlight(v)' <=> InFlight(v))
    BY <1>2, PostRecords
  <2>2. CASE u = t
    BY <2>1, <2>2 DEF Known, TypeInv, TypeOK
  <2>3. CASE u # t
    <3>1. InFlight(u) /\ req'[u] = req[u] /\ awaiting[req[u].session] = u
      BY <2>1, <2>3 DEF Attended
    <3>2. req[u].session # s
      BY <2>1, <3>1, TripAssumption
    <3> QED
      BY <1>1, <2>1, <3>1, <3>2 DEF TypeInv, TypeOK
  <2> QED  BY <2>2, <2>3
<1>3. ASSUME NEW t \in Turns, TurnStep(t) PROVE awaiting'[req'[u].session] = u
  <2>1. NoneSent /\ NoneStarts
    BY <1>3, FinishRecords, OtherStepsKeepTheStore
  <2>2. InFlight(u) /\ req'[u] = req[u] /\ awaiting[req[u].session] = u
    BY <2>1 DEF NoneSent, NoneStarts, Attended
  <2> QED
    BY <1>1, <1>3, <2>2, StepKeepsWaiting
<1>4. ASSUME NEW i \in Instances, Restart(i) PROVE awaiting'[req'[u].session] = u
  <2>1. InFlight(u) /\ req' = req /\ req[u].instance # i
    BY <1>4 DEF Restart, InFlight, TypeInv, TypeOK
  <2>2. awaiting[req[u].session] = u /\ req[u].session \in Sessions
    BY <1>1, <2>1 DEF Attended
  <2> QED
    BY <1>4, <2>1, <2>2 DEF Restart
<1>5. CASE UNCHANGED vars
  BY <1>5 DEF vars, Attended, InFlight
<1> QED
  BY <1>2, <1>3, <1>4, <1>5 DEF Next, Detach

\* A message is recorded, or the reply to the one recorded last.
LEMMA RecordKeepsOrder ==
    ASSUME TypeInv, RepliesFollowTheirMessages, NEW i \in Instances, NEW s \in Sessions,
           NEW entry \in Entry, Recorded(i, s, entry),
           entry.role = "assistant" =>
               store[i][s] # <<>> /\ store[i][s][Len(store[i][s])] = Asking(entry.turn)
    PROVE  RepliesFollowTheirMessages'
<1> SUFFICES ASSUME NEW j \in Instances, NEW r \in Sessions, NEW k \in DOMAIN store'[j][r],
                    store'[j][r][k].role = "assistant"
             PROVE  k > 1 /\ store'[j][r][k - 1] = Asking(store'[j][r][k].turn)
  BY DEF RepliesFollowTheirMessages, Asking
<1>1. /\ Len(store[j][r]) \in Nat /\ DOMAIN store[j][r] = 1 .. Len(store[j][r])
      /\ store[j][r] # <<>> => Len(store[j][r]) > 0
  BY StoredEntries
<1>2. ASSUME k \in DOMAIN store[j][r],
             \A n \in DOMAIN store[j][r] : store'[j][r][n] = store[j][r][n]
      PROVE  k > 1 /\ store'[j][r][k - 1] = Asking(store'[j][r][k].turn)
  <2>1. k > 1 /\ store[j][r][k - 1] = Asking(store[j][r][k].turn)
    BY <1>2 DEF RepliesFollowTheirMessages, Asking
  <2>2. k - 1 \in DOMAIN store[j][r]
    BY <1>1, <1>2, <2>1
  <2> QED
    BY <1>2, <2>1, <2>2
<1>3. CASE j = i /\ r = s
  <2>1. store'[j][r] = Append(store[j][r], entry)
    BY <1>3 DEF Recorded
  <2>2. /\ DOMAIN store'[j][r] = 1 .. (Len(store[j][r]) + 1)
        /\ \A n \in DOMAIN store[j][r] : store'[j][r][n] = store[j][r][n]
        /\ store'[j][r][Len(store[j][r]) + 1] = entry
    BY <2>1, AppendedEntries, StoredEntries
  <2>3. CASE k = Len(store[j][r]) + 1
    <3>1. store'[j][r][k] = entry /\ k - 1 = Len(store[j][r])
      BY <1>1, <2>2, <2>3
    <3>2. store[j][r] # <<>> /\ store[j][r][k - 1] = Asking(entry.turn)
      BY <1>3, <3>1
    <3>3. k > 1 /\ k - 1 \in DOMAIN store[j][r]
      BY <1>1, <2>3, <3>2
    <3> QED
      BY <2>2, <3>1, <3>2, <3>3
  <2>4. CASE k # Len(store[j][r]) + 1
    BY <1>1, <1>2, <2>2, <2>4
  <2> QED  BY <2>3, <2>4
<1>4. CASE ~(j = i /\ r = s)
  BY <1>2, <1>4 DEF Recorded
<1> QED  BY <1>3, <1>4

\* A conversation that is left alone goes on ending in its message.
LEMMA SameStoreKeepsOrder ==
    ASSUME TypeInv, AskedLast, RepliesFollowTheirMessages, store' = store, NoneSent, NoneStarts
    PROVE  AskedLast' /\ RepliesFollowTheirMessages'
<1>1. AskedLast'
  BY DEF AskedLast, Conversation, NoneSent, NoneStarts, Asking
<1>2. RepliesFollowTheirMessages'
  BY DEF RepliesFollowTheirMessages
<1> QED  BY <1>1, <1>2

LEMMA OrderInit == Init => OrderInv
  BY DEF Init, OrderInv, Attended, AskedLast, RepliesFollowTheirMessages, InFlight

LEMMA OrderStep ==
    ASSUME ~CanDetach, TypeInv, OrderInv, [Next]_vars
    PROVE  OrderInv'
<1> USE DEF memory
<1>1. Attended' /\ Attended /\ AskedLast /\ RepliesFollowTheirMessages
  BY AttendedStep DEF OrderInv
<1> SUFFICES AskedLast' /\ RepliesFollowTheirMessages'
  BY <1>1 DEF OrderInv
\* The turns of other sessions have conversations of their own.
<1>2. ASSUME NEW u \in Turns, InFlight(u), req[u] \in Request, req'[u] = req[u],
             NEW i \in Instances, NEW s \in Sessions, NEW entry, Recorded(i, s, entry),
             req[u].session # s
      PROVE  Conversation(u)' # <<>> /\ Conversation(u)'[Len(Conversation(u)')] = Asking(u)
  <2>1. Conversation(u)' = Conversation(u)
    BY <1>2 DEF Conversation, Recorded, Request
  <2> QED
    BY <1>1, <1>2, <2>1 DEF AskedLast
<1>3. ASSUME NEW t \in Turns, NEW s \in Sessions, NEW i \in Instances,
             NEW m \in Message, NEW replay \in BOOLEAN, Post(t, s, i, m, replay)
      PROVE  AskedLast' /\ RepliesFollowTheirMessages'
  <2>1. /\ awaiting[s] = None /\ Recorded(i, s, Asking(t))
        /\ Known(t, s)' /\ req'[t].instance = i
        /\ \A u \in Turns : u # t => req'[u] = req[u] /\ (InFlight(u)' <=> InFlight(u))
    BY <1>3, PostRecords
  <2>2. Asking(t) \in Entry /\ Asking(t).role = "user"
    BY DEF Asking, Entry
  <2>3. RepliesFollowTheirMessages'
    BY <1>1, <2>1, <2>2, RecordKeepsOrder
  <2>4. ASSUME NEW u \in Turns, InFlight(u)'
        PROVE  Conversation(u)' # <<>> /\ Conversation(u)'[Len(Conversation(u)')] = Asking(u)
    <3>1. CASE u = t
      <4>1. Conversation(t)' = Append(store[i][s], Asking(t))
        BY <2>1 DEF Conversation, Known, Recorded
      <4>2. store[i][s] \in Seq(Entry)
        BY StoredEntries
      <4>3. /\ Append(store[i][s], Asking(t)) # <<>>
            /\ Len(Append(store[i][s], Asking(t))) = Len(store[i][s]) + 1
            /\ Append(store[i][s], Asking(t))[Len(store[i][s]) + 1] = Asking(t)
        BY <2>2, <4>2
      <4> QED
        BY <3>1, <4>1, <4>3
    <3>2. CASE u # t
      <4>1. InFlight(u) /\ req'[u] = req[u] /\ req[u] \in Request
        BY <2>1, <2>4, <3>2 DEF InFlight, TypeInv, Posted
      <4>2. req[u].session # s
        BY <1>1, <2>1, <4>1, TripAssumption DEF Attended
      <4> QED
        BY <1>2, <2>1, <4>1, <4>2
    <3> QED  BY <3>1, <3>2
  <2> QED
    BY <2>3, <2>4 DEF AskedLast, Asking
<1>4. ASSUME NEW t \in Turns, Finish(t)
      PROVE  AskedLast' /\ RepliesFollowTheirMessages'
  <2>1. /\ InFlight(t) /\ ~InFlight(t)' /\ req[t] \in Request
        /\ Recorded(req[t].instance, req[t].session, Reply(t))
        /\ NoneSent /\ NoneStarts
    BY <1>4, FinishRecords
  <2>2. PICK i \in Instances, s \in Sessions : i = req[t].instance /\ s = req[t].session
    BY <2>1 DEF Request
  <2>3. Reply(t) \in Entry /\ Reply(t).turn = t /\ Conversation(t) = store[i][s]
    BY <2>2 DEF Reply, Entry, Conversation
  <2>4. RepliesFollowTheirMessages'
    BY <1>1, <2>1, <2>2, <2>3, RecordKeepsOrder DEF AskedLast
  <2>5. ASSUME NEW u \in Turns, InFlight(u)'
        PROVE  Conversation(u)' # <<>> /\ Conversation(u)'[Len(Conversation(u)')] = Asking(u)
    <3>1. u # t /\ InFlight(u) /\ req'[u] = req[u] /\ req[u] \in Request
      BY <2>1, <2>5 DEF NoneStarts, NoneSent, InFlight, TypeInv, Posted
    <3>2. req[u].session # s
      BY <1>1, <2>1, <2>2, <3>1, OneAtATime
    <3> QED
      BY <1>2, <2>1, <2>2, <3>1, <3>2
  <2> QED
    BY <2>4, <2>5 DEF AskedLast, Asking
<1>5. ASSUME NEW t \in Turns, TurnStep(t), ~Finish(t)
      PROVE  AskedLast' /\ RepliesFollowTheirMessages'
  BY <1>1, <1>5, OtherStepsKeepTheStore, SameStoreKeepsOrder
<1>6. ASSUME NEW i \in Instances, Restart(i)
      PROVE  AskedLast' /\ RepliesFollowTheirMessages'
  <2>1. /\ \A j \in Instances, r \in Sessions :
              store'[j][r] = IF j = i THEN <<>> ELSE store[j][r]
        /\ req' = req
        /\ \A u \in Turns : InFlight(u)' => InFlight(u) /\ req[u].instance # i
    BY <1>6 DEF Restart, InFlight, TypeInv, TypeOK
  <2>2. ASSUME NEW u \in Turns, InFlight(u)'
        PROVE  Conversation(u)' # <<>> /\ Conversation(u)'[Len(Conversation(u)')] = Asking(u)
    <3>1. InFlight(u) /\ req[u].instance # i /\ req[u] \in Request
      BY <2>1, <2>2 DEF InFlight, TypeInv, Posted
    <3>2. Conversation(u)' = Conversation(u)
      BY <2>1, <3>1 DEF Conversation, Request
    <3> QED
      BY <1>1, <3>1, <3>2 DEF AskedLast
  <2>3. RepliesFollowTheirMessages'
    <3> SUFFICES ASSUME NEW j \in Instances, NEW r \in Sessions, NEW k \in DOMAIN store'[j][r]
                 PROVE  RepliesFollowTheirMessages!(j, r)!(k)'
      BY DEF RepliesFollowTheirMessages
    <3>1. store'[j][r] = store[j][r]
      BY <2>1
    <3> QED
      BY <1>1, <3>1 DEF RepliesFollowTheirMessages
  <2> QED
    BY <2>2, <2>3 DEF AskedLast, Asking
<1>7. CASE UNCHANGED vars
  <2>1. store' = store /\ NoneSent /\ NoneStarts
    BY <1>7 DEF vars, NoneSent, NoneStarts, InFlight
  <2> QED
    BY <1>1, <2>1, SameStoreKeepsOrder
<1> QED
  BY <1>3, <1>4, <1>5, <1>6, <1>7 DEF Next, Detach

\* A client that reads every stream to its end finds each reply stored directly
\* after the message it answers, whichever instances serve it and however often
\* they restart.
THEOREM RepliesFollow ==
    ASSUME ~CanDetach
    PROVE  Spec => []RepliesFollowTheirMessages
<1>1. TypeInv /\ OrderInv /\ [Next]_vars => OrderInv'
  BY OrderStep
<1>2. OrderInv => RepliesFollowTheirMessages
  BY DEF OrderInv
<1> QED
  BY <1>1, <1>2, TypeInit, TypeStep, OrderInit, PTL DEF Spec

------------------------------------------------------------------------------

(* One instance and no abandoned stream.  What the instance remembers of a    *)
(* session and the card on its screen are then the same, but between the two  *)
(* steps of a search that set them.                                           *)

OneInstance == \A i, j \in Instances : i = j

Remembered(t) == lastOptions[req[t].instance][req[t].session]

\* Options the model's search of a turn of the session found, remembered, and not
\* on screen yet.
Queued(s, o) == \E u \in Turns : search[u] = "queued" /\ req[u].session = s /\ o = options[u]

RememberedIsShown ==
    \A i \in Instances, s \in Sessions : lastOptions[i][s] # None =>
        \/ lastOptions[i][s] = shown[s]
        \/ \E t \in Turns : pc[t] = "shown" /\ req[t].session = s
        \/ Queued(s, lastOptions[i][s])

\* What is on screen was remembered, and is unless an instance restarted.
CardIsRemembered ==
    ~CanRestart =>
        \A i \in Instances, s \in Sessions : shown[s] # None =>
            \/ lastOptions[i][s] # None
            \/ \E t \in Turns : pc[t] = "shown" /\ req[t].session = s

\* The step in between has done its half.
ShowsItsOwn ==
    \A t \in Turns : pc[t] = "shown" => shown[req[t].session] = Shown(req[t].message.place)

\* ... and so has the model's search, but for a dropped one that came after it.
QueuedIsRemembered ==
    \A t \in Turns : InFlight(t) /\ search[t] = "queued" =>
        \/ Remembered(t) = options[t]
        \/ OfADroppedSearch(req[t].session, Remembered(t))

\* The card a booking was asked for is still on screen while it is made.
WantsTheCard ==
    \A t \in Turns : pc[t] \in {"resolving", "booking"} /\ req[t].message.kind = "book" =>
        req[t].wanted = shown[req[t].session]

\* With the local driver, options once looked up stay those remembered until used.
HoldsTheRemembered ==
    Driver = "local" =>
        \A t \in Turns : pc[t] \in {"booking", "summarising"} /\ Remembered(t) # None =>
            options[t] = Remembered(t)

CardInv ==
    /\ RememberedIsShown /\ CardIsRemembered /\ ShowsItsOwn /\ QueuedIsRemembered
    /\ WantsTheCard /\ HoldsTheRemembered

\* The other turns are where they were, with what they had.
Untouched(t) ==
    \A u \in Turns : u # t =>
        /\ pc'[u] = pc[u] /\ req'[u] = req[u] /\ options'[u] = options[u]
        /\ search'[u] = search[u] /\ out'[u] = out[u]

\* What a post starts its turn with.
LEMMA PostStarts ==
    ASSUME TypeInv, NEW t \in Turns, NEW s \in Sessions, NEW i \in Instances,
           NEW m \in Message, NEW replay \in BOOLEAN, Post(t, s, i, m, replay)
    PROVE  /\ Untouched(t) /\ UNCHANGED <<lastOptions, lastSelection, search, out, shown, booking>>
           /\ search[t] = "none"
           /\ req'[t].session = s /\ req'[t].instance = i
           /\ req'[t].message = m /\ req'[t].wanted = shown[s]
           /\ pc'[t] \in {"resolving", "sending", "found", "replying"}
           /\ pc'[t] = "resolving" => m.kind \in {"book", "summary"}
           /\ pc'[t] = "sending" => Driver = "copilot" /\ ~isBookingQuery(m, req'[t].history)
           /\ m.kind = "search" /\ m.place \in Covered /\ Driver = "local" => pc'[t] = "found"
<1> DEFINE prior == IF Surface = "responses" /\ replay /\ transcript[s] # <<>>
                    THEN [k \in DOMAIN transcript[s] |-> [role |-> "user", turn |-> transcript[s][k]]]
                    ELSE store[i][s]
           request == [session |-> s, instance |-> i, message |-> m,
                       history |-> prior, wanted |-> shown[s]]
           found == IF Driver = "local" /\ m.kind = "search" THEN searchTravel(m.place) ELSE None
<1>1. /\ pc[t] = "unsent"
      /\ req' = [req EXCEPT ![t] = request]
      /\ pc' = [pc EXCEPT ![t] = FirstStep(m, prior)]
      /\ options' = [options EXCEPT ![t] = found]
      /\ UNCHANGED <<lastOptions, lastSelection, search, out, shown, booking>>
  BY DEF Post
<1>2. /\ request.session = s /\ request.instance = i
      /\ request.message = m /\ request.wanted = shown[s] /\ request.history = prior
  OBVIOUS
<1>3. m.place \in Covered => searchTravel(m.place) # None
  BY NoneAssumption DEF OptionLists
<1> HIDE DEF prior, request, found
<1>4. /\ FirstStep(m, prior) \in {"resolving", "sending", "found", "replying"}
      /\ FirstStep(m, prior) = "resolving" => m.kind \in {"book", "summary"}
      /\ FirstStep(m, prior) = "sending" => Driver = "copilot" /\ ~isBookingQuery(m, prior)
  <2>1. isBookingQuery(m, prior) => m.kind = "book"
    BY DEF isBookingQuery
  <2> QED
    BY <2>1, TripAssumption DEF FirstStep
<1>5. m.kind = "search" /\ m.place \in Covered /\ Driver = "local" => FirstStep(m, prior) = "found"
  BY <1>3 DEF FirstStep, isBookingQuery
<1>6. /\ Untouched(t) /\ req'[t] = request /\ pc'[t] = FirstStep(m, prior)
      /\ search[t] = "none"
  BY <1>1 DEF TypeInv, TypeOK, StepsHoldOptions, Untouched
<1> QED
  BY <1>1, <1>2, <1>4, <1>5, <1>6

\* A step of a turn touches no other, and none is left to a dropped search.
LEMMA TurnStepIsItsOwn ==
    ASSUME TypeInv, NEW t \in Turns, TurnStep(t)
    PROVE  Untouched(t) /\ req' = req /\ ~Dropped(t)
<1> USE DEF memory, Step
<1>1. Untouched(t) /\ req' = req
  BY DEF TurnStep, ShowOptions, RememberOptions, ModelSearches, ModelRemembers, SendResolves,
         ModelShows, ResolveOptions, Book, Summarise, ModelSummary, ModelBooks, ModelReplies,
         ModelFails, Finish, Untouched, TypeInv, TypeOK
<1>2. ~Dropped(t)
  BY DEF TurnStep, AtWork, ShowOptions, RememberOptions, ModelSearches, ModelRemembers,
         SendResolves, ModelShows, ResolveOptions, Book, Summarise, ModelSummary, ModelBooks,
         ModelReplies, ModelFails, Finish, Dropped
<1> QED  BY <1>1, <1>2

LEMMA DroppedStays ==
    ASSUME NEW t \in Turns, Untouched(t), ~Dropped(t), NEW s, NEW o, OfADroppedSearch(s, o)
    PROVE  OfADroppedSearch(s, o)'
  BY DEF OfADroppedSearch, Dropped, Untouched

LEMMA QueuedStays ==
    ASSUME NEW t \in Turns, Untouched(t), NEW s, NEW o, Queued(s, o),
           search[t] = "queued" =>
               search'[t] = "queued" /\ options'[t] = options[t] /\ req'[t] = req[t]
    PROVE  Queued(s, o)'
  BY DEF Queued, Untouched

\* A dropped search is of no turn at work, so a session with a turn that does
\* something else has dropped whatever it has queued.
LEMMA QueuedIsDropped ==
    ASSUME TypeInv, Attended, NEW t \in Turns, InFlight(t), search[t] # "queued",
           NEW o, Queued(req[t].session, o)
    PROVE  OfADroppedSearch(req[t].session, o) /\ o # None
<1>1. PICK u \in Turns : search[u] = "queued" /\ req[u].session = req[t].session /\ o = options[u]
  BY DEF Queued
<1>2. u # t /\ pc[u] \in {"sending", "draining", "failed"} /\ options[u] # None
  BY <1>1 DEF TypeInv, StepsHoldOptions, Settled
<1>3. ~InFlight(u)
  BY <1>1, <1>2, OneAtATime
<1> QED
  BY <1>1, <1>2, <1>3 DEF InFlight, Dropped, OfADroppedSearch

\* A step that neither shows nor remembers options.
LEMMA OtherStepsKeepTheCard ==
    ASSUME TypeInv, NEW t \in Turns, TurnStep(t), ~ShowOptions(t), ~RememberOptions(t),
           ~ModelRemembers(t), ~ModelShows(t)
    PROVE  /\ UNCHANGED <<lastOptions, shown, req>> /\ Untouched(t) /\ InFlight(t)
           /\ pc[t] # "shown" /\ pc'[t] \notin {"unsent", "shown", "resolving"}
           /\ pc'[t] \in {"booking", "summarising"} => ResolveOptions(t)
           /\ search'[t] = "queued" <=> search[t] = "queued"
           /\ search[t] = "queued" => options'[t] = options[t]
<1> USE DEF memory, Step
<1>1. UNCHANGED <<lastOptions, shown, req>> /\ InFlight(t) /\ pc[t] # "shown"
  BY DEF TurnStep, AtWork, ModelSearches, SendResolves, ResolveOptions, Book, Summarise,
         ModelSummary, ModelBooks, ModelReplies, ModelFails, Finish, InFlight
<1>2. Untouched(t)
  BY TurnStepIsItsOwn
<1>3. /\ pc'[t] \notin {"unsent", "shown", "resolving"}
      /\ pc'[t] \in {"booking", "summarising"} => ResolveOptions(t)
  BY DEF TurnStep, AtWork, ModelSearches, SendResolves, ResolveOptions, Book, Summarise,
         ModelSummary, ModelBooks, ModelReplies, ModelFails, Finish, TypeInv, TypeOK
<1>4. search'[t] = "queued" <=> search[t] = "queued"
  BY DEF TurnStep, ModelSearches, SendResolves, ResolveOptions, Book, Summarise,
         ModelSummary, ModelBooks, ModelReplies, ModelFails, Finish, TypeInv, TypeOK
<1>5. search[t] = "queued" => options'[t] = options[t]
  <2>1. Kept /\ pc[t] # "unsent"
    BY StepKeepsTurns
  <2> QED  BY <2>1 DEF Kept
<1> QED  BY <1>1, <1>2, <1>3, <1>4, <1>5

LEMMA CardInit == Init => CardInv
  BY DEF Init, CardInv, RememberedIsShown, CardIsRemembered, ShowsItsOwn, QueuedIsRemembered,
         WantsTheCard, HoldsTheRemembered, InFlight

LEMMA PostKeepsCard ==
    ASSUME TypeInv, CardInv, NEW t \in Turns, NEW s \in Sessions, NEW i \in Instances,
           NEW m \in Message, NEW replay \in BOOLEAN, Post(t, s, i, m, replay)
    PROVE  CardInv'
<1>1. /\ Untouched(t) /\ UNCHANGED <<lastOptions, search, shown>> /\ search[t] = "none"
      /\ pc[t] = "unsent" /\ pc'[t] \in {"resolving", "sending", "found", "replying"}
      /\ req'[t].session = s /\ req'[t].wanted = shown[s]
  BY PostStarts, PostRecords
<1>2. RememberedIsShown'
  <2> SUFFICES ASSUME NEW j \in Instances, NEW r \in Sessions, lastOptions'[j][r] # None,
                      lastOptions'[j][r] # shown'[r], ~Queued(r, lastOptions[j][r])'
               PROVE  \E u \in Turns : pc'[u] = "shown" /\ req'[u].session = r
    BY DEF RememberedIsShown
  <2>1. ~Queued(r, lastOptions[j][r])
    BY <1>1, QueuedStays DEF Queued
  <2>2. PICK u \in Turns : pc[u] = "shown" /\ req[u].session = r
    BY <1>1, <2>1 DEF CardInv, RememberedIsShown
  <2> QED
    BY <1>1, <2>2 DEF Untouched
<1>3. CardIsRemembered'
  <2> SUFFICES ASSUME ~CanRestart, NEW j \in Instances, NEW r \in Sessions, shown'[r] # None,
                      lastOptions'[j][r] = None
               PROVE  \E u \in Turns : pc'[u] = "shown" /\ req'[u].session = r
    BY DEF CardIsRemembered
  <2>1. PICK u \in Turns : pc[u] = "shown" /\ req[u].session = r
    BY <1>1 DEF CardInv, CardIsRemembered
  <2> QED
    BY <1>1, <2>1 DEF Untouched
<1>4. ShowsItsOwn' /\ HoldsTheRemembered'
  BY <1>1 DEF CardInv, ShowsItsOwn, HoldsTheRemembered, Remembered, Untouched
<1>5. WantsTheCard'
  BY <1>1 DEF CardInv, WantsTheCard, Untouched
<1>6. QueuedIsRemembered'
  <2> SUFFICES ASSUME NEW u \in Turns, InFlight(u)', search'[u] = "queued"
               PROVE  \/ Remembered(u)' = options'[u]
                      \/ OfADroppedSearch(req[u].session, Remembered(u))'
    BY DEF QueuedIsRemembered
  <2>1. /\ u # t /\ InFlight(u) /\ req'[u] = req[u] /\ options'[u] = options[u]
        /\ Remembered(u)' = Remembered(u)
    BY <1>1 DEF InFlight, Remembered, Untouched
  <2>2. Remembered(u) = options[u] \/ OfADroppedSearch(req[u].session, Remembered(u))
    BY <1>1, <2>1 DEF CardInv, QueuedIsRemembered
  <2>3. ASSUME OfADroppedSearch(req[u].session, Remembered(u))
        PROVE  OfADroppedSearch(req[u].session, Remembered(u))'
    <3>1. PICK v \in Turns : Dropped(v) /\ req[v].session = req[u].session /\ Remembered(u) = options[v]
      BY <2>3 DEF OfADroppedSearch
    <3>2. v # t
      BY <1>1, <3>1 DEF Dropped
    <3> QED
      BY <1>1, <2>1, <3>1, <3>2 DEF OfADroppedSearch, Dropped, Untouched
  <2> QED
    BY <2>1, <2>2, <2>3
<1> QED
  BY <1>2, <1>3, <1>4, <1>5, <1>6 DEF CardInv

\* A turn shows options: the local driver those it is about to remember, the
\* model's driver those its handler has remembered.
LEMMA ShowingKeepsCard ==
    ASSUME OneInstance, TypeInv, Attended, CardInv, NEW t \in Turns, TurnStep(t), InFlight(t),
           NEW card, lastOptions' = lastOptions,
           shown' = IF awaiting[req[t].session] = t
                    THEN [shown EXCEPT ![req[t].session] = card] ELSE shown,
           \/ /\ pc[t] = "found" /\ pc'[t] = "shown" /\ search' = search
              /\ card = Shown(req[t].message.place)
           \/ /\ pc[t] = "draining" /\ pc'[t] = pc[t] /\ search[t] = "queued" /\ search'[t] = "shown"
              /\ card = options[t]
    PROVE  CardInv'
<1>1. req[t] \in Request /\ Untouched(t) /\ req' = req /\ ~Dropped(t) /\ Kept /\ pc[t] # "unsent"
  BY TurnStepIsItsOwn, StepKeepsTurns DEF InFlight, TypeInv, Posted
<1>2. PICK i \in Instances, s \in Sessions : i = req[t].instance /\ s = req[t].session
  BY <1>1 DEF Request
<1>3. \A r \in Sessions : shown'[r] = IF r = s THEN card ELSE shown[r]
  BY <1>2 DEF Attended, TypeInv, TypeOK
<1>4. \A u \in Turns : u # t /\ InFlight(u) => req[u].session \in Sessions /\ req[u].session # s
  BY <1>1, <1>2, OneAtATime DEF InFlight, TypeInv, Posted, Request
\* What is remembered now, if the turn had remembered it before.
<1>5. ASSUME pc'[t] # "shown"
      PROVE  \A j \in Instances : lastOptions[j][s] # None /\
                (lastOptions[j][s] = card \/ OfADroppedSearch(s, lastOptions[j][s]))
  <2>1. search[t] = "queued" /\ card = options[t] /\ card # None
    BY <1>5 DEF TypeInv, StepsHoldOptions
  <2>2. Remembered(t) = card \/ OfADroppedSearch(s, Remembered(t))
    BY <1>2, <2>1 DEF CardInv, QueuedIsRemembered
  <2>3. ASSUME OfADroppedSearch(s, Remembered(t)) PROVE Remembered(t) # None
    BY <2>3 DEF OfADroppedSearch, Dropped, TypeInv, StepsHoldOptions
  <2>4. \A j \in Instances : lastOptions[j][s] = Remembered(t)
    BY <1>2 DEF Remembered, OneInstance
  <2> QED
    BY <2>1, <2>2, <2>3, <2>4
<1>6. RememberedIsShown'
  <2> SUFFICES ASSUME NEW j \in Instances, NEW r \in Sessions, lastOptions'[j][r] # None,
                      lastOptions'[j][r] # shown'[r], ~Queued(r, lastOptions[j][r])'
               PROVE  \E u \in Turns : pc'[u] = "shown" /\ req'[u].session = r
    BY DEF RememberedIsShown
  <2>1. CASE r = s /\ pc'[t] = "shown"
    BY <1>1, <1>2, <2>1
  <2>2. CASE r = s /\ pc'[t] # "shown"
    <3>1. OfADroppedSearch(s, lastOptions[j][s])
      BY <1>3, <1>5, <2>2
    <3>2. PICK o : o = lastOptions[j][s]
      OBVIOUS
    <3>3. OfADroppedSearch(s, o)'
      BY <1>1, <3>1, <3>2, DroppedStays
    <3>4. Queued(s, o)'
      BY <3>3 DEF OfADroppedSearch, Queued, Dropped
    <3> QED
      BY <2>2, <3>2, <3>4 DEF Queued
  <2>3. CASE r # s
    <3>1. PICK o : o = lastOptions[j][r]
      OBVIOUS
    <3>2. ~Queued(r, o)
      BY <1>1, <1>2, <2>3, <3>1 DEF Queued, Untouched
    <3>3. PICK u \in Turns : pc[u] = "shown" /\ req[u].session = r
      BY <1>3, <2>3, <3>1, <3>2 DEF CardInv, RememberedIsShown
    <3> QED
      BY <1>1, <1>2, <2>3, <3>3 DEF Untouched
  <2> QED  BY <2>1, <2>2, <2>3
<1>7. CardIsRemembered'
  <2> SUFFICES ASSUME ~CanRestart, NEW j \in Instances, NEW r \in Sessions, shown'[r] # None,
                      lastOptions'[j][r] = None
               PROVE  \E u \in Turns : pc'[u] = "shown" /\ req'[u].session = r
    BY DEF CardIsRemembered
  <2>1. CASE r = s
    BY <1>1, <1>2, <1>5, <2>1
  <2>2. CASE r # s
    <3>1. PICK u \in Turns : pc[u] = "shown" /\ req[u].session = r
      BY <1>3, <2>2 DEF CardInv, CardIsRemembered
    <3> QED
      BY <1>1, <1>2, <2>2, <3>1 DEF Untouched
  <2> QED  BY <2>1, <2>2
<1>8. ShowsItsOwn'
  <2> SUFFICES ASSUME NEW u \in Turns, pc'[u] = "shown"
               PROVE  shown'[req[u].session] = Shown(req[u].message.place)
    BY <1>1 DEF ShowsItsOwn
  <2>1. CASE u = t
    BY <1>2, <1>3, <2>1
  <2>2. CASE u # t
    <3>1. pc[u] = "shown" /\ InFlight(u)
      BY <1>1, <2>2 DEF InFlight, Untouched
    <3> QED
      BY <1>3, <1>4, <2>2, <3>1 DEF CardInv, ShowsItsOwn
  <2> QED  BY <2>1, <2>2
<1>9. WantsTheCard'
  <2> SUFFICES ASSUME NEW u \in Turns, pc'[u] \in {"resolving", "booking"},
                      req[u].message.kind = "book"
               PROVE  req[u].wanted = shown'[req[u].session]
    BY <1>1 DEF WantsTheCard
  <2>1. u # t /\ pc[u] = pc'[u] /\ InFlight(u)
    BY <1>1 DEF InFlight, Untouched
  <2> QED
    BY <1>3, <1>4, <2>1 DEF CardInv, WantsTheCard
<1>10. HoldsTheRemembered'
  BY <1>1 DEF CardInv, HoldsTheRemembered, Remembered, Untouched
<1>11. QueuedIsRemembered'
  <2> SUFFICES ASSUME NEW u \in Turns, InFlight(u)', search'[u] = "queued"
               PROVE  \/ Remembered(u)' = options'[u]
                      \/ OfADroppedSearch(req[u].session, Remembered(u))'
    BY DEF QueuedIsRemembered
  <2>1. search[u] = "queued" /\ u # t
    <3>1. pc[t] = "found" => search[t] = "none"
      BY DEF TypeInv, StepsHoldOptions
    <3> QED
      BY <1>1, <3>1 DEF Untouched
  <2>2. /\ InFlight(u) /\ options'[u] = options[u] /\ req'[u] = req[u]
        /\ Remembered(u)' = Remembered(u)
    BY <1>1, <2>1 DEF InFlight, Remembered, Untouched
  <2>3. Remembered(u) = options[u] \/ OfADroppedSearch(req[u].session, Remembered(u))
    BY <2>1, <2>2 DEF CardInv, QueuedIsRemembered
  <2>4. PICK o, r : o = Remembered(u) /\ r = req[u].session
    OBVIOUS
  <2> QED
    BY <1>1, <2>2, <2>3, <2>4, DroppedStays DEF OfADroppedSearch
<1> QED
  BY <1>6, <1>7, <1>8, <1>9, <1>10, <1>11 DEF CardInv

LEMMA ShowKeepsCard ==
    ASSUME OneInstance, TypeInv, Attended, CardInv, NEW t \in Turns, ShowOptions(t) \/ ModelShows(t)
    PROVE  CardInv'
<1> USE DEF memory, Step
<1>1. TurnStep(t)
  BY DEF TurnStep
<1>2. CASE ShowOptions(t)
  <2>1. /\ pc[t] = "found" /\ pc'[t] = "shown" /\ InFlight(t)
        /\ IsSearch(t) /\ req[t].message.place \in Covered
        /\ UNCHANGED <<lastOptions, search>>
    BY <1>2 DEF ShowOptions, TypeInv, TypeOK, StepsHoldOptions, InFlight
  <2>2. PICK card : card = Shown(req[t].message.place)
    OBVIOUS
  <2>3. shown' = IF awaiting[req[t].session] = t
                 THEN [shown EXCEPT ![req[t].session] = card] ELSE shown
    BY <1>2, <2>2 DEF ShowOptions
  <2> QED
    BY <1>1, <2>1, <2>2, <2>3, ShowingKeepsCard
<1>3. CASE ModelShows(t)
  <2>1. /\ pc[t] = "draining" /\ pc'[t] = pc[t] /\ InFlight(t)
        /\ search[t] = "queued" /\ search'[t] = "shown" /\ options[t] # None
        /\ lastOptions' = lastOptions
    BY <1>3 DEF ModelShows, TypeInv, TypeOK, StepsHoldOptions, InFlight
  <2>2. shown' = IF awaiting[req[t].session] = t
                 THEN [shown EXCEPT ![req[t].session] = options[t]] ELSE shown
    BY <1>3 DEF ModelShows
  <2> QED
    BY <1>1, <2>1, <2>2, ShowingKeepsCard
<1> QED  BY <1>2, <1>3

\* A turn remembers options: the local driver those it has shown, the model's
\* driver those it is going to show if it does not fail, or has not failed already.
LEMMA RememberingKeepsCard ==
    ASSUME OneInstance, TypeInv, Attended, CardInv, NEW t \in Turns, TurnStep(t),
           pc[t] # "unsent", NEW card, card # None, shown' = shown,
           lastOptions' = [lastOptions EXCEPT ![req[t].instance][req[t].session] = card],
           \/ /\ pc[t] = "shown" /\ pc'[t] = "replying" /\ search' = search
              /\ card = Shown(req[t].message.place)
           \/ /\ pc'[t] = pc[t] /\ search[t] = "running" /\ search'[t] = "queued"
              /\ card = options[t]
    PROVE  CardInv'
<1>1. req[t] \in Request /\ Untouched(t) /\ req' = req /\ ~Dropped(t) /\ Kept
  BY TurnStepIsItsOwn, StepKeepsTurns DEF TypeInv, Posted
<1>2. PICK i \in Instances, s \in Sessions : i = req[t].instance /\ s = req[t].session
  BY <1>1 DEF Request
<1>3. \A j \in Instances, r \in Sessions :
          lastOptions'[j][r] = IF r = s THEN card ELSE lastOptions[j][r]
  BY <1>2 DEF TypeInv, TypeOK, OneInstance
<1>4. \/ /\ pc[t] = "shown" /\ InFlight(t) /\ pc'[t] = "replying"
         /\ search[t] = "none" /\ search'[t] = "none" /\ card = shown[s]
      \/ /\ pc'[t] = pc[t] /\ pc[t] \in {"sending", "draining", "failed"} /\ Driver = "copilot"
         /\ search[t] = "running" /\ search'[t] = "queued" /\ card = options'[t]
  BY <1>1, <1>2 DEF CardInv, ShowsItsOwn, InFlight, TypeInv, StepsHoldOptions, Settled, Kept
<1>5. RememberedIsShown'
  <2> SUFFICES ASSUME NEW j \in Instances, NEW r \in Sessions, lastOptions'[j][r] # None,
                      lastOptions'[j][r] # shown'[r], ~Queued(r, lastOptions[j][r])'
               PROVE  \E u \in Turns : pc'[u] = "shown" /\ req'[u].session = r
    BY DEF RememberedIsShown
  <2>1. CASE r = s
    <3>1. search'[t] = "queued" /\ card = options'[t] /\ req'[t].session = s
      BY <1>1, <1>2, <1>3, <1>4, <2>1
    <3>2. Queued(r, lastOptions[j][r])'
      BY <1>3, <2>1, <3>1 DEF Queued
    <3> QED  BY <3>2
  <2>2. CASE r # s
    <3>1. PICK o : o = lastOptions[j][r]
      OBVIOUS
    <3>2. ~Queued(r, o)
      <4>1. lastOptions'[j][r] = o
        BY <1>3, <2>2, <3>1
      <4>2. Queued(r, o) => Queued(r, o)'
        BY <1>1, <1>4, QueuedStays
      <4> QED
        BY <4>1, <4>2 DEF Queued
    <3>3. PICK u \in Turns : pc[u] = "shown" /\ req[u].session = r
      BY <1>3, <2>2, <3>1, <3>2 DEF CardInv, RememberedIsShown
    <3> QED
      BY <1>1, <1>2, <2>2, <3>3 DEF Untouched
  <2> QED  BY <2>1, <2>2
<1>6. CardIsRemembered'
  <2> SUFFICES ASSUME ~CanRestart, NEW j \in Instances, NEW r \in Sessions, shown'[r] # None,
                      lastOptions'[j][r] = None
               PROVE  \E u \in Turns : pc'[u] = "shown" /\ req'[u].session = r
    BY DEF CardIsRemembered
  <2>1. r # s
    BY <1>3
  <2>2. PICK u \in Turns : pc[u] = "shown" /\ req[u].session = r
    BY <1>3, <2>1 DEF CardInv, CardIsRemembered
  <2> QED
    BY <1>1, <1>2, <2>1, <2>2 DEF Untouched
<1>7. ShowsItsOwn' /\ WantsTheCard'
  BY <1>1, <1>4 DEF CardInv, ShowsItsOwn, WantsTheCard, Untouched
<1>8. ASSUME NEW u \in Turns, u # t, pc[u] # "unsent", req[u].session # s
      PROVE  Remembered(u)' = Remembered(u)
  <2>1. req[u].session \in Sessions /\ req[u].instance \in Instances
    BY <1>8 DEF TypeInv, Posted, Request
  <2> QED
    BY <1>1, <1>3, <1>8, <2>1 DEF Remembered
<1>9. HoldsTheRemembered'
  <2> SUFFICES ASSUME Driver = "local", NEW u \in Turns, pc'[u] \in {"booking", "summarising"},
                      Remembered(u)' # None
               PROVE  options'[u] = Remembered(u)'
    BY DEF HoldsTheRemembered
  <2>1. u # t /\ InFlight(u) /\ InFlight(t) /\ pc[u] = pc'[u]
    BY <1>1, <1>4 DEF InFlight, Untouched
  <2>2. Remembered(u)' = Remembered(u)
    BY <1>2, <1>8, <2>1, OneAtATime DEF InFlight
  <2> QED
    BY <1>1, <2>1, <2>2 DEF CardInv, HoldsTheRemembered, Untouched
<1>10. QueuedIsRemembered'
  <2> SUFFICES ASSUME NEW u \in Turns, InFlight(u)', search'[u] = "queued"
               PROVE  \/ Remembered(u)' = options'[u]
                      \/ OfADroppedSearch(req[u].session, Remembered(u))'
    BY DEF QueuedIsRemembered
  <2>1. ASSUME req[u].session = s, pc[u] # "unsent" PROVE Remembered(u)' = card
    <3>1. req[u].instance \in Instances
      BY <2>1 DEF TypeInv, Posted, Request
    <3> QED
      BY <1>1, <1>3, <2>1, <3>1 DEF Remembered
  <2>2. CASE u = t
    BY <1>2, <1>4, <2>1, <2>2
  <2>3. CASE u # t
    <3>1. InFlight(u) /\ pc[u] # "unsent" /\ search[u] = "queued" /\ options'[u] = options[u]
      BY <1>1, <2>3 DEF InFlight, Untouched
    <3>2. CASE req[u].session = s
      <4>1. ~InFlight(t)
        BY <1>2, <2>3, <3>1, <3>2, OneAtATime
      <4>2. Dropped(t)' /\ card = options'[t]
        BY <1>4, <4>1 DEF InFlight, Dropped
      <4> QED
        BY <1>1, <1>2, <2>1, <3>1, <3>2, <4>2 DEF OfADroppedSearch
    <3>3. CASE req[u].session # s
      <4>1. Remembered(u) = options[u] \/ OfADroppedSearch(req[u].session, Remembered(u))
        BY <3>1 DEF CardInv, QueuedIsRemembered
      <4>2. PICK o, r : o = Remembered(u) /\ r = req[u].session
        OBVIOUS
      <4>3. Remembered(u)' = o
        BY <1>8, <2>3, <3>1, <3>3, <4>2
      <4>4. OfADroppedSearch(r, o) => OfADroppedSearch(r, o)'
        BY <1>1, DroppedStays
      <4> QED
        BY <1>1, <3>1, <4>1, <4>2, <4>3, <4>4 DEF OfADroppedSearch
    <3> QED  BY <3>2, <3>3
  <2> QED  BY <2>2, <2>3
<1> QED
  BY <1>5, <1>6, <1>7, <1>9, <1>10 DEF CardInv

LEMMA RememberKeepsCard ==
    ASSUME OneInstance, TypeInv, Attended, CardInv, NEW t \in Turns,
           RememberOptions(t) \/ ModelRemembers(t)
    PROVE  CardInv'
<1> USE DEF memory, Step
<1>1. TurnStep(t)
  BY DEF TurnStep
<1>2. pc[t] # "unsent"
  BY <1>1, StepKeepsTurns
<1>3. CASE RememberOptions(t)
  <2>1. /\ pc[t] = "shown" /\ pc'[t] = "replying" /\ UNCHANGED <<shown, search>>
        /\ IsSearch(t) /\ req[t].message.place \in Covered
    BY <1>3 DEF RememberOptions, TypeInv, TypeOK, StepsHoldOptions
  <2>2. PICK card : card = Shown(req[t].message.place)
    OBVIOUS
  <2>3. card # None
    BY <2>1, <2>2, ShownIsAnAnswer, NoneAssumption
  <2>4. lastOptions' = [lastOptions EXCEPT ![req[t].instance][req[t].session] = card]
    BY <1>3, <2>2 DEF RememberOptions
  <2> QED
    BY <1>1, <1>2, <2>1, <2>2, <2>3, <2>4, RememberingKeepsCard
<1>4. CASE ModelRemembers(t)
  <2>1. /\ pc'[t] = pc[t] /\ search[t] = "running" /\ search'[t] = "queued"
        /\ shown' = shown /\ options[t] # None
        /\ lastOptions' = [lastOptions EXCEPT ![req[t].instance][req[t].session] = options[t]]
    BY <1>4 DEF ModelRemembers, TypeInv, TypeOK, StepsHoldOptions
  <2> QED
    BY <1>1, <1>2, <2>1, RememberingKeepsCard
<1> QED  BY <1>3, <1>4

LEMMA OthersKeepCard ==
    ASSUME TypeInv, CardInv, NEW t \in Turns, TurnStep(t), ~ShowOptions(t), ~RememberOptions(t),
           ~ModelRemembers(t), ~ModelShows(t)
    PROVE  CardInv'
<1>1. /\ UNCHANGED <<lastOptions, shown, req>> /\ Untouched(t) /\ InFlight(t)
      /\ pc[t] # "shown" /\ pc'[t] \notin {"unsent", "shown", "resolving"}
      /\ pc'[t] \in {"booking", "summarising"} => ResolveOptions(t)
      /\ search'[t] = "queued" <=> search[t] = "queued"
      /\ search[t] = "queued" => options'[t] = options[t]
  BY OtherStepsKeepTheCard
<1>2. RememberedIsShown'
  <2> SUFFICES ASSUME NEW j \in Instances, NEW r \in Sessions, lastOptions'[j][r] # None,
                      lastOptions'[j][r] # shown'[r], ~Queued(r, lastOptions[j][r])'
               PROVE  \E u \in Turns : pc'[u] = "shown" /\ req'[u].session = r
    BY DEF RememberedIsShown
  <2>1. PICK o : o = lastOptions[j][r]
    OBVIOUS
  <2>2. ~Queued(r, o)
    BY <1>1, <2>1, QueuedStays DEF Queued
  <2>3. PICK u \in Turns : pc[u] = "shown" /\ req[u].session = r
    BY <1>1, <2>1, <2>2 DEF CardInv, RememberedIsShown
  <2> QED
    BY <1>1, <2>3 DEF Untouched
<1>3. CardIsRemembered'
  <2> SUFFICES ASSUME ~CanRestart, NEW j \in Instances, NEW r \in Sessions, shown'[r] # None,
                      lastOptions'[j][r] = None
               PROVE  \E u \in Turns : pc'[u] = "shown" /\ req'[u].session = r
    BY DEF CardIsRemembered
  <2>1. PICK u \in Turns : pc[u] = "shown" /\ req[u].session = r
    BY <1>1 DEF CardInv, CardIsRemembered
  <2> QED
    BY <1>1, <2>1 DEF Untouched
<1>4. ShowsItsOwn'
  BY <1>1 DEF CardInv, ShowsItsOwn, Untouched
<1>5. WantsTheCard'
  <2>1. ResolveOptions(t) => pc[t] = "resolving"
    BY DEF ResolveOptions
  <2> QED
    BY <1>1, <2>1 DEF CardInv, WantsTheCard, Untouched
<1>6. HoldsTheRemembered'
  <2> SUFFICES ASSUME Driver = "local", NEW u \in Turns, pc'[u] \in {"booking", "summarising"},
                      Remembered(u)' # None
               PROVE  options'[u] = Remembered(u)'
    BY DEF HoldsTheRemembered
  <2>1. Remembered(u)' = Remembered(u)
    BY <1>1 DEF Remembered
  <2>2. CASE u = t
    <3>1. PICK o \in OptionLists \cup {None} : Resolved(t, o) /\ options' = [options EXCEPT ![t] = o]
      BY <1>1, <2>2 DEF ResolveOptions
    <3>2. options'[t] = o
      BY <3>1 DEF TypeInv, TypeOK
    <3> QED
      BY <2>1, <2>2, <3>1, <3>2 DEF Resolved, Remembered
  <2>3. CASE u # t
    BY <1>1, <2>1, <2>3 DEF CardInv, HoldsTheRemembered, Untouched
  <2> QED  BY <2>2, <2>3
<1>7. QueuedIsRemembered'
  <2> SUFFICES ASSUME NEW u \in Turns, InFlight(u)', search'[u] = "queued"
               PROVE  \/ Remembered(u)' = options'[u]
                      \/ OfADroppedSearch(req[u].session, Remembered(u))'
    BY DEF QueuedIsRemembered
  <2>1. /\ InFlight(u) /\ search[u] = "queued" /\ options'[u] = options[u]
        /\ Remembered(u)' = Remembered(u)
    BY <1>1 DEF InFlight, Remembered, Untouched
  <2>2. Remembered(u) = options[u] \/ OfADroppedSearch(req[u].session, Remembered(u))
    BY <2>1 DEF CardInv, QueuedIsRemembered
  <2>3. PICK o, r : o = Remembered(u) /\ r = req[u].session
    OBVIOUS
  <2>4. OfADroppedSearch(r, o) => OfADroppedSearch(r, o)'
    BY <1>1, TurnStepIsItsOwn, DroppedStays
  <2> QED
    BY <1>1, <2>1, <2>2, <2>3, <2>4 DEF OfADroppedSearch
<1> QED
  BY <1>2, <1>3, <1>4, <1>5, <1>6, <1>7 DEF CardInv

\* The instance restarts: nothing is remembered and no turn is left.
LEMMA RestartEmpties ==
    ASSUME OneInstance, TypeInv, NEW i \in Instances, Restart(i)
    PROVE  /\ UNCHANGED <<req, shown, out, options, booking>> /\ CanRestart
           /\ \A j \in Instances, s \in Sessions : lastOptions'[j][s] = None /\ store'[j][s] = <<>>
           /\ \A u \in Turns : ~InFlight(u)' /\ (pc'[u] = "unsent" <=> pc[u] = "unsent")
           /\ \A u \in Turns : pc'[u] \in {pc[u], "lost"}
<1>1. \A j \in Instances : j = i
  BY DEF OneInstance
<1>2. \A u \in Turns : InFlight(u) => req[u].instance = i
  BY <1>1 DEF InFlight, TypeInv, Posted, Request
<1> QED
  BY <1>1, <1>2 DEF Restart, InFlight, TypeInv, TypeOK

LEMMA RestartKeepsCard ==
    ASSUME OneInstance, TypeInv, NEW i \in Instances, Restart(i)
    PROVE  CardInv'
<1>1. /\ CanRestart
      /\ \A j \in Instances, s \in Sessions : lastOptions'[j][s] = None
      /\ \A u \in Turns : ~InFlight(u)'
  BY RestartEmpties
<1>2. RememberedIsShown' /\ CardIsRemembered'
  BY <1>1 DEF RememberedIsShown, CardIsRemembered
<1>3. ShowsItsOwn' /\ QueuedIsRemembered' /\ WantsTheCard' /\ HoldsTheRemembered'
  BY <1>1 DEF ShowsItsOwn, QueuedIsRemembered, WantsTheCard, HoldsTheRemembered, InFlight
<1> QED
  BY <1>2, <1>3 DEF CardInv

LEMMA CardStep ==
    ASSUME OneInstance, ~CanDetach, TypeInv, Attended, CardInv, [Next]_vars
    PROVE  CardInv'
<1> USE DEF memory
<1>1. ASSUME NEW t \in Turns, NEW s \in Sessions, NEW i \in Instances,
             NEW m \in Message, NEW replay \in BOOLEAN, Post(t, s, i, m, replay)
      PROVE  CardInv'
  BY <1>1, PostKeepsCard
<1>2. ASSUME NEW t \in Turns, TurnStep(t) PROVE CardInv'
  BY <1>2, ShowKeepsCard, RememberKeepsCard, OthersKeepCard
<1>3. ASSUME NEW i \in Instances, Restart(i) PROVE CardInv'
  BY <1>3, RestartKeepsCard
<1>4. CASE UNCHANGED vars
  <2>1. \A s, o : (OfADroppedSearch(s, o)' <=> OfADroppedSearch(s, o)) /\ (Queued(s, o)' <=> Queued(s, o))
    BY <1>4 DEF vars, OfADroppedSearch, Dropped, Queued
  <2> QED
    BY <1>4, <2>1 DEF vars, CardInv, RememberedIsShown, CardIsRemembered, ShowsItsOwn,
       QueuedIsRemembered, WantsTheCard, HoldsTheRemembered, Remembered, InFlight, OfADroppedSearch,
       Dropped, Queued
<1> QED
  BY <1>1, <1>2, <1>3, <1>4 DEF Next, Detach

\* With the local driver a booking is made of options that are remembered only if
\* they are on screen.
LEMMA BookingIsOfTheCard ==
    ASSUME OneInstance, Driver = "local", TypeInv, Attended, CardInv, NEW t \in Turns, Book(t),
           Remembered(t) # None
    PROVE  options[t] = Remembered(t) /\ req[t].wanted = options[t]
<1> USE DEF Step
<1>1. pc[t] = "booking" /\ InFlight(t) /\ req[t] \in Request /\ req[t].message.kind = "book"
  BY DEF Book, InFlight, TypeInv, Posted, StepsHoldOptions
<1>2. req[t].session \in Sessions /\ req[t].instance \in Instances
  BY <1>1 DEF Request
<1>3. \A u \in Turns : pc[u] = "shown" => req[u].session # req[t].session
  BY <1>1, OneAtATime DEF InFlight
<1>4. ~Queued(req[t].session, Remembered(t))
  BY DEF Queued, TypeInv, StepsHoldOptions
<1>5. Remembered(t) = shown[req[t].session]
  BY <1>2, <1>3, <1>4 DEF CardInv, RememberedIsShown, Remembered
<1> QED
  BY <1>1, <1>5 DEF CardInv, HoldsTheRemembered, WantsTheCard

------------------------------------------------------------------------------
(* If the instance never restarts, a booking made without the model holds the *)
(* card it was asked for, or options of a search that was dropped; and the    *)
(* model itself is never asked for a booking that is made without it.         *)

HoldsACard ==
    \A t \in Turns : pc[t] = "booking" /\ req[t].wanted # None =>
        options[t] = req[t].wanted \/ OfADroppedSearch(req[t].session, options[t])

ModelHasNoBooking == \A t \in Turns : AtWork(t) => ~BooksDirectly(t)

\* The inductive invariant behind BooksTheCardOnScreen, with CardInv.
ScreenInv == HoldsACard /\ ModelHasNoBooking /\ BooksTheCardOnScreen

LEMMA ScreenInit == Init => ScreenInv
  BY DEF Init, ScreenInv, HoldsACard, ModelHasNoBooking, BooksTheCardOnScreen, AtWork

\* A turn's history is of turns that were sent before it, so what it is stays so.
LEMMA BookingQueryIsKept ==
    ASSUME TypeInv, OwnInv, Kept, NEW t \in Turns, pc[t] # "unsent"
    PROVE  BooksDirectly(t)' <=> BooksDirectly(t)
<1>1. req'[t] = req[t] /\ pc'[t] # "unsent" /\ req[t].history \in Seq(Entry)
  BY DEF Kept, TypeInv, Posted, Request
<1>2. ASSUME NEW k \in DOMAIN req[t].history
      PROVE  req'[req[t].history[k].turn] = req[req[t].history[k].turn]
  <2>1. req[t].history[k] \in Entry
    BY <1>1
  <2> QED
    BY <2>1 DEF OwnInv, HistoryOwn, Known, Kept, Entry
<1>3. \A u \in UserTurns(req[t].history) : req'[u] = req[u]
  BY <1>2 DEF UserTurns
<1> QED
  BY <1>1, <1>3 DEF BooksDirectly, isBookingQuery, UserTurns, IsSearch

LEMMA PostKeepsScreen ==
    ASSUME TypeInv, OwnInv, ScreenInv, NEW t \in Turns, NEW s \in Sessions,
           NEW i \in Instances, NEW m \in Message, NEW replay \in BOOLEAN,
           Post(t, s, i, m, replay)
    PROVE  ScreenInv'
<1>1. /\ Untouched(t) /\ UNCHANGED <<search, out, shown>> /\ Kept /\ search[t] = "none"
      /\ pc[t] = "unsent" /\ pc'[t] \in {"resolving", "sending", "found", "replying"}
      /\ req'[t].message = m
      /\ pc'[t] = "sending" => ~isBookingQuery(m, req'[t].history)
  BY PostStarts, PostRecords
<1>2. ~Dropped(t)
  BY <1>1 DEF Dropped
<1>3. HoldsACard'
  <2> SUFFICES ASSUME NEW u \in Turns, pc'[u] = "booking", req'[u].wanted # None
               PROVE  options'[u] = req'[u].wanted \/ OfADroppedSearch(req[u].session, options[u])'
    BY DEF HoldsACard
  <2>1. u # t /\ pc[u] = "booking" /\ req'[u] = req[u] /\ options'[u] = options[u]
    BY <1>1 DEF Untouched
  <2>2. PICK o, r : o = options[u] /\ r = req[u].session
    OBVIOUS
  <2>3. OfADroppedSearch(r, o) => OfADroppedSearch(r, o)'
    BY <1>1, <1>2, DroppedStays
  <2> QED
    BY <2>1, <2>2, <2>3 DEF ScreenInv, HoldsACard, OfADroppedSearch
<1>4. ModelHasNoBooking'
  <2> SUFFICES ASSUME NEW u \in Turns, AtWork(u)' PROVE ~BooksDirectly(u)'
    BY DEF ModelHasNoBooking
  <2>1. CASE u = t
    <3>1. ~isBookingQuery(m, req'[t].history)
      BY <1>1, <2>1 DEF AtWork
    <3>2. \A k \in DOMAIN req'[t].history :
              req'[t].history[k].turn \in Turns /\ Known(req'[t].history[k].turn, s)
      BY PriorIsOwn
    <3>3. \A w \in UserTurns(req'[t].history) : req'[w] = req[w]
      BY <1>1, <3>2 DEF UserTurns, Known, Kept
    <3> QED
      BY <1>1, <2>1, <3>1, <3>3 DEF BooksDirectly, isBookingQuery, UserTurns, IsSearch
  <2>2. CASE u # t
    <3>1. AtWork(u) /\ pc[u] # "unsent"
      BY <1>1, <2>2 DEF AtWork, Untouched
    <3> QED
      BY <1>1, <3>1, BookingQueryIsKept DEF ScreenInv, ModelHasNoBooking
  <2> QED  BY <2>1, <2>2
<1>5. BooksTheCardOnScreen'
  <2> SUFFICES ASSUME NEW u \in Turns, BooksDirectly(u)', out'[u] # None, req'[u].wanted # None
               PROVE  \E o \in OptionLists :
                         /\ o = req'[u].wanted \/ OfADroppedSearch(req[u].session, o)'
                         /\ out'[u] = Pick(o, bookingSelectionFromMessage(req'[u].message))
    BY DEF BooksTheCardOnScreen
  <2>1. u # t /\ out[u] # None /\ req'[u] = req[u] /\ pc[u] # "unsent"
    BY <1>1 DEF OwnInv, OutOwn, Untouched
  <2>2. BooksDirectly(u)
    BY <1>1, <2>1, BookingQueryIsKept
  <2>3. PICK r : r = req[u].session
    OBVIOUS
  <2>4. PICK o \in OptionLists :
            /\ o = req[u].wanted \/ OfADroppedSearch(r, o)
            /\ out[u] = Pick(o, bookingSelectionFromMessage(req[u].message))
    BY <2>1, <2>2, <2>3 DEF ScreenInv, BooksTheCardOnScreen
  <2>5. OfADroppedSearch(r, o) => OfADroppedSearch(r, o)'
    BY <1>1, <1>2, DroppedStays
  <2>6. o = req'[u].wanted \/ OfADroppedSearch(req[u].session, o)'
    BY <2>1, <2>3, <2>4, <2>5 DEF OfADroppedSearch
  <2> QED
    BY <1>1, <2>1, <2>4, <2>6
<1> QED
  BY <1>3, <1>4, <1>5 DEF ScreenInv

\* Only bookings and summaries fill in an itinerary.
LEMMA OutIsMade ==
    ASSUME TypeInv, NEW t \in Turns, TurnStep(t)
    PROVE  /\ \A u \in Turns : u # t => out'[u] = out[u]
           /\ \/ out' = out
              \/ Book(t) \/ Summarise(t) \/ ModelSummary(t)
              \/ \E f, h \in Positions : ModelBooks(t, [flight |-> f, hotel |-> h])
<1> USE DEF memory, Step
<1>1. \A u \in Turns : u # t => out'[u] = out[u]
  BY TurnStepIsItsOwn DEF Untouched
<1>2. \/ out' = out
      \/ Book(t) \/ Summarise(t) \/ ModelSummary(t)
      \/ \E f, h \in Positions : ModelBooks(t, [flight |-> f, hotel |-> h])
  BY DEF TurnStep, ShowOptions, RememberOptions, ModelSearches, ModelRemembers, SendResolves,
         ModelShows, ResolveOptions, ModelReplies, ModelFails, Finish
<1> QED  BY <1>1, <1>2

\* The options a booking looks up while a card is on screen.
LEMMA ResolvesACard ==
    ASSUME OneInstance, ~CanRestart, TypeInv, Attended, CardInv, NEW t \in Turns,
           pc[t] = "resolving", req[t].message.kind = "book", req[t].wanted # None,
           NEW o, Resolved(t, o)
    PROVE  o = req[t].wanted \/ OfADroppedSearch(req[t].session, o)
<1>1. InFlight(t) /\ req[t] \in Request /\ search[t] = "none"
  BY DEF InFlight, TypeInv, Posted, StepsHoldOptions
<1>2. PICK i \in Instances, s \in Sessions : i = req[t].instance /\ s = req[t].session
  BY <1>1 DEF Request
<1>3. req[t].wanted = shown[s] /\ shown[s] # None
  BY <1>2 DEF CardInv, WantsTheCard
<1>4. \A u \in Turns : pc[u] = "shown" => req[u].session # s
  BY <1>1, <1>2, OneAtATime DEF InFlight
<1>5. lastOptions[i][s] # None
  BY <1>3, <1>4 DEF CardInv, CardIsRemembered
<1>6. o = lastOptions[i][s]
  BY <1>2, <1>5 DEF Resolved
<1>7. o = shown[s] \/ Queued(s, o)
  BY <1>4, <1>5, <1>6 DEF CardInv, RememberedIsShown
<1> QED
  BY <1>1, <1>2, <1>3, <1>7, QueuedIsDropped

LEMMA TurnStepKeepsScreen ==
    ASSUME OneInstance, ~CanRestart, TypeInv, OwnInv, Attended, CardInv, ScreenInv,
           NEW t \in Turns, TurnStep(t)
    PROVE  ScreenInv'
<1> USE DEF memory, Step
<1>1. Kept /\ NoneSent /\ pc[t] # "unsent" /\ Untouched(t) /\ req' = req /\ ~Dropped(t)
  BY StepKeepsTurns, TurnStepIsItsOwn
<1>2. ASSUME NEW s, NEW o, OfADroppedSearch(s, o) PROVE OfADroppedSearch(s, o)'
  BY <1>1, <1>2, DroppedStays
<1>3. \A u \in Turns : BooksDirectly(u)' => pc[u] # "unsent" /\ BooksDirectly(u)
  <2>1. \A u \in Turns : BooksDirectly(u)' => pc[u] # "unsent"
    BY <1>1 DEF BooksDirectly, NoneSent
  <2> QED
    BY <1>1, <2>1, BookingQueryIsKept
<1>4. HoldsACard'
  <2> SUFFICES ASSUME NEW u \in Turns, pc'[u] = "booking", req[u].wanted # None
               PROVE  options'[u] = req[u].wanted \/ OfADroppedSearch(req[u].session, options[u])'
    BY <1>1 DEF HoldsACard
  <2>1. PICK r : r = req[u].session
    OBVIOUS
  <2>2. ASSUME NEW o, options'[u] = o, o = req[u].wanted \/ OfADroppedSearch(r, o)
        PROVE  options'[u] = req[u].wanted \/ OfADroppedSearch(req[u].session, options[u])'
    <3>1. o = req[u].wanted \/ OfADroppedSearch(r, o)'
      BY <1>2, <2>2
    <3> QED
      BY <1>1, <2>1, <2>2, <3>1 DEF OfADroppedSearch
  <2>3. CASE u # t
    <3>1. pc[u] = "booking" /\ options'[u] = options[u]
      BY <1>1, <2>3 DEF Untouched
    <3> QED
      BY <2>1, <2>2, <3>1 DEF ScreenInv, HoldsACard
  <2>4. CASE u = t
    <3>1. ResolveOptions(t)
      <4>1. ~ShowOptions(t) /\ ~RememberOptions(t)
        BY <2>4 DEF ShowOptions, RememberOptions, TypeInv, TypeOK
      <4>2. ~ModelRemembers(t)
        BY <2>4 DEF ModelRemembers, TypeInv, StepsHoldOptions, Settled
      <4>3. ~ModelShows(t)
        BY <2>4 DEF ModelShows
      <4> QED
        BY <2>4, <4>1, <4>2, <4>3, OtherStepsKeepTheCard
    <3>2. PICK o \in OptionLists \cup {None} :
              /\ Resolved(t, o) /\ options' = [options EXCEPT ![t] = o]
              /\ pc' = [pc EXCEPT ![t] = IF o = None THEN "replying"
                                         ELSE IF req[t].message.kind = "book" THEN "booking"
                                         ELSE "summarising"]
      BY <3>1 DEF ResolveOptions
    <3>3. pc[t] = "resolving" /\ req[t].message.kind = "book" /\ options'[t] = o
      BY <2>4, <3>1, <3>2 DEF ResolveOptions, TypeInv, TypeOK
    <3>4. o = req[t].wanted \/ OfADroppedSearch(req[t].session, o)
      BY <2>4, <3>2, <3>3, ResolvesACard
    <3> QED
      BY <2>1, <2>2, <2>4, <3>3, <3>4
  <2> QED  BY <2>3, <2>4
<1>5. ModelHasNoBooking'
  <2> SUFFICES ASSUME NEW u \in Turns, AtWork(u)', BooksDirectly(u)' PROVE FALSE
    BY DEF ModelHasNoBooking
  <2>1. BooksDirectly(u)
    BY <1>3
  <2>2. AtWork(u) \/ req[u].message.kind = "summary"
    <3>1. CASE u # t
      BY <1>1, <3>1 DEF AtWork, Untouched
    <3>2. CASE u = t /\ ~AtWork(t)
      <4>1. ModelSummary(t)
        BY <3>2 DEF TurnStep, AtWork, ShowOptions, RememberOptions, ModelSearches, ModelRemembers,
           SendResolves, ModelShows, ResolveOptions, Book, Summarise, ModelBooks, ModelReplies,
           ModelFails, Finish, TypeInv, TypeOK
      <4> QED
        BY <3>2, <4>1 DEF ModelSummary
    <3> QED  BY <3>1, <3>2
  <2> QED
    BY <2>1, <2>2 DEF ScreenInv, ModelHasNoBooking, BooksDirectly, isBookingQuery
<1>6. BooksTheCardOnScreen'
  <2> SUFFICES ASSUME NEW u \in Turns, BooksDirectly(u)', out'[u] # None, req[u].wanted # None
               PROVE  \E o \in OptionLists :
                         /\ o = req[u].wanted \/ OfADroppedSearch(req[u].session, o)'
                         /\ out'[u] = Pick(o, bookingSelectionFromMessage(req[u].message))
    BY <1>1 DEF BooksTheCardOnScreen
  <2>1. BooksDirectly(u)
    BY <1>3
  <2>2. PICK r : r = req[u].session
    OBVIOUS
  <2>3. ASSUME NEW o \in OptionLists, o = req[u].wanted \/ OfADroppedSearch(r, o),
               out'[u] = Pick(o, bookingSelectionFromMessage(req[u].message))
        PROVE  \E c \in OptionLists :
                   /\ c = req[u].wanted \/ OfADroppedSearch(req[u].session, c)'
                   /\ out'[u] = Pick(c, bookingSelectionFromMessage(req[u].message))
    <3>1. o = req[u].wanted \/ OfADroppedSearch(r, o)'
      BY <1>2, <2>3
    <3>2. o = req[u].wanted \/ OfADroppedSearch(req[u].session, o)'
      BY <1>1, <2>2, <3>1 DEF OfADroppedSearch
    <3> QED
      BY <2>3, <3>2
  <2>4. CASE out'[u] = out[u]
    <3>1. PICK o \in OptionLists :
              /\ o = req[u].wanted \/ OfADroppedSearch(r, o)
              /\ out[u] = Pick(o, bookingSelectionFromMessage(req[u].message))
      BY <2>1, <2>2, <2>4 DEF ScreenInv, BooksTheCardOnScreen
    <3> QED
      BY <2>3, <2>4, <3>1
  <2>5. CASE out'[u] # out[u]
    <3>1. u = t
      BY <2>5, OutIsMade
    <3>2. CASE Book(t)
      <4>1. /\ out'[t] = Pick(options[t], bookingSelectionFromMessage(req[t].message))
            /\ options[t] \in OptionLists /\ pc[t] = "booking"
        BY <3>2 DEF Book, TypeInv, TypeOK, StepsHoldOptions
      <4>2. options[t] = req[t].wanted \/ OfADroppedSearch(req[t].session, options[t])
        BY <3>1, <4>1 DEF ScreenInv, HoldsACard
      <4> QED
        BY <2>2, <2>3, <3>1, <4>1, <4>2
    <3>3. CASE Summarise(t) \/ ModelSummary(t)
      BY <2>1, <3>1, <3>3 DEF Summarise, ModelSummary, TypeInv, StepsHoldOptions, BooksDirectly,
         isBookingQuery
    <3>4. CASE \E f, h \in Positions : ModelBooks(t, [flight |-> f, hotel |-> h])
      BY <2>1, <3>1, <3>4 DEF ModelBooks, ScreenInv, ModelHasNoBooking
    <3> QED
      BY <2>5, <3>1, <3>2, <3>3, <3>4, OutIsMade
  <2> QED  BY <2>4, <2>5
<1> QED
  BY <1>4, <1>5, <1>6 DEF ScreenInv

LEMMA ScreenStep ==
    ASSUME OneInstance, ~CanDetach, ~CanRestart, TypeInv, OwnInv, Attended, CardInv, ScreenInv,
           [Next]_vars
    PROVE  ScreenInv'
<1> USE DEF memory
<1>1. ASSUME NEW t \in Turns, NEW s \in Sessions, NEW i \in Instances,
             NEW m \in Message, NEW replay \in BOOLEAN, Post(t, s, i, m, replay)
      PROVE  ScreenInv'
  BY <1>1, PostKeepsScreen
<1>2. ASSUME NEW t \in Turns, TurnStep(t) PROVE ScreenInv'
  BY <1>2, TurnStepKeepsScreen
<1>3. CASE UNCHANGED vars
  <2>1. UNCHANGED <<pc, req, options, search, out>>
    BY <1>3 DEF vars
  <2> QED
    BY <2>1 DEF ScreenInv, HoldsACard, ModelHasNoBooking, BooksTheCardOnScreen, AtWork,
       BooksDirectly, isBookingQuery, UserTurns, IsSearch, OfADroppedSearch, Dropped
<1> QED
  BY <1>1, <1>2, <1>3 DEF Next, Detach, Restart

\* On one instance that stays up, with either route and either driver, a booking
\* made without the model while a card is on screen is of that card, at the
\* position its message names; or of options found by a search of the same session
\* whose turn failed after the search's handler had started.
THEOREM BooksTheCard ==
    ASSUME OneInstance, ~CanDetach, ~CanRestart
    PROVE  Spec => []BooksTheCardOnScreen
<1>1. TypeInv /\ OrderInv /\ [Next]_vars => OrderInv'
  BY OrderStep
<1>2. TypeInv /\ OrderInv /\ CardInv /\ [Next]_vars => CardInv'
  BY CardStep DEF OrderInv
<1>3. TypeInv /\ OwnInv /\ OrderInv /\ CardInv /\ ScreenInv /\ [Next]_vars => ScreenInv'
  BY ScreenStep DEF OrderInv
<1>4. ScreenInv => BooksTheCardOnScreen
  BY DEF ScreenInv
<1> QED
  BY <1>1, <1>2, <1>3, <1>4, TypeInit, TypeStep, OwnInit, OwnStep, OrderInit, CardInit, ScreenInit,
     PTL DEF Spec

------------------------------------------------------------------------------
(* With the local driver every search that finds options remembers them, so   *)
(* that a history is never searched again; unless a restart lost what was     *)
(* remembered and the client replays its own transcript.                      *)

LocalDesk ==
    OneInstance /\ ~CanDetach /\ Driver = "local" /\ (Surface = "chat" \/ ~CanRestart)

\* The message went with the conversation it was in.
Forgotten(u) ==
    CanRestart /\ \A k \in DOMAIN Conversation(u) : Conversation(u)[k] # Asking(u)

SearchesRemembered ==
    \A u \in Turns : Asked(u, "search") /\ req[u].message.place \in Covered =>
        Remembered(u) # None \/ pc[u] \in {"found", "shown"} \/ Forgotten(u)

LocalTurns ==
    \A t \in Turns :
        /\ pc[t] \notin {"sending", "draining", "failed"}
        /\ pc[t] \in {"unsent", "resolving", "found", "shown", "booking", "summarising"} =>
              out[t] = None
        /\ pc[t] \in {"booking", "summarising"} => Remembered(t) # None

\* The last booking is what the remembered selection picks, until the next search.
RecalledIsBooked ==
    \A i \in Instances, s \in Sessions :
        booking[s].itinerary # None /\ ~booking[s].searchedSince /\ lastOptions[i][s] # None =>
            /\ lastSelection[i][s] # None
            /\ booking[s].itinerary = Pick(lastOptions[i][s], lastSelection[i][s])

\* The inductive invariant behind BooksWhatWasShown, with CardInv.
LocalInv == SearchesRemembered /\ LocalTurns /\ RecalledIsBooked /\ BooksWhatWasShown

LEMMA LocalInit == Init => LocalInv
  BY DEF Init, LocalInv, SearchesRemembered, LocalTurns, RecalledIsBooked, BooksWhatWasShown, Asked

LEMMA LocalSteps ==
    ASSUME Driver = "local", TypeInv, LocalInv, NEW t \in Turns, TurnStep(t)
    PROVE  \/ ShowOptions(t) \/ RememberOptions(t) \/ ResolveOptions(t)
           \/ Book(t) \/ Summarise(t) \/ Finish(t)
  BY DEF TypeInv, StepsHoldOptions, LocalInv, LocalTurns, TurnStep, Step, ModelSearches,
         ModelRemembers, SendResolves, ModelShows, ModelSummary, ModelBooks, ModelReplies,
         ModelFails

\* A search is forgotten for good.
LEMMA RecordKeepsForgotten ==
    ASSUME TypeInv, NEW i \in Instances, NEW s \in Sessions, NEW entry \in Entry,
           Recorded(i, s, entry), NEW u \in Turns, req[u] \in Request, req'[u] = req[u],
           entry # Asking(u), Forgotten(u)
    PROVE  Forgotten(u)'
<1>1. PICK j \in Instances, r \in Sessions : j = req[u].instance /\ r = req[u].session
  BY DEF Request
<1>2. Conversation(u) = store[j][r] /\ Conversation(u)' = store'[j][r]
  BY <1>1 DEF Conversation
<1>3. store'[j][r] = store[j][r] \/ store'[j][r] = Append(store[j][r], entry)
  BY DEF Recorded
<1>4. store[j][r] \in Seq(Entry)
  BY StoredEntries
<1>5. CanRestart /\ \A k \in DOMAIN store[j][r] : store[j][r][k] # Asking(u)
  BY <1>2 DEF Forgotten
<1>6. \A k \in DOMAIN store'[j][r] : store'[j][r][k] # Asking(u)
  <2>1. CASE store'[j][r] = store[j][r]
    BY <1>5, <2>1
  <2>2. CASE store'[j][r] = Append(store[j][r], entry)
    <3>1. \A k \in DOMAIN Append(store[j][r], entry) : Append(store[j][r], entry)[k] # Asking(u)
      BY <1>4, <1>5, AppendedMembers
    <3> QED  BY <2>2, <3>1
  <2> QED  BY <1>3, <2>1, <2>2
<1> QED
  BY <1>2, <1>5, <1>6 DEF Forgotten, Asking

\* What a booking or a summary looks up is what the instance remembers.
LEMMA ResolvedIsRemembered ==
    ASSUME LocalDesk, TypeInv, OwnInv, Attended, LocalInv, NEW t \in Turns,
           pc[t] = "resolving", NEW o, Resolved(t, o)
    PROVE  o = Remembered(t)
<1>1. CASE Remembered(t) # None
  BY <1>1 DEF Resolved, Remembered
<1>2. CASE Remembered(t) = None
  <2>1. InFlight(t) /\ req[t] \in Request
    BY DEF InFlight, TypeInv, Posted
  <2>2. SUFFICES ASSUME NEW k \in DOMAIN History(t), IsLastSearch(History(t), k),
                        o = searchTravel(req[History(t)[k].turn].message.place)
                 PROVE  o = None
    BY <1>2 DEF Resolved, Remembered
  <2>3. PICK u : u = History(t)[k].turn
    OBVIOUS
  <2>4. History(t)[k] \in Entry /\ Known(u, req[t].session)
    <3>1. req[t].instance \in Instances /\ req[t].session \in Sessions
      BY <2>1 DEF Request
    <3>2. CASE Surface = "chat"
      <4>1. History(t) = store[req[t].instance][req[t].session]
        BY <3>2 DEF History
      <4> QED
        BY <2>3, <3>1, <4>1, StoredEntries DEF OwnInv, StoreOwn
    <3>3. CASE Surface # "chat"
      <4>1. History(t) = req[t].history /\ pc[t] # "unsent"
        BY <2>1, <3>3 DEF History, InFlight
      <4>2. req[t].history \in Seq(Entry)
        BY <2>1 DEF Request
      <4>3. req[t].history[k] \in Entry
        BY <4>1, <4>2
      <4> QED
        BY <2>3, <4>1, <4>3 DEF OwnInv, HistoryOwn
    <3> QED  BY <3>2, <3>3
  <2>5. /\ u \in Turns /\ History(t)[k] = Asking(u)
        /\ Asked(u, "search") /\ req[u] \in Request
        /\ req[u].session = req[t].session /\ req[u].instance = req[t].instance
    <3>1. u \in Turns /\ History(t)[k] = Asking(u)
      BY <2>2, <2>3, <2>4 DEF Entry, IsLastSearch, Asking
    <3>2. Asked(u, "search") /\ req[u] \in Request /\ req[u].session = req[t].session
      BY <2>2, <2>3, <2>4, <3>1 DEF Known, Asked, IsLastSearch, IsSearch, TypeInv, Posted
    <3> QED
      BY <2>1, <3>1, <3>2 DEF Request, LocalDesk, OneInstance
  <2>6. Remembered(u) = None
    BY <1>2, <2>5 DEF Remembered
  <2>7. pc[u] \notin {"found", "shown"}
    <3>1. u # t
      BY <2>5 DEF Asked, TypeInv, StepsHoldOptions
    <3> QED
      BY <2>1, <2>5, <3>1, OneAtATime DEF InFlight
  <2>8. ~Forgotten(u)
    BY <2>2, <2>5 DEF Forgotten, LocalDesk, History, Conversation
  <2>9. req[u].message.place \notin Covered
    BY <2>5, <2>6, <2>7, <2>8 DEF LocalInv, SearchesRemembered
  <2> QED
    BY <2>2, <2>3, <2>9 DEF searchTravel
<1> QED  BY <1>1, <1>2

LEMMA PostKeepsLocal ==
    ASSUME LocalDesk, TypeInv, OwnInv, LocalInv, NEW t \in Turns, NEW s \in Sessions,
           NEW i \in Instances, NEW m \in Message, NEW replay \in BOOLEAN,
           Post(t, s, i, m, replay)
    PROVE  LocalInv'
<1>1. /\ Untouched(t) /\ UNCHANGED <<lastOptions, lastSelection, out, shown, booking>>
      /\ pc[t] = "unsent" /\ Recorded(i, s, Asking(t))
      /\ req'[t].message = m
      /\ pc'[t] \in {"resolving", "found", "replying"}
      /\ m.kind = "search" /\ m.place \in Covered => pc'[t] = "found"
  BY PostStarts, PostRecords DEF LocalDesk
<1>2. Asking(t) \in Entry /\ \A u \in Turns : u # t => Asking(t) # Asking(u)
  BY DEF Asking, Entry
<1>3. out[t] = None /\ \A u \in Turns : u # t => (Asked(u, "search")' <=> Asked(u, "search"))
                                             /\ (Asked(u, "book")' <=> Asked(u, "book"))
  BY <1>1 DEF OwnInv, OutOwn, Untouched, Asked
<1>4. SearchesRemembered'
  <2> SUFFICES ASSUME NEW u \in Turns, Asked(u, "search")', req'[u].message.place \in Covered
               PROVE  Remembered(u)' # None \/ pc'[u] \in {"found", "shown"} \/ Forgotten(u)'
    BY DEF SearchesRemembered
  <2>1. CASE u = t
    BY <1>1, <2>1 DEF Asked
  <2>2. CASE u # t
    <3>1. Asked(u, "search") /\ req'[u] = req[u] /\ pc'[u] = pc[u] /\ req[u] \in Request
      BY <1>1, <1>3, <2>2 DEF Untouched, Asked, TypeInv, Posted
    <3>2. Remembered(u)' = Remembered(u)
      BY <1>1, <3>1 DEF Remembered
    <3>3. Forgotten(u) => Forgotten(u)'
      BY <1>1, <1>2, <2>2, <3>1, RecordKeepsForgotten
    <3> QED
      BY <3>1, <3>2, <3>3 DEF LocalInv, SearchesRemembered
  <2> QED  BY <2>1, <2>2
<1>5. LocalTurns'
  BY <1>1, <1>3 DEF LocalInv, LocalTurns, Untouched, Remembered
<1>6. RecalledIsBooked'
  BY <1>1 DEF LocalInv, RecalledIsBooked
<1>7. BooksWhatWasShown'
  <2> SUFFICES ASSUME NEW u \in Turns PROVE BooksWhatWasShown!(u)'
    BY DEF BooksWhatWasShown
  <2>1. CASE u = t
    BY <1>1, <1>3, <2>1
  <2>2. CASE u # t
    BY <1>1, <1>3, <2>2 DEF LocalInv, BooksWhatWasShown, Untouched
  <2> QED  BY <2>1, <2>2
<1> QED
  BY <1>4, <1>5, <1>6, <1>7 DEF LocalInv

\* No booking is made by the step, so what was booked and is recalled stands.
LEMMA NothingMadeKeepsBookings ==
    ASSUME LocalInv, out' = out, req' = req, NoneSent, Kept
    PROVE  BooksWhatWasShown'
<1>1. \A u \in Turns : Asked(u, "book")' <=> Asked(u, "book")
  BY DEF Asked, NoneSent, Kept
<1> SUFFICES ASSUME NEW u \in Turns PROVE BooksWhatWasShown!(u)'
  BY DEF BooksWhatWasShown
<1> QED
  BY <1>1 DEF LocalInv, BooksWhatWasShown

\* The steps that look options up or put them on screen.
LEMMA LookingKeepsLocal ==
    ASSUME LocalDesk, TypeInv, OwnInv, Attended, LocalInv, NEW t \in Turns,
           ShowOptions(t) \/ ResolveOptions(t)
    PROVE  LocalInv'
<1> USE DEF memory, Step
<1>1. /\ UNCHANGED <<store, lastOptions, lastSelection, out, booking, req>>
      /\ Kept /\ NoneSent /\ Untouched(t) /\ pc[t] # "unsent"
  <2>1. Kept /\ NoneSent /\ pc[t] # "unsent"
    BY StepKeepsTurns DEF TurnStep
  <2> QED
    BY <2>1 DEF ShowOptions, ResolveOptions, Untouched, TypeInv, TypeOK
<1>2. \/ pc[t] = "found" /\ pc'[t] = "shown"
      \/ pc[t] = "resolving" /\ pc'[t] \in {"replying", "booking", "summarising"}
  BY DEF ShowOptions, ResolveOptions, LocalDesk, TypeInv, TypeOK
<1>3. pc'[t] \in {"booking", "summarising"} => Remembered(t) # None
  <2> SUFFICES ASSUME pc'[t] \in {"booking", "summarising"} PROVE Remembered(t) # None
    OBVIOUS
  <2>1. pc[t] = "resolving" /\ ResolveOptions(t)
    BY <1>2 DEF ShowOptions, LocalDesk
  <2>2. PICK o \in OptionLists \cup {None} :
           /\ Resolved(t, o)
           /\ pc' = [pc EXCEPT ![t] = IF o = None THEN "replying"
                                      ELSE IF req[t].message.kind = "book" THEN "booking"
                                      ELSE "summarising"]
    BY <2>1 DEF ResolveOptions
  <2>3. o # None
    BY <2>2 DEF TypeInv, TypeOK
  <2> QED
    BY <2>1, <2>2, <2>3, ResolvedIsRemembered
<1>4. \A u \in Turns : Remembered(u)' = Remembered(u) /\ (Forgotten(u) => Forgotten(u)')
  BY <1>1 DEF Remembered, Forgotten, Conversation, Asking
<1>5. SearchesRemembered'
  <2> SUFFICES ASSUME NEW u \in Turns, Asked(u, "search")', req[u].message.place \in Covered
               PROVE  Remembered(u)' # None \/ pc'[u] \in {"found", "shown"} \/ Forgotten(u)'
    BY <1>1 DEF SearchesRemembered
  <2>1. Asked(u, "search")
    BY <1>1 DEF Asked, NoneSent
  <2>2. pc[t] = "resolving" => u # t
    BY <2>1 DEF Asked, TypeInv, StepsHoldOptions
  <2> QED
    BY <1>1, <1>2, <1>4, <2>1, <2>2 DEF LocalInv, SearchesRemembered, Untouched
<1>6. LocalTurns'
  <2> SUFFICES ASSUME NEW u \in Turns PROVE LocalTurns!(u)'
    BY DEF LocalTurns
  <2>1. CASE u = t
    BY <1>1, <1>2, <1>3, <1>4, <2>1 DEF LocalInv, LocalTurns
  <2>2. CASE u # t
    BY <1>1, <1>4, <2>2 DEF LocalInv, LocalTurns, Untouched
  <2> QED  BY <2>1, <2>2
<1>7. RecalledIsBooked'
  BY <1>1 DEF LocalInv, RecalledIsBooked
<1>8. BooksWhatWasShown'
  BY <1>1, NothingMadeKeepsBookings
<1> QED
  BY <1>5, <1>6, <1>7, <1>8 DEF LocalInv

LEMMA RememberKeepsLocal ==
    ASSUME LocalDesk, TypeInv, LocalInv, NEW t \in Turns, RememberOptions(t)
    PROVE  LocalInv'
<1> USE DEF memory, Step
<1>1. /\ UNCHANGED <<store, lastSelection, out, req>>
      /\ Kept /\ NoneSent /\ Untouched(t) /\ pc[t] # "unsent"
  <2>1. Kept /\ NoneSent /\ pc[t] # "unsent"
    BY StepKeepsTurns DEF TurnStep
  <2> QED
    BY <2>1 DEF RememberOptions, Untouched, TypeInv, TypeOK
<1>2. pc[t] = "shown" /\ pc'[t] = "replying"
  BY DEF RememberOptions, LocalDesk, TypeInv, TypeOK
<1>3. PICK i \in Instances, s \in Sessions : i = req[t].instance /\ s = req[t].session
  BY <1>1 DEF TypeInv, Posted, Request
<1>4. PICK card : card = Shown(req[t].message.place)
  OBVIOUS
<1>5. card # None
  BY <1>2, <1>4, ShownIsAnAnswer, NoneAssumption DEF TypeInv, StepsHoldOptions
<1>6. \A j \in Instances, r \in Sessions :
          lastOptions'[j][r] = IF r = s THEN card ELSE lastOptions[j][r]
  BY <1>3, <1>4 DEF RememberOptions, TypeInv, TypeOK, LocalDesk, OneInstance
<1>7. \A r \in Sessions : booking'[r] = IF r = s THEN [booking[s] EXCEPT !.searchedSince = TRUE]
                                        ELSE booking[r]
  BY <1>3 DEF RememberOptions, TypeInv, TypeOK
<1>8. booking'[s].searchedSince
  BY <1>7 DEF TypeInv, TypeOK
<1>9. \A u \in Turns : pc[u] # "unsent" /\ Remembered(u) # None => Remembered(u)' # None
  BY <1>1, <1>5, <1>6 DEF Remembered, TypeInv, Posted, Request
<1>10. Remembered(t)' # None
  BY <1>1, <1>3, <1>5, <1>6 DEF Remembered
<1>11. \A u \in Turns : Forgotten(u) => Forgotten(u)'
  BY <1>1 DEF Forgotten, Conversation, Asking
<1>12. SearchesRemembered'
  <2> SUFFICES ASSUME NEW u \in Turns, Asked(u, "search")', req[u].message.place \in Covered
               PROVE  Remembered(u)' # None \/ pc'[u] \in {"found", "shown"} \/ Forgotten(u)'
    BY <1>1 DEF SearchesRemembered
  <2>1. Asked(u, "search")
    BY <1>1 DEF Asked, NoneSent
  <2> QED
    BY <1>1, <1>9, <1>10, <1>11, <2>1 DEF LocalInv, SearchesRemembered, Untouched, Asked
<1>13. LocalTurns'
  <2> SUFFICES ASSUME NEW u \in Turns PROVE LocalTurns!(u)'
    BY DEF LocalTurns
  <2>1. CASE u = t
    BY <1>2, <2>1
  <2>2. CASE u # t
    BY <1>1, <1>9, <2>2 DEF LocalInv, LocalTurns, Untouched
  <2> QED  BY <2>1, <2>2
<1>14. RecalledIsBooked'
  <2> SUFFICES ASSUME NEW j \in Instances, NEW r \in Sessions,
                      booking'[r].itinerary # None, ~booking'[r].searchedSince,
                      lastOptions'[j][r] # None
               PROVE  /\ lastSelection'[j][r] # None
                      /\ booking'[r].itinerary = Pick(lastOptions'[j][r], lastSelection'[j][r])
    BY DEF RecalledIsBooked
  <2>1. r # s
    BY <1>8
  <2> QED
    BY <1>1, <1>6, <1>7, <2>1 DEF LocalInv, RecalledIsBooked
<1>15. BooksWhatWasShown'
  BY <1>1, NothingMadeKeepsBookings
<1> QED
  BY <1>12, <1>13, <1>14, <1>15 DEF LocalInv

LEMMA BookKeepsLocal ==
    ASSUME LocalDesk, TypeInv, Attended, CardInv, LocalInv, NEW t \in Turns, Book(t)
    PROVE  LocalInv'
<1> USE DEF Step
<1>1. /\ UNCHANGED <<store, lastOptions, req>>
      /\ Kept /\ NoneSent /\ Untouched(t)
      /\ pc[t] = "booking" /\ pc'[t] = "replying"
  <2>1. Kept /\ NoneSent
    BY StepKeepsTurns DEF TurnStep
  <2> QED
    BY <2>1 DEF Book, Untouched, TypeInv, TypeOK
<1>2. req[t] \in Request /\ req[t].message.kind = "book" /\ Remembered(t) # None
  BY <1>1 DEF TypeInv, Posted, StepsHoldOptions, LocalInv, LocalTurns
<1>3. PICK i \in Instances, s \in Sessions : i = req[t].instance /\ s = req[t].session
  BY <1>2 DEF Request
<1>4. PICK sel : sel = bookingSelectionFromMessage(req[t].message)
  OBVIOUS
<1>5. sel \in Selection /\ sel # None
  BY <1>2, <1>4, BookMessages, NoneAssumption DEF Request
<1>6. options[t] = Remembered(t) /\ req[t].wanted = options[t]
  BY <1>2, BookingIsOfTheCard DEF LocalDesk
<1>7. /\ out'[t] = Pick(options[t], sel)
      /\ \A j \in Instances, r \in Sessions :
            lastSelection'[j][r] = IF r = s THEN sel ELSE lastSelection[j][r]
      /\ \A r \in Sessions : booking'[r] = IF r = s
                                           THEN [itinerary |-> Pick(options[t], sel), searchedSince |-> FALSE]
                                           ELSE booking[r]
  BY <1>3, <1>4 DEF Book, TypeInv, TypeOK, LocalDesk, OneInstance
<1>8. \A u \in Turns : Remembered(u)' = Remembered(u) /\ (Forgotten(u) => Forgotten(u)')
  BY <1>1 DEF Remembered, Forgotten, Conversation, Asking
<1>9. SearchesRemembered'
  BY <1>1, <1>2, <1>8 DEF LocalInv, SearchesRemembered, Untouched, Asked, NoneSent
<1>10. LocalTurns'
  <2> SUFFICES ASSUME NEW u \in Turns PROVE LocalTurns!(u)'
    BY DEF LocalTurns
  <2>1. CASE u = t
    BY <1>1, <2>1
  <2>2. CASE u # t
    BY <1>1, <1>8, <2>2 DEF LocalInv, LocalTurns, Untouched
  <2> QED  BY <2>1, <2>2
<1>11. RecalledIsBooked'
  <2> SUFFICES ASSUME NEW j \in Instances, NEW r \in Sessions,
                      booking'[r].itinerary # None, ~booking'[r].searchedSince,
                      lastOptions[j][r] # None
               PROVE  /\ lastSelection'[j][r] # None
                      /\ booking'[r].itinerary = Pick(lastOptions[j][r], lastSelection'[j][r])
    BY <1>1 DEF RecalledIsBooked
  <2>1. CASE r = s
    <3>1. lastOptions[j][r] = options[t]
      BY <1>3, <1>6, <2>1 DEF Remembered, LocalDesk, OneInstance
    <3> QED
      BY <1>5, <1>7, <2>1, <3>1
  <2>2. CASE r # s
    BY <1>7, <2>2 DEF LocalInv, RecalledIsBooked
  <2> QED  BY <2>1, <2>2
<1>12. BooksWhatWasShown'
  <2> SUFFICES ASSUME NEW u \in Turns PROVE BooksWhatWasShown!(u)'
    BY DEF BooksWhatWasShown
  <2>1. CASE u = t
    BY <1>1, <1>2, <1>4, <1>6, <1>7, <2>1
  <2>2. CASE u # t
    BY <1>1, <2>2 DEF LocalInv, BooksWhatWasShown, Untouched, Asked
  <2> QED  BY <2>1, <2>2
<1> QED
  BY <1>9, <1>10, <1>11, <1>12 DEF LocalInv

\* A summary, and the end of a turn.
LEMMA ReplyingKeepsLocal ==
    ASSUME TypeInv, LocalInv, NEW t \in Turns, Summarise(t) \/ Finish(t)
    PROVE  LocalInv'
<1> USE DEF memory, Step
<1>1. /\ UNCHANGED <<lastOptions, lastSelection, booking, req>>
      /\ Kept /\ NoneSent /\ Untouched(t) /\ pc[t] # "unsent"
      /\ pc[t] \in {"summarising", "replying"} /\ pc'[t] \in {"replying", "done"}
  <2>1. Kept /\ NoneSent /\ pc[t] # "unsent"
    BY StepKeepsTurns DEF TurnStep
  <2> QED
    BY <2>1 DEF Summarise, Finish, Untouched, TypeInv, TypeOK
<1>2. out'[t] # out[t] => req[t].message.kind = "summary"
  BY DEF Summarise, Finish, TypeInv, StepsHoldOptions
<1>3. \A u \in Turns : pc[u] # "unsent" /\ Forgotten(u) => Forgotten(u)'
  <2>1. CASE Summarise(t)
    BY <2>1 DEF Summarise, Forgotten, Conversation, Asking
  <2>2. CASE Finish(t)
    <3> SUFFICES ASSUME NEW u \in Turns, pc[u] # "unsent", Forgotten(u) PROVE Forgotten(u)'
      OBVIOUS
    <3>1. Recorded(req[t].instance, req[t].session, Reply(t)) /\ req[t] \in Request
      BY <2>2, FinishRecords
    <3>2. /\ Reply(t) \in Entry /\ Reply(t) # Asking(u)
          /\ req[t].instance \in Instances /\ req[t].session \in Sessions
      BY <3>1 DEF Reply, Asking, Entry, Request
    <3>3. req[u] \in Request /\ req'[u] = req[u]
      BY <1>1 DEF TypeInv, Posted
    <3> QED
      BY <3>1, <3>2, <3>3, RecordKeepsForgotten
  <2> QED  BY <2>1, <2>2
<1>4. SearchesRemembered'
  <2> SUFFICES ASSUME NEW u \in Turns, Asked(u, "search")', req[u].message.place \in Covered
               PROVE  Remembered(u)' # None \/ pc'[u] \in {"found", "shown"} \/ Forgotten(u)'
    BY <1>1 DEF SearchesRemembered
  <2>1. Asked(u, "search") /\ pc[u] # "unsent" /\ Remembered(u)' = Remembered(u)
    BY <1>1 DEF Asked, NoneSent, Remembered
  <2> QED
    BY <1>1, <1>3, <2>1 DEF LocalInv, SearchesRemembered, Untouched
<1>5. LocalTurns'
  <2> SUFFICES ASSUME NEW u \in Turns PROVE LocalTurns!(u)'
    BY DEF LocalTurns
  <2>1. CASE u = t
    BY <1>1, <2>1
  <2>2. CASE u # t
    BY <1>1, <2>2 DEF LocalInv, LocalTurns, Untouched, Remembered
  <2> QED  BY <2>1, <2>2
<1>6. RecalledIsBooked'
  BY <1>1 DEF LocalInv, RecalledIsBooked
<1>7. BooksWhatWasShown'
  <2> SUFFICES ASSUME NEW u \in Turns PROVE BooksWhatWasShown!(u)'
    BY DEF BooksWhatWasShown
  <2>1. CASE u = t
    BY <1>1, <1>2, <2>1 DEF LocalInv, BooksWhatWasShown, Asked
  <2>2. CASE u # t
    BY <1>1, <2>2 DEF LocalInv, BooksWhatWasShown, Untouched, Asked
  <2> QED  BY <2>1, <2>2
<1> QED
  BY <1>4, <1>5, <1>6, <1>7 DEF LocalInv

LEMMA RestartKeepsLocal ==
    ASSUME OneInstance, TypeInv, LocalInv, NEW i \in Instances, Restart(i)
    PROVE  LocalInv'
<1>1. /\ UNCHANGED <<req, shown, out, options, booking>> /\ CanRestart
      /\ \A j \in Instances, s \in Sessions : lastOptions'[j][s] = None /\ store'[j][s] = <<>>
      /\ \A u \in Turns : ~InFlight(u)' /\ (pc'[u] = "unsent" <=> pc[u] = "unsent")
      /\ \A u \in Turns : pc'[u] \in {pc[u], "lost"}
  BY RestartEmpties
<1>2. SearchesRemembered'
  <2> SUFFICES ASSUME NEW u \in Turns, Asked(u, "search")' PROVE Forgotten(u)'
    BY DEF SearchesRemembered
  <2>1. req[u] \in Request
    BY <1>1 DEF Asked, TypeInv, Posted
  <2>2. Conversation(u)' = <<>>
    BY <1>1, <2>1 DEF Conversation, Request
  <2> QED
    BY <1>1, <2>2 DEF Forgotten
<1>3. LocalTurns'
  BY <1>1 DEF LocalInv, LocalTurns, InFlight
<1>4. RecalledIsBooked'
  BY <1>1 DEF RecalledIsBooked
<1>5. BooksWhatWasShown'
  BY <1>1 DEF LocalInv, BooksWhatWasShown, Asked
<1> QED
  BY <1>2, <1>3, <1>4, <1>5 DEF LocalInv

LEMMA LocalStep ==
    ASSUME LocalDesk, TypeInv, OwnInv, Attended, CardInv, LocalInv, [Next]_vars
    PROVE  LocalInv'
<1> USE DEF memory
<1>1. ASSUME NEW t \in Turns, NEW s \in Sessions, NEW i \in Instances,
             NEW m \in Message, NEW replay \in BOOLEAN, Post(t, s, i, m, replay)
      PROVE  LocalInv'
  BY <1>1, PostKeepsLocal
<1>2. ASSUME NEW t \in Turns, TurnStep(t) PROVE LocalInv'
  BY <1>2, LocalSteps, LookingKeepsLocal, RememberKeepsLocal, BookKeepsLocal,
     ReplyingKeepsLocal DEF LocalDesk
<1>3. ASSUME NEW i \in Instances, Restart(i) PROVE LocalInv'
  BY <1>3, RestartKeepsLocal DEF LocalDesk
<1>4. CASE UNCHANGED vars
  BY <1>4 DEF vars, LocalInv, SearchesRemembered, LocalTurns, RecalledIsBooked, BooksWhatWasShown,
     Remembered, Forgotten, Conversation, Asked, Asking
<1> QED
  BY <1>1, <1>2, <1>3, <1>4 DEF Next, Detach, LocalDesk

\* With the local driver on one instance and no abandoned stream, every booking is
\* of the card that was on screen when it was asked for, at the position the
\* message names: also across restarts, unless the client replays a transcript
\* older than the restart.
THEOREM BooksShown == LocalDesk => (Spec => []BooksWhatWasShown)
<1> SUFFICES ASSUME LocalDesk PROVE Spec => []BooksWhatWasShown
  OBVIOUS
<1>1. TypeInv /\ OrderInv /\ [Next]_vars => OrderInv'
  BY OrderStep DEF LocalDesk
<1>2. TypeInv /\ OrderInv /\ CardInv /\ [Next]_vars => CardInv'
  BY CardStep DEF OrderInv, LocalDesk
<1>3. TypeInv /\ OwnInv /\ OrderInv /\ CardInv /\ LocalInv /\ [Next]_vars => LocalInv'
  BY LocalStep DEF OrderInv
<1>4. LocalInv => BooksWhatWasShown
  BY DEF LocalInv
<1> QED
  BY <1>1, <1>2, <1>3, <1>4, TypeInit, TypeStep, OwnInit, OwnStep, OrderInit, CardInit, LocalInit,
     PTL DEF Spec

------------------------------------------------------------------------------
(* A summary tells what was booked. *)

LEMMA SummaryIsOfTheBooking ==
    ASSUME LocalDesk, TypeInv, OwnInv, Attended, CardInv, LocalInv, [Next]_vars,
           NEW t \in Turns, Summarises(t), booking[req[t].session].itinerary # None,
           ~booking[req[t].session].searchedSince
    PROVE  out'[t] = booking[req[t].session].itinerary
<1> USE DEF memory
<1>1. Summarise(t)
  <2>1. ASSUME NEW u \in Turns, TurnStep(u) PROVE Summarise(t)
    <3>1. u = t
      BY <2>1, OutIsMade DEF Summarises
    <3>2. ~Book(t)
      BY DEF Summarises, Asked, Book, Step, TypeInv, StepsHoldOptions
    <3>3. Book(t) \/ Summarise(t)
      BY <2>1, <3>1, LocalSteps DEF LocalDesk, ShowOptions, RememberOptions, ResolveOptions,
                                    Finish, Summarises
    <3> QED  BY <3>2, <3>3
  <2>2. out' # out
    BY DEF Summarises
  <2>3. \/ \E u \in Turns : TurnStep(u)
        \/ out' = out
    <3>1. ASSUME NEW u \in Turns, NEW s \in Sessions, NEW i \in Instances,
                 NEW m \in Message, NEW replay \in BOOLEAN, Post(u, s, i, m, replay)
          PROVE  out' = out
      BY <3>1 DEF Post
    <3>2. CASE UNCHANGED vars
      BY <3>2 DEF vars
    <3> QED
      BY <3>1, <3>2 DEF Next, Detach, Restart
  <2> QED
    BY <2>1, <2>2, <2>3
<1>2. /\ pc[t] = "summarising" /\ req[t] \in Request /\ Remembered(t) # None
      /\ out'[t] = Pick(options[t], Recalled(t))
  BY <1>1 DEF Summarise, Step, TypeInv, TypeOK, Posted, LocalInv, LocalTurns
<1>3. PICK i \in Instances, s \in Sessions : i = req[t].instance /\ s = req[t].session
  BY <1>2 DEF Request
<1>4. options[t] = lastOptions[i][s] /\ lastOptions[i][s] # None
  BY <1>2, <1>3 DEF CardInv, HoldsTheRemembered, Remembered, LocalDesk
<1>5. lastSelection[i][s] # None /\ booking[s].itinerary = Pick(lastOptions[i][s], lastSelection[i][s])
  BY <1>3, <1>4 DEF LocalInv, RecalledIsBooked
<1>6. Recalled(t) = lastSelection[i][s]
  BY <1>3, <1>5 DEF Recalled
<1> QED
  BY <1>2, <1>3, <1>4, <1>5, <1>6

\* With the local driver on one instance and no abandoned stream, a summary is of
\* the flight and hotel last booked in the session, until a later search has
\* replaced the options the remembered positions are looked up in.
THEOREM SummaryReflects == LocalDesk => (Spec => SummaryReflectsBookingUntilNextSearch)
<1> SUFFICES ASSUME LocalDesk PROVE Spec => SummaryReflectsBookingUntilNextSearch
  OBVIOUS
<1>1. TypeInv /\ OrderInv /\ [Next]_vars => OrderInv'
  BY OrderStep DEF LocalDesk
<1>2. TypeInv /\ OrderInv /\ CardInv /\ [Next]_vars => CardInv'
  BY CardStep DEF OrderInv, LocalDesk
<1>3. TypeInv /\ OwnInv /\ OrderInv /\ CardInv /\ LocalInv /\ [Next]_vars => LocalInv'
  BY LocalStep DEF OrderInv
<1>4. TypeInv /\ OwnInv /\ OrderInv /\ CardInv /\ LocalInv /\ [Next]_vars =>
          [\A t \in Turns :
              Summarises(t) /\ booking[req[t].session].itinerary # None
                            /\ ~booking[req[t].session].searchedSince =>
                  out'[t] = booking[req[t].session].itinerary]_vars
  BY SummaryIsOfTheBooking DEF OrderInv
<1> QED
  BY <1>1, <1>2, <1>3, <1>4, TypeInit, TypeStep, OwnInit, OwnStep, OrderInit, CardInit, LocalInit,
     PTL DEF Spec, SummaryReflectsBookingUntilNextSearch

------------------------------------------------------------------------------
(* The booking desk. *)

\* The order a booking turn was given.
Order(t) == IF Asked(t, "book") THEN Named(t) ELSE None
Sold(t) == IF Asked(t, "book") THEN out[t] ELSE None

LEMMA DeskInit == Init => Desk!Init
  BY DEF Init, Desk!Init, Asked

\* A booking message places an order with the desk; other messages do not concern it.
LEMMA PostIsAtTheDesk ==
    ASSUME TypeInv, OwnInv, NEW t \in Turns, NEW s \in Sessions, NEW i \in Instances,
           NEW m \in Message, NEW replay \in BOOLEAN, Post(t, s, i, m, replay)
    PROVE  [Desk!Next]_(Desk!vars)
<1>1. /\ Untouched(t) /\ UNCHANGED <<out, shown>>
      /\ pc[t] = "unsent" /\ pc'[t] # "unsent"
      /\ req'[t].session = s /\ req'[t].message = m
  BY PostStarts, PostRecords
<1>2. out[t] = None
  BY <1>1 DEF OwnInv, OutOwn
<1>3. \A u \in Turns : Sold(u)' = Sold(u)
  BY <1>1, <1>2 DEF Sold, Asked, Untouched
<1>4. \A u \in Turns : u # t => Order(u)' = Order(u)
  BY <1>1 DEF Order, Asked, Named, Untouched
<1>5. Order(t) = None
  BY <1>1 DEF Order, Asked
<1>6. CASE m.kind = "book"
  <2>1. PICK sel \in Selection : sel = bookingSelectionFromMessage(m)
    BY <1>6, BookMessages
  <2>2. Order(t)' = [session |-> s, selection |-> sel]
    BY <1>1, <1>6, <2>1 DEF Order, Asked, Named
  <2>3. Desk!Ask(t, s, sel)
    BY <1>1, <1>3, <1>4, <1>5, <2>2 DEF Desk!Ask, Order, Sold
  <2> QED
    BY <2>1, <2>3 DEF Desk!Next
<1>7. CASE m.kind # "book"
  <2>1. Order(t)' = None
    BY <1>1, <1>7 DEF Order, Asked
  <2> QED
    BY <1>1, <1>3, <1>4, <1>5, <2>1 DEF Desk!vars, Order, Sold
<1> QED  BY <1>6, <1>7

\* The step of a search that puts its card on screen is the desk's, and so is the
\* step of a booking that makes it; the others do not concern the desk.
LEMMA TurnStepIsAtTheDesk ==
    ASSUME LocalDesk, TypeInv, Attended, CardInv, LocalInv, NEW t \in Turns, TurnStep(t)
    PROVE  [Desk!Next]_(Desk!vars)
<1> USE DEF memory, Step
<1>1. /\ req' = req /\ pc[t] # "unsent" /\ req[t] \in Request
      /\ \A u \in Turns : Asked(u, "book")' <=> Asked(u, "book")
  BY StepKeepsTurns DEF NoneSent, Kept, Asked, TypeInv, Posted
<1>2. \A u \in Turns : Order(u)' = Order(u)
  BY <1>1 DEF Order, Named
<1>3. PICK s \in Sessions : s = req[t].session
  BY <1>1 DEF Request
<1>4. CASE ShowOptions(t)
  <2>1. Shown(req[t].message.place) \in OptionLists
    BY <1>4, ShownIsAnAnswer DEF ShowOptions, TypeInv, StepsHoldOptions
  <2>2. awaiting[s] = t
    BY <1>1, <1>3, <1>4 DEF Attended, ShowOptions, InFlight
  <2>3. shown' = [shown EXCEPT ![s] = Shown(req[t].message.place)]
    BY <1>3, <1>4, <2>2 DEF ShowOptions
  <2>4. \A u \in Turns : Sold(u)' = Sold(u)
    BY <1>1, <1>4 DEF ShowOptions, Sold
  <2>5. Desk!Show(s, Shown(req[t].message.place))
    BY <1>2, <2>3, <2>4 DEF Desk!Show, Order, Sold
  <2> QED
    BY <2>1, <2>5 DEF Desk!Next
<1>5. CASE Book(t)
  <2>1. pc[t] = "booking" /\ req[t].message.kind = "book" /\ out[t] = None /\ Remembered(t) # None
    BY <1>5 DEF Book, TypeInv, StepsHoldOptions, LocalInv, LocalTurns
  <2>2. options[t] = Remembered(t) /\ req[t].wanted = options[t]
    BY <1>5, <2>1, BookingIsOfTheCard DEF LocalDesk
  <2>3. shown[s] = options[t]
    BY <1>3, <2>1, <2>2 DEF CardInv, WantsTheCard, InFlight
  <2>4. Order(t) = Named(t) /\ Named(t).session = s
        /\ Named(t).selection = bookingSelectionFromMessage(req[t].message)
    BY <1>1, <1>3, <2>1 DEF Order, Asked, Named
  <2>5. Named(t) # None
    <3>1. bookingSelectionFromMessage(req[t].message) \in Selection
      BY <1>1, <2>1, BookMessages DEF Request
    <3>2. Named(t) \in [session : Sessions, selection : Selection]
      BY <1>3, <3>1 DEF Named
    <3> QED
      BY <3>2, NoneAssumption
  <2>6. /\ out'[t] = Pick(shown[s], Named(t).selection)
        /\ \A u \in Turns : u # t => out'[u] = out[u]
        /\ shown' = shown
    BY <1>5, <2>3, <2>4 DEF Book, TypeInv, TypeOK
  <2>7. /\ Sold(t) = None /\ Sold(t)' = Pick(shown[s], Named(t).selection)
        /\ \A u \in Turns : u # t => Sold(u)' = Sold(u)
    BY <1>1, <2>1, <2>6 DEF Sold, Asked
  <2>8. Desk!Book(t)
    BY <1>2, <2>1, <2>2, <2>3, <2>4, <2>5, <2>6, <2>7 DEF Desk!Book, Order, Sold
  <2> QED
    BY <2>8 DEF Desk!Next
<1>6. CASE ~ShowOptions(t) /\ ~Book(t)
  <2>1. shown' = shown
    BY <1>6, LocalSteps DEF LocalDesk, RememberOptions, ResolveOptions, Summarise, Finish
  <2>2. \A u \in Turns : Asked(u, "book") => out'[u] = out[u]
    <3>1. \A u \in Turns : u # t => out'[u] = out[u]
      BY OutIsMade
    <3>2. out'[t] # out[t] => Summarise(t)
      BY <1>6, LocalSteps DEF LocalDesk, RememberOptions, ResolveOptions, Finish
    <3>3. Summarise(t) => ~Asked(t, "book")
      BY DEF Summarise, TypeInv, StepsHoldOptions, Asked
    <3> QED  BY <3>1, <3>2, <3>3
  <2>3. \A u \in Turns : Sold(u)' = Sold(u)
    BY <1>1, <2>2 DEF Sold
  <2> QED
    BY <1>2, <2>1, <2>3 DEF Desk!vars, Order, Sold
<1> QED  BY <1>4, <1>5, <1>6

LEMMA DeskStep ==
    ASSUME LocalDesk, TypeInv, OwnInv, Attended, CardInv, LocalInv, [Next]_vars
    PROVE  [Desk!Next]_(Desk!vars)
<1> USE DEF memory
<1>1. ASSUME NEW t \in Turns, NEW s \in Sessions, NEW i \in Instances,
             NEW m \in Message, NEW replay \in BOOLEAN, Post(t, s, i, m, replay)
      PROVE  [Desk!Next]_(Desk!vars)
  BY <1>1, PostIsAtTheDesk
<1>2. ASSUME NEW t \in Turns, TurnStep(t) PROVE [Desk!Next]_(Desk!vars)
  BY <1>2, TurnStepIsAtTheDesk
<1>3. ASSUME NEW i \in Instances, Restart(i) PROVE [Desk!Next]_(Desk!vars)
  <2>1. /\ UNCHANGED <<req, shown, out>>
        /\ \A u \in Turns : pc'[u] = "unsent" <=> pc[u] = "unsent"
    BY <1>3, RestartEmpties DEF LocalDesk
  <2> QED
    BY <2>1 DEF Desk!vars, Asked, Named
<1>4. CASE UNCHANGED vars
  BY <1>4 DEF vars, Desk!vars, Asked, Named
<1> QED
  BY <1>1, <1>2, <1>3, <1>4 DEF Next, Detach, LocalDesk

\* With the local driver on one instance and no abandoned stream, the routes, the
\* session store, the booking memory and the driver implement the booking desk:
\* a booking turn books at most once, what is on screen at that moment, at the
\* position its message names.
THEOREM DeskImplemented == LocalDesk => (Spec => ImplementsDesk)
<1> SUFFICES ASSUME LocalDesk PROVE Spec => ImplementsDesk
  OBVIOUS
<1>1. TypeInv /\ OrderInv /\ [Next]_vars => OrderInv'
  BY OrderStep DEF LocalDesk
<1>2. TypeInv /\ OrderInv /\ CardInv /\ [Next]_vars => CardInv'
  BY CardStep DEF OrderInv, LocalDesk
<1>3. TypeInv /\ OwnInv /\ OrderInv /\ CardInv /\ LocalInv /\ [Next]_vars => LocalInv'
  BY LocalStep DEF OrderInv
<1>4. TypeInv /\ OwnInv /\ OrderInv /\ CardInv /\ LocalInv /\ [Next]_vars => [Desk!Next]_(Desk!vars)
  BY DeskStep DEF OrderInv
<1> QED
  BY <1>1, <1>2, <1>3, <1>4, DeskInit, TypeInit, TypeStep, OwnInit, OwnStep, OrderInit, CardInit,
     LocalInit, PTL DEF Spec, ImplementsDesk, Desk!Spec
==============================================================================
