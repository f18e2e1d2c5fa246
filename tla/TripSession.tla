----------------------------- MODULE TripSession -----------------------------
(***************************************************************************)
(* Search, book and summarise turns of a conversation: the two routes of   *)
(* app.ts, the in-memory session store, the booking memory of              *)
(* booking-context.ts, and the two agent drivers that read and write it.   *)
(*                                                                         *)
(* A turn is a chain of atomic steps between the `yield`s and `await`s of  *)
(* its generator.  Turns of one session overlap when the client gives up   *)
(* on a stream (it went offline): the route never notices and the turn     *)
(* runs on.  An instance is one process of the API; all of its memory goes *)
(* when it restarts.                                                       *)
(*                                                                         *)
(* Messages, flights and hotels are abstract.  A message is what the       *)
(* classifiers of routestack.ts and trip-summary.ts make of its text; a    *)
(* place is Covered when a search of it yields options, and not Covered    *)
(* whenever searchTravel answers anything else (no dates, past dates, no   *)
(* origin, no inventory).                                                  *)
(***************************************************************************)
EXTENDS Integers, Sequences, FiniteSets

CONSTANTS
    Instances, Sessions,
    Turns,          \* bounds the number of messages sent
    Surface,        \* the route in use: "chat" (/api/chat) or "responses" (/responses)
    Driver,         \* "local" or "copilot"
    CanDetach,      \* may the client give up on a stream
    CanRestart,     \* may an instance restart
    Places, Covered,
    Flights,        \* [Covered -> Seq(airline)], in catalogue order
    Hotels,         \* [Covered -> Seq(hotel)]
    Preferred,      \* the profile's preferred airlines
    Positions,      \* zero-based positions a booking message can name
    None

ASSUME TripAssumption ==
    /\ Surface \in {"chat", "responses"}
    /\ Driver \in {"local", "copilot"}
    /\ CanDetach \in BOOLEAN
    /\ CanRestart \in BOOLEAN
    /\ Covered \subseteq Places
    /\ Positions \subseteq Nat
    /\ None \notin Turns

VARIABLES
    store,          \* [Instances -> [Sessions -> Seq(entry)]]   session/store.ts
    lastOptions,    \* [Instances -> [Sessions -> options]]      booking-context.ts:15
    lastSelection,  \* [Instances -> [Sessions -> selection]]    booking-context.ts:18
    pc,             \* where each turn is
    req,            \* what each turn was posted with
    options,        \* the option list each turn holds in a local variable
    search,         \* how far the model's travel-search of each turn has got
    out,            \* the itinerary each turn booked or summarised
    awaiting,       \* the turn each client is streaming, or None
    shown,          \* the options card each traveller last saw
    transcript,     \* the turns each client has sent, which the platform replays
    booking         \* history: the last booking of each session, and whether a
                    \* search has been remembered since

memory == <<store, lastOptions, lastSelection>>
vars == <<memory, pc, req, options, search, out, awaiting, shown, transcript, booking>>

------------------------------------------------------------------------------
Message ==
    [kind : {"search"}, place : Places]
        \cup [kind : {"book"}, flight : Positions, hotel : Positions]
        \cup [kind : {"summary", "other"}]

\* The catalogue's answer to a search.
searchTravel(place) ==
    IF place \in Covered
    THEN [place |-> place, flights |-> Flights[place], hotels |-> Hotels[place]]
    ELSE None

\* Preferred airlines first, each group in its order, at most three.
prioritiseByPreferredAirlines(flights) ==
    LET Wanted(airline) == airline \in Preferred
        Other(airline) == airline \notin Preferred
        ranked == SelectSeq(flights, Wanted) \o SelectSeq(flights, Other)
    IN  SubSeq(ranked, 1, IF Len(ranked) < 3 THEN Len(ranked) ELSE 3)

\* What a search of the place puts on the traveller's screen.
Shown(place) ==
    [searchTravel(place) EXCEPT !.flights = prioritiseByPreferredAirlines(@)]

OptionLists == {searchTravel(p) : p \in Covered} \cup {Shown(p) : p \in Covered}

\* The option at a zero-based position, or the last one if there are fewer.
At(list, position) == list[IF position < Len(list) THEN position + 1 ELSE Len(list)]

\* simulateBooking, estimateBudget and summariseTrip all select this way.
Pick(o, selection) ==
    [place |-> o.place,
     flight |-> At(o.flights, selection.flight),
     hotel |-> At(o.hotels, selection.hotel)]

\* Mutant: the position is kept as the traveller counts, from one.
MutantSelectionFromOne(m) == [flight |-> m.flight + 1, hotel |-> m.hotel + 1]

bookingSelectionFromMessage(m) == [flight |-> m.flight, hotel |-> m.hotel]

FirstOfEach == [flight |-> 0, hotel |-> 0]

IsSearch(t) == req[t].message.kind = "search"

\* The user turns of a stored conversation.
UserTurns(entries) == {entries[k].turn : k \in {j \in DOMAIN entries : entries[j].role = "user"}}

\* k is the most recent travel search of a history (lastSearchRequest).
IsLastSearch(history, k) ==
    /\ k \in DOMAIN history
    /\ IsSearch(history[k].turn) /\ history[k].role = "user"
    /\ \A j \in DOMAIN history :
          j > k => ~(history[j].role = "user" /\ IsSearch(history[j].turn))

\* The history a driver sees: /api/chat hands over the stored array itself, so
\* it grows under a running turn; /responses hands over a copy.
History(t) ==
    IF Surface = "chat" THEN store[req[t].instance][req[t].session] ELSE req[t].history

\* Mutant: the newest entry is put first.
MutantNewestFirst(i, s, entry) == [store EXCEPT ![i][s] = <<entry>> \o @]

append(i, s, entry) == [store EXCEPT ![i][s] = Append(@, entry)]

------------------------------------------------------------------------------
Init ==
    /\ store = [i \in Instances |-> [s \in Sessions |-> <<>>]]
    /\ lastOptions = [i \in Instances |-> [s \in Sessions |-> None]]
    /\ lastSelection = [i \in Instances |-> [s \in Sessions |-> None]]
    /\ pc = [t \in Turns |-> "unsent"]
    /\ req = [t \in Turns |-> None]
    /\ options = [t \in Turns |-> None]
    /\ search = [t \in Turns |-> "none"]
    /\ out = [t \in Turns |-> None]
    /\ awaiting = [s \in Sessions |-> None]
    /\ shown = [s \in Sessions |-> None]
    /\ transcript = [s \in Sessions |-> <<>>]
    /\ booking = [s \in Sessions |-> [itinerary |-> None, searchedSince |-> FALSE]]

\* A booking message with a search message before it is booked without the model.
isBookingQuery(m, history) == m.kind = "book" /\ \E t \in UserTurns(history) : IsSearch(t)

\* Which handler the driver's run() picks, as the step its turn starts at.
FirstStep(m, history) ==
    IF m.kind = "summary" \/ isBookingQuery(m, history) THEN "resolving"
    ELSE IF Driver = "copilot" THEN "sending"
    ELSE IF m.kind = "search" /\ searchTravel(m.place) # None THEN "found"
    ELSE "replying"

\* POST of a message.  The route records the user's turn and dispatches it
\* before it first gives up control.  replay: /responses got the earlier turns
\* in its input array; without them it falls back on its own store.
Post(t, s, i, m, replay) ==
    LET prior == IF Surface = "responses" /\ replay /\ transcript[s] # <<>>
                 THEN [k \in DOMAIN transcript[s] |-> [role |-> "user", turn |-> transcript[s][k]]]
                 ELSE store[i][s]
    IN  /\ pc[t] = "unsent"
        /\ awaiting[s] = None
        /\ replay => Surface = "responses"
        /\ store' = append(i, s, [role |-> "user", turn |-> t])
        /\ req' = [req EXCEPT ![t] = [session |-> s, instance |-> i, message |-> m,
                                      history |-> prior, wanted |-> shown[s]]]
        /\ pc' = [pc EXCEPT ![t] = FirstStep(m, prior)]
        /\ options' = [options EXCEPT ![t] = IF Driver = "local" /\ m.kind = "search"
                                             THEN searchTravel(m.place) ELSE None]
        /\ awaiting' = [awaiting EXCEPT ![s] = t]
        /\ transcript' = [transcript EXCEPT ![s] = Append(@, t)]
        /\ UNCHANGED <<lastOptions, lastSelection, search, out, shown, booking>>

Step(t, from, to) == pc[t] = from /\ pc' = [pc EXCEPT ![t] = to]

\* The local driver's travel-search result reaches the traveller, if still there.
ShowOptions(t) ==
    LET s == req[t].session
    IN  /\ Step(t, "found", "shown")
        /\ options' = [options EXCEPT ![t] = None]
        /\ shown' = IF awaiting[s] = t
                    THEN [shown EXCEPT ![s] = Shown(req[t].message.place)]
                    ELSE shown
        /\ UNCHANGED <<memory, req, search, out, awaiting, transcript, booking>>

\* rememberSearchOptions, once the result has been taken off the local driver's
\* generator.
RememberOptions(t) ==
    LET s == req[t].session
        i == req[t].instance
    IN  /\ Step(t, "shown", "replying")
        /\ lastOptions' = [lastOptions EXCEPT ![i][s] = Shown(req[t].message.place)]
        /\ booking' = [booking EXCEPT ![s].searchedSince = TRUE]
        /\ UNCHANGED <<store, lastSelection, req, options, search, out, awaiting, shown, transcript>>

\* The model may call tools from the moment the driver is sending it the prompt.
AtWork(t) == pc[t] \in {"sending", "draining"}

\* The model calls travel-search, once, or never, whatever the message: the place
\* is its own proposal, and whether the conversation mentions dates, which the
\* handler asks for first, is not told apart here.
ModelSearches(t, place) ==
    /\ Driver = "copilot"
    /\ AtWork(t) /\ search[t] = "none"
    /\ search' = [search EXCEPT ![t] = "running"]
    /\ options' = [options EXCEPT ![t] = Shown(place)]
    /\ UNCHANGED <<memory, pc, req, out, awaiting, shown, transcript, booking>>

\* The handler remembers the options and queues its result, in one go after its
\* awaits.  It goes on by itself, also when its turn has meanwhile failed.
ModelRemembers(t) ==
    LET s == req[t].session
    IN  /\ search[t] = "running"
        /\ search' = [search EXCEPT ![t] = "queued"]
        /\ lastOptions' = [lastOptions EXCEPT ![req[t].instance][s] = options[t]]
        /\ booking' = [booking EXCEPT ![s].searchedSince = TRUE]
        /\ UNCHANGED <<store, lastSelection, pc, req, options, out, awaiting, shown, transcript>>

\* session.send resolves: only now is the queue drained.
SendResolves(t) ==
    /\ Step(t, "sending", "draining")
    /\ UNCHANGED <<memory, req, options, search, out, awaiting, shown, transcript, booking>>

\* The queued travel-search result reaches the traveller, if still there.
ModelShows(t) ==
    LET s == req[t].session
    IN  /\ pc[t] = "draining" /\ search[t] = "queued"
        /\ search' = [search EXCEPT ![t] = "shown"]
        /\ shown' = IF awaiting[s] = t THEN [shown EXCEPT ![s] = options[t]] ELSE shown
        /\ UNCHANGED <<memory, pc, req, options, out, awaiting, transcript, booking>>

\* Mutant: nothing is remembered, every booking searches again.
MutantSearchesAgain(t, o) ==
    LET history == History(t)
    IN  \E k \in DOMAIN history :
            IsLastSearch(history, k) /\ o = searchTravel(req[history[k].turn].message.place)

\* Mutant: one memory for all sessions.
MutantSharedMemory(t, o) == \E s \in Sessions : o = lastOptions[req[t].instance][s]

\* resolveBookingOptions: what this instance remembers of the session, else
\* the most recent search of the history run again on the catalogue.
Resolved(t, o) ==
    LET remembered == lastOptions[req[t].instance][req[t].session]
        history == History(t)
    IN  IF remembered # None
        THEN o = remembered
        ELSE \/ \E k \in DOMAIN history :
                    /\ IsLastSearch(history, k)
                    /\ o = searchTravel(req[history[k].turn].message.place)
             \/ /\ \A k \in DOMAIN history : ~(history[k].role = "user" /\ IsSearch(history[k].turn))
                /\ o = None

\* Mutant: the summary forgets what was booked.
MutantForgetsSelection(t) == FirstOfEach

Recalled(t) ==
    LET selection == lastSelection[req[t].instance][req[t].session]
    IN  IF selection = None THEN FirstOfEach ELSE selection

\* A booking turn, or a local summary turn, looks up its options.
ResolveOptions(t) ==
    /\ pc[t] = "resolving"
    /\ Driver = "copilot" => req[t].message.kind = "book"
    /\ \E o \in OptionLists \cup {None} :
          /\ Resolved(t, o)
          /\ options' = [options EXCEPT ![t] = o]
          /\ Step(t, "resolving", IF o = None THEN "replying"
                                  ELSE IF req[t].message.kind = "book" THEN "booking"
                                  ELSE "summarising")
    /\ UNCHANGED <<memory, req, search, out, awaiting, shown, transcript, booking>>

\* simulateBooking and rememberBookingSelection.
Book(t) ==
    LET s == req[t].session
        selection == bookingSelectionFromMessage(req[t].message)
    IN  /\ Step(t, "booking", "replying")
        /\ out' = [out EXCEPT ![t] = Pick(options[t], selection)]
        /\ lastSelection' = [lastSelection EXCEPT ![req[t].instance][s] = selection]
        /\ booking' = [booking EXCEPT ![s] = [itinerary |-> Pick(options[t], selection),
                                              searchedSince |-> FALSE]]
        /\ UNCHANGED <<store, lastOptions, req, options, search, awaiting, shown, transcript>>

\* The copilot driver's booking-simulator tool, called by the model with
\* positions of its own, once, or never; it does not remember the selection.
ModelBooks(t, selection) ==
    LET s == req[t].session
    IN  /\ Driver = "copilot"
        /\ AtWork(t) /\ out[t] = None
        /\ \E o \in OptionLists :
              /\ Resolved(t, o)
              /\ out' = [out EXCEPT ![t] = Pick(o, selection)]
              /\ booking' = [booking EXCEPT ![s] = [itinerary |-> Pick(o, selection),
                                                    searchedSince |-> FALSE]]
        /\ UNCHANGED <<memory, pc, req, options, search, awaiting, shown, transcript>>

\* The local driver's summary, two events after it resolved its options.
Summarise(t) ==
    /\ Step(t, "summarising", "replying")
    /\ out' = [out EXCEPT ![t] = Pick(options[t], Recalled(t))]
    /\ UNCHANGED <<memory, req, options, search, awaiting, shown, transcript, booking>>

\* The copilot driver resolves and recalls in one go, then sends the prompt.
ModelSummary(t) ==
    /\ Driver = "copilot"
    /\ Step(t, "resolving", "sending")
    /\ req[t].message.kind = "summary"
    /\ \E o \in OptionLists \cup {None} :
          /\ Resolved(t, o)
          /\ out' = [out EXCEPT ![t] = IF o = None THEN None ELSE Pick(o, Recalled(t))]
    /\ UNCHANGED <<memory, req, options, search, awaiting, shown, transcript, booking>>

\* The model is done: no handler of it is running, and the queue is drained.
Settled(t) == search[t] \notin {"running", "queued"}

ModelReplies(t) ==
    /\ Step(t, "draining", "replying")
    /\ Settled(t)
    /\ UNCHANGED <<memory, req, options, search, out, awaiting, shown, transcript, booking>>

\* Mutant: the stream is not closed.
MutantKeepsStreamOpen(t) == awaiting' = awaiting

Release(t) ==
    awaiting' = [s \in Sessions |-> IF awaiting[s] = t THEN None ELSE awaiting[s]]

\* No reply is recorded: the session with the model could not be used, in which
\* case whatever a handler has queued by then is never shown, or it ended without
\* a word.
ModelFails(t) ==
    /\ Driver = "copilot"
    /\ \/ pc[t] = "resolving" /\ req[t].message.kind = "summary"
       \/ pc[t] = "sending"
       \/ pc[t] = "draining" /\ Settled(t)
    /\ pc' = [pc EXCEPT ![t] = "failed"]
    /\ Release(t)
    /\ UNCHANGED <<memory, req, options, search, out, shown, transcript, booking>>

\* The stream ended: the route records the reply.
Finish(t) ==
    /\ Step(t, "replying", "done")
    /\ store' = append(req[t].instance, req[t].session, [role |-> "assistant", turn |-> t])
    /\ Release(t)
    /\ UNCHANGED <<lastOptions, lastSelection, req, options, search, out, shown, transcript, booking>>

\* The client stops reading (offline): the server is not told.
Detach(s) ==
    /\ CanDetach
    /\ awaiting[s] # None
    /\ awaiting' = [awaiting EXCEPT ![s] = None]
    /\ UNCHANGED <<memory, pc, req, options, search, out, shown, transcript, booking>>

InFlight(t) == pc[t] \notin {"unsent", "done", "failed", "lost"}

\* An instance is replaced: its maps are new, its turns and their handlers are gone.
Restart(i) ==
    /\ CanRestart
    /\ store' = [store EXCEPT ![i] = [s \in Sessions |-> <<>>]]
    /\ lastOptions' = [lastOptions EXCEPT ![i] = [s \in Sessions |-> None]]
    /\ lastSelection' = [lastSelection EXCEPT ![i] = [s \in Sessions |-> None]]
    /\ pc' = [t \in Turns |-> IF InFlight(t) /\ req[t].instance = i THEN "lost" ELSE pc[t]]
    /\ awaiting' = [s \in Sessions |->
                      IF awaiting[s] # None /\ req[awaiting[s]].instance = i THEN None ELSE awaiting[s]]
    /\ search' = [t \in Turns |-> IF ~Settled(t) /\ req[t].instance = i THEN "lost" ELSE search[t]]
    /\ UNCHANGED <<req, options, out, shown, transcript, booking>>

TurnStep(t) ==
    \/ ShowOptions(t) \/ RememberOptions(t)
    \/ ResolveOptions(t) \/ Book(t) \/ Summarise(t) \/ ModelSummary(t)
    \/ \E place \in Covered : ModelSearches(t, place)
    \/ ModelRemembers(t) \/ SendResolves(t) \/ ModelShows(t)
    \/ \E f, h \in Positions : ModelBooks(t, [flight |-> f, hotel |-> h])
    \/ ModelReplies(t) \/ ModelFails(t) \/ Finish(t)

Next ==
    \/ \E t \in Turns, s \in Sessions, i \in Instances, m \in Message, replay \in BOOLEAN :
          Post(t, s, i, m, replay)
    \/ \E t \in Turns : TurnStep(t)
    \/ \E s \in Sessions : Detach(s)
    \/ \E i \in Instances : Restart(i)

\* A generator the route has started is driven to its end.
Spec == Init /\ [][Next]_vars /\ \A t \in Turns : WF_vars(TurnStep(t))

------------------------------------------------------------------------------
(* Types *)

Selection == [flight : Positions, hotel : Positions]

\* None is none of the records it stands for the absence of.
ASSUME NoneAssumption ==
    None \notin OptionLists \cup Selection \cup [session : Sessions, selection : Selection]

Itineraries == {Pick(o, sel) : o \in OptionLists, sel \in Selection \cup {FirstOfEach}}

Entry == [role : {"user", "assistant"}, turn : Turns]

Request == [session : Sessions, instance : Instances, message : Message,
            history : Seq(Entry), wanted : OptionLists \cup {None}]

Steps == {"unsent", "resolving", "found", "shown", "booking", "summarising",
          "sending", "draining", "replying", "done", "failed", "lost"}

TypeOK ==
    /\ store \in [Instances -> [Sessions -> Seq(Entry)]]
    /\ lastOptions \in [Instances -> [Sessions -> OptionLists \cup {None}]]
    /\ lastSelection \in [Instances -> [Sessions -> Selection \cup {None}]]
    /\ pc \in [Turns -> Steps]
    /\ req \in [Turns -> Request \cup {None}]
    /\ options \in [Turns -> OptionLists \cup {None}]
    /\ search \in [Turns -> {"none", "running", "queued", "shown", "lost"}]
    /\ out \in [Turns -> Itineraries \cup {None}]
    /\ awaiting \in [Sessions -> Turns \cup {None}]
    /\ shown \in [Sessions -> OptionLists \cup {None}]
    /\ transcript \in [Sessions -> Seq(Turns)]
    /\ booking \in [Sessions -> [itinerary : Itineraries \cup {None}, searchedSince : BOOLEAN]]

(* Safety *)

Asked(t, kind) == pc[t] # "unsent" /\ req[t].message.kind = kind

\* A search of the place was asked for in the session, or made by its model.
SearchedFor(s, place) ==
    \E u \in Turns :
        /\ pc[u] # "unsent" /\ req[u].session = s
        /\ \/ IsSearch(u) /\ req[u].message.place = place
           \/ search[u] # "none" /\ options[u].place = place

\* A booking books what the traveller saw (booking-context.ts:5-7): the option,
\* at the position the message names, of the card that was on screen when the
\* message was sent.
BooksWhatWasShown ==
    \A t \in Turns :
        Asked(t, "book") /\ out[t] # None =>
            /\ req[t].wanted # None
            /\ out[t] = Pick(req[t].wanted, bookingSelectionFromMessage(req[t].message))

\* The turn was booked without the model.
BooksDirectly(t) == pc[t] # "unsent" /\ isBookingQuery(req[t].message, req[t].history)

\* The search of the turn was remembered, but the turn failed before it was shown.
Dropped(u) == search[u] = "queued" /\ pc[u] = "failed"

\* A dropped search of the session found these options.
OfADroppedSearch(s, o) == \E u \in Turns : Dropped(u) /\ req[u].session = s /\ o = options[u]

\* A booking made without the model while a card is on screen is of that card, at
\* the position its message names.  There is one way around it: a search whose
\* handler had remembered its options (copilot-driver.ts:286) when the send of its
\* turn failed (copilot-driver.ts:446), or that remembers them after that.
BooksTheCardOnScreen ==
    \A t \in Turns :
        BooksDirectly(t) /\ out[t] # None /\ req[t].wanted # None =>
            \E o \in OptionLists :
                /\ o = req[t].wanted \/ OfADroppedSearch(req[t].session, o)
                /\ out[t] = Pick(o, bookingSelectionFromMessage(req[t].message))

\* An itinerary, and the options an instance remembers, come from a search made
\* in the same session: no session's booking ever leaks into another's, whatever
\* instances, restarts and overlapping turns do.
OwnSearches ==
    /\ \A t \in Turns : out[t] # None => SearchedFor(req[t].session, out[t].place)
    /\ \A i \in Instances, s \in Sessions :
          lastOptions[i][s] # None => SearchedFor(s, lastOptions[i][s].place)

\* The stored conversation is an ordered list of turns: each reply directly
\* follows the message it answers.
RepliesFollowTheirMessages ==
    \A i \in Instances, s \in Sessions : \A k \in DOMAIN store[i][s] :
        store[i][s][k].role = "assistant" =>
            /\ k > 1
            /\ store[i][s][k - 1] = [role |-> "user", turn |-> store[i][s][k].turn]

\* Even when turns overlap, a stored conversation holds a reply only after its
\* message, and once.
RepliesOnceAndAfterTheirMessage ==
    \A i \in Instances, s \in Sessions : \A k \in DOMAIN store[i][s] :
        store[i][s][k].role = "assistant" =>
            /\ \E j \in 1 .. (k - 1) :
                  store[i][s][j] = [role |-> "user", turn |-> store[i][s][k].turn]
            /\ \A j \in 1 .. (k - 1) : store[i][s][j] # store[i][s][k]

Summarises(t) == Asked(t, "summary") /\ ~AtWork(t) /\ out[t] = None /\ out'[t] # None

\* A summary reflects the flight and hotel the traveller booked
\* (booking-context.ts:17) ...
SummaryReflectsBooking ==
    [][\A t \in Turns :
          Summarises(t) /\ booking[req[t].session].itinerary # None =>
              out'[t] = booking[req[t].session].itinerary]_vars

\* ... and does so at least as long as no later search has replaced the
\* remembered options under the remembered positions.
SummaryReflectsBookingUntilNextSearch ==
    [][\A t \in Turns :
          Summarises(t) /\ booking[req[t].session].itinerary # None
                        /\ ~booking[req[t].session].searchedSince =>
              out'[t] = booking[req[t].session].itinerary]_vars

(* Liveness *)

\* Every message accepted is answered or reported failed, unless its instance
\* goes away under it, and the traveller waiting for it is released.
Holds(t) == InFlight(t) \/ \E s \in Sessions : awaiting[s] = t

EveryTurnEnds == \A t \in Turns : Holds(t) ~> ~Holds(t)

(* Refinement *)

Named(t) == [session |-> req[t].session,
             selection |-> bookingSelectionFromMessage(req[t].message)]

Desk == INSTANCE BookingDesk WITH
            Selections <- Selection,
            asked <- [t \in Turns |-> IF Asked(t, "book") THEN Named(t) ELSE None],
            booked <- [t \in Turns |-> IF Asked(t, "book") THEN out[t] ELSE None]

\* Search and booking turns implement the booking desk: a booking is made
\* at most once per turn, of the position its message names, from the options on
\* screen when it is made.
ImplementsDesk == Desk!Spec
==============================================================================
