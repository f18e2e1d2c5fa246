----------------------------- MODULE LocalDriver -----------------------------
(***************************************************************************)
(* What the local driver emits in a turn (agent/local-driver.ts): one      *)
(* script for each way through each kind of turn.  Everything it looks up  *)
(* is in the process, but for the research of a place, whose failure is    *)
(* caught.  What a turn reads and remembers of searches and bookings is    *)
(* in TripSession.                                                         *)
(***************************************************************************)
EXTENDS RuntimeFaults

\* Tools called one after the other.
Asked(t, names) ==
    [k \in 1 .. 2 * Len(names) |->
        LET call == Call(t, names[(k + 1) \div 2])
        IN  IF k % 2 = 1 THEN ToolCall(call) ELSE ToolResult(call, TRUE)]

\* A turn of the model's own call, what is done inside it, and the end.
Turn(t, inside) ==
    LET chat == Call(t, "copilot.chat")
    IN  <<Decision, ToolCall(chat)>> \o inside \o <<ToolResult(chat, TRUE), DoneEvent>>

\* Tools first, then the reply.
Grounded(t, names) == Turn(t, Asked(t, names) \o Reply(t))

personaliseEvents == <<"cosmos.getTravellerProfile", "personalise">>

\* The guide is searched for a month, when there is something to suggest; then the
\* suggestions are personalised too, and otherwise only a preference just stated.
runDestinations(t) ==
    {Grounded(t, before \o <<"destination-advisor">>) :
        before \in {<<>>, personaliseEvents, <<"travel-guide.searchByMonth">> \o personaliseEvents}}

runResearch(t) == {Grounded(t, <<"wikipedia.summary">>)}

\* The climate is read only of a place that was found, and just one.
runWeather(t) ==
    {Grounded(t, <<"open-meteo.geocoding">> \o climate \o <<"weather-window">>) :
        climate \in {<<>>, <<"open-meteo.climate">>}}

\* Only options reach the provider, and only foreign prices are converted.
runTravelSearch(t) ==
    {Grounded(t, before \o <<"travel-search">>) :
        before \in {<<>>} \cup {<<"routestack.flights">> \o convert
                                    \o <<"routestack.hotels", "cosmos.getTravellerProfile">> :
                                convert \in {<<>>, <<"currency.convert">>}}}

\* Nothing to book, or the reply first and then the cards.
runBooking(t) ==
    {Grounded(t, <<>>),
     Turn(t, Reply(t) \o Asked(t, <<"cosmos.getTravellerProfile", "budget-estimator",
                                    "trip-summariser", "booking-simulator">>))}

runSummary(t) ==
    {Grounded(t, <<>>)} \cup
    {Grounded(t, <<"cosmos.getTravellerProfile", "budget-estimator">> \o convert
                     \o <<"trip-summariser">>) : convert \in {<<>>, <<"currency.convert">>}}

run(t) ==
    UNION {runBooking(t), runTravelSearch(t), runWeather(t), runSummary(t), runResearch(t),
           runDestinations(t)}
==============================================================================
