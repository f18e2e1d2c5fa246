---------------------------- MODULE RuntimeFaults ----------------------------
(***************************************************************************)
(* The failure scripts of agent/runtime.ts: what a turn emits when a fault *)
(* is asked for (the ?fault= hook of demos and tests, never in             *)
(* production).  t is the turn.  A reply of many words is two tokens.      *)
(***************************************************************************)
EXTENDS ResponsesWire

Reply(t) == <<Say(t, 1), Say(t, 2)>>

\* A tool call and its result, and a call whose failure ends the turn.
Tool(t, name, ok) == <<ToolCall(Call(t, name)), ToolResult(Call(t, name), ok)>>
Fatal(t, name) == <<Decision>> \o Tool(t, name, FALSE) \o <<ErrorEvent>>

agentUnavailable(t) == <<ErrorEvent>>
timeout(t) == <<Decision, ErrorEvent>>
midStreamError(t) == <<Decision>> \o Reply(t) \o <<ErrorEvent>>
destinationAdvisorError(t) == Fatal(t, "destination-advisor")
slowReply(t) == <<Decision>> \o Reply(t) \o <<DoneEvent>>
sampleTools(t) == <<Decision>> \o Tool(t, "routestack.searchFlights", TRUE) \o Reply(t) \o <<DoneEvent>>
sampleMarkdown(t) == slowReply(t)
weatherMcpError(t) == Fatal(t, "open-meteo.geocoding")
routestackError(t) == Fatal(t, "routestack.flights")
routestackQuota(t) == Fatal(t, "routestack.flights")
bookingError(t) == Fatal(t, "booking-simulator")

\* Without an approval of the itinerary the booking is never simulated.
bookingNoApproval(t) ==
    <<Decision>> \o Tool(t, "booking-approval-check", FALSE) \o Reply(t) \o <<DoneEvent>>
bookingApproved(t) ==
    <<Decision>> \o Tool(t, "booking-approval-check", TRUE) \o Tool(t, "booking-simulator", TRUE)
        \o Reply(t) \o <<DoneEvent>>

staleCurrency(t) ==
    <<Decision>> \o Tool(t, "currency.convert", TRUE) \o Tool(t, "currency-freshness", FALSE)
        \o Reply(t) \o <<DoneEvent>>

\* The notice comes first and the turn goes on to its end.
cosmosError(t) ==
    <<Decision>> \o Tool(t, "cosmos.getTravellerProfile", FALSE) \o <<ErrorEvent>>
        \o Tool(t, "destination-advisor", TRUE) \o Reply(t) \o <<DoneEvent>>
cosmosNoHistory(t) ==
    <<Decision>> \o Tool(t, "cosmos.getTravellerProfile", TRUE) \o Tool(t, "personalise", TRUE)
        \o Tool(t, "destination-advisor", TRUE) \o Reply(t) \o <<DoneEvent>>

\* The call of the model is never answered.
travelGuideNoMatch(t) ==
    <<Decision, ToolCall(Call(t, "copilot.chat"))>> \o Tool(t, "travel-guide.searchByMonth", TRUE)
        \o Tool(t, "cosmos.getTravellerProfile", TRUE) \o Tool(t, "personalise", TRUE)
        \o Tool(t, "destination-advisor", TRUE) \o Reply(t) \o <<DoneEvent>>
currencyError(t) ==
    <<Decision, ToolCall(Call(t, "copilot.chat"))>> \o Tool(t, "currency.convert", FALSE) \o <<ErrorEvent>>

\* A summary without the hotel, or without the profile.
runSummaryFault(t, profile) ==
    <<Decision, ToolCall(Call(t, "copilot.chat"))>>
        \o (IF profile THEN Tool(t, "cosmos.getTravellerProfile", TRUE) ELSE <<>>)
        \o Tool(t, "budget-estimator", TRUE) \o Tool(t, "trip-summariser", TRUE)
        \o Reply(t) \o <<ToolResult(Call(t, "copilot.chat"), TRUE), DoneEvent>>

\* Every script runFault can follow; a summary fault asked for in a turn that is
\* no summary follows the driver instead.
runFault(t) ==
    {agentUnavailable(t), timeout(t), midStreamError(t), destinationAdvisorError(t), slowReply(t),
     sampleTools(t), sampleMarkdown(t), weatherMcpError(t), routestackError(t), routestackQuota(t),
     bookingError(t), bookingNoApproval(t), bookingApproved(t), staleCurrency(t), cosmosError(t),
     cosmosNoHistory(t), travelGuideNoMatch(t), currencyError(t),
     runSummaryFault(t, TRUE), runSummaryFault(t, FALSE)}
==============================================================================
