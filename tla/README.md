# Waypoint: a verification development

TLA+ models of Waypoint, the holiday-planning agent in this repository, the TLC
configurations that check them, and machine-checked proofs about them.

## 1. The system

Waypoint is a TypeScript demo in four parts that run (`src/api`, `src/web`,
`src/mcp`, `src/governance`) and a shared library (`src/shared`). All state is in
memory, in files of the repository, or in services it calls.

| Component | State | Operations | Interacts with | Hard part |
|---|---|---|---|---|
| Routes (`api/src/app.ts`) | one `SessionStore` per process | `POST /api/chat` (SSE), `POST /responses` | drivers, web client, Foundry | turns of one session overlap once a client has stopped reading; a live or a replayed history |
| Booking memory (`tools/booking-context.ts`) | `lastOptions`, `lastSelection` by session | remember, recall, `resolveBookingOptions` | both drivers | several instances, restarts, stale entries |
| Local driver (`agent/local-driver.ts`) | none of its own | one generator per kind of turn | booking memory, `routestack.ts` | memory written between two `yield`s |
| Copilot driver (`agent/copilot-driver.ts`) | an SDK client, a session, an `EventQueue` per turn | `run`, tool handlers, hooks | Copilot SDK, MCP servers, booking memory | callbacks against a generator, failure in the middle, no timeout |
| Event queue (`copilot-driver.ts:786-822`) | buffer, parked promise, `closed` | push, close, iterate | SDK callbacks, route loop | hand-over across a microtask |
| Runtime (`agent/runtime.ts`) | none | driver choice, fault scripts | drivers | - |
| Foundry proxy (`agent/foundry-agent-proxy.ts`) | conversation id by session | create conversation, proxy a stream | Foundry, routes | check-then-act over `await`, truncated streams |
| Responses adapter (`responses/openai-responses.ts`) | calls pending by tool name | fold events into frames | route | two calls of one tool |
| Audit trail (`shared/audit.ts`, `telemetry/agent-spans.ts`) | entries, pending calls | apply an event | every turn, web panel | results matched by name |
| Live clients (`routestack-client.ts`, `currency.ts`, `cosmos.ts`, `waypoint-data-client.ts`) | cached token, in-flight rate requests | search, convert, profile | external APIs | expiry, concurrent misses, partial answers |
| Web client (`web/lib/useChat.ts`) | messages, status, abort controller, draft | send, reset, apply event | routes | late events of a replaced stream, offline and resend |
| MCP server (`mcp/src`) | none | read-only look-ups | Cosmos, AI Search | - |
| Governance engine (`governance/src`) | none (pure) | select, contract, approve, evidence, verify | commands | stale, tampered or partial inputs |
| Governance commands and release gate (`cli.ts`, `release-gate.yml`) | proposition, catalogue, selection, contract, approval, manifest and decision files | the `waypoint-gov` commands, a workflow run, deployment | git, GitHub Actions | the order of edits, commands, commits and runs |

What makes each part correct:

- **Queue**: every event once and in order, no lost wake-up, the end after the events.
- **Conversation**: a booking is of the option on the traveller's screen; sessions
  never mix; each reply is recorded once, after its message; a summary shows what was
  booked; every turn ends.
- **Live search**: a token is never used too near its end, a rate is asked for once and
  nobody waits for a rate nobody asked for, options on screen can be booked, every search ends.
- **Chat**: each bubble shows the reply to the message above it, no message vanishes
  without a word, a session has one conversation on Foundry and the agent is told of all of it.
- **Governance**: no status is shown that was not earned; production runs only what a person signed, as it stands, and what
  passes every blocking check; no change of what was signed goes unnoticed.

`PROJECT.json` lists all components (also those not modelled, with the reason) and
all hazards, each at its line.

## 2. Modules

| Module | Models | Extends / instantiates |
|---|---|---|
| `EventStream` | abstract: what the bridge from callbacks to the route promises | - |
| `EventQueue` | class `EventQueue`, its producers and its consuming loop | `INSTANCE EventStream` |
| `EventQueue_proofs` | proofs | `EventQueue`, TLAPS |
| `BookingDesk` | abstract: a booking is of an option on screen | - |
| `TripSession` | routes, store, booking memory, search/book/summary turns of both drivers | `INSTANCE BookingDesk` |
| `MCTripSession` | small instances | `TripSession` |
| `TripSession_proofs` | proofs: types, sessions, order of replies, the card on screen | `TripSession`, TLAPS |
| `ControlContract` | the pure governance engine | - |
| `ReleaseGate` | edits, commands, commits, workflow, deployment | `ControlContract` |
| `MCReleaseGate` | small instances, cut from `specs/governance` | `ReleaseGate` |
| `ReleaseGate_proofs` | proofs | `ReleaseGate`, TLAPS |
| `AuditTrail` | `applyAuditEvent` and `traceAgentTurn` as folds | - |
| `TurnContract` | abstract: what the stream of a turn promises | - |
| `CopilotTurn` | a turn left to the model: driver, SDK callbacks, route, audit panel and trace | `AuditTrail`, `INSTANCE EventQueue`, `INSTANCE TurnContract` |
| `MCCopilotTurn` | a small instance | `CopilotTurn` |
| `CopilotTurn_proofs` | proofs: types, rows, spans, the client's process | `CopilotTurn`, TLAPS |
| `CopilotStream_proofs` | proofs: the stream, the panel, the stored reply | `CopilotTurn_proofs` |
| `ResponsesWire` | both ends of the Responses protocol: writer (hosted agent) and reader (API) | `AuditTrail` |
| `RuntimeFaults` | the failure scripts of `runtime.ts` | `ResponsesWire` |
| `LocalDriver` | the events of every kind of turn of the local driver | `RuntimeFaults` |
| `HostedChat` | composer and thread of the page, `POST /api/chat`, and the local, the SDK's or the hosted agent behind it | `LocalDriver` |
| `ChatEvents_proofs` | proofs: what a turn's events say, of every script and over the wire | `HostedChat`, TLAPS |
| `HostedChat_proofs` | proofs: sends, conversations, thread and panel | `ChatEvents_proofs` |
| `LiveTravel` | partner token, flights and hotels side by side, rate cache, merge with the catalogue | - |
| `LiveTravel_proofs` | proofs | `LiveTravel`, TLAPS |

Definitions named `Mutant...` are plausible bugs of the definition that follows them;
no specification uses them. Each property of a passing run is known to fail when one
of them takes that definition's place (`PROJECT.json`, "mutants").

### EventQueue

JavaScript runs a call to completion, so `push`, `close` and one advance of the
generator to its next `yield` or `await` are atomic. The hand-over is not: `push`
resolves the promise of a parked generator, which resumes in a later microtask.
`queue.slot` is the promise resolved and not yet observed, so that pushes and the close
can fall between. The producer may push and close in any order, also push after the
close, as late SDK callbacks can.

### TripSession

One action per atomic stretch between the `yield`s and `await`s of a turn's generator:
`Post` (route, up to the first suspension, including the driver's dispatch), `ShowOptions` and
`RememberOptions` (the local driver delivers and then remembers), `ResolveOptions`, `Book`, `Summarise` or
`ModelSummary`, `Finish` (the stream ends, the reply is recorded). `Detach` is a client that
stops reading: no route listens for the disconnect, so the turn goes on. `Restart`
empties an instance's maps and loses its turns. 
The copilot driver leaves every message but a booking that follows a search to the model. Such a turn is first
`sending` (`session.send` is awaited) and then `draining` (its queue is read). In both the model is at work
(`AtWork`), and its search runs beside the turn: `ModelSearches` starts the handler, `ModelRemembers` is its end, which remembers the
options and queues their card in one go, `SendResolves` lets the queue be drained, `ModelShows` delivers the card.
`ModelFails` may come at any point of the sending, before the handler started, while it runs or after it
has remembered: what is queued is then never shown, and a handler that is still running
remembers all the same. The model may search for any covered place during any message, book with
`ModelBooks` at positions of its own, answer or fail, as it likes.

Data is abstract. A message is what the classifiers make of it; a place that is not
`Covered` stands for every answer of `searchTravel` other than options. The options of a
place are the catalogue's; dates and prices are left out.
Assumed: the model calls each of the two tools at most once a turn; the profile service answers or falls back to the same
profile. Whether the conversation mentions dates, without which the search tool answers with a question, is left open:
the model may or may not get to search.

### AuditTrail and CopilotTurn

`AuditTrail` has the two folds of a turn's events as operators: the rows of the audit panel
(`applyAuditEvent`) and the spans of the trace (`traceEvent`). The code knows a call by
its name only; the model's calls also say whose they are, so that a property can ask
which call a row was closed for. The panel's clear button is left out.

`CopilotTurn` is one turn left to the model. The driver's actions are the stretches of `run()`
between its `await`s (`Start`, `Create`, `Researched`, `Summarised`, `Send`, `Drain`, `Finish`,
`Disconnect`, `Stop`), each call into the SDK with the step in which it throws (`StartFails`, ...,
`StopFails`): before the `try` block, inside it, or in `finally`. The other actions are the callbacks
the SDK may run meanwhile: the permission handler, the hooks, the tool handlers with a nested look-up, the session
events. Pushes and the loop over the queue are those of `EventQueue`, which is
instantiated, hand-over included. `TurnContract` is what the stream promises its readers.

The SDK is external. Assumed of it: permission, pre-hook, run and post-hook of a call
come in this order, calls overlap at will, a call that throws goes to the failure
hook, and the session goes idle only when no call is under way. That it ever goes
idle is not assumed: there is no liveness here. One nested look-up (`profile`) stands for those
a handler makes, none of which fails; status events are left out, as they are not audited.

### LiveTravel

`groundTravel` as processes: any number of searches (two in the run), each with a flights and a hotels
side, over three things they share: the cached partner token, the rates and the rate
requests in flight. An action is a stretch between two `await`s; a call out answers or
fails (each has a timeout of its own, `routestack-client.ts:27-32` and six seconds for a rate). `Tick` is time
passing, which is what expires tokens and rates. `mergeTravelResult` is the whole table of
live, offline and synthetic answers. The currencies an offer is quoted in are all that is kept of it.

`inflight.finally(...)` (`currency.ts:118`) returns a promise of its own, which rejects with the request and
which nobody handles. Node ends a process over that, and no handler is installed. `RateFails` lets the waiters go on and
marks the rejection, and `Die` ends the process before anything new starts: the searches under way are
`lost`, the caches empty.

### LocalDriver, RuntimeFaults, ResponsesWire and HostedChat

The first three are pure. `LocalDriver.run` and `RuntimeFaults.runFault` are the sets of event
sequences a turn can emit. `ResponsesWire` folds events into frames (`streamResponses`, `writeEvent`, calls pending by tool name)
and frames into events again (`mapResponsesEvent`).

`HostedChat` is one chat from end to end, with the agent it has (`route`). The page's actions are `Compose`, `submit` (the message, the
empty bubble, the post), `reset` (New chat), `LoseConnection` and `Deliver`, one event applied to the
*last* bubble and to the audit rows. The API's are `Arrive`, `ensureConversation` (look-up), `Created` or
`NotCreated` after the `await` between, twice a turn, as the route asks first for its trace and the
proxy asks again; `NoBearer`, `Post`, `End`. An agent on Foundry refuses, answers, is cut off with a
verdict (`response.failed`), or throws behind the route and is cut off without one
(`app.ts:157-164`), which looks like the end of a complete reply.

Assumed: the transports keep the order of bytes; what is sent into one conversation is seen in
it by whatever is sent later. The stages of a stream between agent and page are one step. Because
messages are posted with `slice(0, -1)` of the session's shared history, a turn that overlaps
another one may drop the other's message instead of its own from what it sends; `Context` is the
set of turns, and does not show that.

### ControlContract and ReleaseGate

`ControlContract` is the decision procedure as operators over a *tree* (a checkout).
SHA-256 is an injective constructor. The source is represented by the outcome each scanning adapter
has on it, an error included, and by its configured tools, which are compared with the proposition's; a driver file that
cannot be read is an error there too, and one without a list of tools is an empty list, which passes.
`ReleaseGate` lets people edit the working tree (the contract file also by hand), run
each command at any time, commit, and lets the workflow run on a checkout of the head and deploy later. A command is
atomic: it runs alone on its working tree. The evidence and verify steps of the workflow
use one checkout nobody else writes, so they are one action; the wait for the deploy
job is not. `cmdStatus` is `deriveLifecycle` on whatever files lie there, however old.

## 3. What the runs show

| Run | Configuration | Expect | Properties | Shows |
|---|---|---|---|---|
| `event_queue` | `MCEventQueue.cfg` | pass | `TypeOK`, `NoEventLostOrReordered`, `NoLostWakeup`, `EndsAfterEverythingPushed`, `ImplementsStream` | Pushes and closes fall anywhere between the steps of the consuming generator: no event is lost, doubled or overtaken, no wake-up is lost, and the loop ends after everything pushed before the close. |
| `trip_chat` | `MCTripChat.cfg` | pass | `TypeOK`, `BooksWhatWasShown`, `RepliesFollowTheirMessages`, `SummaryReflectsBookingUntilNextSearch`, `ImplementsDesk` | One chat traveller who waits for each answer, on an instance that may restart: bookings are of what is on screen, the search and booking turns implement the booking desk. |
| `trip_overlap` | `MCTripOverlap.cfg` | pass | `RepliesOnceAndAfterTheirMessage`, `EveryTurnEnds` | A traveller gives up on streams so that turns of the local driver overlap: each reply is recorded once, after its message, and every turn ends and releases its traveller. |
| `trip_hosted` | `MCTripHosted.cfg` | pass | `BooksTheCardOnScreen`, `OwnSearches` | The hosted agent with the model-driven driver serves two sessions on one instance, histories replayed or not. The model may search and book during any message it is sent, and each send may fail before or after its search was remembered: a booking made without the model is of the card on screen, or of a search that its turn dropped, and nothing leaks between the sessions. |
| `trip_stale_instance` | `MCTripStaleInstance.cfg` | violation | `BooksWhatWasShown` | With two instances, the one that missed the last search books from the options it remembers of an earlier one. The profile prefers no airline here, so options derived again come in the order shown and cannot be the cause. |
| `trip_stale_selection` | `MCTripStaleSelection.cfg` | violation | `SummaryReflectsBooking` | A search after a booking leaves the booked positions standing, and the summary applies them to the new options. |
| `gate` | `MCGate.cfg` | pass | `DeployedTreeWasSigned`, `DeployedPassesItsContract`, `StatusIsEarned`, `MaterialChangeInvalidatesApproval`, `DecisionsNeedASignature` | Edits, commands, commits and workflow runs in every order: only a tree that was signed as it stands and passes its own contract is deployed, a material change invalidates the approval, and a stage reported as certified was earned. |
| `gate_old_evidence` | `MCGateOldEvidence.cfg` | violation | `EvidenceIsOfTheCommitAssessed` | Evidence collected before a commit still satisfies verify after it. |
| `gate_stale_contract` | `MCGateStaleContract.cfg` | violation | `DeployedContractIsCurrent` | A contract made from an earlier proposition, or from a selection older than the proposition, is approved and deployed. |
| `copilot_turn` | `MCCopilotTurn.cfg` | pass | `TypeOK`, `SettledAtTheVerdict`, `OwnAnswersUnlessOverlapping`, `SpansEndUnlessOverlapping`, `StopsItsClient`, `RecordsTheWholeReply`, `ClosedRowsStand`, `ImplementsContract` | One turn left to the model with two tool calls that may overlap, each call into the SDK failing or not: rows and spans are closed, the process is stopped, the reply is whole, and the stream keeps the contract of a turn. |
| `live_travel` | `MCLiveTravel.cfg` | pass | `TypeOK`, `OneRequestServesAll`, `OptionsCanBeBooked`, `AuthenticatesInTime`, `EverySearchEnds` | Two searches share a partner token and a rate request, any call out may fail and the clock may tick between any two steps: nobody waits for a rate that nobody asked for, what is shown can be booked, a token is dropped in time, and every search ends. |
| `hosted_chat` | `MCHostedChat.cfg` | pass | `TypeOK`, `OwnReplies`, `RowsTellTheirResult`, `OneSendAtATime`, `OneConversation`, `SeesTheConversation`, `NoSilentLoss`, `LocalTurnsSettle` | Two messages from the page to the local driver, to the SDK or to the hosted agent, with aborts, new chats, lost connections, refused tokens, raced conversations and streams cut off: the page shows each reply whole under its message, no message vanishes, and a session has one conversation. |

### Bounds

- Queue: two distinct events and five pushes; with two, a swap and a doubling are
  visible, and five fill the buffer behind a hand-over in flight more than once.
- Trip: three or four turns per run. Four are needed for search, book, search, summarise, three for
  search, search elsewhere, book. Two covered places and one without inventory; three
  flights of which the preferred one is not first, so that what is shown differs from
  the catalogue's order; positions 0 and 1. Two sessions where what is at stake is whose
  options they are (`trip_hosted`), two instances in `trip_stale_instance`, whose profile prefers no airline, so that
  options derived again are in the order shown and only remembered ones can be wrong; any
  number of both, with restarts and overlaps, in the proof of `OwnSearches`. `trip_hosted` has three
  messages, two covered places and one position a message can name, and `FewToolCalls`, a constraint, stops at two searches and one
  booking of the model's own over all turns: two searches suffice for a card on screen and another one dropped, and the third turn
  is the booking. The proof of `BooksTheCardOnScreen` has none of these bounds. `trip_overlap` uses one place, as it asks in
  which order turns end and not what they find.
- Copilot turn: two calls, the fewest that overlap, of a tool of the driver, an allowed MCP
  tool or one that is not on the allowlist; one piece of text, anywhere; a message that asks for both
  look-ups, the longest turn (the proofs have any set of messages).
- Live travel: two searches, the fewest that share; one foreign currency, as currencies do not
  interact; times scaled so that a token can be long, short, expired and expired but kept, and a rate fresh or
  not. Each search runs once.
- Hosted chat: two messages whoever answers, which may be two turns of one chat, overlapping or not, or of two chats. The
  second message of the local driver is a booking (`VariedTurns`): that the scripts differ matters to
  one turn's bubble, and the two-turn hazards are in what ends when. The failure scripts are
  exercised on the local route, as the code asks for a fault only of its own process.
- Gate: one edit of the repository as it is kept, and two commits. A stale or foreign input needs one edit
  between two commands and one commit to be picked up, and two runs to differ. The proofs have no bounds.

Symmetry is used on turns (on sessions too in `trip_hosted`) and on tool calls, which only ever occur as
indices and members; never in `trip_overlap`, which checks liveness. `CHECK_DEADLOCK FALSE` everywhere: a turn ends, and the number of messages, pushes, edits
and commits is bounded, so every model stops.

### Fairness

`EventQueue`: weak fairness of the consumer, whose loop always asks for the next event
and whose resolved promises the event loop always continues. `TripSession`: weak fairness of each turn's
steps, since a route drives its generator to the end whether or not anyone reads. It is used only for the
local driver: the copilot driver waits for `session.idle` without a timeout, so its
liveness rests on the SDK and is not claimed. `CopilotTurn` (safety only) and deployment have no fairness.

`LiveTravel`: weak fairness of each search's steps and of each rate request's end, since every call out carries a timeout and
the event loop gets to its answer; and of the end of a process that has an unhandled rejection. `HostedChat`: weak fairness
of the turns of the local route only. The SDK and Foundry may keep a turn waiting for ever, as
nothing in the code bounds either; a research turn is bounded only by the limits of `fetch`.

### Disagreements found

The runs marked *violation* each check one sentence of the documentation or of a comment
that the code does not keep; `PROJECT.json`, "findings", has the quotation and the line.

- **Stale instance** (`booking-context.ts:41`): with two hosted instances, one that
  missed the last search books from the options it remembers of an older one, although the history replayed
  to it has the last search.
- **Stale selection** (`booking-context.ts:21`): book, search again, summarise: the summary
  applies the old positions to the new options.
- **Old evidence** (`verify.ts:65`) and **stale contract** (`approval.ts:69`, `cli.ts:61`): ways a
  release is judged by inputs that are not of the tree released.

Some more came up and have no run of their own: after a restart the options are
searched again in catalogue order, so that "the second flight" is another flight than the
one shown (`booking-context.ts:46`; the restart of `trip_chat` empties the stored conversation as well, so this takes
the Responses route with a replayed history); the model's booking-simulator tool does not remember what it booked
(`copilot-driver.ts:310`), so that `SummaryReflectsBookingUntilNextSearch` is claimed of the local
driver only; when `session.send` fails in a turn whose search has remembered its options, or is about to
(`copilot-driver.ts:286`, `:446-452`), the card is dropped and the memory is not, so that the next booking is of options
the traveller was never shown, against `booking-context.ts:5-7` (`BooksTheCardOnScreen` names the case, `Dropped`; without
that exception TLC finds it violated); and neither driver asks for the approval FRD-010 wants before a booking
(`local-driver.ts:336`), `isApprovedFor` being called from a test hook only. In a turn left to the
model, a session that cannot be created or disconnected leaves its process running (`copilot-driver.ts:328`,
`:454`; `StopsItsClient` names these cases), a failing disconnect sends an error after `done` and loses
the reply (`RecordsTheWholeReply`, `Fail` of `TurnContract`), and two open calls of one name
swap their results and lose a span (`audit.ts:148`, `agent-spans.ts:100`; the two properties ending in
`UnlessOverlapping`).

From the live search: a rate request that fails ends the process (`currency.ts:118`); a flight search may
take longer than the margin a token is dropped before its end, so that a token that was good at the start can be
refused in the middle; missing dates are noticed only after the live search has run; live flights without live hotels, to a
place the catalogue does not cover, are shown as options that cannot be booked (`OptionsCanBeBooked` names the case).

From the chat: a failed send puts its text back over whatever was typed since, and into a new
chat when New chat was what ended it; an agent that throws behind Foundry leaves half a reply that looks whole
(`NoSilentLoss`, `cutShort`); two turns that both find no conversation create two, and the later one stays
(`OneConversation`, `stray.raced`); a turn posted without one is missing from the conversation later turns
use (`SeesTheConversation`, `stray.refused`); two calls of one tool at once swap arguments on the
wire (`RowsTellTheirResult`, `Twins`); the `cosmos-error` script ends in an error after a whole
reply, so that the message is put back although it was answered; and the `travel-guide-no-match` script never closes
the row of the model's call.

What holds in spite of them is stated next to each: `BooksTheCardOnScreen` on one
instance (but for dropped searches), `SummaryReflectsBookingUntilNextSearch` for the local driver, `DeployedTreeWasSigned` and
`DeployedPassesItsContract` always.

## 4. What is proved

All constants are arbitrary, under the named assumptions of each module
(`EventsAssumption`; `TripAssumption`, `NoneAssumption`; `GateAssumption`, `ChecksAssumption`;
`TurnAssumption`; `LiveAssumption`; `ChatAssumption`). What a constant is used for is said where it is
declared; that `None` is no number is in the last two.

- **`EventQueue_proofs`**: type correctness, `NoEventLostOrReordered`, `NoLostWakeup`,
  `EndsAfterEverythingPushed`, and that the queue implements the safety part of
  `EventStream`. The sequence equation `delivered \o InFlight \o buffer = pushed` is not
  inductive alone: a push to a parked generator goes around the buffer, which keeps order only because a
  generator parks on an empty buffer. The invariant adds exactly that.
- **`TripSession_proofs`**: `TripTypeCorrect`, and `SessionsKeepApart` (`OwnSearches`) for any
  numbers of instances, sessions and turns, both routes and both drivers, with
  restarts and overlaps. Type correctness needs that a turn that is past its search holds a covered place (`StepsHoldOptions`).
  `SessionsKeepApart` needs the same fact in each of five places that feed a booking: the
  stored conversation, the client's transcript, the history handed to a turn, the turn's
  local options and the instance's memory (`OwnInv`).
  `RepliesOnce` (`RepliesOnceAndAfterTheirMessage`) holds under the same generality: entries are of turns that were sent to that
  instance, and a turn at work has its message stored and no reply yet (`RepliesInv`). `RepliesFollow` (`RepliesFollowTheirMessages`) needs
  `~CanDetach`: a session then has one turn at work at most, whose message is the last entry of its conversation (`OrderInv`).
  The last part is about the card on screen. `BooksTheCard` (`BooksTheCardOnScreen`) assumes one instance that stays up and no
  abandoned stream; `BooksShown` (`BooksWhatWasShown`), `SummaryReflects` (`SummaryReflectsBookingUntilNextSearch`) and
  `DeskImplemented` (the refinement of `BookingDesk`) assume `LocalDesk`: one instance, the local driver, no
  abandoned stream, and no restart where the client replays its transcript. `trip_stale_instance` shows a second instance breaking
  `BooksWhatWasShown`; a restart before a replayed transcript breaks it too (section 3); and the SDK's model
  chooses positions of its own.
  `CardInv` says that what the instance remembers of a session is the card on its screen, unless a search of
  the session is on its way between remembering and showing (or, with the local driver, between showing and remembering), whose turn then
  holds what is missing, or was dropped (`RememberedIsShown`, `CardIsRemembered`). A dropped search stays dropped (`DroppedStays`), and a queued one
  whose turn has failed was dropped (`QueuedIsDropped`), so the exception, once made, can be named at every later booking.
  `ScreenInv` is what follows for a turn that books: it holds the card it was posted under, or options of a dropped search of its
  session, from its look-up to its booking, and the model has no part in it (`HoldsACard`, `ModelHasNoBooking`).
- **`ReleaseGate_proofs`**: `OnlySignedTreesDeploy`, `OnlyPassingTreesDeploy`,
  `OnlySignedTreesPass`, `ChangesInvalidateApproval`, `NoStatusUnearned` (`StatusIsEarned`) and `GateTypeCorrect` (`ReleaseGate`'s `TypeOK`, in no run), for any propositions, catalogues,
  sources and any number of edits and commits. The argument: an approval file is always
  a record somebody signed; signatures are never withdrawn; the decision a run carries
  was computed from the checkout it carries.
- **`CopilotTurn_proofs`**: `TurnTypeCorrect`, `ClosedRowsHold` (`ClosedRowsStand`), `TurnStopsItsClient`
  (`StopsItsClient`) and `TurnEndsItsSpans` (`SpansEndUnlessOverlapping`), for any tool calls, tools, groundings and amount of
  text, under `TurnAssumption`. `StreamSteps` reduces the two dozen actions to the four things a step does to the stream; the last
  theorem needs to know of each pending span that its call is still open (`SpanInv`), so that the
  call that takes its place overlaps it.
- **`CopilotStream_proofs`**: `StreamImplementsContract` (the refinement of `TurnContract`), `OwnAnswers`
  (`OwnAnswersUnlessOverlapping`), `Settled` (`SettledAtTheVerdict`) and `RecordsReply` (`RecordsTheWholeReply`),
  under the same assumption; that the driver's own look-up, `profile`, is not among the model's `Tools` is needed, as the
  rows could not tell the two apart. `Protocol` is the invariant they share: where the generator and the SDK session may be in each
  phase of `run()`, and that until the verdict the events *pushed*, delivered or not, tell exactly which calls
  were begun and which are under way (`TaleInv`). The refinement reads its abstract state off the events delivered, which are a
  beginning of those pushed, and a result is pushed only after its call. `OwnAnswers` needs that an open call whose name never overlapped
  has one pending row, its own (`RowInv`). `Settled` cannot be had from that, as overlapping calls swap
  their results; it is a counting argument (`MatchInv`): of each name as many rows are pending as calls are open, each result
  closes one of each, and at the verdict no call is open. `ReplyInv` counts the text delivered.
- **`LiveTravel_proofs`**: `LiveTypeCorrect`, `RatesAreAskedOnce` (`OneRequestServesAll`),
  `ShownCanBeBooked` (`OptionsCanBeBooked`) and `TokensAreDroppedInTime` (`AuthenticatesInTime`), for
  any searches, currencies, token lifetimes and times, under `LiveAssumption`. A rate is only waited for by whoever found it
  missing, and that step asks for it unless it is being asked for; its answer or failure
  releases all who wait at once. `TokenInv` relates the time a token is kept to the time it lives: the
  time kept ends a margin before the expiry if the token told a long enough life, and is the
  default otherwise.
- **`ChatEvents_proofs`**: the lemmas about events that `HostedChat_proofs` rests on, and no theorem of a specification.
  Each script of the local driver, each failure script and each answer of the SDK is typed, keeps to its own turn's calls (but
  `Twins`, two calls of one tool at once) and ends in a verdict (`ScriptsAre`). Both ends of the Responses protocol
  are then shown to keep what matters of *any* sequence of events, whole or cut anywhere:
  the text in its order, the results, the calls, the verdict (`WriterInv`; the reader). `Spoken`, `Written` and `Read` are recursive
  functions over sequences of any length. The induction they need is not taken from the library's theorems with an
  operator parameter, which no installed prover instantiates, but from the well-foundedness of `<`
  (`NatLessThanWellFounded`, `WFMin`), for a set of numbers (`Induction`).
- **`HostedChat_proofs`**: `PageSendsOneAtATime` (`OneSendAtATime`), `SessionsHaveOneConversation`
  (`OneConversation`), `AgentSeesTheConversation` (`SeesTheConversation`), `BubblesShowTheirReplies` (`OwnReplies`),
  `PanelTellsTheResults` (`RowsTellTheirResult`), `MessagesAreNotLost` (`NoSilentLoss`) and `HostedChatTypeCorrect`,
  for any texts, numbers of turns and of events, under `ChatAssumption`. `SendInv` says
  that the handle the page holds is the one that is reading. `ConversationInv` says that what a turn was tagged
  with or posted to is the session's entry, unless a second creation replaced it; since a turn whose creation is
  refused is stateless and the entry only ever appears, a turn that found an entry knows all
  turns posted to it. `SeesInv` adds that a turn answered earlier was posted, and where.
  `ThreadInv` is behind the rest. An event always changes the *last* bubble, so that a bubble shows its own reply only because
  the bubbles are the last turns in order (`Bubble`), the one that is read is the last (`Reader`), and what a bubble says followed by
  what is left of its stream is a beginning of the script's text. That last fact is what a step preserves: it
  moves one event from the stream to the bubble. A row closes on a result of its name; as a script's calls of one name
  differ only in `Twins`, the row's call is the result's (`RowInv`). That a send that ends with neither error nor missing
  verdict was complete follows from the verdict still being in the stream until it is in the bubble (`Reader`).
  TLC checked `ThreadInv` on the instance of `hosted_chat` before it was proved.

Only model-checked: liveness (`EveryTurnEnds`, `EverySearchEnds`, `LocalTurnsSettle`, and the liveness half of
`ImplementsStream`, whose safety half is `QueueImplementsStream`), which is out of the prover's reach, and what the *violation* runs show. The other properties
of the passing runs, and the refinements of `BookingDesk` and `TurnContract`, are proved; those of
`TripSession` about the card for the configurations named above, which are those of the runs that check them.

## 5. Not modelled

Text (prompts, replies, wording), prices, dates, weather and guide look-ups, rendering,
redaction, tracing export, the MCP server and the evaluation harness: they keep no
state that another step reads, or are I/O. In the chat: status lines, the panel's clear and fold buttons, the cut of
long messages, and a restart of the API, which forgets the conversations. In the governance commands: the
dossier, learning and change-impact reports, which lay out the same files. See `PROJECT.json`, "components".

## 6. Plan

The parts planned first are there. What would come next:

1. The safety of `LocalDriver`'s and `RuntimeFaults`' scripts beyond what the page needs: that what a script says of a booking
   is what `TripSession` books.
2. A restart of the API in `HostedChat`: the map of conversations is lost, and the
   page goes on with its session.
3. The composition of `HostedChat` with `TripSession`, so that the history a booking is resolved
   from is the one that survives a stateless turn.
4. The panel's clear button, and the MCP server as a process of its own.
