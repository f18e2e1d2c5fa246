------------------------------ MODULE LiveTravel ------------------------------
(***************************************************************************)
(* A live travel search (groundTravel in agent/copilot-driver.ts, over     *)
(* tools/routestack-client.ts and tools/currency.ts): a bearer token that  *)
(* all searches share, flights and hotels looked up side by side, prices   *)
(* converted at rates that all searches share, and the offline catalogue   *)
(* for whatever did not come.  The searches run in one process and         *)
(* interleave at every await; time passes between any two steps, one tick  *)
(* standing for half a minute.                                             *)
(*                                                                         *)
(* Offers are abstracted to the currencies they are quoted in.  Every call *)
(* out carries a timeout, so that it answers or fails.  Nobody handles the *)
(* promise that `inflight.finally` returns (currency.ts:118): when a rate  *)
(* request fails, its waiters price offline and Node then ends the process *)
(* over the unhandled rejection.                                           *)
(***************************************************************************)
EXTENDS Integers

CONSTANTS
    Searches,
    Foreign,        \* the currencies other than GBP that offers are quoted in
    Lifetimes,      \* how long a partner token may live, in ticks
    Margin,         \* how much earlier than its expiry a token is dropped
    DefaultTtl,     \* how long a token is kept that does not tell, or tells too little
    RateTtl,        \* how long a rate is kept
    MaxTime,        \* bounds the clock
    None

ASSUME LiveAssumption ==
    /\ Lifetimes \subseteq Nat
    /\ Margin \in Nat /\ DefaultTtl \in Nat \ {0} /\ RateTtl \in Nat /\ MaxTime \in Nat
    /\ None \notin Int
    /\ "GBP" \notin Foreign

VARIABLES
    now,
    cachedToken,    \* [token, expiresAt], or None
    rateCache,      \* when each currency's rate was fetched, or None
    requests,       \* the rate requests in flight, by currency
    rejected,       \* a rejection that nobody handles is about to end the process
    phase,
    auth,           \* the token a search presents
    side,           \* how far each side of a search is
    waiting,        \* the rates each side waits for
    result

rates == <<rateCache, requests, rejected>>
vars == <<now, cachedToken, rates, phase, auth, side, waiting, result>>

Sides == {"flights", "hotels"}
Currencies == Foreign \cup {"GBP"}

\* What the offline catalogue says: a problem with what was asked (an origin, dates
\* or a party it cannot search for), no dates at all, options, or that it has none.
Bases == {"problem", "missing-dates", "options", "none"}

\* A partner token: when it expires, and whether that leaves it more than twice the
\* margin to live.  One that does not tell is handled as one that has less.
Token == [exp : Nat, long : BOOLEAN]
ApiKey == [exp |-> None, long |-> FALSE]

Init ==
    /\ now = 0
    /\ cachedToken = None
    /\ rateCache = [c \in Foreign |-> None]
    /\ requests = [c \in Foreign |-> 0]
    /\ rejected = FALSE
    /\ phase = [s \in Searches |-> "idle"]
    /\ auth = [s \in Searches |-> None]
    /\ side = [s \in Searches |-> [d \in Sides |-> "idle"]]
    /\ waiting = [s \in Searches |-> [d \in Sides |-> {}]]
    /\ result = [s \in Searches |-> None]

Tick ==
    /\ ~rejected
    /\ now < MaxTime
    /\ now' = now + 1
    /\ UNCHANGED <<cachedToken, rates, phase, auth, side, waiting, result>>

------------------------------------------------------------------------------
(* The bearer token *)

\* Mutant: a token is kept to its very end.
MutantNoMargin(life) == IF life > 2 * Margin THEN life ELSE DefaultTtl

\* Mutant: the margin is taken twice and nothing keeps the time positive.
MutantNoFloor(life) == life - 2 * Margin

tokenTtl(life) == IF life - Margin > Margin THEN life - Margin ELSE DefaultTtl

HasToken == cachedToken # None /\ cachedToken.expiresAt > now

\* A search that has its token looks for flights and hotels at once.
FanOut(s, t) ==
    /\ auth' = [auth EXCEPT ![s] = t]
    /\ phase' = [phase EXCEPT ![s] = "searching"]
    /\ side' = [side EXCEPT ![s] = [flights |-> "direct", hotels |-> "destinations"]]

Idle(s) == ~rejected /\ phase[s] = "idle"

Start(s) ==
    /\ Idle(s)
    /\ IF HasToken THEN FanOut(s, cachedToken.token)
       ELSE phase' = [phase EXCEPT ![s] = "auth"] /\ UNCHANGED <<auth, side>>
    /\ UNCHANGED <<now, cachedToken, rates, waiting, result>>

Authenticating(s) == ~rejected /\ phase[s] = "auth"

partnerToken(s) ==
    /\ Authenticating(s)
    /\ \E life \in Lifetimes :
          LET t == [exp |-> now + life, long |-> life > 2 * Margin]
          IN  /\ cachedToken' = [token |-> t, expiresAt |-> now + tokenTtl(life)]
              /\ FanOut(s, t)
    /\ UNCHANGED <<now, rates, waiting, result>>

\* The exchange fails: the API key is the bearer, of this search only.
partnerTokenFails(s) ==
    /\ Authenticating(s)
    /\ FanOut(s, ApiKey)
    /\ UNCHANGED <<now, cachedToken, rates, waiting, result>>

\* A token past its expiry is refused.
Accepted(s) == auth[s] # ApiKey => now < auth[s].exp

------------------------------------------------------------------------------
(* Rates: gbpRate *)

Fresh(c) == rateCache[c] # None /\ now - rateCache[c] < RateTtl

\* Mutant: each conversion asks for itself.
MutantAsksAgain(missing) ==
    [c \in Foreign |-> IF c \in missing THEN requests[c] + 1 ELSE requests[c]]

\* The first conversion that misses asks, the others wait for its answer.
Ask(missing) ==
    [c \in Foreign |-> IF c \in missing /\ requests[c] = 0 THEN 1 ELSE requests[c]]

\* Offers arrived on one side: those at hand are priced, the others wait.
Price(s, d, offers) ==
    LET missing == {c \in offers \cap Foreign : ~Fresh(c)}
    IN  /\ side' = [side EXCEPT ![s][d] = IF missing = {} THEN "live" ELSE "pricing"]
        /\ waiting' = [waiting EXCEPT ![s][d] = missing]
        /\ requests' = Ask(missing)

\* Mutant: only the search that comes first in line is served.
MutantServesOne(c) ==
    LET one == CHOOSE s \in Searches : \E d \in Sides : c \in waiting[s][d]
    IN  [waiting EXCEPT ![one] = [d \in Sides |-> @[d] \ {c}]]

Served(c) == [s \in Searches |-> [d \in Sides |-> waiting[s][d] \ {c}]]

\* Everyone who waits for the rate goes on.
Resume(c) ==
    /\ waiting' = Served(c)
    /\ side' = [s \in Searches |-> [d \in Sides |->
                   IF side[s][d] = "pricing" /\ waiting'[s][d] = {} THEN "live" ELSE side[s][d]]]
    /\ requests' = [requests EXCEPT ![c] = @ - 1]

RateAnswers(c) ==
    /\ ~rejected
    /\ requests[c] > 0
    /\ Resume(c)
    /\ rateCache' = [rateCache EXCEPT ![c] = now]
    /\ UNCHANGED <<now, cachedToken, rejected, phase, auth, result>>

\* The waiters price offline (priceToGBP), and the rejection is not handled.
RateFails(c) ==
    /\ ~rejected
    /\ requests[c] > 0
    /\ Resume(c)
    /\ rejected' = TRUE
    /\ UNCHANGED <<now, cachedToken, rateCache, phase, auth, result>>

Running(s) == phase[s] \in {"auth", "searching"}

\* The process ends and is started again: what it kept and what it did is gone.
Die ==
    /\ rejected
    /\ rejected' = FALSE
    /\ cachedToken' = None
    /\ rateCache' = [c \in Foreign |-> None]
    /\ requests' = [c \in Foreign |-> 0]
    /\ phase' = [s \in Searches |-> IF Running(s) THEN "lost" ELSE phase[s]]
    /\ side' = [s \in Searches |-> IF Running(s) THEN [d \in Sides |-> "idle"] ELSE side[s]]
    /\ waiting' = [s \in Searches |-> [d \in Sides |-> {}]]
    /\ auth' = [s \in Searches |-> None]
    /\ UNCHANGED <<now, result>>

------------------------------------------------------------------------------
(* Flights and hotels *)

Go(s, d, to) ==
    /\ side' = [side EXCEPT ![s][d] = to]
    /\ UNCHANGED <<waiting, requests>>

\* An answer of one side: the currencies its offers are quoted in.
Quoted(s, d, quotes) == Accepted(s) /\ \E offers \in quotes : Price(s, d, offers)

\* An answer without offers, and no answer.
Nothing(s, d, then) == Accepted(s) /\ Go(s, d, then)
Fails(s, d) == Go(s, d, "failed")

Quiet(s) == ~rejected /\ phase[s] = "searching"

Untouched == UNCHANGED <<now, cachedToken, rateCache, rejected, phase, auth, result>>

\* Direct flights first, all flights when there are none.  Airports that cannot be
\* looked up are guessed, so that the lookup comes to nothing.
searchLiveFlights(s) ==
    /\ Quiet(s)
    /\ \/ side[s].flights = "direct" /\ Nothing(s, "flights", "all")
       \/ side[s].flights = "all" /\ Nothing(s, "flights", "empty")
       \/ /\ side[s].flights \in {"direct", "all"}
          /\ Quoted(s, "flights", SUBSET Currencies \ {{}}) \/ Fails(s, "flights")
    /\ Untouched

\* The destination, with its coordinates if the map finds them, and then the hotels,
\* all quoted in one currency.
searchLiveHotels(s) ==
    /\ Quiet(s)
    /\ \/ /\ side[s].hotels = "destinations"
          /\ \E to \in {"empty", "hotels"} : Nothing(s, "hotels", to)
       \/ /\ side[s].hotels = "hotels"
          /\ \/ Quoted(s, "hotels", {{c} : c \in Currencies})
             \/ Nothing(s, "hotels", "empty")
       \/ side[s].hotels \in {"destinations", "hotels"} /\ Fails(s, "hotels")
    /\ Untouched

Settled == {"live", "empty", "failed"}

\* Each side is live if it can be and offline otherwise; flights are made up for
\* a place that only has hotels.  Without any the offline answer stands.
Shown(base, flights, hotels) ==
    IF base \in {"problem", "missing-dates"} \/ (flights = "none" /\ hotels = "none")
    THEN [base |-> base, kind |-> base, flights |-> "none", hotels |-> "none"]
    ELSE [base |-> base, kind |-> "options", hotels |-> hotels,
          flights |-> IF flights = "none" THEN "synthetic" ELSE flights]

\* Mutant: once anything is live the catalogue is not asked.
MutantAllOrNothing(base, live) ==
    LET offline == IF base = "options" /\ live = {} THEN "offline" ELSE "none"
    IN  Shown(base, IF "flights" \in live THEN "live" ELSE offline,
                    IF "hotels" \in live THEN "live" ELSE offline)

mergeTravelResult(base, live) ==
    LET offline == IF base = "options" THEN "offline" ELSE "none"
    IN  Shown(base, IF "flights" \in live THEN "live" ELSE offline,
                    IF "hotels" \in live THEN "live" ELSE offline)

\* What the catalogue says of a request does not change, and nothing depends on it
\* while the search runs: it is chosen as the search ends.
Finish(s, base, live) ==
    /\ result' = [result EXCEPT ![s] = mergeTravelResult(base, live)]
    /\ phase' = [phase EXCEPT ![s] = "done"]
    /\ auth' = [auth EXCEPT ![s] = None]
    /\ side' = [side EXCEPT ![s] = [d \in Sides |-> "idle"]]
    /\ UNCHANGED <<now, cachedToken, rates, waiting>>

\* A problem with what was asked is answered without a search.
Refuse(s) == Idle(s) /\ Finish(s, "problem", {})

\* Both sides have settled; what failed on either is forgotten.
Merge(s) ==
    /\ phase[s] = "searching"
    /\ \A d \in Sides : side[s][d] \in Settled
    /\ \E base \in Bases \ {"problem"} : Finish(s, base, {d \in Sides : side[s][d] = "live"})

Advance(s) ==
    \/ partnerToken(s) \/ partnerTokenFails(s)
    \/ searchLiveFlights(s) \/ searchLiveHotels(s) \/ Merge(s)

Next ==
    \/ Tick
    \/ \E s \in Searches : Start(s) \/ Refuse(s) \/ Advance(s)
    \/ \E c \in Foreign : RateAnswers(c) \/ RateFails(c)
    \/ Die

Spec == Init /\ [][Next]_vars

\* Every call out ends in time, each with its own timeout, and the event loop
\* gets to its answer.
Fairness ==
    /\ \A s \in Searches : WF_vars(Advance(s))
    /\ \A c \in Foreign : WF_vars(RateAnswers(c) \/ RateFails(c))
    /\ WF_vars(Die)

FairSpec == Spec /\ Fairness

------------------------------------------------------------------------------
(* Properties *)

SideStates ==
    Settled \cup {"idle", "direct", "all", "destinations", "hotels", "pricing"}

Answers ==
    [base : Bases, kind : Bases,
     flights : {"live", "offline", "synthetic", "none"}, hotels : {"live", "offline", "none"}]

TypeOK ==
    /\ now \in Nat
    /\ cachedToken = None \/ cachedToken \in [token : Token, expiresAt : Nat]
    /\ rateCache \in [Foreign -> Nat \cup {None}]
    /\ requests \in [Foreign -> Nat]
    /\ rejected \in BOOLEAN
    /\ phase \in [Searches -> {"idle", "auth", "searching", "done", "lost"}]
    /\ auth \in [Searches -> Token \cup {ApiKey, None}]
    /\ side \in [Searches -> [Sides -> SideStates]]
    /\ waiting \in [Searches -> [Sides -> SUBSET Foreign]]
    /\ result \in [Searches -> Answers \cup {None}]

\* A search never starts with a token too close to its expiry: one that tells when
\* it expires and has time enough to live is dropped more than the margin earlier,
\* whichever search fetched it.  Of any other token it is only certain that it is
\* not presented longer than the default time after it expired (tokenTtlMs,
\* authToken).
AuthenticatesInTime ==
    [][\A s \in Searches :
          auth[s] = None /\ auth'[s] \notin {None, ApiKey} =>
              IF auth'[s].long THEN now + Margin < auth'[s].exp
                               ELSE now < auth'[s].exp + DefaultTtl]_vars

\* However many conversions miss at once, and however requests fail in between, a
\* currency is asked for once, and somebody is always asking for a rate that
\* somebody waits for (gbpRate, currency.ts:91-98).
OneRequestServesAll ==
    \A c \in Foreign :
        /\ requests[c] <= 1
        /\ (\E s \in Searches, d \in Sides : c \in waiting[s][d]) => requests[c] = 1

\* What is shown as options can be booked (simulateBooking needs a flight and a
\* hotel), but for one case: live flights to a place that has no live hotels and
\* that the catalogue does not cover (routestack.ts:454-491, 533).
OptionsCanBeBooked ==
    \A s \in Searches : result[s] # None /\ result[s].kind = "options" =>
        /\ result[s].flights # "none"
        /\ result[s].hotels # "none" \/ (result[s].base = "none" /\ result[s].flights = "live")

\* Whatever fails, and however slowly, every search that was started ends: with an
\* answer, or with the process that a failed rate request brought down.
EverySearchEnds == \A s \in Searches : Running(s) ~> phase[s] \in {"done", "lost"}
==============================================================================
