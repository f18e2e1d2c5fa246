-------------------------- MODULE LiveTravel_proofs --------------------------
(***************************************************************************)
(* Proofs about LiveTravel for any searches, currencies, token lifetimes   *)
(* and times.                                                              *)
(*                                                                         *)
(* The argument: a rate is waited for only by whoever found it missing,    *)
(* and that very step asks for it unless it is being asked for; its answer *)
(* or failure removes all who wait for it at once.  A cached token's       *)
(* expiry was computed from its life, so that it bounds every later use.   *)
(***************************************************************************)
EXTENDS LiveTravel, TLAPS

\* A kept token is kept for a natural number of ticks.
LEMMA TtlIsNatural ==
    ASSUME NEW life \in Lifetimes PROVE tokenTtl(life) \in Nat
  BY LiveAssumption DEF tokenTtl

\* What is shown is an answer.
LEMMA MergedIsTyped ==
    ASSUME NEW base \in Bases, NEW live
    PROVE  mergeTravelResult(base, live) \in Answers
  BY DEF mergeTravelResult, Shown, Bases, Answers

\* A step of one side of a search leaves the sides and their waits well typed.
LEMMA PriceIsTyped ==
    ASSUME TypeOK, NEW s \in Searches, NEW d \in Sides, NEW offers, Price(s, d, offers)
    PROVE  /\ side' \in [Searches -> [Sides -> SideStates]]
           /\ waiting' \in [Searches -> [Sides -> SUBSET Foreign]]
           /\ requests' \in [Foreign -> Nat]
<1> DEFINE missing == {c \in offers \cap Foreign : ~Fresh(c)}
<1>1. /\ side' = [side EXCEPT ![s][d] = IF missing = {} THEN "live" ELSE "pricing"]
      /\ waiting' = [waiting EXCEPT ![s][d] = missing]
      /\ requests' = Ask(missing)
  BY DEF Price
<1>2. missing \in SUBSET Foreign
  OBVIOUS
<1> HIDE DEF missing
<1>3. requests' \in [Foreign -> Nat]
  BY <1>1 DEF TypeOK, Ask
<1>4. waiting' \in [Searches -> [Sides -> SUBSET Foreign]]
  BY <1>1, <1>2 DEF TypeOK
<1>5. side' \in [Searches -> [Sides -> SideStates]]
  BY <1>1 DEF TypeOK, SideStates, Settled
<1> QED
  BY <1>3, <1>4, <1>5

LEMMA ResumeIsTyped ==
    ASSUME TypeOK, NEW c \in Foreign, requests[c] > 0, Resume(c)
    PROVE  /\ side' \in [Searches -> [Sides -> SideStates]]
           /\ waiting' \in [Searches -> [Sides -> SUBSET Foreign]]
           /\ requests' \in [Foreign -> Nat]
  BY DEF Resume, Served, TypeOK, SideStates, Settled

\* How a side of a search goes on.
SideStep(s, d) ==
    \/ \E offers : Price(s, d, offers)
    \/ \E to \in Settled \cup {"all", "hotels"} : Go(s, d, to)

LEMMA SearchesStep ==
    ASSUME NEW s \in Searches, searchLiveFlights(s) \/ searchLiveHotels(s)
    PROVE  (\E d \in Sides : SideStep(s, d)) /\ Untouched
<1>1. CASE searchLiveFlights(s)
  <2>1. "flights" \in Sides
    BY DEF Sides
  <2>2. SideStep(s, "flights")
    BY <1>1 DEF searchLiveFlights, SideStep, Nothing, Fails, Quoted, Settled
  <2> QED  BY <1>1, <2>1, <2>2 DEF searchLiveFlights
<1>2. CASE searchLiveHotels(s)
  <2>1. "hotels" \in Sides
    BY DEF Sides
  <2>2. SideStep(s, "hotels")
    BY <1>2 DEF searchLiveHotels, SideStep, Nothing, Fails, Quoted, Settled
  <2> QED  BY <1>2, <2>1, <2>2 DEF searchLiveHotels
<1> QED
  BY <1>1, <1>2

LEMMA SideStepIsTyped ==
    ASSUME TypeOK, NEW s \in Searches, NEW d \in Sides, SideStep(s, d)
    PROVE  /\ side' \in [Searches -> [Sides -> SideStates]]
           /\ waiting' \in [Searches -> [Sides -> SUBSET Foreign]]
           /\ requests' \in [Foreign -> Nat]
<1>1. ASSUME NEW to \in Settled \cup {"all", "hotels"}, Go(s, d, to)
      PROVE  /\ side' \in [Searches -> [Sides -> SideStates]]
             /\ waiting' \in [Searches -> [Sides -> SUBSET Foreign]]
             /\ requests' \in [Foreign -> Nat]
  BY <1>1 DEF Go, TypeOK, SideStates, Settled
<1> QED
  BY <1>1, PriceIsTyped DEF SideStep

\* A search that has its token, or an answer.
LEMMA FanOutIsTyped ==
    ASSUME TypeOK, NEW s \in Searches, NEW t \in Token \cup {ApiKey}, FanOut(s, t)
    PROVE  /\ auth' \in [Searches -> Token \cup {ApiKey, None}]
           /\ phase' \in [Searches -> {"idle", "auth", "searching", "done", "lost"}]
           /\ side' \in [Searches -> [Sides -> SideStates]]
  BY DEF FanOut, TypeOK, SideStates, Sides

LEMMA FinishIsTyped ==
    ASSUME TypeOK, NEW s \in Searches, NEW base \in Bases, NEW live, Finish(s, base, live)
    PROVE  TypeOK'
<1>1. mergeTravelResult(base, live) \in Answers
  BY MergedIsTyped
<1> QED
  BY <1>1 DEF Finish, TypeOK, SideStates, rates

LEMMA TypeStep == TypeOK /\ [Next]_vars => TypeOK'
<1> SUFFICES ASSUME TypeOK, [Next]_vars PROVE TypeOK'
  OBVIOUS
<1> USE LiveAssumption DEF rates
<1>1. CASE Tick
  BY <1>1 DEF Tick, TypeOK
<1>2. ASSUME NEW s \in Searches, Start(s) PROVE TypeOK'
  <2>1. CASE HasToken
    <3>1. cachedToken.token \in Token /\ FanOut(s, cachedToken.token)
      BY <1>2, <2>1 DEF Start, HasToken, TypeOK
    <3> QED  BY <1>2, <3>1, FanOutIsTyped DEF Start, TypeOK
  <2>2. CASE ~HasToken
    BY <1>2, <2>2 DEF Start, TypeOK
  <2> QED  BY <2>1, <2>2
<1>3. ASSUME NEW s \in Searches, partnerToken(s) PROVE TypeOK'
  <2>1. PICK life \in Lifetimes :
           LET t == [exp |-> now + life, long |-> life > 2 * Margin]
           IN  /\ cachedToken' = [token |-> t, expiresAt |-> now + tokenTtl(life)]
               /\ FanOut(s, t)
    BY <1>3 DEF partnerToken
  <2> DEFINE t == [exp |-> now + life, long |-> life > 2 * Margin]
  <2>2. t \in Token
    BY DEF TypeOK, Token
  <2>3. now + tokenTtl(life) \in Nat
    BY TtlIsNatural DEF TypeOK
  <2>4. cachedToken' = [token |-> t, expiresAt |-> now + tokenTtl(life)] /\ FanOut(s, t)
    BY <2>1
  <2>5. UNCHANGED <<now, rates, waiting, result>>
    BY <1>3 DEF partnerToken
  <2> HIDE DEF t
  <2> QED  BY <2>2, <2>3, <2>4, <2>5, FanOutIsTyped DEF TypeOK
<1>4. ASSUME NEW s \in Searches, partnerTokenFails(s) PROVE TypeOK'
  BY <1>4, FanOutIsTyped DEF partnerTokenFails, TypeOK
<1>5. ASSUME NEW s \in Searches, searchLiveFlights(s) \/ searchLiveHotels(s) PROVE TypeOK'
  BY <1>5, SearchesStep, SideStepIsTyped DEF Untouched, TypeOK
<1>6. ASSUME NEW s \in Searches, Merge(s) PROVE TypeOK'
  BY <1>6, FinishIsTyped DEF Merge
<1>7. ASSUME NEW s \in Searches, Refuse(s) PROVE TypeOK'
  BY <1>7, FinishIsTyped DEF Refuse, Bases
<1>8. ASSUME NEW c \in Foreign, RateAnswers(c) PROVE TypeOK'
  BY <1>8, ResumeIsTyped DEF RateAnswers, TypeOK
<1>9. ASSUME NEW c \in Foreign, RateFails(c) PROVE TypeOK'
  BY <1>9, ResumeIsTyped DEF RateFails, TypeOK
<1>10. CASE Die
  BY <1>10 DEF Die, TypeOK, Running, SideStates
<1>11. CASE UNCHANGED vars
  BY <1>11 DEF vars, TypeOK
<1> QED
  BY <1>1, <1>2, <1>3, <1>4, <1>5, <1>6, <1>7, <1>8, <1>9, <1>10, <1>11 DEF Next, Advance

\* However the searches interleave, and whatever fails, the caches, the requests and
\* the searches are well typed: no token or rate is kept for a negative time.
THEOREM LiveTypeCorrect == Spec => []TypeOK
<1>1. Init => TypeOK
  <2> SUFFICES ASSUME Init PROVE TypeOK
    OBVIOUS
  <2>1. side \in [Searches -> [Sides -> SideStates]]
    BY DEF Init, SideStates
  <2>2. waiting \in [Searches -> [Sides -> SUBSET Foreign]]
    BY DEF Init
  <2>3. /\ rateCache \in [Foreign -> Nat \cup {None}] /\ requests \in [Foreign -> Nat]
        /\ phase \in [Searches -> {"idle", "auth", "searching", "done", "lost"}]
    BY DEF Init
  <2>4. /\ auth \in [Searches -> Token \cup {ApiKey, None}]
        /\ result \in [Searches -> Answers \cup {None}]
    BY DEF Init
  <2> QED  BY <2>1, <2>2, <2>3, <2>4 DEF Init, TypeOK
<1> QED
  BY <1>1, TypeStep, PTL DEF Spec

------------------------------------------------------------------------------

\* Pricing asks for each rate it waits for, unless that is being asked for.
LEMMA PriceAsks ==
    ASSUME TypeOK, OneRequestServesAll, NEW s \in Searches, NEW d \in Sides, NEW offers,
           Price(s, d, offers)
    PROVE  OneRequestServesAll'
<1> DEFINE missing == {c \in offers \cap Foreign : ~Fresh(c)}
<1>1. /\ waiting' = [waiting EXCEPT ![s][d] = missing]
      /\ requests' = Ask(missing)
  BY DEF Price
<1> HIDE DEF missing
<1> SUFFICES ASSUME NEW c \in Foreign
             PROVE  /\ requests'[c] <= 1
                    /\ \A x \in Searches, y \in Sides : c \in waiting'[x][y] => requests'[c] = 1
  BY DEF OneRequestServesAll
<1>2. requests'[c] = IF c \in missing /\ requests[c] = 0 THEN 1 ELSE requests[c]
  BY <1>1 DEF Ask
<1>3. requests[c] \in Nat /\ requests[c] <= 1
  BY DEF TypeOK, OneRequestServesAll
<1>4. ASSUME NEW x \in Searches, NEW y \in Sides, c \in waiting'[x][y]
      PROVE  c \in missing \/ c \in waiting[x][y]
  BY <1>1, <1>4 DEF TypeOK
<1> QED
  BY <1>2, <1>3, <1>4 DEF OneRequestServesAll

LEMMA SideStepAsks ==
    ASSUME TypeOK, OneRequestServesAll, NEW s \in Searches, NEW d \in Sides, SideStep(s, d)
    PROVE  OneRequestServesAll'
<1>1. CASE UNCHANGED <<waiting, requests>>
  BY <1>1 DEF OneRequestServesAll
<1> QED
  BY <1>1, PriceAsks DEF SideStep, Go

\* An answer, or its failure, leaves nobody waiting.
LEMMA ResumeServesAll ==
    ASSUME TypeOK, OneRequestServesAll, NEW c \in Foreign, requests[c] > 0, Resume(c)
    PROVE  OneRequestServesAll'
<1> SUFFICES ASSUME NEW e \in Foreign
             PROVE  /\ requests'[e] <= 1
                    /\ \A x \in Searches, y \in Sides : e \in waiting'[x][y] => requests'[e] = 1
  BY DEF OneRequestServesAll
<1>1. requests[e] \in Nat /\ requests[e] <= 1 /\ requests[c] \in Nat
  BY DEF TypeOK, OneRequestServesAll
<1>2. requests'[e] = IF e = c THEN requests[e] - 1 ELSE requests[e]
  BY DEF Resume, TypeOK
<1>3. ASSUME NEW x \in Searches, NEW y \in Sides, e \in waiting'[x][y]
      PROVE  e \in waiting[x][y] /\ e # c
  BY <1>3 DEF Resume, Served
<1> QED
  BY <1>1, <1>2, <1>3 DEF OneRequestServesAll

LEMMA RequestsStep == TypeOK /\ OneRequestServesAll /\ [Next]_vars => OneRequestServesAll'
<1> SUFFICES ASSUME TypeOK, OneRequestServesAll, [Next]_vars PROVE OneRequestServesAll'
  OBVIOUS
<1> USE DEF rates
<1>1. CASE UNCHANGED <<waiting, requests>>
  BY <1>1 DEF OneRequestServesAll
<1>2. ASSUME NEW s \in Searches, searchLiveFlights(s) \/ searchLiveHotels(s)
      PROVE  OneRequestServesAll'
  BY <1>2, SearchesStep, SideStepAsks
<1>3. ASSUME NEW c \in Foreign, RateAnswers(c) \/ RateFails(c) PROVE OneRequestServesAll'
  BY <1>3, ResumeServesAll DEF RateAnswers, RateFails
<1>4. CASE Die
  BY <1>4 DEF Die, OneRequestServesAll
<1>5. ASSUME NEW s \in Searches,
             Start(s) \/ Refuse(s) \/ partnerToken(s) \/ partnerTokenFails(s) \/ Merge(s)
      PROVE  UNCHANGED <<waiting, requests>>
  BY <1>5 DEF Start, Refuse, Merge, Finish, partnerToken, partnerTokenFails
<1>6. Tick \/ UNCHANGED vars => UNCHANGED <<waiting, requests>>
  BY DEF Tick, vars
<1> QED
  BY <1>1, <1>2, <1>3, <1>4, <1>5, <1>6 DEF Next, Advance

\* However many conversions miss at once, and however requests fail in between, a
\* currency is asked for once and nobody waits for a rate that nobody asks for.
THEOREM RatesAreAskedOnce == Spec => []OneRequestServesAll
<1>1. Init => OneRequestServesAll
  BY DEF Init, OneRequestServesAll
<1> QED
  BY <1>1, LiveTypeCorrect, RequestsStep, PTL DEF Spec

------------------------------------------------------------------------------

\* Options that are shown have a flight, and a hotel unless only flights came and the
\* catalogue has none.
Bookable(r) ==
    r.kind = "options" =>
        /\ r.flights # "none"
        /\ r.hotels # "none" \/ (r.base = "none" /\ r.flights = "live")

LEMMA MergedIsBookable ==
    ASSUME NEW base \in Bases, NEW live PROVE Bookable(mergeTravelResult(base, live))
<1>1. CASE base = "options"
  BY <1>1 DEF mergeTravelResult, Shown, Bookable
<1>2. CASE base = "none"
  BY <1>2 DEF mergeTravelResult, Shown, Bookable
<1>3. CASE base \in {"problem", "missing-dates"}
  BY <1>3 DEF mergeTravelResult, Shown, Bookable
<1> QED
  BY <1>1, <1>2, <1>3 DEF Bases

LEMMA OptionsStep == TypeOK /\ OptionsCanBeBooked /\ [Next]_vars => OptionsCanBeBooked'
<1> SUFFICES ASSUME TypeOK, OptionsCanBeBooked, [Next]_vars PROVE OptionsCanBeBooked'
  OBVIOUS
<1>1. CASE UNCHANGED result
  BY <1>1 DEF OptionsCanBeBooked
<1>2. ASSUME NEW s \in Searches, NEW base \in Bases, NEW live, Finish(s, base, live)
      PROVE  OptionsCanBeBooked'
  <2> DEFINE r == mergeTravelResult(base, live)
  <2>1. result' = [result EXCEPT ![s] = r]
    BY <1>2 DEF Finish
  <2>2. Bookable(r)
    BY MergedIsBookable
  <2> HIDE DEF r
  <2> QED  BY <2>1, <2>2 DEF TypeOK, OptionsCanBeBooked, Bookable
<1>3. ASSUME NEW s \in Searches, Merge(s) \/ Refuse(s) PROVE OptionsCanBeBooked'
  BY <1>2, <1>3 DEF Merge, Refuse, Bases
<1>4. ASSUME NEW s \in Searches, searchLiveFlights(s) \/ searchLiveHotels(s)
      PROVE  UNCHANGED result
  BY <1>4, SearchesStep DEF Untouched
<1>5. ASSUME NEW s \in Searches, Start(s) \/ partnerToken(s) \/ partnerTokenFails(s)
      PROVE  UNCHANGED result
  BY <1>5 DEF Start, partnerToken, partnerTokenFails
<1>6. ASSUME NEW c \in Foreign, RateAnswers(c) \/ RateFails(c) PROVE UNCHANGED result
  BY <1>6 DEF RateAnswers, RateFails
<1>7. Tick \/ Die \/ UNCHANGED vars => UNCHANGED result
  BY DEF Tick, Die, vars
<1> QED
  BY <1>1, <1>3, <1>4, <1>5, <1>6, <1>7 DEF Next, Advance

\* Whatever came live and whatever did not, options that are shown can be booked, but
\* for the one case the property names.
THEOREM ShownCanBeBooked == Spec => []OptionsCanBeBooked
<1>1. Init => OptionsCanBeBooked
  BY DEF Init, OptionsCanBeBooked
<1> QED
  BY <1>1, LiveTypeCorrect, OptionsStep, PTL DEF Spec

------------------------------------------------------------------------------

\* What the token in the cache was kept for.
TokenInv ==
    cachedToken # None =>
        LET t == cachedToken.token
        IN  IF t.long THEN cachedToken.expiresAt + Margin <= t.exp
                      ELSE cachedToken.expiresAt <= t.exp + DefaultTtl

\* A fresh token, when it is cached and when it is presented.
LEMMA FreshTokenInTime ==
    ASSUME TypeOK, NEW life \in Lifetimes
    PROVE  IF life > 2 * Margin
           THEN /\ (now + tokenTtl(life)) + Margin <= now + life
                /\ now + Margin < now + life
           ELSE /\ now + tokenTtl(life) <= (now + life) + DefaultTtl
                /\ now < (now + life) + DefaultTtl
<1>1. now \in Nat /\ life \in Nat /\ Margin \in Nat /\ DefaultTtl \in Nat \ {0}
  BY LiveAssumption DEF TypeOK
<1>2. CASE life > 2 * Margin
  <2>1. life - Margin > Margin /\ tokenTtl(life) = life - Margin
    BY <1>1, <1>2 DEF tokenTtl
  <2> QED  BY <1>1, <1>2, <2>1
<1>3. CASE ~(life > 2 * Margin)
  <2>1. tokenTtl(life) = DefaultTtl
    BY <1>1, <1>3 DEF tokenTtl
  <2> QED  BY <1>1, <1>3, <2>1
<1> QED
  BY <1>2, <1>3

\* The one action that caches a token.
LEMMA PartnerTokenTaken ==
    ASSUME TypeOK, NEW s \in Searches, partnerToken(s)
    PROVE  \E life \in Lifetimes, t \in Token :
              /\ t = [exp |-> now + life, long |-> (life > 2 * Margin)]
              /\ cachedToken' = [token |-> t, expiresAt |-> now + tokenTtl(life)]
              /\ FanOut(s, t)
<1>1. PICK life \in Lifetimes :
         LET t == [exp |-> now + life, long |-> life > 2 * Margin]
         IN  /\ cachedToken' = [token |-> t, expiresAt |-> now + tokenTtl(life)]
             /\ FanOut(s, t)
  BY DEF partnerToken
<1> DEFINE t == [exp |-> now + life, long |-> life > 2 * Margin]
<1>2. t \in Token
  BY LiveAssumption DEF TypeOK, Token
<1> QED
  BY <1>1, <1>2

LEMMA TokenStep == TypeOK /\ TokenInv /\ [Next]_vars => TokenInv'
<1> SUFFICES ASSUME TypeOK, TokenInv, [Next]_vars PROVE TokenInv'
  OBVIOUS
<1> USE DEF rates
<1>1. CASE UNCHANGED cachedToken
  BY <1>1 DEF TokenInv
<1>2. ASSUME NEW s \in Searches, partnerToken(s) PROVE TokenInv'
  <2>1. PICK life \in Lifetimes, t \in Token :
           /\ t = [exp |-> now + life, long |-> (life > 2 * Margin)]
           /\ cachedToken' = [token |-> t, expiresAt |-> now + tokenTtl(life)]
    BY <1>2, PartnerTokenTaken
  <2>2. cachedToken'.token = t /\ cachedToken'.expiresAt = now + tokenTtl(life)
    BY <2>1
  <2>3. t.exp = now + life /\ t.long = (life > 2 * Margin)
    BY <2>1
  <2> QED  BY <2>2, <2>3, FreshTokenInTime DEF TokenInv
<1>3. CASE Die
  BY <1>3 DEF Die, TokenInv
<1>4. ASSUME NEW s \in Searches, Start(s) \/ Refuse(s) \/ partnerTokenFails(s) \/ Merge(s)
      PROVE  UNCHANGED cachedToken
  BY <1>4 DEF Start, Refuse, Merge, Finish, partnerTokenFails
<1>5. ASSUME NEW s \in Searches, searchLiveFlights(s) \/ searchLiveHotels(s)
      PROVE  UNCHANGED cachedToken
  BY <1>5, SearchesStep DEF Untouched
<1>6. ASSUME NEW c \in Foreign, RateAnswers(c) \/ RateFails(c) PROVE UNCHANGED cachedToken
  BY <1>6 DEF RateAnswers, RateFails
<1>7. Tick \/ UNCHANGED vars => UNCHANGED cachedToken
  BY DEF Tick, vars
<1> QED
  BY <1>1, <1>2, <1>3, <1>4, <1>5, <1>6, <1>7 DEF Next, Advance

\* In time: how a token may be presented.
InTime(t) == IF t.long THEN now + Margin < t.exp ELSE now < t.exp + DefaultTtl

LEMMA CachedTokenInTime ==
    ASSUME TypeOK, TokenInv, HasToken PROVE InTime(cachedToken.token)
<1>1. /\ cachedToken.expiresAt \in Nat /\ cachedToken.token \in Token
      /\ now \in Nat /\ cachedToken.expiresAt > now
  BY DEF HasToken, TypeOK
<1>2. cachedToken.token.exp \in Nat /\ Margin \in Nat /\ DefaultTtl \in Nat
  BY <1>1, LiveAssumption DEF Token
<1> QED
  BY <1>1, <1>2 DEF TokenInv, HasToken, InTime

LEMMA FanOutInTime ==
    ASSUME TypeOK, NEW x \in Searches, NEW t, FanOut(x, t), InTime(t),
           NEW s \in Searches, auth[s] = None, auth'[s] # None
    PROVE  InTime(auth'[s])
  BY DEF FanOut, TypeOK

LEMMA AuthStep ==
    ASSUME TypeOK, TokenInv, [Next]_vars,
           NEW s \in Searches, auth[s] = None, auth'[s] \notin {None, ApiKey}
    PROVE  InTime(auth'[s])
<1> USE DEF rates
<1>1. ASSUME NEW x \in Searches, Start(x) PROVE InTime(auth'[s])
  BY <1>1, CachedTokenInTime, FanOutInTime DEF Start
<1>2. ASSUME NEW x \in Searches, partnerToken(x) PROVE InTime(auth'[s])
  <2>1. PICK life \in Lifetimes, t \in Token :
           /\ t = [exp |-> now + life, long |-> (life > 2 * Margin)]
           /\ FanOut(x, t)
    BY <1>2, PartnerTokenTaken
  <2>2. t.exp = now + life /\ t.long = (life > 2 * Margin)
    BY <2>1
  <2>3. InTime(t)
    BY <2>2, FreshTokenInTime DEF InTime
  <2> QED  BY <2>1, <2>3, FanOutInTime
<1>3. ASSUME NEW x \in Searches, partnerTokenFails(x) PROVE FALSE
  BY <1>3 DEF partnerTokenFails, FanOut, TypeOK
<1>4. ASSUME NEW x \in Searches, Merge(x) \/ Refuse(x) PROVE FALSE
  BY <1>4 DEF Merge, Refuse, Finish, TypeOK
<1>5. ASSUME NEW x \in Searches, searchLiveFlights(x) \/ searchLiveHotels(x) PROVE FALSE
  BY <1>5, SearchesStep DEF Untouched
<1>6. ASSUME NEW c \in Foreign, RateAnswers(c) \/ RateFails(c) PROVE FALSE
  BY <1>6 DEF RateAnswers, RateFails
<1>7. CASE Tick \/ Die \/ UNCHANGED vars
  BY <1>7 DEF Tick, Die, vars
<1> QED
  BY <1>1, <1>2, <1>3, <1>4, <1>5, <1>6, <1>7 DEF Next, Advance

\* No search starts with a token too close to its expiry, whichever search fetched it
\* and however long ago.
THEOREM TokensAreDroppedInTime == Spec => AuthenticatesInTime
<1>1. Init => TokenInv
  BY DEF Init, TokenInv
<1>2. TypeOK /\ TokenInv /\ [Next]_vars =>
        [\A s \in Searches :
            auth[s] = None /\ auth'[s] \notin {None, ApiKey} =>
                IF auth'[s].long THEN now + Margin < auth'[s].exp
                                 ELSE now < auth'[s].exp + DefaultTtl]_vars
  BY AuthStep DEF InTime
<1> QED
  BY <1>1, <1>2, LiveTypeCorrect, TokenStep, PTL DEF Spec, AuthenticatesInTime
==============================================================================
