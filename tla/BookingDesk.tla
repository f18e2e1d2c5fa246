----------------------------- MODULE BookingDesk -----------------------------
(***************************************************************************)
(* What the booking conversation promises the traveller (FRD-005 FR-005-5, *)
(* booking-context.ts): a booking is always of an option the traveller has *)
(* on screen, at the position the traveller named.                         *)
(***************************************************************************)
CONSTANTS
    Sessions,
    Turns,
    Selections,     \* what a booking message names: a flight and a hotel position
    OptionLists,    \* what a search can show
    Pick(_, _),     \* the itinerary at a selection of an option list
    None

VARIABLES
    shown,          \* the option list on each session's screen
    asked,          \* the booking each turn was asked to make
    booked          \* the itinerary each turn booked

vars == <<shown, asked, booked>>

Init ==
    /\ shown = [s \in Sessions |-> None]
    /\ asked = [t \in Turns |-> None]
    /\ booked = [t \in Turns |-> None]

Show(s, o) ==
    /\ shown' = [shown EXCEPT ![s] = o]
    /\ UNCHANGED <<asked, booked>>

Ask(t, s, sel) ==
    /\ asked[t] = None
    /\ asked' = [asked EXCEPT ![t] = [session |-> s, selection |-> sel]]
    /\ UNCHANGED <<shown, booked>>

Book(t) ==
    /\ asked[t] # None
    /\ shown[asked[t].session] # None
    /\ booked[t] = None
    /\ booked' = [booked EXCEPT ![t] = Pick(shown[asked[t].session], asked[t].selection)]
    /\ UNCHANGED <<shown, asked>>

Next ==
    \/ \E s \in Sessions, o \in OptionLists : Show(s, o)
    \/ \E t \in Turns, s \in Sessions, sel \in Selections : Ask(t, s, sel)
    \/ \E t \in Turns : Book(t)

Spec == Init /\ [][Next]_vars
==============================================================================
