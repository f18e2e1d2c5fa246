---------------------------- MODULE MCTripSession ----------------------------
(***************************************************************************)
(* Small instances of TripSession: two covered places, one without         *)
(* inventory, three flights and two hotels each, the profile preferring    *)
(* the second flight of the first place, so that what is shown is not in   *)
(* catalogue order.                                                        *)
(***************************************************************************)
EXTENDS TripSession, TLC

MCPlaces == {"lisbon", "rome", "faro"}
MCCovered == {"lisbon", "rome"}
MCFlights == [lisbon |-> <<"TAP", "BA", "easyJet">>, rome |-> <<"ITA", "Ryanair">>]
MCHotels == [lisbon |-> <<"h1", "h2">>, rome |-> <<"h3", "h4">>]
MCPreferred == {"BA"}
MCPositions == {0, 1}

\* A profile without preferred airlines: what is shown is in catalogue order, so that
\* searching a history again finds just what was shown.
NoPreference == {}

\* One covered place and one position, for the runs with many interleavings.
OnePlace == {"lisbon"}
Lisbon == [lisbon |-> <<"TAP", "BA", "easyJet">>]
LisbonHotels == [lisbon |-> <<"h1", "h2">>]
OnePosition == {1}

\* Bounds of the model-driven run, over all its turns: the model searches twice and
\* books once.
ModelBooked(t) == out[t] # None /\ ~BooksDirectly(t) /\ ~Asked(t, "summary")

FewToolCalls ==
    /\ Cardinality({t \in Turns : search[t] # "none"}) <= 2
    /\ Cardinality({t \in Turns : ModelBooked(t)}) <= 1

TurnSymmetry == Permutations(Turns)
TurnAndSessionSymmetry == Permutations(Turns) \cup Permutations(Sessions)
==============================================================================
