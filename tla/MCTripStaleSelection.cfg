\* A booking, another search, a summary.
SPECIFICATION Spec
CONSTANTS
    Instances = {i1}
    Sessions = {s1}
    Turns = {t1, t2, t3, t4}
    Surface = "chat"
    Driver = "local"
    CanDetach = FALSE
    CanRestart = FALSE
    Places <- MCPlaces
    Covered <- MCCovered
    Flights <- MCFlights
    Hotels <- MCHotels
    Preferred <- MCPreferred
    Positions <- MCPositions
    None = None
SYMMETRY TurnSymmetry
PROPERTIES
    SummaryReflectsBooking
CHECK_DEADLOCK FALSE
