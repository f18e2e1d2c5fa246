\* A chat traveller who waits for each answer; the instance may restart.
SPECIFICATION Spec
CONSTANTS
    Instances = {i1}
    Sessions = {s1}
    Turns = {t1, t2, t3, t4}
    Surface = "chat"
    Driver = "local"
    CanDetach = FALSE
    CanRestart = TRUE
    Places <- MCPlaces
    Covered <- MCCovered
    Flights <- MCFlights
    Hotels <- MCHotels
    Preferred <- MCPreferred
    Positions <- MCPositions
    None = None
SYMMETRY TurnSymmetry
INVARIANTS
    TypeOK
    BooksWhatWasShown
    RepliesFollowTheirMessages
PROPERTIES
    SummaryReflectsBookingUntilNextSearch
    ImplementsDesk
CHECK_DEADLOCK FALSE
