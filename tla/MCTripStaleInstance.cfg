\* Two hosted instances serve one conversation.
SPECIFICATION Spec
CONSTANTS
    Instances = {i1, i2}
    Sessions = {s1}
    Turns = {t1, t2, t3}
    Surface = "responses"
    Driver = "local"
    CanDetach = FALSE
    CanRestart = FALSE
    Places <- MCPlaces
    Covered <- MCCovered
    Flights <- MCFlights
    Hotels <- MCHotels
    Preferred <- NoPreference
    Positions <- MCPositions
    None = None
SYMMETRY TurnSymmetry
INVARIANTS
    BooksWhatWasShown
CHECK_DEADLOCK FALSE
