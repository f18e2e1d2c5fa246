\* The hosted agent with its model-driven driver, on one instance.
SPECIFICATION Spec
CONSTANTS
    Instances = {i1}
    Sessions = {s1, s2}
    Turns = {t1, t2, t3}
    Surface = "responses"
    Driver = "copilot"
    CanDetach = FALSE
    CanRestart = FALSE
    Places <- MCCovered
    Covered <- MCCovered
    Flights <- MCFlights
    Hotels <- MCHotels
    Preferred <- MCPreferred
    Positions <- OnePosition
    None = None
SYMMETRY TurnAndSessionSymmetry
CONSTRAINT FewToolCalls
INVARIANTS
    BooksTheCardOnScreen
    OwnSearches
CHECK_DEADLOCK FALSE
