\* Travellers who give up on streams, so that turns overlap. No symmetry: it is not sound for liveness.
SPECIFICATION Spec
CONSTANTS
    Instances = {i1}
    Sessions = {s1}
    Turns = {t1, t2, t3}
    Surface = "chat"
    Driver = "local"
    CanDetach = TRUE
    CanRestart = FALSE
    Places <- OnePlace
    Covered <- OnePlace
    Flights <- Lisbon
    Hotels <- LisbonHotels
    Preferred <- MCPreferred
    Positions <- OnePosition
    None = None
INVARIANTS
    RepliesOnceAndAfterTheirMessage
PROPERTIES
    EveryTurnEnds
CHECK_DEADLOCK FALSE
