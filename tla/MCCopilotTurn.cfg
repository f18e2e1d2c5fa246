\* One turn left to the model, with two tool calls that may overlap.
SPECIFICATION Spec
CONSTANTS
    Calls = {c1, c2}
    Tools <- MCTools
    Own <- MCOwn
    Allowed <- MCAllowed
    Groundings <- MCGroundings
    MaxTokens = 1
SYMMETRY CallSymmetry
INVARIANTS
    TypeOK
    SettledAtTheVerdict
    OwnAnswersUnlessOverlapping
    SpansEndUnlessOverlapping
    StopsItsClient
    RecordsTheWholeReply
PROPERTIES
    ClosedRowsStand
    ImplementsContract
CHECK_DEADLOCK FALSE
