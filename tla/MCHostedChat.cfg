\* One traveller's text and two messages a chat, whoever answers; chats are begun as
\* often as there are messages.  A local turn after the first is a booking.
SPECIFICATION FairSpec
CONSTANTS
    Texts = {a}
    LocalTurns = 2
    FoundryTurns = 2
    VariedTurns = 1
    None = None
INVARIANTS
    TypeOK
    OwnReplies
    RowsTellTheirResult
    OneSendAtATime
    OneConversation
    SeesTheConversation
PROPERTIES
    NoSilentLoss
    LocalTurnsSettle
CHECK_DEADLOCK FALSE
