SPECIFICATION Spec
CONSTANTS
    Events = {e1, e2}
    Done = Done
    MaxEvents = 5
INVARIANTS
    TypeOK
    NoEventLostOrReordered
    NoLostWakeup
    EndsAfterEverythingPushed
PROPERTIES
    ImplementsStream
CHECK_DEADLOCK FALSE
