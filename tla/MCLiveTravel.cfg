\* Two searches and one foreign currency; times are scaled down, none is zero.
\* No symmetry: it is not sound for liveness.
SPECIFICATION FairSpec
CONSTANTS
    Searches = {s1, s2}
    Foreign = {"EUR"}
    Lifetimes = {1, 3}
    Margin = 1
    DefaultTtl = 2
    RateTtl = 1
    MaxTime = 2
    None = None
INVARIANTS
    TypeOK
    OneRequestServesAll
    OptionsCanBeBooked
PROPERTIES
    AuthenticatesInTime
    EverySearchEnds
CHECK_DEADLOCK FALSE
