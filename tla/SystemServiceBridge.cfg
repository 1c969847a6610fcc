SPECIFICATION FairSpec
CONSTANTS
    Calls = {c1, c2, c3}
    Bounded = {c1, c2}
    Handlers = {main, other}
    Main = main
    Refused = {c2, c3}
    MaxSets = 3
CHECK_DEADLOCK FALSE
INVARIANTS
    OnePlace
    NobodyStranded
PROPERTIES
    AnsweredOnce
    BoundedAnswered
