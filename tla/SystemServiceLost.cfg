SPECIFICATION FairSpec
CONSTANTS
    Calls = {c1, c2}
    Bounded = {c1}
    Handlers = {main, other}
    Main = main
    Refused = {}
    MaxSets = 2
CHECK_DEADLOCK FALSE
PROPERTY EveryCallAnswered
