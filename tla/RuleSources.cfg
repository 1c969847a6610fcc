SPECIFICATION Spec
CONSTANTS
    Ids = {s1, s2}
    Urls = {u1, u2}
    None = None
    Sizes = {1}
    MaxTotal = 1
    MaxSources = 2
    Soon = 1
    Minute = 1
    Base = 1
    Retry = 2
    Period = 2
    MaxClients = 1
    MaxTasks = 2
    MaxCrashes = 1
CHECK_DEADLOCK FALSE
INVARIANTS
    RulesInForce
    StaysRemoved
    RefreshGoesOn
SYMMETRY Symmetry
