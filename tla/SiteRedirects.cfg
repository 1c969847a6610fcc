SPECIFICATION FairSpec
CONSTANTS
    Urls = {u1, u2}
    Blank = Blank
    MaxNav = 2
    MaxHops = 2
    MaxRev = 2
    Answers = {"no_match", "phishing"}
CHECK_DEADLOCK FALSE
INVARIANTS
    ClearedHopByHop
    DeferredHasCheck
PROPERTY DeferredResolves
