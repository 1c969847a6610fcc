SPECIFICATION FairSpec
CONSTANTS
    Urls = {u1}
    Checks = {c1, c2}
    MaxPending = 1
    MaxCache = 1
    MaxExceptions = 1
    MaxRev = 3
    MaxNews = 1
CHECK_DEADLOCK FALSE
INVARIANTS
    TypeOK
    OnePlace
    PendingWaits
    RulesHeld
    ListedIsCaught
    ConsentRespected
PROPERTIES
    AnsweredOnce
    EveryCheckAnswered
