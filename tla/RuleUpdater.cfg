SPECIFICATION FairSpec
CONSTANTS
    Manifests <- MCManifests
    Assets <- MCAssets
    Soon = 1
    Minute = 2
    Base = 2
    Period = 3
    MaxFailures = 2
    MaxClients = 2
    MaxClock = 2
    MaxCrashes = 2
CHECK_DEADLOCK FALSE
INVARIANTS
    NoRollback
    CacheAccepted
PROPERTY KeepsUpdating
