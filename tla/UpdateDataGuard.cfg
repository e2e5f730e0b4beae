SPECIFICATION FairSpec
CONSTANTS
 Kept = {"works"}
 Legacy = {"legacy"}
 MaxUpdates = 2
 MaxWrites = 1
 MaxErrors = 2
 MaxCrashes = 1
INVARIANTS TypeOK NothingLost ServesLatest RestoresAlone MarkedMeansMigrated
PROPERTY StartsSucceed
CHECK_DEADLOCK FALSE
