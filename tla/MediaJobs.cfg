SPECIFICATION FairSpec
CONSTANTS
 Kinds = {"api", "cli"}
 MaxJobs = 1
 MaxTasks = 3
 MaxActions = 3
 MaxKills = 1
 MaxErrors = 1
 RetryLimit = 1
INVARIANTS TypeOK PaidOnce PaidTasksKnown
PROPERTIES StopHolds EveryJobEnds
CHECK_DEADLOCK FALSE
