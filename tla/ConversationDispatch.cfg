SPECIFICATION Spec
CONSTANTS
 MaxInstructions = 2
 MaxSources = 3
 MaxRuns = 3
 MaxCloses = 1
 MaxRestarts = 1
 MaxLost = 1
 MaxEdits = 0
 MaxSupplements = 1
 MaxDeletes = 0
 InFront = {TRUE, FALSE}
INVARIANTS TypeOK GivenOnce NothingForgotten OneAtATime
CHECK_DEADLOCK FALSE
