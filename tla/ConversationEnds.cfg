SPECIFICATION FairSpec
CONSTANTS
 MaxInstructions = 3
 MaxSources = 3
 MaxRuns = 5
 MaxCloses = 0
 MaxRestarts = 0
 MaxLost = 0
 MaxEdits = 2
 MaxSupplements = 0
 MaxDeletes = 1
 InFront = {TRUE}
PROPERTIES EveryInstructionEnds
CHECK_DEADLOCK FALSE
