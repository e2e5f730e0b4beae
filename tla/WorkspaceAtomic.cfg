SPECIFICATION Spec
CONSTANTS
 d1 = d1
 d2 = d2
 w1 = w1
 w2 = w2
 Doc = {d1, d2}
 Window = {w1, w2}
 Origins = {{}, {d1, d2}}
 Reverts = FALSE
 MaxSaves = 2
 MaxEdits = 0
 MaxFaults = 2
 MaxCrashes = 1
 NewFaults = 0
 MaxGaps = 0
PROPERTIES ImplementsAtomicWorkspace
