SPECIFICATION Spec
CONSTANTS
 d1 = d1
 d2 = d2
 w1 = w1
 w2 = w2
 Doc = {d1, d2}
 Window = {w1}
 Origins = {{d1, d2}}
 Reverts = TRUE
 MaxSaves = 2
 MaxEdits = 1
 MaxFaults = 1
 MaxCrashes = 1
 NewFaults = 1
 MaxGaps = 0
INVARIANTS TypeOK Coherent TextsSurvive SavesKeepEdits
