SPECIFICATION FairSpec
CONSTANTS
 d1 = d1
 d2 = d2
 w1 = w1
 w2 = w2
 Doc = {d1, d2}
 Window = {w1}
 Origins = {{}, {d1, d2}}
 Reverts = FALSE
 MaxSaves = 1
 MaxEdits = 1
 MaxFaults = 2
 MaxCrashes = 1
 NewFaults = 2
 MaxGaps = 1
PROPERTIES RequestEnds
