SPECIFICATION MCSpec
CONSTANTS
 d1 = d1
 d2 = d2
 Docs = {d1, d2}
 MaxEdits = 2
 MaxForeign = 1
 MaxCloses = 1
 MaxFailures = 1
 MaxReloads = 1
 MaxEvents = 3
 Budget = 4
INVARIANTS TypeOK ProtectedEditsSurvive
PROPERTIES WorkOnlyGrows EditsGetSaved
CHECK_DEADLOCK FALSE
