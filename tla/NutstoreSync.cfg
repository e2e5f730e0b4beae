SPECIFICATION Spec
CONSTANTS
 d1 = d1
 d2 = d2
 Devices = {d1, d2}
 Settings <- AllSettings
 MaxTexts = 3
 MaxChanges = 2
 MaxDeletes = 2
 MaxChoices = 1
 MaxFaults = 1
SYMMETRY Symmetric
INVARIANTS TypeOK TextsSurvive
CHECK_DEADLOCK FALSE
