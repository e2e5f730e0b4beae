SPECIFICATION OrderlySpec
CONSTANTS
 d1 = d1
 d2 = d2
 Devices = {d1, d2}
 Settings <- AutoSettings
 MaxTexts = 5
 MaxChanges = 2
 MaxDeletes = 0
 MaxChoices = 0
 MaxFaults = 0
PROPERTY EventuallyConsistent
CHECK_DEADLOCK FALSE
