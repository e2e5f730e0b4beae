SPECIFICATION FairSpec
CONSTANTS
 p1 = p1
 p2 = p2
 p3 = p3
 Proc = {p1, p2, p3}
 MaxTasks = 3
INVARIANTS TypeOK OneWriterUnlessStolen SignedMeansUsed
PROPERTY TasksSettle
CHECK_DEADLOCK FALSE
