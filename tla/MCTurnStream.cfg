\* A tab that joins, breaks and rejoins a turn whose worker may die.
CONSTANTS
    v1 = v1  c1 = c1
    Viewers <- OneTab
    Calls <- OneCall
    NumChunks = 2
    Kinds <- BothKinds
    MaxCrashes = 1
    MaxDrops = 1
SPECIFICATION StreamSpec
CHECK_DEADLOCK FALSE
INVARIANTS OneEnd EndIsDurable NoEndMissed TextIsContiguous
PROPERTIES WatchersAnswered
