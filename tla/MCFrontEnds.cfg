CONSTANTS
    AppThreads = {"t1", "t2"}
    EventRunner = "runner"
    Functions = {"f", "g"}
    Apps <- TheApps
    AppToken = "system_app"
    MaxOns = 3
SPECIFICATION FairSpec
CHECK_DEADLOCK FALSE
INVARIANTS
    TypeOK
    ListenersRecorded
    CjRemovesEachSlot
    AniLeftoversReported
    CjOffInFunctionIsFinal
PROPERTIES
    AniOffIsFinal
    HeardOnce
    FrontEndCallsReturn
    EventsReachFunctions
