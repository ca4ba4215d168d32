SPECIFICATION Spec
CONSTANTS
    Absent = Absent
    NullObserver = NullObserver
    NoCaller = NoCaller
    Callers <- StartCallers
    Pid <- StartPid
    Token <- StartToken
    Tokens <- TheTokens
    TypeOfToken <- TheTypes
    Observers <- TheObservers
    Masks <- StartMasks
    Requests <- StartRequests
    InitialPerms <- AllPerms
    Revocable <- Never
    PublishResults <- Always
    BootThreads = {b1, b2}
    slotSize_ = 1
    SIM_SLOT_COUNT = 1
INVARIANTS
    TypeOK
    UnregisterIsFinal
    EventsFollowCache
    Exclusion
SYMMETRY BootSymmetry
PROPERTY StableWhileShared
CHECK_DEADLOCK FALSE
