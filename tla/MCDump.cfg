SPECIFICATION Spec
CONSTANTS
    Absent = Absent
    NullObserver = NullObserver
    NoCaller = NoCaller
    Callers <- LiveCallers
    Pid <- LivePid
    Token <- LiveToken
    Tokens <- TheTokens
    TypeOfToken <- TheTypes
    Observers <- TheObservers
    Masks <- QueryMasks
    Requests <- DumpRequests
    InitialPerms <- AllPerms
    Revocable <- Never
    PublishResults <- AlwaysFails
    BootThreads <- NoBoot
    slotSize_ = 1
    SIM_SLOT_COUNT = 1
INVARIANTS
    NoWaitOnOwnSharedLock
CHECK_DEADLOCK FALSE
