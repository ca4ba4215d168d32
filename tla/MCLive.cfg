SPECIFICATION FairSpec
CONSTANTS
    Absent = Absent
    NullObserver = NullObserver
    NoCaller = NoCaller
    Callers <- LiveCallers
    Pid <- LivePid
    Token <- LiveToken
    Tokens <- TheTokens
    TypeOfToken <- TheTypes
    Observers <- LiveObservers
    Masks <- QueryMasks
    Requests <- LiveRequests
    InitialPerms <- AllPerms
    Revocable <- Never
    PublishResults <- AlwaysFails
    BootThreads <- NoBoot
    slotSize_ = 1
    SIM_SLOT_COUNT = 1
PROPERTIES
    CallsReturn
    CatchesUp
