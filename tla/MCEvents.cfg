SPECIFICATION EventSpec
CONSTANTS
    Absent = Absent
    NullObserver = NullObserver
    NoCaller = NoCaller
    Callers <- EventCallers
    Pid <- EventPid
    Token <- EventToken
    Tokens <- TheTokens
    TypeOfToken <- TheTypes
    Observers <- TheObservers
    Masks <- EventMasks
    Requests <- EventRequests
    InitialPerms <- AllPerms
    Revocable <- EventRevocable
    PublishResults <- AlwaysFails
    BootThreads <- NoBoot
    slotSize_ = 2
    SIM_SLOT_COUNT = 1
INVARIANTS
    Converged
    UniqueRecords
PROPERTIES
    NumberNeedsCallLog
    NoneMissed
    ImplementsSubscriptions
