CONSTANTS
    AppThreads = {"t1", "t2"}
    EventRunner = "runner"
    Functions = {"f", "g"}
    Apps <- CjCalls
    AppToken = "system_app"
    MaxOns = 3
SPECIFICATION Spec
CHECK_DEADLOCK FALSE
PROPERTY CjNoCallAfterOff
