CONSTANTS
    Envs = {e1, e2}
    Callbacks = {"f", "g"}
    Apps <- SafetyApps
    AppToken = "system_app"
    MaxOns = 4
SPECIFICATION Spec
CHECK_DEADLOCK FALSE
SYMMETRY EnvSymmetry
INVARIANTS
    TypeOK
    RefsHaveOneOwner
    EveryListenerRecorded
    NoStrayRecord
    NoLockWhileCalling
PROPERTY NoCallAfterOff
