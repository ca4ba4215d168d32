CONSTANTS
    SignalTypes = {1, 5}
    CellTypes = {1, 6}
    OtherTypes = {4}
    Bodies = {1, 9}
    MAX_SIGNAL_NUM = 2
    MAX_CELL_NUM = 2
    SIGNAL_NUM_MAX = 3
    CELL_NUM_MAX = 3
    Scalars = {0, 1}
    VOIP_CALL_STATE_MAX = 8
    MaxReports = 2
SPECIFICATION Spec
CHECK_DEADLOCK FALSE
INVARIANTS ObserverAgreesWithService ListsArriveWhole
