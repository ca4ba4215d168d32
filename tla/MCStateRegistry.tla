--------------------------- MODULE MCStateRegistry ---------------------------
(***************************************************************************)
(* Small instances of StateRegistry for TLC.  Each .cfg picks one set of   *)
(* definitions below.                                                      *)
(***************************************************************************)
EXTENDS StateRegistryRefinement

Update(op, slot, val, num) ==
    [op |-> op, slot |-> slot, mask |-> {}, val |-> val, num |-> num, obs |-> NullObserver,
     isUpdate |-> FALSE, map |-> "simState_"]
Registration(op, slot, mask, obs, isUpdate) ==
    [op |-> op, slot |-> slot, mask |-> mask, val |-> 0, num |-> 0, obs |-> obs,
     isUpdate |-> isUpdate, map |-> "simState_"]
Register(slot, mask, obs) == Registration("Register", slot, mask, obs, TRUE)
RegisterQuietly(slot, mask, obs) == Registration("Register", slot, mask, obs, FALSE)
Unregister(slot, mask) == Registration("Unregister", slot, mask, NullObserver, FALSE)
Query(map, slot) ==
    [op |-> "Get", slot |-> slot, mask |-> {}, val |-> 0, num |-> 0, obs |-> NullObserver,
     isUpdate |-> FALSE, map |-> map]
Plain(op, val) == Update(op, ALL_SLOTS, val, 0)

TheTokens == {"tok_sys", "tok_app1", "tok_app2"}
TheTypes == [t \in TheTokens |->
                CASE t = "tok_sys" -> "native" [] t = "tok_app1" -> "system_app"
                  [] OTHER -> "normal_app"]
AllPerms == [t \in TheTokens |-> Permission]
TheObservers == {"o1", "o2", NullObserver}
NoBoot == {}
Always == {TRUE}
AlwaysFails == {FALSE}
Never == {}

-----------------------------------------------------------------------------
(* Start, stop and restart: the tasks of OnStart publish while calls without *)
(* a slot and for slot 0 are reported to a subscriber; queries and dumpsys   *)
(* come in between.                                                          *)
StartCallers == {"p", "a1", "system"}
StartPid == [c \in StartCallers |-> c]
StartToken == [c \in StartCallers |-> IF c = "a1" THEN "tok_app2" ELSE "tok_sys"]
StartMasks == {"CALL_STATE", "CALL_STATE_EX"}
StartRequests ==
    [c \in StartCallers |->
        CASE c = "p"  -> {Update("UpdateCallState", ALL_SLOTS, CALL_STATUS_ACTIVE, 1),
                          Update("UpdateCallStateForSlotId", 0, CALL_STATUS_IDLE, 2),
                          Update("UpdateCallStateForSlotId", 1, CALL_STATUS_IDLE, 0)}
          [] c = "a1" -> {RegisterQuietly(0, StartMasks, "o1"), Register(0, StartMasks, "o1"),
                           Unregister(0, StartMasks)}
          [] c = "system" -> {Plain("OnStart", 0), Plain("OnStop", 0), Plain("Dump", 0),
                              Plain("Dump", -1), Query("callState_", 1)}]

\* The tasks of OnStart are alike.
BootSymmetry == Permutations(BootThreads)

-----------------------------------------------------------------------------
(* Liveness: one producer, one subscriber, one query.                       *)
LiveCallers == {"p", "a1", "q"}
LivePid == [c \in LiveCallers |-> c]
LiveToken == [c \in LiveCallers |-> IF c = "a1" THEN "tok_app1" ELSE "tok_sys"]
LiveRequests ==
    [c \in LiveCallers |->
        CASE c = "p"  -> {Update("UpdateSimState", 0, v, 0) : v \in 1 .. 2}
          [] c = "a1" -> {Register(0, {"SIM_STATE"}, "o1"), Unregister(0, {"SIM_STATE"})}
          [] c = "q"  -> {Query("simState_", 0)}]
LiveObservers == {"o1", NullObserver}
QueryMasks == {"SIM_STATE"}

-----------------------------------------------------------------------------
(* A system application registers for the call state of a slot the product  *)
(* does not have; no call is ever reported.                                 *)
FirstMasks == {"CALL_STATE"}
FirstRequests ==
    [c \in LiveCallers |->
        IF c = "a1" THEN {Register(0, {"CALL_STATE"}, "o1"), Register(2, {"CALL_STATE"}, "o1")}
        ELSE {Query("callState_", 2)}]

-----------------------------------------------------------------------------
(* dumpsys next to a producer and a subscriber.                             *)
DumpRequests ==
    [c \in LiveCallers |-> IF c = "q" THEN {Plain("Dump", 0)} ELSE LiveRequests[c]]
=============================================================================
