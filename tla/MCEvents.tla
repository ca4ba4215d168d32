------------------------------ MODULE MCEvents ------------------------------
(***************************************************************************)
(* StateRegistry for TLC: the events, in nine workloads.                   *)
(*   calls: a producer against two subscribers of the three call masks,    *)
(*     one of which loses and regains the right to read the call log;      *)
(*   calls_ex: the same with several call masks in one record;             *)
(*   data, flow: two slots with a producer each; an observer of slot 0 and *)
(*     of the default connection (999);                                    *)
(*   sim: two threads of one process race to register and unregister one   *)
(*     key with different observers;                                       *)
(*   lists: one registration for several bits next to a null observer,     *)
(*     null network states, and a producer that may lose CELL_LOCATION;    *)
(*   deaf: an observer registered for slot 0 and for 999, which is all     *)
(*     slots for data only, and for a slot that cannot be recorded;        *)
(*   indicators, services: the events with a system-application or         *)
(*     permission check, asked for by a system application and by an       *)
(*     ordinary one, which may lose its permission.                        *)
(***************************************************************************)
EXTENDS MCStateRegistry

EventCallers == {"p", "q", "a1", "a2", "a3"}
EventPid == [c \in EventCallers |-> IF c = "a2" THEN "a1" ELSE c]
EventToken == [c \in EventCallers |-> CASE c \in {"p", "q"} -> "tok_sys"
                                        [] c \in {"a1", "a2"} -> "tok_app1"
                                        [] c = "a3" -> "tok_app2"]
DataMasks == {"DATA_CONNECTION_STATE", "DATA_FLOW"}
SimMasks == {"SIM_STATE", "SIM_ACTIVE_STATE"}
ListMasks == {"SIGNAL_STRENGTHS", "NETWORK_STATE", "CELL_INFO"}
ServiceMasks == {"CFU_INDICATOR", "VOICE_MAIL_MSG_INDICATOR", "ICC_ACCOUNT", "VOIP_CALL_STATE"}
CallMasks == {"CALL_STATE", "CALL_STATE_EX", "CCALL_STATE"}
EventMasks == CallMasks \cup DataMasks \cup SimMasks \cup ListMasks \cup ServiceMasks

Nobody == [c \in EventCallers |-> {}]

Workloads ==
    [calls |->
        [Nobody EXCEPT
            !["p"] = {Update("UpdateCallStateForSlotId", 0, CALL_STATUS_ACTIVE, 1),
                      Update("UpdateCallStateForSlotId", 0, CALL_STATUS_IDLE, 2)},
            !["a1"] = {Register(0, {"CALL_STATE"}, "o1"), Unregister(0, {"CALL_STATE"})},
            !["a3"] = {Register(0, {"CCALL_STATE"}, "o2"), Unregister(0, {"CCALL_STATE"})}],
     calls_ex |->
        [Nobody EXCEPT
            !["p"] = {Update("UpdateCallStateForSlotId", 0, CALL_STATUS_ACTIVE, 1),
                      Update("UpdateCallState", ALL_SLOTS, CALL_STATUS_ACTIVE, 2)},
            !["a1"] = {Register(0, {"CALL_STATE", "CALL_STATE_EX"}, "o1"),
                       RegisterQuietly(ALL_SLOTS, {"CALL_STATE_EX", "CCALL_STATE"}, "o1")},
            !["a3"] = {RegisterQuietly(0, {"CALL_STATE_EX"}, "o2")}],
     data |->
        [Nobody EXCEPT
            !["p"] = {Update("UpdateCellularDataConnectState", 0, v, 0) : v \in 1 .. 2},
            !["q"] = {Update("UpdateCellularDataConnectState", 1, 1, 0)},
            !["a1"] = {Register(0, {"DATA_CONNECTION_STATE"}, "o1"),
                       Unregister(0, {"DATA_CONNECTION_STATE"}),
                       RegisterQuietly(999, DataMasks, "o1"), Unregister(999, DataMasks)}],
     flow |->
        [Nobody EXCEPT
            !["p"] = {Update("UpdateCellularDataConnectState", 0, 1, 0)},
            !["q"] = {Update("UpdateCellularDataFlow", 1, v, 0) : v \in 1 .. 2},
            !["a1"] = {RegisterQuietly(999, DataMasks, "o1"), Unregister(999, DataMasks)}],
     sim |->
        [Nobody EXCEPT
            !["p"] = {Update("UpdateSimState", 0, 1, 0), Update("UpdateSimState", 0, 2, 0),
                      Update("UpdateSimActiveState", 0, 1, 0)},
            !["a1"] = {Register(0, {"SIM_STATE"}, "o1"), Unregister(0, {"SIM_STATE"})},
            !["a2"] = {Register(0, {"SIM_STATE"}, "o2"), Unregister(0, {"SIM_STATE"}),
                       Register(0, SimMasks, "o2")}],
     lists |->
        [Nobody EXCEPT
            !["p"] = {Update("UpdateSignalInfo", 0, 1, 0), Update("UpdateCellInfo", 0, 1, 0),
                      Update("UpdateNetworkState", 0, 1, 0), Update("UpdateNetworkState", 0, Null, 0)},
            !["a1"] = {Register(0, ListMasks, "o1"), Unregister(0, ListMasks)},
            !["a2"] = {Register(0, {"NETWORK_STATE"}, NullObserver)}],
     deaf |->
        [Nobody EXCEPT
            !["p"] = {Update("UpdateSignalInfo", 0, v, 0) : v \in 1 .. 2},
            !["a1"] = {Register(0, {"SIGNAL_STRENGTHS"}, "o1"), Unregister(0, {"SIGNAL_STRENGTHS"}),
                       RegisterQuietly(999, {"SIGNAL_STRENGTHS"}, "o1"),
                       Unregister(999, {"SIGNAL_STRENGTHS"}),
                       Register(5, {"SIGNAL_STRENGTHS"}, "o1")}],
     indicators |->
        [Nobody EXCEPT
            !["p"] = {Update("UpdateCfuIndicator", 0, 1, 0),
                      Update("UpdateVoiceMailMsgIndicator", 0, 1, 0)},
            !["a1"] = {RegisterQuietly(0, {"CFU_INDICATOR", "VOICE_MAIL_MSG_INDICATOR"}, "o1"),
                       Unregister(0, {"CFU_INDICATOR", "VOICE_MAIL_MSG_INDICATOR"})},
            !["a3"] = {Register(0, {"CFU_INDICATOR"}, "o2")}],
     services |->
        [Nobody EXCEPT
            !["p"] = {Plain("UpdateIccAccount", 0), Plain("UpdateVoIPCallState", 1)},
            !["a1"] = {Register(0, {"ICC_ACCOUNT"}, "o1"), Unregister(0, {"ICC_ACCOUNT"})},
            !["a3"] = {Register(0, {"VOIP_CALL_STATE", "ICC_ACCOUNT"}, "o2")}]]

EventRequests == [c \in EventCallers |-> UNION {Workloads[w][c] : w \in DOMAIN Workloads}]
EventRevocable ==
    {<<"tok_app1", "READ_CALL_LOG">>, <<"tok_sys", "CELL_LOCATION">>,
     <<"tok_app2", "MANAGE_CALL_FOR_DEVICES">>}

\* Bound: one workload to a behaviour, chosen at the start, and with it the
\* permission that may be revoked.
VARIABLE workload

EventSpec ==
    /\ Init /\ workload \in DOMAIN Workloads
    /\ [][/\ Next
          /\ UNCHANGED workload
          /\ \A c \in Callers : req'[c] \in {req[c], Absent} \cup Workloads[workload][c]
          /\ workload # "calls" => UNCHANGED perms["tok_app1"]
          /\ workload # "lists" => UNCHANGED perms["tok_sys"]
          /\ workload \notin {"indicators", "services"} => UNCHANGED perms["tok_app2"]]_<<vars, workload>>
=============================================================================
