----------------------------- MODULE MCFrontEnds -----------------------------
(***************************************************************************)
(* Instances of FrontEnds for TLC: small applications, each with the calls *)
(* and the state changes that one question needs.                          *)
(***************************************************************************)
EXTENDS FrontEnds

On_(front, type, slotId, func) == [front |-> front, type |-> type, slotId |-> slotId, func |-> func]
Off_(front, type, func) == [front |-> front, type |-> type, func |-> func]
Update_(type, slotId, val) == [type |-> type, slotId |-> slotId, val |-> val]

App_(onSet, offSet, news, threads, n, maxOns, maxOffs, maxUpdates, maxFaults) ==
    [onCalls |-> onSet, offCalls |-> offSet, updates |-> news, threads |-> threads,
     simSlots |-> n, maxOns |-> maxOns, maxOffs |-> maxOffs, maxUpdates |-> maxUpdates, maxFaults |-> maxFaults]

\* Two functions for the calls of one slot, replayed at registration: what is
\* on the way, and what the EventRunner or a binder thread is at, when off comes.
Calls(front) ==
    App_({On_(front, "CALL_STATE", 0, f) : f \in Functions},
         {Off_(front, "CALL_STATE", "f")},
         {Update_("CALL_STATE", 0, CALL_STATUS_ACTIVE)}, AppThreads, 2, 2, 1, 1, 0)

\* Two slots in one off, with failures, the end of the service and another on;
\* a slot the device does not have.
Slots(front) ==
    App_({On_(front, "SIM_STATE", s, "f") : s \in {0, 1, 3}}, {Off_(front, "SIM_STATE", NoFunction)},
         {}, {"t1"}, 2, 3, 2, 0, 1)

\* Signals, without and with entries, and nobody to be told any more.
Signals(front) ==
    App_({On_(front, "SIGNAL_STRENGTHS", 0, "f")}, {Off_(front, "SIGNAL_STRENGTHS", "f")},
         {Update_("SIGNAL_STRENGTHS", 0, v) : v \in {EmptyList, 1}}, {"t1"}, 1, 1, 1, 2, 0)

\* icc events, which have no slot.
Icc(front) ==
    App_({On_(front, "ICC_ACCOUNT", 0, "f"), On_(front, "ICC_ACCOUNT", 1, "g")},
         {Off_(front, "ICC_ACCOUNT", "g")}, {Update_("ICC_ACCOUNT", 1, 1)}, {"t1"}, 2, 2, 1, 1, 0)

\* Both front ends listen to the calls of one slot.
Shared ==
    App_({On_("cj", "CALL_STATE", 0, "f"), On_("ani", "CALL_STATE", 0, "f")},
         {Off_("cj", "CALL_STATE", "f"), Off_("ani", "CALL_STATE", "f")},
         {Update_("CALL_STATE", 0, CALL_STATUS_ACTIVE)}, AppThreads, 1, 2, 1, 0, 0)

\* A device without SIM cards: Cangjie registers nothing and answers success,
\* ANI accepts slot 0.
NoCards(front) ==
    App_({On_(front, "SIM_STATE", 0, "f")}, {Off_(front, "SIM_STATE", "f")},
         {Update_("SIM_STATE", 0, 1)}, {"t1"}, 0, 2, 1, 1, 0)

TheApps ==
    UNION {{Calls(f), Slots(f), Signals(f), Icc(f), NoCards(f)} : f \in Fronts} \cup {Shared}

\* An active call, told by the ANI front end.
AniCalls == {Calls("ani")}

\* The same in the Cangjie front end, with an off while the call is on the way.
CjCalls == {Calls("cj")}
==============================================================================
