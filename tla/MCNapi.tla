------------------------------- MODULE MCNapi -------------------------------
(***************************************************************************)
(* Instances of NapiListeners for TLC: small applications, each with the   *)
(* on and off calls and the state changes that one question needs.         *)
(***************************************************************************)
EXTENDS NapiListeners

On_(type, slotId, callback) == [api |-> "on", type |-> type, slotId |-> slotId, callback |-> callback]
Off_(type, callback) == [api |-> "off", type |-> type, callback |-> callback]
Update_(type, slotId) == [type |-> type, slotId |-> slotId]

\* Two envs listen to the signal of the same slots, so that one off frees two
\* keys, one or none, and to icc events, so that the end of an env has several
\* keys to remove in one slot; slot -1 is refused.
SharedOns == {On_("SIGNAL_STRENGTHS", 0, "f"), On_("SIGNAL_STRENGTHS", 1, "f"),
              On_("ICC_ACCOUNT", 0, "f"), On_("ICC_ACCOUNT", -1, "f")}
SharedOffs == {Off_("SIGNAL_STRENGTHS", "f"), Off_("ICC_ACCOUNT", NoCallback)}

\* One key with two functions, replayed at registration, and off with and
\* without a function: what is on the way when off comes.
SimOns == {On_("SIM_STATE", 0, "f"), On_("SIM_STATE", 0, "g")}
SimOffs == {Off_("SIM_STATE", "f"), Off_("SIM_STATE", NoCallback)}
SimUpdates == {Update_("SIM_STATE", 0)}

\* The data events of the default slot and of slot 0.
DataOns == {On_("DATA_FLOW", NoSlot, "f"), On_("DATA_FLOW", 0, "g")}
DataOffs == {Off_("DATA_FLOW", "f")}
DataUpdates == {Update_("DATA_FLOW", 0), Update_("DATA_FLOW", 1)}

\* icc and VoIP events, which reach listeners of every slot or of none.
IccOns == {On_("ICC_ACCOUNT", 0, "f"), On_("ICC_ACCOUNT", 1, "g"),
           [api |-> "onVoIPStateChange", type |-> "VOIP_CALL_STATE", slotId |-> NoSlot, callback |-> "f"]}
IccOffs == {[api |-> "offVoIPStateChange", type |-> "VOIP_CALL_STATE", callback |-> "g"]}
IccUpdates == {Update_("ICC_ACCOUNT", 1), Update_("VOIP_CALL_STATE", 0)}

\* Call events, whose slot depends on the entry point, on a device without SIM
\* cards.
CallOns == {On_("CCALL_STATE", NoSlot, "f"),
            [api |-> "onCCallStateChange", type |-> "CCALL_STATE", slotId |-> NoSlot, callback |-> "g"],
            On_("CALL_STATE", NoSlot, "f"),
            On_("SIM_STATE", NoSlot, "f")}
CallOffs == {[api |-> "offCCallStateChange", type |-> "CCALL_STATE", callback |-> "f"]}
CallUpdates == {Update_("CCALL_STATE", 0), Update_("CCALL_STATE", -1)}

\* An application, on a device with n SIM slots, and the bounds on what happens.
App_(onSet, offSet, news, n, dataSlots, envs, maxOns, maxOffs, maxUpdates, maxSwitches, maxFaults) ==
    [onCalls |-> onSet, offCalls |-> offSet, updates |-> news, simSlots |-> n,
     dataSlots |-> dataSlots, envs |-> envs, maxOns |-> maxOns, maxOffs |-> maxOffs,
     maxUpdates |-> maxUpdates, maxSwitches |-> maxSwitches, maxFaults |-> maxFaults]

\* For safety: two envs, and things fail.
SafetyApps ==
    {App_(SharedOns, SharedOffs, {}, 2, {0}, 2, 4, 2, 0, 0, 1),
     App_(SimOns, SimOffs, SimUpdates, 2, {0}, 2, 2, 2, 1, 0, 1),
     App_(CallOns, CallOffs, CallUpdates, 0, {0}, 2, 2, 1, 1, 0, 0)}

\* For liveness: nothing fails.
LiveApps ==
    {App_(SimOns, SimOffs, SimUpdates, 2, {0}, 1, 2, 1, 1, 0, 0),
     App_(DataOns, DataOffs, DataUpdates, 2, {0, 1}, 1, 2, 1, 1, 1, 0),
     App_(IccOns, IccOffs, IccUpdates, 2, {0}, 2, 2, 1, 1, 0, 0)}

EnvSymmetry == Permutations(Envs)
=============================================================================
