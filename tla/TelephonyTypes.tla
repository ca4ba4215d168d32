--------------------------- MODULE TelephonyTypes ---------------------------
(***************************************************************************)
(* The vocabulary the service and its clients share: slots, observer       *)
(* masks, permissions, return codes, and the pure checks that              *)
(* TelephonyStateRegistryService makes on them before it takes lock_.      *)
(*                                                                         *)
(* An observer mask (a uint32_t of OBSERVER_MASK_* bits) is the set of its *)
(* bits.  A call status, a SIM state, a signal list, a number... is an     *)
(* integer; 0 is what a C++ map inserts for it when operator[] meets a     *)
(* missing key: the enumerator 0, FALSE, the empty list, the empty number  *)
(* or the null pointer.                                                    *)
(***************************************************************************)
EXTENDS Integers

MAX_SLOT_COUNT == 3

\* SIM_SLOT_ID_FOR_DEFAULT_CONN_EVENT: "observe all slots" of the data events.
SIM_SLOT_ID_FOR_DEFAULT_CONN_EVENT == 999

\* The key of the call state that is not bound to a slot.
ALL_SLOTS == -1

CALL_STATUS_UNKNOWN == -1
CALL_STATUS_ACTIVE == 0
CALL_STATUS_ALERTING == 3
CALL_STATUS_INCOMING == 4
CALL_STATUS_WAITING == 5
CALL_STATUS_DISCONNECTED == 6
CALL_STATUS_IDLE == 8
CALL_STATUS_ANSWERED == 9

NoNumber == 0
Null == 0

\* The bits an observer mask is made of.
ObserverMask ==
    {"CALL_STATE", "CALL_STATE_EX", "CCALL_STATE", "SIM_STATE", "SIGNAL_STRENGTHS",
     "NETWORK_STATE", "CELL_INFO", "DATA_CONNECTION_STATE", "DATA_FLOW", "CFU_INDICATOR",
     "VOICE_MAIL_MSG_INDICATOR", "ICC_ACCOUNT", "SIM_ACTIVE_STATE", "VOIP_CALL_STATE"}

\* The events an observer may ask about for all slots at once.
DataBits == {"DATA_CONNECTION_STATE", "DATA_FLOW"}

Permission ==
    {"SET_TELEPHONY_STATE", "GET_NETWORK_INFO", "CELL_LOCATION", "READ_CALL_LOG",
     "MANAGE_CALL_FOR_DEVICES"}

\* What the access-token service says of a token: a native service, the shell,
\* an application of the system, any other application.
TokenType == {"native", "shell", "system_app", "normal_app"}

-----------------------------------------------------------------------------
(* Return codes; only their being different matters. *)

TELEPHONY_SUCCESS == 0
TELEPHONY_ERROR == -1
TELEPHONY_ERR_FAIL == -2
TELEPHONY_ERR_ILLEGAL_USE_OF_SYSTEM_API == -3
TELEPHONY_STATE_REGISTRY_PERMISSION_DENIED == -4
TELEPHONY_STATE_REGISTRY_SLODID_ERROR == -5
TELEPHONY_STATE_REGISTRY_DATA_NOT_EXIST == -6
TELEPHONY_STATE_UNREGISTRY_DATA_NOT_EXIST == -7

-----------------------------------------------------------------------------
(* The checks that precede lock_. *)

\* UpdateXxx accepts the slots the product has.
VerifySlotId(slotId, slotSize) == slotId >= 0 /\ slotId < slotSize

\* TelephonyPermission::CheckCallerIsSystemApp: only applications can fail it.
CallerIsSystemApp(type) == type # "normal_app"

CheckCallerIsSystemApp(mask, type) ==
    mask \cap {"CELL_INFO", "CFU_INDICATOR", "VOICE_MAIL_MSG_INDICATOR"} # {}
        => CallerIsSystemApp(type)

\* The permission each bit of a mask asks of the caller.
NeededFor ==
    [bit \in ObserverMask |->
        CASE bit = "NETWORK_STATE"    -> {"GET_NETWORK_INFO"}
          [] bit = "CELL_INFO"        -> {"CELL_LOCATION"}
          [] bit = "CCALL_STATE"      -> {"MANAGE_CALL_FOR_DEVICES"}
          [] bit = "SIM_ACTIVE_STATE" -> {"SET_TELEPHONY_STATE"}
          [] bit = "VOIP_CALL_STATE"  -> {"MANAGE_CALL_FOR_DEVICES"}
          [] OTHER                    -> {}]

CheckPermission(mask, granted) == \A bit \in mask : NeededFor[bit] \subseteq granted

IsMultiSimsCapabilitySupported(slotId, type) ==
    slotId < MAX_SLOT_COUNT \/ type \in {"native", "shell", "system_app"}

\* The slots a record may carry.  Any other slot is answered with success and
\* dropped.
RecordSlot == (-1 .. MAX_SLOT_COUNT + 1) \cup {SIM_SLOT_ID_FOR_DEFAULT_CONN_EVENT}

SlotIsRecorded(slotId, type) ==
    IsMultiSimsCapabilitySupported(slotId, type) /\ slotId \in RecordSlot
=============================================================================
