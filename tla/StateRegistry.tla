---------------------------- MODULE StateRegistry ----------------------------
(***************************************************************************)
(* TelephonyStateRegistryService: one cache of telephony state per slot    *)
(* and one table of observers, both guarded by the shared mutex lock_.     *)
(*                                                                         *)
(* A caller is a client thread inside a synchronous call; the binder       *)
(* thread that serves it is its program counter:                           *)
(*                                                                         *)
(*   idle -> lock -> drain -> unique -> share -> notify ... -> returned    *)
(*                                                                         *)
(* lock/drain/unique is std::unique_lock: lock, then wait with the         *)
(* "write entered" flag of std::shared_mutex set until the readers have    *)
(* left, then hold.  share/notify is std::shared_lock and the loop over    *)
(* stateRecords_.  UpdateXxx gives lock_ up between the two.               *)
(*                                                                         *)
(* Callbacks go out one-way and in order on each observer's binder node,   *)
(* so the model keeps for every observer the last value it was sent.  That *)
(* is so for observers in other processes.  One in the service's own       *)
(* process is called directly, under lock_, and calls that it makes there  *)
(* wait for the lock its thread holds: docs/agents/boundaries.md tells     *)
(* observers not to do that, and the model has no observer that does.      *)
(***************************************************************************)
EXTENDS TelephonyTypes, Sequences, FiniteSets, SequencesExt

CONSTANTS
    Callers,        \* client threads (producers, subscribers, dumpsys, samgr)
    Pid,            \* [Callers -> process id]
    Token,          \* [Callers -> access token]
    Tokens,         \* the access tokens
    TypeOfToken,    \* [Tokens -> TokenType]
    Observers,      \* observer objects, NullObserver among them or not
    Masks,          \* the mask bits of this instance
    Requests,       \* [Callers -> the requests that caller may make]
    InitialPerms,   \* [Tokens -> permissions granted at boot]
    Revocable,      \* pairs <<token, permission>> the user may toggle
    PublishResults, \* what CommonEventManager::PublishCommonEvent may answer
    BootThreads,    \* bound: how many times OnStart may start its task
    slotSize_,      \* slots of the product; 0 is a Wi-Fi-only product
    SIM_SLOT_COUNT, \* slots dumpsys asks about
    Absent,         \* "no such key in the map" / "never sent"
    NullObserver,   \* a null sptr<TelephonyObserverBroker>
    NoCaller

\* The maps of the service.  The three SIM maps are always written, read and
\* default-inserted together, and so are the two data-connection maps.
CacheMap ==
    {"callState_", "callIncomingNumber_", "simState_", "signalInfos_", "searchNetworkState_",
     "cellInfos_", "cellularDataConnectionState_", "cellularDataFlow_", "cfuResult_",
     "voiceMailMsgResult_", "simActiveResult_"}

Topic ==
    {"CALL_STATE_CHANGED", "CALL_STATE_CHANGED_WITH_NUMBER", "CELLULAR_DATA_STATE_CHANGED",
     "SIM_STATE_CHANGED", "SIGNAL_INFO_CHANGED", "NETWORK_STATE_CHANGED"}

\* The call state goes out twice: without the number, and with it for those
\* subscribers that may read the call log.
CallTopics == {"CALL_STATE_CHANGED", "CALL_STATE_CHANGED_WITH_NUMBER"}

\* What one UpdateXxx handler does: does it verify the slot, which permissions
\* it asks for, which maps it writes, which mask bits it tries in which order,
\* which records' slots match, and the common events it ends with.
Handler(verify, needs, maps, masks, scope, topics) ==
    [verify |-> verify, needs |-> needs, maps |-> maps, masks |-> masks,
     scope |-> scope, topics |-> topics]

SetState == {"SET_TELEPHONY_STATE"}

UpdateCellularDataConnectState ==
    Handler(TRUE, SetState, {"cellularDataConnectionState_"}, <<"DATA_CONNECTION_STATE">>,
            "same_or_default", {"CELLULAR_DATA_STATE_CHANGED"})
UpdateCellularDataFlow ==
    Handler(TRUE, SetState, {"cellularDataFlow_"}, <<"DATA_FLOW">>, "same_or_default", {})
UpdateCallState ==
    Handler(FALSE, SetState, {"callState_", "callIncomingNumber_"},
            <<"CALL_STATE", "CALL_STATE_EX", "CCALL_STATE">>, "same", CallTopics)
UpdateCallStateForSlotId_NumberNotStored ==
    Handler(TRUE, SetState, {"callState_"},
            <<"CALL_STATE", "CALL_STATE_EX", "CCALL_STATE">>, "same", CallTopics)
UpdateCallStateForSlotId ==
    Handler(TRUE, SetState, {"callState_", "callIncomingNumber_"},
            <<"CALL_STATE", "CALL_STATE_EX", "CCALL_STATE">>, "same", CallTopics)

UpdateSimState ==
    Handler(TRUE, SetState, {"simState_"}, <<"SIM_STATE">>, "same", {"SIM_STATE_CHANGED"})
UpdateSignalInfo ==
    Handler(TRUE, SetState, {"signalInfos_"}, <<"SIGNAL_STRENGTHS">>, "same",
            {"SIGNAL_INFO_CHANGED"})
UpdateCellInfo ==
    Handler(TRUE, SetState \cup {"CELL_LOCATION"}, {"cellInfos_"}, <<"CELL_INFO">>, "same", {})
UpdateNetworkState ==
    Handler(TRUE, SetState, {"searchNetworkState_"}, <<"NETWORK_STATE">>, "same",
            {"NETWORK_STATE_CHANGED"})
UpdateCfuIndicator ==
    Handler(TRUE, SetState, {"cfuResult_"}, <<"CFU_INDICATOR">>, "same", {})
UpdateIccAccount ==
    Handler(FALSE, SetState, {}, <<"ICC_ACCOUNT">>, "any", {})
UpdateVoiceMailMsgIndicator ==
    Handler(TRUE, SetState, {"voiceMailMsgResult_"}, <<"VOICE_MAIL_MSG_INDICATOR">>, "same",
            {})
UpdateSimActiveState ==
    Handler(TRUE, SetState, {"simActiveResult_"}, <<"SIM_ACTIVE_STATE">>, "same", {})
UpdateVoIPCallState ==
    Handler(FALSE, SetState, {}, <<"VOIP_CALL_STATE">>, "any", {})

Handlers ==
    [UpdateCellularDataConnectState |-> UpdateCellularDataConnectState,
     UpdateCellularDataFlow |-> UpdateCellularDataFlow,
     UpdateCallState |-> UpdateCallState,
     UpdateCallStateForSlotId |-> UpdateCallStateForSlotId,
     UpdateSimState |-> UpdateSimState,
     UpdateSignalInfo |-> UpdateSignalInfo,
     UpdateCellInfo |-> UpdateCellInfo,
     UpdateNetworkState |-> UpdateNetworkState,
     UpdateCfuIndicator |-> UpdateCfuIndicator,
     UpdateIccAccount |-> UpdateIccAccount,
     UpdateVoiceMailMsgIndicator |-> UpdateVoiceMailMsgIndicator,
     UpdateSimActiveState |-> UpdateSimActiveState,
     UpdateVoIPCallState |-> UpdateVoIPCallState]

UpdateOp == DOMAIN Handlers
Op == UpdateOp \cup {"Register", "Unregister", "Get", "Dump", "OnStart", "OnStop"}

\* A request and its arguments.  slot is ALL_SLOTS for the updates that have no
\* slot argument; map is the map a GetXxx query reads.
Request ==
    [op : Op, slot : Int, mask : SUBSET Masks, val : Int, num : Int, obs : Observers,
     isUpdate : BOOLEAN, map : CacheMap]

Record ==
    [slotId_ : RecordSlot, mask_ : SUBSET Masks, tokenId_ : Tokens, pid_ : {Pid[c] : c \in Callers},
     telephonyObserver_ : Observers]

Sent == [val : Int, num : Int]

ASSUME ConstantsAssumption ==
    /\ slotSize_ \in 0 .. MAX_SLOT_COUNT + 2
    /\ SIM_SLOT_COUNT \in Nat
    /\ Token \in [Callers -> Tokens]
    /\ TypeOfToken \in [Tokens -> TokenType]
    /\ InitialPerms \in [Tokens -> SUBSET Permission]
    /\ Revocable \subseteq Tokens \X Permission
    /\ PublishResults \subseteq BOOLEAN
    /\ Masks \subseteq ObserverMask
    /\ NoCaller \notin Callers
    /\ Absent \notin Int
    /\ Absent \notin Sent

ASSUME RequestsAssumption ==
    /\ Requests \in [Callers -> SUBSET Request]
    /\ \A c \in Callers : \A q \in Requests[c] :
          /\ q.op \in {"UpdateCallState", "UpdateIccAccount", "UpdateVoIPCallState"}
                 => q.slot = ALL_SLOTS
          /\ q.op = "Get" => q.slot \in RecordSlot

-----------------------------------------------------------------------------
VARIABLES
    state_,         \* ServiceRunningState
    boot,           \* [BootThreads -> next slot OnStart's task publishes; -1: not started]
    lastEvent,      \* [Topic -> [slot -> last common event published, and by whom]]
    stateRecords_,  \* the table of observers, a vector
    cache,          \* [CacheMap -> [key -> value or Absent]]
    told,           \* [Observers -> [bit -> [slot -> last callback sent or Absent]]]
    perms,          \* [Tokens -> permissions granted now]
    writer,         \* who has set "write entered" of lock_, NoCaller if nobody
    readers,        \* who holds lock_ shared
    pc, req,        \* where each caller's call is, and its request
    idx, notified,  \* the loop index, and the records called back in this loop
    ret             \* what the call returned

data == <<stateRecords_, cache, told>>
lock_ == <<writer, readers>>
start == <<state_, boot, lastEvent>>
local == <<idx, notified, ret>>
vars == <<state_, boot, lastEvent, stateRecords_, cache, told, perms, writer, readers, pc, req,
          idx, notified, ret>>

PC == {"idle", "lock", "drain", "unique", "share", "notify", "query", "dump", "relock",
       "returned"}

Event == [val : Int, num : Int, by : {"update", "boot"}]

\* The variables have the types of the members they stand for; in particular
\* no observer is sent the absence of a value.
TypeOK ==
    /\ state_ \in {"RUNNING", "STOPPED"}
    /\ boot \in [BootThreads -> -1 .. slotSize_]
    /\ lastEvent \in [Topic -> [RecordSlot -> Event \cup {Absent}]]
    /\ stateRecords_ \in Seq(Record)
    /\ cache \in [CacheMap -> [RecordSlot -> Int \cup {Absent}]]
    /\ told \in [Observers -> [Masks -> [RecordSlot -> Sent \cup {Absent}]]]
    /\ perms \in [Tokens -> SUBSET Permission]
    /\ writer \in Callers \cup {NoCaller}
    /\ readers \in SUBSET Callers
    /\ pc \in [Callers -> PC]
    /\ req \in [Callers -> Request \cup {Absent}]
    /\ idx \in [Callers -> Nat]
    /\ notified \in [Callers -> SUBSET Nat]
    /\ ret \in [Callers -> Int]

\* The constructor: a call status for every slot the product has (slot 0 on a
\* Wi-Fi-only one) and for "no slot"; every other map is empty.
InitialCallState ==
    [k \in RecordSlot |->
        IF k = ALL_SLOTS \/ VerifySlotId(k, slotSize_) \/ (slotSize_ = 0 /\ k = 0)
        THEN CALL_STATUS_UNKNOWN ELSE Absent]

Init ==
    /\ state_ = "STOPPED"
    /\ boot = [b \in BootThreads |-> -1]
    /\ lastEvent = [t \in Topic |-> [k \in RecordSlot |-> Absent]]
    /\ stateRecords_ = <<>>
    /\ cache = [m \in CacheMap |->
                   IF m = "callState_" THEN InitialCallState
                                       ELSE [k \in RecordSlot |-> Absent]]
    /\ told = [o \in Observers |-> [bit \in Masks |-> [k \in RecordSlot |-> Absent]]]
    /\ perms = InitialPerms
    /\ writer = NoCaller
    /\ readers = {}
    /\ pc = [c \in Callers |-> "idle"]
    /\ req = [c \in Callers |-> Absent]
    /\ idx = [c \in Callers |-> 0]
    /\ notified = [c \in Callers |-> {}]
    /\ ret = [c \in Callers |-> TELEPHONY_SUCCESS]

-----------------------------------------------------------------------------
(* A call arrives: the checks before lock_, on the caller's own token. *)

Granted(c) == perms[Token[c]]
Type(c) == TypeOfToken[Token[c]]

Goto(c, p) == pc' = [pc EXCEPT ![c] = p]

Return(c, code) ==
    /\ Goto(c, "returned")
    /\ ret' = [ret EXCEPT ![c] = code]

\* An early return: nothing but the answer changes.
Reject(c, code) ==
    /\ Return(c, code)
    /\ UNCHANGED <<start, data, perms, lock_, idx, notified>>

Accept(c, p) ==
    /\ Goto(c, p)
    /\ UNCHANGED <<start, data, perms, lock_, local>>

BeginUpdate(c, q) ==
    LET h == Handlers[q.op]
        slotOk == h.verify => VerifySlotId(q.slot, slotSize_)
        allowed == h.needs \subseteq Granted(c)
    IN \/ /\ ~slotOk
          /\ Reject(c, TELEPHONY_STATE_REGISTRY_SLODID_ERROR)
       \/ /\ slotOk /\ ~allowed
          /\ Reject(c, TELEPHONY_STATE_REGISTRY_PERMISSION_DENIED)
       \/ /\ slotOk /\ allowed
          /\ Accept(c, IF h.maps = {} THEN "share" ELSE "lock")

\* The two checks RegisterStateChange and UnregisterStateChange begin with.
RejectObserver(c, q) ==
    \/ /\ ~CheckCallerIsSystemApp(q.mask, Type(c))
       /\ Reject(c, TELEPHONY_ERR_ILLEGAL_USE_OF_SYSTEM_API)
    \/ /\ CheckCallerIsSystemApp(q.mask, Type(c))
       /\ ~CheckPermission(q.mask, Granted(c))
       /\ Reject(c, TELEPHONY_STATE_REGISTRY_PERMISSION_DENIED)

ObserverAllowed(c, q) ==
    CheckCallerIsSystemApp(q.mask, Type(c)) /\ CheckPermission(q.mask, Granted(c))

\* A slot that cannot be recorded is answered with success and dropped.
BeginRegister(c, q) ==
    \/ RejectObserver(c, q)
    \/ /\ ObserverAllowed(c, q) /\ ~SlotIsRecorded(q.slot, Type(c))
       /\ Reject(c, TELEPHONY_SUCCESS)
    \/ /\ ObserverAllowed(c, q) /\ SlotIsRecorded(q.slot, Type(c))
       /\ Accept(c, "lock")

BeginUnregister(c, q) ==
    \/ RejectObserver(c, q)
    \/ ObserverAllowed(c, q) /\ Accept(c, "lock")

\* Every query takes lock_ shared.
BeginGet_Unlocked(c, q) == Accept(c, "query")
BeginGet(c, q) == Accept(c, "share")

\* Dump refuses a negative file descriptor.
BeginDump(c, q) ==
    \/ q.val < 0 /\ Reject(c, TELEPHONY_ERR_FAIL)
    \/ q.val >= 0 /\ Accept(c, "share")

Call(c) ==
    /\ pc[c] = "idle"
    /\ \E q \in Requests[c] :
          /\ req' = [req EXCEPT ![c] = q]
          /\ \/ q.op \in UpdateOp /\ BeginUpdate(c, q)
             \/ q.op = "Register" /\ BeginRegister(c, q)
             \/ q.op = "Unregister" /\ BeginUnregister(c, q)
             \/ q.op = "Get" /\ BeginGet(c, q)
             \/ q.op = "Dump" /\ BeginDump(c, q)
             \/ q.op = "OnStart" /\ (\E b \in BootThreads : boot[b] = -1) /\ Accept(c, "lock")
             \/ q.op = "OnStop" /\ Accept(c, "lock")

\* The client takes the answer and may call again.
Reply(c) ==
    /\ pc[c] = "returned"
    /\ Goto(c, "idle")
    /\ req' = [req EXCEPT ![c] = Absent]
    /\ ret' = [ret EXCEPT ![c] = TELEPHONY_SUCCESS]
    /\ idx' = [idx EXCEPT ![c] = 0]
    /\ notified' = [notified EXCEPT ![c] = {}]
    /\ UNCHANGED <<start, data, perms, lock_>>

-----------------------------------------------------------------------------
(* std::shared_mutex: a writer that waits already keeps new readers out.    *)

\* unique_lock, first gate: set "write entered" when no writer has.
LockUnique(c) ==
    /\ pc[c] = "lock"
    /\ writer = NoCaller
    /\ writer' = c
    /\ Goto(c, "drain")
    /\ UNCHANGED <<start, data, perms, readers, req, local>>

\* unique_lock, second gate: the readers have left.
Drained(c) ==
    /\ pc[c] = "drain"
    /\ readers = {}
    /\ Goto(c, "unique")
    /\ UNCHANGED <<start, data, perms, lock_, req, local>>

UnlockUnique_Missing == UNCHANGED lock_
UnlockUnique == writer' = NoCaller /\ UNCHANGED readers

\* shared_lock, and where the holder goes on.
LockShared(c) ==
    /\ pc[c] = "share"
    /\ writer = NoCaller
    /\ readers' = readers \cup {c}
    /\ CASE req[c].op = "Get"  -> Goto(c, "query") /\ idx' = idx
         [] req[c].op = "Dump" -> Goto(c, "dump") /\ idx' = idx
         [] OTHER              -> Goto(c, "notify") /\ idx' = [idx EXCEPT ![c] = 1]
    /\ UNCHANGED <<start, data, perms, writer, req, notified, ret>>

UnlockShared(c) == readers' = readers \ {c} /\ UNCHANGED writer

-----------------------------------------------------------------------------
(* Reading a map with operator[]: a missing key reads 0 and is inserted.    *)

Value_NoDefault(m, k) == cache[m][k]
Value(m, k) == IF cache[m][k] = Absent THEN 0 ELSE cache[m][k]

Inserted(maps, k) ==
    [m \in CacheMap |->
        IF m \in maps /\ cache[m][k] = Absent THEN [cache[m] EXCEPT ![k] = 0] ELSE cache[m]]

(* TelephonyStateRegistryRecord: the permissions are those of the record's  *)
(* token at the moment of the callback.                                     *)

IsExistStateListener(r, bit) == r.telephonyObserver_ # NullObserver /\ bit \in r.mask_
IsCanReadCallHistory(r) == "READ_CALL_LOG" \in perms[r.tokenId_]
CanManageCallForDevices(r) == "MANAGE_CALL_FOR_DEVICES" \in perms[r.tokenId_]

\* OnXxxUpdated(k, s.val, s.num) on observer o.
Tell(o, bit, k, s) == told' = [told EXCEPT ![o][bit][k] = s]

-----------------------------------------------------------------------------
(* UpdateXxx: write the maps under the unique lock, let go of it, walk the  *)
(* records under the shared lock, publish the common event, return.         *)

\* What the handler stores under its slot in map m.
Written(m, q) == IF m = "callIncomingNumber_" THEN q.num ELSE q.val

WriteCache(c) ==
    /\ pc[c] = "unique"
    /\ req[c].op \in UpdateOp
    /\ cache' = [m \in CacheMap |->
                    IF m \in Handlers[req[c].op].maps
                    THEN [cache[m] EXCEPT ![req[c].slot] = Written(m, req[c])]
                    ELSE cache[m]]
    /\ UnlockUnique
    /\ Goto(c, "share")
    /\ UNCHANGED <<start, stateRecords_, told, perms, req, local>>

\* The bit of r that the handler's if / else-if chain stops at, if any.
Branch(h, r) ==
    {h.masks[i] : i \in {j \in DOMAIN h.masks :
                            /\ IsExistStateListener(r, h.masks[j])
                            /\ \A n \in 1 .. j - 1 : ~IsExistStateListener(r, h.masks[n])}}

SlotMatches_NoDefault(scope, slotId, r) == scope = "any" \/ r.slotId_ = slotId
SlotMatches(scope, slotId, r) ==
    \/ scope = "any"
    \/ r.slotId_ = slotId
    \/ scope = "same_or_default" /\ r.slotId_ = SIM_SLOT_ID_FOR_DEFAULT_CONN_EVENT

\* The conditions a callback is under besides the record's mask and slot.
MayBeCalled(q, bit, r) ==
    /\ bit \in {"CCALL_STATE", "VOIP_CALL_STATE"} => CanManageCallForDevices(r)
    /\ bit = "NETWORK_STATE" => q.val # Null

Called_OnlyManagers(q, r) ==
    {bit \in Branch(Handlers[q.op], r) :
        SlotMatches(Handlers[q.op].scope, q.slot, r) /\ CanManageCallForDevices(r)}

\* The bits of r (none or one) that update q calls back.
Called(q, r) ==
    {bit \in Branch(Handlers[q.op], r) :
        SlotMatches(Handlers[q.op].scope, q.slot, r) /\ MayBeCalled(q, bit, r)}

\* UpdateCallStateForSlotId reads the number from the map again.
ReadsNumberMap(q, bit, r) ==
    q.op = "UpdateCallStateForSlotId" /\ bit = "CALL_STATE" /\ IsCanReadCallHistory(r)

NumberFor(q, bit, r) ==
    CASE bit = "CCALL_STATE" -> q.num
      [] ReadsNumberMap(q, bit, r) -> Value("callIncomingNumber_", q.slot)
      [] q.op = "UpdateCallState" /\ bit = "CALL_STATE" /\ IsCanReadCallHistory(r) -> q.num
      [] OTHER -> NoNumber

InLoop_StopsEarly(c) == idx[c] < Len(stateRecords_)
InLoop(c) == idx[c] <= Len(stateRecords_)

\* One turn of the loop.  The callback is sent and not waited for: no observer
\* calls the service back while it is being called.
NotifyRecord(c) ==
    /\ pc[c] = "notify"
    /\ InLoop(c)
    /\ idx' = [idx EXCEPT ![c] = @ + 1]
    /\ LET r == stateRecords_[idx[c]]
           q == req[c]
       IN \/ /\ Called(q, r) = {}
             /\ UNCHANGED <<cache, told, notified>>
          \/ \E bit \in Called(q, r) :
                /\ Tell(r.telephonyObserver_, bit, q.slot,
                        [val |-> q.val, num |-> NumberFor(q, bit, r)])
                /\ notified' = [notified EXCEPT ![c] = @ \cup {idx[c]}]
                /\ cache' = IF ReadsNumberMap(q, bit, r)
                            THEN Inserted({"callIncomingNumber_"}, q.slot) ELSE cache
    /\ UNCHANGED <<start, stateRecords_, perms, lock_, pc, req, ret>>

EventOf(topic, v, num, by) ==
    [val |-> v, num |-> IF topic = "CALL_STATE_CHANGED_WITH_NUMBER" THEN num ELSE NoNumber,
     by |-> by]

\* The events that go out; one that cannot be published is only logged.
Published(topics) ==
    {sent \in SUBSET topics : /\ sent # {} => TRUE \in PublishResults
                              /\ sent # topics => FALSE \in PublishResults}

Publish_SlotZero(topics, k, v, num, by) ==
    \E sent \in Published(topics) :
        lastEvent' = [t \in Topic |->
                         IF t \in sent
                         THEN [lastEvent[t] EXCEPT ![0] = EventOf(t, v, num, by)]
                         ELSE lastEvent[t]]
Publish(topics, k, v, num, by) ==
    \E sent \in Published(topics) :
        lastEvent' = [t \in Topic |->
                         IF t \in sent
                         THEN [lastEvent[t] EXCEPT ![k] = EventOf(t, v, num, by)]
                         ELSE lastEvent[t]]

\* After the loop, lock_ still shared: SendXxxChanged, then return.
FinishUpdate(c) ==
    /\ pc[c] = "notify"
    /\ ~InLoop(c)
    /\ Publish(Handlers[req[c].op].topics, req[c].slot, req[c].val, req[c].num, "update")
    /\ UnlockShared(c)
    /\ Return(c, IF notified[c] = {} THEN TELEPHONY_STATE_REGISTRY_DATA_NOT_EXIST
                                     ELSE TELEPHONY_SUCCESS)
    /\ UNCHANGED <<state_, boot, data, perms, req, idx, notified>>

-----------------------------------------------------------------------------
(* RegisterStateChange and UnregisterStateChange, under the unique lock.    *)

NewRecord(c, q) ==
    [slotId_ |-> q.slot, mask_ |-> q.mask, tokenId_ |-> Token[c], pid_ |-> Pid[c],
     telephonyObserver_ |-> q.obs]

\* The identity of a registration: slot, mask, token and process.
SameKey(r, s) ==
    /\ r.slotId_ = s.slotId_ /\ r.mask_ = s.mask_
    /\ r.tokenId_ = s.tokenId_ /\ r.pid_ = s.pid_

Matching_ByObserver(r) ==
    {i \in DOMAIN stateRecords_ :
        /\ SameKey(stateRecords_[i], r)
        /\ stateRecords_[i].telephonyObserver_ = r.telephonyObserver_}
Matching(r) == {i \in DOMAIN stateRecords_ : SameKey(stateRecords_[i], r)}

\* The map each mask bit is replayed from.
StateMap(bit) ==
    CASE bit \in {"CALL_STATE", "CALL_STATE_EX", "CCALL_STATE"} -> "callState_"
      [] bit = "SIM_STATE" -> "simState_"
      [] bit = "SIGNAL_STRENGTHS" -> "signalInfos_"
      [] bit = "NETWORK_STATE" -> "searchNetworkState_"
      [] bit = "CELL_INFO" -> "cellInfos_"
      [] bit = "DATA_CONNECTION_STATE" -> "cellularDataConnectionState_"
      [] bit = "DATA_FLOW" -> "cellularDataFlow_"
      [] bit = "CFU_INDICATOR" -> "cfuResult_"
      [] bit = "VOICE_MAIL_MSG_INDICATOR" -> "voiceMailMsgResult_"
      [] bit = "SIM_ACTIVE_STATE" -> "simActiveResult_"
      [] OTHER -> "none"

\* UpdateDataEx shows an unknown call to a call-continuation observer as idle.
ReplayedValue(bit, k) ==
    CASE StateMap(bit) = "none" -> Null
      [] bit = "CCALL_STATE" /\ Value("callState_", k) = CALL_STATUS_UNKNOWN -> CALL_STATUS_IDLE
      [] OTHER -> Value(StateMap(bit), k)

ReplaysNumber_Unchecked(bit, r) == bit \in {"CALL_STATE", "CCALL_STATE"}
ReplaysNumber(bit, r) ==
    bit = "CCALL_STATE" \/ (bit = "CALL_STATE" /\ IsCanReadCallHistory(r))

ReplayedBits(r) ==
    {bit \in r.mask_ : /\ IsExistStateListener(r, bit)
                       /\ bit # "VOIP_CALL_STATE"
                       /\ bit = "CCALL_STATE" => CanManageCallForDevices(r)}

\* The maps UpdateData touches with operator[].
ReplayedMaps(r) ==
    {StateMap(bit) : bit \in ReplayedBits(r)} \cup
    {"callIncomingNumber_" : bit \in {b \in ReplayedBits(r) : ReplaysNumber(b, r)}}

\* Every bit of the record's mask is called back with the cached value, with
\* lock_ held by RegisterStateChange; sent and not waited for, as in the loop.
UpdateData(r) ==
    /\ cache' = Inserted(ReplayedMaps(r), r.slotId_)
    /\ LET o == r.telephonyObserver_
           k == r.slotId_
       IN told' = [told EXCEPT ![o] =
                      [bit \in Masks |->
                          IF bit \in ReplayedBits(r)
                          THEN [told[o][bit] EXCEPT ![k] =
                                   [val |-> ReplayedValue(bit, k),
                                    num |-> IF ReplaysNumber(bit, r)
                                            THEN Value("callIncomingNumber_", k) ELSE NoNumber]]
                          ELSE told[o][bit]]]

\* An existing registration is kept as it is, its old observer included.
AddRecord_Always(new, old) == Append(stateRecords_, new)
AddRecord(new, old) == IF old = {} THEN Append(stateRecords_, new) ELSE stateRecords_

RegisterStateChange(c) ==
    /\ pc[c] = "unique"
    /\ req[c].op = "Register"
    /\ LET new == NewRecord(c, req[c])
           old == Matching(new)
           record == IF old = {} THEN new ELSE stateRecords_[Min(old)]
       IN /\ stateRecords_' = AddRecord(new, old)
          /\ IF req[c].isUpdate THEN UpdateData(record) ELSE UNCHANGED <<cache, told>>
    /\ UnlockUnique
    /\ Return(c, TELEPHONY_SUCCESS)
    /\ UNCHANGED <<start, perms, req, idx, notified>>

\* The slots record r hears about in the events of this bit.
HeardSlots(r, bit) ==
    IF r.slotId_ = SIM_SLOT_ID_FOR_DEFAULT_CONN_EVENT /\ bit \in DataBits
    THEN RecordSlot ELSE {r.slotId_}

\* What the erased registration had told its observer counts as forgotten, so
\* that told speaks of live registrations only.
Forget(r) ==
    LET o == r.telephonyObserver_
    IN told' = [told EXCEPT ![o] =
                   [bit \in Masks |->
                       [k \in RecordSlot |->
                           IF bit \in r.mask_ /\ k \in HeardSlots(r, bit)
                           THEN Absent ELSE told[o][bit][k]]]]

UnregisterStateChange(c) ==
    /\ pc[c] = "unique"
    /\ req[c].op = "Unregister"
    /\ LET found == Matching(NewRecord(c, req[c]))
       IN \/ /\ found = {}
             /\ Return(c, TELEPHONY_STATE_UNREGISTRY_DATA_NOT_EXIST)
             /\ UNCHANGED <<stateRecords_, told>>
          \/ /\ found # {}
             /\ Return(c, TELEPHONY_SUCCESS)
             /\ stateRecords_' = RemoveAt(stateRecords_, Min(found))
             /\ Forget(stateRecords_[Min(found)])
    /\ UnlockUnique
    /\ UNCHANGED <<start, cache, perms, req, idx, notified>>

-----------------------------------------------------------------------------
(* Start, stop, and the detached task that announces disconnected calls.    *)

\* BootThreads bounds how often the task is started; Call lets OnStart in only
\* while one is left.
OnStart(c) ==
    /\ pc[c] = "unique"
    /\ req[c].op = "OnStart"
    /\ \/ /\ state_ = "RUNNING"
          /\ UNCHANGED <<state_, boot>>
       \/ /\ state_ # "RUNNING"
          /\ state_' = "RUNNING"
          /\ \E b \in BootThreads : boot[b] = -1 /\ boot' = [boot EXCEPT ![b] = 0]
    /\ UnlockUnique
    /\ Return(c, TELEPHONY_SUCCESS)
    /\ UNCHANGED <<lastEvent, data, perms, req, idx, notified>>

OnStop(c) ==
    /\ pc[c] = "unique"
    /\ req[c].op = "OnStop"
    /\ state_' = "STOPPED"
    /\ UnlockUnique
    /\ Return(c, TELEPHONY_SUCCESS)
    /\ UNCHANGED <<boot, lastEvent, data, perms, req, idx, notified>>

\* The task takes no lock.
BootPublish(b) ==
    /\ boot[b] \in 0 .. slotSize_ - 1
    /\ Publish({"CALL_STATE_CHANGED"}, boot[b], CALL_STATUS_DISCONNECTED, NoNumber, "boot")
    /\ boot' = [boot EXCEPT ![b] = @ + 1]
    /\ UNCHANGED <<state_, data, perms, lock_, pc, req, local>>

\* The common event service is not there: the task ends without publishing.
BootNoEventService(b) ==
    /\ boot[b] = 0 /\ slotSize_ > 0
    /\ boot' = [boot EXCEPT ![b] = slotSize_]
    /\ UNCHANGED <<state_, lastEvent, data, perms, lock_, pc, req, local>>

-----------------------------------------------------------------------------
(* The queries, and Dump, which calls them with lock_ already shared.       *)

GetXxx(c) ==
    /\ pc[c] = "query"
    /\ UnlockShared(c)
    /\ Return(c, IF cache[req[c].map][req[c].slot] = Absent THEN TELEPHONY_ERROR
                 ELSE cache[req[c].map][req[c].slot])
    /\ UNCHANGED <<start, data, perms, req, idx, notified>>

\* ShowTelephonyChangeState makes seven queries about every slot with a card.
QueriesPerSlot == 7

\* idx counts the queries; a slot without a card is skipped.
DumpSlot(c) ==
    /\ pc[c] = "dump"
    /\ idx[c] < QueriesPerSlot * SIM_SLOT_COUNT
    /\ \/ Goto(c, "relock") /\ UNCHANGED idx
       \/ /\ idx[c] % QueriesPerSlot = 0
          /\ idx' = [idx EXCEPT ![c] = @ + QueriesPerSlot]
          /\ UNCHANGED pc
    /\ UNCHANGED <<start, data, perms, lock_, req, notified, ret>>

\* Each query takes lock_ shared a second time and gives it back.
DumpQuery(c) ==
    /\ pc[c] = "relock"
    /\ writer = NoCaller
    /\ Goto(c, "dump")
    /\ idx' = [idx EXCEPT ![c] = @ + 1]
    /\ UNCHANGED <<start, data, perms, lock_, req, notified, ret>>

DumpDone(c) ==
    /\ pc[c] = "dump"
    /\ idx[c] = QueriesPerSlot * SIM_SLOT_COUNT
    /\ UnlockShared(c)
    /\ \E code \in {TELEPHONY_SUCCESS, TELEPHONY_ERR_FAIL} : Return(c, code)
    /\ UNCHANGED <<start, data, perms, req, idx, notified>>

-----------------------------------------------------------------------------
\* The user grants or revokes a permission at any time.
TogglePermission(t, p) ==
    /\ perms' = [perms EXCEPT ![t] = IF p \in @ THEN @ \ {p} ELSE @ \cup {p}]
    /\ UNCHANGED <<start, data, lock_, pc, req, local>>

\* What the thread that serves c does once it has lock_ the way it wants it.
Locked(c) ==
    \/ Drained(c) \/ WriteCache(c) \/ RegisterStateChange(c) \/ UnregisterStateChange(c)
    \/ OnStart(c) \/ OnStop(c)
    \/ NotifyRecord(c) \/ FinishUpdate(c) \/ GetXxx(c) \/ DumpSlot(c) \/ DumpDone(c)

Boot(b) == BootPublish(b) \/ BootNoEventService(b)

Next ==
    \/ \E c \in Callers :
          Call(c) \/ LockUnique(c) \/ LockShared(c) \/ DumpQuery(c) \/ Locked(c) \/ Reply(c)
    \/ \E b \in BootThreads : Boot(b)
    \/ \E tp \in Revocable : TogglePermission(tp[1], tp[2])

Spec == Init /\ [][Next]_vars

\* A serving thread is scheduled; a thread that waits for lock_ gets it if lock_
\* becomes available again and again.
Fairness ==
    /\ \A c \in Callers :
          /\ WF_vars(Locked(c)) /\ WF_vars(Reply(c))
          /\ SF_vars(LockUnique(c)) /\ SF_vars(LockShared(c)) /\ SF_vars(DumpQuery(c))
    /\ \A b \in BootThreads : WF_vars(Boot(b))

FairSpec == Spec /\ Fairness

-----------------------------------------------------------------------------
(* Properties. *)

\* stateRecords_ holds at most one registration per slot, mask, token and
\* process: UnregisterStateChange erases one record and must leave none.
UniqueRecords ==
    \A i, j \in DOMAIN stateRecords_ : SameKey(stateRecords_[i], stateRecords_[j]) => i = j

\* lock_ works: whoever is inside a unique section is alone.
Exclusion ==
    \A c \in Callers : pc[c] = "unique" =>
        /\ writer = c /\ readers = {}
        /\ \A d \in Callers \ {c} :
              pc[d] \notin {"unique", "notify", "query", "dump", "relock"}

\* While some thread walks the records or reads a map, neither the vector nor a
\* map changes shape or value, not even by operator[] on a missing key: an
\* insertion or an erasure would invalidate what the thread walks over.
StableWhileShared == [][readers # {} => UNCHANGED <<stateRecords_, cache>>]_vars

\* The bit an update reaches, whatever the permissions of the record's token.
Wants(q, r) ==
    /\ Branch(Handlers[q.op], r) \ {"CCALL_STATE", "VOIP_CALL_STATE"} # {}
    /\ SlotMatches(Handlers[q.op].scope, q.slot, r)
    /\ q.op = "UpdateNetworkState" => q.val # Null

\* When the loop of UpdateXxx ends, it has called back every record of the
\* table that wants the update and no record of another mask or slot, whatever
\* was registered and unregistered since the update was written.
NoneMissed ==
    [][\A c \in Callers : (pc[c] = "notify" /\ pc'[c] # "notify") =>
          \A i \in DOMAIN stateRecords_ :
              LET h == Handlers[req[c].op]
                  r == stateRecords_[i]
              IN /\ Wants(req[c], r) => i \in notified[c]
                 /\ i \in notified[c] =>
                       Branch(h, r) # {} /\ SlotMatches(h.scope, req[c].slot, r)]_vars

\* Who ever writes key k of map m.
Producers(m, k) ==
    {c \in Callers : \E q \in Requests[c] :
        q.op \in UpdateOp /\ m \in Handlers[q.op].maps /\ q.slot = k}

OneProducer(m, k) == \A c, d \in Producers(m, k) : c = d

\* c has written key k of map m and has not yet ended its call.
Updating(c, m, k) ==
    /\ pc[c] \in {"share", "notify"}
    /\ req[c].op \in UpdateOp
    /\ m \in Handlers[req[c].op].maps
    /\ req[c].slot = k

\* Bits whose callbacks depend on no permission and on no other bit of the mask.
PlainBits ==
    Masks \ {"CALL_STATE_EX", "CCALL_STATE", "VOIP_CALL_STATE", "ICC_ACCOUNT"}

\* A registered observer is never left with an old value: if it was told about
\* (bit, slot) under a live registration, it was last told what the map holds,
\* unless an update of that key has yet to reach its record.  For keys with one
\* producer; the call state comes with its own number or with none.
Converged ==
    \A i \in DOMAIN stateRecords_ :
        LET r == stateRecords_[i]
        IN \A bit \in r.mask_ \cap PlainBits : \A k \in HeardSlots(r, bit) :
              LET m == StateMap(bit)
                  s == told[r.telephonyObserver_][bit][k]
              IN \/ s = Absent
                 \/ ~OneProducer(m, k)
                 \/ \E c \in Callers : Updating(c, m, k) /\ (pc[c] = "notify" => idx[c] <= i)
                 \/ bit = "NETWORK_STATE" /\ cache[m][k] = Null
                 \/ /\ s.val = cache[m][k]
                    /\ bit = "CALL_STATE" =>
                          s.num \in {NoNumber, Value("callIncomingNumber_", k)}

TopicMap(topic) ==
    CASE topic \in CallTopics -> "callState_"
      [] topic = "CELLULAR_DATA_STATE_CHANGED" -> "cellularDataConnectionState_"
      [] topic = "SIM_STATE_CHANGED" -> "simState_"
      [] topic = "SIGNAL_INFO_CHANGED" -> "signalInfos_"
      [] topic = "NETWORK_STATE_CHANGED" -> "searchNetworkState_"

\* The last common event of a slot tells what the map holds, the number too where
\* it carries one, once no update of that key is on its way, for keys with one
\* producer, when publishing does not
\* fail, and unless the task of OnStart was the last to publish.
EventsFollowCache ==
    FALSE \notin PublishResults =>
    \A topic \in Topic, k \in RecordSlot :
        LET m == TopicMap(topic)
            e == lastEvent[topic][k]
        IN \/ e = Absent
           \/ e.by = "boot"
           \/ ~OneProducer(m, k)
           \/ \E c \in Callers : Updating(c, m, k)
           \/ /\ e.val = cache[m][k]
              /\ topic = "CALL_STATE_CHANGED_WITH_NUMBER"
                    => e.num = cache["callIncomingNumber_"][k]

\* Once UnregisterStateChange has answered, the registration is gone, whether it
\* was found or not, unless another thread of the same process registers it.
UnregisterIsFinal ==
    \A c \in Callers :
        /\ pc[c] = "returned" /\ req[c].op = "Unregister"
        /\ ret[c] \in {TELEPHONY_SUCCESS, TELEPHONY_STATE_UNREGISTRY_DATA_NOT_EXIST}
        /\ \A d \in Callers \ {c} : Pid[d] # Pid[c] \/ Token[d] # Token[c]
        => Matching(NewRecord(c, req[c])) = {}

\* A number reaches an observer of the call state only at a moment when the
\* token of one of its registrations may read the call log.
NumberNeedsCallLog ==
    [][\A o \in Observers, k \in RecordSlot :
          "CALL_STATE" \in Masks =>
          LET s == told'[o]["CALL_STATE"][k]
          IN (s # told[o]["CALL_STATE"][k] /\ s # Absent /\ s.num # NoNumber)
                => \E i \in DOMAIN stateRecords_' :
                      /\ stateRecords_'[i].telephonyObserver_ = o
                      /\ IsCanReadCallHistory(stateRecords_'[i])]_vars

\* Every call returns: no thread waits for lock_ for ever.  For observers in other
\* processes, and observers of the service's own process that make no synchronous
\* call from a callback: one that does waits for the lock_ its own thread holds,
\* as docs/agents/boundaries.md says.
CallsReturn == \A c \in Callers : (pc[c] # "idle") ~> (pc[c] = "idle")

Behind(o, bit, k) ==
    /\ told[o][bit][k] # Absent
    /\ OneProducer(StateMap(bit), k)
    /\ told[o][bit][k].val # cache[StateMap(bit)][k]
    /\ bit = "NETWORK_STATE" => cache[StateMap(bit)][k] # Null

\* An observer that has fallen behind the map catches up or is unregistered.
CatchesUp ==
    \A o \in Observers : \A bit \in PlainBits :
        \A k \in {slot \in RecordSlot : Producers(StateMap(bit), slot) # {}} :
            Behind(o, bit, k) ~> ~Behind(o, bit, k)

-----------------------------------------------------------------------------
(* What the repository's documents say and the code does not do. *)

\* docs/agents/boundaries.md: no function that holds lock_ takes it again.  A
\* thread that does so while a writer waits blocks that writer and itself.
NoWaitOnOwnSharedLock ==
    \A c \in Callers : ~(c \in readers /\ pc[c] = "relock" /\ writer # NoCaller)

\* docs/agents/code-map.md: a registration that asks for it is sent the value
\* the cache holds.
CallbackCarriesCachedValue ==
    [][\A o \in Observers, bit \in PlainBits, k \in RecordSlot :
          \/ told'[o][bit][k] \in {told[o][bit][k], Absent}
          \/ cache[StateMap(bit)][k] # Absent]_vars
=============================================================================
