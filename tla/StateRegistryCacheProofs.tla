----------------------- MODULE StateRegistryCacheProofs -----------------------
(***************************************************************************)
(* Proofs about StateRegistry, continued: what observers and common events *)
(* last told is what the maps hold, for any number of callers, observers,  *)
(* slots, tokens and requests.                                             *)
(***************************************************************************)
EXTENDS StateRegistryProofs

(* The invariants. *)

\* Between its write and its return an update finds in the maps what it has
\* written, if nobody else reports that key.
WrittenIsStored ==
    \A c \in Callers, m \in CacheMap :
        Updating(c, m, req[c].slot) /\ OneProducer(m, req[c].slot)
            => cache[m][req[c].slot] = Written(m, req[c])

Hears(r, o, bit, k) ==
    r.telephonyObserver_ = o /\ bit \in r.mask_ /\ k \in HeardSlots(r, bit)

\* An observer that counts as told of something has a registration for it.
ToldIsHeard ==
    \A o \in Observers, bit \in PlainBits, k \in RecordSlot :
        told[o][bit][k] # Absent =>
            /\ o # NullObserver
            /\ \E i \in DOMAIN stateRecords_ : Hears(stateRecords_[i], o, bit, k)

-----------------------------------------------------------------------------
(* The table of handlers. *)

CallOps == {"UpdateCallState", "UpdateCallStateForSlotId"}
CallBits == {"CALL_STATE", "CALL_STATE_EX", "CCALL_STATE"}

\* The bit a handler tries first.
FirstBit(op) == Handlers[op].masks[1]

\* A handler of the call state has three bits and two maps.
LEMMA CallHandlers ==
    ASSUME NEW op \in CallOps
    PROVE  /\ Handlers[op].masks = <<"CALL_STATE", "CALL_STATE_EX", "CCALL_STATE">>
           /\ Handlers[op].maps = {"callState_", "callIncomingNumber_"}
           /\ Handlers[op].scope = "same"
           /\ op \in UpdateOp
  BY DEF CallOps, Handlers, Handler, UpdateCallState, UpdateCallStateForSlotId, UpdateOp

\* The map of each bit, one by one.
LEMMA MapTable ==
    /\ StateMap("SIM_STATE") = "simState_" /\ StateMap("SIGNAL_STRENGTHS") = "signalInfos_"
    /\ StateMap("NETWORK_STATE") = "searchNetworkState_" /\ StateMap("CELL_INFO") = "cellInfos_"
    /\ StateMap("DATA_CONNECTION_STATE") = "cellularDataConnectionState_"
    /\ StateMap("DATA_FLOW") = "cellularDataFlow_" /\ StateMap("CFU_INDICATOR") = "cfuResult_"
    /\ StateMap("VOICE_MAIL_MSG_INDICATOR") = "voiceMailMsgResult_"
    /\ StateMap("SIM_ACTIVE_STATE") = "simActiveResult_"
    /\ StateMap("ICC_ACCOUNT") = "none" /\ StateMap("VOIP_CALL_STATE") = "none"
    /\ \A bit \in CallBits : StateMap(bit) = "callState_"
  BY DEF StateMap, CallBits

\* Any other handler has one bit, and stores that bit's map or remembers nothing.
LEMMA PlainHandlers ==
    ASSUME NEW op \in UpdateOp \ CallOps
    PROVE  /\ Handlers[op].masks = <<FirstBit(op)>>
           /\ FirstBit(op) \in ObserverMask \ CallBits
           /\ \/ /\ Handlers[op].maps = {StateMap(FirstBit(op))}
                 /\ StateMap(FirstBit(op)) \notin {"none", "callState_", "callIncomingNumber_"}
                 /\ Handlers[op].scope = IF FirstBit(op) \in DataBits THEN "same_or_default" ELSE "same"
              \/ /\ Handlers[op].maps = {} /\ StateMap(FirstBit(op)) = "none"
                 /\ Handlers[op].scope = "any"
<1>1. /\ Handlers[op].masks = <<FirstBit(op)>>
      /\ FirstBit(op) \in ObserverMask \ CallBits
  BY DEF UpdateOp, FirstBit, CallOps, CallBits, ObserverMask, Handlers, Handler,
     UpdateCellularDataConnectState, UpdateCellularDataFlow, UpdateSimState, UpdateSignalInfo,
     UpdateCellInfo, UpdateNetworkState, UpdateCfuIndicator, UpdateIccAccount,
     UpdateVoiceMailMsgIndicator, UpdateSimActiveState, UpdateVoIPCallState
<1>2. \/ /\ Handlers[op].maps = {StateMap(FirstBit(op))}
         /\ StateMap(FirstBit(op)) \notin {"none", "callState_", "callIncomingNumber_"}
         /\ Handlers[op].scope = IF FirstBit(op) \in DataBits THEN "same_or_default" ELSE "same"
      \/ /\ Handlers[op].maps = {} /\ StateMap(FirstBit(op)) = "none"
         /\ Handlers[op].scope = "any"
  BY MapTable DEF UpdateOp, FirstBit, CallOps, DataBits, Handlers, Handler,
     UpdateCellularDataConnectState, UpdateCellularDataFlow, UpdateSimState, UpdateSignalInfo,
     UpdateCellInfo, UpdateNetworkState, UpdateCfuIndicator, UpdateIccAccount,
     UpdateVoiceMailMsgIndicator, UpdateSimActiveState, UpdateVoIPCallState
<1> QED BY <1>1, <1>2

\* A map belongs to one bit, except that the three call bits share theirs.
LEMMA MapOfBit ==
    ASSUME NEW b \in ObserverMask, NEW d \in ObserverMask \ CallBits,
           StateMap(b) = StateMap(d), StateMap(b) # "none"
    PROVE  b = d
  BY DEF StateMap, ObserverMask, CallBits

\* The call state and its number are stored together, so they have the same
\* producers.
LEMMA NumberProducers ==
    ASSUME NEW k, OneProducer("callState_", k)
    PROVE  OneProducer("callIncomingNumber_", k)
<1>1. ASSUME NEW op \in UpdateOp
      PROVE  "callIncomingNumber_" \in Handlers[op].maps => "callState_" \in Handlers[op].maps
  BY CallHandlers, PlainHandlers
<1>2. Producers("callIncomingNumber_", k) \subseteq Producers("callState_", k)
  BY <1>1 DEF Producers
<1> QED BY <1>2 DEF OneProducer

\* An update calls back a live observer of its bit and slot, with what the map of
\* that bit was given.
LEMMA CalledShape ==
    ASSUME NEW q, q.op \in UpdateOp, q.slot \in RecordSlot, NEW r, NEW bit \in Called(q, r)
    PROVE  /\ r.telephonyObserver_ # NullObserver /\ bit \in r.mask_
           /\ bit \in CallBits => q.op \in CallOps
           /\ \/ StateMap(bit) = "none"
              \/ /\ StateMap(bit) \in Handlers[q.op].maps
                 /\ q.slot \in HeardSlots(r, bit)
<1>1. PICK j \in DOMAIN Handlers[q.op].masks :
          bit = Handlers[q.op].masks[j] /\ IsExistStateListener(r, bit)
  BY DEF Called, Branch
<1>2. SlotMatches(Handlers[q.op].scope, q.slot, r)
  BY DEF Called
<1>3. r.telephonyObserver_ # NullObserver /\ bit \in r.mask_
  BY <1>1 DEF IsExistStateListener
<1>4. CASE q.op \in CallOps
  <2>1. bit \in CallBits
    BY <1>1, <1>4, CallHandlers DEF CallBits
  <2>2. StateMap(bit) = "callState_" /\ "callState_" \in Handlers[q.op].maps
    BY <1>4, <2>1, MapTable, CallHandlers
  <2>3. q.slot \in HeardSlots(r, bit)
    BY <1>2, <1>4, CallHandlers DEF SlotMatches, HeardSlots
  <2> QED BY <1>3, <1>4, <2>2, <2>3
<1>5. CASE q.op \notin CallOps
  <2>1. bit = FirstBit(q.op) /\ bit \notin CallBits
    BY <1>1, <1>5, PlainHandlers
  <2>2. StateMap(bit) = "none" \/ q.slot \in HeardSlots(r, bit)
    BY <1>2, <1>5, <2>1, PlainHandlers DEF SlotMatches, HeardSlots
  <2> QED BY <1>3, <1>5, <2>1, <2>2, PlainHandlers
<1> QED BY <1>4, <1>5

\* The bit of a map is the first its handlers try, so no other bit of the mask
\* keeps an update of the map from a record that hears about it.
LEMMA PlainBranch ==
    ASSUME NEW op \in UpdateOp, NEW r, r.telephonyObserver_ # NullObserver,
           NEW bit \in PlainBits, bit \in r.mask_, StateMap(bit) \in Handlers[op].maps,
           NEW k \in HeardSlots(r, bit)
    PROVE  /\ Branch(Handlers[op], r) = {bit}
           /\ SlotMatches(Handlers[op].scope, k, r)
<1>0. bit \in ObserverMask \ {"CALL_STATE_EX", "CCALL_STATE", "VOIP_CALL_STATE", "ICC_ACCOUNT"}
  BY ConstantsAssumption DEF PlainBits
<1>1. IsExistStateListener(r, bit)
  BY DEF IsExistStateListener
<1>2. CASE op \in CallOps
  <2>1. bit = "CALL_STATE"
    BY <1>0, <1>2, CallHandlers, MapTable DEF ObserverMask
  <2>2. Branch(Handlers[op], r) = {bit}
    BY <1>1, <1>2, <2>1, CallHandlers DEF Branch
  <2>3. SlotMatches(Handlers[op].scope, k, r)
    BY <1>2, <2>1, CallHandlers DEF SlotMatches, HeardSlots, DataBits
  <2> QED BY <2>2, <2>3
<1>3. CASE op \notin CallOps
  <2>1. /\ Handlers[op].masks = <<FirstBit(op)>> /\ Handlers[op].maps = {StateMap(FirstBit(op))}
        /\ FirstBit(op) \in ObserverMask \ CallBits /\ StateMap(FirstBit(op)) # "none"
        /\ Handlers[op].scope = IF FirstBit(op) \in DataBits THEN "same_or_default" ELSE "same"
    BY <1>3, PlainHandlers
  <2>2. bit = FirstBit(op)
    BY <1>0, <2>1, MapOfBit
  <2>3. Branch(Handlers[op], r) = {bit}
    BY <1>1, <2>1, <2>2 DEF Branch
  <2>4. SlotMatches(Handlers[op].scope, k, r)
    BY <2>1, <2>2 DEF SlotMatches, HeardSlots
  <2> QED BY <2>3, <2>4
<1> QED BY <1>2, <1>3

-----------------------------------------------------------------------------
(* What an update has written stays while it goes on. *)

\* Only a write, a registration and a turn of the loop touch the maps.
LEMMA CacheChangers ==
    ASSUME IndInv, [Next]_vars
    PROVE  \/ UNCHANGED cache
           \/ \E d \in Callers : WriteCache(d) \/ RegisterStateChange(d) \/ NotifyRecord(d)
<1>1. ASSUME NEW d \in Callers, Call(d) PROVE UNCHANGED cache
  BY <1>1, CallShape DEF Reject, Accept, data
<1>2. ASSUME NEW d \in Callers,
             LockUnique(d) \/ LockShared(d) \/ DumpQuery(d) \/ Reply(d) \/ Drained(d) \/ OnStart(d)
             \/ OnStop(d) \/ UnregisterStateChange(d) \/ FinishUpdate(d) \/ GetXxx(d) \/ DumpSlot(d)
             \/ DumpDone(d)
      PROVE  UNCHANGED cache
  BY <1>2 DEF LockUnique, LockShared, DumpQuery, Reply, Drained, OnStart, OnStop,
     UnregisterStateChange, FinishUpdate, GetXxx, DumpSlot, DumpDone, data
<1>3. ASSUME NEW b \in BootThreads, Boot(b) PROVE UNCHANGED cache
  BY <1>3 DEF Boot, BootPublish, BootNoEventService, data
<1>4. ASSUME NEW tp \in Revocable, TogglePermission(tp[1], tp[2]) PROVE UNCHANGED cache
  BY <1>4 DEF TogglePermission, data
<1> QED BY <1>1, <1>2, <1>3, <1>4 DEF Next, Locked, vars

\* Who is updating a key produces it.
LEMMA UpdaterProduces ==
    ASSUME IndInv, NEW c \in Callers, NEW m, NEW k, Updating(c, m, k)
    PROVE  c \in Producers(m, k)
  BY DEF IndInv, RequestOK, Updating, Producers

\* Inserting defaults changes no value that operator[] would read.
LEMMA InsertedValue ==
    ASSUME TypeOK, NEW maps, NEW slot, cache' = Inserted(maps, slot),
           NEW m \in CacheMap, NEW k \in RecordSlot
    PROVE  Value(m, k)' = Value(m, k)
<1>0. cache[m] \in [RecordSlot -> Int \cup {Absent}]
  BY DEF TypeOK
<1>1. CASE cache[m][k] # Absent
  BY <1>1, InsertedKeeps DEF Value
<1>2. CASE cache[m][k] = Absent
  <2>1. cache'[m] = IF m \in maps /\ cache[m][slot] = Absent
                    THEN [cache[m] EXCEPT ![slot] = 0] ELSE cache[m]
    BY DEF Inserted
  <2>2. cache'[m][k] \in {0, Absent}
    BY <1>0, <1>2, <2>1
  <2> QED BY <1>2, <2>2 DEF Value
<1> QED BY <1>1, <1>2

\* What a map reads under a key changes only when an update of that key begins.
LEMMA ValueChange ==
    ASSUME IndInv, [Next]_vars, NEW m \in CacheMap, NEW k \in RecordSlot
    PROVE  \/ Value(m, k)' = Value(m, k)
           \/ \E d \in Producers(m, k) : ~Updating(d, m, k) /\ Updating(d, m, k)'
<1>0. cache[m] \in [RecordSlot -> Int \cup {Absent}] /\ TypeOK /\ pc \in [Callers -> PC]
  BY DEF IndInv, TypeOK
<1>1. ASSUME NEW d \in Callers, WriteCache(d), cache'[m][k] # cache[m][k]
      PROVE  d \in Producers(m, k) /\ ~Updating(d, m, k) /\ Updating(d, m, k)'
  <2>1. \/ m \notin Handlers[req[d].op].maps /\ cache'[m] = cache[m]
        \/ /\ m \in Handlers[req[d].op].maps
           /\ cache'[m] = [cache[m] EXCEPT ![req[d].slot] = Written(m, req[d])]
    BY <1>1 DEF WriteCache
  <2>2. m \in Handlers[req[d].op].maps /\ req[d].slot = k
    BY <1>0, <1>1, <2>1
  <2>3. pc[d] = "unique" /\ req[d].op \in UpdateOp /\ req' = req /\ pc'[d] = "share"
    BY <1>0, <1>1 DEF WriteCache, Goto
  <2>4. d \in Producers(m, k)
    BY <2>2, <2>3 DEF IndInv, RequestOK, Producers
  <2> QED BY <2>2, <2>3, <2>4 DEF Updating
<1>2. ASSUME NEW d \in Callers, RegisterStateChange(d) PROVE Value(m, k)' = Value(m, k)
  <2>1. cache' = cache \/ \E r : UpdateData(r)
    BY <1>2 DEF RegisterStateChange
  <2>2. cache' = cache \/ \E r : cache' = Inserted(ReplayedMaps(r), r.slotId_)
    BY <2>1 DEF UpdateData
  <2> QED BY <1>0, <2>2, InsertedValue DEF Value
<1>3. ASSUME NEW d \in Callers, NotifyRecord(d) PROVE Value(m, k)' = Value(m, k)
  <2>1. cache' = cache \/ cache' = Inserted({"callIncomingNumber_"}, req[d].slot)
    BY <1>3 DEF NotifyRecord
  <2> QED BY <1>0, <2>1, InsertedValue DEF Value
<1>4. cache'[m][k] = cache[m][k] => Value(m, k)' = Value(m, k)
  BY DEF Value
<1> QED BY <1>1, <1>2, <1>3, <1>4, CacheChangers

\* The same of a key that is there: no step removes it.
LEMMA KeyChange ==
    ASSUME IndInv, [Next]_vars, NEW m \in CacheMap, NEW k \in RecordSlot, cache[m][k] # Absent
    PROVE  \/ cache'[m][k] = cache[m][k]
           \/ \E d \in Producers(m, k) : ~Updating(d, m, k) /\ Updating(d, m, k)'
<1>1. cache'[m][k] # Absent
  BY KeysKept
<1> QED BY <1>1, ValueChange DEF Value

\* A key with one producer keeps what an update of it wrote.
LEMMA StoredKept ==
    ASSUME IndInv, [Next]_vars, NEW c \in Callers, NEW m \in CacheMap, NEW k \in RecordSlot,
           Updating(c, m, k), OneProducer(m, k), cache[m][k] # Absent
    PROVE  cache'[m][k] = cache[m][k]
<1>1. c \in Producers(m, k)
  BY UpdaterProduces
<1>2. ASSUME NEW d \in Producers(m, k) PROVE d = c
  BY <1>1 DEF OneProducer
<1> QED BY <1>2, KeyChange

\* Where an update that is on its way comes from: its write, or the same update
\* one step earlier.
LEMMA UpdatingFrom ==
    ASSUME IndInv, [Next]_vars, NEW c \in Callers, NEW m, NEW k, Updating(c, m, k)'
    PROVE  /\ req'[c] = req[c]
           /\ Updating(c, m, k) \/ WriteCache(c)
<1>0. pc \in [Callers -> PC] /\ req \in [Callers -> Request \cup {Absent}]
  BY DEF IndInv, TypeOK
<1>1. /\ pc'[c] \in {"share", "notify"} /\ req'[c].op \in UpdateOp
      /\ m \in Handlers[req'[c].op].maps /\ req'[c].slot = k
  BY DEF Updating
<1>2. ASSUME pc[c] \in {"share", "notify"}, req'[c] = req[c]
      PROVE  Updating(c, m, k)
  BY <1>1, <1>2 DEF Updating
<1>3. CASE SameCall(c)
  BY <1>1, <1>2, <1>3 DEF SameCall
<1>4. CASE LockShared(c) \/ NotifyRecord(c)
  BY <1>2, <1>4 DEF LockShared, NotifyRecord
<1>5. CASE WriteCache(c)
  BY <1>5 DEF WriteCache
<1>6. CASE Call(c)
  <2>1. PICK q \in Requests[c] :
            /\ req' = [req EXCEPT ![c] = q]
            /\ \/ q.op \in UpdateOp /\ BeginUpdate(c, q)
               \/ q.op \in {"Register", "Unregister", "Get", "Dump", "OnStart", "OnStop"}
    BY <1>6 DEF Call
  <2>2. q = req'[c]
    BY <1>0, <2>1
  <2>3. q.op \notin {"Register", "Unregister", "Get", "Dump", "OnStart", "OnStop"}
    BY <1>1, <2>2 DEF UpdateOp, Handlers
  <2>4. BeginUpdate(c, q) /\ Handlers[q.op].maps # {}
    BY <1>1, <2>1, <2>2, <2>3
  <2>5. pc'[c] \in {"returned", "lock"}
    BY <1>0, <2>4 DEF BeginUpdate, Reject, Accept, Return, Goto
  <2> QED BY <1>1, <2>5
<1>7. CASE Reply(c) \/ LockUnique(c) \/ DumpQuery(c)
  BY <1>0, <1>1, <1>7 DEF Reply, LockUnique, DumpQuery, Goto
<1>8. CASE Drained(c) \/ DumpSlot(c) \/ GetXxx(c) \/ DumpDone(c) \/ FinishUpdate(c)
  BY <1>0, <1>1, <1>8 DEF Drained, DumpSlot, GetXxx, DumpDone, FinishUpdate, Return, Goto
<1>9. CASE RegisterStateChange(c) \/ UnregisterStateChange(c) \/ OnStart(c) \/ OnStop(c)
  BY <1>0, <1>1, <1>9
  DEF RegisterStateChange, UnregisterStateChange, OnStart, OnStop, Return, Goto
<1> QED BY <1>3, <1>4, <1>5, <1>6, <1>7, <1>8, <1>9, PcStep DEF Locked

\* Every step keeps what the updates on their way have written.
LEMMA WrittenIsStoredStep ==
    ASSUME IndInv, WrittenIsStored, [Next]_vars
    PROVE  WrittenIsStored'
<1> SUFFICES ASSUME NEW c \in Callers, NEW m \in CacheMap,
                    Updating(c, m, req[c].slot)', OneProducer(m, req'[c].slot)
             PROVE  cache'[m][req'[c].slot] = Written(m, req'[c])
  BY DEF WrittenIsStored, OneProducer, Producers, Written
<1>1. /\ req'[c] = req[c]
      /\ Updating(c, m, req[c].slot) \/ WriteCache(c)
  <2>1. PICK k : k = req'[c].slot
    OBVIOUS
  <2>2. Updating(c, m, k)'
    BY <2>1 DEF Updating
  <2> QED BY <2>1, <2>2, UpdatingFrom
<1>2. /\ req[c].op \in UpdateOp /\ m \in Handlers[req[c].op].maps
      /\ pc[c] \in {"share", "notify", "unique"}
  BY <1>1 DEF Updating, WriteCache
<1>3. req[c] \in Request /\ req[c].slot \in RecordSlot
  BY <1>2, RequestsAssumption DEF IndInv, RequestOK, Stored
<1>4. Written(m, req[c]) \in Int
  BY <1>3 DEF Written, Request
<1>5. CASE Updating(c, m, req[c].slot)
  <2>1. cache[m][req[c].slot] = Written(m, req[c])
    BY <1>1, <1>5 DEF WrittenIsStored
  <2>2. cache'[m][req[c].slot] = cache[m][req[c].slot]
    BY <1>1, <1>3, <1>4, <1>5, <2>1, StoredKept, ConstantsAssumption
  <2> QED BY <1>1, <2>1, <2>2
<1>6. CASE WriteCache(c)
  <2>1. cache[m] \in [RecordSlot -> Int \cup {Absent}]
    BY DEF IndInv, TypeOK
  <2>2. cache'[m] = [cache[m] EXCEPT ![req[c].slot] = Written(m, req[c])]
    BY <1>2, <1>6 DEF WriteCache
  <2> QED BY <1>1, <1>3, <2>1, <2>2
<1> QED BY <1>1, <1>5, <1>6

\* Between its write and its return an update of a key with one producer finds
\* its own value in the map, whatever registers, unregisters or queries.
LEMMA WrittenIsStoredInvariance == Spec => []WrittenIsStored
<1>1. Init => WrittenIsStored
  BY DEF Init, WrittenIsStored, Updating
<1>2. IndInv /\ WrittenIsStored /\ [Next]_vars => WrittenIsStored'
  BY WrittenIsStoredStep
<1> QED BY <1>1, <1>2, Invariance, PTL DEF Spec

-----------------------------------------------------------------------------
(* The common events follow the maps. *)

\* An update of key k of map m that has yet to deal with record i.
Pending(c, m, k, i) == Updating(c, m, k) /\ (pc[c] = "notify" => idx[c] <= i)

\* An update stays on its way until its own loop passes or ends.
LEMMA PendingKept ==
    ASSUME IndInv, [Next]_vars, NEW c \in Callers, NEW m, NEW k, NEW i \in Nat \ {0},
           Pending(c, m, k, i)
    PROVE  \/ Pending(c, m, k, i)'
           \/ NotifyRecord(c) /\ Updating(c, m, k)'
           \/ FinishUpdate(c)
<1>0. pc \in [Callers -> PC] /\ idx \in [Callers -> Nat]
  BY DEF IndInv, TypeOK
<1>1. /\ pc[c] \in {"share", "notify"} /\ req[c].op \in UpdateOp
      /\ m \in Handlers[req[c].op].maps /\ req[c].slot = k
      /\ pc[c] = "notify" => idx[c] <= i
  BY DEF Pending, Updating
<1>2. CASE SameCall(c)
  BY <1>1, <1>2 DEF SameCall, Pending, Updating
<1>3. CASE LockShared(c)
  <2>1. req[c].op \notin {"Get", "Dump"}
    BY <1>1 DEF UpdateOp, Handlers
  <2>2. pc'[c] = "notify" /\ idx'[c] = 1 /\ req' = req
    BY <1>0, <1>3, <2>1 DEF LockShared, Goto
  <2> QED BY <1>1, <2>2 DEF Pending, Updating
<1>4. CASE NotifyRecord(c)
  BY <1>1, <1>4 DEF NotifyRecord, Updating
<1>5. ~Call(c) /\ ~Reply(c) /\ ~LockUnique(c) /\ ~DumpQuery(c) /\ ~Drained(c) /\ ~WriteCache(c)
  BY <1>1 DEF Call, Reply, LockUnique, DumpQuery, Drained, WriteCache
<1>6. /\ ~RegisterStateChange(c) /\ ~UnregisterStateChange(c) /\ ~OnStart(c) /\ ~OnStop(c)
      /\ ~GetXxx(c) /\ ~DumpSlot(c) /\ ~DumpDone(c)
  BY <1>1 DEF RegisterStateChange, UnregisterStateChange, OnStart, OnStop, GetXxx, DumpSlot, DumpDone
<1> QED BY <1>2, <1>3, <1>4, <1>5, <1>6, PcStep DEF Locked

\* The update that begins is on its way for every record.
LEMMA PendingBegins ==
    ASSUME IndInv, [Next]_vars, NEW c \in Callers, NEW m, NEW k, NEW i,
           ~Updating(c, m, k), Updating(c, m, k)'
    PROVE  Pending(c, m, k, i)'
<1>1. WriteCache(c)
  BY UpdatingFrom
<1>2. pc'[c] = "share"
  BY <1>1 DEF WriteCache, Goto, IndInv, TypeOK
<1> QED BY <1>2 DEF Pending

\* A handler publishes the topics of the maps it stores and no others.
LEMMA TopicTable ==
    ASSUME NEW op \in UpdateOp, NEW t \in Topic
    PROVE  t \in Handlers[op].topics <=> TopicMap(t) \in Handlers[op].maps
  BY DEF UpdateOp, Topic, TopicMap, CallTopics, Handlers, Handler, UpdateCallState,
     UpdateCallStateForSlotId, UpdateCellularDataConnectState, UpdateCellularDataFlow, UpdateSimState,
     UpdateSignalInfo, UpdateCellInfo, UpdateNetworkState, UpdateCfuIndicator, UpdateIccAccount,
     UpdateVoiceMailMsgIndicator, UpdateSimActiveState, UpdateVoIPCallState

\* The map a topic reports is one of the maps, and not that of the numbers.
LEMMA TopicMapType ==
    ASSUME NEW t \in Topic
    PROVE  TopicMap(t) \in CacheMap \ {"callIncomingNumber_"}
  BY DEF Topic, CallTopics, TopicMap, CacheMap

\* The event of a topic and slot tells what the maps hold.
EventIsCurrent(t, k) ==
    /\ lastEvent[t][k].val = cache[TopicMap(t)][k]
    /\ t = "CALL_STATE_CHANGED_WITH_NUMBER" => lastEvent[t][k].num = cache["callIncomingNumber_"][k]

\* EventsFollowCache, of one topic and slot.
EventFollows(t, k) ==
    \/ lastEvent[t][k] = Absent
    \/ lastEvent[t][k].by = "boot"
    \/ ~OneProducer(TopicMap(t), k)
    \/ \E c \in Callers : Updating(c, TopicMap(t), k)
    \/ EventIsCurrent(t, k)

\* When no publication fails, an update that ends publishes all its events, each
\* with the value that its maps still hold.
LEMMA FinishPublishes ==
    ASSUME IndInv, WrittenIsStored, FALSE \notin PublishResults,
           NEW c \in Callers, FinishUpdate(c), NEW t \in Topic, NEW k \in RecordSlot
    PROVE  \/ /\ Updating(c, TopicMap(t), k)
              /\ OneProducer(TopicMap(t), k) => EventIsCurrent(t, k)'
           \/ /\ ~Updating(c, TopicMap(t), k)
              /\ lastEvent'[t][k] = lastEvent[t][k]
<1> DEFINE q == req[c]
           topics == Handlers[q.op].topics
           m == TopicMap(t)
<1>0. lastEvent[t] \in [RecordSlot -> Event \cup {Absent}]
  BY DEF IndInv, TypeOK
<1>1. q \in Request /\ q.op \in UpdateOp /\ q.slot \in RecordSlot /\ pc[c] = "notify"
  BY RequestsAssumption DEF IndInv, RequestOK, FinishUpdate, Stored
<1>2. PICK sent \in Published(topics) :
          lastEvent' = [s \in Topic |->
                           IF s \in sent
                           THEN [lastEvent[s] EXCEPT ![q.slot] = EventOf(s, q.val, q.num, "update")]
                           ELSE lastEvent[s]]
  BY DEF FinishUpdate, Publish
<1>3. sent = topics
  BY DEF Published
<1>4. t \in topics <=> m \in Handlers[q.op].maps
  BY <1>1, TopicTable
<1>5. Updating(c, m, k) <=> t \in topics /\ q.slot = k
  BY <1>1, <1>4 DEF Updating
<1>6. CASE ~Updating(c, m, k)
  BY <1>0, <1>2, <1>3, <1>5, <1>6
<1>7. CASE Updating(c, m, k)
  <2>1. lastEvent'[t][k] = EventOf(t, q.val, q.num, "update")
    BY <1>0, <1>1, <1>2, <1>3, <1>5, <1>7
  <2>2. cache' = cache
    BY DEF FinishUpdate, data
  <2>3. ASSUME OneProducer(m, k) PROVE cache[m][k] = q.val
    BY <1>5, <1>7, <2>3, TopicMapType DEF WrittenIsStored, Written
  <2>4. ASSUME OneProducer(m, k), t = "CALL_STATE_CHANGED_WITH_NUMBER"
        PROVE  cache["callIncomingNumber_"][k] = q.num
    <3>1. m = "callState_"
      BY <2>4 DEF TopicMap, CallTopics
    <3>2. "callIncomingNumber_" \in Handlers[q.op].maps
      BY <1>1, <1>4, <1>5, <1>7, <3>1, CallHandlers, PlainHandlers
    <3>3. Updating(c, "callIncomingNumber_", k) /\ OneProducer("callIncomingNumber_", k)
      BY <1>7, <2>4, <3>1, <3>2, NumberProducers DEF Updating
    <3> QED BY <1>5, <1>7, <3>3 DEF WrittenIsStored, Written, CacheMap
  <2>5. OneProducer(m, k) => EventIsCurrent(t, k)'
    BY <2>1, <2>2, <2>3, <2>4 DEF EventIsCurrent, EventOf
  <2> QED BY <1>7, <2>5
<1> QED BY <1>6, <1>7

\* Only the end of an update and the task of OnStart publish.
LEMMA EventPublishers ==
    ASSUME IndInv, [Next]_vars
    PROVE  \/ UNCHANGED lastEvent
           \/ \E c \in Callers : FinishUpdate(c)
           \/ \E b \in BootThreads : BootPublish(b)
<1>1. ASSUME NEW d \in Callers, Call(d) PROVE UNCHANGED lastEvent
  BY <1>1, CallShape DEF Reject, Accept, start
<1>2. ASSUME NEW d \in Callers,
             LockUnique(d) \/ LockShared(d) \/ DumpQuery(d) \/ Reply(d) \/ Drained(d) \/ OnStart(d)
             \/ OnStop(d) \/ UnregisterStateChange(d) \/ RegisterStateChange(d) \/ WriteCache(d)
             \/ NotifyRecord(d) \/ GetXxx(d) \/ DumpSlot(d) \/ DumpDone(d)
      PROVE  UNCHANGED lastEvent
  BY <1>2 DEF LockUnique, LockShared, DumpQuery, Reply, Drained, OnStart, OnStop,
     UnregisterStateChange, RegisterStateChange, WriteCache, NotifyRecord, GetXxx, DumpSlot,
     DumpDone, start
<1>3. ASSUME NEW b \in BootThreads, BootNoEventService(b) PROVE UNCHANGED lastEvent
  BY <1>3 DEF BootNoEventService
<1>4. ASSUME NEW tp \in Revocable, TogglePermission(tp[1], tp[2]) PROVE UNCHANGED lastEvent
  BY <1>4 DEF TogglePermission, start
<1> QED BY <1>1, <1>2, <1>3, <1>4 DEF Next, Locked, Boot, vars

\* What an event tells changes in the maps only when an update of it begins.
LEMMA EventStaysCurrent ==
    ASSUME IndInv, [Next]_vars, NEW t \in Topic, NEW k \in RecordSlot,
           lastEvent[t][k] # Absent, EventIsCurrent(t, k), lastEvent'[t][k] = lastEvent[t][k]
    PROVE  EventIsCurrent(t, k)' \/ \E c \in Callers : Updating(c, TopicMap(t), k)'
<1>1. lastEvent[t][k].val \in Int /\ lastEvent[t][k].num \in Int
  BY DEF IndInv, TypeOK, Event
<1>2. TopicMap(t) \in CacheMap /\ "callIncomingNumber_" \in CacheMap
  BY TopicMapType DEF CacheMap
<1>3. \/ cache'[TopicMap(t)][k] = cache[TopicMap(t)][k]
      \/ \E c \in Callers : Updating(c, TopicMap(t), k)'
  <2>1. cache[TopicMap(t)][k] # Absent
    BY <1>1, ConstantsAssumption DEF EventIsCurrent
  <2> QED BY <1>2, <2>1, KeyChange DEF Producers
<1>4. ASSUME t = "CALL_STATE_CHANGED_WITH_NUMBER"
      PROVE  \/ cache'["callIncomingNumber_"][k] = cache["callIncomingNumber_"][k]
             \/ \E c \in Callers : Updating(c, TopicMap(t), k)'
  <2>1. cache["callIncomingNumber_"][k] # Absent
    BY <1>1, <1>4, ConstantsAssumption DEF EventIsCurrent
  <2>2. ASSUME NEW c \in Callers, Updating(c, "callIncomingNumber_", k)'
        PROVE  Updating(c, TopicMap(t), k)'
    <3>1. TopicMap(t) = "callState_"
      BY <1>4 DEF TopicMap, CallTopics
    <3>2. ASSUME NEW op \in UpdateOp, "callIncomingNumber_" \in Handlers[op].maps
          PROVE  "callState_" \in Handlers[op].maps
      BY <3>2, CallHandlers, PlainHandlers
    <3> QED BY <2>2, <3>1, <3>2 DEF Updating
  <2> QED BY <1>2, <2>1, <2>2, KeyChange DEF Producers
<1> QED BY <1>3, <1>4 DEF EventIsCurrent

\* Every step keeps the events in line with the maps.
LEMMA EventFollowsStep ==
    ASSUME IndInv, WrittenIsStored, FALSE \notin PublishResults, [Next]_vars,
           NEW t \in Topic, NEW k \in RecordSlot, EventFollows(t, k)
    PROVE  EventFollows(t, k)'
<1>0. OneProducer(TopicMap(t), k)' <=> OneProducer(TopicMap(t), k)
  BY DEF OneProducer, Producers, TopicMap
<1>1. ASSUME NEW c \in Callers, FinishUpdate(c), Updating(c, TopicMap(t), k)
      PROVE  EventFollows(t, k)'
  <2>1. OneProducer(TopicMap(t), k) => EventIsCurrent(t, k)'
    BY <1>1, FinishPublishes
  <2> QED BY <1>0, <2>1 DEF EventFollows
<1>2. ASSUME lastEvent'[t][k] = lastEvent[t][k],
             \A c \in Callers : Updating(c, TopicMap(t), k) => ~FinishUpdate(c)
      PROVE  EventFollows(t, k)'
  <2>1. CASE \E c \in Callers : Updating(c, TopicMap(t), k)
    <3>1. PICK c \in Callers : Updating(c, TopicMap(t), k)
      BY <2>1
    <3>2. PICK i \in Nat \ {0} : i >= idx[c]
      <4>1. idx[c] + 1 \in Nat \ {0} /\ idx[c] + 1 >= idx[c]
        BY DEF IndInv, TypeOK
      <4> QED BY <4>1
    <3>3. Pending(c, TopicMap(t), k, i)
      <4>1. idx[c] \in Nat
        BY DEF IndInv, TypeOK
      <4> QED BY <3>1, <3>2, <4>1 DEF Pending
    <3>4. Updating(c, TopicMap(t), k)'
      BY <1>2, <3>1, <3>3, PendingKept DEF Pending
    <3> QED BY <3>4 DEF EventFollows
  <2>2. CASE EventIsCurrent(t, k) /\ lastEvent[t][k] # Absent
    BY <1>2, <2>2, EventStaysCurrent DEF EventFollows
  <2> QED BY <1>0, <1>2, <2>1, <2>2 DEF EventFollows
<1>3. CASE UNCHANGED lastEvent
  BY <1>1, <1>2, <1>3
<1>4. ASSUME NEW c \in Callers, FinishUpdate(c)
      PROVE  EventFollows(t, k)'
  <2>1. CASE Updating(c, TopicMap(t), k)
    BY <1>1, <1>4, <2>1
  <2>2. CASE ~Updating(c, TopicMap(t), k)
    <3>1. lastEvent'[t][k] = lastEvent[t][k]
      BY <1>4, <2>2, FinishPublishes
    <3> QED BY <1>1, <1>2, <3>1
  <2> QED BY <2>1, <2>2
<1>5. ASSUME NEW b \in BootThreads, BootPublish(b)
      PROVE  EventFollows(t, k)'
  <2>0. lastEvent[t] \in [RecordSlot -> Event \cup {Absent}]
    BY DEF IndInv, TypeOK
  <2>1. lastEvent'[t] = lastEvent[t]
           \/ lastEvent'[t] =
                 [lastEvent[t] EXCEPT ![boot[b]] = EventOf(t, CALL_STATUS_DISCONNECTED, NoNumber, "boot")]
    BY <1>5 DEF BootPublish, Publish
  <2>2. lastEvent'[t][k] = lastEvent[t][k] \/ lastEvent'[t][k].by = "boot"
    BY <2>0, <2>1 DEF EventOf
  <2>3. CASE lastEvent'[t][k] = lastEvent[t][k]
    BY <1>1, <1>2, <2>3
  <2> QED BY <2>2, <2>3 DEF EventFollows
<1> QED BY <1>3, <1>4, <1>5, EventPublishers

\* Whatever updates, start-ups and registrations interleave, the last common
\* event of a slot tells what the maps hold once no update of that key is on its
\* way, for keys with one producer and when publishing works.
THEOREM EventsFollow == Spec => []EventsFollowCache
<1> DEFINE Follows == FALSE \notin PublishResults =>
                         \A t \in Topic, k \in RecordSlot : EventFollows(t, k)
<1>1. EventsFollowCache <=> Follows
  BY DEF EventsFollowCache, EventFollows, EventIsCurrent
<1>2. Init => Follows
  BY DEF Init, EventFollows
<1>3. IndInv /\ WrittenIsStored /\ Follows /\ [Next]_vars => Follows'
  BY EventFollowsStep
<1> HIDE DEF Follows
<1> QED BY <1>1, <1>2, <1>3, Invariance, WrittenIsStoredInvariance, PTL DEF Spec

-----------------------------------------------------------------------------
(* What each step tells whom. *)

\* Only a turn of the loop, a registration and its end touch the table or what
\* observers were told.
LEMMA ToldChangers ==
    ASSUME IndInv, [Next]_vars
    PROVE  \/ UNCHANGED <<stateRecords_, told>>
           \/ \E d \in Callers :
                 NotifyRecord(d) \/ RegisterStateChange(d) \/ UnregisterStateChange(d)
<1>1. ASSUME NEW d \in Callers, Call(d) PROVE UNCHANGED <<stateRecords_, told>>
  BY <1>1, CallShape DEF Reject, Accept, data
<1>2. ASSUME NEW d \in Callers,
             LockUnique(d) \/ LockShared(d) \/ DumpQuery(d) \/ Reply(d) \/ Drained(d) \/ OnStart(d)
             \/ OnStop(d) \/ WriteCache(d) \/ FinishUpdate(d) \/ GetXxx(d) \/ DumpSlot(d)
             \/ DumpDone(d)
      PROVE  UNCHANGED <<stateRecords_, told>>
  BY <1>2 DEF LockUnique, LockShared, DumpQuery, Reply, Drained, OnStart, OnStop,
     WriteCache, FinishUpdate, GetXxx, DumpSlot, DumpDone, data
<1>3. ASSUME NEW b \in BootThreads, Boot(b) PROVE UNCHANGED <<stateRecords_, told>>
  BY <1>3 DEF Boot, BootPublish, BootNoEventService, data
<1>4. ASSUME NEW tp \in Revocable, TogglePermission(tp[1], tp[2])
      PROVE  UNCHANGED <<stateRecords_, told>>
  BY <1>4 DEF TogglePermission, data
<1> QED BY <1>1, <1>2, <1>3, <1>4 DEF Next, Locked, vars

\* What update q tells record r of this bit.
SentBy(q, bit, r) == [val |-> q.val, num |-> NumberFor(q, bit, r)]

\* A turn of the loop deals with one record of the table and tells its observer
\* of one bit, or tells nobody.
LEMMA NotifyTold ==
    ASSUME IndInv, Traversal, NEW c \in Callers, NotifyRecord(c)
    PROVE  /\ idx[c] \in DOMAIN stateRecords_ /\ idx'[c] = idx[c] + 1
           /\ req[c] \in Request /\ req[c].op \in UpdateOp /\ req[c].slot \in RecordSlot
           /\ UNCHANGED <<stateRecords_, pc, req>>
           /\ \/ Called(req[c], stateRecords_[idx[c]]) = {} /\ told' = told
              \/ \E bit \in Called(req[c], stateRecords_[idx[c]]) :
                    told' = [told EXCEPT ![stateRecords_[idx[c]].telephonyObserver_][bit][req[c].slot] =
                                SentBy(req[c], bit, stateRecords_[idx[c]])]
<1>1. idx[c] \in DOMAIN stateRecords_
  BY DEF NotifyRecord, InLoop, IndInv, TypeOK, Traversal
<1>2. req[c] \in Request /\ req[c].op \in UpdateOp /\ req[c].slot \in RecordSlot
  BY RequestsAssumption DEF IndInv, RequestOK, NotifyRecord, Stored
<1>3. UNCHANGED <<stateRecords_, pc, req>> /\ idx'[c] = idx[c] + 1
  BY DEF NotifyRecord, IndInv, TypeOK
<1>4. \/ Called(req[c], stateRecords_[idx[c]]) = {} /\ told' = told
      \/ \E bit \in Called(req[c], stateRecords_[idx[c]]) :
            told' = [told EXCEPT ![stateRecords_[idx[c]].telephonyObserver_][bit][req[c].slot] =
                        SentBy(req[c], bit, stateRecords_[idx[c]])]
  BY DEF NotifyRecord, Tell, SentBy
<1> QED BY <1>1, <1>2, <1>3, <1>4

\* Telling one observer of one bit and slot leaves every other entry as it was.
LEMMA OneEntry ==
    ASSUME TypeOK, NEW f \in Observers, NEW b \in Masks, NEW n \in RecordSlot, NEW s,
           told' = [told EXCEPT ![f][b][n] = s],
           NEW o \in Observers, NEW bit \in Masks, NEW k \in RecordSlot
    PROVE  told'[o][bit][k] = IF o = f /\ bit = b /\ k = n THEN s ELSE told[o][bit][k]
<1>1. told \in [Observers -> [Masks -> [RecordSlot -> Sent \cup {Absent}]]]
  BY DEF TypeOK
<1>2. CASE o # f
  BY <1>1, <1>2
<1>3. CASE o = f /\ bit # b
  BY <1>1, <1>3
<1>4. CASE o = f /\ bit = b
  BY <1>1, <1>4
<1> QED BY <1>2, <1>3, <1>4

\* What the replay of a registration sends its observer of this bit.
Replay(bit, r) ==
    [val |-> ReplayedValue(bit, r.slotId_),
     num |-> IF ReplaysNumber(bit, r) THEN Value("callIncomingNumber_", r.slotId_) ELSE NoNumber]

\* A registration finds its record or appends it, and replays nothing, or every
\* bit of the record it may replay.
LEMMA RegisterTold ==
    ASSUME IndInv, NEW c \in Callers, RegisterStateChange(c)
    PROVE  \E record \in Record :
              /\ \/ /\ stateRecords_' = Append(stateRecords_, record)
                    /\ \A j \in DOMAIN stateRecords_ : ~SameKey(stateRecords_[j], record)
                 \/ /\ stateRecords_' = stateRecords_
                    /\ \E i \in DOMAIN stateRecords_ : stateRecords_[i] = record
              /\ \/ UNCHANGED <<cache, told>>
                 \/ UpdateData(record)
<1> DEFINE new == NewRecord(c, req[c])
           old == Matching(new)
           record == IF old = {} THEN new ELSE stateRecords_[Min(old)]
<1>1. stateRecords_ \in Seq(Record)
  BY DEF IndInv, TypeOK
<1>2. req[c] \in Request /\ req[c].slot \in RecordSlot
  BY RequestsAssumption DEF IndInv, RequestOK, RegisterStateChange, Stored
<1>3. new \in Record
  BY <1>2, NewRecordType
<1>4. record \in Record
  BY <1>1, <1>3, OneMatch DEF IndInv
<1>5. UNCHANGED <<cache, told>> \/ UpdateData(record)
  BY DEF RegisterStateChange
<1>6. CASE old = {}
  <2>1. stateRecords_' = Append(stateRecords_, record)
    BY <1>6 DEF RegisterStateChange, AddRecord
  <2>2. \A j \in DOMAIN stateRecords_ : ~SameKey(stateRecords_[j], record)
    BY <1>6 DEF Matching
  <2> HIDE DEF record
  <2> QED BY <1>4, <1>5, <2>1, <2>2
<1>7. CASE old # {}
  <2>1. stateRecords_' = stateRecords_
    BY <1>7 DEF RegisterStateChange, AddRecord
  <2>2. Min(old) \in DOMAIN stateRecords_
    BY <1>1, <1>7, OneMatch DEF IndInv
  <2>3. \E i \in DOMAIN stateRecords_ : stateRecords_[i] = record
    BY <1>7, <2>2
  <2> HIDE DEF record
  <2> QED BY <1>4, <1>5, <2>1, <2>3
<1> QED BY <1>6, <1>7

\* The entries a replay changes.
LEMMA ReplayTold ==
    ASSUME TypeOK, NEW r \in Record, UpdateData(r),
           NEW o \in Observers, NEW bit \in Masks, NEW k \in RecordSlot
    PROVE  told'[o][bit][k] =
              IF o = r.telephonyObserver_ /\ bit \in ReplayedBits(r) /\ k = r.slotId_
              THEN Replay(bit, r) ELSE told[o][bit][k]
<1> DEFINE f == r.telephonyObserver_
           told_f == [b \in Masks |-> IF b \in ReplayedBits(r)
                                      THEN [told[f][b] EXCEPT ![r.slotId_] = Replay(b, r)]
                                      ELSE told[f][b]]
<1>1. told \in [Observers -> [Masks -> [RecordSlot -> Sent \cup {Absent}]]] /\ f \in Observers
  BY DEF TypeOK, Record
<1>2. told' = [told EXCEPT ![f] = told_f]
  BY DEF UpdateData, Replay
<1>3. told_f[bit] = IF bit \in ReplayedBits(r)
                    THEN [told[f][bit] EXCEPT ![r.slotId_] = Replay(bit, r)] ELSE told[f][bit]
  OBVIOUS
<1> HIDE DEF told_f, f
<1>4. o # f => told'[o] = told[o]
  BY <1>1, <1>2
<1>5. o = f => told'[o] = told_f
  BY <1>1, <1>2
<1>6. told[f][bit] \in [RecordSlot -> Sent \cup {Absent}]
  BY <1>1
<1> QED BY <1>3, <1>4, <1>5, <1>6 DEF f

\* The entries the end of a registration makes forgotten.
LEMMA ForgetTold ==
    ASSUME TypeOK, NEW r \in Record, Forget(r),
           NEW o \in Observers, NEW bit \in Masks, NEW k \in RecordSlot
    PROVE  told'[o][bit][k] = IF Hears(r, o, bit, k) THEN Absent ELSE told[o][bit][k]
<1> DEFINE f == r.telephonyObserver_
           forgotten == [b \in Masks |->
                            [n \in RecordSlot |->
                                IF b \in r.mask_ /\ n \in HeardSlots(r, b)
                                THEN Absent ELSE told[f][b][n]]]
<1>1. told \in [Observers -> [Masks -> [RecordSlot -> Sent \cup {Absent}]]] /\ f \in Observers
  BY DEF TypeOK, Record
<1>2. told' = [told EXCEPT ![f] = forgotten]
  BY DEF Forget
<1>3. forgotten[bit][k] = IF bit \in r.mask_ /\ k \in HeardSlots(r, bit)
                          THEN Absent ELSE told[f][bit][k]
  OBVIOUS
<1> HIDE DEF forgotten, f
<1>4. told'[o] = IF o = f THEN forgotten ELSE told[o]
  BY <1>1, <1>2
<1> QED BY <1>3, <1>4 DEF Hears, f

\* Every record but the erased one is still in the table.
LEMMA RemoveAtKeeps ==
    ASSUME NEW S, NEW s \in Seq(S), NEW i \in 1 .. Len(s), NEW j \in DOMAIN s, j # i
    PROVE  \E n \in DOMAIN RemoveAt(s, i) : RemoveAt(s, i)[n] = s[j]
<1>0. Len(s) \in Nat /\ i \in Nat /\ j \in 1 .. Len(s)
  OBVIOUS
<1>1. /\ DOMAIN RemoveAt(s, i) = 1 .. Len(s) - 1
      /\ \A n \in 1 .. Len(s) - 1 : RemoveAt(s, i)[n] = IF n < i THEN s[n] ELSE s[n + 1]
  BY RemoveAtProperties
<1>2. CASE j < i
  <2>1. j \in 1 .. Len(s) - 1
    BY <1>0, <1>2
  <2> QED BY <1>1, <1>2, <2>1
<1>3. CASE j > i
  <2>1. j - 1 \in 1 .. Len(s) - 1 /\ ~(j - 1 < i) /\ (j - 1) + 1 = j
    BY <1>0, <1>3
  <2>2. RemoveAt(s, i)[j - 1] = s[(j - 1) + 1]
    BY <1>1, <2>1
  <2> QED BY <1>1, <2>1, <2>2
<1> QED BY <1>0, <1>2, <1>3

-----------------------------------------------------------------------------
(* Observers are told what the maps hold. *)

\* A bit whose callbacks depend on nothing else has a map of its own.
LEMMA PlainBitType ==
    ASSUME NEW bit \in PlainBits
    PROVE  /\ bit \in Masks /\ bit \in ObserverMask
           /\ StateMap(bit) \in CacheMap \ {"callIncomingNumber_", "none"}
           /\ StateMap(bit) = "callState_" <=> bit = "CALL_STATE"
<1>1. bit \in Masks /\ bit \in ObserverMask
  BY ConstantsAssumption DEF PlainBits
<1> QED BY <1>1, MapTable DEF PlainBits, ObserverMask, CallBits, CacheMap

\* Whoever counts as told of something is still registered for it, after every
\* step.
LEMMA ToldIsHeardStep ==
    ASSUME IndInv, Traversal, ToldIsHeard, [Next]_vars
    PROVE  ToldIsHeard'
<1> SUFFICES ASSUME NEW o \in Observers, NEW bit \in PlainBits, NEW k \in RecordSlot,
                    told'[o][bit][k] # Absent
             PROVE  /\ o # NullObserver
                    /\ \E i \in DOMAIN stateRecords_' : Hears(stateRecords_'[i], o, bit, k)
  BY DEF ToldIsHeard, PlainBits, Hears, HeardSlots
<1>0. /\ TypeOK /\ stateRecords_ \in Seq(Record)
      /\ DOMAIN stateRecords_ = 1 .. Len(stateRecords_) /\ Len(stateRecords_) \in Nat
      /\ bit \in Masks /\ StateMap(bit) # "none"
  BY PlainBitType DEF IndInv, TypeOK
<1>1. told[o][bit][k] # Absent =>
          /\ o # NullObserver
          /\ \E i \in DOMAIN stateRecords_ : Hears(stateRecords_[i], o, bit, k)
  BY DEF ToldIsHeard
<1>2. CASE UNCHANGED <<stateRecords_, told>>
  BY <1>1, <1>2
<1>3. ASSUME NEW c \in Callers, NotifyRecord(c)
      PROVE  /\ o # NullObserver
             /\ \E i \in DOMAIN stateRecords_' : Hears(stateRecords_'[i], o, bit, k)
  <2> DEFINE q == req[c]
             r == stateRecords_[idx[c]]
  <2>1. /\ idx[c] \in DOMAIN stateRecords_ /\ UNCHANGED stateRecords_
        /\ q.op \in UpdateOp /\ q.slot \in RecordSlot
    BY <1>3, NotifyTold
  <2>2. r \in Record
    BY <1>0, <2>1
  <2>3. CASE told'[o][bit][k] = told[o][bit][k]
    BY <1>1, <2>1, <2>3
  <2>4. CASE told'[o][bit][k] # told[o][bit][k]
    <3>1. PICK b \in Called(q, r) :
              told' = [told EXCEPT ![r.telephonyObserver_][b][q.slot] = SentBy(q, b, r)]
      BY <1>3, <2>4, NotifyTold
    <3>2. b \in r.mask_ /\ b \in Masks /\ r.telephonyObserver_ \in Observers
      BY <2>1, <2>2, CalledShape DEF Record
    <3>3. o = r.telephonyObserver_ /\ bit = b /\ k = q.slot
      <4> DEFINE f == r.telephonyObserver_
                 n == q.slot
                 s == SentBy(q, b, r)
      <4>1. told' = [told EXCEPT ![f][b][n] = s] /\ f \in Observers /\ n \in RecordSlot
        BY <2>1, <3>1, <3>2
      <4> HIDE DEF f, n, s
      <4>2. o = f /\ bit = b /\ k = n
        BY <1>0, <2>4, <3>2, <4>1, OneEntry
      <4> QED BY <4>2 DEF f, n
    <3>4. r.telephonyObserver_ # NullObserver /\ Hears(r, o, bit, k)
      BY <1>0, <2>1, <3>3, CalledShape DEF Hears
    <3> QED BY <2>1, <3>3, <3>4
  <2> QED BY <2>3, <2>4
<1>4. ASSUME NEW c \in Callers, RegisterStateChange(c)
      PROVE  /\ o # NullObserver
             /\ \E i \in DOMAIN stateRecords_' : Hears(stateRecords_'[i], o, bit, k)
  <2>1. PICK record \in Record :
            /\ \/ stateRecords_' = Append(stateRecords_, record)
               \/ /\ stateRecords_' = stateRecords_
                  /\ \E i \in DOMAIN stateRecords_ : stateRecords_[i] = record
            /\ UNCHANGED <<cache, told>> \/ UpdateData(record)
    BY <1>4, RegisterTold
  <2>2. /\ \A i \in DOMAIN stateRecords_ :
              i \in DOMAIN stateRecords_' /\ stateRecords_'[i] = stateRecords_[i]
        /\ \E i \in DOMAIN stateRecords_' : stateRecords_'[i] = record
    <3>1. CASE stateRecords_' = Append(stateRecords_, record)
      <4>1. /\ DOMAIN stateRecords_' = 1 .. Len(stateRecords_) + 1
            /\ \A i \in 1 .. Len(stateRecords_) : stateRecords_'[i] = stateRecords_[i]
            /\ stateRecords_'[Len(stateRecords_) + 1] = record
        BY <1>0, <3>1
      <4>2. Len(stateRecords_) + 1 \in DOMAIN stateRecords_'
        BY <1>0, <4>1
      <4> QED BY <1>0, <4>1, <4>2
    <3> QED BY <2>1, <3>1
  <2>3. CASE told'[o][bit][k] = told[o][bit][k]
    BY <1>1, <2>2, <2>3
  <2>4. CASE told'[o][bit][k] # told[o][bit][k]
    <3>1. o = record.telephonyObserver_ /\ bit \in ReplayedBits(record) /\ k = record.slotId_
      BY <1>0, <2>1, <2>4, ReplayTold
    <3>2. o # NullObserver /\ Hears(record, o, bit, k)
      BY <3>1 DEF ReplayedBits, IsExistStateListener, Hears, HeardSlots
    <3> QED BY <2>2, <3>2
  <2> QED BY <2>3, <2>4
<1>5. ASSUME NEW c \in Callers, UnregisterStateChange(c)
      PROVE  /\ o # NullObserver
             /\ \E i \in DOMAIN stateRecords_' : Hears(stateRecords_'[i], o, bit, k)
  <2>1. CASE UNCHANGED <<stateRecords_, told>>
    BY <1>2, <2>1
  <2>2. ASSUME NEW i \in 1 .. Len(stateRecords_),
               stateRecords_' = RemoveAt(stateRecords_, i), Forget(stateRecords_[i])
        PROVE  /\ o # NullObserver
               /\ \E n \in DOMAIN stateRecords_' : Hears(stateRecords_'[n], o, bit, k)
    <3>1. stateRecords_[i] \in Record
      BY <1>0
    <3>2. told'[o][bit][k] = told[o][bit][k] /\ ~Hears(stateRecords_[i], o, bit, k)
      BY <1>0, <2>2, <3>1, ForgetTold
    <3>3. PICK j \in DOMAIN stateRecords_ : Hears(stateRecords_[j], o, bit, k)
      BY <1>1, <3>2
    <3>4. \E n \in DOMAIN stateRecords_' : stateRecords_'[n] = stateRecords_[j]
      BY <1>0, <2>2, <3>2, <3>3, RemoveAtKeeps
    <3> QED BY <1>1, <3>2, <3>3, <3>4
  <2> QED BY <1>5, <2>1, <2>2, UnregisterShape
<1> QED BY <1>2, <1>3, <1>4, <1>5, ToldChangers

\* What observers were told is forgotten when their registration ends, so that
\* told speaks of live registrations only.
LEMMA ToldIsHeardInvariance == Spec => []ToldIsHeard
<1>1. Init => ToldIsHeard
  BY PlainBitType DEF Init, ToldIsHeard
<1>2. IndInv /\ Traversal /\ ToldIsHeard /\ [Next]_vars => ToldIsHeard'
  BY ToldIsHeardStep
<1> QED BY <1>1, <1>2, Invariance, TraversalInvariance, PTL DEF Spec

\* Observer o was last told of this bit and slot what the map holds, with the
\* number that belongs to it or with none.
Current(o, bit, k) ==
    /\ told[o][bit][k].val = cache[StateMap(bit)][k]
    /\ bit = "CALL_STATE" => told[o][bit][k].num \in {NoNumber, Value("callIncomingNumber_", k)}

\* What Converged asks of an observer when no update is on its way to it.
Settled(o, bit, k) ==
    \/ told[o][bit][k] = Absent
    \/ ~OneProducer(StateMap(bit), k)
    \/ bit = "NETWORK_STATE" /\ cache[StateMap(bit)][k] = Null
    \/ Current(o, bit, k)

\* Converged, of one record.
ConvergedAt(i) ==
    LET r == stateRecords_[i]
    IN \A bit \in r.mask_ \cap PlainBits : \A k \in HeardSlots(r, bit) :
          \/ Settled(r.telephonyObserver_, bit, k)
          \/ \E c \in Callers : Pending(c, StateMap(bit), k, i)

\* A settled observer that is told nothing stays settled, until an update begins.
LEMMA SettledKept ==
    ASSUME IndInv, [Next]_vars, NEW o \in Observers, NEW bit \in PlainBits, NEW k \in RecordSlot,
           NEW i, Settled(o, bit, k), told'[o][bit][k] \in {told[o][bit][k], Absent}
    PROVE  Settled(o, bit, k)' \/ \E c \in Callers : Pending(c, StateMap(bit), k, i)'
<1> DEFINE m == StateMap(bit)
<1>0. /\ bit \in Masks /\ m \in CacheMap /\ "callIncomingNumber_" \in CacheMap
      /\ bit = "CALL_STATE" => m = "callState_"
      /\ told[o][bit][k] \in Sent \cup {Absent}
  BY PlainBitType DEF CacheMap, IndInv, TypeOK
<1>1. OneProducer(m, k)' <=> OneProducer(m, k)
  BY DEF OneProducer, Producers, StateMap
<1>2. CASE told'[o][bit][k] = Absent \/ ~OneProducer(m, k)
  BY <1>1, <1>2 DEF Settled
<1>3. ASSUME cache[m][k] # Absent
      PROVE  \/ cache'[m][k] = cache[m][k]
             \/ \E c \in Callers : Pending(c, m, k, i)'
  BY <1>0, <1>3, KeyChange, PendingBegins DEF Producers
<1>4. CASE bit = "NETWORK_STATE" /\ cache[m][k] = Null
  BY <1>3, <1>4, ConstantsAssumption DEF Settled, Null
<1>5. CASE Current(o, bit, k) /\ told[o][bit][k] # Absent /\ told'[o][bit][k] = told[o][bit][k]
  <2>1. told[o][bit][k].val \in Int
    BY <1>0, <1>5 DEF Sent
  <2>2. cache[m][k] # Absent
    BY <1>5, <2>1, ConstantsAssumption DEF Current
  <2>3. ASSUME bit = "CALL_STATE"
        PROVE  \/ Value("callIncomingNumber_", k)' = Value("callIncomingNumber_", k)
               \/ \E c \in Callers : Pending(c, m, k, i)'
    <3>1. ASSUME NEW d \in Producers("callIncomingNumber_", k),
                 ~Updating(d, "callIncomingNumber_", k), Updating(d, "callIncomingNumber_", k)'
          PROVE  d \in Callers /\ Pending(d, m, k, i)'
      <4>1. d \in Callers
        BY DEF Producers
      <4>2. Pending(d, "callIncomingNumber_", k, i)'
        BY <3>1, <4>1, PendingBegins
      <4>3. ASSUME NEW op \in UpdateOp, "callIncomingNumber_" \in Handlers[op].maps
            PROVE  m \in Handlers[op].maps
        BY <1>0, <2>3, <4>3, CallHandlers, PlainHandlers
      <4> QED BY <4>1, <4>2, <4>3 DEF Pending, Updating
    <3> QED BY <1>0, <3>1, ValueChange
  <2> QED BY <1>3, <1>5, <2>2, <2>3 DEF Settled, Current
<1> QED BY <1>2, <1>4, <1>5 DEF Settled

\* So does a record, except that the loop of an update may pass it or end.
LEMMA StaysConverged ==
    ASSUME IndInv, [Next]_vars, NEW o \in Observers, NEW bit \in PlainBits, NEW k \in RecordSlot,
           NEW i \in Nat \ {0}, told'[o][bit][k] \in {told[o][bit][k], Absent},
           Settled(o, bit, k) \/ \E c \in Callers : Pending(c, StateMap(bit), k, i)
    PROVE  \/ Settled(o, bit, k)'
           \/ \E c \in Callers : Pending(c, StateMap(bit), k, i)'
           \/ \E c \in Callers : /\ Pending(c, StateMap(bit), k, i)
                                 /\ NotifyRecord(c) \/ FinishUpdate(c)
  BY SettledKept, PendingKept

\* What an update tells an observer is what the map holds.
LEMMA NotifySettles ==
    ASSUME IndInv, Traversal, WrittenIsStored, [Next]_vars, NEW c \in Callers, NotifyRecord(c),
           NEW bit \in PlainBits, bit \in Called(req[c], stateRecords_[idx[c]]),
           NEW o \in Observers, NEW k, k = req[c].slot,
           told'[o][bit][k] = SentBy(req[c], bit, stateRecords_[idx[c]])
    PROVE  Settled(o, bit, k)'
<1> DEFINE q == req[c]
           r == stateRecords_[idx[c]]
           m == StateMap(bit)
<1>0. /\ q \in Request /\ q.op \in UpdateOp /\ k \in RecordSlot /\ pc[c] = "notify"
      /\ m \in CacheMap \ {"callIncomingNumber_", "none"} /\ "callIncomingNumber_" \in CacheMap
  BY NotifyTold, PlainBitType DEF CacheMap, NotifyRecord
<1>1. m \in Handlers[q.op].maps /\ Updating(c, m, k)
  BY <1>0, CalledShape DEF Updating
<1>2. OneProducer(m, k)' <=> OneProducer(m, k)
  BY DEF OneProducer, Producers, StateMap
<1>3. SUFFICES ASSUME OneProducer(m, k) PROVE Current(o, bit, k)'
  BY <1>2 DEF Settled
<1>4. cache[m][k] = q.val /\ q.val \in Int
  BY <1>0, <1>1, <1>3 DEF WrittenIsStored, Written, Request
<1>5. cache'[m][k] = q.val
  BY <1>0, <1>1, <1>3, <1>4, StoredKept, ConstantsAssumption
<1>6. ASSUME bit = "CALL_STATE"
      PROVE  NumberFor(q, bit, r) \in {NoNumber, Value("callIncomingNumber_", k)'}
  <2>1. m = "callState_" /\ q.op \in CallOps
    BY <1>0, <1>6, MapTable, CalledShape DEF CallBits
  <2>2. Updating(c, "callIncomingNumber_", k) /\ OneProducer("callIncomingNumber_", k)
    BY <1>1, <1>3, <2>1, CallHandlers, NumberProducers DEF Updating
  <2>3. cache["callIncomingNumber_"][k] = q.num /\ q.num \in Int
    BY <1>0, <2>2 DEF WrittenIsStored, Written, Request
  <2>4. cache'["callIncomingNumber_"][k] = q.num
    BY <1>0, <2>2, <2>3, StoredKept, ConstantsAssumption
  <2>5. Value("callIncomingNumber_", k) = q.num /\ Value("callIncomingNumber_", k)' = q.num
    BY <2>3, <2>4, ConstantsAssumption DEF Value
  <2> QED BY <1>6, <2>5 DEF NumberFor
<1>7. (told'[o][bit][k]).val = q.val /\ (told'[o][bit][k]).num = NumberFor(q, bit, r)
  BY DEF SentBy
<1> QED BY <1>5, <1>6, <1>7 DEF Current

\* So is what a registration replays: a missing key reads 0 and is inserted.
LEMMA ReplaySettles ==
    ASSUME IndInv, NEW r \in Record, UpdateData(r), NEW bit \in PlainBits, bit \in ReplayedBits(r),
           NEW o \in Observers, NEW k, k = r.slotId_, told'[o][bit][k] = Replay(bit, r)
    PROVE  Settled(o, bit, k)'
<1> DEFINE m == StateMap(bit)
<1>0. /\ k \in RecordSlot /\ TypeOK /\ m \in CacheMap \ {"none"} /\ "callIncomingNumber_" \in CacheMap
      /\ cache[m] \in [RecordSlot -> Int \cup {Absent}] /\ bit # "CCALL_STATE"
  BY PlainBitType DEF CacheMap, Record, IndInv, TypeOK, PlainBits
<1>1. cache' = Inserted(ReplayedMaps(r), k) /\ m \in ReplayedMaps(r)
  BY DEF UpdateData, ReplayedMaps
<1>2. cache'[m][k] = Value(m, k)
  BY <1>0, <1>1 DEF Inserted, Value
<1>3. ReplayedValue(bit, k) = Value(m, k)
  BY <1>0 DEF ReplayedValue
<1>4. Value("callIncomingNumber_", k)' = Value("callIncomingNumber_", k)
  BY <1>0, <1>1, InsertedValue
<1>5. /\ (told'[o][bit][k]).val = ReplayedValue(bit, k)
      /\ (told'[o][bit][k]).num \in {NoNumber, Value("callIncomingNumber_", k)}
  BY DEF Replay
<1> QED BY <1>2, <1>3, <1>4, <1>5 DEF Settled, Current

\* The loop of an update passes a record only when its observer is up to date.
LEMMA PassedIsSettled ==
    ASSUME IndInv, Traversal, WrittenIsStored, ToldIsHeard, [Next]_vars,
           NEW c \in Callers, NotifyRecord(c), NEW i \in DOMAIN stateRecords_,
           NEW bit \in PlainBits, bit \in stateRecords_[i].mask_,
           NEW k \in HeardSlots(stateRecords_[i], bit), k \in RecordSlot,
           NEW o \in Observers, o = stateRecords_[i].telephonyObserver_,
           Pending(c, StateMap(bit), k, i), told'[o][bit][k] = told[o][bit][k]
    PROVE  Settled(o, bit, k)' \/ Pending(c, StateMap(bit), k, i)'
<1> DEFINE q == req[c]
           m == StateMap(bit)
           r == stateRecords_[i]
<1>0. /\ idx[c] \in DOMAIN stateRecords_ /\ idx'[c] = idx[c] + 1
      /\ q \in Request /\ q.op \in UpdateOp /\ q.slot \in RecordSlot
      /\ UNCHANGED <<stateRecords_, pc, req>> /\ pc[c] = "notify"
      /\ DOMAIN stateRecords_ = 1 .. Len(stateRecords_) /\ Len(stateRecords_) \in Nat
      /\ m \in CacheMap \ {"callIncomingNumber_", "none"} /\ bit \in Masks
      /\ stateRecords_ \in Seq(Record)
  <2>1. stateRecords_ \in Seq(Record) /\ pc[c] = "notify"
    BY DEF NotifyRecord, IndInv, TypeOK
  <2>2. DOMAIN stateRecords_ = 1 .. Len(stateRecords_) /\ Len(stateRecords_) \in Nat
    BY <2>1
  <2> QED BY <2>1, <2>2, NotifyTold, PlainBitType
<1>1. m \in Handlers[q.op].maps /\ q.slot = k /\ idx[c] <= i /\ Updating(c, m, k)
  BY <1>0 DEF Pending, Updating
<1>2. Updating(c, m, k)'
  BY <1>0, <1>1 DEF Updating, StateMap
<1>3. CASE idx[c] < i
  <2>1. idx'[c] <= i
    BY <1>0, <1>3
  <2> QED BY <1>2, <2>1 DEF Pending
<1>4. CASE idx[c] = i /\ told[o][bit][k] = Absent
  BY <1>4 DEF Settled
<1>5. CASE idx[c] = i /\ told[o][bit][k] # Absent
  <2>1. o # NullObserver
    BY <1>5 DEF ToldIsHeard
  <2>2. Branch(Handlers[q.op], r) = {bit} /\ SlotMatches(Handlers[q.op].scope, q.slot, r)
    BY <1>0, <1>1, <2>1, PlainBranch
  <2>3. CASE bit = "NETWORK_STATE" /\ q.val = Null
    <3>1. OneProducer(m, k)' <=> OneProducer(m, k)
      BY DEF OneProducer, Producers, StateMap
    <3>2. SUFFICES ASSUME OneProducer(m, k) PROVE cache'[m][k] = Null
      BY <2>3, <3>1 DEF Settled
    <3>3. cache[m][k] = Null
      BY <1>0, <1>1, <2>3, <3>2 DEF WrittenIsStored, Written
    <3> QED BY <1>0, <1>1, <3>2, <3>3, StoredKept, ConstantsAssumption DEF Null
  <2>4. CASE ~(bit = "NETWORK_STATE" /\ q.val = Null)
    <3>1. MayBeCalled(q, bit, r)
      BY <2>4 DEF MayBeCalled, PlainBits
    <3>2. Called(q, r) = {bit}
      BY <2>2, <3>1 DEF Called
    <3>3. told' = [told EXCEPT ![o][bit][k] = SentBy(q, bit, r)]
      BY <1>1, <1>5, <3>2, NotifyTold
    <3>4. told'[o][bit][k] = SentBy(q, bit, r)
      <4> DEFINE s == SentBy(q, bit, r)
      <4>1. /\ told' = [told EXCEPT ![o][bit][k] = s] /\ bit \in Masks
            /\ told \in [Observers -> [Masks -> [RecordSlot -> Sent \cup {Absent}]]]
        BY <1>0, <3>3 DEF IndInv, TypeOK
      <4> HIDE DEF s
      <4>2. told'[o][bit][k] = s
        BY <4>1
      <4> QED BY <4>2 DEF s
    <3> QED BY <1>1, <1>5, <3>2, <3>4, NotifySettles
  <2> QED BY <2>3, <2>4
<1> QED BY <1>0, <1>1, <1>3, <1>4, <1>5

\* A turn of the loop leaves every record converged.
LEMMA NotifyConverges ==
    ASSUME IndInv, Traversal, WrittenIsStored, ToldIsHeard, [Next]_vars,
           NEW c \in Callers, NotifyRecord(c), NEW i \in DOMAIN stateRecords_, ConvergedAt(i),
           NEW bit \in PlainBits, bit \in stateRecords_[i].mask_,
           NEW k \in HeardSlots(stateRecords_[i], bit), k \in RecordSlot,
           NEW o \in Observers, o = stateRecords_[i].telephonyObserver_
    PROVE  Settled(o, bit, k)' \/ \E d \in Callers : Pending(d, StateMap(bit), k, i)'
<1>0. /\ i \in Nat \ {0} /\ pc[c] = "notify" /\ TypeOK /\ bit \in Masks
      /\ stateRecords_ \in Seq(Record) /\ idx[c] \in DOMAIN stateRecords_
      /\ req[c].op \in UpdateOp /\ req[c].slot \in RecordSlot
  <2>1. stateRecords_ \in Seq(Record) /\ pc[c] = "notify" /\ TypeOK
    BY DEF NotifyRecord, IndInv, TypeOK
  <2>2. i \in Nat \ {0}
    BY <2>1
  <2> QED BY <2>1, <2>2, NotifyTold, PlainBitType
<1>1. Settled(o, bit, k) \/ \E d \in Callers : Pending(d, StateMap(bit), k, i)
  BY DEF ConvergedAt
<1>2. CASE told'[o][bit][k] = told[o][bit][k]
  <2>1. ASSUME NEW d \in Callers, Pending(d, StateMap(bit), k, i), NotifyRecord(d)
        PROVE  Settled(o, bit, k)' \/ Pending(d, StateMap(bit), k, i)'
    BY <1>2, <2>1, PassedIsSettled
  <2>2. ASSUME NEW d \in Callers, FinishUpdate(d)
        PROVE  FALSE
    <3>1. pc'[c] = pc[c] /\ pc[c] = "notify" /\ pc' = pc
      BY DEF NotifyRecord
    <3>2. pc' = [pc EXCEPT ![d] = "returned"] /\ pc[d] = "notify" /\ pc \in [Callers -> PC]
      BY <1>0, <2>2 DEF FinishUpdate, Return, Goto, TypeOK
    <3> QED BY <3>1, <3>2
  <2> QED BY <1>0, <1>1, <1>2, <2>1, <2>2, StaysConverged
<1>3. CASE told'[o][bit][k] # told[o][bit][k]
  <2> DEFINE q == req[c]
             r == stateRecords_[idx[c]]
             f == r.telephonyObserver_
             n == q.slot
  <2>1. PICK b \in Called(q, r) : told' = [told EXCEPT ![f][b][n] = SentBy(q, b, r)]
    BY <1>3, NotifyTold
  <2>2. r \in Record
    BY <1>0
  <2>3. b \in Masks /\ f \in Observers
    BY <1>0, <2>2, CalledShape DEF Record
  <2>4. o = f /\ bit = b /\ k = n /\ told'[o][bit][k] = SentBy(q, b, r)
    <3> DEFINE s == SentBy(q, b, r)
    <3>1. told' = [told EXCEPT ![f][b][n] = s] /\ n \in RecordSlot
      BY <1>0, <2>1
    <3> HIDE DEF s, f, n
    <3>2. o = f /\ bit = b /\ k = n /\ told'[o][bit][k] = s
      BY <1>0, <1>3, <2>3, <3>1, OneEntry
    <3> QED BY <3>2 DEF s, f, n
  <2> QED BY <2>1, <2>4, NotifySettles
<1> QED BY <1>2, <1>3

\* Registering leaves every record converged, the new one too: nobody is in the
\* loop of an update meanwhile, so an update on its way will meet the record.
LEMMA RegisterConverges ==
    ASSUME IndInv, ToldIsHeard, \A j \in DOMAIN stateRecords_ : ConvergedAt(j), [Next]_vars,
           NEW c \in Callers, RegisterStateChange(c), NEW i \in DOMAIN stateRecords_',
           NEW bit \in PlainBits, bit \in stateRecords_'[i].mask_,
           NEW k \in HeardSlots(stateRecords_'[i], bit), k \in RecordSlot,
           NEW o \in Observers, o = stateRecords_'[i].telephonyObserver_
    PROVE  Settled(o, bit, k)' \/ \E d \in Callers : Pending(d, StateMap(bit), k, i)'
<1>0. /\ stateRecords_ \in Seq(Record) /\ TypeOK /\ bit \in Masks
      /\ \A d \in Callers : pc[d] # "notify"
  <2>1. readers = {}
    BY DEF IndInv, LockOK, RegisterStateChange
  <2>2. ASSUME NEW d \in Callers, pc[d] = "notify" PROVE d \in readers
    BY <2>2 DEF IndInv, LockOK, Shared
  <2> QED BY <2>1, <2>2, PlainBitType DEF IndInv, TypeOK
<1>1. PICK record \in Record :
          /\ \/ stateRecords_' = Append(stateRecords_, record)
             \/ stateRecords_' = stateRecords_
          /\ UNCHANGED <<cache, told>> \/ UpdateData(record)
  BY RegisterTold
<1>2. ASSUME NEW j, ConvergedAt(j), Hears(stateRecords_[j], o, bit, k),
             told'[o][bit][k] = told[o][bit][k]
      PROVE  Settled(o, bit, k)' \/ \E d \in Callers : Pending(d, StateMap(bit), k, i)'
  <2>1. i \in Nat \ {0}
    <3>1. stateRecords_' \in Seq(Record)
      BY <1>0, <1>1
    <3> QED BY <3>1
  <2>2. Settled(o, bit, k) \/ \E d \in Callers : Pending(d, StateMap(bit), k, j)
    BY <1>2 DEF ConvergedAt, Hears
  <2>3. Settled(o, bit, k) \/ \E d \in Callers : Pending(d, StateMap(bit), k, i)
    BY <1>0, <2>2 DEF Pending
  <2>4. ASSUME NEW d \in Callers PROVE ~NotifyRecord(d) /\ ~FinishUpdate(d)
    BY <1>0 DEF NotifyRecord, FinishUpdate
  <2> QED BY <1>2, <2>1, <2>3, <2>4, StaysConverged
<1>3. CASE told'[o][bit][k] # told[o][bit][k]
  <2>1. UpdateData(record)
    BY <1>1, <1>3
  <2>2. /\ o = record.telephonyObserver_ /\ bit \in ReplayedBits(record) /\ k = record.slotId_
        /\ told'[o][bit][k] = Replay(bit, record)
    BY <1>0, <1>3, <2>1, ReplayTold
  <2> QED BY <2>1, <2>2, ReplaySettles
<1>4. CASE told'[o][bit][k] = Absent
  BY <1>4 DEF Settled
<1>5. CASE told'[o][bit][k] = told[o][bit][k] /\ told[o][bit][k] # Absent
  <2>1. PICK j \in DOMAIN stateRecords_ : Hears(stateRecords_[j], o, bit, k)
    BY <1>5 DEF ToldIsHeard
  <2> QED BY <1>2, <1>5, <2>1
<1> QED BY <1>3, <1>4, <1>5

\* Erasing a record leaves the others converged: what their observers are no
\* longer told by the erased one counts as forgotten.
LEMMA UnregisterConverges ==
    ASSUME IndInv, ToldIsHeard, \A j \in DOMAIN stateRecords_ : ConvergedAt(j), [Next]_vars,
           NEW c \in Callers, UnregisterStateChange(c), NEW i \in DOMAIN stateRecords_',
           NEW bit \in PlainBits, bit \in stateRecords_'[i].mask_,
           NEW k \in HeardSlots(stateRecords_'[i], bit), k \in RecordSlot,
           NEW o \in Observers, o = stateRecords_'[i].telephonyObserver_
    PROVE  Settled(o, bit, k)' \/ \E d \in Callers : Pending(d, StateMap(bit), k, i)'
<1>0. /\ stateRecords_ \in Seq(Record) /\ TypeOK /\ bit \in Masks
      /\ \A d \in Callers : pc[d] # "notify"
  <2>1. readers = {}
    BY DEF IndInv, LockOK, UnregisterStateChange
  <2>2. ASSUME NEW d \in Callers, pc[d] = "notify" PROVE d \in readers
    BY <2>2 DEF IndInv, LockOK, Shared
  <2> QED BY <2>1, <2>2, PlainBitType DEF IndInv, TypeOK
<1>1. /\ \E j \in DOMAIN stateRecords_ : stateRecords_[j] = stateRecords_'[i]
      /\ i \in Nat \ {0}
      /\ told'[o][bit][k] \in {told[o][bit][k], Absent}
  <2>1. CASE UNCHANGED <<stateRecords_, told>>
    BY <1>0, <2>1
  <2>2. ASSUME NEW n \in 1 .. Len(stateRecords_),
               stateRecords_' = RemoveAt(stateRecords_, n), Forget(stateRecords_[n])
        PROVE  /\ \E j \in DOMAIN stateRecords_ : stateRecords_[j] = stateRecords_'[i]
               /\ i \in Nat \ {0}
               /\ told'[o][bit][k] \in {told[o][bit][k], Absent}
    <3>1. stateRecords_' \in Seq(Record)
      BY <1>0, <2>2, RemoveAtProperties
    <3>2. i \in Nat \ {0}
      BY <3>1
    <3>3. \E j \in DOMAIN stateRecords_ : stateRecords_[j] = stateRecords_'[i]
      BY <1>0, <2>2, RemoveAtRange
    <3>4. stateRecords_[n] \in Record
      BY <1>0
    <3>5. told'[o][bit][k] \in {told[o][bit][k], Absent}
      BY <1>0, <2>2, <3>4, ForgetTold
    <3> QED BY <3>2, <3>3, <3>5
  <2> QED BY <2>1, <2>2, UnregisterShape
<1>2. PICK j \in DOMAIN stateRecords_ : stateRecords_[j] = stateRecords_'[i]
  BY <1>1
<1>3. Settled(o, bit, k) \/ \E d \in Callers : Pending(d, StateMap(bit), k, j)
  BY <1>2 DEF ConvergedAt, HeardSlots
<1>4. Settled(o, bit, k) \/ \E d \in Callers : Pending(d, StateMap(bit), k, i)
  BY <1>0, <1>3 DEF Pending
<1>5. ASSUME NEW d \in Callers PROVE ~NotifyRecord(d) /\ ~FinishUpdate(d)
  BY <1>0 DEF NotifyRecord, FinishUpdate
<1> QED BY <1>1, <1>4, <1>5, StaysConverged

\* Every step leaves every record converged.
LEMMA ConvergedStep ==
    ASSUME IndInv, IndInv', Traversal, WrittenIsStored, ToldIsHeard, [Next]_vars,
           \A j \in DOMAIN stateRecords_ : ConvergedAt(j), NEW i \in DOMAIN stateRecords_'
    PROVE  ConvergedAt(i)'
<1>0. PICK o \in Observers : o = stateRecords_'[i].telephonyObserver_
  <2>1. stateRecords_'[i] \in Record
    BY DEF IndInv, TypeOK
  <2> QED BY <2>1 DEF Record
<1> SUFFICES ASSUME NEW bit \in PlainBits, bit \in stateRecords_'[i].mask_,
                    NEW k \in HeardSlots(stateRecords_'[i], bit)
             PROVE  Settled(o, bit, k)' \/ \E c \in Callers : Pending(c, StateMap(bit), k, i)'
  BY <1>0 DEF ConvergedAt, PlainBits, HeardSlots, Settled, Current
<1>1. k \in RecordSlot /\ i \in Nat \ {0}
  <2>1. stateRecords_' \in Seq(Record)
    BY DEF IndInv, TypeOK
  <2>2. stateRecords_'[i] \in Record /\ i \in Nat \ {0}
    BY <2>1
  <2> QED BY <2>2 DEF Record, HeardSlots
<1>2. ASSUME NEW c \in Callers, NotifyRecord(c)
      PROVE  Settled(o, bit, k)' \/ \E d \in Callers : Pending(d, StateMap(bit), k, i)'
  <2>1. stateRecords_' = stateRecords_
    BY <1>2 DEF NotifyRecord
  <2> QED BY <1>0, <1>1, <1>2, <2>1, NotifyConverges
<1>3. ASSUME UNCHANGED <<stateRecords_, told>>, \A c \in Callers : ~NotifyRecord(c)
      PROVE  Settled(o, bit, k)' \/ \E d \in Callers : Pending(d, StateMap(bit), k, i)'
  <2>1. Settled(o, bit, k) \/ \E d \in Callers : Pending(d, StateMap(bit), k, i)
    BY <1>0, <1>3 DEF ConvergedAt
  <2>2. ASSUME NEW c \in Callers, Pending(c, StateMap(bit), k, i), FinishUpdate(c)
        PROVE  FALSE
    <3>1. pc[c] = "notify" /\ ~(idx[c] <= Len(stateRecords_)) /\ idx[c] <= i
      BY <2>2 DEF FinishUpdate, InLoop, Pending
    <3>2. stateRecords_ \in Seq(Record) /\ idx[c] \in Nat /\ i \in DOMAIN stateRecords_
      BY <1>3 DEF IndInv, TypeOK
    <3>3. i <= Len(stateRecords_) /\ Len(stateRecords_) \in Nat
      BY <1>1, <3>2
    <3> QED BY <1>1, <3>1, <3>2, <3>3
  <2> QED BY <1>1, <1>3, <2>1, <2>2, StaysConverged
<1>4. ASSUME NEW c \in Callers, RegisterStateChange(c)
      PROVE  Settled(o, bit, k)' \/ \E d \in Callers : Pending(d, StateMap(bit), k, i)'
  BY <1>0, <1>1, <1>4, RegisterConverges
<1>5. ASSUME NEW c \in Callers, UnregisterStateChange(c)
      PROVE  Settled(o, bit, k)' \/ \E d \in Callers : Pending(d, StateMap(bit), k, i)'
  BY <1>0, <1>1, <1>5, UnregisterConverges
<1> QED BY <1>2, <1>3, <1>4, <1>5, ToldChangers

\* No registered observer is left with an old value: once no update of a key is
\* on its way to its record, the last callback it got about that key carried what
\* the map holds, for any callers, observers and slots and any interleaving of
\* UpdateXxx, RegisterStateChange and UnregisterStateChange.
THEOREM ObserversConverge == Spec => []Converged
<1> DEFINE All == \A i \in DOMAIN stateRecords_ : ConvergedAt(i)
<1>1. Converged <=> All
  BY DEF Converged, ConvergedAt, Settled, Current, Pending
<1>2. Init => All
  BY DEF Init
<1>3. IndInv /\ IndInv' /\ Traversal /\ WrittenIsStored /\ ToldIsHeard /\ All /\ [Next]_vars => All'
  BY ConvergedStep
<1> HIDE DEF All
<1> QED BY <1>1, <1>2, <1>3, Invariance, TraversalInvariance, WrittenIsStoredInvariance,
           ToldIsHeardInvariance, PTL DEF Spec
===============================================================================
