------------------------- MODULE StateRegistryProofs -------------------------
(***************************************************************************)
(* Proofs about StateRegistry, for any number of callers, observers,       *)
(* slots, tokens and requests.                                             *)
(***************************************************************************)
EXTENDS StateRegistry, SequenceTheorems, TLAPS

(* Sequences and small operators. *)

\* Erasing an element keeps the others, in order: what vector::erase does.
LEMMA RemoveAtProperties ==
    ASSUME NEW S, NEW s \in Seq(S), NEW i \in 1 .. Len(s)
    PROVE  /\ RemoveAt(s, i) \in Seq(S)
           /\ Len(RemoveAt(s, i)) = Len(s) - 1
           /\ \A j \in 1 .. Len(s) - 1 :
                 RemoveAt(s, i)[j] = IF j < i THEN s[j] ELSE s[j + 1]
<1> DEFINE before == SubSeq(s, 1, i - 1)
           after == SubSeq(s, i + 1, Len(s))
<1>0. Len(s) \in Nat /\ i \in Nat
  OBVIOUS
<1>1. before \in Seq(S) /\ Len(before) = i - 1 /\ \A j \in 1 .. i - 1 : before[j] = s[j]
  OBVIOUS
<1>2. /\ after \in Seq(S)
      /\ Len(after) = Len(s) - i
      /\ \A j \in 1 .. Len(s) - i : after[j] = s[i + j]
  OBVIOUS
<1> HIDE DEF before, after
<1>3. /\ before \o after \in Seq(S)
      /\ Len(before \o after) = Len(before) + Len(after)
      /\ \A j \in 1 .. Len(before) + Len(after) :
            (before \o after)[j] = IF j <= Len(before) THEN before[j] ELSE after[j - Len(before)]
  BY <1>1, <1>2, ConcatProperties
<1>4. RemoveAt(s, i) = before \o after
  BY DEF RemoveAt, before, after
<1>5. Len(before) + Len(after) = Len(s) - 1
  BY <1>1, <1>2
<1>6. ASSUME NEW j \in 1 .. Len(s) - 1
      PROVE  (before \o after)[j] = IF j < i THEN s[j] ELSE s[j + 1]
  <2>1. CASE j < i
    <3>1. j \in 1 .. i - 1 /\ j <= Len(before)
      BY <1>1, <2>1
    <3> QED BY <1>1, <1>3, <1>5, <2>1, <3>1
  <2>2. CASE j >= i
    <3>1. j - (i - 1) \in 1 .. Len(s) - i /\ ~(j <= i - 1) /\ i + (j - (i - 1)) = j + 1
      BY <2>2
    <3>2. (before \o after)[j] = after[j - (i - 1)]
      BY <1>1, <1>3, <1>5, <3>1
    <3>3. after[j - (i - 1)] = s[i + (j - (i - 1))]
      BY <1>2, <3>1
    <3> QED BY <1>0, <2>2, <3>1, <3>2, <3>3
  <2>3. j < i \/ j >= i
    BY <1>0
  <2> QED BY <2>1, <2>2, <2>3
<1> QED
  BY <1>1, <1>2, <1>3, <1>4, <1>5, <1>6

\* What is left after the erasure was there before, elsewhere.
LEMMA RemoveAtRange ==
    ASSUME NEW S, NEW s \in Seq(S), NEW i \in 1 .. Len(s), NEW j \in DOMAIN RemoveAt(s, i)
    PROVE  \E k \in DOMAIN s : k # i /\ RemoveAt(s, i)[j] = s[k]
<1>0. Len(s) \in Nat /\ i \in Nat /\ DOMAIN s = 1 .. Len(s)
  OBVIOUS
<1>1. /\ RemoveAt(s, i) \in Seq(S)
      /\ Len(RemoveAt(s, i)) = Len(s) - 1
      /\ \A n \in 1 .. Len(s) - 1 :
            RemoveAt(s, i)[n] = IF n < i THEN s[n] ELSE s[n + 1]
  BY RemoveAtProperties
<1>2. j \in 1 .. Len(s) - 1
  BY <1>1
<1>3. CASE j < i
  <2>1. j \in DOMAIN s /\ j # i /\ RemoveAt(s, i)[j] = s[j]
    BY <1>0, <1>1, <1>2, <1>3
  <2> QED BY <2>1
<1>4. CASE j >= i
  <2>1. j + 1 \in DOMAIN s /\ j + 1 # i /\ RemoveAt(s, i)[j] = s[j + 1]
    BY <1>0, <1>1, <1>2, <1>4
  <2> QED BY <2>1
<1> QED BY <1>0, <1>2, <1>3, <1>4

\* Assigning a value of its range to a function, at a point of its domain or not.
LEMMA ExceptType ==
    ASSUME NEW D, NEW R, NEW f \in [D -> R], NEW k, NEW v \in R
    PROVE  [f EXCEPT ![k] = v] \in [D -> R]
  OBVIOUS

\* The same two and three levels deep.
LEMMA ExceptType2 ==
    ASSUME NEW A, NEW B, NEW R, NEW f \in [A -> [B -> R]], NEW a, NEW b, NEW v \in R
    PROVE  [f EXCEPT ![a][b] = v] \in [A -> [B -> R]]
<1>1. a \in A => [f[a] EXCEPT ![b] = v] \in [B -> R]
  BY ExceptType
<1> QED BY <1>1

\* The same three functions deep: the record of callbacks, told.
LEMMA ExceptType3 ==
    ASSUME NEW A, NEW B, NEW C, NEW R, NEW f \in [A -> [B -> [C -> R]]],
           NEW a, NEW b, NEW k, NEW v \in R
    PROVE  [f EXCEPT ![a][b][k] = v] \in [A -> [B -> [C -> R]]]
<1>1. a \in A => [f[a] EXCEPT ![b][k] = v] \in [B -> [C -> R]]
  BY ExceptType2
<1> QED BY <1>1

-----------------------------------------------------------------------------
(* The inductive invariant. *)

Exclusive == {"drain", "unique"}
Shared == {"notify", "query", "dump", "relock"}
Stored == UpdateOp \cup {"Register"}

\* The arguments of a call in progress are those of one of its caller's requests,
\* and the call is where a call of that kind can be; the calls that store
\* something under their slot have passed the checks on it.
RequestOK ==
    \A c \in Callers :
        /\ pc[c] # "idle" => req[c] \in Requests[c]
        /\ pc[c] = "share" => req[c].op \in UpdateOp \cup {"Get", "Dump"}
        /\ pc[c] = "notify" => req[c].op \in UpdateOp
        /\ pc[c] = "query" => req[c].op = "Get"
        /\ pc[c] \in {"dump", "relock"} => req[c].op = "Dump"
        /\ pc[c] \in {"lock", "drain", "unique", "share", "notify"} /\ req[c].op \in Stored
              => req[c].slot \in RecordSlot

\* The fields of lock_ say who holds it, and nobody shares it with a holder.
LockOK ==
    /\ \A c \in Callers : writer = c <=> pc[c] \in Exclusive
    /\ \A c \in Callers : c \in readers <=> pc[c] \in Shared
    /\ \A c \in Callers : pc[c] = "unique" => readers = {}

IndInv == TypeOK /\ RequestOK /\ LockOK /\ UniqueRecords

-----------------------------------------------------------------------------
(* Types of the operators the actions are made of. *)

\* A handler that does not verify its slot has none, and uses key -1.
LEMMA HandlersVerify ==
    \A op \in UpdateOp :
        Handlers[op].verify \/ op \in {"UpdateCallState", "UpdateIccAccount", "UpdateVoIPCallState"}
  BY DEF UpdateOp, Handlers, Handler, UpdateCellularDataConnectState, UpdateCellularDataFlow,
         UpdateCallState, UpdateCallStateForSlotId, UpdateSimState, UpdateSignalInfo,
         UpdateCellInfo, UpdateNetworkState, UpdateCfuIndicator, UpdateIccAccount,
         UpdateVoiceMailMsgIndicator, UpdateSimActiveState, UpdateVoIPCallState

\* Every answer of a call is an integer.
LEMMA CodesAreInt ==
    /\ TELEPHONY_SUCCESS \in Int /\ TELEPHONY_ERROR \in Int /\ TELEPHONY_ERR_FAIL \in Int
    /\ TELEPHONY_ERR_ILLEGAL_USE_OF_SYSTEM_API \in Int
    /\ TELEPHONY_STATE_REGISTRY_PERMISSION_DENIED \in Int
    /\ TELEPHONY_STATE_REGISTRY_SLODID_ERROR \in Int
    /\ TELEPHONY_STATE_REGISTRY_DATA_NOT_EXIST \in Int
    /\ TELEPHONY_STATE_UNREGISTRY_DATA_NOT_EXIST \in Int
  BY DEF TELEPHONY_SUCCESS, TELEPHONY_ERROR, TELEPHONY_ERR_FAIL,
         TELEPHONY_ERR_ILLEGAL_USE_OF_SYSTEM_API, TELEPHONY_STATE_REGISTRY_PERMISSION_DENIED,
         TELEPHONY_STATE_REGISTRY_SLODID_ERROR, TELEPHONY_STATE_REGISTRY_DATA_NOT_EXIST,
         TELEPHONY_STATE_UNREGISTRY_DATA_NOT_EXIST

\* operator[] yields a value, and inserting defaults keeps the maps maps.
LEMMA ValueType ==
    ASSUME TypeOK, NEW m \in CacheMap, NEW k \in RecordSlot
    PROVE  Value(m, k) \in Int
  BY DEF TypeOK, Value

\* operator[] on missing keys keeps the maps well formed.
LEMMA InsertedType ==
    ASSUME TypeOK, NEW maps, NEW k
    PROVE  Inserted(maps, k) \in [CacheMap -> [RecordSlot -> Int \cup {Absent}]]
<1>1. ASSUME NEW m \in CacheMap
      PROVE  /\ cache[m] \in [RecordSlot -> Int \cup {Absent}]
             /\ [cache[m] EXCEPT ![k] = 0] \in [RecordSlot -> Int \cup {Absent}]
  <2>1. cache[m] \in [RecordSlot -> Int \cup {Absent}]
    BY DEF TypeOK
  <2>2. 0 \in Int \cup {Absent}
    OBVIOUS
  <2> QED BY <2>1, <2>2, ExceptType
<1> QED
  BY <1>1 DEF Inserted

\* What UpdateData and UpdateDataEx replay is an integer.
LEMMA ReplayedValueType ==
    ASSUME TypeOK, NEW bit \in Masks, NEW k \in RecordSlot
    PROVE  ReplayedValue(bit, k) \in Int
<1>1. StateMap(bit) \in CacheMap \cup {"none"}
  BY DEF StateMap, CacheMap
<1>2. "callState_" \in CacheMap
  BY DEF CacheMap
<1> QED
  BY <1>1, <1>2, ValueType DEF ReplayedValue, Null, CALL_STATUS_IDLE

\* What an accepted, or a rejected, call leaves behind.
LEMMA CallShape ==
    ASSUME IndInv, NEW c \in Callers, Call(c)
    PROVE  \E q \in Requests[c] :
              /\ pc[c] = "idle"
              /\ req' = [req EXCEPT ![c] = q]
              /\ \/ \E code \in Int : Reject(c, code)
                 \/ /\ Accept(c, "share")
                    /\ q.op \in UpdateOp \cup {"Get", "Dump"}
                    /\ q.op \in Stored => q.slot \in RecordSlot
                 \/ /\ Accept(c, "lock")
                    /\ q.op \in Stored => q.slot \in RecordSlot
<1>1. PICK q \in Requests[c] :
          /\ req' = [req EXCEPT ![c] = q]
          /\ \/ q.op \in UpdateOp /\ BeginUpdate(c, q)
             \/ q.op = "Register" /\ BeginRegister(c, q)
             \/ q.op = "Unregister" /\ BeginUnregister(c, q)
             \/ q.op = "Get" /\ BeginGet(c, q)
             \/ q.op = "Dump" /\ BeginDump(c, q)
             \/ q.op = "OnStart" /\ Accept(c, "lock")
             \/ q.op = "OnStop" /\ Accept(c, "lock")
  BY DEF Call
<1>2. pc[c] = "idle"
  BY DEF Call
<1>3. q \in Request
  BY RequestsAssumption
<1>4. "Unregister" \notin Stored /\ "Get" \notin Stored /\ "Dump" \notin Stored
         /\ "OnStart" \notin Stored /\ "OnStop" \notin Stored
  BY DEF Stored, UpdateOp, Handlers
<1>5. CASE q.op \in UpdateOp /\ BeginUpdate(c, q)
  <2>1. Handlers[q.op].verify => q.slot \in RecordSlot \/ ~VerifySlotId(q.slot, slotSize_)
    BY <1>3, ConstantsAssumption DEF VerifySlotId, RecordSlot, Request, MAX_SLOT_COUNT
  <2>2. ~Handlers[q.op].verify => q.slot \in RecordSlot
    BY <1>5, HandlersVerify, RequestsAssumption DEF RecordSlot, ALL_SLOTS, MAX_SLOT_COUNT
  <2>3. CASE Reject(c, TELEPHONY_STATE_REGISTRY_SLODID_ERROR)
              \/ Reject(c, TELEPHONY_STATE_REGISTRY_PERMISSION_DENIED)
    BY <1>1, <1>2, <2>3, CodesAreInt
  <2>4. CASE /\ Handlers[q.op].verify => VerifySlotId(q.slot, slotSize_)
             /\ Accept(c, IF Handlers[q.op].maps = {} THEN "share" ELSE "lock")
    <3>1. q.slot \in RecordSlot
      BY <2>1, <2>2, <2>4
    <3> QED BY <1>1, <1>2, <1>5, <2>4, <3>1
  <2> QED BY <1>5, <2>3, <2>4 DEF BeginUpdate
<1>6. CASE q.op = "Register" /\ BeginRegister(c, q)
  <2>1. CASE \E code \in Int : Reject(c, code)
    BY <1>1, <1>2, <2>1
  <2>2. CASE SlotIsRecorded(q.slot, Type(c)) /\ Accept(c, "lock")
    BY <1>1, <1>2, <2>2 DEF SlotIsRecorded
  <2> QED BY <1>6, <2>1, <2>2, CodesAreInt DEF BeginRegister, RejectObserver
<1>7. CASE q.op = "Unregister" /\ BeginUnregister(c, q)
  BY <1>1, <1>2, <1>4, <1>7, CodesAreInt DEF BeginUnregister, RejectObserver
<1>8. CASE q.op = "Get" /\ BeginGet(c, q)
  BY <1>1, <1>2, <1>4, <1>8 DEF BeginGet
<1>9. CASE q.op = "Dump" /\ BeginDump(c, q)
  BY <1>1, <1>2, <1>4, <1>9, CodesAreInt DEF BeginDump
<1>10. CASE q.op \in {"OnStart", "OnStop"} /\ Accept(c, "lock")
  BY <1>1, <1>2, <1>4, <1>10
<1> QED
  BY <1>1, <1>5, <1>6, <1>7, <1>8, <1>9, <1>10

-----------------------------------------------------------------------------
(* Every action preserves the invariant. *)

\* The constructor establishes the inductive invariant.
LEMMA InitStep == Init => IndInv
<1> SUFFICES ASSUME Init PROVE IndInv
  OBVIOUS
<1>1. stateRecords_ \in Seq(Record) /\ DOMAIN stateRecords_ = {}
  BY DEF Init
<1>2. cache \in [CacheMap -> [RecordSlot -> Int \cup {Absent}]]
  BY DEF Init, InitialCallState, CALL_STATUS_UNKNOWN
<1>3. boot \in [BootThreads -> -1 .. slotSize_]
  BY ConstantsAssumption DEF Init, MAX_SLOT_COUNT
<1>4. TypeOK
  BY <1>1, <1>2, <1>3, ConstantsAssumption, CodesAreInt DEF Init, TypeOK, PC
<1>5. RequestOK /\ LockOK
  BY ConstantsAssumption DEF Init, RequestOK, LockOK, Exclusive, Shared
<1>6. UniqueRecords
  BY <1>1 DEF UniqueRecords
<1> QED BY <1>4, <1>5, <1>6 DEF IndInv

\* The checks before lock_ preserve the inductive invariant.
LEMMA CallStep ==
    ASSUME IndInv, NEW c \in Callers, Call(c)
    PROVE  IndInv'
<1>1. PICK q \in Requests[c] :
          /\ pc[c] = "idle"
          /\ req' = [req EXCEPT ![c] = q]
          /\ \/ \E code \in Int : Reject(c, code)
             \/ /\ Accept(c, "share")
                /\ q.op \in UpdateOp \cup {"Get", "Dump"}
                /\ q.op \in Stored => q.slot \in RecordSlot
             \/ /\ Accept(c, "lock")
                /\ q.op \in Stored => q.slot \in RecordSlot
  BY CallShape
<1>2. q \in Request
  BY RequestsAssumption
<1>3. UNCHANGED <<start, data, perms, lock_, idx, notified>>
  BY <1>1 DEF Reject, Accept, local
<1>4. ret' \in [Callers -> Int]
  BY <1>1 DEF Reject, Accept, Return, local, IndInv, TypeOK
<1>5. \E p \in {"share", "lock", "returned"} :
          /\ pc' = [pc EXCEPT ![c] = p]
          /\ p = "share" => q.op \in UpdateOp \cup {"Get", "Dump"}
          /\ p \in {"share", "lock"} => (q.op \in Stored => q.slot \in RecordSlot)
  BY <1>1 DEF Reject, Accept, Return, Goto
<1>6. TypeOK'
  BY <1>1, <1>2, <1>3, <1>4, <1>5 DEF IndInv, TypeOK, start, data, lock_, PC
<1>7. RequestOK'
  BY <1>1, <1>5 DEF IndInv, TypeOK, RequestOK
<1>8. LockOK'
  BY <1>1, <1>3, <1>5 DEF IndInv, TypeOK, LockOK, lock_, Exclusive, Shared
<1>9. UniqueRecords'
  BY <1>3 DEF IndInv, UniqueRecords, SameKey, data
<1> QED BY <1>6, <1>7, <1>8, <1>9 DEF IndInv

\* Returning to the client preserves the inductive invariant.
LEMMA ReplyStep ==
    ASSUME IndInv, NEW c \in Callers, Reply(c)
    PROVE  IndInv'
<1>1. UNCHANGED <<start, data, perms, lock_>>
  BY DEF Reply
<1>2. TypeOK'
  BY <1>1, CodesAreInt DEF IndInv, TypeOK, Reply, Goto, start, data, lock_, PC
<1>3. RequestOK'
  BY DEF IndInv, TypeOK, RequestOK, Reply, Goto
<1>4. LockOK'
  BY <1>1 DEF IndInv, TypeOK, LockOK, Reply, Goto, lock_, Exclusive, Shared
<1>5. UniqueRecords'
  BY <1>1 DEF IndInv, UniqueRecords, SameKey, data
<1> QED BY <1>2, <1>3, <1>4, <1>5 DEF IndInv

\* The steps of lock_ itself.
LEMMA LockStep ==
    ASSUME IndInv, NEW c \in Callers,
           LockUnique(c) \/ Drained(c) \/ LockShared(c)
    PROVE  IndInv'
<1>1. UNCHANGED <<start, data, perms, req, notified, ret>>
  BY DEF LockUnique, Drained, LockShared, local
<1>2. UniqueRecords'
  BY <1>1 DEF IndInv, UniqueRecords, SameKey, data
<1>3. CASE LockUnique(c)
  <2>1. idx' = idx
    BY <1>3 DEF LockUnique, local
  <2>2. TypeOK'
    BY <1>1, <1>3, <2>1 DEF IndInv, TypeOK, LockUnique, Goto, start, data, PC
  <2>3. RequestOK'
    BY <1>1, <1>3 DEF IndInv, TypeOK, RequestOK, LockUnique, Goto
  <2>4. LockOK'
    BY <1>3, ConstantsAssumption DEF IndInv, TypeOK, LockOK, LockUnique, Goto, Exclusive, Shared
  <2> QED BY <1>2, <2>2, <2>3, <2>4 DEF IndInv
<1>4. CASE Drained(c)
  <2>1. idx' = idx /\ lock_' = lock_
    BY <1>4 DEF Drained, local
  <2>2. TypeOK'
    BY <1>1, <1>4, <2>1 DEF IndInv, TypeOK, Drained, Goto, start, data, lock_, PC
  <2>3. RequestOK'
    BY <1>1, <1>4 DEF IndInv, TypeOK, RequestOK, Drained, Goto
  <2>4. LockOK'
    BY <1>4, <2>1 DEF IndInv, TypeOK, LockOK, Drained, Goto, lock_, Exclusive, Shared
  <2> QED BY <1>2, <2>2, <2>3, <2>4 DEF IndInv
<1>5. CASE LockShared(c)
  <2>1. /\ pc[c] = "share" /\ writer = NoCaller /\ UNCHANGED writer
        /\ readers' = readers \cup {c}
        /\ \/ req[c].op = "Get" /\ pc' = [pc EXCEPT ![c] = "query"] /\ idx' = idx
           \/ req[c].op = "Dump" /\ pc' = [pc EXCEPT ![c] = "dump"] /\ idx' = idx
           \/ /\ req[c].op \notin {"Get", "Dump"}
              /\ pc' = [pc EXCEPT ![c] = "notify"] /\ idx' = [idx EXCEPT ![c] = 1]
    BY <1>5 DEF LockShared, Goto
  <2>2. TypeOK'
    <3>0. pc \in [Callers -> PC] /\ idx \in [Callers -> Nat] /\ 1 \in Nat
             /\ "query" \in PC /\ "dump" \in PC /\ "notify" \in PC
      BY DEF IndInv, TypeOK, PC
    <3>1. pc' \in [Callers -> PC] /\ idx' \in [Callers -> Nat]
      BY <2>1, <3>0, ExceptType
    <3>2. writer' \in Callers \cup {NoCaller} /\ readers' \in SUBSET Callers
      BY <2>1 DEF IndInv, TypeOK
    <3> QED BY <1>1, <3>1, <3>2 DEF IndInv, TypeOK, start, data
  <2>3. RequestOK'
    <3>1. req[c].op \in UpdateOp \cup {"Get", "Dump"} /\ req' = req
      BY <1>1, <2>1 DEF IndInv, RequestOK
    <3> QED BY <2>1, <3>1 DEF IndInv, TypeOK, RequestOK
  <2>4. LockOK'
    BY <2>1, ConstantsAssumption DEF IndInv, TypeOK, LockOK, Exclusive, Shared
  <2> QED BY <1>2, <2>2, <2>3, <2>4 DEF IndInv
<1> QED BY <1>3, <1>4, <1>5

\* Leaving a unique section keeps lock_ in order.
LEMMA LeaveUnique ==
    ASSUME IndInv, NEW c \in Callers, pc[c] = "unique", UnlockUnique,
           NEW p \in {"share", "returned"}, Goto(c, p)
    PROVE  LockOK' /\ writer' \in Callers \cup {NoCaller} /\ readers' \in SUBSET Callers
<1>1. writer' = NoCaller /\ readers' = readers
  BY DEF UnlockUnique
<1> QED
  BY <1>1, ConstantsAssumption DEF IndInv, TypeOK, LockOK, Goto, Exclusive, Shared

\* So does leaving a shared one.
LEMMA LeaveShared ==
    ASSUME IndInv, NEW c \in Callers, pc[c] \in Shared, UnlockShared(c), Goto(c, "returned")
    PROVE  LockOK' /\ writer' \in Callers \cup {NoCaller} /\ readers' \in SUBSET Callers
<1>1. writer' = writer /\ readers' = readers \ {c}
  BY DEF UnlockShared
<1> QED
  BY <1>1, ConstantsAssumption DEF IndInv, TypeOK, LockOK, Goto, Exclusive, Shared

\* Writing the maps preserves the inductive invariant.
LEMMA WriteCacheStep ==
    ASSUME IndInv, NEW c \in Callers, WriteCache(c)
    PROVE  IndInv'
<1>1. UNCHANGED <<start, stateRecords_, told, perms, req, local>>
  BY DEF WriteCache
<1>2. req[c] \in Request
  BY RequestsAssumption DEF IndInv, RequestOK, WriteCache
<1>3. cache' \in [CacheMap -> [RecordSlot -> Int \cup {Absent}]]
  <2>1. ASSUME NEW m \in CacheMap
        PROVE  /\ cache[m] \in [RecordSlot -> Int \cup {Absent}]
               /\ [cache[m] EXCEPT ![req[c].slot] = Written(m, req[c])]
                     \in [RecordSlot -> Int \cup {Absent}]
    <3>1. cache[m] \in [RecordSlot -> Int \cup {Absent}]
      BY DEF IndInv, TypeOK
    <3>2. Written(m, req[c]) \in Int \cup {Absent}
      BY <1>2 DEF Written, Request
    <3> QED BY <3>1, <3>2, ExceptType
  <2> QED BY <2>1 DEF WriteCache
<1>4. LockOK' /\ writer' \in Callers \cup {NoCaller} /\ readers' \in SUBSET Callers
  BY LeaveUnique DEF WriteCache
<1>5. TypeOK'
  BY <1>1, <1>3, <1>4 DEF IndInv, TypeOK, WriteCache, Goto, PC, start, local
<1>6. RequestOK'
  BY <1>1 DEF IndInv, TypeOK, RequestOK, WriteCache, Goto
<1>7. UniqueRecords'
  BY <1>1 DEF IndInv, UniqueRecords, SameKey
<1> QED BY <1>4, <1>5, <1>6, <1>7 DEF IndInv

\* What NotifyRecord may change.
LEMMA NotifyShape ==
    ASSUME IndInv, NEW c \in Callers, NotifyRecord(c)
    PROVE  /\ cache' \in [CacheMap -> [RecordSlot -> Int \cup {Absent}]]
           /\ told' \in [Observers -> [Masks -> [RecordSlot -> Sent \cup {Absent}]]]
           /\ notified' \in [Callers -> SUBSET Nat]
<1> DEFINE r == stateRecords_[idx[c]]
           q == req[c]
<1>1. q \in Request /\ q.slot \in RecordSlot /\ idx[c] \in Nat
  BY RequestsAssumption DEF IndInv, TypeOK, RequestOK, NotifyRecord, Stored
<1>2. CASE UNCHANGED <<cache, told, notified>>
  BY <1>2 DEF IndInv, TypeOK
<1>3. ASSUME NEW bit,
             Tell(r.telephonyObserver_, bit, q.slot, [val |-> q.val, num |-> NumberFor(q, bit, r)]),
             notified' = [notified EXCEPT ![c] = @ \cup {idx[c]}],
             cache' = IF ReadsNumberMap(q, bit, r)
                      THEN Inserted({"callIncomingNumber_"}, q.slot) ELSE cache
      PROVE  /\ cache' \in [CacheMap -> [RecordSlot -> Int \cup {Absent}]]
             /\ told' \in [Observers -> [Masks -> [RecordSlot -> Sent \cup {Absent}]]]
             /\ notified' \in [Callers -> SUBSET Nat]
  <2>1. cache' \in [CacheMap -> [RecordSlot -> Int \cup {Absent}]]
    BY <1>3, InsertedType DEF IndInv, TypeOK
  <2>2. notified' \in [Callers -> SUBSET Nat]
    BY <1>1, <1>3 DEF IndInv, TypeOK
  <2>3. Value("callIncomingNumber_", q.slot) \in Int
    BY <1>1, ValueType DEF IndInv, CacheMap
  <2>4. NumberFor(q, bit, r) \in Int
    BY <1>1, <2>3 DEF NumberFor, NoNumber, Request
  <2>5. [val |-> q.val, num |-> NumberFor(q, bit, r)] \in Sent
    BY <1>1, <2>4 DEF Sent, Request
  <2>6. told' \in [Observers -> [Masks -> [RecordSlot -> Sent \cup {Absent}]]]
    <3>1. told \in [Observers -> [Masks -> [RecordSlot -> Sent \cup {Absent}]]]
      BY DEF IndInv, TypeOK
    <3> DEFINE o == r.telephonyObserver_
               k == q.slot
               sent == [val |-> q.val, num |-> NumberFor(q, bit, r)]
    <3>2. sent \in Sent \cup {Absent}
      BY <2>5
    <3>3. told' = [told EXCEPT ![o][bit][k] = sent]
      BY <1>3 DEF Tell
    <3> HIDE DEF o, k, sent
    <3> QED BY <3>1, <3>2, <3>3, ExceptType3, Zenon
  <2> QED BY <2>1, <2>2, <2>6
<1> QED BY <1>2, <1>3 DEF NotifyRecord

\* A turn of the notification loop preserves the inductive invariant.
LEMMA NotifyStep ==
    ASSUME IndInv, NEW c \in Callers, NotifyRecord(c)
    PROVE  IndInv'
<1>1. UNCHANGED <<start, stateRecords_, perms, lock_, pc, req, ret>>
  BY DEF NotifyRecord
<1>2. idx' \in [Callers -> Nat]
  BY DEF IndInv, TypeOK, NotifyRecord
<1>3. TypeOK'
  BY <1>1, <1>2, NotifyShape DEF IndInv, TypeOK, start, lock_
<1>4. RequestOK' /\ LockOK'
  BY <1>1 DEF IndInv, RequestOK, LockOK, lock_
<1>5. UniqueRecords'
  BY <1>1 DEF IndInv, UniqueRecords, SameKey
<1> QED BY <1>3, <1>4, <1>5 DEF IndInv

\* Publishing keeps the record of the events well formed.
LEMMA PublishType ==
    ASSUME TypeOK, NEW topics, NEW k, NEW v \in Int, NEW num \in Int,
           NEW by \in {"update", "boot"}, Publish(topics, k, v, num, by)
    PROVE  lastEvent' \in [Topic -> [RecordSlot -> Event \cup {Absent}]]
<1>1. \A t : EventOf(t, v, num, by) \in Event \cup {Absent}
  BY DEF Event, EventOf, NoNumber
<1>2. lastEvent \in [Topic -> [RecordSlot -> Event \cup {Absent}]]
  BY DEF TypeOK
<1>3. PICK sent : lastEvent' = [t \in Topic |->
                         IF t \in sent
                         THEN [lastEvent[t] EXCEPT ![k] = EventOf(t, v, num, by)]
                         ELSE lastEvent[t]]
  BY DEF Publish
<1>4. \A t \in Topic : [lastEvent[t] EXCEPT ![k] = EventOf(t, v, num, by)]
                            \in [RecordSlot -> Event \cup {Absent}]
  BY <1>1, <1>2, ExceptType, Zenon
<1> QED BY <1>2, <1>3, <1>4, Zenon

\* Publishing and returning preserve the inductive invariant.
LEMMA FinishUpdateStep ==
    ASSUME IndInv, NEW c \in Callers, FinishUpdate(c)
    PROVE  IndInv'
<1>1. UNCHANGED <<state_, boot, data, perms, req, idx, notified>>
  BY DEF FinishUpdate
<1>2. req[c] \in Request
  BY RequestsAssumption DEF IndInv, RequestOK, FinishUpdate
<1>3. lastEvent' \in [Topic -> [RecordSlot -> Event \cup {Absent}]]
  <2>1. req[c].val \in Int /\ req[c].num \in Int
    BY <1>2 DEF Request
  <2>2. Publish(Handlers[req[c].op].topics, req[c].slot, req[c].val, req[c].num, "update")
    BY DEF FinishUpdate
  <2> QED BY <2>1, <2>2, PublishType DEF IndInv, TypeOK
<1>4. PICK code \in Int : Return(c, code)
  BY CodesAreInt DEF FinishUpdate
<1>5. pc' \in [Callers -> PC] /\ ret' \in [Callers -> Int]
  BY <1>4 DEF Return, Goto, IndInv, TypeOK, PC
<1>6. LockOK' /\ writer' \in Callers \cup {NoCaller} /\ readers' \in SUBSET Callers
  BY <1>4, LeaveShared DEF FinishUpdate, Return, Shared
<1>7. TypeOK'
  BY <1>1, <1>3, <1>5, <1>6 DEF IndInv, TypeOK, data
<1>8. RequestOK'
  BY <1>1, <1>4 DEF IndInv, TypeOK, RequestOK, Return, Goto, FinishUpdate
<1>9. UniqueRecords'
  BY <1>1 DEF IndInv, UniqueRecords, SameKey, data
<1> QED BY <1>6, <1>7, <1>8, <1>9 DEF IndInv

\* The record a registration creates.
LEMMA NewRecordType ==
    ASSUME NEW c \in Callers, NEW q \in Request, q.slot \in RecordSlot
    PROVE  NewRecord(c, q) \in Record
  BY ConstantsAssumption DEF NewRecord, Record, Request

\* At most one record has a given key, so the first one found is the only one.
LEMMA OneMatch ==
    ASSUME TypeOK, UniqueRecords, NEW r, Matching(r) # {}
    PROVE  /\ Min(Matching(r)) \in 1 .. Len(stateRecords_)
           /\ SameKey(stateRecords_[Min(Matching(r))], r)
           /\ \A j \in DOMAIN stateRecords_ :
                 SameKey(stateRecords_[j], r) => j = Min(Matching(r))
<1>0. stateRecords_ \in Seq(Record)
  BY DEF TypeOK
<1>1. PICK i \in DOMAIN stateRecords_ : SameKey(stateRecords_[i], r)
  BY DEF Matching
<1>2. i \in Int /\ i \in 1 .. Len(stateRecords_)
  BY <1>0
<1>3. \A j \in DOMAIN stateRecords_ : SameKey(stateRecords_[j], r) => j = i
  BY <1>1 DEF UniqueRecords, SameKey
<1>4. Matching(r) = {i}
  BY <1>1, <1>3 DEF Matching
<1>5. Min({i}) = i
  BY <1>2 DEF Min
<1> QED BY <1>1, <1>2, <1>3, <1>4, <1>5

\* Replaying the maps to an observer sends values.
LEMMA UpdateDataType ==
    ASSUME TypeOK, NEW r \in Record, UpdateData(r)
    PROVE  /\ cache' \in [CacheMap -> [RecordSlot -> Int \cup {Absent}]]
           /\ told' \in [Observers -> [Masks -> [RecordSlot -> Sent \cup {Absent}]]]
<1> DEFINE o == r.telephonyObserver_
           k == r.slotId_
           number(bit) == IF ReplaysNumber(bit, r) THEN Value("callIncomingNumber_", k) ELSE NoNumber
           sent(bit) == [val |-> ReplayedValue(bit, k), num |-> number(bit)]
           told_o == [bit \in Masks |->
                         IF bit \in ReplayedBits(r) THEN [told[o][bit] EXCEPT ![k] = sent(bit)]
                         ELSE told[o][bit]]
<1>1. k \in RecordSlot /\ o \in Observers
  BY DEF Record
<1>2. cache' \in [CacheMap -> [RecordSlot -> Int \cup {Absent}]]
  BY InsertedType DEF UpdateData
<1>3. told \in [Observers -> [Masks -> [RecordSlot -> Sent \cup {Absent}]]]
  BY DEF TypeOK
<1>4. ASSUME NEW bit \in Masks
      PROVE  sent(bit) \in Sent \cup {Absent}
  <2>1. Value("callIncomingNumber_", k) \in Int
    BY <1>1, ValueType DEF CacheMap
  <2>2. ReplayedValue(bit, k) \in Int
    BY <1>1, ReplayedValueType
  <2>3. number(bit) \in Int
    BY <2>1 DEF NoNumber
  <2> HIDE DEF number
  <2> QED BY <2>2, <2>3 DEF Sent
<1> HIDE DEF sent
<1>5. ASSUME NEW bit \in Masks
      PROVE  [told[o][bit] EXCEPT ![k] = sent(bit)] \in [RecordSlot -> Sent \cup {Absent}]
  <2>1. told[o][bit] \in [RecordSlot -> Sent \cup {Absent}]
    BY <1>1, <1>3
  <2> QED BY <1>4, <2>1, ExceptType
<1>6. told_o \in [Masks -> [RecordSlot -> Sent \cup {Absent}]]
  BY <1>1, <1>3, <1>5
<1>7. told' = [told EXCEPT ![o] = told_o]
  BY DEF UpdateData, sent
<1> HIDE DEF told_o, o
<1>8. told' \in [Observers -> [Masks -> [RecordSlot -> Sent \cup {Absent}]]]
  BY <1>3, <1>6, <1>7
<1> QED BY <1>2, <1>8

\* RegisterStateChange preserves the inductive invariant.
LEMMA RegisterStep ==
    ASSUME IndInv, NEW c \in Callers, RegisterStateChange(c)
    PROVE  IndInv'
<1> DEFINE new == NewRecord(c, req[c])
           old == Matching(new)
           record == IF old = {} THEN new ELSE stateRecords_[Min(old)]
<1>1. UNCHANGED <<start, perms, req, idx, notified>>
  BY DEF RegisterStateChange
<1>2. req[c] \in Request /\ req[c].slot \in RecordSlot
  BY RequestsAssumption DEF IndInv, RequestOK, RegisterStateChange, Stored
<1>3. new \in Record
  BY <1>2, NewRecordType
<1>4. stateRecords_ \in Seq(Record)
  BY DEF IndInv, TypeOK
<1>5. record \in Record
  BY <1>3, <1>4, OneMatch DEF IndInv
<1>6. \/ UpdateData(record)
      \/ UNCHANGED <<cache, told>>
  BY DEF RegisterStateChange
<1>7. stateRecords_' = IF old = {} THEN Append(stateRecords_, new) ELSE stateRecords_
  BY DEF RegisterStateChange, AddRecord
<1> HIDE DEF record
<1>8. /\ cache' \in [CacheMap -> [RecordSlot -> Int \cup {Absent}]]
      /\ told' \in [Observers -> [Masks -> [RecordSlot -> Sent \cup {Absent}]]]
  BY <1>5, <1>6, UpdateDataType DEF IndInv, TypeOK
<1>9. LockOK' /\ writer' \in Callers \cup {NoCaller} /\ readers' \in SUBSET Callers
  BY LeaveUnique DEF RegisterStateChange, Return
<1>10. pc' = [pc EXCEPT ![c] = "returned"] /\ ret' = [ret EXCEPT ![c] = TELEPHONY_SUCCESS]
  BY DEF RegisterStateChange, Return, Goto
<1>11. stateRecords_' \in Seq(Record)
  BY <1>3, <1>4, <1>7
<1>12. TypeOK'
  <2>1. pc' \in [Callers -> PC] /\ ret' \in [Callers -> Int]
    BY <1>10, CodesAreInt DEF IndInv, TypeOK, PC
  <2> QED BY <1>1, <1>8, <1>9, <1>11, <2>1 DEF IndInv, TypeOK, start
<1>13. RequestOK'
  BY <1>1, <1>10 DEF IndInv, TypeOK, RequestOK, RegisterStateChange
<1>14. UniqueRecords'
  <2>1. CASE old # {}
    BY <1>7, <2>1 DEF IndInv, UniqueRecords, SameKey
  <2>2. CASE old = {}
    <3>1. /\ DOMAIN stateRecords_ = 1 .. Len(stateRecords_)
          /\ DOMAIN stateRecords_' = 1 .. Len(stateRecords_) + 1
          /\ \A i \in 1 .. Len(stateRecords_) : stateRecords_'[i] = stateRecords_[i]
          /\ stateRecords_'[Len(stateRecords_) + 1] = new
      BY <1>3, <1>4, <1>7, <2>2
    <3>2. \A i \in 1 .. Len(stateRecords_) :
             ~SameKey(stateRecords_[i], new) /\ ~SameKey(new, stateRecords_[i])
      BY <2>2, <3>1 DEF Matching, SameKey
    <3> HIDE DEF new
    <3>3. ASSUME NEW i \in DOMAIN stateRecords_', NEW j \in DOMAIN stateRecords_',
                 SameKey(stateRecords_'[i], stateRecords_'[j])
          PROVE  i = j
      <4>1. (i \in 1 .. Len(stateRecords_) \/ i = Len(stateRecords_) + 1)
              /\ (j \in 1 .. Len(stateRecords_) \/ j = Len(stateRecords_) + 1)
        BY <1>4, <3>1
      <4>2. CASE i \in 1 .. Len(stateRecords_) /\ j \in 1 .. Len(stateRecords_)
        BY <3>1, <3>3, <4>2 DEF IndInv, UniqueRecords
      <4>3. CASE i = Len(stateRecords_) + 1 /\ j \in 1 .. Len(stateRecords_)
        BY <3>1, <3>2, <3>3, <4>3
      <4>4. CASE i \in 1 .. Len(stateRecords_) /\ j = Len(stateRecords_) + 1
        BY <3>1, <3>2, <3>3, <4>4
      <4> QED BY <4>1, <4>2, <4>3, <4>4
    <3> QED BY <3>3 DEF UniqueRecords, SameKey
  <2> QED BY <2>1, <2>2
<1> QED BY <1>9, <1>12, <1>13, <1>14 DEF IndInv

\* What UnregisterStateChange does to the table: nothing, or it erases the one
\* record with its key.
LEMMA UnregisterShape ==
    ASSUME IndInv, NEW c \in Callers, UnregisterStateChange(c)
    PROVE  \/ /\ Matching(NewRecord(c, req[c])) = {}
              /\ Return(c, TELEPHONY_STATE_UNREGISTRY_DATA_NOT_EXIST)
              /\ UNCHANGED <<stateRecords_, told>>
           \/ \E i \in 1 .. Len(stateRecords_) :
                 /\ \A j \in DOMAIN stateRecords_ :
                       SameKey(stateRecords_[j], NewRecord(c, req[c])) <=> j = i
                 /\ stateRecords_' = RemoveAt(stateRecords_, i)
                 /\ Forget(stateRecords_[i])
                 /\ Return(c, TELEPHONY_SUCCESS)
<1> DEFINE found == Matching(NewRecord(c, req[c]))
<1>1. CASE found = {}
  BY <1>1 DEF UnregisterStateChange
<1>2. CASE found # {}
  <2>1. /\ Min(found) \in 1 .. Len(stateRecords_)
        /\ \A j \in DOMAIN stateRecords_ :
              SameKey(stateRecords_[j], NewRecord(c, req[c])) <=> j = Min(found)
    BY <1>2, OneMatch DEF IndInv
  <2>2. /\ stateRecords_' = RemoveAt(stateRecords_, Min(found))
        /\ Forget(stateRecords_[Min(found)])
        /\ Return(c, TELEPHONY_SUCCESS)
    BY <1>2 DEF UnregisterStateChange
  <2> HIDE DEF found
  <2> QED BY <2>1, <2>2
<1> QED BY <1>1, <1>2

\* UnregisterStateChange preserves the inductive invariant.
LEMMA UnregisterStep ==
    ASSUME IndInv, NEW c \in Callers, UnregisterStateChange(c)
    PROVE  IndInv'
<1>1. UNCHANGED <<start, cache, perms, req, idx, notified>>
  BY DEF UnregisterStateChange
<1>2. PICK code \in Int : Return(c, code)
  BY UnregisterShape, CodesAreInt
<1>3. LockOK' /\ writer' \in Callers \cup {NoCaller} /\ readers' \in SUBSET Callers
  BY <1>2, LeaveUnique DEF UnregisterStateChange, Return
<1>4. pc' \in [Callers -> PC] /\ ret' \in [Callers -> Int]
  BY <1>2 DEF Return, Goto, IndInv, TypeOK, PC
<1>5. RequestOK'
  BY <1>1, <1>2 DEF IndInv, TypeOK, RequestOK, Return, Goto, UnregisterStateChange
<1>6. stateRecords_ \in Seq(Record) /\ Len(stateRecords_) \in Nat
        /\ told \in [Observers -> [Masks -> [RecordSlot -> Sent \cup {Absent}]]]
  BY DEF IndInv, TypeOK
<1>7. CASE UNCHANGED <<stateRecords_, told>>
  <2>1. TypeOK'
    BY <1>1, <1>3, <1>4, <1>7 DEF IndInv, TypeOK, start
  <2>2. UniqueRecords'
    BY <1>7 DEF IndInv, UniqueRecords, SameKey
  <2> QED BY <1>3, <1>5, <2>1, <2>2 DEF IndInv
<1>8. CASE \E i \in 1 .. Len(stateRecords_) :
              stateRecords_' = RemoveAt(stateRecords_, i) /\ Forget(stateRecords_[i])
  <2>1. PICK i \in 1 .. Len(stateRecords_) :
              stateRecords_' = RemoveAt(stateRecords_, i) /\ Forget(stateRecords_[i])
    BY <1>8
  <2>2. /\ stateRecords_' \in Seq(Record)
        /\ Len(stateRecords_') = Len(stateRecords_) - 1
        /\ \A j \in 1 .. Len(stateRecords_) - 1 :
              stateRecords_'[j] = IF j < i THEN stateRecords_[j] ELSE stateRecords_[j + 1]
    BY <1>6, <2>1, RemoveAtProperties
  <2>3. stateRecords_[i] \in Record
    BY <1>6
  <2>4. told' \in [Observers -> [Masks -> [RecordSlot -> Sent \cup {Absent}]]]
    BY <1>6, <2>1, <2>3 DEF Forget, Record
  <2>5. TypeOK'
    BY <1>1, <1>3, <1>4, <2>2, <2>4 DEF IndInv, TypeOK, start
  <2>6. UniqueRecords'
    <3>1. ASSUME NEW j \in 1 .. Len(stateRecords_) - 1, NEW k \in 1 .. Len(stateRecords_) - 1,
                 SameKey(stateRecords_'[j], stateRecords_'[k])
          PROVE  j = k
      <4> DEFINE at(n) == IF n < i THEN n ELSE n + 1
      <4>1. at(j) \in DOMAIN stateRecords_ /\ at(k) \in DOMAIN stateRecords_
        BY <1>6
      <4>2. stateRecords_'[j] = stateRecords_[at(j)] /\ stateRecords_'[k] = stateRecords_[at(k)]
        BY <2>2
      <4>3. at(j) = at(k)
        <5> HIDE DEF at
        <5> QED BY <3>1, <4>1, <4>2 DEF IndInv, UniqueRecords
      <4> QED BY <1>6, <4>3
    <3>2. DOMAIN stateRecords_' = 1 .. Len(stateRecords_) - 1
      BY <2>2
    <3> QED BY <3>1, <3>2 DEF UniqueRecords, SameKey
  <2> QED BY <1>3, <1>5, <2>5, <2>6 DEF IndInv
<1> QED BY <1>7, <1>8, UnregisterShape

\* OnStart and OnStop preserve the inductive invariant.
LEMMA StartStopStep ==
    ASSUME IndInv, NEW c \in Callers, OnStart(c) \/ OnStop(c)
    PROVE  IndInv'
<1>1. UNCHANGED <<lastEvent, data, perms, req, idx, notified>>
  BY DEF OnStart, OnStop
<1>2. Return(c, TELEPHONY_SUCCESS) /\ pc[c] = "unique" /\ UnlockUnique
  BY DEF OnStart, OnStop
<1>3. state_' \in {"RUNNING", "STOPPED"} /\ boot' \in [BootThreads -> -1 .. slotSize_]
  <2>1. boot \in [BootThreads -> -1 .. slotSize_] /\ 0 \in -1 .. slotSize_
    BY ConstantsAssumption DEF IndInv, TypeOK, MAX_SLOT_COUNT
  <2> QED BY <2>1 DEF OnStart, OnStop, IndInv, TypeOK
<1>4. LockOK' /\ writer' \in Callers \cup {NoCaller} /\ readers' \in SUBSET Callers
  BY <1>2, LeaveUnique DEF Return
<1>5. pc' \in [Callers -> PC] /\ ret' \in [Callers -> Int]
  BY <1>2, CodesAreInt DEF Return, Goto, IndInv, TypeOK, PC
<1>6. TypeOK'
  BY <1>1, <1>3, <1>4, <1>5 DEF IndInv, TypeOK, data
<1>7. RequestOK'
  BY <1>1, <1>2 DEF IndInv, TypeOK, RequestOK, Return, Goto
<1>8. UniqueRecords'
  BY <1>1 DEF IndInv, UniqueRecords, SameKey, data
<1> QED BY <1>4, <1>6, <1>7, <1>8 DEF IndInv

\* The detached task of OnStart preserves the inductive invariant.
LEMMA BootStep ==
    ASSUME IndInv, NEW b \in BootThreads, Boot(b)
    PROVE  IndInv'
<1>1. UNCHANGED <<state_, data, perms, lock_, pc, req, local>>
  BY DEF Boot, BootPublish, BootNoEventService
<1>2. slotSize_ \in Nat
  BY ConstantsAssumption DEF MAX_SLOT_COUNT
<1>3. boot' \in [BootThreads -> -1 .. slotSize_]
  <2>1. boot \in [BootThreads -> -1 .. slotSize_]
    BY DEF IndInv, TypeOK
  <2>2. CASE BootPublish(b)
    <3>1. boot[b] + 1 \in -1 .. slotSize_
      BY <1>2, <2>2 DEF BootPublish
    <3> QED BY <2>1, <2>2, <3>1, ExceptType DEF BootPublish
  <2>3. CASE BootNoEventService(b)
    <3>1. slotSize_ \in -1 .. slotSize_
      BY <1>2
    <3> QED BY <2>1, <2>3, <3>1, ExceptType DEF BootNoEventService
  <2> QED BY <2>2, <2>3 DEF Boot
<1>4. lastEvent' \in [Topic -> [RecordSlot -> Event \cup {Absent}]]
  <2>1. \/ Publish({"CALL_STATE_CHANGED"}, boot[b], CALL_STATUS_DISCONNECTED, NoNumber, "boot")
        \/ lastEvent' = lastEvent
    BY DEF Boot, BootPublish, BootNoEventService
  <2>2. CALL_STATUS_DISCONNECTED \in Int /\ NoNumber \in Int
    BY DEF CALL_STATUS_DISCONNECTED, NoNumber
  <2> QED BY <2>1, <2>2, PublishType DEF IndInv, TypeOK
<1>5. TypeOK'
  BY <1>1, <1>3, <1>4 DEF IndInv, TypeOK, data, lock_, local
<1>6. RequestOK' /\ LockOK'
  BY <1>1 DEF IndInv, RequestOK, LockOK, lock_
<1>7. UniqueRecords'
  BY <1>1 DEF IndInv, UniqueRecords, SameKey, data
<1> QED BY <1>5, <1>6, <1>7 DEF IndInv

\* The end of a query or of Dump preserves the inductive invariant.
LEMMA QueryStep ==
    ASSUME IndInv, NEW c \in Callers, GetXxx(c) \/ DumpDone(c)
    PROVE  IndInv'
<1>1. UNCHANGED <<start, data, perms, req, idx, notified>>
  BY DEF GetXxx, DumpDone
<1>2. PICK code \in Int : Return(c, code)
  <2>1. CASE DumpDone(c)
    BY <2>1, CodesAreInt DEF DumpDone
  <2>2. CASE GetXxx(c)
    <3>1. req[c] \in Request /\ req[c].slot \in RecordSlot
      BY <2>2, RequestsAssumption DEF GetXxx, IndInv, RequestOK
    <3>2. cache[req[c].map][req[c].slot] \in Int \cup {Absent}
      BY <3>1 DEF IndInv, TypeOK, Request
    <3> QED BY <2>2, <3>2, CodesAreInt DEF GetXxx
  <2> QED BY <2>1, <2>2
<1>3. LockOK' /\ writer' \in Callers \cup {NoCaller} /\ readers' \in SUBSET Callers
  BY <1>2, LeaveShared DEF GetXxx, DumpDone, Return, Shared
<1>4. pc' \in [Callers -> PC] /\ ret' \in [Callers -> Int]
  BY <1>2 DEF Return, Goto, IndInv, TypeOK, PC
<1>5. TypeOK'
  BY <1>1, <1>3, <1>4 DEF IndInv, TypeOK, start, data
<1>6. RequestOK'
  BY <1>1, <1>2 DEF IndInv, TypeOK, RequestOK, Return, Goto, GetXxx, DumpDone
<1>7. UniqueRecords'
  BY <1>1 DEF IndInv, UniqueRecords, SameKey, data
<1> QED BY <1>3, <1>5, <1>6, <1>7 DEF IndInv

\* The queries inside Dump preserve the inductive invariant.
LEMMA DumpStep ==
    ASSUME IndInv, NEW c \in Callers, DumpSlot(c) \/ DumpQuery(c)
    PROVE  IndInv'
<1>1. UNCHANGED <<start, data, perms, lock_, req, notified, ret>>
  BY DEF DumpSlot, DumpQuery
<1>2. /\ pc[c] \in {"dump", "relock"}
      /\ \E p \in {"dump", "relock"} : pc' = [pc EXCEPT ![c] = p]
      /\ \E n \in {0, 1, 7} : idx' = [idx EXCEPT ![c] = @ + n]
  BY DEF DumpSlot, DumpQuery, QueriesPerSlot, Goto, IndInv, TypeOK
<1>3. idx' \in [Callers -> Nat] /\ pc' \in [Callers -> PC]
  <2>1. idx \in [Callers -> Nat] /\ pc \in [Callers -> PC]
    BY DEF IndInv, TypeOK
  <2>2. idx' \in [Callers -> Nat]
    BY <1>2, <2>1
  <2>3. pc' \in [Callers -> PC]
    BY <1>2, <2>1 DEF PC
  <2> QED BY <2>2, <2>3
<1>4. TypeOK'
  BY <1>1, <1>3 DEF IndInv, TypeOK, start, data, lock_
<1>5. RequestOK'
  BY <1>1, <1>2 DEF IndInv, TypeOK, RequestOK
<1>6. LockOK'
  BY <1>1, <1>2 DEF IndInv, TypeOK, LockOK, lock_, Exclusive, Shared
<1>7. UniqueRecords'
  BY <1>1 DEF IndInv, UniqueRecords, SameKey, data
<1> QED BY <1>4, <1>5, <1>6, <1>7 DEF IndInv

\* A permission that comes or goes preserves the inductive invariant.
LEMMA ToggleStep ==
    ASSUME IndInv, NEW tp \in Revocable, TogglePermission(tp[1], tp[2])
    PROVE  IndInv'
<1>1. UNCHANGED <<start, data, lock_, pc, req, local>>
  BY DEF TogglePermission
<1>2. tp[2] \in Permission
  BY ConstantsAssumption
<1>3. perms' \in [Tokens -> SUBSET Permission]
  BY <1>2 DEF TogglePermission, IndInv, TypeOK
<1>4. TypeOK'
  BY <1>1, <1>3 DEF IndInv, TypeOK, start, data, lock_, local
<1>5. RequestOK' /\ LockOK'
  BY <1>1 DEF IndInv, RequestOK, LockOK, lock_
<1>6. UniqueRecords'
  BY <1>1 DEF IndInv, UniqueRecords, SameKey, data
<1> QED BY <1>4, <1>5, <1>6 DEF IndInv

\* A step that changes nothing preserves the inductive invariant.
LEMMA StutterStep ==
    ASSUME IndInv, UNCHANGED vars
    PROVE  IndInv'
  BY DEF IndInv, TypeOK, RequestOK, LockOK, UniqueRecords, SameKey, vars

\* Every step of the service preserves the inductive invariant.
LEMMA IndInvStep == IndInv /\ [Next]_vars => IndInv'
<1> SUFFICES ASSUME IndInv, [Next]_vars PROVE IndInv'
  OBVIOUS
<1>1. ASSUME NEW c \in Callers, Call(c) \/ Reply(c) PROVE IndInv'
  BY <1>1, CallStep, ReplyStep
<1>2. ASSUME NEW c \in Callers, LockUnique(c) \/ LockShared(c) \/ DumpQuery(c) PROVE IndInv'
  BY <1>2, LockStep, DumpStep
<1>3. ASSUME NEW c \in Callers, Locked(c) PROVE IndInv'
  BY <1>3, LockStep, WriteCacheStep, RegisterStep, UnregisterStep, StartStopStep, NotifyStep,
     FinishUpdateStep, QueryStep, DumpStep DEF Locked
<1>4. ASSUME NEW b \in BootThreads, Boot(b) PROVE IndInv'
  BY <1>4, BootStep
<1>5. ASSUME NEW tp \in Revocable, TogglePermission(tp[1], tp[2]) PROVE IndInv'
  BY <1>5, ToggleStep
<1> QED BY <1>1, <1>2, <1>3, <1>4, <1>5, StutterStep DEF Next

\* The invariant holds of the service, whatever its callers do.
THEOREM Invariance == Spec => []IndInv
  BY InitStep, IndInvStep, PTL DEF Spec

\* The variables of the service keep their types: every value sent to an
\* observer is a value, every record has a slot that may be recorded.
THEOREM TypeCorrect == Spec => []TypeOK
  BY Invariance, PTL DEF IndInv

\* No two registrations of the table have the same slot, mask, token and process.
THEOREM RecordsUnique == Spec => []UniqueRecords
  BY Invariance, PTL DEF IndInv

\* A thread inside a unique section of lock_ is alone with the service's state.
THEOREM LockExcludes == Spec => []Exclusion
<1>1. IndInv => Exclusion
  BY ConstantsAssumption DEF IndInv, LockOK, Exclusion, Exclusive, Shared
<1> QED BY <1>1, Invariance, PTL

-----------------------------------------------------------------------------
(* The table and the maps stand still while somebody shares lock_. *)

\* The table changes only inside a unique section.
LEMMA TableStable ==
    ASSUME IndInv, [Next]_vars, readers # {}
    PROVE  UNCHANGED stateRecords_
<1>1. ASSUME NEW c \in Callers, RegisterStateChange(c) \/ UnregisterStateChange(c) PROVE FALSE
  BY <1>1 DEF RegisterStateChange, UnregisterStateChange, IndInv, LockOK
<1>2. ASSUME NEW c \in Callers, Call(c) PROVE UNCHANGED stateRecords_
  BY <1>2, CallShape DEF Reject, Accept, data
<1>3. ASSUME NEW c \in Callers,
             LockUnique(c) \/ LockShared(c) \/ DumpQuery(c) \/ Locked(c) \/ Reply(c)
      PROVE  UNCHANGED stateRecords_
  BY <1>1, <1>3 DEF LockUnique, LockShared, DumpQuery, Locked, Reply, Drained, WriteCache, OnStart,
     OnStop, NotifyRecord, FinishUpdate, GetXxx, DumpSlot, DumpDone, data
<1>4. ASSUME NEW b \in BootThreads, Boot(b) PROVE UNCHANGED stateRecords_
  BY <1>4 DEF Boot, BootPublish, BootNoEventService, data
<1>5. ASSUME NEW tp \in Revocable, TogglePermission(tp[1], tp[2]) PROVE UNCHANGED stateRecords_
  BY <1>5 DEF TogglePermission, data
<1> QED BY <1>2, <1>3, <1>4, <1>5 DEF Next, vars

\* The update that reads the number map again has stored the number it reads.
NumberStored ==
    \A c \in Callers :
        pc[c] \in {"share", "notify"} /\ req[c].op = "UpdateCallStateForSlotId"
            => cache["callIncomingNumber_"][req[c].slot] # Absent

\* A callback that reads the number map finds its key there: operator[]
\* inserts nothing.
LEMMA NumberIsStored ==
    /\ "UpdateCallStateForSlotId" \in UpdateOp
    /\ "callIncomingNumber_" \in Handlers["UpdateCallStateForSlotId"].maps
    /\ Handlers["UpdateCallStateForSlotId"].maps # {}
  BY DEF UpdateOp, Handlers, Handler, UpdateCallStateForSlotId

\* Inserting defaults removes no key.
LEMMA InsertedKeeps ==
    ASSUME TypeOK, NEW maps, NEW slot, NEW m \in CacheMap, NEW k \in RecordSlot,
           cache[m][k] # Absent
    PROVE  Inserted(maps, slot)[m][k] = cache[m][k]
<1>1. cache[m] \in [RecordSlot -> Int \cup {Absent}]
  BY DEF TypeOK
<1>2. CASE slot = k
  BY <1>2 DEF Inserted
<1>3. CASE slot # k
  BY <1>1, <1>3 DEF Inserted
<1> QED BY <1>2, <1>3

\* With the number stored, a turn of the loop leaves the maps alone.
LEMMA NotifyKeepsCache ==
    ASSUME IndInv, NumberStored, NEW c \in Callers, NotifyRecord(c)
    PROVE  UNCHANGED cache
<1>1. cache["callIncomingNumber_"][req[c].slot] # Absent
        \/ req[c].op # "UpdateCallStateForSlotId"
  BY DEF NumberStored, NotifyRecord
<1>2. CASE req[c].op # "UpdateCallStateForSlotId"
  BY <1>2 DEF NotifyRecord, ReadsNumberMap
<1>3. CASE cache["callIncomingNumber_"][req[c].slot] # Absent
  <2>1. Inserted({"callIncomingNumber_"}, req[c].slot) = cache
    BY <1>3 DEF Inserted, IndInv, TypeOK
  <2> QED BY <2>1 DEF NotifyRecord
<1> QED BY <1>1, <1>2, <1>3

\* No step removes a key from a map.
LEMMA KeysKept ==
    ASSUME IndInv, [Next]_vars, NEW m \in CacheMap, NEW k \in RecordSlot, cache[m][k] # Absent
    PROVE  cache'[m][k] # Absent
<1>0. cache[m] \in [RecordSlot -> Int \cup {Absent}] /\ TypeOK
  BY DEF IndInv, TypeOK
<1>1. ASSUME NEW c \in Callers, WriteCache(c) PROVE cache'[m][k] # Absent
  <2>1. req[c] \in Request
    BY <1>1, RequestsAssumption DEF IndInv, RequestOK, WriteCache
  <2>2. Written(m, req[c]) \in Int
    BY <2>1 DEF Written, Request
  <2>3. cache'[m] = cache[m] \/ cache'[m] = [cache[m] EXCEPT ![req[c].slot] = Written(m, req[c])]
    BY <1>1 DEF WriteCache
  <2> QED BY <1>0, <2>2, <2>3, ConstantsAssumption
<1>2. ASSUME NEW c \in Callers, RegisterStateChange(c) PROVE cache'[m][k] # Absent
  <2>1. cache' = cache \/ \E r : UpdateData(r)
    BY <1>2 DEF RegisterStateChange
  <2>2. cache' = cache \/ \E r : cache' = Inserted(ReplayedMaps(r), r.slotId_)
    BY <2>1 DEF UpdateData
  <2> QED BY <1>0, <2>2, InsertedKeeps
<1>3. ASSUME NEW c \in Callers, NotifyRecord(c) PROVE cache'[m][k] # Absent
  <2>1. cache' = cache \/ cache' = Inserted({"callIncomingNumber_"}, req[c].slot)
    BY <1>3 DEF NotifyRecord
  <2> QED BY <1>0, <2>1, InsertedKeeps
<1>4. ASSUME NEW c \in Callers, Call(c) PROVE UNCHANGED cache
  BY <1>4, CallShape DEF Reject, Accept, data
<1>5. ASSUME NEW c \in Callers,
             LockUnique(c) \/ LockShared(c) \/ DumpQuery(c) \/ Reply(c) \/ Drained(c) \/ OnStart(c)
             \/ OnStop(c) \/ UnregisterStateChange(c) \/ FinishUpdate(c) \/ GetXxx(c) \/ DumpSlot(c)
             \/ DumpDone(c)
      PROVE  UNCHANGED cache
  BY <1>5 DEF LockUnique, LockShared, DumpQuery, Reply, Drained, OnStart, OnStop,
     UnregisterStateChange, FinishUpdate, GetXxx, DumpSlot, DumpDone, data
<1>6. ASSUME NEW b \in BootThreads, Boot(b) PROVE UNCHANGED cache
  BY <1>6 DEF Boot, BootPublish, BootNoEventService, data
<1>7. ASSUME NEW tp \in Revocable, TogglePermission(tp[1], tp[2]) PROVE UNCHANGED cache
  BY <1>7 DEF TogglePermission, data
<1> QED BY <1>1, <1>2, <1>3, <1>4, <1>5, <1>6, <1>7 DEF Next, Locked, vars

\* A step that is not a step of c's call leaves that call where it is.
SameCall(c) ==
    /\ pc'[c] = pc[c] /\ req'[c] = req[c] /\ ret'[c] = ret[c]
    /\ idx'[c] = idx[c] /\ notified'[c] = notified[c]

\* A step moves one thread; the calls of the others stay as they are.
LEMMA PcStep ==
    ASSUME IndInv, [Next]_vars, NEW c \in Callers
    PROVE  \/ SameCall(c)
           \/ Call(c) \/ Reply(c) \/ LockUnique(c) \/ LockShared(c) \/ DumpQuery(c) \/ Locked(c)
<1>0. /\ pc \in [Callers -> PC] /\ req \in [Callers -> Request \cup {Absent}]
      /\ ret \in [Callers -> Int] /\ idx \in [Callers -> Nat] /\ notified \in [Callers -> SUBSET Nat]
  BY DEF IndInv, TypeOK
<1>1. ASSUME NEW d \in Callers, d # c, Call(d) PROVE SameCall(c)
  BY <1>0, <1>1, CallShape DEF Reject, Accept, Return, Goto, SameCall, local
<1>2. ASSUME NEW d \in Callers, d # c, Reply(d) PROVE SameCall(c)
  BY <1>0, <1>2 DEF Reply, Goto, SameCall
<1>3. ASSUME NEW d \in Callers, d # c, LockUnique(d) \/ DumpQuery(d) PROVE SameCall(c)
  BY <1>0, <1>3 DEF LockUnique, DumpQuery, Goto, SameCall, local
<1>4. ASSUME NEW d \in Callers, d # c, LockShared(d) PROVE SameCall(c)
  <2>1. /\ \E p \in PC : pc' = [pc EXCEPT ![d] = p]
        /\ idx' = idx \/ idx' = [idx EXCEPT ![d] = 1]
        /\ UNCHANGED <<req, notified, ret>>
    BY <1>4 DEF LockShared, Goto, PC
  <2> QED BY <1>0, <1>4, <2>1 DEF SameCall
<1>5. ASSUME NEW d \in Callers, d # c, Locked(d)
      PROVE  SameCall(c)
  <2>1. CASE RegisterStateChange(d) \/ UnregisterStateChange(d) \/ OnStart(d) \/ OnStop(d)
    BY <1>0, <1>5, <2>1 DEF RegisterStateChange, UnregisterStateChange, OnStart, OnStop, Return,
       Goto, SameCall
  <2>2. CASE Drained(d) \/ WriteCache(d) \/ FinishUpdate(d)
    BY <1>0, <1>5, <2>2 DEF Drained, WriteCache, FinishUpdate, Return, Goto, SameCall, local
  <2>3. CASE NotifyRecord(d)
    <3>1. /\ UNCHANGED <<pc, req, ret>>
          /\ idx' = [idx EXCEPT ![d] = @ + 1]
          /\ notified' = notified \/ notified' = [notified EXCEPT ![d] = @ \cup {idx[d]}]
      BY <2>3 DEF NotifyRecord
    <3> QED BY <1>0, <1>5, <3>1 DEF SameCall
  <2>4. CASE GetXxx(d) \/ DumpSlot(d) \/ DumpDone(d)
    BY <1>0, <1>5, <2>4 DEF GetXxx, DumpSlot, DumpDone, Return, Goto, SameCall
  <2> QED BY <1>5, <2>1, <2>2, <2>3, <2>4 DEF Locked
<1>6. ASSUME NEW b \in BootThreads, Boot(b) PROVE SameCall(c)
  BY <1>6 DEF Boot, BootPublish, BootNoEventService, SameCall, local
<1>7. ASSUME NEW tp \in Revocable, TogglePermission(tp[1], tp[2])
      PROVE  SameCall(c)
  BY <1>7 DEF TogglePermission, SameCall, local
<1>8. CASE UNCHANGED vars
  BY <1>8 DEF SameCall, vars
<1> QED BY <1>1, <1>2, <1>3, <1>4, <1>5, <1>6, <1>7, <1>8 DEF Next

\* Every step keeps the numbers of the calls on their way stored.
LEMMA NumberStoredStep ==
    ASSUME IndInv, NumberStored, [Next]_vars
    PROVE  NumberStored'
<1> SUFFICES ASSUME NEW c \in Callers, pc'[c] \in {"share", "notify"},
                    req'[c].op = "UpdateCallStateForSlotId"
             PROVE  cache'["callIncomingNumber_"][req'[c].slot] # Absent
  BY DEF NumberStored
<1>0. pc \in [Callers -> PC] /\ req \in [Callers -> Request \cup {Absent}]
        /\ "callIncomingNumber_" \in CacheMap
  BY DEF IndInv, TypeOK, CacheMap
<1>1. ASSUME pc[c] \in {"share", "notify"}, req'[c] = req[c]
      PROVE  cache'["callIncomingNumber_"][req'[c].slot] # Absent
  <2>1. req[c].slot \in RecordSlot
    BY <1>1, NumberIsStored DEF IndInv, RequestOK, Stored
  <2>2. cache["callIncomingNumber_"][req[c].slot] # Absent
    BY <1>1 DEF NumberStored
  <2> QED BY <1>0, <1>1, <2>1, <2>2, KeysKept
<1>2. CASE SameCall(c)
  BY <1>1, <1>2 DEF SameCall
<1>3. CASE LockShared(c) \/ NotifyRecord(c)
  BY <1>1, <1>3 DEF LockShared, NotifyRecord
<1>4. CASE WriteCache(c)
  <2>1. req[c].slot \in RecordSlot /\ req[c] \in Request
    BY <1>4, NumberIsStored, RequestsAssumption DEF IndInv, RequestOK, Stored, WriteCache
  <2>2. cache["callIncomingNumber_"] \in [RecordSlot -> Int \cup {Absent}]
    BY <1>0 DEF IndInv, TypeOK
  <2>3. req'[c] = req[c]
    BY <1>4 DEF WriteCache
  <2>4. cache'["callIncomingNumber_"] =
            [cache["callIncomingNumber_"] EXCEPT ![req[c].slot] = req[c].num]
    BY <1>0, <1>4, <2>3, NumberIsStored DEF WriteCache, Written
  <2> QED BY <2>1, <2>2, <2>3, <2>4, ConstantsAssumption DEF Request
<1>5. CASE Call(c)
  \* An update that writes a map starts with the unique lock.
  <2>1. PICK q \in Requests[c] :
            /\ req' = [req EXCEPT ![c] = q]
            /\ \/ q.op \in UpdateOp /\ BeginUpdate(c, q)
               \/ q.op # "UpdateCallStateForSlotId"
    BY <1>5 DEF Call
  <2>2. q.op = "UpdateCallStateForSlotId"
    BY <1>0, <2>1
  <2>3. BeginUpdate(c, q)
    BY <2>1, <2>2
  <2>4. pc'[c] \in {"returned", "lock"}
    BY <1>0, <2>2, <2>3, NumberIsStored DEF BeginUpdate, Reject, Accept, Return, Goto
  <2> QED BY <2>4
<1>6. CASE Reply(c) \/ LockUnique(c) \/ DumpQuery(c)
  BY <1>0, <1>6 DEF Reply, LockUnique, DumpQuery, Goto
<1>7. CASE Drained(c) \/ DumpSlot(c) \/ GetXxx(c) \/ DumpDone(c) \/ FinishUpdate(c)
  BY <1>0, <1>7 DEF Drained, DumpSlot, GetXxx, DumpDone, FinishUpdate, Return, Goto
<1>8. CASE RegisterStateChange(c) \/ UnregisterStateChange(c) \/ OnStart(c) \/ OnStop(c)
  BY <1>0, <1>8 DEF RegisterStateChange, UnregisterStateChange, OnStart, OnStop, Return, Goto
<1> QED BY <1>2, <1>3, <1>4, <1>5, <1>6, <1>7, <1>8, PcStep DEF Locked

\* UpdateCallStateForSlotId always finds the number it re-reads.
LEMMA NumberStoredInvariance == Spec => []NumberStored
<1>1. Init => NumberStored
  BY DEF Init, NumberStored
<1>2. IndInv /\ NumberStored /\ [Next]_vars => NumberStored'
  BY NumberStoredStep
<1> QED BY <1>1, <1>2, Invariance, PTL DEF Spec

\* The maps change only inside a unique section.
LEMMA CacheStable ==
    ASSUME IndInv, NumberStored, [Next]_vars, readers # {}
    PROVE  UNCHANGED cache
<1>1. ASSUME NEW c \in Callers, WriteCache(c) \/ RegisterStateChange(c) PROVE FALSE
  BY <1>1 DEF WriteCache, RegisterStateChange, IndInv, LockOK
<1>2. ASSUME NEW c \in Callers, NotifyRecord(c) PROVE UNCHANGED cache
  BY <1>2, NotifyKeepsCache
<1>3. ASSUME NEW c \in Callers, Call(c) PROVE UNCHANGED cache
  BY <1>3, CallShape DEF Reject, Accept, data
<1>4. ASSUME NEW c \in Callers,
             LockUnique(c) \/ LockShared(c) \/ DumpQuery(c) \/ Reply(c) \/ Drained(c) \/ OnStart(c)
             \/ OnStop(c) \/ UnregisterStateChange(c) \/ FinishUpdate(c) \/ GetXxx(c) \/ DumpSlot(c)
             \/ DumpDone(c)
      PROVE  UNCHANGED cache
  BY <1>4 DEF LockUnique, LockShared, DumpQuery, Reply, Drained, OnStart, OnStop,
     UnregisterStateChange, FinishUpdate, GetXxx, DumpSlot, DumpDone, data
<1>5. ASSUME NEW b \in BootThreads, Boot(b) PROVE UNCHANGED cache
  BY <1>5 DEF Boot, BootPublish, BootNoEventService, data
<1>6. ASSUME NEW tp \in Revocable, TogglePermission(tp[1], tp[2]) PROVE UNCHANGED cache
  BY <1>6 DEF TogglePermission, data
<1> QED BY <1>1, <1>2, <1>3, <1>4, <1>5, <1>6 DEF Next, Locked, vars

\* While a thread walks the records or reads a map, no other thread moves them
\* under it, and its own operator[] on the number map finds the key.
THEOREM SharedSectionsAreStable == Spec => StableWhileShared
<1>1. IndInv /\ NumberStored /\ [Next]_vars
         => [readers # {} => UNCHANGED <<stateRecords_, cache>>]_vars
  BY TableStable, CacheStable
<1> QED BY <1>1, Invariance, NumberStoredInvariance, PTL DEF Spec, StableWhileShared

-----------------------------------------------------------------------------
(* The loop of UpdateXxx misses nobody. *)

\* What the loop has done so far, and that it starts with nothing done.
Traversal ==
    \A c \in Callers :
        /\ pc[c] \notin {"notify", "returned"} => notified[c] = {}
        /\ pc[c] = "notify" => idx[c] > 0
        /\ pc[c] = "notify" =>
              \A i \in DOMAIN stateRecords_ :
                  LET h == Handlers[req[c].op]
                      r == stateRecords_[i]
                  IN /\ i < idx[c] /\ Wants(req[c], r) => i \in notified[c]
                     /\ i \in notified[c] => Branch(h, r) # {} /\ SlotMatches(h.scope, req[c].slot, r)

\* Only UpdateNetworkState has the bit that a null argument silences.
LEMMA NetworkBit ==
    ASSUME NEW op \in UpdateOp, NEW r, "NETWORK_STATE" \in Branch(Handlers[op], r)
    PROVE  op = "UpdateNetworkState"
<1>1. \E j \in DOMAIN Handlers[op].masks : Handlers[op].masks[j] = "NETWORK_STATE"
  BY DEF Branch
<1>2. SUFFICES ASSUME op # "UpdateNetworkState",
                      NEW j \in DOMAIN Handlers[op].masks, Handlers[op].masks[j] = "NETWORK_STATE"
               PROVE  FALSE
  BY <1>1
<1>3. CASE op \in {"UpdateCallState", "UpdateCallStateForSlotId"}
  <2>1. Handlers[op].masks = <<"CALL_STATE", "CALL_STATE_EX", "CCALL_STATE">>
    BY <1>3 DEF Handlers, Handler, UpdateCallState, UpdateCallStateForSlotId
  <2> QED BY <1>2, <2>1
<1>4. CASE op \notin {"UpdateCallState", "UpdateCallStateForSlotId"}
  <2>1. \E bit \in ObserverMask \ {"NETWORK_STATE"} : Handlers[op].masks = <<bit>>
    BY <1>2, <1>4 DEF UpdateOp, Handlers, Handler, UpdateCellularDataConnectState,
       UpdateCellularDataFlow, UpdateSimState, UpdateSignalInfo, UpdateCellInfo,
       UpdateCfuIndicator, UpdateIccAccount, UpdateVoiceMailMsgIndicator, UpdateSimActiveState,
       UpdateVoIPCallState, ObserverMask
  <2> QED BY <1>2, <2>1
<1> QED BY <1>3, <1>4

\* A record that wants the update is called back.
LEMMA WantedIsCalled ==
    ASSUME NEW q, q.op \in UpdateOp, NEW r, Wants(q, r)
    PROVE  Called(q, r) # {}
<1>1. PICK bit \in Branch(Handlers[q.op], r) : bit \notin {"CCALL_STATE", "VOIP_CALL_STATE"}
  BY DEF Wants
<1>2. MayBeCalled(q, bit, r)
  BY <1>1, NetworkBit DEF MayBeCalled, Wants
<1> QED BY <1>1, <1>2 DEF Called, Wants

\* Every step keeps the record of what the loop has done up to its index.
LEMMA TraversalStep ==
    ASSUME IndInv, Traversal, [Next]_vars
    PROVE  Traversal'
<1>0. /\ pc \in [Callers -> PC] /\ req \in [Callers -> Request \cup {Absent}]
      /\ idx \in [Callers -> Nat] /\ notified \in [Callers -> SUBSET Nat]
  BY DEF IndInv, TypeOK
<1> SUFFICES ASSUME NEW c \in Callers
             PROVE  /\ pc'[c] \notin {"notify", "returned"} => notified'[c] = {}
                    /\ pc'[c] = "notify" => idx'[c] > 0
                    /\ pc'[c] = "notify" =>
                          \A i \in DOMAIN stateRecords_' :
                              LET h == Handlers[req'[c].op]
                                  r == stateRecords_'[i]
                              IN /\ i < idx'[c] /\ Wants(req'[c], r) => i \in notified'[c]
                                 /\ i \in notified'[c] =>
                                       Branch(h, r) # {} /\ SlotMatches(h.scope, req'[c].slot, r)
  BY DEF Traversal, Wants, Branch, SlotMatches, IsExistStateListener
<1>1. CASE SameCall(c)
  <2>1. CASE pc[c] = "notify"
    <3>1. readers # {}
      BY <2>1 DEF IndInv, LockOK, Shared
    <3>2. stateRecords_' = stateRecords_
      BY <3>1, TableStable
    <3> QED BY <1>1, <2>1, <3>2 DEF SameCall, Traversal
  <2>2. CASE pc[c] # "notify"
    BY <1>1, <2>2 DEF SameCall, Traversal
  <2> QED BY <2>1, <2>2
<1>2. CASE NotifyRecord(c)
  <2> DEFINE r == stateRecords_[idx[c]]
             q == req[c]
  <2>1. /\ pc[c] = "notify" /\ UNCHANGED <<stateRecords_, pc, req>>
        /\ idx'[c] = idx[c] + 1 /\ idx[c] \in Nat /\ notified[c] \in SUBSET Nat
    BY <1>0, <1>2 DEF NotifyRecord
  <2>2. q.op \in UpdateOp
    BY <2>1 DEF IndInv, RequestOK
  <2>3. \/ Called(q, r) = {} /\ notified'[c] = notified[c]
        \/ Called(q, r) # {} /\ notified'[c] = notified[c] \cup {idx[c]}
    BY <1>0, <1>2 DEF NotifyRecord
  <2>4. Called(q, r) # {} => Branch(Handlers[q.op], r) # {} /\ SlotMatches(Handlers[q.op].scope, q.slot, r)
    BY DEF Called
  <2>5. Wants(q, r) => Called(q, r) # {}
    BY <2>2, WantedIsCalled
  <2>6. ASSUME NEW i \in DOMAIN stateRecords_
        PROVE  /\ i < idx'[c] /\ Wants(q, stateRecords_[i]) => i \in notified'[c]
               /\ i \in notified'[c] => /\ Branch(Handlers[q.op], stateRecords_[i]) # {}
                                        /\ SlotMatches(Handlers[q.op].scope, q.slot, stateRecords_[i])
    <3>0. i \in Nat
      BY DEF IndInv, TypeOK
    <3>1. CASE i = idx[c]
      <4>1. /\ Wants(q, stateRecords_[i]) => i \in notified'[c]
        BY <2>3, <2>5, <3>1
      <4>2. i \in notified'[c] => i \in notified[c] \/ Called(q, r) # {}
        BY <2>3
      <4>3. i \in notified[c] => /\ Branch(Handlers[q.op], stateRecords_[i]) # {}
                                 /\ SlotMatches(Handlers[q.op].scope, q.slot, stateRecords_[i])
        BY <2>1 DEF Traversal
      <4> QED BY <2>4, <3>1, <4>1, <4>2, <4>3
    <3>2. CASE i # idx[c]
      <4>1. i < idx'[c] => i < idx[c]
        BY <2>1, <3>0, <3>2
      <4>2. i \in notified'[c] <=> i \in notified[c]
        BY <2>3, <3>2
      <4> QED BY <2>1, <4>1, <4>2 DEF Traversal
    <3> QED BY <3>1, <3>2
  <2>7. idx'[c] > 0
    BY <2>1
  <2> QED BY <2>1, <2>6, <2>7
<1>3. CASE LockShared(c)
  <2>1. /\ pc[c] = "share" /\ UNCHANGED <<stateRecords_, notified>>
        /\ pc'[c] = "notify" => idx'[c] = 1
    BY <1>0, <1>3 DEF LockShared, Goto, data
  <2>2. notified'[c] = {}
    BY <2>1 DEF Traversal
  <2>3. \A i \in DOMAIN stateRecords_ : ~(i < 1)
    BY DEF IndInv, TypeOK
  <2> QED BY <2>1, <2>2, <2>3
<1>4. CASE Call(c)
  <2>1. pc[c] = "idle" /\ pc'[c] # "notify" /\ notified' = notified
    BY <1>0, <1>4, CallShape DEF Reject, Accept, Return, Goto, local
  <2> QED BY <2>1 DEF Traversal
<1>5. CASE Reply(c)
  BY <1>0, <1>5 DEF Reply, Goto
<1>6. CASE LockUnique(c) \/ DumpQuery(c)
  BY <1>0, <1>6 DEF LockUnique, DumpQuery, Goto, local, Traversal
<1>7. CASE Drained(c) \/ WriteCache(c) \/ DumpSlot(c)
  BY <1>0, <1>7 DEF Drained, WriteCache, DumpSlot, Goto, local, Traversal
<1>8. CASE RegisterStateChange(c) \/ UnregisterStateChange(c) \/ OnStart(c) \/ OnStop(c)
           \/ FinishUpdate(c) \/ GetXxx(c) \/ DumpDone(c)
  <2>1. pc'[c] = "returned"
    BY <1>0, <1>8 DEF RegisterStateChange, UnregisterStateChange, OnStart, OnStop, FinishUpdate,
       GetXxx, DumpDone, Return, Goto
  <2> QED BY <2>1
<1> QED BY <1>1, <1>2, <1>3, <1>4, <1>5, <1>6, <1>7, <1>8, PcStep DEF Locked

\* The loop of UpdateXxx has dealt with every record before its index.
LEMMA TraversalInvariance == Spec => []Traversal
<1>1. Init => Traversal
  BY DEF Init, Traversal
<1>2. IndInv /\ Traversal /\ [Next]_vars => Traversal'
  BY TraversalStep
<1> QED BY <1>1, <1>2, Invariance, PTL DEF Spec

\* A call leaves the loop only by finishing it.
LEMMA LoopEnd ==
    ASSUME IndInv, [Next]_vars, NEW c \in Callers, pc[c] = "notify", pc'[c] # "notify"
    PROVE  idx[c] > Len(stateRecords_)
<1>0. pc \in [Callers -> PC] /\ idx[c] \in Nat /\ Len(stateRecords_) \in Nat
  BY DEF IndInv, TypeOK
<1>1. CASE FinishUpdate(c)
  BY <1>0, <1>1 DEF FinishUpdate, InLoop
<1>2. CASE SameCall(c) \/ NotifyRecord(c)
  BY <1>2 DEF SameCall, NotifyRecord
<1>3. pc[c] \notin {"idle", "returned", "lock", "share", "relock", "drain", "unique", "query", "dump"}
  OBVIOUS
<1>4. ~Call(c) /\ ~Reply(c) /\ ~LockUnique(c) /\ ~LockShared(c) /\ ~DumpQuery(c) /\ ~Drained(c)
  BY <1>3 DEF Call, Reply, LockUnique, LockShared, DumpQuery, Drained
<1>5. /\ ~WriteCache(c) /\ ~RegisterStateChange(c) /\ ~UnregisterStateChange(c) /\ ~OnStart(c)
      /\ ~OnStop(c) /\ ~GetXxx(c) /\ ~DumpSlot(c) /\ ~DumpDone(c)
  BY <1>3 DEF WriteCache, RegisterStateChange, UnregisterStateChange, OnStart, OnStop, GetXxx,
     DumpSlot, DumpDone
<1> QED BY <1>1, <1>2, <1>4, <1>5, PcStep DEF Locked

\* Every update reaches every record that wants it, and only records of its mask
\* and slot, whatever is registered and unregistered between the write and the
\* walk: the traversal invariant at the end of the loop.
THEOREM UpdatesReachEveryone == Spec => NoneMissed
<1>1. IndInv /\ Traversal /\ [Next]_vars
         => [\A c \in Callers : (pc[c] = "notify" /\ pc'[c] # "notify") =>
               \A i \in DOMAIN stateRecords_ :
                   LET h == Handlers[req[c].op]
                       r == stateRecords_[i]
                   IN /\ Wants(req[c], r) => i \in notified[c]
                      /\ i \in notified[c] =>
                            Branch(h, r) # {} /\ SlotMatches(h.scope, req[c].slot, r)]_vars
  <2> SUFFICES ASSUME IndInv, Traversal, [Next]_vars, NEW c \in Callers,
                      pc[c] = "notify", pc'[c] # "notify", NEW i \in DOMAIN stateRecords_
               PROVE  LET h == Handlers[req[c].op]
                          r == stateRecords_[i]
                      IN /\ Wants(req[c], r) => i \in notified[c]
                         /\ i \in notified[c] =>
                               Branch(h, r) # {} /\ SlotMatches(h.scope, req[c].slot, r)
    OBVIOUS
  <2>1. i < idx[c]
    <3>1. i \in 1 .. Len(stateRecords_) /\ Len(stateRecords_) \in Nat /\ idx[c] \in Nat
      BY DEF IndInv, TypeOK
    <3> QED BY <3>1, LoopEnd
  <2> QED BY <2>1 DEF Traversal
<1> QED BY <1>1, Invariance, TraversalInvariance, PTL DEF Spec, NoneMissed

-----------------------------------------------------------------------------
(* Unregistering is final. *)

\* Every step keeps an answered unregistration final.
LEMMA FinalStep ==
    ASSUME IndInv, UnregisterIsFinal, [Next]_vars
    PROVE  UnregisterIsFinal'
<1>0. /\ pc \in [Callers -> PC] /\ req \in [Callers -> Request \cup {Absent}]
      /\ ret \in [Callers -> Int] /\ stateRecords_ \in Seq(Record)
  BY DEF IndInv, TypeOK
<1> SUFFICES ASSUME NEW c \in Callers, pc'[c] = "returned", req'[c].op = "Unregister",
                    ret'[c] \in {TELEPHONY_SUCCESS, TELEPHONY_STATE_UNREGISTRY_DATA_NOT_EXIST},
                    \A d \in Callers \ {c} : Pid[d] # Pid[c] \/ Token[d] # Token[c]
             PROVE  \A i \in DOMAIN stateRecords_' :
                       ~SameKey(stateRecords_'[i], NewRecord(c, req'[c]))
  BY DEF UnregisterIsFinal, Matching, SameKey, NewRecord
<1> DEFINE key == NewRecord(c, req[c])
<1>1. CASE SameCall(c)
  <2>1. req'[c] = req[c] /\ \A i \in DOMAIN stateRecords_ : ~SameKey(stateRecords_[i], key)
    BY <1>1 DEF SameCall, UnregisterIsFinal, Matching
  <2>2. CASE stateRecords_' = stateRecords_
    BY <2>1, <2>2
  <2>3. ASSUME NEW d \in Callers, RegisterStateChange(d)
        PROVE  \A i \in DOMAIN stateRecords_' : ~SameKey(stateRecords_'[i], key)
    <3>1. stateRecords_' \in {stateRecords_, Append(stateRecords_, NewRecord(d, req[d]))}
      BY <2>3 DEF RegisterStateChange, AddRecord
    <3>2. d # c
      BY <1>1, <2>3 DEF SameCall, RegisterStateChange
    <3>3. ~SameKey(NewRecord(d, req[d]), key)
      BY <3>2 DEF SameKey, NewRecord
    <3> HIDE DEF key
    <3>4. CASE stateRecords_' = Append(stateRecords_, NewRecord(d, req[d]))
      <4> DEFINE new == NewRecord(d, req[d])
      <4>1. \A i \in DOMAIN stateRecords_' :
               \/ i \in DOMAIN stateRecords_ /\ stateRecords_'[i] = stateRecords_[i]
               \/ stateRecords_'[i] = new
        <5> HIDE DEF new
        <5> QED BY <1>0, <3>4 DEF new
      <4> HIDE DEF new
      <4> QED BY <2>1, <3>3, <4>1 DEF new
    <3> QED BY <2>1, <3>1, <3>4
  <2>4. ASSUME NEW d \in Callers, UnregisterStateChange(d)
        PROVE  \A i \in DOMAIN stateRecords_' : ~SameKey(stateRecords_'[i], key)
    <3>1. stateRecords_' = stateRecords_
            \/ \E i \in 1 .. Len(stateRecords_) : stateRecords_' = RemoveAt(stateRecords_, i)
      BY <2>4, UnregisterShape
    <3>2. ASSUME NEW i \in 1 .. Len(stateRecords_), stateRecords_' = RemoveAt(stateRecords_, i)
          PROVE  \A j \in DOMAIN stateRecords_' : ~SameKey(stateRecords_'[j], key)
      <4>1. \A j \in DOMAIN stateRecords_' :
               \E k \in DOMAIN stateRecords_ : stateRecords_'[j] = stateRecords_[k]
        BY <1>0, <3>2, RemoveAtRange
      <4> HIDE DEF key
      <4> QED BY <2>1, <4>1
    <3> HIDE DEF key
    <3> QED BY <2>1, <3>1, <3>2
  <2>5. \/ stateRecords_' = stateRecords_
        \/ \E d \in Callers : RegisterStateChange(d) \/ UnregisterStateChange(d)
    <3>1. ASSUME NEW d \in Callers, Call(d) PROVE stateRecords_' = stateRecords_
      BY <3>1, CallShape DEF Reject, Accept, data
    <3>2. ASSUME NEW d \in Callers,
                 LockUnique(d) \/ LockShared(d) \/ DumpQuery(d) \/ Reply(d) \/ Locked(d),
                 ~RegisterStateChange(d), ~UnregisterStateChange(d)
          PROVE  stateRecords_' = stateRecords_
      BY <3>2 DEF LockUnique, LockShared, DumpQuery, Locked, Reply, Drained, WriteCache, OnStart,
         OnStop, NotifyRecord, FinishUpdate, GetXxx, DumpSlot, DumpDone, data
    <3>3. ASSUME NEW b \in BootThreads, Boot(b) PROVE stateRecords_' = stateRecords_
      BY <3>3 DEF Boot, BootPublish, BootNoEventService, data
    <3>4. ASSUME NEW tp \in Revocable, TogglePermission(tp[1], tp[2])
          PROVE  stateRecords_' = stateRecords_
      BY <3>4 DEF TogglePermission, data
    <3> QED BY <3>1, <3>2, <3>3, <3>4 DEF Next, vars
  <2> QED BY <2>1, <2>2, <2>3, <2>4, <2>5
<1>2. CASE UnregisterStateChange(c)
  <2>1. req' = req
    BY <1>2 DEF UnregisterStateChange
  <2>2. CASE Matching(key) = {} /\ UNCHANGED stateRecords_
    BY <2>1, <2>2 DEF Matching
  <2>3. ASSUME NEW i \in 1 .. Len(stateRecords_),
               \A j \in DOMAIN stateRecords_ : SameKey(stateRecords_[j], key) <=> j = i,
               stateRecords_' = RemoveAt(stateRecords_, i)
        PROVE  \A j \in DOMAIN stateRecords_' : ~SameKey(stateRecords_'[j], key)
    <3>1. \A j \in DOMAIN stateRecords_' :
             \E k \in DOMAIN stateRecords_ : k # i /\ stateRecords_'[j] = stateRecords_[k]
      BY <1>0, <2>3, RemoveAtRange
    <3> HIDE DEF key
    <3> QED BY <2>3, <3>1
  <2> QED BY <1>2, <2>1, <2>2, <2>3, UnregisterShape
<1>3. CASE Call(c)
  \* A refused request is answered with another code.
  <2>1. PICK q \in Requests[c] :
            /\ req' = [req EXCEPT ![c] = q]
            /\ q.op = "Unregister" => BeginUnregister(c, q)
    BY <1>3 DEF Call, UpdateOp, Handlers
  <2>2. BeginUnregister(c, q)
    BY <1>0, <2>1
  <2>3. \/ pc' = [pc EXCEPT ![c] = "lock"]
        \/ ret' = [ret EXCEPT ![c] = TELEPHONY_ERR_ILLEGAL_USE_OF_SYSTEM_API]
        \/ ret' = [ret EXCEPT ![c] = TELEPHONY_STATE_REGISTRY_PERMISSION_DENIED]
    BY <2>2 DEF BeginUnregister, RejectObserver, Reject, Accept, Return, Goto
  <2> QED
    BY <1>0, <2>3 DEF TELEPHONY_ERR_ILLEGAL_USE_OF_SYSTEM_API,
       TELEPHONY_STATE_REGISTRY_PERMISSION_DENIED, TELEPHONY_SUCCESS,
       TELEPHONY_STATE_UNREGISTRY_DATA_NOT_EXIST
<1>4. CASE Reply(c) \/ LockUnique(c) \/ DumpQuery(c)
  BY <1>0, <1>4 DEF Reply, LockUnique, DumpQuery, Goto
<1>5. CASE LockShared(c)
  <2>1. pc'[c] # "returned"
    BY <1>0, <1>5 DEF LockShared, Goto
  <2> QED BY <2>1
<1>6. CASE Drained(c) \/ WriteCache(c) \/ NotifyRecord(c) \/ DumpSlot(c)
  BY <1>0, <1>6 DEF Drained, WriteCache, NotifyRecord, DumpSlot, Goto
<1>7. CASE RegisterStateChange(c) \/ OnStart(c) \/ OnStop(c)
  BY <1>7 DEF RegisterStateChange, OnStart, OnStop
<1>8. CASE FinishUpdate(c) \/ GetXxx(c) \/ DumpDone(c)
  <2>1. req' = req /\ req[c].op \in UpdateOp \cup {"Get", "Dump"}
    BY <1>8 DEF FinishUpdate, GetXxx, DumpDone, IndInv, RequestOK
  <2> QED BY <2>1 DEF UpdateOp, Handlers
<1> QED BY <1>1, <1>2, <1>3, <1>4, <1>5, <1>6, <1>7, <1>8, PcStep DEF Locked

\* When UnregisterStateChange has answered that it erased the registration, or
\* that there is none, there is none, until the same process registers again:
\* uniqueness makes erasing the first match enough.
THEOREM UnregisteredForGood == Spec => []UnregisterIsFinal
<1>1. Init => UnregisterIsFinal
  BY DEF Init, UnregisterIsFinal
<1>2. IndInv /\ UnregisterIsFinal /\ [Next]_vars => UnregisterIsFinal'
  BY FinalStep
<1> QED BY <1>1, <1>2, Invariance, PTL DEF Spec

-----------------------------------------------------------------------------
(* Numbers go to observers that may read the call log. *)

\* A step that gives observer o a number for slot k, as its call state.
NumberSent(o, k) ==
    LET s == told'[o]["CALL_STATE"][k]
    IN s # told[o]["CALL_STATE"][k] /\ s # Absent /\ s.num # NoNumber

MayReadLog(o) ==
    \E i \in DOMAIN stateRecords_' :
        /\ stateRecords_'[i].telephonyObserver_ = o
        /\ IsCanReadCallHistory(stateRecords_'[i])

\* A turn of the loop shows a number only to a token that may read the call
\* log.
LEMMA NotifyNumber ==
    ASSUME IndInv, Traversal, NEW c \in Callers, NotifyRecord(c),
           NEW o \in Observers, NEW k \in RecordSlot, "CALL_STATE" \in Masks, NumberSent(o, k)
    PROVE  MayReadLog(o)
<1> DEFINE r == stateRecords_[idx[c]]
           q == req[c]
           f == r.telephonyObserver_
           slot == q.slot
           sent(bit) == [val |-> q.val, num |-> NumberFor(q, bit, r)]
<1>1. told \in [Observers -> [Masks -> [RecordSlot -> Sent \cup {Absent}]]]
  BY DEF IndInv, TypeOK
<1>2. stateRecords_' = stateRecords_ /\ idx[c] \in DOMAIN stateRecords_
  BY DEF NotifyRecord, InLoop, IndInv, TypeOK, Traversal
<1>3. PICK bit : told' = [told EXCEPT ![f][bit][slot] = sent(bit)]
  <2>1. told' # told
    BY DEF NumberSent
  <2> QED BY <2>1 DEF NotifyRecord, Tell
<1> HIDE DEF f, slot
<1>4. f = o /\ bit = "CALL_STATE" /\ slot = k
  <2>1. f # o => told'[o]["CALL_STATE"][k] = told[o]["CALL_STATE"][k]
    BY <1>1, <1>3
  <2>2. f = o /\ bit # "CALL_STATE" => told'[o]["CALL_STATE"][k] = told[o]["CALL_STATE"][k]
    BY <1>1, <1>3
  <2>3. f = o /\ bit = "CALL_STATE" /\ slot # k
           => told'[o]["CALL_STATE"][k] = told[o]["CALL_STATE"][k]
    BY <1>1, <1>3
  <2> QED BY <2>1, <2>2, <2>3 DEF NumberSent
<1>5. told'[o]["CALL_STATE"][k] = sent("CALL_STATE")
  BY <1>1, <1>3, <1>4
<1>6. NumberFor(q, "CALL_STATE", r) # NoNumber
  BY <1>5 DEF NumberSent
<1>7. IsCanReadCallHistory(r)
  BY <1>6 DEF NumberFor, ReadsNumberMap
<1> QED BY <1>2, <1>4, <1>7 DEF MayReadLog, f, IsCanReadCallHistory

\* The replay of a registration shows a number only to such a token.
LEMMA RegisterNumber ==
    ASSUME IndInv, NEW c \in Callers, RegisterStateChange(c),
           NEW o \in Observers, NEW k \in RecordSlot, "CALL_STATE" \in Masks, NumberSent(o, k)
    PROVE  MayReadLog(o)
<1> DEFINE new == NewRecord(c, req[c])
           old == Matching(new)
           record == IF old = {} THEN new ELSE stateRecords_[Min(old)]
           sent(bit) == [val |-> ReplayedValue(bit, record.slotId_),
                         num |-> IF ReplaysNumber(bit, record)
                                 THEN Value("callIncomingNumber_", record.slotId_) ELSE NoNumber]
           told_f == [bit \in Masks |->
                         IF bit \in ReplayedBits(record)
                         THEN [told[record.telephonyObserver_][bit] EXCEPT ![record.slotId_] = sent(bit)]
                         ELSE told[record.telephonyObserver_][bit]]
<1>1. told \in [Observers -> [Masks -> [RecordSlot -> Sent \cup {Absent}]]]
        /\ stateRecords_ \in Seq(Record)
  BY DEF IndInv, TypeOK
<1>2. stateRecords_' = IF old = {} THEN Append(stateRecords_, new) ELSE stateRecords_
  BY DEF RegisterStateChange, AddRecord
<1>3. \E i \in DOMAIN stateRecords_' : stateRecords_'[i] = record
  <2>1. CASE old = {}
    <3> HIDE DEF new, old
    <3>1. stateRecords_' = Append(stateRecords_, new)
      BY <1>2, <2>1
    <3>2. Len(stateRecords_) + 1 \in DOMAIN stateRecords_'
             /\ stateRecords_'[Len(stateRecords_) + 1] = new
      BY <1>1, <3>1
    <3> QED BY <2>1, <3>2
  <2>2. CASE old # {}
    <3>1. Min(old) \in 1 .. Len(stateRecords_)
      BY <2>2, OneMatch DEF IndInv
    <3> HIDE DEF new, old
    <3> QED BY <1>1, <1>2, <2>2, <3>1
  <2> QED BY <2>1, <2>2
<1>4. told' # told
  BY DEF NumberSent
<1>5. UpdateData(record)
  BY <1>4 DEF RegisterStateChange
<1>6. told' = [told EXCEPT ![record.telephonyObserver_] = told_f]
  BY <1>5 DEF UpdateData
<1> HIDE DEF record, sent
<1>7. record.telephonyObserver_ = o
  <2> HIDE DEF told_f
  <2> QED BY <1>1, <1>6 DEF NumberSent
<1>8. told'[o]["CALL_STATE"] = told_f["CALL_STATE"]
  <2> HIDE DEF told_f
  <2> QED BY <1>1, <1>6, <1>7
<1>9. "CALL_STATE" \in ReplayedBits(record)
  BY <1>7, <1>8 DEF NumberSent
<1>10. told'[o]["CALL_STATE"] =
           [told[o]["CALL_STATE"] EXCEPT ![record.slotId_] = sent("CALL_STATE")]
  BY <1>7, <1>8, <1>9
<1>11. told'[o]["CALL_STATE"][k] = sent("CALL_STATE")
  <2>1. told[o]["CALL_STATE"] \in [RecordSlot -> Sent \cup {Absent}]
    BY <1>1
  <2> QED BY <1>10, <2>1 DEF NumberSent
<1>12. ReplaysNumber("CALL_STATE", record)
  BY <1>11 DEF NumberSent, sent
<1>13. IsCanReadCallHistory(record)
  BY <1>12 DEF ReplaysNumber
<1> QED BY <1>3, <1>7, <1>13 DEF MayReadLog, IsCanReadCallHistory

\* Erasing a registration makes its observer forget.
LEMMA UnregisterNumber ==
    ASSUME IndInv, NEW c \in Callers, UnregisterStateChange(c),
           NEW o \in Observers, NEW k \in RecordSlot, "CALL_STATE" \in Masks
    PROVE  ~NumberSent(o, k)
<1>1. told \in [Observers -> [Masks -> [RecordSlot -> Sent \cup {Absent}]]]
  BY DEF IndInv, TypeOK
<1>2. CASE told' = told
  BY <1>2 DEF NumberSent
<1>3. ASSUME NEW r, Forget(r) PROVE told'[o]["CALL_STATE"][k] \in {told[o]["CALL_STATE"][k], Absent}
  <2> DEFINE f == r.telephonyObserver_
             forgotten == [bit \in Masks |->
                              [n \in RecordSlot |->
                                  IF bit \in r.mask_ /\ n \in HeardSlots(r, bit)
                                  THEN Absent ELSE told[f][bit][n]]]
  <2>1. told' = [told EXCEPT ![f] = forgotten]
    BY <1>3 DEF Forget
  <2>2. forgotten["CALL_STATE"][k] \in {told[f]["CALL_STATE"][k], Absent}
    OBVIOUS
  <2> HIDE DEF f, forgotten
  <2> QED BY <1>1, <2>1, <2>2
<1>4. told' = told \/ \E r : Forget(r)
  BY UnregisterShape
<1> QED BY <1>2, <1>3, <1>4 DEF NumberSent

\* No step shows a number to an observer without such a token.
LEMMA NumberStep ==
    ASSUME IndInv, Traversal, [Next]_vars,
           NEW o \in Observers, NEW k \in RecordSlot, "CALL_STATE" \in Masks, NumberSent(o, k)
    PROVE  MayReadLog(o)
<1>1. ASSUME told' = told PROVE FALSE
  BY <1>1 DEF NumberSent
<1>2. ASSUME NEW c \in Callers, Call(c) PROVE FALSE
  BY <1>1, <1>2, CallShape DEF Reject, Accept, data
<1>3. ASSUME NEW c \in Callers,
             LockUnique(c) \/ LockShared(c) \/ DumpQuery(c) \/ Reply(c) \/ Drained(c) \/ OnStart(c)
             \/ OnStop(c) \/ WriteCache(c) \/ FinishUpdate(c) \/ GetXxx(c) \/ DumpSlot(c)
             \/ DumpDone(c)
      PROVE  FALSE
  BY <1>1, <1>3 DEF LockUnique, LockShared, DumpQuery, Reply, Drained, OnStart, OnStop,
     WriteCache, FinishUpdate, GetXxx, DumpSlot, DumpDone, data
<1>4. ASSUME NEW b \in BootThreads, Boot(b) PROVE FALSE
  BY <1>1, <1>4 DEF Boot, BootPublish, BootNoEventService, data
<1>5. ASSUME NEW tp \in Revocable, TogglePermission(tp[1], tp[2]) PROVE FALSE
  BY <1>1, <1>5 DEF TogglePermission, data
<1>6. ASSUME NEW c \in Callers, UnregisterStateChange(c) PROVE FALSE
  BY <1>6, UnregisterNumber
<1>7. CASE UNCHANGED vars
  BY <1>1, <1>7 DEF vars
<1> QED
  BY <1>2, <1>3, <1>4, <1>5, <1>6, <1>7, NotifyNumber, RegisterNumber DEF Next, Locked

\* A number goes only to an observer one of whose registrations belongs to a
\* token that may read the call log at that very moment, in an update as well
\* as in the replay on registration, however permissions come and go.
THEOREM NumbersNeedCallLog == Spec => NumberNeedsCallLog
<1>1. IndInv /\ Traversal /\ [Next]_vars
         => [\A o \in Observers, k \in RecordSlot :
                "CALL_STATE" \in Masks =>
                LET s == told'[o]["CALL_STATE"][k]
                IN (s # told[o]["CALL_STATE"][k] /\ s # Absent /\ s.num # NoNumber)
                      => \E i \in DOMAIN stateRecords_' :
                            /\ stateRecords_'[i].telephonyObserver_ = o
                            /\ IsCanReadCallHistory(stateRecords_'[i])]_vars
  BY NumberStep DEF NumberSent, MayReadLog
<1> QED BY <1>1, Invariance, TraversalInvariance, PTL DEF Spec, NumberNeedsCallLog

=============================================================================
