-------------------- MODULE StateRegistryRefinementProofs --------------------
(***************************************************************************)
(* The proof that StateRegistry implements Subscriptions, for any number   *)
(* of callers, observers, slots, tokens and requests: every step of the    *)
(* service is one step of the promise, or none.                            *)
(***************************************************************************)
EXTENDS StateRegistryRefinement, StateRegistryCacheProofs

\* The constructor leaves a service without subscriptions.
LEMMA InitRefines == Init => Promise!Init
  BY DEF Init, Promise!Init, Subscribed, ToSet

\* The state of a topic is what operator[] would read.
LEMMA StateOfTopic ==
    ASSUME NEW bit \in Masks \ StatelessBits, NEW k \in RecordSlot
    PROVE  /\ TopicState[bit][k].val = Value(StateMap(bit), k)
           /\ TopicState[bit][k].num = Value("callIncomingNumber_", k)
  BY DEF TopicState

\* Inserting defaults leaves the state of every topic as it is.
LEMMA InsertedState ==
    ASSUME TypeOK, UNCHANGED cache \/ \E maps, slot : cache' = Inserted(maps, slot)
    PROVE  UNCHANGED TopicState
<1>1. ASSUME NEW bit \in Masks, NEW k \in RecordSlot, bit \notin StatelessBits
      PROVE  /\ Value(StateMap(bit), k)' = Value(StateMap(bit), k)
             /\ Value("callIncomingNumber_", k)' = Value("callIncomingNumber_", k)
  <2>1. StateMap(bit) \in CacheMap /\ "callIncomingNumber_" \in CacheMap
    <3>1. bit \in ObserverMask /\ StateMap(bit) # "none"
      BY <1>1, ConstantsAssumption DEF StatelessBits
    <3> QED BY <3>1, MapTable DEF ObserverMask, CallBits, CacheMap
  <2>2. CASE UNCHANGED cache
    BY <2>2 DEF Value
  <2> QED BY <2>1, <2>2, InsertedValue
<1>2. StatelessBits' = StatelessBits
  BY DEF StatelessBits, StateMap
<1>3. ASSUME NEW bit \in Masks, NEW k \in RecordSlot
      PROVE  (IF bit \in StatelessBits THEN [val |-> Null, num |-> NoNumber]
              ELSE [val |-> Value(StateMap(bit), k), num |-> Value("callIncomingNumber_", k)])'
             = IF bit \in StatelessBits THEN [val |-> Null, num |-> NoNumber]
               ELSE [val |-> Value(StateMap(bit), k), num |-> Value("callIncomingNumber_", k)]
  <2>1. CASE bit \in StatelessBits
    BY <1>2, <2>1 DEF Null, NoNumber
  <2>2. CASE bit \notin StatelessBits
    BY <1>1, <1>2, <2>2
  <2> QED BY <2>1, <2>2
<1> QED BY <1>3 DEF TopicState

\* A step that tells one observer of some topics and changes nothing else that
\* anybody was told.
LEMMA OnlyToldFacts ==
    ASSUME TypeOK, TypeOK', NEW s, NEW o \in Observers, s.observer = o, o # NullObserver,
           NEW bits, NEW slots,
           \A bit \in bits, k \in slots :
               told'[o][bit][k] # Absent /\ Promise!Tells(bit, k, told'[o][bit][k]),
           \A f \in Observers, bit \in Masks, k \in RecordSlot :
               ~(f = o /\ bit \in bits /\ k \in slots) => told'[f][bit][k] = told[f][bit][k]
    PROVE  Promise!OnlyTold(s, bits, slots)
<1> DEFINE new == [bit \in Masks |-> [k \in RecordSlot |->
                      IF bit \in bits /\ k \in slots THEN told'[o][bit][k] ELSE told[o][bit][k]]]
<1>1. /\ told \in [Observers -> [Masks -> [RecordSlot -> Sent \cup {Absent}]]]
      /\ told' \in [Observers -> [Masks -> [RecordSlot -> Sent \cup {Absent}]]]
  BY DEF TypeOK
<1>2. told'[o] = new
  <2>1. ASSUME NEW bit \in Masks PROVE told'[o][bit] = new[bit]
    <3>1. told'[o][bit] \in [RecordSlot -> Sent \cup {Absent}]
      BY <1>1
    <3>2. ASSUME NEW k \in RecordSlot PROVE told'[o][bit][k] = new[bit][k]
      OBVIOUS
    <3>3. new[bit] = [k \in RecordSlot |->
                         IF bit \in bits /\ k \in slots THEN told'[o][bit][k] ELSE told[o][bit][k]]
      OBVIOUS
    <3> QED BY <3>1, <3>2, <3>3
  <2>2. told'[o] = [bit \in Masks |-> told'[o][bit]]
    BY <1>1
  <2>3. new = [bit \in Masks |-> new[bit]]
    OBVIOUS
  <2> QED BY <2>1, <2>2, <2>3
<1>3. ASSUME NEW f \in Observers, f # o PROVE told'[f] = told[f]
  <2>1. ASSUME NEW bit \in Masks PROVE told'[f][bit] = told[f][bit]
    <3>1. told'[f][bit] = [k \in RecordSlot |-> told'[f][bit][k]]
      BY <1>1
    <3>2. told[f][bit] = [k \in RecordSlot |-> told[f][bit][k]]
      BY <1>1
    <3> QED BY <1>3, <3>1, <3>2
  <2> QED BY <1>1, <2>1
<1>4. told' = [told EXCEPT ![o] = new]
  <2> HIDE DEF new
  <2> QED BY <1>1, <1>2, <1>3
<1> QED BY <1>4 DEF Promise!OnlyTold

\* An update tells the state of that moment: the map still holds what it wrote.
LEMMA NotifyTells ==
    ASSUME IndInv, Traversal, WrittenIsStored, NEW c \in Callers, NotifyRecord(c),
           NEW bit \in Called(req[c], stateRecords_[idx[c]]), bit \in Masks
    PROVE  Promise!Tells(bit, req[c].slot, SentBy(req[c], bit, stateRecords_[idx[c]]))
<1> DEFINE q == req[c]
           r == stateRecords_[idx[c]]
           m == StateMap(bit)
           k == q.slot
<1>0. /\ q \in Request /\ q.op \in UpdateOp /\ k \in RecordSlot /\ pc[c] = "notify"
      /\ "callIncomingNumber_" \in CacheMap
  BY NotifyTold DEF CacheMap, NotifyRecord
<1>1. CASE bit \in StatelessBits
  BY <1>1 DEF Promise!Tells
<1>2. CASE bit \notin StatelessBits /\ ~OneProducer(m, k)
  <2>1. <<bit, k>> \in SharedTopics
    BY <1>0, <1>2 DEF SharedTopics
  <2> QED BY <2>1 DEF Promise!Tells
<1>3. CASE bit \notin StatelessBits /\ OneProducer(m, k)
  <2>1. m # "none" /\ bit \in ObserverMask
    BY <1>3, ConstantsAssumption DEF StatelessBits
  <2>2. m \in CacheMap \ {"callIncomingNumber_"} /\ (m = "callState_" <=> bit \in CallBits)
    BY <2>1, MapTable DEF ObserverMask, CallBits, CacheMap
  <2>3. m \in Handlers[q.op].maps /\ Updating(c, m, k) /\ (bit \in CallBits => q.op \in CallOps)
    BY <1>0, <2>1, CalledShape DEF Updating
  <2>4. Value(m, k) = q.val
    <3>1. cache[m][k] = q.val /\ q.val \in Int
      BY <1>0, <1>3, <2>2, <2>3 DEF WrittenIsStored, Written, Request
    <3> QED BY <3>1, ConstantsAssumption DEF Value
  <2>5. ASSUME bit \in CallBits PROVE Value("callIncomingNumber_", k) = q.num
    <3>1. Updating(c, "callIncomingNumber_", k) /\ OneProducer("callIncomingNumber_", k)
      BY <1>3, <2>2, <2>3, <2>5, CallHandlers, NumberProducers DEF Updating
    <3>2. cache["callIncomingNumber_"][k] = q.num /\ q.num \in Int
      BY <1>0, <3>1 DEF WrittenIsStored, Written, Request
    <3> QED BY <3>2, ConstantsAssumption DEF Value
  <2>6. NumberFor(q, bit, r) \in {NoNumber, Value("callIncomingNumber_", k)}
    BY <2>5 DEF NumberFor, CallBits
  <2>7. /\ TopicState[bit][k].val = Value(m, k)
        /\ TopicState[bit][k].num = Value("callIncomingNumber_", k)
    BY <1>0, <1>3, StateOfTopic
  <2> QED BY <2>4, <2>6, <2>7 DEF Promise!Tells, Promise!NoNumber, NoNumber, SentBy
<1> QED BY <1>1, <1>2, <1>3

\* A record of the table is a subscription.
LEMMA RecordIsSubscription ==
    ASSUME NEW i \in DOMAIN stateRecords_
    PROVE  Subscription(stateRecords_[i]) \in Subscribed
  BY DEF Subscribed, ToSet

\* A turn of the loop is one callback of the promise, or nothing.
LEMMA NotifyRefines ==
    ASSUME IndInv, IndInv', Traversal, WrittenIsStored, NEW c \in Callers, NotifyRecord(c)
    PROVE  Promise!Next
<1> DEFINE q == req[c]
           r == stateRecords_[idx[c]]
           s == Subscription(r)
<1>0. /\ idx[c] \in DOMAIN stateRecords_ /\ UNCHANGED stateRecords_
      /\ q.op \in UpdateOp /\ q.slot \in RecordSlot /\ q \in Request
      /\ TypeOK /\ TypeOK' /\ stateRecords_ \in Seq(Record)
  BY NotifyTold DEF IndInv, TypeOK
<1>1. r \in Record /\ s \in Subscribed /\ UNCHANGED Subscribed
  <2>1. r \in Record /\ s \in Subscribed
    BY <1>0, RecordIsSubscription
  <2>2. UNCHANGED Subscribed
    BY <1>0 DEF Subscribed, Subscription
  <2> QED BY <2>1, <2>2
<1>2. CASE told' = told
  BY <1>1, <1>2 DEF Promise!Next, Promise!Publish
<1>3. CASE told' # told
  <2> DEFINE o == r.telephonyObserver_
             k == q.slot
  <2>1. PICK bit \in Called(q, r) : told' = [told EXCEPT ![o][bit][k] = SentBy(q, bit, r)]
    BY <1>3, NotifyTold
  <2>2. /\ o # NullObserver /\ bit \in r.mask_ /\ bit \in Masks /\ o \in Observers
        /\ k \in HeardSlots(r, bit) \/ StateMap(bit) = "none"
    BY <1>0, <1>1, CalledShape DEF Record
  <2>3. ASSUME NEW f \in Observers, NEW b \in Masks, NEW n \in RecordSlot
        PROVE  told'[f][b][n] = IF f = o /\ b = bit /\ n = k THEN SentBy(q, bit, r) ELSE told[f][b][n]
    <3> DEFINE t == SentBy(q, bit, r)
    <3>1. /\ told' = [told EXCEPT ![o][bit][k] = t] /\ k \in RecordSlot /\ o \in Observers
          /\ bit \in Masks
          /\ told \in [Observers -> [Masks -> [RecordSlot -> Sent \cup {Absent}]]]
      BY <1>0, <2>1, <2>2 DEF TypeOK
    <3> HIDE DEF t, o, k
    <3>2. told'[f][b][n] = IF f = o /\ b = bit /\ n = k THEN t ELSE told[f][b][n]
      <4>1. CASE f # o
        BY <3>1, <4>1
      <4>2. CASE f = o /\ b # bit
        BY <3>1, <4>2
      <4>3. CASE f = o /\ b = bit
        BY <3>1, <4>3
      <4> QED BY <4>1, <4>2, <4>3
    <3> QED BY <3>2 DEF t
  <2>4. told'[o][bit][k] = SentBy(q, bit, r)
    BY <1>0, <2>2, <2>3
  <2>5. SentBy(q, bit, r) # Absent
    <3>1. SentBy(q, bit, r) \in Sent
      <4>1. \A n \in RecordSlot : cache["callIncomingNumber_"][n] \in Int \cup {Absent}
        BY <1>0 DEF TypeOK, CacheMap
      <4>2. Value("callIncomingNumber_", k) \in Int
        BY <1>0, <4>1 DEF Value
      <4>3. NumberFor(q, bit, r) \in Int /\ q.val \in Int
        BY <1>0, <4>2 DEF NumberFor, NoNumber, Request
      <4> QED BY <4>3 DEF SentBy, Sent
    <3> QED BY <3>1, ConstantsAssumption
  <2>6. Promise!Tells(bit, k, told'[o][bit][k])
    BY <2>2, <2>4, NotifyTells
  <2>7. Promise!OnlyTold(s, {bit}, {k})
    <3>1. s.observer = o
      BY DEF Subscription
    <3>2. \A b \in {bit}, n \in {k} : told'[o][b][n] # Absent /\ Promise!Tells(b, n, told'[o][b][n])
      BY <2>4, <2>5, <2>6
    <3>3. \A f \in Observers, b \in Masks, n \in RecordSlot :
              ~(f = o /\ b \in {bit} /\ n \in {k}) => told'[f][b][n] = told[f][b][n]
      BY <2>3
    <3> HIDE DEF o, k, s
    <3> QED BY <1>0, <2>2, <3>1, <3>2, <3>3, OnlyToldFacts
  <2>8. bit \in s.mask /\ (Promise!Covers(s, bit, k) \/ bit \in StatelessBits)
    BY <2>2 DEF Subscription, HeardSlots, StatelessBits, DataBits, SIM_SLOT_ID_FOR_DEFAULT_CONN_EVENT,
       Promise!Covers, Promise!DataBits, Promise!SIM_SLOT_ID_FOR_DEFAULT_CONN_EVENT
  <2>9. UNCHANGED TopicState
    <3>1. cache' = cache \/ cache' = Inserted({"callIncomingNumber_"}, k)
      BY DEF NotifyRecord
    <3> QED BY <1>0, <3>1, InsertedState
  <2>10. Promise!Notify(s, bit, k)
    BY <1>1, <2>7, <2>8, <2>9 DEF Promise!Notify
  <2> QED BY <1>0, <1>1, <2>2, <2>10 DEF Promise!Next
<1> QED BY <1>2, <1>3

\* Registrations that the service tells apart are different subscriptions.
LEMMA SubscriptionKey ==
    ASSUME NEW r, NEW s
    PROVE  /\ SameKey(r, s) <=> Promise!SameSubscription(Subscription(r), Subscription(s))
           /\ Subscription(r) = Subscription(s) => SameKey(r, s)
  BY DEF SameKey, Subscription, Promise!SameSubscription

\* A replay tells the state of that moment; an unknown call is shown as idle to an
\* observer of continued calls.
LEMMA ReplayTells ==
    ASSUME TypeOK, NEW r \in Record, NEW bit \in ReplayedBits(r), bit \in Masks,
           NEW k, k = r.slotId_
    PROVE  Promise!Tells(bit, k, Replay(bit, r)) /\ Replay(bit, r) # Absent
<1> DEFINE m == StateMap(bit)
<1>0. k \in RecordSlot /\ "callIncomingNumber_" \in CacheMap
  BY DEF Record, CacheMap
<1>1. bit \in ObserverMask
  BY ConstantsAssumption
<1>2. m = "none" \/ m \in CacheMap
  BY <1>1, MapTable DEF ObserverMask, CallBits, CacheMap
<1>3. bit = "CCALL_STATE" => m = "callState_"
  BY MapTable DEF CallBits
<1>4. ASSUME NEW n \in CacheMap PROVE Value(n, k) \in Int
  <2>1. cache[n][k] \in Int \cup {Absent}
    BY <1>0, <1>4 DEF TypeOK
  <2> QED BY <2>1 DEF Value
<1>5. ReplayedValue(bit, k) \in Int
  BY <1>2, <1>3, <1>4 DEF ReplayedValue, Null, CALL_STATUS_IDLE
<1>6. Replay(bit, r) # Absent
  <2>1. Replay(bit, r) \in Sent
    BY <1>0, <1>4, <1>5 DEF Replay, Sent, NoNumber
  <2> QED BY <2>1, ConstantsAssumption
<1>7. CASE bit \in StatelessBits
  BY <1>6, <1>7 DEF Promise!Tells
<1>8. CASE bit \notin StatelessBits
  <2>1. m # "none"
    BY <1>8 DEF StatelessBits
  <2>2. /\ TopicState[bit][k].val = Value(m, k)
        /\ TopicState[bit][k].num = Value("callIncomingNumber_", k)
    BY <1>0, <1>8, StateOfTopic
  <2>3. \/ ReplayedValue(bit, k) = Value(m, k)
        \/ /\ bit = "CCALL_STATE" /\ Value(m, k) = CALL_STATUS_UNKNOWN
           /\ ReplayedValue(bit, k) = CALL_STATUS_IDLE
    BY <1>3, <2>1 DEF ReplayedValue
  <2>4. /\ Replay(bit, r).val = ReplayedValue(bit, k)
        /\ Replay(bit, r).num \in {NoNumber, Value("callIncomingNumber_", k)}
    BY DEF Replay
  <2>5. Promise!Tells(bit, k, Replay(bit, r))
    BY <2>2, <2>3, <2>4 DEF Promise!Tells, Promise!NoNumber, NoNumber,
       Promise!CALL_STATUS_UNKNOWN, CALL_STATUS_UNKNOWN, Promise!CALL_STATUS_IDLE, CALL_STATUS_IDLE
  <2> QED BY <1>6, <2>5
<1> QED BY <1>7, <1>8

\* UpdateData tells an observer of every bit of its registration, except those
\* its token may not see.
LEMMA ReplayRefines ==
    ASSUME TypeOK, TypeOK', NEW r \in Record, UNCHANGED <<cache, told>> \/ UpdateData(r)
    PROVE  Promise!Replayed(Subscription(r))
<1> DEFINE o == r.telephonyObserver_
           k == r.slotId_
           bits == ReplayedBits(r)
           s == Subscription(r)
<1>0. /\ o \in Observers /\ k \in RecordSlot /\ r.mask_ \subseteq Masks
      /\ s.observer = o /\ s.slot = k /\ s.mask = r.mask_
  BY DEF Record, Subscription
<1>1. CASE UNCHANGED told
  BY <1>1 DEF Promise!Replayed
<1>2. CASE UpdateData(r) /\ o = NullObserver
  <2>1. bits = {}
    BY <1>2 DEF ReplayedBits, IsExistStateListener
  <2>2. told' = [told EXCEPT ![o] = [bit \in Masks |-> told[o][bit]]]
    BY <1>2, <2>1 DEF UpdateData
  <2>3. told \in [Observers -> [Masks -> [RecordSlot -> Sent \cup {Absent}]]]
    BY DEF TypeOK
  <2>4. told[o] = [bit \in Masks |-> told[o][bit]]
    BY <1>0, <2>3
  <2>5. told' = told
    BY <2>2, <2>3, <2>4
  <2> QED BY <2>5 DEF Promise!Replayed
<1>3. CASE UpdateData(r) /\ o # NullObserver
  <2>1. \E barred \in SUBSET {"CCALL_STATE", "VOIP_CALL_STATE"} : bits = s.mask \ barred
    <3>1. r.mask_ \ bits \subseteq {"CCALL_STATE", "VOIP_CALL_STATE"} /\ bits \subseteq r.mask_
      BY <1>3 DEF ReplayedBits, IsExistStateListener
    <3>2. bits = s.mask \ (r.mask_ \ bits)
      BY <1>0, <3>1
    <3> QED BY <3>1, <3>2
  <2>2. bits \subseteq Masks
    BY <1>0 DEF ReplayedBits
  <2>3. \A f \in Observers, b \in Masks, n \in RecordSlot :
            told'[f][b][n] = IF f = o /\ b \in bits /\ n = k THEN Replay(b, r) ELSE told[f][b][n]
    BY <1>3, ReplayTold
  <2>4. ASSUME NEW b \in bits, NEW n \in {k}
        PROVE  told'[o][b][n] # Absent /\ Promise!Tells(b, n, told'[o][b][n])
    <3>1. told'[o][b][k] = Replay(b, r) /\ n = k
      BY <1>0, <2>2, <2>3
    <3>2. Promise!Tells(b, k, Replay(b, r)) /\ Replay(b, r) # Absent
      BY <2>2, ReplayTells
    <3> QED BY <3>1, <3>2
  <2>5. Promise!OnlyTold(s, bits, {k})
    <3>1. \A f \in Observers, b \in Masks, n \in RecordSlot :
              ~(f = o /\ b \in bits /\ n \in {k}) => told'[f][b][n] = told[f][b][n]
      BY <2>3
    <3> HIDE DEF o, k, s, bits
    <3> QED BY <1>0, <1>3, <2>4, <3>1, OnlyToldFacts
  <2> QED BY <1>0, <2>1, <2>5 DEF Promise!Replayed
<1> QED BY <1>1, <1>2, <1>3

\* RegisterStateChange is a subscription, or finds the one the client has.
LEMMA RegisterRefines ==
    ASSUME IndInv, IndInv', NEW c \in Callers, RegisterStateChange(c)
    PROVE  Promise!Next
<1>0. TypeOK /\ TypeOK' /\ stateRecords_ \in Seq(Record)
  BY DEF IndInv, TypeOK
<1>1. PICK record \in Record :
          /\ \/ /\ stateRecords_' = Append(stateRecords_, record)
                /\ \A j \in DOMAIN stateRecords_ : ~SameKey(stateRecords_[j], record)
             \/ /\ stateRecords_' = stateRecords_
                /\ \E i \in DOMAIN stateRecords_ : stateRecords_[i] = record
          /\ UNCHANGED <<cache, told>> \/ UpdateData(record)
  BY RegisterTold
<1>2. Promise!Replayed(Subscription(record))
  BY <1>0, <1>1, ReplayRefines
<1>3. UNCHANGED TopicState
  <2>1. UNCHANGED cache \/ cache' = Inserted(ReplayedMaps(record), record.slotId_)
    BY <1>1 DEF UpdateData
  <2> QED BY <1>0, <2>1, InsertedState
<1>4. CASE stateRecords_' = stateRecords_ /\ \E i \in DOMAIN stateRecords_ : stateRecords_[i] = record
  <2>1. Subscription(record) \in Subscribed
    BY <1>4, RecordIsSubscription
  <2>2. UNCHANGED Subscribed
    BY <1>4 DEF Subscribed, Subscription
  <2> QED BY <1>2, <1>3, <2>1, <2>2 DEF Promise!Subscribe, Promise!Next
<1>5. CASE /\ stateRecords_' = Append(stateRecords_, record)
           /\ \A j \in DOMAIN stateRecords_ : ~SameKey(stateRecords_[j], record)
  <2>1. ToSet(stateRecords_)' = ToSet(stateRecords_) \cup {record}
    <3>1. /\ DOMAIN stateRecords_ = 1 .. Len(stateRecords_) /\ Len(stateRecords_) \in Nat
          /\ DOMAIN stateRecords_' = 1 .. Len(stateRecords_) + 1
          /\ \A j \in 1 .. Len(stateRecords_) : stateRecords_'[j] = stateRecords_[j]
          /\ stateRecords_'[Len(stateRecords_) + 1] = record
      BY <1>0, <1>5
    <3>2. DOMAIN stateRecords_' = DOMAIN stateRecords_ \cup {Len(stateRecords_) + 1}
      BY <3>1
    <3>3. ToSet(stateRecords_)' = {stateRecords_'[j] : j \in DOMAIN stateRecords_'}
      BY DEF ToSet
    <3>4. ToSet(stateRecords_) = {stateRecords_[j] : j \in DOMAIN stateRecords_}
      BY DEF ToSet
    <3>5. \A j \in DOMAIN stateRecords_ : stateRecords_'[j] = stateRecords_[j]
      BY <3>1
    <3> QED BY <3>1, <3>2, <3>3, <3>4, <3>5
  <2>2. Subscribed' = Subscribed \cup {Subscription(record)}
    BY <2>1 DEF Subscribed, Subscription
  <2>3. \A t \in Subscribed : ~Promise!SameSubscription(Subscription(record), t)
    <3>1. SUFFICES ASSUME NEW j \in DOMAIN stateRecords_
                   PROVE  ~Promise!SameSubscription(Subscription(record), Subscription(stateRecords_[j]))
      BY DEF Subscribed, ToSet
    <3> QED BY <1>5 DEF SameKey, Subscription, Promise!SameSubscription
  <2>4. Subscription(record) \notin Subscribed
    BY <2>3 DEF Promise!SameSubscription
  <2>5. Subscription(record) \in Subscribed' \ Subscribed
    BY <2>2, <2>4
  <2>6. Promise!Subscribe
    BY <1>2, <1>3, <2>2, <2>3, <2>5 DEF Promise!Subscribe
  <2> QED BY <2>6 DEF Promise!Next
<1> QED BY <1>1, <1>4, <1>5

\* UnregisterStateChange ends one subscription and leaves the others.
LEMMA UnregisterRefines ==
    ASSUME IndInv, IndInv', NEW c \in Callers, UnregisterStateChange(c)
    PROVE  Promise!Next
<1>0. TypeOK /\ TypeOK' /\ stateRecords_ \in Seq(Record)
  BY DEF IndInv, TypeOK
<1>1. CASE UNCHANGED <<stateRecords_, told>>
  <2>1. UNCHANGED Subscribed
    BY <1>1 DEF Subscribed, Subscription
  <2> QED BY <1>1, <2>1 DEF Promise!Next, Promise!Publish
<1>2. ASSUME NEW i \in 1 .. Len(stateRecords_),
             stateRecords_' = RemoveAt(stateRecords_, i), Forget(stateRecords_[i])
      PROVE  Promise!Next
  <2> DEFINE r == stateRecords_[i]
             s == Subscription(r)
             o == r.telephonyObserver_
  <2>1. i \in DOMAIN stateRecords_ /\ r \in Record /\ s \in Subscribed
    <3>1. i \in DOMAIN stateRecords_
      BY <1>0
    <3> QED BY <1>0, <3>1, RecordIsSubscription
  <2>2. Subscribed' = Subscribed \ {s}
    <3>1. ASSUME NEW n \in DOMAIN stateRecords_'
          PROVE  \E j \in DOMAIN stateRecords_ : j # i /\ stateRecords_'[n] = stateRecords_[j]
      BY <1>0, <1>2, RemoveAtRange
    <3>2. ASSUME NEW j \in DOMAIN stateRecords_, j # i
          PROVE  \E n \in DOMAIN stateRecords_' : stateRecords_'[n] = stateRecords_[j]
      BY <1>0, <1>2, <3>2, RemoveAtKeeps
    <3>3. ASSUME NEW j \in DOMAIN stateRecords_, j # i
          PROVE  Subscription(stateRecords_[j]) # s
      BY <2>1, <3>3, SubscriptionKey DEF IndInv, UniqueRecords
    <3>4. Subscribed = {Subscription(stateRecords_[j]) : j \in DOMAIN stateRecords_}
      BY DEF Subscribed, ToSet
    <3>5. Subscribed' = {Subscription(stateRecords_'[n]) : n \in DOMAIN stateRecords_'}
      BY DEF Subscribed, ToSet, Subscription
    <3> HIDE DEF s
    <3>6. \A t \in Subscribed' : t \in Subscribed /\ t # s
      BY <3>1, <3>3, <3>4, <3>5
    <3>7. \A t \in Subscribed : t # s => t \in Subscribed'
      BY <3>2, <3>4, <3>5 DEF s
    <3> QED BY <3>6, <3>7
  <2>3. told' = [told EXCEPT ![s.observer] =
                    [bit \in Masks |-> [k \in RecordSlot |->
                        IF bit \in s.mask /\ Promise!Covers(s, bit, k)
                        THEN Absent ELSE told[s.observer][bit][k]]]]
    <3>1. s.observer = o /\ s.mask = r.mask_ /\ s.slot = r.slotId_
      BY DEF Subscription
    <3>2. ASSUME NEW bit \in Masks, NEW k \in RecordSlot
          PROVE  k \in HeardSlots(r, bit) <=> Promise!Covers(s, bit, k)
      BY <3>1 DEF HeardSlots, DataBits, SIM_SLOT_ID_FOR_DEFAULT_CONN_EVENT,
         Promise!Covers, Promise!DataBits, Promise!SIM_SLOT_ID_FOR_DEFAULT_CONN_EVENT
    <3>3. told' = [told EXCEPT ![o] =
                      [bit \in Masks |-> [k \in RecordSlot |->
                          IF bit \in r.mask_ /\ k \in HeardSlots(r, bit)
                          THEN Absent ELSE told[o][bit][k]]]]
      BY <1>2 DEF Forget
    <3>4. [bit \in Masks |-> [k \in RecordSlot |->
              IF bit \in r.mask_ /\ k \in HeardSlots(r, bit) THEN Absent ELSE told[o][bit][k]]]
          = [bit \in Masks |-> [k \in RecordSlot |->
                IF bit \in s.mask /\ Promise!Covers(s, bit, k) THEN Absent ELSE told[o][bit][k]]]
      <4>1. ASSUME NEW bit \in Masks
            PROVE  [k \in RecordSlot |->
                       IF bit \in r.mask_ /\ k \in HeardSlots(r, bit)
                       THEN Absent ELSE told[o][bit][k]]
                   = [k \in RecordSlot |->
                         IF bit \in s.mask /\ Promise!Covers(s, bit, k)
                         THEN Absent ELSE told[o][bit][k]]
        BY <3>1, <3>2
      <4> QED BY <4>1
    <3> QED BY <3>1, <3>3, <3>4
  <2>4. UNCHANGED TopicState
    BY <1>0, InsertedState DEF UnregisterStateChange
  <2>5. Promise!Unsubscribe(s)
    BY <2>2, <2>3, <2>4 DEF Promise!Unsubscribe
  <2> QED BY <2>1, <2>5 DEF Promise!Next
<1> QED BY <1>1, <1>2, UnregisterShape

\* Every step of the service is a step of the promise.
LEMMA StepRefines ==
    ASSUME IndInv, IndInv', Traversal, WrittenIsStored, [Next]_vars
    PROVE  [Promise!Next]_(Promise!vars)
<1>1. CASE UNCHANGED <<stateRecords_, told>>
  <2>1. UNCHANGED Subscribed
    BY <1>1 DEF Subscribed, Subscription
  <2> QED BY <1>1, <2>1 DEF Promise!Next, Promise!Publish
<1> QED BY <1>1, NotifyRefines, RegisterRefines, UnregisterRefines, ToldChangers

\* The service keeps the promise of Subscriptions whatever its callers, observers,
\* slots and requests are: though UpdateXxx gives lock_ up between its write and
\* its callbacks, every callback happens as if at one moment, to a registration
\* that exists then, with the state of then.
THEOREM KeepsThePromise == Spec => ImplementsSubscriptions
<1>1. IndInv /\ IndInv' /\ Traversal /\ WrittenIsStored /\ [Next]_vars => [Promise!Next]_(Promise!vars)
  BY StepRefines
<1> QED BY <1>1, InitRefines, Invariance, TraversalInvariance, WrittenIsStoredInvariance, PTL
        DEF Spec, ImplementsSubscriptions, Promise!Spec
==============================================================================
