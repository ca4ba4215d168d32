------------------------- MODULE NapiListenersProofs -------------------------
(***************************************************************************)
(* Proofs about NapiListeners, for any number of envs, functions, on and   *)
(* off calls, slots, changes and faults.                                   *)
(***************************************************************************)
EXTENDS NapiListeners, ListProofs, SequenceTheorems

(* The inductive invariant. *)

ValidSlot(l) == l.slotId \in ListenerSlots(l.eventType)

Keys == [type : ObserverMask, slotId : {n \in Int : n >= ALL_SLOTS}]

AddOps == {"add", "added"}
OffOps == {"off", "offCallback"}
LockedOps == {"add", "added", "off", "teardown"}

Jobs ==
    {NoJob} \cup [op : AddOps, listener : Listener]
        \cup [op : OffOps \cup {"teardown"}, keys : SUBSET Keys, removed : SUBSET Ids]

\* The types of the variables, those of the calls in progress included.
TypeInv ==
    /\ listenerList_ \in Seq(Listener)
    /\ operatorMutex_ \in Envs \cup {None}
    /\ refs \subseteq Ids /\ isDeleting \subseteq Ids
    /\ job \in [Envs -> Jobs]
    /\ calling \in [Envs -> Ids \cup {NoListener}]
    /\ alive \subseteq Envs
    /\ records \subseteq [key : Keys, observer : Ids]
    /\ mail \in [Ids -> Seq(Events)]
    /\ events \in Seq(Events)
    /\ works \in [Envs -> SUBSET [listener : Listener, event : Events]]
    /\ app \in Apps /\ defaultSlot \in app.dataSlots
    /\ ons \in 0 .. app.maxOns /\ updates \in Nat

\* on refused every other slot, so neither the list nor an on call has one.
SlotsValid ==
    /\ \A l \in ToSet(listenerList_) : ValidSlot(l)
    /\ \A e \in Envs : job[e].op \in AddOps => ValidSlot(job[e].listener)

\* operatorMutex_ is held exactly by the thread that waits for the service.
MutexOwner == \A e \in Envs : operatorMutex_ = e <=> job[e].op \in LockedOps

\* A listener is in one place: in the list, in the on call that will put it
\* there, or taken out, and then in at most one off call.
OnePlace ==
    /\ isDeleting \subseteq 1 .. ons
    /\ \A l \in ToSet(listenerList_) : l.id \in 1 .. ons /\ l.id \notin isDeleting
    /\ \A l, m \in ToSet(listenerList_) : l.id = m.id => l = m
    /\ \A e \in Envs : job[e].op \in AddOps =>
          /\ job[e].listener.id \in 1 .. ons /\ job[e].listener.id \notin isDeleting
          /\ \A l \in ToSet(listenerList_) : l.id # job[e].listener.id
    /\ \A e \in Envs : job[e].op \in OffOps => job[e].removed \subseteq isDeleting
    /\ \A e, f \in Envs : job[e].op \in OffOps /\ job[f].op \in OffOps /\ e # f
          => job[e].removed \cap job[f].removed = {}

\* Somebody will delete the reference.
Owned(id) ==
    \/ \E l \in ToSet(listenerList_) : l.id = id
    \/ \E e \in Envs : job[e].op \in AddOps /\ job[e].listener.id = id
    \/ \E e \in Envs : job[e].op \in OffOps /\ id \in job[e].removed

\* No owner's reference is gone; and none is without an owner, unless the
\* device has no SIM card.
RefsOwned ==
    /\ \A id \in Ids : Owned(id) => id \in refs
    /\ SIM_SLOT_COUNT > 0 => \A id \in refs : Owned(id)

\* What is queued to a loop is for a listener that is in the list or whose
\* isDeleting flag is set.
WorksKnown ==
    \A e \in Envs : \A w \in works[e] :
        w.listener.id \in isDeleting \/ \E l \in ToSet(listenerList_) : l.id = w.listener.id

\* The service has been asked for the events of the listener.
Wanted(l) ==
    \/ l \in ToSet(listenerList_)
    \/ \E e \in Envs : job[e].op = "added" /\ job[e].listener = l

Recorded(l) == SlotIsRecorded(l.slotId, AppToken) => \E r \in records : r.key = Key(l)

\* An off, or the end of an env, still has to remove the key.
ToRemove(k) == \E e \in Envs : job[e].op \in {"off", "teardown"} /\ k \in job[e].keys

\* Every listener the service was asked for has its record, and no running off
\* will remove it; every record is wanted, or will be removed, or could not be.
RecordsFollow ==
    /\ ~serviceDied => \A l \in Listener : Wanted(l) => Recorded(l)
    /\ \A l \in Listener : Wanted(l) => ~ToRemove(Key(l))
    /\ \A r \in records :
          r.key \in stray \/ ToRemove(r.key) \/ \E l \in Listener : Wanted(l) /\ Key(l) = r.key

IndInv ==
    TypeInv /\ SlotsValid /\ MutexOwner /\ OnePlace /\ RefsOwned /\ WorksKnown /\ RecordsFollow

-----------------------------------------------------------------------------
(* Facts the steps share. *)

\* An application of the model passes arguments of the declared types.
LEMMA AppTypes ==
    ASSUME app \in Apps
    PROVE  /\ SIM_SLOT_COUNT \in Nat /\ app.maxOns \in 0 .. MaxOns /\ MaxOns \in Nat
           /\ \A c \in app.onCalls :
                 c.type \in ObserverMask /\ c.slotId \in Int /\ c.callback \in Callbacks
           /\ \A u \in app.updates : u.type \in ObserverMask /\ u.slotId \in Int
           /\ None \notin Envs
  BY NapiAssumption DEF SIM_SLOT_COUNT

\* The calls a JavaScript thread may be in.
LEMMA JobTypes ==
    ASSUME TypeInv, NEW e \in Envs
    PROVE  /\ job[e].op \in AddOps \cup OffOps \cup {"teardown", "none"}
           /\ job[e].op \in AddOps => job[e] \in [op : AddOps, listener : Listener]
           /\ job[e].op \in OffOps \cup {"teardown"} =>
                 job[e] \in [op : OffOps \cup {"teardown"}, keys : SUBSET Keys, removed : SUBSET Ids]
           /\ job[e].op = "none" => job[e] = NoJob
<1>1. job[e] \in Jobs
  BY DEF TypeInv
<1>2. CASE job[e] = NoJob
  BY <1>2 DEF NoJob, AddOps, OffOps
<1>3. CASE job[e] \in [op : AddOps, listener : Listener]
  BY <1>3 DEF AddOps, OffOps
<1>4. CASE job[e] \in [op : OffOps \cup {"teardown"}, keys : SUBSET Keys, removed : SUBSET Ids]
  BY <1>4 DEF AddOps, OffOps
<1> QED BY <1>1, <1>2, <1>3, <1>4 DEF Jobs

\* A thread enters or leaves a call; the others stay where they are.
LEMMA JobSet ==
    ASSUME TypeInv, NEW e \in Envs, NEW j, job' = [job EXCEPT ![e] = j]
    PROVE  /\ job'[e] = j
           /\ \A f \in Envs : f # e => job'[f] = job[f]
           /\ j \in Jobs => job' \in [Envs -> Jobs]
  BY DEF TypeInv

\* A thread returns from its call.
LEMMA JobEnds ==
    ASSUME TypeInv, NEW e \in Envs, job' = [job EXCEPT ![e] = NoJob]
    PROVE  job'[e].op = "none" /\ \A f \in Envs : f # e => job'[f] = job[f]
<1>1. job'[e] = NoJob /\ \A f \in Envs : f # e => job'[f] = job[f]
  BY JobSet
<1> QED BY <1>1 DEF NoJob

\* push_back.
LEMMA PushBack ==
    ASSUME NEW E, NEW list \in Seq(E), NEW x \in E
    PROVE  /\ Append(list, x) \in Seq(E)
           /\ ToSet(Append(list, x)) = ToSet(list) \cup {x}
<1>1. Len(list) \in Nat /\ DOMAIN list = 1 .. Len(list)
  OBVIOUS
<1>2. /\ Append(list, x) \in Seq(E)
      /\ DOMAIN Append(list, x) = 1 .. Len(list) + 1
      /\ Append(list, x)[Len(list) + 1] = x
      /\ \A i \in 1 .. Len(list) : Append(list, x)[i] = list[i]
  OBVIOUS
<1>3. 1 .. Len(list) + 1 = (1 .. Len(list)) \cup {Len(list) + 1}
  BY <1>1
<1> QED BY <1>1, <1>2, <1>3 DEF ToSet

\* Taking listeners out leaves the others.
LEMMA TakenOut ==
    ASSUME TypeInv, NEW gone
    PROVE  /\ Rest(gone) \in Seq(Listener)
           /\ ToSet(Rest(gone)) = ToSet(listenerList_) \ gone
  BY KeptElements DEF Rest, TypeInv

\* Those an event is for are in the list.
LEMMA TargetsListed ==
    ASSUME TypeInv, NEW ev
    PROVE  /\ Targets(ev) \in Seq(Listener)
           /\ ToSet(Targets(ev)) \subseteq ToSet(listenerList_)
  BY KeptElements DEF Targets, TypeInv

\* Listeners in the list are listeners.
LEMMA ListedType ==
    ASSUME TypeInv
    PROVE  ToSet(listenerList_) \subseteq Listener
  BY DEF TypeInv, ToSet

\* std::set<int32_t> has a first slot as long as it is not empty.
LEMMA NextKeyExists ==
    ASSUME TypeInv, NEW e \in Envs, Removing(e)
    PROVE  NextKey(e) \in job[e].keys
<1> DEFINE T == {k.slotId + 1 : k \in job[e].keys}
<1>1. job[e].keys \subseteq Keys /\ job[e].keys # {}
  BY JobTypes DEF Removing, OffOps
<1>2. \A k \in job[e].keys : k.slotId \in Int /\ k.slotId + 1 \in Nat
  BY <1>1 DEF Keys, ALL_SLOTS
<1>3. T \subseteq Nat /\ T # {}
  BY <1>1, <1>2
<1>4. PICK n \in T : \A m \in T : n <= m
  <2> HIDE DEF T
  <2> QED BY <1>3, LeastElement
<1>5. PICK k \in job[e].keys : n = k.slotId + 1
  BY <1>4
<1>6. ASSUME NEW j \in job[e].keys PROVE k.slotId <= j.slotId
  <2>1. j.slotId + 1 \in T
    OBVIOUS
  <2>2. k.slotId + 1 <= j.slotId + 1
    <3> HIDE DEF T
    <3> QED BY <1>4, <1>5, <2>1
  <2> QED BY <1>2, <2>2
<1> QED BY <1>5, <1>6 DEF NextKey

-----------------------------------------------------------------------------
(* The initial state. *)

\* A process that has called nothing yet satisfies the invariant.
LEMMA InitHolds ==
    ASSUME Init
    PROVE  IndInv
<1>1. TypeInv
  <2>1. NoJob \in Jobs /\ app.maxOns \in Nat
    BY NapiAssumption DEF Jobs, Init
  <2> QED BY <2>1 DEF Init, TypeInv, NoListener, None
<1>2. ToSet(listenerList_) = {}
  BY DEF Init, ToSet
<1>3. \A e \in Envs : job[e].op = "none" /\ operatorMutex_ # e
  BY NapiAssumption DEF Init, NoJob, None
<1> QED
  BY <1>1, <1>2, <1>3 DEF Init, IndInv, SlotsValid, MutexOwner, OnePlace, RefsOwned, Owned,
     WorksKnown, RecordsFollow, Wanted, ToRemove, AddOps, OffOps, LockedOps

-----------------------------------------------------------------------------
(* Types. *)

\* The slot an on call passes is a number, and the one on accepts is one a
\* listener may have.
LEMMA SlotAccepted ==
    ASSUME TypeInv, NEW c \in app.onCalls
    PROVE  /\ SlotArgument(c) \in Int
           /\ IsValidSlotIdEx(c.type, SlotArgument(c)) => SlotArgument(c) \in ListenerSlots(c.type)
<1>1. /\ c.slotId \in Int /\ SIM_SLOT_COUNT \in Nat
  BY AppTypes DEF TypeInv
<1>2. SlotArgument(c) \in Int
  BY <1>1 DEF SlotArgument, ALL_SLOTS, SIM_SLOT_ID_FOR_DEFAULT_CONN_EVENT, DEFAULT_SIM_SLOT_ID, NoSlot
<1> HIDE DEF SlotArgument
<1> QED BY <1>1, <1>2 DEF IsValidSlotIdEx, ListenerSlots, ALL_SLOTS, DEFAULT_SIM_SLOT_ID

\* The listener an on call makes, with an id no other listener has.
LEMMA NewListenerType ==
    ASSUME TypeInv, NEW e \in Envs, NEW c \in app.onCalls, ons < app.maxOns
    PROVE  /\ NewListener(e, c) \in Listener
           /\ NewListener(e, c).id = ons + 1 /\ ons + 1 \in Ids
           /\ ons + 1 \in 0 .. app.maxOns
           /\ \A n \in 1 .. ons : n # ons + 1 /\ n \in 1 .. ons + 1
           /\ IsValidSlotIdEx(c.type, SlotArgument(c)) => ValidSlot(NewListener(e, c))
<1>1. SlotArgument(c) \in Int
  BY SlotAccepted
<1>2. c.type \in ObserverMask /\ c.callback \in Callbacks
  BY AppTypes DEF TypeInv
<1>3. ons \in Nat /\ app.maxOns \in 0 .. MaxOns /\ MaxOns \in Nat
  BY AppTypes DEF TypeInv
<1>4. ons + 1 \in Ids /\ ons + 1 \in 0 .. app.maxOns
  BY <1>3 DEF Ids
<1>5. \A n \in 1 .. ons : n # ons + 1 /\ n \in 1 .. ons + 1
  BY <1>3
<1>6. IsValidSlotIdEx(c.type, SlotArgument(c)) => ValidSlot(NewListener(e, c))
  BY SlotAccepted DEF ValidSlot, NewListener
<1> QED BY <1>1, <1>2, <1>4, <1>5, <1>6 DEF NewListener, Listener

\* A valid slot makes the key of a listener one of Keys.
LEMMA KeyType ==
    ASSUME TypeInv, NEW l \in Listener, ValidSlot(l)
    PROVE  Key(l) \in Keys
<1>1. SIM_SLOT_COUNT \in Nat
  BY AppTypes DEF TypeInv
<1>2. l.slotId \in Int /\ l.slotId >= ALL_SLOTS /\ l.eventType \in ObserverMask
  BY <1>1 DEF ValidSlot, ListenerSlots, Listener, ALL_SLOTS, SIM_SLOT_ID_FOR_DEFAULT_CONN_EVENT
<1> QED BY <1>2 DEF Key, Keys

\* The keys an off frees are keys of listeners that were in the list.
LEMMA FreedType ==
    ASSUME TypeInv, SlotsValid, NEW gone, gone \subseteq ToSet(listenerList_), NEW rest, NEW e
    PROVE  FreedKeys(rest, gone, e) \subseteq Keys
<1>1. \A l \in gone : l \in Listener /\ ValidSlot(l)
  BY ListedType DEF SlotsValid
<1>2. \A l \in gone : Key(l) \in Keys
  BY <1>1, KeyType
<1> QED BY <1>2 DEF FreedKeys

\* What a step leaves alone keeps its type.
LEMMA TypeUnchanged ==
    ASSUME TypeInv, UNCHANGED vars
    PROVE  TypeInv'
  BY DEF TypeInv, vars, counters

\* observer.on, until it calls the service.
LEMMA OnTypes ==
    ASSUME TypeInv, NEW e \in Envs, NEW c \in app.onCalls,
           OnWithoutSim(e, c) \/ OnRejected(e, c) \/ OnAppend(e, c) \/ OnCallsService(e, c)
    PROVE  TypeInv'
<1>0. ons < app.maxOns /\ ons' = ons + 1 /\ ons \in Nat
  BY DEF OnWithoutSim, OnRejected, OnAppend, OnCallsService, OnAccepted, MakeRef, TypeInv
<1>1. NewListener(e, c) \in Listener /\ ons + 1 \in 0 .. app.maxOns /\ ons + 1 \in Ids
  BY <1>0, NewListenerType
<1>3. refs' \subseteq Ids /\ isDeleting' \subseteq Ids
  BY <1>1 DEF OnWithoutSim, OnRejected, OnAppend, OnCallsService, OnAccepted, TypeInv,
     RefsAfterFailedOn
<1>4. UNCHANGED <<calling, alive, records, mail, events, works, device, updates>>
  BY DEF OnWithoutSim, OnRejected, OnAppend, OnCallsService, OnAccepted
<1>5. listenerList_' \in Seq(Listener)
  <2>1. Append(listenerList_, NewListener(e, c)) \in Seq(Listener)
    BY <1>1, PushBack DEF TypeInv
  <2> QED BY <2>1 DEF OnWithoutSim, OnRejected, OnAppend, OnCallsService, TypeInv
<1>6. operatorMutex_' \in Envs \cup {None}
  BY DEF OnWithoutSim, OnRejected, OnAppend, OnCallsService, HeldDuringAdd, Lock, TypeInv
<1>7. job' \in [Envs -> Jobs]
  <2>1. CASE UNCHANGED job
    BY <2>1 DEF TypeInv
  <2>2. CASE job' = [job EXCEPT ![e] = [op |-> "add", listener |-> NewListener(e, c)]]
    <3>1. [op |-> "add", listener |-> NewListener(e, c)] \in Jobs
      BY <1>1 DEF Jobs, AddOps
    <3> QED BY <3>1, <2>2, JobSet
  <2> QED BY <2>1, <2>2 DEF OnWithoutSim, OnRejected, OnAppend, OnCallsService
<1> QED
  BY <1>0, <1>1, <1>3, <1>4, <1>5, <1>6, <1>7 DEF TypeInv, device

\* The service adds the observer: the replay is an event for the observer of
\* the record.
LEMMA AddTypes ==
    ASSUME TypeInv, SlotsValid, NEW e \in Envs, ServiceAdds(e)
    PROVE  TypeInv'
<1> DEFINE l == job[e].listener
           old == {r \in records : r.key = Key(l)}
           record == IF old = {} THEN [key |-> Key(l), observer |-> l.id] ELSE CHOOSE r \in old : TRUE
           replay == [type |-> l.eventType, slotId |-> l.slotId, update |-> -l.id,
                      observer |-> record.observer]
<1>0. job[e].op = "add" /\ job' = [job EXCEPT ![e].op = "added"]
  BY DEF ServiceAdds
<1>1. job[e] \in [op : AddOps, listener : Listener] /\ l \in Listener /\ ValidSlot(l)
  BY <1>0, JobTypes DEF SlotsValid, AddOps
<1>2. record \in [key : Keys, observer : Ids]
  <2>1. CASE old = {}
    BY <2>1, <1>1, KeyType DEF Listener
  <2>2. CASE old # {}
    BY <2>2 DEF TypeInv
  <2> QED BY <2>1, <2>2
<1>3. replay \in Events
  <2>1. l.eventType \in ObserverMask /\ l.slotId \in Int /\ l.id \in Int
    BY <1>1 DEF Listener, Ids
  <2>2. record.observer \in Ids /\ -l.id \in Int
    BY <1>2, <2>1
  <2> HIDE DEF l, record
  <2> QED BY <2>1, <2>2 DEF Events
<1>4. \/ records' = records \cup {record} /\ mail' = [mail EXCEPT ![record.observer] = Append(@, replay)]
      \/ records' = records \cup {record} /\ mail' = mail
      \/ UNCHANGED <<records, mail>>
  BY DEF ServiceAdds
<1>5. records' \subseteq [key : Keys, observer : Ids] /\ mail' \in [Ids -> Seq(Events)]
  <2> HIDE DEF record, replay
  <2>1. Append(mail[record.observer], replay) \in Seq(Events)
    BY <1>2, <1>3 DEF TypeInv
  <2> QED BY <1>2, <1>4, <2>1 DEF TypeInv
<1>6. job' \in [Envs -> Jobs]
  <2>1. [job[e] EXCEPT !.op = "added"] \in [op : AddOps, listener : Listener]
    BY <1>1 DEF AddOps
  <2> QED BY <1>0, <2>1 DEF TypeInv, Jobs
<1> QED BY <1>5, <1>6 DEF ServiceAdds, TypeInv, device, counters

\* The other ends of an on call, and every step of an off call.
LEMMA JobStepTypes ==
    ASSUME TypeInv, NEW e \in Envs,
           \/ OnReturns(e) \/ OnFails(e) \/ ServiceRemoves(e) \/ RemoveFails(e)
           \/ OffUnlocks(e) \/ OffCallback(e) \/ TeardownEnds(e)
    PROVE  TypeInv'
<1>0. NoJob \in Jobs
  BY DEF Jobs
<1>1. CASE OnReturns(e)
  <2>1. job[e].listener \in Listener
    BY <1>1, JobTypes DEF OnReturns, AddOps
  <2>2. listenerList_' \in Seq(Listener)
    BY <1>1, <2>1, PushBack DEF OnReturns, TypeInv
  <2>3. job' \in [Envs -> Jobs]
    BY <1>0, <1>1, JobSet DEF OnReturns
  <2> QED BY <1>1, <2>2, <2>3 DEF OnReturns, Unlock, TypeInv, device, counters
<1>2. CASE OnFails(e)
  <2>1. job' \in [Envs -> Jobs]
    BY <1>0, <1>2, JobSet DEF OnFails
  <2> QED BY <1>2, <2>1 DEF OnFails, RefsAfterFailedOn, Unlock, TypeInv, device
<1>3. CASE ServiceRemoves(e) \/ RemoveFails(e)
  <2>1. Removing(e) /\ KeyDone(e)
    BY <1>3 DEF ServiceRemoves, RemoveFails
  <2>2. job[e] \in [op : OffOps \cup {"teardown"}, keys : SUBSET Keys, removed : SUBSET Ids]
    BY <2>1, JobTypes DEF Removing, OffOps
  <2>3. [job[e] EXCEPT !.keys = @ \ {NextKey(e)}]
            \in [op : OffOps \cup {"teardown"}, keys : SUBSET Keys, removed : SUBSET Ids]
    BY <2>2
  <2>4. job' \in [Envs -> Jobs]
    BY <2>1, <2>3 DEF KeyDone, TypeInv, Jobs
  <2>5. CASE ServiceRemoves(e)
    BY <2>4, <2>5 DEF ServiceRemoves, TypeInv, device, counters
  <2>6. CASE RemoveFails(e)
    BY <2>4, <2>6 DEF RemoveFails, TypeInv, device
  <2> QED BY <1>3, <2>5, <2>6
<1>4. CASE OffUnlocks(e)
  <2>1. job[e] \in [op : OffOps \cup {"teardown"}, keys : SUBSET Keys, removed : SUBSET Ids]
    BY <1>4, JobTypes DEF OffUnlocks, OffOps
  <2>2. [job[e] EXCEPT !.op = "offCallback"]
            \in [op : OffOps \cup {"teardown"}, keys : SUBSET Keys, removed : SUBSET Ids]
    BY <2>1 DEF OffOps
  <2>3. job' \in [Envs -> Jobs]
    BY <1>4, <2>2 DEF OffUnlocks, TypeInv, Jobs
  <2> QED BY <1>4, <2>3 DEF OffUnlocks, Unlock, TypeInv, device, counters
<1>5. CASE OffCallback(e)
  <2>1. job' \in [Envs -> Jobs]
    BY <1>0, <1>5, JobSet DEF OffCallback
  <2> QED BY <1>5, <2>1 DEF OffCallback, TypeInv, device, counters
<1>6. CASE TeardownEnds(e)
  <2>1. job' \in [Envs -> Jobs]
    BY <1>0, <1>6, JobSet DEF TeardownEnds
  <2> QED BY <1>6, <2>1 DEF TeardownEnds, Unlock, TypeInv, device, counters
<1> QED BY <1>1, <1>2, <1>3, <1>4, <1>5, <1>6

\* off and the end of an env take listeners of the list out.
LEMMA RemoveTypes ==
    ASSUME TypeInv, SlotsValid, NEW e \in Envs,
           \/ \E c \in app.offCalls : Off(e, c) \/ OffNothing(e, c)
           \/ UnRegisterAllListener(e) \/ TeardownNothing(e)
    PROVE  TypeInv'
<1>1. ASSUME NEW gone, gone \subseteq ToSet(listenerList_), NEW op \in {"off", "teardown"},
             RemoveListeners(e, gone, op), UNCHANGED ons
      PROVE  /\ listenerList_' \in Seq(Listener)
             /\ operatorMutex_' \in Envs \cup {None}
             /\ isDeleting' \subseteq Ids
             /\ job' \in [Envs -> Jobs]
  <2>1. {l.id : l \in gone} \subseteq Ids
    BY <1>1, ListedType DEF Listener
  <2> DEFINE j == [op |-> op, keys |-> FreedKeys(Rest(gone), gone, e), removed |-> {l.id : l \in gone}]
  <2>2. j \in Jobs
    <3>1. FreedKeys(Rest(gone), gone, e) \subseteq Keys
      BY <1>1, FreedType
    <3> HIDE DEF FreedKeys, Rest
    <3> QED BY <2>1, <3>1 DEF Jobs, OffOps
  <2>3. job' = [job EXCEPT ![e] = j]
    BY <1>1 DEF RemoveListeners
  <2>4. job' \in [Envs -> Jobs]
    <3> HIDE DEF j
    <3> QED BY <2>2, <2>3, JobSet
  <2> QED BY <1>1, <2>1, <2>4, TakenOut DEF RemoveListeners, Lock, TypeInv
<1>2. ASSUME NEW c \in app.offCalls, Off(e, c)
      PROVE  TypeInv'
  <2>1. RemoveListeners(e, Removed(e, c), "off") /\ Removed(e, c) \subseteq ToSet(listenerList_)
    BY <1>2 DEF Off, Removed
  <2> QED BY <1>1, <1>2, <2>1 DEF Off, TypeInv, device
<1>3. CASE UnRegisterAllListener(e)
  <2> DEFINE gone == {l \in ToSet(listenerList_) : l.env = e}
  <2>1. RemoveListeners(e, gone, "teardown") /\ gone \subseteq ToSet(listenerList_)
    BY <1>3 DEF UnRegisterAllListener
  <2>2. UNCHANGED ons /\ refs' \subseteq refs
    BY <1>3 DEF UnRegisterAllListener, counters
  <2> HIDE DEF gone
  <2>3. /\ listenerList_' \in Seq(Listener)
        /\ operatorMutex_' \in Envs \cup {None}
        /\ isDeleting' \subseteq Ids
        /\ job' \in [Envs -> Jobs]
    BY <1>1, <2>1, <2>2
  <2> QED BY <1>3, <2>2, <2>3 DEF UnRegisterAllListener, TypeInv, device, counters
<1>4. CASE TeardownNothing(e)
  BY <1>4 DEF TeardownNothing, TypeInv, device, counters
<1>5. ASSUME NEW c \in app.offCalls, OffNothing(e, c)
      PROVE  TypeInv'
  BY <1>5 DEF OffNothing, TypeInv, device
<1> QED BY <1>2, <1>3, <1>4, <1>5

\* What the handler puts into the loops is for listeners of the list.
LEMMA QueuedTypes ==
    ASSUME TypeInv, NEW ls, ls \subseteq ToSet(listenerList_), NEW ev \in Events,
           works' = Queued(ls, ev)
    PROVE  works' \in [Envs -> SUBSET [listener : Listener, event : Events]]
<1>1. ls \subseteq Listener
  BY ListedType
<1>2. ASSUME NEW e \in Envs
      PROVE  works'[e] \subseteq [listener : Listener, event : Events]
  BY <1>1 DEF Queued, TypeInv
<1>3. works' = [e \in Envs |-> works'[e]]
  BY DEF Queued
<1> QED BY <1>2, <1>3

\* From the service to JavaScript, and the world.
LEMMA DeliveryTypes ==
    ASSUME TypeInv,
           \/ \E e \in Envs : UvStep(e) \/ FunctionReturns(e)
           \/ \E u \in app.updates : ServiceUpdate(u)
           \/ \E o \in Ids : ObserverSendsEvent(o)
           \/ ProcessEvent \/ ProcessEventFails
           \/ ServiceDies \/ DefaultSlotChanges
    PROVE  TypeInv'
<1>1. ASSUME NEW e \in Envs, NEW w \in works[e], WorkUpdated(e, w)
      PROVE  TypeInv'
  <2>1. w.listener.id \in Ids
    BY DEF TypeInv, Listener
  <2>2. calling' \in [Envs -> Ids \cup {NoListener}]
    BY <1>1, <2>1 DEF WorkUpdated, TypeInv
  <2>3. works' \in [Envs -> SUBSET [listener : Listener, event : Events]]
    BY <1>1 DEF WorkUpdated, TypeInv
  <2> QED BY <1>1, <2>2, <2>3 DEF WorkUpdated, UnlockBeforeCall, TypeInv, device, counters
<1>2. ASSUME NEW e \in Envs, NEW w \in works[e], WorkDropped(e, w)
      PROVE  TypeInv'
  <2>1. works' \in [Envs -> SUBSET [listener : Listener, event : Events]]
    BY <1>2 DEF WorkDropped, TypeInv
  <2> QED BY <1>2, <2>1 DEF WorkDropped, TypeInv, device, counters
<1>3. ASSUME NEW e \in Envs, FunctionReturns(e)
      PROVE  TypeInv'
  BY <1>3 DEF FunctionReturns, TypeInv, device, counters
<1>4. ASSUME NEW u \in app.updates, ServiceUpdate(u)
      PROVE  TypeInv'
  <2>1. u.type \in ObserverMask /\ u.slotId \in Int /\ updates + 1 \in Int /\ updates + 1 \in Nat
    BY AppTypes DEF TypeInv
  <2>2. ASSUME NEW o \in Ids
        PROVE  Append(mail[o], [type |-> u.type, slotId |-> u.slotId,
                                update |-> updates + 1, observer |-> o]) \in Seq(Events)
    <3>1. [type |-> u.type, slotId |-> u.slotId, update |-> updates + 1, observer |-> o] \in Events
      BY <2>1 DEF Events
    <3>2. mail[o] \in Seq(Events)
      BY DEF TypeInv
    <3> QED BY <3>1, <3>2, AppendProperties
  <2>3. mail' \in [Ids -> Seq(Events)]
    BY <1>4, <2>2 DEF ServiceUpdate, TypeInv
  <2> QED BY <1>4, <2>1, <2>3 DEF ServiceUpdate, TypeInv, device
<1>5. ASSUME NEW o \in Ids, ObserverSendsEvent(o)
      PROVE  TypeInv'
  <2>1. mail[o] \in Seq(Events) /\ mail[o] # <<>>
    BY <1>5 DEF ObserverSendsEvent, TypeInv
  <2>2. Head(mail[o]) \in Events /\ Tail(mail[o]) \in Seq(Events)
    BY <2>1
  <2>3. [Head(mail[o]) EXCEPT !.slotId = InfoSlot(Head(mail[o]))] \in Events
    <3> DEFINE m == Head(mail[o])
    <3>1. m \in Events
      BY <2>2
    <3> HIDE DEF m
    <3>2. InfoSlot(m) \in Int
      BY <3>1 DEF Events, InfoSlot, ALL_SLOTS
    <3>3. [m EXCEPT !.slotId = InfoSlot(m)] \in Events
      <4> HIDE DEF InfoSlot
      <4> QED BY <3>1, <3>2 DEF Events
    <3> QED BY <3>3 DEF m
  <2>4. mail' \in [Ids -> Seq(Events)] /\ events' \in Seq(Events)
    BY <1>5, <2>2, <2>3 DEF ObserverSendsEvent, TypeInv
  <2> QED BY <1>5, <2>4 DEF ObserverSendsEvent, TypeInv, device, counters
<1>6. CASE ProcessEvent \/ ProcessEventFails
  <2>1. events \in Seq(Events) /\ events # <<>> /\ events' = Tail(events)
    BY <1>6 DEF ProcessEvent, ProcessEventFails, TypeInv
  <2>2. Head(events) \in Events /\ events' \in Seq(Events)
    BY <2>1
  <2>3. PICK ls : ls \subseteq ToSet(Targets(Head(events))) /\ works' = Queued(ls, Head(events))
    <3>1. CASE ProcessEvent
      BY <3>1 DEF ProcessEvent
    <3>2. CASE ProcessEventFails
      <4> DEFINE ts == Targets(Head(events))
      <4>1. PICK n \in 1 .. Len(ts) : works' = Queued({ts[i] : i \in 1 .. n - 1}, Head(events))
        BY <3>2 DEF ProcessEventFails
      <4>2. ts \in Seq(Listener)
        BY TargetsListed
      <4> HIDE DEF ts
      <4>3. {ts[i] : i \in 1 .. n - 1} \subseteq ToSet(ts)
        BY <4>2 DEF ToSet
      <4> QED BY <4>1, <4>3 DEF ts
    <3> QED BY <1>6, <3>1, <3>2
  <2>4. works' \in [Envs -> SUBSET [listener : Listener, event : Events]]
    BY <2>2, <2>3, TargetsListed, QueuedTypes
  <2> QED BY <1>6, <2>2, <2>4 DEF ProcessEvent, ProcessEventFails, TypeInv, device, counters
<1>7. CASE ServiceDies \/ DefaultSlotChanges
  BY <1>7 DEF ServiceDies, DefaultSlotChanges, TypeInv, device, counters
<1> QED BY <1>1, <1>2, <1>3, <1>4, <1>5, <1>6, <1>7 DEF UvStep

\* Every step keeps the types.
LEMMA StepTypes ==
    ASSUME TypeInv, SlotsValid, Next
    PROVE  TypeInv'
  BY OnTypes, AddTypes, JobStepTypes, RemoveTypes, DeliveryTypes DEF Next, JobStep

-----------------------------------------------------------------------------
(* What a step does not touch. *)

\* Neither the list nor a call changed.
LEMMA SlotsSame ==
    ASSUME SlotsValid, UNCHANGED <<listenerList_, job, app>>
    PROVE  SlotsValid'
  BY DEF SlotsValid, ValidSlot, ListenerSlots, SIM_SLOT_COUNT

\* Neither the mutex nor a call changed.
LEMMA MutexSame ==
    ASSUME MutexOwner, UNCHANGED <<operatorMutex_, job>>
    PROVE  MutexOwner'
  BY DEF MutexOwner

\* No listener moved; on may have been called.
LEMMA PlaceSame ==
    ASSUME TypeInv, OnePlace, UNCHANGED <<listenerList_, isDeleting, job>>,
           ons' = ons \/ ons' = ons + 1
    PROVE  OnePlace'
<1>1. 1 .. ons \subseteq 1 .. ons'
  BY DEF TypeInv
<1> QED BY <1>1 DEF OnePlace

\* No reference, and no owner, changed.
LEMMA RefsSame ==
    ASSUME RefsOwned, UNCHANGED <<listenerList_, refs, job, app>>
    PROVE  RefsOwned'
  BY DEF RefsOwned, Owned, SIM_SLOT_COUNT

\* No work was queued, and the list has the listeners it had, or more.
LEMMA WorksSame ==
    ASSUME WorksKnown, UNCHANGED isDeleting, ToSet(listenerList_) \subseteq ToSet(listenerList_'),
           \A e \in Envs : works'[e] \subseteq works[e]
    PROVE  WorksKnown'
  BY DEF WorksKnown

\* Neither listeners nor records changed.
LEMMA RecordsSame ==
    ASSUME RecordsFollow, UNCHANGED <<listenerList_, job, records, serviceDied, stray>>
    PROVE  RecordsFollow'
  BY DEF RecordsFollow, Wanted, Recorded, ToRemove

-----------------------------------------------------------------------------
(* observer.on *)

\* A call that makes no listener: on a device without SIM cards its reference is
\* kept without an owner, and otherwise it is deleted.
LEMMA OnWithoutListener ==
    ASSUME IndInv, NEW e \in Envs, NEW c \in app.onCalls, OnWithoutSim(e, c) \/ OnRejected(e, c)
    PROVE  IndInv'
<1>0. TypeInv'
  BY OnTypes DEF IndInv
<1>1. UNCHANGED <<listenerList_, operatorMutex_, isDeleting, job, records, works, app,
                  serviceDied, stray>> /\ ons' = ons + 1 /\ ons < app.maxOns
  BY DEF OnWithoutSim, OnRejected, MakeRef, device, history
<1>2. OnePlace'
  BY <1>1, PlaceSame DEF IndInv
<1>3. RefsOwned'
  <2>1. CASE OnWithoutSim(e, c)
    <3>1. ~(SIM_SLOT_COUNT > 0) /\ refs \subseteq refs'
      BY <2>1 DEF OnWithoutSim, NoSimCard
    <3> QED BY <1>1, <3>1 DEF IndInv, RefsOwned, Owned, SIM_SLOT_COUNT
  <2>2. CASE OnRejected(e, c)
    <3>1. refs' = refs \ {ons + 1}
      BY <2>2 DEF OnRejected, RefsAfterFailedOn
    <3>2. ASSUME NEW id, Owned(id) PROVE id # ons + 1
      <4>1. \A n \in 1 .. ons : n # ons + 1
        BY DEF IndInv, TypeInv
      <4> QED BY <3>2, <4>1 DEF Owned, IndInv, OnePlace
    <3> QED BY <1>1, <3>1, <3>2 DEF IndInv, RefsOwned, Owned, SIM_SLOT_COUNT
  <2> QED BY <2>1, <2>2
<1> QED
  BY <1>0, <1>1, <1>2, <1>3, SlotsSame, MutexSame, WorksSame, RecordsSame DEF IndInv

\* A second listener of a key goes into the list, next to one that has the
\* record they share.
LEMMA OnAppendKeeps ==
    ASSUME IndInv, NEW e \in Envs, NEW c \in app.onCalls, OnAppend(e, c)
    PROVE  IndInv'
<1> DEFINE l == NewListener(e, c)
<1>0. TypeInv' /\ TypeInv
  BY OnTypes DEF IndInv
<1>1. /\ UNCHANGED <<operatorMutex_, isDeleting, job, records, works, app, serviceDied, stray>>
      /\ ons' = ons + 1 /\ ons < app.maxOns /\ refs' = refs \cup {ons + 1}
      /\ listenerList_' = Append(listenerList_, l)
  BY DEF OnAppend, OnAccepted, MakeRef, device, history
<1>2. /\ l \in Listener /\ l.id = ons + 1 /\ ons + 1 \in Ids /\ ValidSlot(l)
      /\ \A n \in 1 .. ons : n # ons + 1 /\ n \in 1 .. ons + 1
  BY <1>0, <1>1, NewListenerType DEF OnAppend, OnAccepted
<1>3. \E m \in ToSet(listenerList_) : Key(m) = Key(l)
  BY DEF OnAppend, CheckEventListenerRegister, CheckEventTypeExist
<1>4. ons + 1 \in 1 .. ons'
  BY <1>0, <1>1 DEF TypeInv
<1> HIDE DEF l
<1>5. ToSet(listenerList_') = ToSet(listenerList_) \cup {l}
  BY <1>0, <1>1, <1>2, PushBack DEF TypeInv
<1>6. SlotsValid'
  BY <1>1, <1>2, <1>5 DEF IndInv, SlotsValid, ValidSlot, ListenerSlots, SIM_SLOT_COUNT
<1>7. OnePlace'
  <2>1. ons + 1 \notin isDeleting
    BY <1>2 DEF IndInv, OnePlace
  <2> QED BY <1>1, <1>2, <1>4, <1>5, <2>1 DEF IndInv, OnePlace
<1>8. RefsOwned'
  BY <1>1, <1>2, <1>5 DEF IndInv, RefsOwned, Owned, SIM_SLOT_COUNT
<1>9. RecordsFollow'
  <2>1. \A m \in Listener : Wanted(m)' => Wanted(m) \/ m = l
    BY <1>1, <1>5 DEF Wanted
  <2>2. \A m \in Listener : Wanted(m) => Wanted(m)'
    BY <1>1, <1>5 DEF Wanted
  <2>3. PICK m \in Listener : Wanted(m) /\ Key(m) = Key(l) /\ m.slotId = l.slotId
    BY <1>0, <1>3, ListedType DEF Wanted, Key
  <2>4. \A k : ToRemove(k)' <=> ToRemove(k)
    BY <1>1 DEF ToRemove
  <2>5. \A x : Recorded(x)' <=> Recorded(x)
    BY <1>1 DEF Recorded
  <2>6. Recorded(m) => Recorded(l)
    BY <2>3 DEF Recorded
  <2> QED BY <1>1, <2>1, <2>2, <2>3, <2>4, <2>5, <2>6 DEF IndInv, RecordsFollow
<1> QED
  BY <1>0, <1>1, <1>5, <1>6, <1>7, <1>8, <1>9, MutexSame, WorksSame DEF IndInv

\* The first listener of a key is in its on call while the service is asked.
LEMMA OnCallsServiceKeeps ==
    ASSUME IndInv, NEW e \in Envs, NEW c \in app.onCalls, OnCallsService(e, c)
    PROVE  IndInv'
<1> DEFINE l == NewListener(e, c)
           j == [op |-> "add", listener |-> l]
<1>0. TypeInv' /\ TypeInv
  BY OnTypes DEF IndInv
<1>1. /\ UNCHANGED <<listenerList_, isDeleting, records, works, app, serviceDied, stray>>
      /\ ons' = ons + 1 /\ ons < app.maxOns /\ refs' = refs \cup {ons + 1}
      /\ job' = [job EXCEPT ![e] = j] /\ job[e] = NoJob
      /\ operatorMutex_ = None /\ operatorMutex_' = e
  BY DEF OnCallsService, OnAccepted, MakeRef, Idle, HeldDuringAdd, Lock, device, history
<1>2. /\ l \in Listener /\ l.id = ons + 1 /\ ons + 1 \in Ids /\ ValidSlot(l)
      /\ \A n \in 1 .. ons : n # ons + 1 /\ n \in 1 .. ons + 1
  BY <1>0, <1>1, NewListenerType DEF OnCallsService, OnAccepted
<1>3. ons + 1 \in 1 .. ons'
  BY <1>0, <1>1 DEF TypeInv
<1>4. /\ job'[e] = j /\ \A f \in Envs : f # e => job'[f] = job[f]
  <2> HIDE DEF j
  <2> QED BY <1>0, <1>1, JobSet
<1>5. job[e].op = "none" /\ job'[e].op = "add" /\ job'[e].listener = l
  BY <1>1, <1>4 DEF NoJob
<1> HIDE DEF l, j
<1>6. SlotsValid'
  BY <1>1, <1>2, <1>4, <1>5 DEF IndInv, SlotsValid, ValidSlot, ListenerSlots, SIM_SLOT_COUNT
<1>7. MutexOwner'
  <2>1. None \notin Envs
    BY NapiAssumption
  <2> QED BY <1>1, <1>4, <1>5, <2>1 DEF IndInv, MutexOwner, LockedOps
<1>8. OnePlace'
  <2>1. ons + 1 \notin isDeleting
    BY <1>2 DEF IndInv, OnePlace
  <2> QED BY <1>1, <1>2, <1>3, <1>4, <1>5, <2>1 DEF IndInv, OnePlace, AddOps, OffOps
<1>9. RefsOwned'
  <2>1. \A id : Owned(id)' <=> Owned(id) \/ id = ons + 1
    BY <1>1, <1>2, <1>4, <1>5 DEF Owned, AddOps, OffOps
  <2> QED BY <1>1, <2>1 DEF IndInv, RefsOwned, SIM_SLOT_COUNT
<1>10. RecordsFollow'
  <2>1. \A m : Wanted(m)' <=> Wanted(m)
    BY <1>1, <1>4, <1>5 DEF Wanted
  <2>2. \A k : ToRemove(k)' <=> ToRemove(k)
    BY <1>4, <1>5 DEF ToRemove
  <2>3. \A m : Recorded(m)' <=> Recorded(m)
    BY <1>1 DEF Recorded
  <2> QED BY <1>1, <2>1, <2>2, <2>3 DEF IndInv, RecordsFollow
<1> QED
  BY <1>0, <1>1, <1>6, <1>7, <1>8, <1>9, <1>10, WorksSame DEF IndInv

\* Only one thread holds the mutex: while it does, no other call has anything
\* to do with the service.
LEMMA OneAtATime ==
    ASSUME IndInv, NEW e \in Envs, job[e].op \in LockedOps
    PROVE  /\ operatorMutex_ = e
           /\ \A f \in Envs : job[f].op \in LockedOps => f = e
  BY DEF IndInv, MutexOwner

\* The service answers an on call: from now on its listener is wanted, and has
\* its record.
LEMMA ServiceAddsKeeps ==
    ASSUME IndInv, NEW e \in Envs, ServiceAdds(e)
    PROVE  IndInv'
<1>0. TypeInv' /\ TypeInv
  BY AddTypes DEF IndInv
<1>1. /\ UNCHANGED <<listenerList_, operatorMutex_, refs, isDeleting, works, app, ons, serviceDied,
                     stray>>
      /\ job[e].op = "add" /\ job' = [job EXCEPT ![e].op = "added"]
  BY DEF ServiceAdds, device, counters, history
<1>a. job[e] \in [op : AddOps, listener : Listener]
  BY <1>0, <1>1, JobTypes DEF AddOps
<1>2. PICK l \in Listener : l = job[e].listener
  BY <1>a
<1>3. /\ job'[e].op = "added" /\ job'[e].listener = l
      /\ \A f \in Envs : f # e => job'[f] = job[f]
  BY <1>0, <1>1, <1>2, <1>a DEF TypeInv
<1>4. /\ records \subseteq records' /\ \A r \in records' : r \in records \/ r.key = Key(l)
      /\ Recorded(l)'
  <2> DEFINE old == {r \in records : r.key = Key(l)}
             record == IF old = {} THEN [key |-> Key(l), observer |-> l.id] ELSE CHOOSE r \in old : TRUE
  <2>1. record.key = Key(l)
    OBVIOUS
  <2>2. IF SlotIsRecorded(l.slotId, AppToken) THEN records' = records \cup {record}
        ELSE records' = records
    BY <1>2 DEF ServiceAdds
  <2>3. Recorded(l)' <=> (SlotIsRecorded(l.slotId, AppToken) => \E r \in records' : r.key = Key(l))
    BY DEF Recorded
  <2> HIDE DEF record
  <2> QED BY <2>1, <2>2, <2>3
<1>5. SlotsValid'
  BY <1>1, <1>2, <1>3 DEF IndInv, SlotsValid, ValidSlot, ListenerSlots, SIM_SLOT_COUNT, AddOps
<1>6. MutexOwner'
  BY <1>1, <1>2, <1>3 DEF IndInv, MutexOwner, LockedOps
<1>7. OnePlace'
  BY <1>1, <1>2, <1>3 DEF IndInv, OnePlace, AddOps, OffOps
<1>8. RefsOwned'
  <2>1. \A id : Owned(id)' <=> Owned(id)
    BY <1>1, <1>2, <1>3 DEF Owned, AddOps, OffOps
  <2> QED BY <1>1, <2>1 DEF IndInv, RefsOwned, SIM_SLOT_COUNT
<1>9. RecordsFollow'
  <2>1. \A m : Wanted(m)' <=> Wanted(m) \/ m = l
    BY <1>1, <1>2, <1>3 DEF Wanted
  <2>2. \A k : ~ToRemove(k)' /\ ~ToRemove(k)
    BY <1>1, <1>3, OneAtATime DEF ToRemove, LockedOps
  <2>3. \A m : Recorded(m) => Recorded(m)'
    BY <1>4 DEF Recorded
  <2>4. ~serviceDied' => \A m \in Listener : Wanted(m)' => Recorded(m)'
    BY <1>1, <1>4, <2>1, <2>3 DEF IndInv, RecordsFollow
  <2>5. \A r \in records' : r.key \in stray' \/ \E m \in Listener : Wanted(m)' /\ Key(m) = r.key
    BY <1>1, <1>2, <1>4, <2>1, <2>2 DEF IndInv, RecordsFollow
  <2> QED BY <2>2, <2>4, <2>5 DEF RecordsFollow
<1> QED
  BY <1>0, <1>1, <1>5, <1>6, <1>7, <1>8, <1>9, WorksSame DEF IndInv

\* The on call puts its listener into the list and lets the mutex go.
LEMMA OnReturnsKeeps ==
    ASSUME IndInv, NEW e \in Envs, OnReturns(e)
    PROVE  IndInv'
<1>0. TypeInv' /\ TypeInv
  BY JobStepTypes DEF IndInv
<1>1. /\ UNCHANGED <<refs, isDeleting, records, works, app, ons, serviceDied, stray>>
      /\ job[e].op = "added" /\ job' = [job EXCEPT ![e] = NoJob]
      /\ listenerList_' = Append(listenerList_, job[e].listener)
      /\ operatorMutex_' = None
  BY DEF OnReturns, Unlock, device, counters, history
<1>2. PICK l \in Listener : l = job[e].listener
  BY <1>0, <1>1, JobTypes DEF AddOps
<1>3. /\ job'[e].op = "none"
      /\ \A f \in Envs : f # e => job'[f] = job[f]
  BY <1>0, <1>1, JobEnds
<1>4. ToSet(listenerList_') = ToSet(listenerList_) \cup {l}
  BY <1>0, <1>1, <1>2, PushBack DEF TypeInv
<1>5. operatorMutex_ = e /\ \A f \in Envs : f # e => job[f].op \notin LockedOps
  BY <1>1, OneAtATime DEF LockedOps
<1>6. SlotsValid'
  BY <1>1, <1>2, <1>3, <1>4 DEF IndInv, SlotsValid, ValidSlot, ListenerSlots, SIM_SLOT_COUNT, AddOps
<1>7. MutexOwner'
  <2>1. None \notin Envs
    BY NapiAssumption
  <2> QED BY <1>1, <1>3, <1>5, <2>1 DEF MutexOwner, LockedOps
<1>8. OnePlace'
  BY <1>1, <1>2, <1>3, <1>4, <1>5 DEF IndInv, OnePlace, AddOps, OffOps, LockedOps
<1>9. RefsOwned'
  <2>1. \A id : Owned(id)' <=> Owned(id)
    BY <1>1, <1>2, <1>3, <1>4 DEF Owned, AddOps, OffOps
  <2> QED BY <1>1, <2>1 DEF IndInv, RefsOwned, SIM_SLOT_COUNT
<1>10. RecordsFollow'
  <2>1. \A m : Wanted(m)' <=> Wanted(m)
    BY <1>1, <1>2, <1>3, <1>4 DEF Wanted
  <2>2. \A k : ToRemove(k)' <=> ToRemove(k)
    BY <1>1, <1>3 DEF ToRemove
  <2>3. \A m : Recorded(m)' <=> Recorded(m)
    BY <1>1 DEF Recorded
  <2> QED BY <1>1, <2>1, <2>2, <2>3 DEF IndInv, RecordsFollow
<1> QED
  BY <1>0, <1>1, <1>4, <1>6, <1>7, <1>8, <1>9, <1>10, WorksSame DEF IndInv

\* An on call that failed deletes its reference, which nobody else has.
LEMMA OnFailsKeeps ==
    ASSUME IndInv, NEW e \in Envs, OnFails(e)
    PROVE  IndInv'
<1>0. TypeInv' /\ TypeInv
  BY JobStepTypes DEF IndInv
<1>1. /\ UNCHANGED <<listenerList_, isDeleting, records, works, app, ons, serviceDied, stray>>
      /\ job[e].op = "add" /\ job' = [job EXCEPT ![e] = NoJob]
      /\ refs' = refs \ {job[e].listener.id}
      /\ operatorMutex_' = None
  BY DEF OnFails, RefsAfterFailedOn, Unlock, device, history
<1>2. PICK l \in Listener : l = job[e].listener
  BY <1>0, <1>1, JobTypes DEF AddOps
<1>3. /\ job'[e].op = "none"
      /\ \A f \in Envs : f # e => job'[f] = job[f]
  BY <1>0, <1>1, JobEnds
<1>5. operatorMutex_ = e /\ \A f \in Envs : f # e => job[f].op \notin LockedOps
  BY <1>1, OneAtATime DEF LockedOps
<1>6. SlotsValid'
  BY <1>1, <1>3 DEF IndInv, SlotsValid, ValidSlot, ListenerSlots, SIM_SLOT_COUNT, AddOps
<1>7. MutexOwner'
  <2>1. None \notin Envs
    BY NapiAssumption
  <2> QED BY <1>1, <1>3, <1>5, <2>1 DEF MutexOwner, LockedOps
<1>8. OnePlace'
  BY <1>1, <1>3 DEF IndInv, OnePlace, AddOps, OffOps
<1>9. RefsOwned'
  <2>1. \A id : Owned(id)' => Owned(id) /\ id # l.id
    BY <1>1, <1>2, <1>3, <1>5 DEF Owned, AddOps, OffOps, LockedOps, IndInv, OnePlace
  <2>2. \A id : Owned(id) /\ id # l.id => Owned(id)'
    BY <1>1, <1>2, <1>3 DEF Owned, AddOps, OffOps
  <2> QED BY <1>1, <1>2, <2>1, <2>2 DEF IndInv, RefsOwned, SIM_SLOT_COUNT
<1>10. RecordsFollow'
  <2>1. \A m : Wanted(m)' <=> Wanted(m)
    BY <1>1, <1>3 DEF Wanted
  <2>2. \A k : ToRemove(k)' <=> ToRemove(k)
    BY <1>1, <1>3 DEF ToRemove
  <2>3. \A m : Recorded(m)' <=> Recorded(m)
    BY <1>1 DEF Recorded
  <2> QED BY <1>1, <2>1, <2>2, <2>3 DEF IndInv, RecordsFollow
<1> QED
  BY <1>0, <1>1, <1>6, <1>7, <1>8, <1>9, <1>10, WorksSame DEF IndInv

-----------------------------------------------------------------------------
(* observer.off, and the end of an env. *)

\* Taking listeners out: all but the references, which off and the end of an env
\* treat differently.  The listeners that are left keep their keys, and a record
\* that loses its last listener is one that will be removed.
LEMMA RemoveListenersKeeps ==
    ASSUME IndInv, NEW e \in Envs, NEW gone, gone \subseteq ToSet(listenerList_),
           NEW op \in {"off", "teardown"}, Idle(e), RemoveListeners(e, gone, op),
           UNCHANGED <<records, works, app, ons, serviceDied, stray>>
    PROVE  /\ SlotsValid' /\ MutexOwner' /\ OnePlace' /\ WorksKnown' /\ RecordsFollow'
           /\ job[e].op = "none" /\ job'[e].op = op /\ job'[e].removed = {l.id : l \in gone}
           /\ \A f \in Envs : f # e => job'[f] = job[f]
           /\ ToSet(listenerList_') = ToSet(listenerList_) \ gone
<1> DEFINE keys == FreedKeys(Rest(gone), gone, e)
           ids == {l.id : l \in gone}
           j == [op |-> op, keys |-> keys, removed |-> ids]
           L == ToSet(listenerList_)
           R == L \ gone
<1>0. TypeInv
  BY DEF IndInv
<1>1. /\ operatorMutex_ = None /\ operatorMutex_' = e
      /\ listenerList_' = Rest(gone) /\ isDeleting' = isDeleting \cup ids
      /\ job' = [job EXCEPT ![e] = j] /\ job[e].op = "none"
  BY DEF RemoveListeners, Lock, Idle, NoJob
<1>2. ToSet(listenerList_') = R
  BY <1>0, <1>1, TakenOut
<1>3. /\ job'[e] = j /\ \A f \in Envs : f # e => job'[f] = job[f]
  <2> HIDE DEF j
  <2> QED BY <1>0, <1>1, JobSet
<1>4. job'[e].op = op /\ job'[e].keys = keys /\ job'[e].removed = ids
  BY <1>3
<1>5. \A f \in Envs : job[f].op \notin LockedOps
  <2>1. None \notin Envs
    BY NapiAssumption
  <2> QED BY <1>1, <2>1 DEF IndInv, MutexOwner
<1>6. \A k : k \in keys <=> (\E l \in gone : Key(l) = k) /\ ~(\E l \in R : Key(l) = k)
  <2>1. ToSet(Rest(gone)) = R
    BY <1>0, TakenOut
  <2> HIDE DEF R
  <2> QED BY <2>1 DEF FreedKeys, CheckEventTypeExist
<1>7. L \subseteq Listener
  BY <1>0, ListedType
<1> HIDE DEF keys, j
<1>8. SlotsValid'
  BY <1>1, <1>2, <1>3, <1>4 DEF IndInv, SlotsValid, ValidSlot, ListenerSlots, SIM_SLOT_COUNT, AddOps
<1>9. MutexOwner'
  BY <1>1, <1>3, <1>4, <1>5 DEF MutexOwner, LockedOps
<1>10. OnePlace'
  <2>1. isDeleting' \subseteq 1 .. ons'
    <3>1. isDeleting \subseteq 1 .. ons /\ \A l \in gone : l.id \in 1 .. ons
      BY DEF IndInv, OnePlace
    <3>2. isDeleting \cup ids \subseteq 1 .. ons
      BY <3>1
    <3> QED BY <1>1, <3>2
  <2>2. \A l \in R : l.id \in 1 .. ons /\ l.id \notin isDeleting'
    BY <1>1 DEF IndInv, OnePlace
  <2>3. \A l, m \in R : l.id = m.id => l = m
    BY DEF IndInv, OnePlace
  <2>4. \A f \in Envs : job'[f].op \notin AddOps
    BY <1>3, <1>4, <1>5 DEF AddOps, LockedOps
  <2>5. \A f \in Envs : job'[f].op \in OffOps => job'[f].removed \subseteq isDeleting'
    BY <1>1, <1>3, <1>4 DEF IndInv, OnePlace
  <2>6. \A f \in Envs : f # e /\ job[f].op \in OffOps => job[f].removed \cap ids = {}
    BY DEF IndInv, OnePlace
  <2>7. ASSUME NEW f \in Envs, NEW g \in Envs, job'[f].op \in OffOps, job'[g].op \in OffOps, f # g
        PROVE  job'[f].removed \cap job'[g].removed = {}
    <3>1. CASE f # e /\ g # e
      BY <2>7, <3>1, <1>3 DEF IndInv, OnePlace
    <3>2. CASE f = e
      BY <2>7, <3>2, <2>6, <1>3, <1>4
    <3>3. CASE g = e
      BY <2>7, <3>3, <2>6, <1>3, <1>4
    <3> QED BY <3>1, <3>2, <3>3
  <2> QED BY <1>2, <2>1, <2>2, <2>3, <2>4, <2>5, <2>7 DEF OnePlace
<1>11. WorksKnown'
  BY <1>1, <1>2 DEF IndInv, WorksKnown
<1>12. RecordsFollow'
  <2>1. \A m : Wanted(m)' <=> m \in R
    BY <1>2, <1>3, <1>4, <1>5 DEF Wanted, LockedOps
  <2>2. \A m : Wanted(m) <=> m \in L
    BY <1>5 DEF Wanted, LockedOps
  <2>3. \A k : ToRemove(k)' <=> k \in keys
    BY <1>3, <1>4, <1>5 DEF ToRemove, LockedOps
  <2>4. \A k : ~ToRemove(k)
    BY <1>5 DEF ToRemove, LockedOps
  <2>5. \A m : Recorded(m)' <=> Recorded(m)
    BY DEF Recorded
  <2>6. ~serviceDied' => \A m \in Listener : Wanted(m)' => Recorded(m)'
    BY <2>1, <2>2, <2>5 DEF IndInv, RecordsFollow
  <2>7. \A m \in Listener : Wanted(m)' => ~ToRemove(Key(m))'
    BY <2>1, <2>3, <1>6
  <2>8. ASSUME NEW r \in records', r.key \notin stray'
        PROVE  ToRemove(r.key)' \/ \E m \in Listener : Wanted(m)' /\ Key(m) = r.key
    <3>1. PICK m \in L : Key(m) = r.key
      BY <2>8, <2>2, <2>4 DEF IndInv, RecordsFollow
    <3>2. CASE \E n \in R : Key(n) = r.key
      BY <3>2, <2>1, <1>7
    <3>3. CASE ~ \E n \in R : Key(n) = r.key
      <4>1. m \in gone
        BY <3>1, <3>3
      <4> QED BY <3>1, <3>3, <4>1, <1>6, <2>3
    <3> QED BY <3>2, <3>3
  <2> QED BY <2>6, <2>7, <2>8 DEF RecordsFollow
<1> QED BY <1>1, <1>2, <1>3, <1>4, <1>8, <1>9, <1>10, <1>11, <1>12

\* off keeps the references of the listeners it took out until it returns.
LEMMA OffKeeps ==
    ASSUME IndInv, NEW e \in Envs, NEW c \in app.offCalls, Off(e, c)
    PROVE  IndInv'
<1> DEFINE gone == Removed(e, c)
<1>0. TypeInv'
  BY RemoveTypes DEF IndInv
<1>1. /\ Idle(e) /\ RemoveListeners(e, gone, "off") /\ gone \subseteq ToSet(listenerList_)
      /\ UNCHANGED <<refs, records, works, app, ons, serviceDied, stray>>
  BY DEF Off, Removed, device, history
<1> HIDE DEF gone
<1>2. /\ SlotsValid' /\ MutexOwner' /\ OnePlace' /\ WorksKnown' /\ RecordsFollow'
      /\ job[e].op = "none" /\ job'[e].op = "off" /\ job'[e].removed = {l.id : l \in gone}
      /\ \A f \in Envs : f # e => job'[f] = job[f]
      /\ ToSet(listenerList_') = ToSet(listenerList_) \ gone
  BY <1>1, RemoveListenersKeeps
<1>3. RefsOwned'
  <2>1. \A id : Owned(id)' <=> Owned(id)
    BY <1>1, <1>2 DEF Owned, AddOps, OffOps
  <2> QED BY <1>1, <2>1 DEF IndInv, RefsOwned, SIM_SLOT_COUNT
<1> QED BY <1>0, <1>2, <1>3 DEF IndInv

\* The end of an env deletes the references with the listeners.
LEMMA UnRegisterAllKeeps ==
    ASSUME IndInv, NEW e \in Envs, UnRegisterAllListener(e)
    PROVE  IndInv'
<1> DEFINE gone == {l \in ToSet(listenerList_) : l.env = e}
<1>0. TypeInv'
  BY RemoveTypes DEF IndInv
<1>1. /\ Idle(e) /\ RemoveListeners(e, gone, "teardown") /\ gone \subseteq ToSet(listenerList_)
      /\ UNCHANGED <<records, works, app, ons, serviceDied, stray>>
      /\ refs' = refs \ {l.id : l \in gone}
  BY DEF UnRegisterAllListener, device, counters, history
<1> HIDE DEF gone
<1>2. /\ SlotsValid' /\ MutexOwner' /\ OnePlace' /\ WorksKnown' /\ RecordsFollow'
      /\ job[e].op = "none" /\ job'[e].op = "teardown" /\ job'[e].removed = {l.id : l \in gone}
      /\ \A f \in Envs : f # e => job'[f] = job[f]
      /\ ToSet(listenerList_') = ToSet(listenerList_) \ gone
  BY <1>1, RemoveListenersKeeps
<1>3. RefsOwned'
  <2>1. \A id : Owned(id)' => Owned(id)
    BY <1>1, <1>2 DEF Owned, AddOps, OffOps
  <2>2. \A id : Owned(id) /\ id \notin {l.id : l \in gone} => Owned(id)'
    BY <1>1, <1>2 DEF Owned, AddOps, OffOps
  <2>3. ASSUME NEW id, Owned(id)' PROVE id \notin {l.id : l \in gone}
    <3>1. ASSUME NEW l \in gone PROVE l.id # id
      <4>1. l \in ToSet(listenerList_)
        BY <1>1
      <4>2. CASE \E m \in ToSet(listenerList_') : m.id = id
        BY <4>1, <4>2, <1>2 DEF IndInv, OnePlace
      <4>3. CASE \E f \in Envs : job'[f].op \in AddOps /\ job'[f].listener.id = id
        BY <4>1, <4>3, <1>2 DEF IndInv, OnePlace, AddOps
      <4>4. CASE \E f \in Envs : job'[f].op \in OffOps /\ id \in job'[f].removed
        BY <4>1, <4>4, <1>2 DEF IndInv, OnePlace, OffOps
      <4> QED BY <2>3, <4>2, <4>3, <4>4 DEF Owned
    <3> QED BY <3>1
  <2> QED BY <1>1, <2>1, <2>2, <2>3 DEF IndInv, RefsOwned, SIM_SLOT_COUNT
<1> QED BY <1>0, <1>2, <1>3 DEF IndInv

\* A key is removed, or its removal fails: either way the loop is done with it.
LEMMA KeyDoneKeeps ==
    ASSUME IndInv, NEW e \in Envs, ServiceRemoves(e) \/ RemoveFails(e)
    PROVE  IndInv'
<1>0. TypeInv' /\ TypeInv
  BY JobStepTypes DEF IndInv
<1>1. /\ UNCHANGED <<listenerList_, operatorMutex_, refs, isDeleting, works, app, ons, serviceDied>>
      /\ Removing(e) /\ KeyDone(e)
  BY DEF ServiceRemoves, RemoveFails, device, counters, history
<1>2. PICK k \in job[e].keys : k = NextKey(e)
  BY <1>0, <1>1, NextKeyExists
<1>3. \/ records' = {r \in records : r.key # k} /\ stray' = stray
      \/ records' = records /\ stray' = stray \cup {k}
  BY <1>2 DEF ServiceRemoves, RemoveFails, history
<1>4. job[e].op \in {"off", "teardown"} /\ job[e] \in
        [op : OffOps \cup {"teardown"}, keys : SUBSET Keys, removed : SUBSET Ids]
  BY <1>0, <1>1, JobTypes DEF Removing, OffOps
<1>5. /\ job'[e].op = job[e].op /\ job'[e].removed = job[e].removed /\ job'[e].keys = job[e].keys \ {k}
      /\ \A f \in Envs : f # e => job'[f] = job[f]
  BY <1>0, <1>1, <1>2, <1>4 DEF KeyDone, TypeInv
<1>6. \A f \in Envs : job'[f].op = job[f].op
  BY <1>5
<1>7. \A f \in Envs : job[f].op \in AddOps => job'[f] = job[f]
  BY <1>4, <1>5 DEF AddOps
<1>8. \A f \in Envs : job[f].op \in OffOps => job'[f].removed = job[f].removed
  BY <1>5
<1>9. SlotsValid'
  BY <1>1, <1>6, <1>7 DEF IndInv, SlotsValid, ValidSlot, ListenerSlots, SIM_SLOT_COUNT
<1>10. MutexOwner'
  BY <1>1, <1>6 DEF IndInv, MutexOwner
<1>11. OnePlace'
  BY <1>1, <1>6, <1>7, <1>8 DEF IndInv, OnePlace
<1>12. RefsOwned'
  <2>1. \A id : Owned(id)' <=> Owned(id)
    BY <1>1, <1>6, <1>7, <1>8 DEF Owned
  <2> QED BY <1>1, <2>1 DEF IndInv, RefsOwned, SIM_SLOT_COUNT
<1>13. RecordsFollow'
  <2>1. \A m : Wanted(m)' <=> Wanted(m)
    BY <1>1, <1>4, <1>5 DEF Wanted
  <2>2. \A x : ToRemove(x)' => ToRemove(x)
    BY <1>4, <1>5 DEF ToRemove
  <2>3. \A x : ToRemove(x) /\ x # k => ToRemove(x)'
    BY <1>4, <1>5 DEF ToRemove
  <2>4. ToRemove(k)
    BY <1>2, <1>4 DEF ToRemove
  <2>5. \A m \in Listener : Wanted(m) => Key(m) # k
    BY <2>4 DEF IndInv, RecordsFollow
  <2>6. \A m \in Listener : Wanted(m) /\ Recorded(m) => Recorded(m)'
    BY <1>3, <2>5 DEF Recorded
  <2>7. ~serviceDied' => \A m \in Listener : Wanted(m)' => Recorded(m)'
    BY <1>1, <2>1, <2>6 DEF IndInv, RecordsFollow
  <2>8. \A r \in records' : r.key \in stray' \/ ToRemove(r.key)'
                            \/ \E m \in Listener : Wanted(m)' /\ Key(m) = r.key
    BY <1>3, <2>1, <2>3 DEF IndInv, RecordsFollow
  <2>9. \A m \in Listener : Wanted(m)' => ~ToRemove(Key(m))'
    BY <2>1, <2>2 DEF IndInv, RecordsFollow
  <2> QED BY <2>7, <2>8, <2>9 DEF RecordsFollow
<1> QED
  BY <1>0, <1>1, <1>9, <1>10, <1>11, <1>12, <1>13, WorksSame DEF IndInv

\* off lets the mutex go when every key is done, and still has its references.
LEMMA OffUnlocksKeeps ==
    ASSUME IndInv, NEW e \in Envs, OffUnlocks(e)
    PROVE  IndInv'
<1>0. TypeInv' /\ TypeInv
  BY JobStepTypes DEF IndInv
<1>1. /\ UNCHANGED <<listenerList_, refs, isDeleting, records, works, app, ons, serviceDied, stray>>
      /\ job[e].op = "off" /\ job[e].keys = {} /\ job' = [job EXCEPT ![e].op = "offCallback"]
      /\ operatorMutex_' = None
  BY DEF OffUnlocks, Unlock, device, counters, history
<1>2. job[e] \in [op : OffOps \cup {"teardown"}, keys : SUBSET Keys, removed : SUBSET Ids]
  BY <1>0, <1>1, JobTypes DEF OffOps
<1>3. /\ job'[e].op = "offCallback" /\ job'[e].removed = job[e].removed
      /\ \A f \in Envs : f # e => job'[f] = job[f]
  BY <1>0, <1>1, <1>2 DEF TypeInv
<1>4. operatorMutex_ = e /\ \A f \in Envs : f # e => job[f].op \notin LockedOps
  BY <1>1, OneAtATime DEF LockedOps
<1>5. MutexOwner'
  <2>1. None \notin Envs
    BY NapiAssumption
  <2> QED BY <1>1, <1>3, <1>4, <2>1 DEF MutexOwner, LockedOps
<1>6. SlotsValid'
  BY <1>1, <1>3 DEF IndInv, SlotsValid, ValidSlot, ListenerSlots, SIM_SLOT_COUNT, AddOps
<1>7. OnePlace'
  <2>1. \A f \in Envs : job'[f].op \in OffOps => job[f].op \in OffOps /\ job'[f].removed = job[f].removed
    BY <1>1, <1>3 DEF OffOps
  <2>2. \A f \in Envs : job'[f].op \in AddOps => job'[f] = job[f]
    BY <1>1, <1>3 DEF AddOps
  <2>3. /\ \A f \in Envs : job'[f].op \in OffOps => job'[f].removed \subseteq isDeleting'
        /\ \A f, g \in Envs : job'[f].op \in OffOps /\ job'[g].op \in OffOps /\ f # g
              => job'[f].removed \cap job'[g].removed = {}
    BY <1>1, <2>1 DEF IndInv, OnePlace
  <2>a. UNCHANGED <<listenerList_, isDeleting, ons>>
    BY <1>1
  <2>4. \A f \in Envs : job'[f].op \in AddOps =>
            /\ job'[f].listener.id \in 1 .. ons' /\ job'[f].listener.id \notin isDeleting'
            /\ \A l \in ToSet(listenerList_') : l.id # job'[f].listener.id
    BY <2>a, <2>2 DEF IndInv, OnePlace
  <2> QED BY <2>a, <2>3, <2>4 DEF IndInv, OnePlace
<1>8. RefsOwned'
  <2>1. \A id : Owned(id)' <=> Owned(id)
    BY <1>1, <1>3 DEF Owned, AddOps, OffOps
  <2> QED BY <1>1, <2>1 DEF IndInv, RefsOwned, SIM_SLOT_COUNT
<1>9. RecordsFollow'
  <2>1. \A m : Wanted(m)' <=> Wanted(m)
    BY <1>1, <1>3 DEF Wanted
  <2>2. \A k : ToRemove(k)' <=> ToRemove(k)
    BY <1>1, <1>3 DEF ToRemove
  <2>3. \A m : Recorded(m)' <=> Recorded(m)
    BY <1>1 DEF Recorded
  <2> QED BY <1>1, <2>1, <2>2, <2>3 DEF IndInv, RecordsFollow
<1> QED
  BY <1>0, <1>1, <1>5, <1>6, <1>7, <1>8, <1>9, WorksSame DEF IndInv

\* off deletes the references of the listeners it took out, and no others.
LEMMA OffCallbackKeeps ==
    ASSUME IndInv, NEW e \in Envs, OffCallback(e)
    PROVE  IndInv'
<1>0. TypeInv' /\ TypeInv
  BY JobStepTypes DEF IndInv
<1>1. /\ UNCHANGED <<listenerList_, operatorMutex_, isDeleting, records, works, app, ons,
                     serviceDied, stray>>
      /\ job[e].op = "offCallback" /\ job' = [job EXCEPT ![e] = NoJob]
      /\ refs' = refs \ job[e].removed
  BY DEF OffCallback, device, counters, history
<1>3. /\ job'[e].op = "none"
      /\ \A f \in Envs : f # e => job'[f] = job[f]
  BY <1>0, <1>1, JobEnds
<1>5. MutexOwner'
  BY <1>1, <1>3 DEF IndInv, MutexOwner, LockedOps
<1>6. SlotsValid'
  BY <1>1, <1>3 DEF IndInv, SlotsValid, ValidSlot, ListenerSlots, SIM_SLOT_COUNT, AddOps
<1>7. OnePlace'
  BY <1>1, <1>3 DEF IndInv, OnePlace, AddOps, OffOps
<1>8. RefsOwned'
  <2>1. \A id : Owned(id)' => Owned(id)
    BY <1>1, <1>3 DEF Owned, AddOps, OffOps
  <2>2. \A id : Owned(id) /\ id \notin job[e].removed => Owned(id)'
    BY <1>1, <1>3 DEF Owned, AddOps, OffOps
  <2>3. ASSUME NEW id, Owned(id)' PROVE id \notin job[e].removed
    <3>1. job[e].removed \subseteq isDeleting
      BY <1>1 DEF IndInv, OnePlace, OffOps
    <3>2. CASE \E m \in ToSet(listenerList_') : m.id = id
      BY <3>1, <3>2, <1>1 DEF IndInv, OnePlace
    <3>3. CASE \E f \in Envs : job'[f].op \in AddOps /\ job'[f].listener.id = id
      BY <3>1, <3>3, <1>3 DEF IndInv, OnePlace, AddOps
    <3>4. CASE \E f \in Envs : job'[f].op \in OffOps /\ id \in job'[f].removed
      BY <3>4, <1>1, <1>3 DEF IndInv, OnePlace, OffOps
    <3> QED BY <2>3, <3>2, <3>3, <3>4 DEF Owned
  <2> QED BY <1>1, <2>1, <2>2, <2>3 DEF IndInv, RefsOwned, SIM_SLOT_COUNT
<1>9. RecordsFollow'
  <2>1. \A m : Wanted(m)' <=> Wanted(m)
    BY <1>1, <1>3 DEF Wanted
  <2>2. \A k : ToRemove(k)' <=> ToRemove(k)
    BY <1>1, <1>3 DEF ToRemove
  <2>3. \A m : Recorded(m)' <=> Recorded(m)
    BY <1>1 DEF Recorded
  <2> QED BY <1>1, <2>1, <2>2, <2>3 DEF IndInv, RecordsFollow
<1> QED
  BY <1>0, <1>1, <1>5, <1>6, <1>7, <1>8, <1>9, WorksSame DEF IndInv

\* The end of an env lets the mutex go.
LEMMA TeardownEndsKeeps ==
    ASSUME IndInv, NEW e \in Envs, TeardownEnds(e)
    PROVE  IndInv'
<1>0. TypeInv' /\ TypeInv
  BY JobStepTypes DEF IndInv
<1>1. /\ UNCHANGED <<listenerList_, refs, isDeleting, records, works, app, ons, serviceDied, stray>>
      /\ job[e].op = "teardown" /\ job[e].keys = {} /\ job' = [job EXCEPT ![e] = NoJob]
      /\ operatorMutex_' = None
  BY DEF TeardownEnds, Unlock, device, counters, history
<1>3. /\ job'[e].op = "none"
      /\ \A f \in Envs : f # e => job'[f] = job[f]
  BY <1>0, <1>1, JobEnds
<1>4. operatorMutex_ = e /\ \A f \in Envs : f # e => job[f].op \notin LockedOps
  BY <1>1, OneAtATime DEF LockedOps
<1>5. MutexOwner'
  <2>1. None \notin Envs
    BY NapiAssumption
  <2> QED BY <1>1, <1>3, <1>4, <2>1 DEF MutexOwner, LockedOps
<1>6. SlotsValid'
  BY <1>1, <1>3 DEF IndInv, SlotsValid, ValidSlot, ListenerSlots, SIM_SLOT_COUNT, AddOps
<1>7. OnePlace'
  BY <1>1, <1>3 DEF IndInv, OnePlace, AddOps, OffOps
<1>8. RefsOwned'
  <2>1. \A id : Owned(id)' <=> Owned(id)
    BY <1>1, <1>3 DEF Owned, AddOps, OffOps
  <2> QED BY <1>1, <2>1 DEF IndInv, RefsOwned, SIM_SLOT_COUNT
<1>9. RecordsFollow'
  <2>1. \A m : Wanted(m)' <=> Wanted(m)
    BY <1>1, <1>3 DEF Wanted
  <2>2. \A k : ToRemove(k)' <=> ToRemove(k)
    BY <1>1, <1>3 DEF ToRemove
  <2>3. \A m : Recorded(m)' <=> Recorded(m)
    BY <1>1 DEF Recorded
  <2> QED BY <1>1, <2>1, <2>2, <2>3 DEF IndInv, RecordsFollow
<1> QED
  BY <1>0, <1>1, <1>5, <1>6, <1>7, <1>8, <1>9, WorksSame DEF IndInv

-----------------------------------------------------------------------------
(* From the service to JavaScript, and the world. *)

\* A step that moves messages only, and drops works.
LEMMA DeliveryKeeps ==
    ASSUME IndInv, TypeInv',
           UNCHANGED <<listenerList_, operatorMutex_, refs, isDeleting, job, records, app, ons,
                       serviceDied, stray>>,
           \A e \in Envs : works'[e] \subseteq works[e]
    PROVE  IndInv'
  BY SlotsSame, MutexSame, PlaceSame, RefsSame, WorksSame, RecordsSame DEF IndInv

\* The handler queues work for listeners that are in the list.
LEMMA ProcessEventKeeps ==
    ASSUME IndInv, ProcessEvent \/ ProcessEventFails
    PROVE  IndInv'
<1>0. TypeInv' /\ TypeInv
  BY DeliveryTypes DEF IndInv
<1>1. UNCHANGED <<listenerList_, operatorMutex_, refs, isDeleting, job, records, app, ons,
                  serviceDied, stray>>
  BY DEF ProcessEvent, ProcessEventFails, device, counters, history
<1> DEFINE ts == Targets(Head(events))
<1>2. ts \in Seq(Listener) /\ ToSet(ts) \subseteq ToSet(listenerList_)
  BY <1>0, TargetsListed
<1>3. PICK ls : ls \subseteq ToSet(ts) /\ works' = Queued(ls, Head(events))
  <2>1. CASE ProcessEvent
    BY <2>1 DEF ProcessEvent
  <2>2. CASE ProcessEventFails
    <3>1. PICK n \in 1 .. Len(ts) : works' = Queued({ts[i] : i \in 1 .. n - 1}, Head(events))
      BY <2>2 DEF ProcessEventFails
    <3> HIDE DEF ts
    <3>2. {ts[i] : i \in 1 .. n - 1} \subseteq ToSet(ts)
      BY <1>2 DEF ToSet
    <3> QED BY <3>1, <3>2
  <2> QED BY <2>1, <2>2
<1> HIDE DEF ts
<1>4. WorksKnown'
  <2>1. ASSUME NEW e \in Envs, NEW w \in works'[e]
        PROVE  w \in works[e] \/ w.listener \in ls
    BY <1>3 DEF Queued
  <2>2. \A l \in ls : l \in ToSet(listenerList_')
    BY <1>1, <1>2, <1>3
  <2> QED BY <1>1, <2>1, <2>2 DEF IndInv, WorksKnown
<1> QED
  BY <1>0, <1>1, <1>4, SlotsSame, MutexSame, PlaceSame, RefsSame, RecordsSame DEF IndInv

\* The service forgets its records; from then on nothing is said about them.
LEMMA ServiceDiesKeeps ==
    ASSUME IndInv, ServiceDies
    PROVE  IndInv'
<1>0. TypeInv'
  BY DeliveryTypes DEF IndInv
<1>1. /\ UNCHANGED <<listenerList_, operatorMutex_, refs, isDeleting, job, works, app, ons, stray>>
      /\ records' = {} /\ serviceDied'
  BY DEF ServiceDies, device
<1>2. RecordsFollow'
  <2>1. \A m : Wanted(m)' <=> Wanted(m)
    BY <1>1 DEF Wanted
  <2>2. \A k : ToRemove(k)' <=> ToRemove(k)
    BY <1>1 DEF ToRemove
  <2> QED BY <1>1, <2>1, <2>2 DEF IndInv, RecordsFollow
<1> QED
  BY <1>0, <1>1, <1>2, SlotsSame, MutexSame, PlaceSame, RefsSame, WorksSame DEF IndInv

-----------------------------------------------------------------------------
(* The theorems. *)

\* Every step keeps the invariant.
LEMMA StepKeeps ==
    ASSUME IndInv, Next
    PROVE  IndInv'
<1>0. TypeInv' /\ TypeInv
  BY StepTypes DEF IndInv
<1>1. ASSUME NEW e \in Envs, NEW c \in app.offCalls, OffNothing(e, c)
      PROVE  IndInv'
  BY <1>0, <1>1, DeliveryKeeps DEF OffNothing, device, history
<1>2. ASSUME NEW e \in Envs, TeardownNothing(e) \/ FunctionReturns(e)
      PROVE  IndInv'
  BY <1>0, <1>2, DeliveryKeeps DEF TeardownNothing, FunctionReturns, device, counters, history
<1>3. ASSUME NEW e \in Envs, UvStep(e)
      PROVE  IndInv'
  <2>1. PICK w \in works[e] : WorkUpdated(e, w) \/ WorkDropped(e, w)
    BY <1>3 DEF UvStep
  <2>2. \A f \in Envs : works'[f] \subseteq works[f]
    BY <1>0, <2>1 DEF WorkUpdated, WorkDropped, TypeInv
  <2> QED
    BY <1>0, <2>1, <2>2, DeliveryKeeps
       DEF WorkUpdated, WorkDropped, UnlockBeforeCall, device, counters, history
<1>4. CASE (\E u \in app.updates : ServiceUpdate(u)) \/ (\E o \in Ids : ObserverSendsEvent(o))
           \/ DefaultSlotChanges
  BY <1>0, <1>4, DeliveryKeeps
     DEF ServiceUpdate, ObserverSendsEvent, DefaultSlotChanges, device, counters, history
<1> QED
  BY <1>1, <1>2, <1>3, <1>4, OnWithoutListener, OnAppendKeeps, OnCallsServiceKeeps,
     ServiceAddsKeeps, OnReturnsKeeps, OnFailsKeeps, OffKeeps, UnRegisterAllKeeps, KeyDoneKeeps,
     OffUnlocksKeeps, OffCallbackKeeps, TeardownEndsKeeps, ProcessEventKeeps, ServiceDiesKeeps
     DEF Next, JobStep

\* In every reachable state the invariant of the front end holds.
THEOREM Invariance == Spec => []IndInv
<1>1. Init => IndInv
  BY InitHolds
<1>2. IndInv /\ [Next]_vars => IndInv'
  <2>1. IndInv /\ Next => IndInv'
    BY StepKeeps
  <2>2. IndInv /\ UNCHANGED vars => IndInv'
    <3> SUFFICES ASSUME IndInv, UNCHANGED vars PROVE IndInv'
      OBVIOUS
    <3>1. TypeInv'
      BY TypeUnchanged DEF IndInv
    <3> QED BY <3>1, DeliveryKeeps DEF vars, counters, history
  <2> QED BY <2>1, <2>2
<1> QED BY <1>1, <1>2, PTL DEF Spec

\* Type correctness: whatever is called, in whatever order, the members of the
\* front end have their types, and no slot that on should have refused is in
\* the list.
THEOREM TypeCorrect == Spec => []TypeOK
<1>1. IndInv => TypeOK
  <2> SUFFICES ASSUME IndInv PROVE TypeOK
    OBVIOUS
  <2>1. \A e \in Envs : \/ job[e] = NoJob
                        \/ job[e].op \in {"add", "added"} /\ job[e].listener \in Listener
                        \/ /\ job[e].op \in {"off", "offCallback", "teardown"}
                           /\ job[e].removed \subseteq Ids
    BY JobTypes DEF IndInv, AddOps, OffOps
  <2>2. \A e \in Envs : \A w \in works[e] : w.listener \in Listener /\ w.event \in Events
    BY DEF IndInv, TypeInv
  <2>3. \A r \in records : r.observer \in Ids
    BY DEF IndInv, TypeInv
  <2> QED BY <2>1, <2>2, <2>3 DEF IndInv, TypeInv, SlotsValid, ValidSlot, TypeOK
<1> QED BY <1>1, Invariance, PTL

\* NapiReturnToJS calls a function without operatorMutex_: the on and off calls
\* a function makes never wait for their own thread.
THEOREM FunctionsRunUnlocked == Spec => []NoLockWhileCalling
<1>1. IndInv => NoLockWhileCalling
  BY DEF IndInv, MutexOwner, NoLockWhileCalling, NoJob, LockedOps
<1> QED BY <1>1, Invariance, PTL

\* Where there is a SIM card, every napi_ref that on made has exactly one owner
\* that will delete it, through every failure and every end of an env.
THEOREM NoRefLeaks == Spec => []RefsHaveOneOwner
<1>1. IndInv => RefsHaveOneOwner
  <2> SUFFICES ASSUME IndInv, SIM_SLOT_COUNT > 0
               PROVE  refs = Ids_of(listenerList_)
                          \cup {job[e].listener.id : e \in {f \in Envs : job[f].op \in {"add", "added"}}}
                          \cup UNION {job[e].removed : e \in {f \in Envs : job[f].op \in {"off", "offCallback"}}}
    BY DEF RefsHaveOneOwner
  <2> DEFINE Owners == Ids_of(listenerList_)
                 \cup {job[e].listener.id : e \in {f \in Envs : job[f].op \in {"add", "added"}}}
                 \cup UNION {job[e].removed : e \in {f \in Envs : job[f].op \in {"off", "offCallback"}}}
  <2>1. \A id : id \in Owners <=> Owned(id)
    BY DEF Owned, Ids_of, AddOps, OffOps
  <2>2. \A id : Owned(id) => id \in Ids
    <3>1. \A l \in ToSet(listenerList_) : l.id \in Ids
      BY ListedType DEF IndInv, Listener
    <3>2. \A e \in Envs : job[e].op \in AddOps => job[e].listener.id \in Ids
      BY JobTypes DEF IndInv, Listener
    <3>3. \A e \in Envs : job[e].op \in OffOps => job[e].removed \subseteq Ids
      BY JobTypes DEF IndInv
    <3> QED BY <3>1, <3>2, <3>3 DEF Owned
  <2> HIDE DEF Owners
  <2>3. refs = Owners
    BY <2>1, <2>2 DEF IndInv, RefsOwned
  <2> QED BY <2>3 DEF Owners
<1> QED BY <1>1, Invariance, PTL

\* Several listeners, of several envs, share the record of the first of them;
\* none of them loses it to the off of another.
THEOREM ListenersStayRecorded == Spec => []EveryListenerRecorded
<1>1. IndInv => EveryListenerRecorded
  <2> SUFFICES ASSUME IndInv, ~serviceDied, NEW l \in ToSet(listenerList_),
                      SlotIsRecorded(l.slotId, AppToken)
               PROVE  \E r \in records : r.key = Key(l)
    BY DEF EveryListenerRecorded
  <2>1. l \in Listener /\ Wanted(l)
    BY ListedType DEF IndInv, Wanted
  <2> QED BY <2>1 DEF IndInv, RecordsFollow, Recorded
<1> QED BY <1>1, Invariance, PTL

\* off and the end of an env remove every record they leave without a listener,
\* unless the removal fails.
THEOREM RecordsAreWanted == Spec => []NoStrayRecord
<1>1. IndInv => NoStrayRecord
  <2> SUFFICES ASSUME IndInv, operatorMutex_ = None, NEW r \in records, r.key \notin stray
               PROVE  CheckEventTypeExist(listenerList_, r.key, None)
    BY DEF NoStrayRecord, MutexFree
  <2>1. \A e \in Envs : job[e].op \notin LockedOps
    BY NapiAssumption DEF IndInv, MutexOwner
  <2>2. ~ToRemove(r.key)
    BY <2>1 DEF ToRemove, LockedOps
  <2>3. PICK l \in Listener : Wanted(l) /\ Key(l) = r.key
    BY <2>2 DEF IndInv, RecordsFollow
  <2>4. l \in ToSet(listenerList_)
    BY <2>1, <2>3 DEF Wanted, LockedOps
  <2> QED BY <2>3, <2>4 DEF CheckEventTypeExist
<1> QED BY <1>1, Invariance, PTL

\* A function is called only while its listener is in the list and its
\* reference lives: what binder, the handler's queue and uv still carry when off
\* takes a listener out never reaches it.
THEOREM OffSilences == Spec => NoCallAfterOff
<1> DEFINE Called == \A e \in Envs : calling'[e] \notin {calling[e], NoListener}
                         => calling'[e] \in Ids_of(listenerList_) /\ calling'[e] \in refs
<1>1. ASSUME IndInv, NEW e \in Envs, NEW w \in works[e], WorkUpdated(e, w)
      PROVE  Called
  <2>1. calling' = [calling EXCEPT ![e] = w.listener.id] /\ calling \in [Envs -> Ids \cup {NoListener}]
    BY <1>1 DEF WorkUpdated, IndInv, TypeInv
  <2>2. w.listener.id \notin isDeleting
    BY <1>1 DEF WorkUpdated, Dropped
  <2>3. PICK l \in ToSet(listenerList_) : l.id = w.listener.id
    BY <1>1, <2>2 DEF IndInv, WorksKnown
  <2>4. w.listener.id \in Ids
    BY <1>1 DEF IndInv, TypeInv, Listener
  <2>5. w.listener.id \in Ids_of(listenerList_) /\ w.listener.id \in refs
    BY <1>1, <2>3, <2>4 DEF Ids_of, IndInv, RefsOwned, Owned
  <2> QED BY <2>1, <2>5
<1>2. ASSUME IndInv, NEW e \in Envs, FunctionReturns(e)
      PROVE  Called
  <2>1. calling' = [calling EXCEPT ![e] = NoListener] /\ calling \in [Envs -> Ids \cup {NoListener}]
    BY <1>2 DEF FunctionReturns, IndInv, TypeInv
  <2> QED BY <2>1
<1>3. ASSUME UNCHANGED calling
      PROVE  Called
  BY <1>3
<1>4. IndInv /\ [Next]_vars => Called \/ UNCHANGED vars
  <2> SUFFICES ASSUME IndInv, Next PROVE Called
    OBVIOUS
  <2> HIDE DEF Called
  <2>1. ASSUME NEW e \in Envs, UvStep(e) \/ FunctionReturns(e) PROVE Called
    <3>1. ASSUME NEW w \in works[e], WorkDropped(e, w) PROVE Called
      BY <3>1, <1>3 DEF WorkDropped
    <3> QED BY <2>1, <3>1, <1>1, <1>2 DEF UvStep
  <2>2. ASSUME NEW e \in Envs, NEW c \in app.onCalls,
               OnWithoutSim(e, c) \/ OnRejected(e, c) \/ OnAppend(e, c) \/ OnCallsService(e, c)
        PROVE  Called
    BY <2>2, <1>3 DEF OnWithoutSim, OnRejected, OnAppend, OnCallsService, OnAccepted
  <2>3. ASSUME NEW e \in Envs, NEW c \in app.offCalls, Off(e, c) \/ OffNothing(e, c)
        PROVE  Called
    BY <2>3, <1>3 DEF Off, OffNothing
  <2>4. ASSUME NEW e \in Envs, UnRegisterAllListener(e) \/ TeardownNothing(e) \/ JobStep(e)
        PROVE  Called
    BY <2>4, <1>3 DEF UnRegisterAllListener, TeardownNothing, JobStep, ServiceAdds, OnReturns,
       OnFails, ServiceRemoves, RemoveFails, OffUnlocks, OffCallback, TeardownEnds
  <2>5. CASE \/ \E u \in app.updates : ServiceUpdate(u)
             \/ \E o \in Ids : ObserverSendsEvent(o)
             \/ ProcessEvent \/ ProcessEventFails \/ ServiceDies \/ DefaultSlotChanges
    BY <2>5, <1>3 DEF ServiceUpdate, ObserverSendsEvent, ProcessEvent, ProcessEventFails,
       ServiceDies, DefaultSlotChanges
  <2> QED BY <2>1, <2>2, <2>3, <2>4, <2>5 DEF Next
<1>5. IndInv /\ [Next]_vars =>
         [\A e \in Envs : calling'[e] \notin {calling[e], NoListener}
              => /\ calling'[e] \in Ids_of(listenerList_)
                 /\ calling'[e] \in refs]_vars
  BY <1>4
<1> HIDE DEF Called
<1> QED BY <1>5, Invariance, PTL DEF Spec, NoCallAfterOff
==============================================================================
