---------------------------- MODULE NapiListeners ----------------------------
(***************************************************************************)
(* The JavaScript front end inside one application process:                *)
(* observer.on / observer.off (napi_state_registry.cpp), the listener list *)
(* of EventListenerHandler, and the way a state change takes from the      *)
(* service to a JavaScript function:                                       *)
(*                                                                         *)
(*   service --binder--> NapiTelephonyObserver --SendEvent--> the handler's *)
(*   own thread --uv_queue_work--> the JavaScript thread of the listener   *)
(*                                                                         *)
(* Each napi_env has one JavaScript thread.  operatorMutex_ is static: all *)
(* threads share it, and a thread keeps it while it waits for the service. *)
(* The service is seen only through the records it keeps for this process; *)
(* StateRegistry models its inside.                                        *)
(***************************************************************************)
EXTENDS TelephonyTypes, Lists, Sequences, FiniteSets, SequencesExt

CONSTANTS
    Envs,           \* the napi_envs of the process
    Callbacks,      \* the JavaScript functions it passes
    Apps,           \* the applications, each on its device: see App
    AppToken,       \* the token type of the application
    MaxOns          \* bound on the on calls of a behaviour

\* The slotId of a call that passes none, and the callback of such an off.
NoSlot == -100
NoCallback == "none"
None == "none"
NoJob == [op |-> "none"]
NoListener == 0

\* The on... calls an application makes, [api, type, slotId, callback], its
\* off... calls, [api, type, callback], the changes producers report meanwhile,
\* [type, slotId], the slots of the device, the values of its default data slot,
\* and the bounds: how many envs, calls, changes, switches of that slot, faults.
App ==
    {"onCalls", "offCalls", "updates", "simSlots", "dataSlots", "envs",
     "maxOns", "maxOffs", "maxUpdates", "maxSwitches", "maxFaults"}

ASSUME NapiAssumption ==
    /\ None \notin Envs /\ NoCallback \notin Callbacks
    /\ MaxOns \in Nat /\ AppToken \in TokenType
    /\ \A a \in Apps :
          /\ DOMAIN a = App
          /\ \A c \in a.onCalls :
                c.type \in ObserverMask /\ c.slotId \in Int /\ c.callback \in Callbacks
          /\ \A c \in a.offCalls :
                c.type \in ObserverMask /\ c.callback \in Callbacks \cup {NoCallback}
          /\ \A u \in a.updates : u.type \in ObserverMask /\ u.slotId \in Int
          /\ a.dataSlots # {} /\ a.dataSlots \subseteq Nat
          /\ {a.simSlots, a.maxOffs, a.maxUpdates, a.maxSwitches, a.maxFaults} \subseteq Nat
          /\ a.maxOns \in 0 .. MaxOns /\ a.envs \in 1 .. Cardinality(Envs)

VARIABLES
    listenerList_,  \* EventListenerHandler::listenerList_
    operatorMutex_, \* the env whose JavaScript thread holds it, or None
    refs,           \* the napi_refs that on created and nobody deleted
    isDeleting,     \* the listeners whose shared isDeleting flag is set
    job,            \* job[e]: the on/off call the JavaScript thread of e is in
    calling,        \* calling[e]: the listener whose function runs on e, or NoListener
    alive,          \* the envs that are not torn down
    records,        \* the service's records of this process
    mail,           \* mail[o]: one-way binder calls on the way to observer o
    events,         \* the queue of the handler's EventRunner
    works,          \* works[e]: uv works queued to the loop of e
    app,            \* the application, which stays the same
    defaultSlot,    \* CellularDataClient::GetDefaultCellularDataSlotId
    ons, offs, updates, switches, faults,  \* counters, bounded
    serviceDied, stray,    \* history: the service died; records off could not remove
    heard           \* history: <<listener, update>> pairs that reached JavaScript

device == <<app, defaultSlot>>
counters == <<ons, offs, updates, switches, faults>>
history == <<serviceDied, stray, heard>>
vars == <<listenerList_, operatorMutex_, refs, isDeleting, job, calling, alive, records,
          mail, events, works, app, defaultSlot, counters, history>>

SIM_SLOT_COUNT == app.simSlots

-----------------------------------------------------------------------------
(* Data. *)

\* A listener is known by the number of the on call that made it: its napi_ref
\* and its isDeleting flag are made there and shared by all its copies.
Ids == 1 .. MaxOns

Listener ==
    [id : Ids, env : Envs, eventType : ObserverMask, slotId : Int, callback : Callbacks]

\* A record, reduced to its key and to the observer object it calls, which is
\* known by the on call that made it.
Key(l) == [type |-> l.eventType, slotId |-> l.slotId]

\* An event carries the number of its update; a replay the negated number of
\* the registration that asked for it.
Events == [type : ObserverMask, slotId : Int, update : Int, observer : Ids]

CallTypes == {"CALL_STATE", "CALL_STATE_EX", "CCALL_STATE", "VOIP_CALL_STATE"}

\* ENABLE_ON_DEFAULT_DATA_EVENT_SET
DataTypes == {"DATA_CONNECTION_STATE", "DATA_FLOW"}

Ids_of(list) == {l.id : l \in ToSet(list)}

-----------------------------------------------------------------------------
(* The arguments of on and off. *)

DEFAULT_SIM_SLOT_ID == 0

\* The slot of an on call that passes none depends on the type, and on the
\* entry point: on("cCallStateChange") means slot 0, onCCallStateChange all.
SlotArgument(c) ==
    CASE c.slotId # NoSlot -> c.slotId
      [] c.slotId = NoSlot /\ c.api # "on" -> ALL_SLOTS
      [] OTHER -> IF c.type \in {"CALL_STATE", "CALL_STATE_EX", "VOIP_CALL_STATE"}
                  THEN ALL_SLOTS
                  ELSE IF c.type \in DataTypes THEN SIM_SLOT_ID_FOR_DEFAULT_CONN_EVENT
                       ELSE DEFAULT_SIM_SLOT_ID

\* One slot more than the device has, for VSim.
IsValidSlotIdEx_AllSlots(type, slotId) ==
    slotId \in (ALL_SLOTS .. SIM_SLOT_COUNT) \cup {SIM_SLOT_ID_FOR_DEFAULT_CONN_EVENT}
IsValidSlotIdEx(type, slotId) ==
    \/ /\ slotId >= IF type \in CallTypes THEN ALL_SLOTS ELSE DEFAULT_SIM_SLOT_ID
       /\ slotId < SIM_SLOT_COUNT + 1
    \/ slotId = SIM_SLOT_ID_FOR_DEFAULT_CONN_EVENT

\* offCCallStateChange and offVoIPStateChange accept a function and ignore it.
CallbackArgument(c) ==
    IF c.api \in {"offCCallStateChange", "offVoIPStateChange"} THEN NoCallback ELSE c.callback

-----------------------------------------------------------------------------
(* The listener list. *)

SameListener(l, m) ==
    /\ l.env = m.env
    /\ l.slotId = m.slotId
    /\ l.eventType = m.eventType
    /\ l.callback = m.callback

CheckEventTypeExist_OwnEnv(list, key, e) ==
    \E l \in ToSet(list) : Key(l) = key /\ l.env = e
CheckEventTypeExist(list, key, e) == \E l \in ToSet(list) : Key(l) = key

\* CheckEventListenerRegister
CheckEventListenerRegister(l) ==
    IF \E m \in ToSet(listenerList_) : SameListener(l, m) THEN "SAME"
    ELSE IF CheckEventTypeExist(listenerList_, Key(l), l.env) THEN "SLOTID_AND_EVENTTYPE_SAME"
         ELSE "DIFF"

\* The listeners RemoveEventListenerRegister takes out.
OffMatches(l, e, c) ==
    /\ l.env = e
    /\ l.eventType = c.type
    /\ CallbackArgument(c) \in {NoCallback, l.callback}

Removed(e, c) == {l \in ToSet(listenerList_) : OffMatches(l, e, c)}
Rest(gone) == Kept(listenerList_, ToSet(listenerList_) \ gone)

\* The keys RemoveStateObserver is called for: those no listener is left of.
FreedKeys_OnePerSlot(rest, gone, e) ==
    LET free == {k \in {Key(l) : l \in gone} : ~CheckEventTypeExist(rest, k, e)}
    IN {CHOOSE k \in free : k.slotId = s : s \in {k.slotId : k \in free}}
FreedKeys(rest, gone, e) == {k \in {Key(l) : l \in gone} : ~CheckEventTypeExist(rest, k, e)}

-----------------------------------------------------------------------------
(* The mutex. *)

Idle(e) == e \in alive /\ job[e] = NoJob

Lock(e) == operatorMutex_ = None /\ operatorMutex_' = e
Unlock == operatorMutex_' = None
MutexFree == operatorMutex_ = None

\* A thread that waits for AddStateObserver keeps the mutex.
HeldDuringAdd_Released(e) == MutexFree /\ UNCHANGED operatorMutex_
HeldDuringAdd(e) == Lock(e)

-----------------------------------------------------------------------------
(* observer.on *)

NewListener(e, c) ==
    [id |-> ons + 1, env |-> e, eventType |-> c.type, slotId |-> SlotArgument(c),
     callback |-> c.callback]

\* The part before NativeOn: a reference to the function is made.
MakeRef(e) ==
    /\ Idle(e)
    /\ ons < app.maxOns
    /\ ons' = ons + 1

NoSimCard(c) == SIM_SLOT_COUNT = 0 /\ c.type \notin CallTypes

\* On a device without SIM cards the call succeeds and the reference is kept.
OnWithoutSim(e, c) ==
    /\ MakeRef(e)
    /\ NoSimCard(c)
    /\ refs' = refs \cup {ons + 1}
    /\ UNCHANGED <<listenerList_, operatorMutex_, isDeleting, job, calling, alive, records,
                   mail, events, works, device, offs, updates, switches, faults, history>>

\* OnCallback deletes the reference of a call that failed.
RefsAfterFailedOn_Kept(id) == refs \cup {id}
RefsAfterFailedOn(id) == refs \ {id}

\* An invalid slot, and a listener that is already registered, are errors.
OnRejected(e, c) ==
    /\ MakeRef(e)
    /\ ~NoSimCard(c)
    /\ \/ ~IsValidSlotIdEx(c.type, SlotArgument(c))
       \/ /\ MutexFree
          /\ CheckEventListenerRegister(NewListener(e, c)) = "SAME"
    /\ refs' = RefsAfterFailedOn(ons + 1)
    /\ UNCHANGED <<listenerList_, operatorMutex_, isDeleting, job, calling, alive, records,
                   mail, events, works, device, offs, updates, switches, faults, history>>

OnAccepted(e, c) ==
    /\ MakeRef(e)
    /\ ~NoSimCard(c)
    /\ IsValidSlotIdEx(c.type, SlotArgument(c))
    /\ refs' = refs \cup {ons + 1}
    /\ UNCHANGED <<isDeleting, calling, alive, records, mail, events, works, device,
                   offs, updates, switches, faults, history>>

\* Another listener has the same slot and type: no IPC, and no replay.
OnAppend(e, c) ==
    /\ OnAccepted(e, c)
    /\ MutexFree
    /\ CheckEventListenerRegister(NewListener(e, c)) = "SLOTID_AND_EVENTTYPE_SAME"
    /\ listenerList_' = Append(listenerList_, NewListener(e, c))
    /\ UNCHANGED <<operatorMutex_, job>>

\* The first listener of a slot and type registers an observer.
OnCallsService(e, c) ==
    /\ OnAccepted(e, c)
    /\ HeldDuringAdd(e)
    /\ CheckEventListenerRegister(NewListener(e, c)) = "DIFF"
    /\ job' = [job EXCEPT ![e] = [op |-> "add", listener |-> NewListener(e, c)]]
    /\ UNCHANGED listenerList_

\* The isUpdate flag RegisterEventListener passes.
IsUpdate(type) ==
    type \in {"CALL_STATE", "SIM_STATE", "CALL_STATE_EX", "CCALL_STATE", "SIM_ACTIVE_STATE"}

\* RegisterStateChange in the service, seen from here: a key it already has
\* keeps its old observer, and the replay goes to the observer of the record.
ServiceAdds(e) ==
    /\ job[e].op = "add"
    /\ LET l == job[e].listener
           old == {r \in records : r.key = Key(l)}
           record == IF old = {} THEN [key |-> Key(l), observer |-> l.id]
                     ELSE CHOOSE r \in old : TRUE
       IN IF SlotIsRecorded(l.slotId, AppToken)
          THEN /\ records' = records \cup {record}
               /\ mail' = IF IsUpdate(l.eventType)
                          THEN [mail EXCEPT ![record.observer] = Append(@,
                                   [type |-> l.eventType, slotId |-> l.slotId,
                                    update |-> -l.id, observer |-> record.observer])]
                          ELSE mail
          ELSE UNCHANGED <<records, mail>>
    /\ job' = [job EXCEPT ![e].op = "added"]
    /\ UNCHANGED <<listenerList_, operatorMutex_, refs, isDeleting, calling, alive, events,
                   works, device, counters, history>>

\* push_back, and the lock goes.
OnReturns(e) ==
    /\ job[e].op = "added"
    /\ listenerList_' = Append(listenerList_, job[e].listener)
    /\ job' = [job EXCEPT ![e] = NoJob]
    /\ Unlock
    /\ UNCHANGED <<refs, isDeleting, calling, alive, records, mail, events, works,
                   device, counters, history>>

\* A permission is missing, or the service cannot be reached.
OnFails(e) ==
    /\ job[e].op = "add"
    /\ faults < app.maxFaults
    /\ faults' = faults + 1
    /\ refs' = RefsAfterFailedOn(job[e].listener.id)
    /\ job' = [job EXCEPT ![e] = NoJob]
    /\ Unlock
    /\ UNCHANGED <<listenerList_, isDeleting, calling, alive, records, mail, events, works,
                   device, ons, offs, updates, switches, history>>

-----------------------------------------------------------------------------
(* observer.off, and the end of an env. *)

\* Takes the listeners out under the mutex; the references they hold are
\* deleted after the lock is gone (off) or at once (UnRegisterAllListener).
RemoveListeners(e, gone, op) ==
    LET rest == Rest(gone)
    IN /\ Lock(e)
       /\ listenerList_ # <<>>
       /\ listenerList_' = rest
       /\ isDeleting' = isDeleting \cup {l.id : l \in gone}
       /\ job' = [job EXCEPT ![e] = [op |-> op, keys |-> FreedKeys(rest, gone, e),
                                     removed |-> {l.id : l \in gone}]]

Off(e, c) ==
    /\ Idle(e)
    /\ offs < app.maxOffs
    /\ offs' = offs + 1
    /\ RemoveListeners(e, Removed(e, c), "off")
    /\ UNCHANGED <<refs, calling, alive, records, mail, events, works, device,
                   ons, updates, switches, faults, history>>

\* The list is empty: success.
OffNothing(e, c) ==
    /\ Idle(e)
    /\ offs < app.maxOffs
    /\ offs' = offs + 1
    /\ MutexFree
    /\ listenerList_ = <<>>
    /\ UNCHANGED <<listenerList_, operatorMutex_, refs, isDeleting, job, calling, alive,
                   records, mail, events, works, device, ons, updates, switches,
                   faults, history>>

\* RemoveStateObserver for the next key, in the order of std::set<int32_t>;
\* a key the service does not have is an error that changes nothing.
NextKey(e) ==
    CHOOSE k \in job[e].keys : \A j \in job[e].keys : k.slotId <= j.slotId

Removing(e) == job[e].op \in {"off", "teardown"} /\ job[e].keys # {}

KeyDone(e) == job' = [job EXCEPT ![e].keys = @ \ {NextKey(e)}]

ServiceRemoves(e) ==
    /\ Removing(e)
    /\ records' = {r \in records : r.key # NextKey(e)}
    /\ KeyDone(e)
    /\ UNCHANGED <<listenerList_, operatorMutex_, refs, isDeleting, calling, alive, mail,
                   events, works, device, counters, history>>

\* The service cannot be reached, or refuses: the record stays, the loop goes on.
RemoveFails(e) ==
    /\ Removing(e)
    /\ faults < app.maxFaults
    /\ faults' = faults + 1
    /\ stray' = stray \cup {NextKey(e)}
    /\ KeyDone(e)
    /\ UNCHANGED <<listenerList_, operatorMutex_, refs, isDeleting, calling, alive, records,
                   mail, events, works, device, ons, offs, updates, switches,
                   serviceDied, heard>>

OffUnlocks(e) ==
    /\ job[e].op = "off" /\ job[e].keys = {}
    /\ job' = [job EXCEPT ![e].op = "offCallback"]
    /\ Unlock
    /\ UNCHANGED <<listenerList_, refs, isDeleting, calling, alive, records, mail, events,
                   works, device, counters, history>>

OffCallback(e) ==
    /\ job[e].op = "offCallback"
    /\ refs' = refs \ job[e].removed
    /\ job' = [job EXCEPT ![e] = NoJob]
    /\ UNCHANGED <<listenerList_, operatorMutex_, isDeleting, calling, alive, records, mail,
                   events, works, device, counters, history>>

\* The finalizer of the module object, when the env is torn down.
UnRegisterAllListener(e) ==
    /\ Idle(e)
    /\ calling[e] = NoListener
    /\ LET gone == {l \in ToSet(listenerList_) : l.env = e}
       IN /\ RemoveListeners(e, gone, "teardown")
          /\ refs' = refs \ {l.id : l \in gone}
    /\ UNCHANGED <<calling, alive, records, mail, events, works, device, counters, history>>

TeardownNothing(e) ==
    /\ Idle(e)
    /\ calling[e] = NoListener
    /\ MutexFree
    /\ listenerList_ = <<>>
    /\ alive' = alive \ {e}
    /\ UNCHANGED <<listenerList_, operatorMutex_, refs, isDeleting, job, calling, records,
                   mail, events, works, device, counters, history>>

TeardownEnds(e) ==
    /\ job[e].op = "teardown" /\ job[e].keys = {}
    /\ job' = [job EXCEPT ![e] = NoJob]
    /\ alive' = alive \ {e}
    /\ Unlock
    /\ UNCHANGED <<listenerList_, refs, isDeleting, calling, records, mail, events, works,
                   device, counters, history>>

-----------------------------------------------------------------------------
(* From the service to JavaScript. *)

\* Whether UpdateXxx of the service calls the observer of a record.
ServiceCalls(r, u) ==
    /\ r.key.type = u.type
    /\ \/ r.key.slotId = u.slotId
       \/ u.type \in DataTypes /\ r.key.slotId = SIM_SLOT_ID_FOR_DEFAULT_CONN_EVENT
       \/ u.type \in {"ICC_ACCOUNT", "VOIP_CALL_STATE"}

\* A producer reports a change: one one-way call per record.
ServiceUpdate(u) ==
    /\ updates < app.maxUpdates
    /\ updates' = updates + 1
    /\ mail' = [o \in Ids |->
                   IF \E r \in records : r.observer = o /\ ServiceCalls(r, u)
                   THEN Append(mail[o], [type |-> u.type, slotId |-> u.slotId,
                                         update |-> updates + 1, observer |-> o])
                   ELSE mail[o]]
    /\ UNCHANGED <<listenerList_, operatorMutex_, refs, isDeleting, job, calling, alive,
                   records, events, works, device, ons, offs, switches, faults, history>>

\* NapiTelephonyObserver::OnXxxUpdated, on a binder thread.  The VoIP event
\* has no slot.
InfoSlot(m) == IF m.type = "VOIP_CALL_STATE" THEN ALL_SLOTS ELSE m.slotId

ObserverSendsEvent(o) ==
    /\ mail[o] # <<>>
    /\ mail' = [mail EXCEPT ![o] = Tail(@)]
    /\ events' = Append(events, [Head(mail[o]) EXCEPT !.slotId = InfoSlot(Head(mail[o]))])
    /\ UNCHANGED <<listenerList_, operatorMutex_, refs, isDeleting, job, calling, alive,
                   records, works, device, counters, history>>

IsNeedHandleCallbackUpdate(l, ev) ==
    /\ l.eventType = ev.type
    /\ \/ l.slotId = ev.slotId
       \/ /\ l.eventType \in DataTypes
          /\ l.slotId = SIM_SLOT_ID_FOR_DEFAULT_CONN_EVENT
          /\ ev.slotId = defaultSlot

\* HandleCallbackVoidUpdate serves the one event without a slot.
Handles(l, ev) ==
    IF ev.type = "ICC_ACCOUNT" THEN l.eventType = ev.type ELSE IsNeedHandleCallbackUpdate(l, ev)

Targets(ev) == Kept(listenerList_, {l \in ToSet(listenerList_) : Handles(l, ev)})

Queued(ls, ev) ==
    [e \in Envs |-> works[e] \cup {[listener |-> l, event |-> ev] : l \in {m \in ls : m.env = e}}]

\* HandleCallbackInfoUpdate / HandleCallbackVoidUpdate, on the handler's thread.
ProcessEvent ==
    /\ MutexFree
    /\ events # <<>>
    /\ events' = Tail(events)
    /\ works' = Queued(ToSet(Targets(Head(events))), Head(events))
    /\ UNCHANGED <<listenerList_, operatorMutex_, refs, isDeleting, job, calling, alive,
                   records, mail, device, counters, history>>

\* The loop of an env cannot be had, or does not accept the work: the
\* listeners after it in the list are not told either.
ProcessEventFails ==
    /\ MutexFree
    /\ events # <<>>
    /\ faults < app.maxFaults
    /\ faults' = faults + 1
    /\ events' = Tail(events)
    /\ \E n \in 1 .. Len(Targets(Head(events))) :
          works' = Queued({Targets(Head(events))[i] : i \in 1 .. n - 1}, Head(events))
    /\ UNCHANGED <<listenerList_, operatorMutex_, refs, isDeleting, job, calling, alive,
                   records, mail, device, ons, offs, updates, switches, history>>

\* WorkUpdated drops the work of a listener that off took out.
Dropped_Never(l) == FALSE
Dropped(l) == l.id \in isDeleting

\* NapiReturnToJS takes the function out of the reference, unlocks, calls it.
UnlockBeforeCall_Missing(e) == MutexFree /\ operatorMutex_' = e
UnlockBeforeCall(e) == MutexFree /\ UNCHANGED operatorMutex_

\* uv's pool threads may complete works in any order.
WorkUpdated(e, w) ==
    /\ job[e] = NoJob /\ calling[e] = NoListener
    /\ ~Dropped(w.listener)
    /\ UnlockBeforeCall(e)
    /\ works' = [works EXCEPT ![e] = @ \ {w}]
    /\ calling' = [calling EXCEPT ![e] = w.listener.id]
    /\ heard' = heard \cup {<<w.listener.id, w.event.update>>}
    /\ UNCHANGED <<listenerList_, refs, isDeleting, job, alive, records, mail, events,
                   device, counters, serviceDied, stray>>

WorkDropped(e, w) ==
    /\ job[e] = NoJob /\ calling[e] = NoListener
    /\ MutexFree
    /\ Dropped(w.listener)
    /\ works' = [works EXCEPT ![e] = @ \ {w}]
    /\ UNCHANGED <<listenerList_, operatorMutex_, refs, isDeleting, job, calling, alive,
                   records, mail, events, device, counters, history>>

\* The function may have called on and off; then it returns.
FunctionReturns(e) ==
    /\ job[e] = NoJob
    /\ calling[e] # NoListener
    /\ calling' = [calling EXCEPT ![e] = NoListener]
    /\ UNCHANGED <<listenerList_, operatorMutex_, refs, isDeleting, job, alive, records,
                   mail, events, works, device, counters, history>>

-----------------------------------------------------------------------------
(* The world. *)

\* The service process ends and is started again without its records.
ServiceDies ==
    /\ faults < app.maxFaults
    /\ faults' = faults + 1
    /\ records' = {}
    /\ serviceDied' = TRUE
    /\ UNCHANGED <<listenerList_, operatorMutex_, refs, isDeleting, job, calling, alive,
                   mail, events, works, device, ons, offs, updates, switches, stray, heard>>

DefaultSlotChanges ==
    /\ switches < app.maxSwitches
    /\ switches' = switches + 1
    /\ defaultSlot' \in app.dataSlots \ {defaultSlot}
    /\ UNCHANGED <<listenerList_, operatorMutex_, refs, isDeleting, job, calling, alive,
                   records, mail, events, works, app, ons, offs, updates, faults, history>>

-----------------------------------------------------------------------------

Init ==
    /\ listenerList_ = <<>> /\ operatorMutex_ = None
    /\ refs = {} /\ isDeleting = {}
    /\ job = [e \in Envs |-> NoJob] /\ calling = [e \in Envs |-> NoListener]
    /\ records = {}
    /\ mail = [o \in Ids |-> <<>>] /\ events = <<>> /\ works = [e \in Envs |-> {}]
    /\ app \in Apps /\ defaultSlot \in app.dataSlots
    /\ alive \in {S \in SUBSET Envs : Cardinality(S) = app.envs}
    /\ ons = 0 /\ offs = 0 /\ updates = 0 /\ switches = 0 /\ faults = 0
    /\ serviceDied = FALSE /\ stray = {} /\ heard = {}

\* What a JavaScript thread does in a call it has begun.
JobStep(e) ==
    \/ ServiceAdds(e) \/ OnReturns(e) \/ OnFails(e)
    \/ ServiceRemoves(e) \/ RemoveFails(e) \/ OffUnlocks(e) \/ OffCallback(e) \/ TeardownEnds(e)

UvStep(e) == \E w \in works[e] : WorkUpdated(e, w) \/ WorkDropped(e, w)

Next ==
    \/ \E e \in Envs :
          \/ \E c \in app.onCalls : \/ OnWithoutSim(e, c) \/ OnRejected(e, c)
                                \/ OnAppend(e, c) \/ OnCallsService(e, c)
          \/ \E c \in app.offCalls : Off(e, c) \/ OffNothing(e, c)
          \/ UnRegisterAllListener(e) \/ TeardownNothing(e)
          \/ JobStep(e) \/ UvStep(e) \/ FunctionReturns(e)
    \/ \E u \in app.updates : ServiceUpdate(u)
    \/ \E o \in Ids : ObserverSendsEvent(o)
    \/ ProcessEvent \/ ProcessEventFails
    \/ ServiceDies \/ DefaultSlotChanges

Spec == Init /\ [][Next]_vars

\* The service answers, binder and the EventRunner serve their queues, uv and
\* the JavaScript threads run what is queued, JavaScript functions return.
FairSpec ==
    /\ Spec
    /\ \A e \in Envs : WF_vars(JobStep(e)) /\ SF_vars(UvStep(e)) /\ WF_vars(FunctionReturns(e))
    /\ \A o \in Ids : WF_vars(ObserverSendsEvent(o))
    /\ SF_vars(ProcessEvent)

-----------------------------------------------------------------------------
(* Properties. *)

\* The slots a listener may have: all slots (-1) is for call events only.
ListenerSlots(type) ==
    ((IF type \in CallTypes THEN -1 ELSE 0) .. SIM_SLOT_COUNT) \cup {SIM_SLOT_ID_FOR_DEFAULT_CONN_EVENT}

\* The variables have the types of the members they stand for, and the list
\* holds no listener whose slot on should have refused.
TypeOK ==
    /\ listenerList_ \in Seq(Listener)
    /\ \A l \in ToSet(listenerList_) : l.slotId \in ListenerSlots(l.eventType)
    /\ operatorMutex_ \in Envs \cup {None}
    /\ refs \subseteq Ids /\ isDeleting \subseteq Ids
    /\ \A e \in Envs : \/ job[e] = NoJob
                       \/ job[e].op \in {"add", "added"} /\ job[e].listener \in Listener
                       \/ /\ job[e].op \in {"off", "offCallback", "teardown"}
                          /\ job[e].removed \subseteq Ids
    /\ calling \in [Envs -> Ids \cup {NoListener}]
    /\ alive \subseteq Envs
    /\ \A r \in records : r.observer \in Ids
    /\ mail \in [Ids -> Seq(Events)]
    /\ events \in Seq(Events)
    /\ \A e \in Envs : \A w \in works[e] : w.listener \in Listener /\ w.event \in Events
    /\ app \in Apps /\ defaultSlot \in app.dataSlots

\* Once off has taken a listener out, its function is not called any more,
\* whatever was still on the way in binder, in the handler's queue or in uv.
NoCallAfterOff ==
    [][\A e \in Envs : calling'[e] \notin {calling[e], NoListener}
                          => /\ calling'[e] \in Ids_of(listenerList_)
                             /\ calling'[e] \in refs]_vars

\* Every napi_ref has exactly one owner that will delete it: the listener in
\* the list, or the on / off call that is still running.  None is leaked, and
\* no listener is left with a deleted one.
RefsHaveOneOwner ==
    SIM_SLOT_COUNT > 0 =>
        refs = Ids_of(listenerList_)
               \cup {job[e].listener.id : e \in {f \in Envs : job[f].op \in {"add", "added"}}}
               \cup UNION {job[e].removed : e \in {f \in Envs : job[f].op \in {"off", "offCallback"}}}

\* A listener for which no observer was registered anew still has one: as long
\* as the service lives, each listener in the list has a record in the service
\* (unless the service drops its slot silently), though several listeners of
\* several envs share it and any of them may have been taken out.
EveryListenerRecorded ==
    (MutexFree /\ ~serviceDied) =>
        \A l \in ToSet(listenerList_) :
            SlotIsRecorded(l.slotId, AppToken) => \E r \in records : r.key = Key(l)

\* Conversely, when no call is running the service keeps no record that no
\* listener wants, other than those whose removal failed.
NoStrayRecord ==
    MutexFree =>
        \A r \in records : \/ r.key \in stray
                           \/ CheckEventTypeExist(listenerList_, r.key, None)

\* A thread that runs a JavaScript function does not hold operatorMutex_, unless
\* that function is inside a nested on or off: the nested call would otherwise
\* wait for its own thread.
NoLockWhileCalling ==
    \A e \in Envs : calling[e] # NoListener /\ job[e] = NoJob => operatorMutex_ # e

\* The listeners whose on call has its record but is not in the list yet.
Registered == {job[e].listener : e \in {f \in Envs : job[f].op = "added"}}

\* Update n is in a one-way call that listener id should be told of.
OnTheWay(id, n) ==
    \E l \in ToSet(listenerList_) \cup Registered :
        /\ l.id = id
        /\ \E o \in Ids : \E i \in 1 .. Len(mail[o]) :
              /\ mail[o][i].update = n
              /\ Handles(l, [mail[o][i] EXCEPT !.slotId = InfoSlot(mail[o][i])])

\* What the service sent reaches the function: an event on the way that concerns
\* a listener, the replay its own on call asked for included, is passed to its
\* function unless the listener is taken out, uv refuses work or, for a listener
\* of the default data slot, that slot changes in between.
EventsArrive ==
    \A id \in Ids, n \in UNION {(-a.maxOns .. a.maxUpdates) \ {0} : a \in Apps},
       d \in UNION {a.dataSlots : a \in Apps} :
        (OnTheWay(id, n) /\ defaultSlot = d)
            ~> (<<id, n>> \in heard \/ id \in isDeleting \/ faults > 0 \/ defaultSlot # d)
==============================================================================
