--------------------------- MODULE FrontEndService ---------------------------
(***************************************************************************)
(* What the Cangjie and the ANI front end of one application process share: *)
(* the threads of the application, the calls they are in, and the service, *)
(* seen only through its records of this process and the one-way calls it  *)
(* sends (StateRegistry models its inside).                                *)
(*                                                                         *)
(* A record is found by slot, mask, token and process.  The front ends of  *)
(* a process have the same token and process, so a record of one is found  *)
(* by the calls of the other.                                              *)
(***************************************************************************)
EXTENDS TelephonyTypes, Lists, Sequences, FiniteSets, SequencesExt

CONSTANTS
    AppThreads,     \* the threads of the application
    EventRunner,    \* the thread of the Cangjie ObserverEventHandler
    Functions,      \* the functions the application passes
    Apps,           \* the applications, each on its device: see App
    AppToken,       \* the token type of the application
    MaxOns          \* bound on the on calls of a behaviour

Threads == AppThreads \cup {EventRunner}
Fronts == {"cj", "ani"}
NoFunction == "none"
NoThread == "none"
NoJob == [op |-> "none"]

\* The on calls an application makes, [front, type, slotId, func], its off
\* calls, [front, type, func], the changes producers report meanwhile, [type,
\* slotId, val], the threads that call, the SIM slots of the device, and how
\* much of each may happen.
App ==
    {"onCalls", "offCalls", "updates", "threads", "simSlots", "maxOns", "maxOffs", "maxUpdates",
     "maxFaults"}

ASSUME FrontEndAssumption ==
    /\ EventRunner \notin AppThreads /\ NoThread \notin Threads
    /\ NoFunction \notin Functions
    /\ MaxOns \in Nat /\ AppToken \in TokenType
    /\ \A a \in Apps :
          /\ DOMAIN a = App /\ a.threads \subseteq AppThreads
          /\ \A c \in a.onCalls :
                /\ c.front \in Fronts /\ c.type \in ObserverMask
                /\ c.slotId \in Int /\ c.func \in Functions
          /\ \A c \in a.offCalls : c.front \in Fronts /\ c.func \in Functions \cup {NoFunction}
          /\ \A u \in a.updates :
                /\ u.type \in ObserverMask /\ u.slotId \in Int /\ u.val \in Int
                /\ u.type = "CALL_STATE"
                      => u.val \in CALL_STATUS_UNKNOWN .. CALL_STATUS_ANSWERED
          /\ a.simSlots \in 0 .. MAX_SLOT_COUNT + 1
          /\ {a.maxOffs, a.maxUpdates, a.maxFaults} \subseteq Nat
          /\ a.maxOns \in 0 .. MaxOns

VARIABLES
    app,            \* the application, which stays the same
    job,            \* job[t]: the on/off call thread t is in
    records,        \* the service's records of this process
    callState_,     \* the call states the service replays
    mail,           \* mail[o]: one-way binder calls on the way to observer o
    ons, offs, updates, faults,  \* counters, bounded
    lost,           \* history: <<front, key>> without a record of its own
    heard           \* history: <<listener, update>> pairs that reached a function

counters == <<ons, offs, updates, faults>>
service == <<records, callState_, mail, lost>>
processVars == <<app, job, service, counters, heard>>

SIM_SLOT_COUNT == app.simSlots

-----------------------------------------------------------------------------
(* Data. *)

\* A listener and the observer object made for it are known by the number of
\* the on call.
Ids == 1 .. MaxOns

\* A call that passes no slot means slot 0.
DEFAULT_SIM_SLOT_ID == 0

Listener == [front : Fronts, id : Ids, type : ObserverMask, slotId : Int, func : Functions]

Key(l) == [type |-> l.type, slotId |-> l.slotId]

\* A one-way call carries the number of its update, or the negated number of
\* the registration whose replay it is.
Event == [front : Fronts, type : ObserverMask, slotId : Int, update : Int, val : Int]

CallTypes == {"CALL_STATE", "CALL_STATE_EX", "CCALL_STATE"}

\* A signal list without entries.
EmptyList == 0

\* The slots a call may be reported for.
CallSlots == -1 .. MAX_SLOT_COUNT + 1

\* What operator[] of the service reads before any call: 0, the active call, for
\* a slot its constructor did not fill in (in a build without VSim).
NoCalls ==
    [s \in CallSlots |->
        IF s = ALL_SLOTS \/ VerifySlotId(s, SIM_SLOT_COUNT) \/ (SIM_SLOT_COUNT = 0 /\ s = 0)
        THEN CALL_STATUS_UNKNOWN ELSE CALL_STATUS_ACTIVE]

\* What CheckEventListenerRegister of either front end answers.
RegisterStatus(list, l) ==
    IF \E m \in ToSet(list) : Key(m) = Key(l) /\ m.func = l.func THEN "SAME"
    ELSE IF \E m \in ToSet(list) : Key(m) = Key(l) THEN "SLOTID_AND_EVENTTYPE_SAME"
         ELSE "DIFF"

EventTypeExists(list, key) == \E l \in ToSet(list) : Key(l) = key

\* The listeners an off call takes out.
OffMatches(l, c) == l.type = c.type /\ c.func \in {NoFunction, l.func}

Removed(list, c) == {l \in ToSet(list) : OffMatches(l, c)}
Rest(list, c) == Kept(list, ToSet(list) \ Removed(list, c))

\* The keys no listener is left of; slots are visited in increasing order.
FreedKeys_All(list, c) == {Key(l) : l \in Removed(list, c)}
FreedKeys(list, c) ==
    {k \in {Key(l) : l \in Removed(list, c)} : ~EventTypeExists(Rest(list, c), k)}

NextKey(keys) == CHOOSE k \in keys : \A j \in keys : k.slotId <= j.slotId

-----------------------------------------------------------------------------
(* The calls of the application. *)

CallOn(t) ==
    /\ job[t] = NoJob
    /\ ons < app.maxOns
    /\ ons' = ons + 1
    /\ UNCHANGED <<app, service, offs, updates, faults, heard>>

CallOff(t, c) ==
    /\ job[t] = NoJob
    /\ offs < app.maxOffs
    /\ offs' = offs + 1
    /\ job' = [job EXCEPT ![t] = [op |-> "off", front |-> c.front, call |-> c]]
    /\ UNCHANGED <<app, service, ons, updates, faults, heard>>

Waits(t, op, front) == job[t].op = op /\ job[t].front = front

Goes(t, j) == job' = [job EXCEPT ![t] = j]
Adding(op, l) == [op |-> op, front |-> l.front, listener |-> l]

-----------------------------------------------------------------------------
(* The service. *)

\* RegisterStateChange: a key the service already has keeps its observer, of
\* whichever front end, and the replay goes to that observer.
AddStateObserver(l, isUpdate) ==
    LET old == {r \in records : r.key = Key(l)}
        record == IF old = {} THEN [key |-> Key(l), front |-> l.front, observer |-> l.id]
                  ELSE CHOOSE r \in old : TRUE
        own == SlotIsRecorded(l.slotId, AppToken) /\ record.front = l.front
        replay == [front |-> record.front, type |-> l.type, slotId |-> l.slotId,
                   update |-> -l.id, val |-> callState_[l.slotId]]
    IN /\ IF SlotIsRecorded(l.slotId, AppToken)
          THEN /\ records' = records \cup {record}
               /\ mail' = IF isUpdate
                          THEN [mail EXCEPT ![record.observer] = Append(@, replay)]
                          ELSE mail
          ELSE UNCHANGED <<records, mail>>
       /\ lost' = IF own THEN lost \ {<<l.front, Key(l)>>} ELSE lost \cup {<<l.front, Key(l)>>}
       /\ UNCHANGED callState_

\* UnregisterStateChange: whoever asks, the record of the key goes.
RemoveStateObserver(front, key) ==
    /\ records' = {r \in records : r.key # key}
    /\ lost' = lost \cup {<<r.front, key>> : r \in {s \in records : s.key = key /\ s.front # front}}
    /\ UNCHANGED <<callState_, mail>>

HasRecord(key) == \E r \in records : r.key = key

\* A permission is missing, or the service cannot be reached.
Fault ==
    /\ faults < app.maxFaults
    /\ faults' = faults + 1
    /\ UNCHANGED <<app, service, ons, offs, updates, heard>>

\* Whether UpdateXxx of the service calls the observer of a record.
ServiceCalls(r, u) ==
    /\ r.key.type \in IF u.type = "CALL_STATE" THEN CallTypes ELSE {u.type}
    /\ r.key.slotId = u.slotId \/ u.type = "ICC_ACCOUNT"

\* A producer reports a change: one one-way call per record.
ServiceUpdate(u) ==
    /\ updates < app.maxUpdates
    /\ updates' = updates + 1
    /\ callState_' = IF u.type = "CALL_STATE" THEN [callState_ EXCEPT ![u.slotId] = u.val]
                     ELSE callState_
    /\ mail' = [o \in Ids |->
                   LET called == {r \in records : r.observer = o /\ ServiceCalls(r, u)}
                   IN IF called = {} THEN mail[o]
                      ELSE LET r == CHOOSE r \in called : TRUE
                           IN Append(mail[o], [front |-> r.front, type |-> r.key.type,
                                               slotId |-> u.slotId, update |-> updates + 1,
                                               val |-> u.val])]
    /\ UNCHANGED <<app, job, records, lost, ons, offs, faults, heard>>

\* The service process ends and is started again without its records; the
\* front ends that hold listeners are not told.
ServiceDies(listening) ==
    /\ faults < app.maxFaults
    /\ faults' = faults + 1
    /\ records' = {}
    /\ callState_' = NoCalls
    /\ lost' = lost \cup listening
    /\ UNCHANGED <<app, job, mail, ons, offs, updates, heard>>

Deliver(o, front) ==
    /\ mail[o] # <<>>
    /\ Head(mail[o]).front = front
    /\ mail' = [mail EXCEPT ![o] = Tail(@)]
    /\ UNCHANGED <<app, job, records, callState_, lost, counters, heard>>

ProcessInit ==
    /\ app \in Apps
    /\ job = [t \in Threads |-> NoJob]
    /\ records = {} /\ callState_ = NoCalls
    /\ mail = [o \in Ids |-> <<>>]
    /\ ons = 0 /\ offs = 0 /\ updates = 0 /\ faults = 0
    /\ lost = {} /\ heard = {}
==============================================================================
