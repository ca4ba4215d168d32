--------------------------- MODULE CangjieListeners ---------------------------
(***************************************************************************)
(* The Cangjie front end: the FFI entry points, TelephonyObserverImpl, and *)
(* the ObserverEventHandler with its listener list.  A state change goes   *)
(*                                                                         *)
(*   service --binder--> FfiTelephonyObserver --SendEvent--> EventRunner,  *)
(*                                                                         *)
(* which copies the matching listeners under operatorMutex_, lets it go,   *)
(* and then tests isDeleting and calls the function for each of the copies. *)
(* The functions run on the EventRunner thread and may call on and off;    *)
(* other threads call on and off meanwhile.                                *)
(***************************************************************************)
EXTENDS FrontEndService

VARIABLES
    listenerList_,  \* ObserverEventHandler::listenerList_
    operatorMutex_, \* the thread that holds it, or NoThread
    isDeleting,     \* the listeners whose isDeleting flag is set
    events,         \* the queue of the EventRunner
    runner,         \* what the EventRunner thread is doing
    failed,         \* history: the keys whose removal failed
    late,           \* history: <<listener, update>> called after isDeleting was set
    offInCallback   \* history: listeners that off took out on the EventRunner thread

cjVars == <<listenerList_, operatorMutex_, isDeleting, events, runner, failed, late,
            offInCallback>>

\* The thread waits for events; otherwise pc is "test" (before the isDeleting
\* test of the first listener in todo), "call" (after it) or "in" the function.
RunnerIdle == [pc |-> "idle"]

-----------------------------------------------------------------------------
(* The FFI. *)

\* The events with FFI entry points.
CjTypes ==
    {"NETWORK_STATE", "SIGNAL_STRENGTHS", "CALL_STATE", "DATA_CONNECTION_STATE",
     "DATA_FLOW", "SIM_STATE", "ICC_ACCOUNT"}

ASSUME CjAssumption == \A a \in Apps : \A c \in a.onCalls : c.front = "cj" => c.type \in CjTypes

\* OnIccAccountInfoChange has no options: it always means slot 0.
CjSlotArgument_Passed(c) == c.slotId
CjSlotArgument(c) == IF c.type = "ICC_ACCOUNT" THEN DEFAULT_SIM_SLOT_ID ELSE c.slotId

\* One slot more than the device has, for VSim; -1 is for the call state.
CjIsValidSlotIdEx_TooMany(type, slotId) ==
    slotId >= ALL_SLOTS /\ slotId <= SIM_SLOT_COUNT + 1
CjIsValidSlotIdEx(type, slotId) ==
    /\ slotId >= IF type = "CALL_STATE" THEN ALL_SLOTS ELSE DEFAULT_SIM_SLOT_ID
    /\ slotId < SIM_SLOT_COUNT + 1

CjListener(c) ==
    [front |-> "cj", id |-> ons + 1, type |-> c.type, slotId |-> CjSlotArgument(c), func |-> c.func]

\* Threads of the application call at any time, the EventRunner in a function.
CjReady(t) == t \in app.threads \/ (t = EventRunner /\ runner.pc = "in")

\* The call fails, or succeeds without a listener where there is no SIM card.
CjOnWithoutEffect(t, c) ==
    /\ CjReady(t)
    /\ CallOn(t)
    /\ SIM_SLOT_COUNT = 0 \/ ~CjIsValidSlotIdEx(c.type, CjSlotArgument(c))
    /\ UNCHANGED <<job, cjVars>>

\* NativeOn goes on to RegisterEventListener.
CjOn(t, c) ==
    /\ CjReady(t)
    /\ CallOn(t)
    /\ SIM_SLOT_COUNT > 0
    /\ CjIsValidSlotIdEx(c.type, CjSlotArgument(c))
    /\ Goes(t, Adding("on", CjListener(c)))
    /\ UNCHANGED cjVars

CjOff(t, c) == CjReady(t) /\ CallOff(t, c) /\ UNCHANGED cjVars

-----------------------------------------------------------------------------
(* RegisterEventListener. *)

CjMutexFree == operatorMutex_ = NoThread

\* A thread that waits for the service keeps the mutex.
CjHeldDuringAdd_Released(t) == UNCHANGED operatorMutex_
CjHeldDuringAdd(t) == operatorMutex_' = t

RegisterEventListener(t) ==
    /\ Waits(t, "on", "cj")
    /\ CjMutexFree
    /\ LET l == job[t].listener
           status == RegisterStatus(listenerList_, l)
       IN \/ /\ status = "SAME"
             /\ Goes(t, NoJob)
             /\ UNCHANGED <<listenerList_, operatorMutex_>>
          \/ /\ status = "SLOTID_AND_EVENTTYPE_SAME"
             /\ listenerList_' = Append(listenerList_, l)
             /\ Goes(t, NoJob)
             /\ UNCHANGED operatorMutex_
          \/ /\ status = "DIFF"
             /\ Goes(t, Adding("add", l))
             /\ CjHeldDuringAdd(t)
             /\ UNCHANGED listenerList_
    /\ UNCHANGED <<app, service, counters, heard, isDeleting, events, runner, failed,
                   late, offInCallback>>

\* The isUpdate flag is set for the call state only.
CjServiceAdds(t) ==
    /\ Waits(t, "add", "cj")
    /\ AddStateObserver(job[t].listener, job[t].listener.type = "CALL_STATE")
    /\ Goes(t, Adding("added", job[t].listener))
    /\ UNCHANGED <<app, counters, heard, cjVars>>

CjOnReturns(t) ==
    /\ Waits(t, "added", "cj")
    /\ listenerList_' = Append(listenerList_, job[t].listener)
    /\ operatorMutex_' = NoThread
    /\ Goes(t, NoJob)
    /\ UNCHANGED <<app, service, counters, heard, isDeleting, events, runner, failed,
                   late, offInCallback>>

CjAddFails(t) ==
    /\ Waits(t, "add", "cj")
    /\ Fault
    /\ operatorMutex_' = NoThread
    /\ Goes(t, NoJob)
    /\ UNCHANGED <<listenerList_, isDeleting, events, runner, failed, late,
                   offInCallback>>

-----------------------------------------------------------------------------
(* UnregisterEventListener. *)

\* SetEventListenerDeleting, for each listener taken out.
SetEventListenerDeleting(gone) == isDeleting' = isDeleting \cup {l.id : l \in gone}

UnregisterEventListener(t) ==
    /\ Waits(t, "off", "cj")
    /\ CjMutexFree
    /\ LET c == job[t].call
           gone == Removed(listenerList_, c)
       IN \/ /\ listenerList_ = <<>>
             /\ Goes(t, NoJob)
             /\ UNCHANGED <<listenerList_, operatorMutex_, isDeleting, offInCallback>>
          \/ /\ listenerList_ # <<>>
             /\ listenerList_' = Rest(listenerList_, c)
             /\ SetEventListenerDeleting(gone)
             /\ offInCallback' = offInCallback \cup
                                    {l.id : l \in {m \in gone : t = EventRunner}}
             /\ operatorMutex_' = t
             /\ Goes(t, [op |-> "remove", front |-> "cj", keys |-> FreedKeys(listenerList_, c)])
    /\ UNCHANGED <<app, service, counters, heard, events, runner, failed, late>>

\* CheckRemoveStateObserver: a failure does not end the loop, and Off ignores
\* the result.
CjKeysAfterFailure_None(keys) == {}
CjKeysAfterFailure(keys) == keys \ {NextKey(keys)}

CjRemoving(t) == Waits(t, "remove", "cj") /\ job[t].keys # {}

CheckRemoveStateObserver(t) ==
    /\ CjRemoving(t)
    /\ LET key == NextKey(job[t].keys)
       IN /\ RemoveStateObserver("cj", key)
          /\ job' = [job EXCEPT ![t].keys = IF HasRecord(key) THEN @ \ {key}
                                            ELSE CjKeysAfterFailure(@)]
    /\ UNCHANGED <<app, counters, heard, cjVars>>

CjRemoveFails(t) ==
    /\ CjRemoving(t)
    /\ Fault
    /\ failed' = failed \cup {NextKey(job[t].keys)}
    /\ job' = [job EXCEPT ![t].keys = CjKeysAfterFailure(@)]
    /\ UNCHANGED <<listenerList_, operatorMutex_, isDeleting, events, runner, late, offInCallback>>

CjOffReturns(t) ==
    /\ Waits(t, "remove", "cj")
    /\ job[t].keys = {}
    /\ operatorMutex_' = NoThread
    /\ Goes(t, NoJob)
    /\ UNCHANGED <<app, service, counters, heard, listenerList_, isDeleting, events,
                   runner, failed, late, offInCallback>>

-----------------------------------------------------------------------------
(* From the service to the function. *)

\* FfiTelephonyObserver::OnXxxUpdated, on a binder thread: SendEvent.
FfiObserverSendsEvent(o) ==
    /\ Deliver(o, "cj")
    /\ events' = Append(events, Head(mail[o]))
    /\ UNCHANGED <<listenerList_, operatorMutex_, isDeleting, runner, failed, late, offInCallback>>

\* HandleCallbackInfoUpdate takes the listeners of the type and slot,
\* HandleCallbackVoidUpdate (icc) those of the type.
CjHandles(l, ev) == l.type = ev.type /\ (ev.type = "ICC_ACCOUNT" \/ l.slotId = ev.slotId)

Snapshot(ev) == Kept(listenerList_, {l \in ToSet(listenerList_) : CjHandles(l, ev)})

\* The functions are called without the mutex.
MutexAfterSnapshot_Kept == operatorMutex_' = EventRunner
MutexAfterSnapshot == UNCHANGED operatorMutex_

RunnerAt(ev, todo) ==
    runner' = IF todo = <<>> THEN RunnerIdle ELSE [pc |-> "test", event |-> ev, todo |-> todo]

ProcessEvent ==
    /\ runner = RunnerIdle
    /\ events # <<>>
    /\ CjMutexFree
    /\ MutexAfterSnapshot
    /\ events' = Tail(events)
    /\ RunnerAt(Head(events), Snapshot(Head(events)))
    /\ UNCHANGED <<processVars, listenerList_, isDeleting, failed, late, offInCallback>>

\* WorkUpdated drops the event of a listener that off took out, and
\* WorkSignalUpdated an empty list.
Passes_Always(l, ev) == TRUE
Passes(l, ev) ==
    /\ l.id \notin isDeleting
    /\ ~(ev.type = "SIGNAL_STRENGTHS" /\ ev.val = EmptyList)

WorkUpdated ==
    /\ runner.pc = "test"
    /\ IF Passes(Head(runner.todo), runner.event) THEN runner' = [runner EXCEPT !.pc = "call"]
       ELSE RunnerAt(runner.event, Tail(runner.todo))
    /\ UNCHANGED <<processVars, listenerList_, operatorMutex_, isDeleting, events, failed,
                   late, offInCallback>>

\* listener.callbackRef(argv)
callbackRef ==
    /\ runner.pc = "call"
    /\ LET call == <<Head(runner.todo).id, runner.event.update>>
       IN /\ heard' = heard \cup {call}
          /\ late' = IF call[1] \in isDeleting THEN late \cup {call} ELSE late
    /\ runner' = [runner EXCEPT !.pc = "in"]
    /\ UNCHANGED <<app, job, service, counters, listenerList_, operatorMutex_, isDeleting,
                   events, failed, offInCallback>>

CallbackReturns ==
    /\ runner.pc = "in"
    /\ job[EventRunner] = NoJob
    /\ RunnerAt(runner.event, Tail(runner.todo))
    /\ UNCHANGED <<processVars, listenerList_, operatorMutex_, isDeleting, events, failed,
                   late, offInCallback>>

\* What a function is told: the number of CallState for a CallStatus.
CALL_STATE_UNKNOWN == -1
CALL_STATE_IDLE == 0
CALL_STATE_RINGING == 1
CALL_STATE_OFFHOOK == 2
CALL_STATE_ANSWERED == 3

WrapCallState(status) ==
    CASE status \in CALL_STATUS_ACTIVE .. CALL_STATUS_ALERTING -> CALL_STATE_OFFHOOK
      [] status \in {CALL_STATUS_INCOMING, CALL_STATUS_WAITING} -> CALL_STATE_RINGING
      [] status \in CALL_STATUS_DISCONNECTED .. CALL_STATUS_IDLE -> CALL_STATE_IDLE
      [] status = CALL_STATUS_ANSWERED -> CALL_STATE_ANSWERED
      [] OTHER -> CALL_STATE_UNKNOWN

-----------------------------------------------------------------------------

CjInit ==
    /\ listenerList_ = <<>> /\ operatorMutex_ = NoThread
    /\ isDeleting = {} /\ events = <<>> /\ runner = RunnerIdle
    /\ failed = {} /\ late = {} /\ offInCallback = {}

\* What a thread does in a call it has begun, without and with the mutex.
CjWaiting(t) == RegisterEventListener(t) \/ UnregisterEventListener(t)
CjServed(t) ==
    \/ CjServiceAdds(t) \/ CjOnReturns(t) \/ CjAddFails(t)
    \/ CheckRemoveStateObserver(t) \/ CjRemoveFails(t) \/ CjOffReturns(t)

CjNext ==
    \/ \E t \in Threads :
          \/ \E c \in app.onCalls : c.front = "cj" /\ (CjOn(t, c) \/ CjOnWithoutEffect(t, c))
          \/ \E c \in app.offCalls : c.front = "cj" /\ CjOff(t, c)
          \/ CjWaiting(t) \/ CjServed(t)
    \/ \E o \in Ids : FfiObserverSendsEvent(o)
    \/ ProcessEvent \/ WorkUpdated \/ callbackRef \/ CallbackReturns

\* The keys the front end believes to be registered.
CjListening ==
    {<<"cj", Key(l)>> : l \in ToSet(listenerList_)
        \cup {job[t].listener : t \in {s \in Threads : Waits(s, "added", "cj")}}}

==============================================================================
