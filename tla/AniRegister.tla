----------------------------- MODULE AniRegister -----------------------------
(***************************************************************************)
(* The front end of ArkTS 1.2: the native functions of observer.rs, the    *)
(* Register with its Vec of listeners under one Mutex, and the C++ class   *)
(* AniTelephonyObserver, whose callbacks go straight from a binder thread  *)
(* into Register, without a queue.                                         *)
(*                                                                         *)
(* The Mutex is held while register and unregister wait for the service,   *)
(* and while the functions of an event are executed.  execute hands the    *)
(* call to the ArkTS runtime, which is external; a function does not run   *)
(* on the binder thread that holds the Mutex.                              *)
(***************************************************************************)
EXTENDS FrontEndService

VARIABLES
    inner,          \* the Vec<EventListener> of Register
    innerLock,      \* the thread that holds its Mutex, Binder or NoThread
    exec,           \* the execute_on_... that holds the Mutex
    reported,       \* history: the keys left by an off that returned Err
    takenOut        \* history: the listeners off took out

aniVars == <<inner, innerLock, exec, reported, takenOut>>

Binder == "binder"
NoExec == [todo |-> <<>>]

-----------------------------------------------------------------------------
(* The native functions. *)

AniTypes ==
    {"DATA_FLOW", "ICC_ACCOUNT", "SIM_STATE", "SIGNAL_STRENGTHS", "CELL_INFO",
     "DATA_CONNECTION_STATE", "NETWORK_STATE", "CALL_STATE", "CALL_STATE_EX", "CCALL_STATE",
     "SIM_ACTIVE_STATE"}

ASSUME AniAssumption ==
    /\ Binder \notin Threads
    /\ \A a \in Apps : \A c \in a.onCalls : c.front = "ani" => c.type \in AniTypes

\* on_call_state_change_ex and on_ccall_state_change mean all slots, and
\* on_icc_account_info_change slot 0; the others take a slot, 0 by default.
AniSlotArgument(c) ==
    CASE c.type \in {"CALL_STATE_EX", "CCALL_STATE"} -> ALL_SLOTS
      [] c.type = "ICC_ACCOUNT" -> DEFAULT_SIM_SLOT_ID
      [] OTHER -> c.slotId

\* One slot more than the device has, for VSim; -1 is for calls.
AniIsValidSlotIdEx(type, slotId) ==
    /\ slotId >= IF type \in CallTypes THEN ALL_SLOTS ELSE DEFAULT_SIM_SLOT_ID
    /\ slotId < SIM_SLOT_COUNT + 1

AniListener(c) ==
    [front |-> "ani", id |-> ons + 1, type |-> c.type, slotId |-> AniSlotArgument(c), func |-> c.func]

\* Err(8300001)
AniOnRejected(t, c) ==
    /\ t \in app.threads
    /\ CallOn(t)
    /\ ~AniIsValidSlotIdEx(c.type, AniSlotArgument(c))
    /\ UNCHANGED <<job, aniVars>>

AniOn(t, c) ==
    /\ t \in app.threads
    /\ CallOn(t)
    /\ AniIsValidSlotIdEx(c.type, AniSlotArgument(c))
    /\ Goes(t, Adding("on", AniListener(c)))
    /\ UNCHANGED aniVars

AniOff(t, c) == t \in app.threads /\ CallOff(t, c) /\ UNCHANGED aniVars

-----------------------------------------------------------------------------
(* Register::register *)

InnerFree == innerLock = NoThread

\* A listener that is already registered is Ok.
register(t) ==
    /\ Waits(t, "on", "ani")
    /\ InnerFree
    /\ LET l == job[t].listener
           status == RegisterStatus(inner, l)
       IN \/ /\ status = "SAME"
             /\ Goes(t, NoJob)
             /\ UNCHANGED <<inner, innerLock>>
          \/ /\ status = "SLOTID_AND_EVENTTYPE_SAME"
             /\ inner' = Append(inner, l)
             /\ Goes(t, NoJob)
             /\ UNCHANGED innerLock
          \/ /\ status = "DIFF"
             /\ Goes(t, Adding("add", l))
             /\ innerLock' = t
             /\ UNCHANGED inner
    /\ UNCHANGED <<app, service, counters, heard, exec, reported, takenOut>>

\* EventListenerRegister; the isUpdate flag is set for calls.
EventListenerRegister(t) ==
    /\ Waits(t, "add", "ani")
    /\ AddStateObserver(job[t].listener, job[t].listener.type \in CallTypes)
    /\ Goes(t, Adding("added", job[t].listener))
    /\ UNCHANGED <<app, counters, heard, aniVars>>

registerReturns(t) ==
    /\ Waits(t, "added", "ani")
    /\ inner' = Append(inner, job[t].listener)
    /\ innerLock' = NoThread
    /\ Goes(t, NoJob)
    /\ UNCHANGED <<app, service, counters, heard, exec, reported, takenOut>>

registerFails(t) ==
    /\ Waits(t, "add", "ani")
    /\ Fault
    /\ innerLock' = NoThread
    /\ Goes(t, NoJob)
    /\ UNCHANGED <<inner, exec, reported, takenOut>>

-----------------------------------------------------------------------------
(* Register::unregister *)

unregister(t) ==
    /\ Waits(t, "off", "ani")
    /\ InnerFree
    /\ LET c == job[t].call
       IN \/ /\ inner = <<>>
             /\ Goes(t, NoJob)
             /\ UNCHANGED <<inner, innerLock, takenOut>>
          \/ /\ inner # <<>>
             /\ inner' = Rest(inner, c)
             /\ takenOut' = takenOut \cup {l.id : l \in Removed(inner, c)}
             /\ innerLock' = t
             /\ Goes(t, [op |-> "remove", front |-> "ani", keys |-> FreedKeys(inner, c)])
    /\ UNCHANGED <<app, service, counters, heard, exec, reported>>

unregisterRemoving(t) == Waits(t, "remove", "ani") /\ job[t].keys # {}

\* The first failure ends the loop: the slots after it are not removed, and
\* the caller gets an error.  It holds a code and a message and names no slot;
\* which keys are left is known to the history variable alone.
Err_Swallowed(t) == job' = [job EXCEPT ![t].keys = {}] /\ UNCHANGED reported
Err(t) ==
    /\ job' = [job EXCEPT ![t].keys = {}]
    /\ reported' = reported \cup job[t].keys

EventListenerUnRegister(t) ==
    /\ unregisterRemoving(t)
    /\ LET key == NextKey(job[t].keys)
       IN /\ RemoveStateObserver("ani", key)
          /\ \/ /\ HasRecord(key)
                /\ job' = [job EXCEPT ![t].keys = @ \ {key}]
                /\ UNCHANGED reported
             \/ ~HasRecord(key) /\ Err(t)
    /\ UNCHANGED <<app, counters, heard, inner, innerLock, exec, takenOut>>

EventListenerUnRegisterFails(t) ==
    /\ unregisterRemoving(t)
    /\ Fault
    /\ Err(t)
    /\ UNCHANGED <<inner, innerLock, exec, takenOut>>

unregisterReturns(t) ==
    /\ Waits(t, "remove", "ani")
    /\ job[t].keys = {}
    /\ innerLock' = NoThread
    /\ Goes(t, NoJob)
    /\ UNCHANGED <<app, service, counters, heard, inner, exec, reported, takenOut>>

-----------------------------------------------------------------------------
(* From the service to the function. *)

executes_for(l, ev) == l.type = ev.type /\ (ev.type = "ICC_ACCOUNT" \/ l.slotId = ev.slotId)

\* The Mutex is held until every function has been executed.
HeldDuringExecute_Released(todo) == UNCHANGED innerLock
HeldDuringExecute(todo) ==
    innerLock' = IF todo = <<>> THEN NoThread ELSE Binder

\* AniTelephonyObserver::OnXxxUpdated and execute_on_..., on a binder thread;
\* the calls to one observer come one after the other.
on_updated(o) ==
    /\ InnerFree
    /\ exec = NoExec
    /\ Deliver(o, "ani")
    /\ LET ev == Head(mail[o])
           todo == Kept(inner, {l \in ToSet(inner) : executes_for(l, ev)})
       IN /\ exec' = IF todo = <<>> THEN NoExec ELSE [event |-> ev, todo |-> todo]
          /\ HeldDuringExecute(todo)
    /\ UNCHANGED <<inner, reported, takenOut>>

\* func.execute(argv) for the next listener, and the end of the loop.
execute ==
    /\ exec # NoExec
    /\ heard' = heard \cup {<<Head(exec.todo).id, exec.event.update>>}
    /\ exec' = IF Tail(exec.todo) = <<>> THEN NoExec ELSE [exec EXCEPT !.todo = Tail(@)]
    /\ HeldDuringExecute(Tail(exec.todo))
    /\ UNCHANGED <<app, job, service, counters, inner, reported, takenOut>>

\* CallState::from(i32): the number of the native CallStatus is taken for the
\* number of a CallState.
CallState_from(value) == IF value \in 0 .. 3 THEN value ELSE -1

-----------------------------------------------------------------------------

AniInit == /\ inner = <<>> /\ innerLock = NoThread /\ exec = NoExec
           /\ reported = {} /\ takenOut = {}

AniWaiting(t) == register(t) \/ unregister(t)
AniServed(t) ==
    \/ EventListenerRegister(t) \/ registerReturns(t) \/ registerFails(t)
    \/ EventListenerUnRegister(t) \/ EventListenerUnRegisterFails(t) \/ unregisterReturns(t)

AniNext ==
    \/ \E t \in Threads :
          \/ \E c \in app.onCalls : c.front = "ani" /\ (AniOn(t, c) \/ AniOnRejected(t, c))
          \/ \E c \in app.offCalls : c.front = "ani" /\ AniOff(t, c)
          \/ AniWaiting(t) \/ AniServed(t)
    \/ \E o \in Ids : on_updated(o)
    \/ execute

AniIds == {l.id : l \in ToSet(inner)}

\* The keys the front end believes to be registered.
AniListening ==
    {<<"ani", Key(l)>> : l \in ToSet(inner)
        \cup {job[t].listener : t \in {s \in Threads : Waits(s, "added", "ani")}}}
==============================================================================
