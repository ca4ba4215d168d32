------------------------------ MODULE FrontEnds ------------------------------
(***************************************************************************)
(* The Cangjie and the ANI front end in one application process, over the  *)
(* same records of the service.                                            *)
(***************************************************************************)
EXTENDS CangjieListeners, AniRegister

VARIABLE due        \* history: the <<listener, update>> pairs that were sent and
                    \* neither heard nor made void by off

frontEndVars == <<processVars, cjVars, aniVars>>
vars == <<frontEndVars, due>>

\* The listeners that count: in a list, or about to be.
AllListeners ==
    ToSet(listenerList_) \cup ToSet(inner)
        \cup {job[t].listener : t \in {s \in Threads : job[s].op = "added"}}

\* The listener should be told of the event; the Cangjie front end does not
\* show an empty list of signals.
Concerns(ev, l) ==
    /\ ev.front = l.front
    /\ \/ /\ l.front = "cj" /\ CjHandles(l, ev)
          /\ ev.type = "SIGNAL_STRENGTHS" => ev.val # EmptyList
       \/ l.front = "ani" /\ executes_for(l, ev)

\* The pairs in the one-way calls that are on the way.
OnTheWay ==
    UNION {{<<l.id, ev.update>> : l \in {m \in AllListeners : Concerns(ev, m)}}
           : ev \in UNION {ToSet(mail[o]) : o \in Ids}}

Init == ProcessInit /\ CjInit /\ AniInit /\ due = {}

\* Producers report, and the service may end.
World ==
    \/ \E u \in app.updates : ServiceUpdate(u)
    \/ ServiceDies(CjListening \cup AniListening)

Step ==
    \/ CjNext /\ UNCHANGED aniVars
    \/ AniNext /\ UNCHANGED cjVars
    \/ World /\ UNCHANGED <<cjVars, aniVars>>

Settled(d) == d \in heard \/ d[1] \in isDeleting \cup takenOut

Next == Step /\ due' = {d \in due \cup OnTheWay' : ~Settled(d)'}

Spec == Init /\ [][Next]_vars

\* A thread in a call takes the mutex it waits for, or goes on with it.
Waiting(t) ==
    \/ CjWaiting(t) /\ UNCHANGED aniVars
    \/ AniWaiting(t) /\ UNCHANGED cjVars
Served(t) ==
    \/ CjServed(t) /\ UNCHANGED aniVars
    \/ AniServed(t) /\ UNCHANGED cjVars
Received(o) ==
    \/ FfiObserverSendsEvent(o) /\ UNCHANGED aniVars
    \/ on_updated(o) /\ UNCHANGED cjVars

\* The service answers, binder and the EventRunner serve their queues, and
\* functions return (weak); whoever waits for a mutex gets it if it becomes
\* free again and again (strong).
FairSpec ==
    /\ Spec
    /\ \A t \in Threads : SF_frontEndVars(Waiting(t)) /\ WF_frontEndVars(Served(t))
    /\ \A o \in Ids : SF_frontEndVars(Received(o))
    /\ SF_frontEndVars(ProcessEvent /\ UNCHANGED aniVars)
    /\ WF_frontEndVars((WorkUpdated \/ callbackRef \/ CallbackReturns) /\ UNCHANGED aniVars)
    /\ WF_frontEndVars(execute /\ UNCHANGED cjVars)

-----------------------------------------------------------------------------
(* Properties. *)

Keys == [type : ObserverMask, slotId : Int]

\* The variables have the types of the members they stand for, the lists hold
\* only listeners of their own front end, for events it offers and slots the
\* device has, and a mutex is held exactly by a thread that is past it.
TypeOK ==
    /\ \A l \in ToSet(listenerList_) : l \in Listener /\ l.front = "cj" /\ l.type \in CjTypes
    /\ \A l \in ToSet(inner) : l \in Listener /\ l.front = "ani" /\ l.type \in AniTypes
    /\ \A l \in ToSet(listenerList_) \cup ToSet(inner) :
          l.slotId \in (IF l.type \in CallTypes THEN -1 ELSE 0) .. SIM_SLOT_COUNT
    /\ \A t \in Threads : /\ operatorMutex_ = t <=> (\/ Waits(t, "add", "cj") \/ Waits(t, "added", "cj")
                                                     \/ Waits(t, "remove", "cj"))
                          /\ innerLock = t <=> (\/ Waits(t, "add", "ani") \/ Waits(t, "added", "ani")
                                                \/ Waits(t, "remove", "ani"))
    /\ innerLock = Binder <=> exec # NoExec
    /\ isDeleting \subseteq Ids /\ takenOut \subseteq Ids
    /\ events \in Seq(Event) /\ mail \in [Ids -> Seq(Event)]
    /\ runner.pc \in {"idle", "test", "call", "in"}
    /\ runner.pc # "idle" => runner.todo # <<>> /\ runner.event \in Event
    /\ \A r \in records : r.key \in Keys /\ r.observer \in Ids /\ r.front \in Fronts
    /\ callState_ \in [CallSlots -> CALL_STATUS_UNKNOWN .. CALL_STATUS_ANSWERED]

\* Every listener in a list has a record that calls its own front end, though
\* only the first listener of a key registered one and any of them may have
\* been taken out: unless the service ended since the key was registered, it
\* dropped the slot silently, or the other front end had the same key.
ListenersRecorded ==
    \A l \in ToSet(listenerList_) \cup ToSet(inner) :
        \/ <<l.front, Key(l)>> \in lost
        \/ \E r \in records : r.key = Key(l) /\ r.front = l.front

\* When no Cangjie call is running, the service keeps no record of this front
\* end without a listener, but for keys whose own removal failed: a failure at
\* one slot does not leave the records of the other slots behind.
CjRemovesEachSlot ==
    CjMutexFree => \A r \in records :
        r.front = "cj" => r.key \in failed \/ <<"cj", r.key>> \in CjListening

\* In the ANI front end it does; but the off that left the record has then
\* returned an error, which does not say which keys are left.
AniLeftoversReported ==
    innerLock \notin Threads => \A r \in records :
        r.front = "ani" => r.key \in reported \/ <<"ani", r.key>> \in AniListening

\* Once unregister has taken a listener out of the Vec, its function is not
\* executed any more: an event that is being executed keeps the Mutex.
AniOffIsFinal == [][execute => Head(exec.todo).id \in AniIds]_vars

\* If a function itself calls off, the Cangjie front end calls none of the
\* functions that off took out any more, though the copies that the EventRunner
\* works on still hold them: each copy's isDeleting is tested when its turn comes.
CjOffInFunctionIsFinal == \A c \in late : c[1] \notin offInCallback

\* No function hears of one update twice, though every observer object of a
\* front end tells all listeners of the type (and, icc aside, slot).
HeardOnce == [][callbackRef \/ execute => heard' # heard]_vars

\* A call on or off returns, whatever the other threads, the functions and the
\* binder threads do with the same mutex, and though it may be made by a
\* function that the front end is calling.
FrontEndCallsReturn == \A t \in Threads : (job[t].op # "none") ~> (job[t] = NoJob)

\* What the service sent reaches the function unless the listener is taken out,
\* also the replay, which may come while its on call still holds the mutex and
\* has not put the listener into the list; an empty signal list aside, which
\* the Cangjie front end does not show.
EventsReachFunctions == (due # {}) ~> (due = {})

-----------------------------------------------------------------------------
(* What the repository's documents say and the code does not do. *)

\* README.md: "After the observer is deregistered, no callback will be received."
\* A Cangjie function is called only while its listener is registered, or while
\* the off that took it out has not returned.
CjNoCallAfterOff ==
    [][callbackRef => \/ Head(runner.todo).id \notin isDeleting
                      \/ \E t \in Threads : Waits(t, "remove", "cj")]_vars

\* CALL_STATE_IDLE, "Indicates that there is no ongoing call.": a function is
\* told it only when the call it is told of is idle or disconnected.
NoOngoingCall == CALL_STATUS_DISCONNECTED .. CALL_STATUS_IDLE

IdleMeansNoCall ==
    /\ (runner.pc = "in" /\ runner.event.type = "CALL_STATE")
          => (WrapCallState(runner.event.val) = CALL_STATE_IDLE => runner.event.val \in NoOngoingCall)
    /\ (exec # NoExec /\ exec.event.type = "CALL_STATE")
          => (CallState_from(exec.event.val) = CALL_STATE_IDLE => exec.event.val \in NoOngoingCall)
==============================================================================
