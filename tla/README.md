# TLA+ models of telephony_state_registry

The state registry is the OpenHarmony service that keeps the current telephony
state (calls, SIM, signal, network, cells, data, indicators) per SIM slot and
tells subscribed applications about changes.  This directory models the service
and the client libraries of the repository, checks them with TLC on small
instances, and proves with TLAPS, for every size, the safety properties that the
passing runs check and that the service implements its abstract specification.

## 1. Inventory

    producer --IPC--> Stub --> Service --> Record/ObserverProxy --one-way IPC-->
       TelephonyObserver (client process) --> NAPI / Cangjie / ANI --> application
    application --> on/off --> TelephonyObserverClient --IPC--> Stub --> Service

| Component | State | Operations | Model |
|---|---|---|---|
| `TelephonyStateRegistryService` | one map per kind of state, `stateRecords_`, `state_`, the shared mutex `lock_` | 13 `UpdateXxx`, `RegisterStateChange` (with replay), `UnregisterStateChange`, 7 queries, `Dump`, `OnStart`, `OnStop` | `StateRegistry` |
| `TelephonyStateRegistryRecord` | slot, mask, token, process, observer | permission checks at callback time | `StateRegistry` |
| `TelephonyStateRegistryDumpHelper` | none | queries under a lock already held | `StateRegistry` (locking only) |
| `TelephonyStateRegistryStub` | request table | reads parcels, checks sizes | `ObserverIpc` (not the token check and the timers) |
| `TelephonyObserverProxy`, `TelephonyObserver` | none | write and read callbacks | `ObserverIpc` |
| `TelephonyObserverClient`, `TelephonyStateManager` | `proxy_`, `deathRecipient_`, `mutexProxy_` | `GetProxy`, `AddStateObserver`, `RemoveStateObserver`, `OnRemoteDied` | `ObserverClient` |
| NAPI: `napi_state_registry`, `EventListenerHandler`, `NapiTelephonyObserver` | `listenerList_`, `operatorMutex_`, references, event queue, uv works | `on`, `off` and their variants, event handling, end of an env | `NapiListeners` |
| Cangjie: `telephony_observer_ffi`, `TelephonyObserverImpl`, `ObserverEventHandler`, `FfiTelephonyObserver` | `listenerList_`, `operatorMutex_`, `isDeleting` flags, event queue | `on`, `off`, `offAll` of seven events, event handling | `CangjieListeners` |
| ANI (ArkTS 1.2, Rust): `observer.rs`, `Register`, `AniTelephonyObserver` | a `Vec` of listeners under one `Mutex` | `register`, `unregister`, `execute_on_...` of eleven events | `AniRegister` |
| extension wrapper | handle of a vendor library | `dlopen`, hooks | no: external code |

What is hard here, and what the properties are for:

* **The gap in every update.**  `UpdateXxx` writes the cache under the unique
  lock, releases it, and takes the shared lock for the notification loop.
  Registrations (which replay the cache), unregistrations and other updates run
  in the gap.  An observer must not be left with an old value (`Converged`,
  `CatchesUp`), be missed (`NoneMissed`) or see a number it may not
  (`NumberNeedsCallLog`); seen from outside, every callback must happen as if
  at one moment (`ImplementsSubscriptions`).
* **A table keyed by slot, mask, token and process** that several threads of one
  process change at once (`UniqueRecords`, `UnregisterIsFinal`).
* **`operator[]` on the maps**, which inserts under whatever lock is held
  (`StableWhileShared`, `TypeOK`).
* **A reader/writer lock** taken twice by `Dump` (`NoWaitOnOwnSharedLock`), and
  held during callbacks: an observer in the service's own process that registers
  or unregisters from its callback deadlocks.  `docs/agents/boundaries.md:54`
  forbids it to observers, and the model has no such observer (section 6).
* **A detached task** that publishes common events at any time after the start.
* **Three queues and four threads** between the service and a JavaScript
  function, with a static mutex that is held over IPC (`NoCallAfterOff`,
  `EventsArrive`, `NoLockWhileCalling`), and references that have to be deleted
  exactly once (`RefsHaveOneOwner`).
* **Two more front ends with other rules.**  Cangjie copies the matching
  listeners under its mutex and calls them without it, testing a flag that `off`
  may set right after (`CjNoCallAfterOff`, `CjOffInFunctionIsFinal`); ANI calls from binder threads and
  keeps its mutex over both the service and the functions (`AniOffIsFinal`,
  `EventsReachFunctions`, `FrontEndCallsReturn`).  They differ in what an `off`
  that fails half-way leaves in the service (`CjRemovesEachSlot`,
  `AniLeftoversReported`), and they share the records of their process
  (`ListenersRecorded`, `HeardOnce`).
* **Death of the service** at any point of `GetProxy` (`ProxyIsWatched`,
  `RequestsReach`).
* **Limits** on the lengths of lists that three programs check separately
  (`ObserverAgreesWithService`, `ListsArriveWhole`).

`PROJECT.json` lists each hazard with its line and the properties about it, or
the reason why there is none.

## 2. Modules

* `TelephonyTypes`: slots, masks, permissions, return codes and the checks made
  before `lock_`.
* `StateRegistry`: the service.  A *caller* is a client thread in a synchronous
  call; its `pc` is the binder thread that serves it
  (`idle → lock → drain → unique → share → notify → returned`).  The thirteen
  updates differ only in data, so each is a record (`UpdateSimState`, ...) of the
  permissions it needs, the maps it writes, the masks it tries in which order,
  the records whose slot matches and its common events; one set of actions runs
  them.  `lock_` is `std::shared_mutex` as implemented by the C library: a writer
  that waits keeps new readers out (`LockUnique`, `Drained`, `LockShared`).
  `told` is the last value sent to each observer; callbacks to other processes
  are one-way calls that binder delivers in order, so the last one sent is the one
  an observer ends with, and no callback waits or comes back to the service.  A value is an integer and 0 is what `operator[]` inserts.
* `Subscriptions`: what the service promises, without threads, lock, loops or
  vector: a state per topic (mask bit and slot), a set of subscriptions, and
  callbacks that each tell the state of the moment they are made.
* `StateRegistryRefinement`: the mapping.  The records are the subscriptions, the
  maps the state (a missing key counts as the 0 that `operator[]` inserts, so an
  insertion is a stuttering step), `told` is `told`; `WriteCache` is `Publish`,
  `RegisterStateChange` is `Subscribe`, `UnregisterStateChange` is `Unsubscribe`,
  a turn of the loop is `Notify`, everything else stutters.
* `MCStateRegistry`, `MCEvents`: instances.  `MCEvents` chooses one of nine
  workloads in its initial state and keeps it.
* `Lists`: what a walk over a listener list keeps, as a recursive function.
* `StateRegistryProofs`, `StateRegistryCacheProofs`,
  `StateRegistryRefinementProofs`, `ObserverClientProofs`, `ObserverIpcProofs`,
  `ListProofs`, `NapiListenersProofs`, `FrontEndsProofs`: the theorems (section 5).
* `NapiListeners`: one application process, with one JavaScript thread per
  environment.  `on` is split where it waits for the service (`OnCallsService`,
  `ServiceAdds`, `OnReturns`, `OnFails`), `off` at each `RemoveStateObserver` and
  at the deletion of references.  The way back is `ServiceUpdate` (a one-way call
  per record), `ObserverSendsEvent` (binder thread), `ProcessEvent` (event
  runner), `WorkUpdated` (uv, JavaScript thread).  The service is reduced to the
  records it holds for this process.
* `MCNapi`: the small applications TLC tries.  The application is chosen in the
  initial state.
* `FrontEndService`: what the Cangjie and the ANI front end share: threads and
  the call each is in, the list operations both have, and the service reduced to
  its records of this process, its call states and the one-way calls on the way.
  A record is found by slot and mask only, since token and process are the same:
  the two front ends meet in it.
* `CangjieListeners`: `on` and `off` split where they wait for the mutex and for
  the service; `FfiObserverSendsEvent` (binder), `ProcessEvent` (the copy under
  the mutex), `WorkUpdated` (the `isDeleting` test), `callbackRef`,
  `CallbackReturns` (EventRunner), where a function may itself call `on` and
  `off` on the EventRunner thread.
* `AniRegister`: `register` and `unregister` likewise; `on_updated` and `execute`
  with the `Mutex` held from the first function to the last.
* `FrontEnds`: both in one process, the fairness, and the properties.  The history
  variable `due` holds the listener and update pairs that are owed.
* `MCFrontEnds`: eleven small applications, one of which is chosen in the initial
  state.
* `ObserverClient`: the threads of a client process, `GetProxy` step by step, and
  the lives of the service.
* `ObserverIpc`: one slot and one observer; values through the two parcels.

`PROJECT.json` maps every definition to its lines.  Definitions whose name
contains an underscore suffix (`InLoop_StopsEarly`, `Dropped_Never`, ...) stand
right before the definition they are a faulty variant of; they are used only to
confirm that a property notices that fault.

External code (the mutexes, binder, samgr, uv, access tokens, the default data
slot) is modelled from how the code here uses it.

## 3. Runs

| Run | Instance | What it shows |
|---|---|---|
| `start` | `MCStart`: start, stop, a restart and a start of a service that runs already, each with its task, while calls with and without a slot are reported to one subscriber; dumpsys, a query, a slot the product lacks | `TypeOK`, `UnregisterIsFinal`, `EventsFollowCache`, `Exclusion`, `StableWhileShared` |
| `events` | `MCEvents`: the thirteen updates in nine workloads, two of them of call states with different numbers, `READ_CALL_LOG` toggled | `Converged`, `UniqueRecords`, `NumberNeedsCallLog`, `NoneMissed`, `ImplementsSubscriptions` |
| `live` | `MCLive`: producer, subscriber, query; fair | `CallsReturn`, `CatchesUp` |
| `napi` | `MCNapi`: two environments, up to four `on`, two `off`, one fault | six safety properties of the front end |
| `napi_live` | `MCNapiLive`: two `on`, one `off`, one change, one switch of the default slot; fair | `EventsArrive` |
| `frontends` | `MCFrontEnds`: per front end two functions on one slot with an `off` and a change; two slots with failures, the end of the service and a slot the device lacks; signal lists with and without entries; icc events; a device without SIM cards; both front ends on one key; fair | seven safety properties and `FrontEndCallsReturn`, `EventsReachFunctions` |
| `client` | `MCClient`: two threads, three lives of the service; fair | `TypeOK`, `ProxyIsWatched`, `RequestsReach` |
| `ipc` | `MCIpc`: lists up to one more than the limit, known and unknown types, two reports | `ObserverAgreesWithService`, `ListsArriveWhole` |

Four runs show where the code departs from what the repository says of it:

* `dump_relock`: `Dump` takes `lock_` shared and then again in every query;
  `docs/agents/boundaries.md:55` forbids exactly this.  With a writer waiting in
  between both block for ever.  `live` therefore has no `Dump`, and `start`, where
  the deadlock is reachable, does not check for deadlock.
* `replay_value`: the replay for a slot without a cached call state sends 0, an
  active call, which no cache held.
* `cj_late_call`: `README.md:75` promises "After the observer is deregistered, no
  callback will be received."  A Cangjie function is called after its `off` has
  returned, when the EventRunner had just tested `isDeleting`, which it reads
  without the mutex (`observer_event_handler.cpp:376`).  `CjNoCallAfterOff` allows
  a call while `off` is still running.  The theorem `AtMostOneLateCall` says how
  far it goes: one call per listener.  NAPI and ANI keep the promise
  (`NoCallAfterOff`, `AniOffIsFinal`), and so does Cangjie for an `off` called
  from a function (`CjOffInFunctionIsFinal`).
* `ani_call_state`: the ANI front end takes the number of the native call status
  for a `CallState` (`bridge.rs:383`), so that an active call (0) is shown as
  idle, "Indicates that there is no ongoing call.".  NAPI and Cangjie convert the
  status (`WrapCallState`): with the instance of `cj_late_call` `IdleMeansNoCall`
  holds.

One more departure shows without a run: the replay of `RegisterStateChange` goes
out under the unique lock (`telephony_state_registry_service.cpp:631`), where
`docs/agents/boundaries.md:54` has callbacks under the shared one.  It matters to
observers in the service's own process, which are not modelled.

**Bounds.**  The gap of an update needs one producer, a subscriber and one more
thread to be interesting; a race on one key needs two threads of one process;
`OneProducer` in `Converged` needs keys with one producer, and two producers on
different slots exercise the records of slot 999.  Values: two per key tell an
old one from a new one.  `BootThreads`, two in `start` (and symmetric there), bounds how often the task of
`OnStart` is started: one restart, and a start that finds the service running; `MaxOns`, `maxOffs`, `maxUpdates`, `maxSwitches`, `maxFaults` bound an
application (of `MCNapi` or `MCFrontEnds`); `MaxLives` the lives of the service; `MaxReports` the reports of
`ObserverIpc`.  Limits of list lengths are 2 (proxy, stub) and 3 (observer) in
place of the real ones; only their order matters.  Common events are left out of `events` and `live`
(`PublishResults` says that publishing fails, which is only logged), where no
property is about them.  Environments are symmetric in `MCNapi`; the liveness
runs use no symmetry.

**Deadlock.**  `events` and `live` check it: the service always has a next step.
The client runs stop when their counters are used up, and `start` for the reason
given above.

**Fairness.**  In the service, threads that hold what they need are scheduled
(weak), and a thread waiting for `lock_` gets it if it becomes available again
and again (strong: neither side of `std::shared_mutex` is starved by a finite
number of others).  That a thread in a loop is scheduled again includes that its
callback returns: true of one-way calls, and of observers in the service's own
process only if they do not register, unregister or query from the callback.  Callers need not call.  In the front end the service
answers, binder, the event runner and uv serve their queues and JavaScript
functions return (weak); the threads that need `operatorMutex_` get it in the
end (strong).  In `FrontEnds` likewise: the service answers and
functions return (weak), whoever waits for a mutex gets it in the end (strong).
In the client, threads and death notices get `mutexProxy_` in the
end (strong), and a service that died is started again (weak; an assumption about
the system, which the last life of the service also stands for).  Applications, producers, faults and users owe nothing.

## 4. Properties with conditions

* `CallsReturn` is about observers that make no synchronous call to the service
  from a callback.  Those of other processes cannot: their callbacks are one-way.
  One in the service's own process is called directly, under `lock_`, and would
  wait for the lock its own thread holds; `docs/agents/boundaries.md:54` and
  `failure-modes.md` say so and leave it to the observer.

* `Converged`, `CatchesUp` and `EventsFollowCache` are about keys that one
  thread reports.  With two producers the last to write and the last to notify
  may differ; the code has no means against it.
* `Converged` covers the bits of `PlainBits`.  `CALL_STATE_EX` and `CCALL_STATE`
  in a mask that also has `CALL_STATE` are replayed at registration and shadowed
  by the if / else-if chain afterwards; `CCALL_STATE` and `VOIP_CALL_STATE` also
  depend on a permission that may be revoked.  A record of slot 999 hears of all
  slots in the events of `DataBits` only; for any other bit no update matches it.
* `EventsFollowCache` exempts a slot on which the task of `OnStart` was the last
  to publish: such an event may come after that of a call and stays until the
  next one, or for good.
* `NoneMissed` takes the first bit of a mask that the if / else-if chain finds, as
  the loop does: that a later bit of the same mask is never told is not counted as
  missed.
* `UnregisterIsFinal` is about processes that register a key from one thread.
* `EveryListenerRecorded` holds while the service lives: after it died nothing
  registers the listeners again.  `NoStrayRecord` exempts records whose removal
  failed.  `RefsHaveOneOwner` is about devices with SIM slots: on others `on`
  keeps a reference for nothing.  References are a set, so it sees one that is
  left behind or taken from its owner, and not a second deletion.
* `EventsArrive` is stated for the case that nothing fails and, for the default
  data slot, that the slot does not change while an event is on its way.
* `ImplementsSubscriptions` leaves open what a callback tells for topics that
  several producers report and for events the service does not remember
  (`ICC_ACCOUNT`, `VOIP_CALL_STATE`), and shows an unknown call as idle to
  observers of `CCALL_STATE`.
* `ListenersRecorded` exempts a key after the service ended, when it silently
  dropped the slot, and when both front ends used the key: the second then has no
  record of its own, and the `off` of either removes the only one.
* `CjRemovesEachSlot` exempts keys whose own removal failed;
  `AniLeftoversReported` says that an `off` which leaves records behind returned
  an error; the error holds a code and a message and names no slot.
* `EventsReachFunctions` does not count an empty signal list, which the Cangjie
  front end does not show, and starts from what the service sent: a record lost
  with the service sends nothing.
* `ListsArriveWhole` is about items of known types: an unknown one makes the
  reader lose its place.

## 5. Proofs

Every theorem is about `Spec` for all values of the constants that satisfy the
named assumptions of the module: types of the constants, and what the callers of
the modelled code respect (a query is about a recordable slot; the updates
without a slot argument have none; `CjAssumption` and `AniAssumption`: a front
end offers only its own events; a device has at most `MAX_SLOT_COUNT + 1` slots;
a call state is one of the enumeration; the limits of the stub are not above
those of the observer, and item types and bodies are words).  TLC evaluates
these assumptions in the runs.

| Module | Theorem | States |
|---|---|---|
| `StateRegistryProofs` | `TypeCorrect` | `Spec => []TypeOK` |
| | `RecordsUnique` | `Spec => []UniqueRecords` |
| | `LockExcludes` | `Spec => []Exclusion` |
| | `SharedSectionsAreStable` | `Spec => StableWhileShared` |
| | `UpdatesReachEveryone` | `Spec => NoneMissed` |
| | `UnregisteredForGood` | `Spec => []UnregisterIsFinal` |
| | `NumbersNeedCallLog` | `Spec => NumberNeedsCallLog` |
| `StateRegistryCacheProofs` | `EventsFollow` | `Spec => []EventsFollowCache` |
| | `ObserversConverge` | `Spec => []Converged` |
| `StateRegistryRefinementProofs` | `KeepsThePromise` | `Spec => ImplementsSubscriptions` |
| `ObserverClientProofs` | `TypeCorrect` | `Spec => []TypeOK` |
| | `DeathIsNoticed` | `Spec => []ProxyIsWatched` |
| `ObserverIpcProofs` | `ObserverAgrees` | `Spec => []ObserverAgreesWithService` |
| | `ListsAreWhole` | `Spec => []ListsArriveWhole` |
| `NapiListenersProofs` | `TypeCorrect` | `Spec => []TypeOK` |
| | `NoRefLeaks` | `Spec => []RefsHaveOneOwner` |
| | `ListenersStayRecorded` | `Spec => []EveryListenerRecorded` |
| | `RecordsAreWanted` | `Spec => []NoStrayRecord` |
| | `FunctionsRunUnlocked` | `Spec => []NoLockWhileCalling` |
| | `OffSilences` | `Spec => NoCallAfterOff` |
| `FrontEndsProofs` | `TypeCorrect` | `Spec => []TypeOK` |
| | `ListenersStayRecorded` | `Spec => []ListenersRecorded` |
| | `EachSlotIsRemoved` | `Spec => []CjRemovesEachSlot` |
| | `LeftoversAreReported` | `Spec => []AniLeftoversReported` |
| | `OffInFunctionIsFinal` | `Spec => []CjOffInFunctionIsFinal` |
| | `AtMostOneLateCall` | at most one late call per Cangjie listener |
| | `OffIsFinal` | `Spec => AniOffIsFinal` |
| | `EachUpdateOnce` | `Spec => HeardOnce` |

**The service.**  The theorems rest on `Invariance`, the inductive invariant
`IndInv == TypeOK /\ RequestOK /\ LockOK /\ UniqueRecords`.  `RequestOK` says
which request a thread at each `pc` can have, and that its slot is a key of the
maps; without it writing the cache need not preserve `TypeOK`.  `LockOK` says who holds
`lock_` in which way at each `pc`; it is what makes a search followed by an
insertion one step, hence `UniqueRecords`, and gives `Exclusion`.  Two results
need more: `SharedSectionsAreStable` rests on `NumberStored` (once an update of
a slot has been written, its number is in the map, so `operator[]` in
`GetCallIncomingNumberForSlotId` never inserts), and `UpdatesReachEveryone` on
`Traversal` (the records before the loop index that want the update have been
called back, which needs that the table is stable while it is walked).

`Converged` and `EventsFollowCache` are kept by every step given `IndInv` and two
more invariants.  `WrittenIsStored`: between its write and its return an update
finds in the map what it has written, if it is the only producer of the key.
`ToldIsHeard`: what counts as told belongs to a registration that still exists.
The update's turn of the loop then tells the value of the map, the replay of a
registration reads it, and no other step changes either side.  Without the
distinction that `DataBits` makes (section 4) `Converged` would be false for an
observer that has a record of slot 999 for another bit next to a record of a
real slot; `MCEvents` has this case.

The refinement goes step by step: `WriteCache` is `Publish`, registration with its
replay is `Subscribe`, and so on (section 2); `WrittenIsStored` is what makes the
value of a callback the state of the moment.

**The client.**  `IndInv` adds to the two properties that `mutexProxy_` is held
exactly inside `GetProxy`, that a proxy is looked for only while there is none,
and that nobody knows an incarnation which was not started, so that a new
`proxy_` is either watched or of an incarnation whose death notice is queued.

**The parcels.**  The readers are recursive functions; that they return what was
written is proved by induction over the turns of the loop (`ListProofs` states
induction over the natural numbers for sets, from the existence of a least
element, because an operator cannot be instantiated by the provers).  The
invariant: the last message of a kind that is on its way says what the service
holds, and if none is, the observer was told it.

**NAPI.**  `IndInv` locates everything: a listener is in the list, in the `on`
that will put it there or in the `off` that took it out (`OnePlace`); the owner
of its reference follows (`RefsOwned`); a queued work is for a listener in the
list or one with the `isDeleting` flag (`WorksKnown`); a record is wanted by a
listener, about to be removed, or could not be (`RecordsFollow`).  `MutexOwner`
makes each `off` see a list nobody changes while it waits for the service.

**Cangjie and ANI.**  The same, per front end, with `LateCalls` (at most one
copy of the EventRunner can be past its test when `off` comes) and `ExecListed`
(the binder thread executes only what is in the Vec).  `HeardOnce` needs a second
invariant, `HeardInv`, over the *places* a message can be: a queue of a binder
thread, the queue of the EventRunner, or in the hands of the thread that tells
it.  No two places hold the same news (`NewsUnique`), because a key has one
record, an update or replay makes a number nobody has used, and a step only moves
messages (`NewsMoves`); nobody has heard what is on its way (`NotYetHeard`); and
whoever tells a message has each listener once in its copy (`Telling`,
`ListsDistinct`).

Only model-checked, because they need fairness, which the prover does not treat:
`CallsReturn`, `CatchesUp`, `EventsArrive`, `RequestsReach`,
`FrontEndCallsReturn` and `EventsReachFunctions`; and the four runs that show a
departure.

## 6. Not modelled

* Observers in the service's own process that call the service from a callback.
  `iface_cast` gives the service the local object (`telephony_state_registry_stub.cpp:396`),
  so that the callback is a direct call under `lock_`: under the shared lock in
  the loops, under the unique lock in the replay of a registration
  (`telephony_state_registry_service.cpp:631`).  A registration or unregistration
  made there deadlocks, and in the replay a query too.  The documents forbid the
  former; the model's callbacks are sent and never waited for.
* A service in the client's own process (`IsProxyObject()` false in `GetProxy`) and
  a refusal of `AddDeathRecipient` by a live one; list sizes below zero in
  `OnUpdateSignalInfo`, since a list is a sequence; the early returns of the
  `WorkXxx` functions of NAPI, which unlock as the normal path does.
* In the front-end models, a build with VSim: the service fills in the call state
  of the slots that have a SIM card.
* The extension wrapper: `dlopen` of an optional vendor library whose code is not
  in the repository and which may rewrite what one observer is told.
* The text of common events and of dumps; the conversion of values to JavaScript,
  Cangjie and ArkTS objects, the call state aside, and of error codes: field by
  field copies without state.
* The XCollie timers of the stub, which only log, its interface token check, and
  running out of memory.
* The ArkTS runtime behind `execute`; that a function does not run on the binder
  thread which holds the `Mutex` is an assumption of `AniRegister`.

## 7. Plan

1. Abstract specifications of the front ends (what `on` and `off` promise a
   function) and proofs that `NapiListeners` and `FrontEnds` implement them.
2. The safety half of the liveness properties: what is owed (`due`) is always on
   its way, and a thread that waits for a mutex waits for one that does not wait
   for it.
3. A composition of `NapiListeners` with the records of `StateRegistry` in place
   of its reduced service, for the death of the service.
