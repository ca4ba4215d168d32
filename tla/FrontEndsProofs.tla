--------------------------- MODULE FrontEndsProofs ---------------------------
(***************************************************************************)
(* Proofs about FrontEnds, for any number of threads, functions, on and    *)
(* off calls, changes and faults.                                          *)
(***************************************************************************)
EXTENDS FrontEnds, ListProofs, SequenceTheorems, FiniteSetTheorems

(* The inductive invariant. *)

\* The list and the mutex of a front end.
ListOf(front) == ToSet(IF front = "cj" THEN listenerList_ ELSE inner)
LockOf(front) == IF front = "cj" THEN operatorMutex_ ELSE innerLock

OnOps == {"on", "add", "added"}
LockedOps == {"add", "added", "remove"}

\* What on lets through: an event of the front end, a slot of the device.
Proper(l) ==
    /\ l.type \in IF l.front = "cj" THEN CjTypes ELSE AniTypes
    /\ l.slotId \in (IF l.type \in CallTypes THEN -1 ELSE 0) .. SIM_SLOT_COUNT
    /\ l.type = "ICC_ACCOUNT" => l.slotId = DEFAULT_SIM_SLOT_ID

Jobs ==
    {NoJob} \cup [op : OnOps, front : Fronts, listener : Listener]
        \cup [op : {"off"}, front : Fronts, call : UNION {a.offCalls : a \in Apps}]
        \cup [op : {"remove"}, front : Fronts, keys : SUBSET Keys]

Todo == Seq(Listener) \ {<<>>}

\* The types of the variables, those of the calls in progress included.
TypeInv ==
    /\ app \in Apps
    /\ job \in [Threads -> Jobs]
    /\ records \subseteq [key : Keys, front : Fronts, observer : Ids]
    /\ callState_ \in [CallSlots -> CALL_STATUS_UNKNOWN .. CALL_STATUS_ANSWERED]
    /\ mail \in [Ids -> Seq(Event)] /\ events \in Seq(Event)
    /\ ons \in 0 .. app.maxOns /\ updates \in Nat
    /\ listenerList_ \in Seq(Listener) /\ inner \in Seq(Listener)
    /\ operatorMutex_ \in Threads \cup {NoThread}
    /\ innerLock \in Threads \cup {NoThread, Binder}
    /\ isDeleting \subseteq Ids /\ takenOut \subseteq Ids
    /\ runner = RunnerIdle \/ runner \in [pc : {"test", "call", "in"}, event : Event, todo : Todo]
    /\ exec = NoExec \/ exec \in [event : Event, todo : Todo]

\* Everything on refuses is neither in a list nor in a call; and the keys off
\* removes are those of listeners.
ListsProper ==
    /\ \A f \in Fronts : \A l \in ListOf(f) : l.front = f /\ Proper(l)
    /\ \A t \in Threads : job[t].op \in OnOps =>
          job[t].listener.front = job[t].front /\ Proper(job[t].listener)
    /\ \A t \in Threads : job[t].op = "remove" => \A k \in job[t].keys : k.slotId >= ALL_SLOTS

Holds(t, front) == job[t].op \in LockedOps /\ job[t].front = front

\* A mutex is held exactly by the thread whose call waits for the service, or by
\* the binder thread that executes an event.
MutexOwners ==
    /\ \A f \in Fronts, t \in Threads : LockOf(f) = t <=> Holds(t, f)
    /\ innerLock = Binder <=> exec # NoExec

Listed == ListOf("cj") \cup ListOf("ani")

\* A listener is in one place: in a list, in the on call that will put it
\* there, or taken out.
OnePlace ==
    /\ isDeleting \subseteq 1 .. ons
    /\ \A l \in Listed : l.id \in 1 .. ons
    /\ \A l, m \in Listed : l.id = m.id => l = m
    /\ \A l \in ListOf("cj") : l.id \notin isDeleting
    /\ \A t \in Threads : job[t].op \in OnOps =>
          /\ job[t].listener.id \in 1 .. ons /\ job[t].listener.id \notin isDeleting
          /\ \A l \in Listed : l.id # job[t].listener.id
    /\ \A t, s \in Threads : job[t].op \in OnOps /\ job[s].op \in OnOps /\ t # s
          => job[t].listener.id # job[s].listener.id

\* What a binder thread still has to execute is in the Vec.
ExecListed == exec # NoExec => ToSet(exec.todo) \subseteq ListOf("ani")

\* The EventRunner thread is in a call only inside a function; a late call is
\* of a listener that was taken out, there is one per listener, none of one the
\* EventRunner took out itself, and none of the one about to be called.
LateCalls ==
    /\ job[EventRunner] # NoJob => runner.pc = "in"
    /\ \A c \in late : c[1] \in isDeleting
    /\ \A c, d \in late : c[1] = d[1] => c = d
    /\ \A c \in late : c[1] \notin offInCallback
    /\ offInCallback \subseteq isDeleting
    /\ runner.pc = "call" => /\ Head(runner.todo).id \notin offInCallback
                             /\ \A c \in late : c[1] # Head(runner.todo).id

\* The front end has asked the service for the key, and still wants it.
Wanted(front, k) ==
    \/ \E l \in ListOf(front) : Key(l) = k
    \/ \E t \in Threads : job[t].op = "added" /\ job[t].front = front /\ Key(job[t].listener) = k

\* An off of the front end still has to remove the key.
ToRemove(front, k) ==
    \E t \in Threads : job[t].op = "remove" /\ job[t].front = front /\ k \in job[t].keys

GivenUp(front) == IF front = "cj" THEN failed ELSE reported

\* A wanted key has a record of its own front end, or is lost, and no running off
\* of that front end will remove it; every record is wanted by its front end,
\* or will be removed, or could not be.
RecordsFollow ==
    /\ \A f \in Fronts, k \in Keys : Wanted(f, k) =>
          <<f, k>> \in lost \/ \E r \in records : r.key = k /\ r.front = f
    /\ \A f \in Fronts, k \in Keys : Wanted(f, k) => ~ToRemove(f, k)
    /\ \A r \in records :
          r.key \in GivenUp(r.front) \/ ToRemove(r.front, r.key) \/ Wanted(r.front, r.key)

IndInv ==
    /\ TypeInv /\ ListsProper /\ MutexOwners /\ OnePlace /\ ExecListed /\ LateCalls
    /\ RecordsFollow

-----------------------------------------------------------------------------
(* The invariant behind HeardOnce. *)

\* All listeners the process still knows, the copies of the EventRunner included.
Everyone ==
    Listed \cup {job[t].listener : t \in {s \in Threads : job[s].op \in OnOps}}
           \cup (IF runner # RunnerIdle THEN ToSet(runner.todo) ELSE {})

\* Where a message can be: on its way to an observer or in the queue of the
\* EventRunner; or with the EventRunner or the binder thread that tells the functions.
MailPlaces == {p \in {"mail"} \X Ids \X Nat : p[3] \in 1 .. Len(mail[p[2]])}
QueuePlaces == {p \in {"queue"} \X {0} \X Nat : p[3] \in 1 .. Len(events)}
RunnerPlace == <<"runner", 0, 0>>
ExecPlace == <<"exec", 0, 0>>
OnItsWay == MailPlaces \cup QueuePlaces
BeingTold ==
    (IF runner # RunnerIdle THEN {RunnerPlace} ELSE {}) \cup (IF exec # NoExec THEN {ExecPlace} ELSE {})
Places == OnItsWay \cup BeingTold

\* The message at each place.
News ==
    [p \in Places |->
        IF p[1] = "mail" THEN mail[p[2]][p[3]]
        ELSE IF p[1] = "queue" THEN events[p[3]]
             ELSE IF p[1] = "runner" THEN runner.event ELSE exec.event]

SameNews(m, n) == m.type = n.type /\ m.update = n.update

\* No two messages tell the same.
NewsUnique == \A p, q \in Places : SameNews(News[p], News[q]) => p = q

\* The numbers of updates that were made, and of registrations whose replay was sent
\* or never will be.
UsedNumbers ==
    (1 .. updates) \cup
    {n \in Int : /\ -n \in 1 .. ons
                 /\ \A t \in Threads : job[t].op \in {"on", "add"} => job[t].listener.id # -n}

NewsNumbered ==
    /\ \A p \in Places : News[p].update \in UsedNumbers
    /\ \A c \in heard : c[1] \in 1 .. ons /\ c[2] \in UsedNumbers

\* Listeners with the same number are the same listener.
EveryoneOnce ==
    /\ \A l, m \in Everyone : l.id = m.id => l = m
    /\ \A l \in Everyone : l.id \in 1 .. ons

\* Nobody has heard what is still on its way.
NotYetHeard ==
    \A p \in OnItsWay, l \in Everyone :
        News[p].type = l.type => <<l.id, News[p].update>> \notin heard

\* A message is told to listeners of its type, to none twice, and those it was not
\* told to yet have not heard it.
TellsOnce(todo, ev, from) ==
    /\ Distinct(todo)
    /\ \A l \in ToSet(todo) : l.type = ev.type
    /\ \A i \in from .. Len(todo) : <<todo[i].id, ev.update>> \notin heard

Telling ==
    /\ runner # RunnerIdle =>
          TellsOnce(runner.todo, runner.event, IF runner.pc = "in" THEN 2 ELSE 1)
    /\ exec # NoExec => TellsOnce(exec.todo, exec.event, 1)

\* The lists hold no listener twice.
ListsDistinct == Distinct(listenerList_) /\ Distinct(inner)

\* A key has one record, and icc events have one slot.
OneRecord ==
    /\ \A r, s \in records : r.key = s.key => r = s
    /\ \A r \in records : r.key.type = "ICC_ACCOUNT" => r.key.slotId = DEFAULT_SIM_SLOT_ID

HeardInv ==
    /\ NewsUnique /\ NewsNumbered /\ EveryoneOnce /\ NotYetHeard /\ Telling /\ ListsDistinct
    /\ OneRecord

-----------------------------------------------------------------------------
(* Facts the steps share. *)

\* An application of the model passes arguments of the declared types.
LEMMA AppTypes ==
    ASSUME app \in Apps
    PROVE  /\ SIM_SLOT_COUNT \in 0 .. MAX_SLOT_COUNT + 1
           /\ app.maxOns \in 0 .. MaxOns /\ MaxOns \in Nat
           /\ \A c \in app.onCalls :
                 /\ c.front \in Fronts /\ c.type \in ObserverMask /\ c.slotId \in Int /\ c.func \in Functions
                 /\ c.type \in IF c.front = "cj" THEN CjTypes ELSE AniTypes
           /\ \A c \in app.offCalls : c.front \in Fronts /\ c \in UNION {a.offCalls : a \in Apps}
           /\ \A u \in app.updates :
                 /\ u.type \in ObserverMask /\ u.slotId \in Int /\ u.val \in Int
                 /\ u.type = "CALL_STATE" => u.val \in CALL_STATUS_UNKNOWN .. CALL_STATUS_ANSWERED
           /\ app.threads \subseteq AppThreads
           /\ EventRunner \notin AppThreads /\ EventRunner \in Threads
           /\ NoThread \notin Threads /\ Binder \notin Threads
<1>1. \A c \in app.onCalls : c.type \in IF c.front = "cj" THEN CjTypes ELSE AniTypes
  BY FrontEndAssumption, CjAssumption, AniAssumption DEF Fronts
<1>2. \A c \in app.offCalls : c.front \in Fronts /\ c \in UNION {a.offCalls : a \in Apps}
  BY FrontEndAssumption
<1>3. EventRunner \in Threads
  BY DEF Threads
<1> QED BY <1>1, <1>2, <1>3, FrontEndAssumption, AniAssumption DEF SIM_SLOT_COUNT

\* The calls a thread may be in.
LEMMA JobTypes ==
    ASSUME TypeInv, NEW t \in Threads
    PROVE  /\ job[t].op \in OnOps \cup {"off", "remove", "none"}
           /\ job[t].op \in OnOps => job[t] \in [op : OnOps, front : Fronts, listener : Listener]
           /\ job[t].op = "off" =>
                 job[t] \in [op : {"off"}, front : Fronts, call : UNION {a.offCalls : a \in Apps}]
           /\ job[t].op = "remove" => job[t] \in [op : {"remove"}, front : Fronts, keys : SUBSET Keys]
           /\ job[t].op = "none" <=> job[t] = NoJob
<1>1. job[t] \in Jobs
  BY DEF TypeInv
<1>2. CASE job[t] = NoJob
  BY <1>2 DEF NoJob, OnOps
<1>3. CASE job[t] \in [op : OnOps, front : Fronts, listener : Listener]
  BY <1>3 DEF OnOps, NoJob
<1>4. CASE job[t] \in [op : {"off"}, front : Fronts, call : UNION {a.offCalls : a \in Apps}]
  BY <1>4 DEF OnOps, NoJob
<1>5. CASE job[t] \in [op : {"remove"}, front : Fronts, keys : SUBSET Keys]
  BY <1>5 DEF OnOps, NoJob
<1> QED BY <1>1, <1>2, <1>3, <1>4, <1>5 DEF Jobs

\* A thread enters or leaves a call; the others stay where they are.
LEMMA JobSet ==
    ASSUME TypeInv, NEW t \in Threads, NEW j, job' = [job EXCEPT ![t] = j]
    PROVE  /\ job'[t] = j
           /\ \A s \in Threads : s # t => job'[s] = job[s]
           /\ j \in Jobs => job' \in [Threads -> Jobs]
  BY DEF TypeInv

\* A thread returns from its call.
LEMMA JobEnds ==
    ASSUME TypeInv, NEW t \in Threads, Goes(t, NoJob)
    PROVE  /\ job'[t] = NoJob /\ job'[t].op = "none"
           /\ \A s \in Threads : s # t => job'[s] = job[s]
           /\ job' \in [Threads -> Jobs]
<1>1. NoJob \in Jobs
  BY DEF Jobs
<1>2. job'[t] = NoJob /\ (\A s \in Threads : s # t => job'[s] = job[s]) /\ job' \in [Threads -> Jobs]
  BY <1>1, JobSet DEF Goes
<1> QED BY <1>2 DEF NoJob

\* An on call goes on with its listener.
LEMMA JobAdds ==
    ASSUME TypeInv, NEW t \in Threads, NEW op \in OnOps, NEW l \in Listener, Goes(t, Adding(op, l))
    PROVE  /\ job'[t].op = op /\ job'[t].front = l.front /\ job'[t].listener = l
           /\ \A s \in Threads : s # t => job'[s] = job[s]
           /\ job' \in [Threads -> Jobs]
<1>1. Adding(op, l) \in Jobs
  BY DEF Jobs, Adding, Listener
<1>2. /\ job'[t] = Adding(op, l) /\ \A s \in Threads : s # t => job'[s] = job[s]
      /\ job' \in [Threads -> Jobs]
  BY <1>1, JobSet DEF Goes
<1> QED BY <1>2 DEF Adding

\* push_back.
LEMMA PushBack ==
    ASSUME NEW E, NEW list \in Seq(E), NEW x \in E
    PROVE  /\ Append(list, x) \in Seq(E)
           /\ ToSet(Append(list, x)) = ToSet(list) \cup {x}
<1>1. Len(list) \in Nat /\ DOMAIN list = 1 .. Len(list)
  OBVIOUS
<1>2. /\ Append(list, x) \in Seq(E)
      /\ DOMAIN Append(list, x) = 1 .. Len(list) + 1
      /\ Append(list, x)[Len(list) + 1] = x
      /\ \A i \in 1 .. Len(list) : Append(list, x)[i] = list[i]
  OBVIOUS
<1>3. 1 .. Len(list) + 1 = (1 .. Len(list)) \cup {Len(list) + 1}
  BY <1>1
<1> QED BY <1>1, <1>2, <1>3 DEF ToSet

\* The next of a queue, and what is left of it.
LEMMA PopFront ==
    ASSUME NEW E, NEW list \in Seq(E), list # <<>>
    PROVE  /\ Head(list) \in E /\ Head(list) = list[1] /\ 1 \in 1 .. Len(list)
           /\ Head(list) \in ToSet(list)
           /\ Tail(list) \in Seq(E) /\ ToSet(Tail(list)) \subseteq ToSet(list)
           /\ Len(Tail(list)) = Len(list) - 1 /\ Len(list) \in Nat
           /\ \A i \in 1 .. Len(list) - 1 : Tail(list)[i] = list[i + 1]
<1>1. Len(list) \in Nat /\ DOMAIN list = 1 .. Len(list) /\ Len(list) > 0
  OBVIOUS
<1>2. /\ Tail(list) \in Seq(E) /\ Len(Tail(list)) = Len(list) - 1
      /\ \A i \in 1 .. Len(list) - 1 : Tail(list)[i] = list[i + 1]
      /\ Head(list) = list[1] /\ Head(list) \in E
  OBVIOUS
<1>3. DOMAIN Tail(list) = 1 .. Len(list) - 1
  BY <1>1, <1>2
<1>4. ToSet(Tail(list)) \subseteq ToSet(list)
  <2>1. \A i \in 1 .. Len(list) - 1 : i + 1 \in 1 .. Len(list)
    BY <1>1
  <2> QED BY <1>1, <1>2, <1>3, <2>1 DEF ToSet
<1> QED BY <1>1, <1>2, <1>4 DEF ToSet

\* Taking listeners out leaves the others.
LEMMA TakenOutOf ==
    ASSUME NEW list \in Seq(Listener), NEW c
    PROVE  /\ Rest(list, c) \in Seq(Listener)
           /\ ToSet(Rest(list, c)) = ToSet(list) \ Removed(list, c)
           /\ Removed(list, c) \subseteq ToSet(list)
           /\ Distinct(list) => Distinct(Rest(list, c))
  BY KeptElements DEF Rest, Removed

\* Listeners in a list are listeners.
LEMMA ListedType ==
    ASSUME TypeInv
    PROVE  Listed \subseteq Listener /\ \A f \in Fronts : ListOf(f) \subseteq Listed
<1>1. ToSet(listenerList_) \subseteq Listener /\ ToSet(inner) \subseteq Listener
  BY DEF TypeInv, ToSet
<1> QED BY <1>1 DEF Listed, ListOf, Fronts

\* The slots of an off are visited in order as long as there are any.
LEMMA NextKeyExists ==
    ASSUME NEW keys, keys \subseteq Keys, keys # {}, \A k \in keys : k.slotId >= ALL_SLOTS
    PROVE  NextKey(keys) \in keys
<1> DEFINE T == {k.slotId + 1 : k \in keys}
<1>2. \A k \in keys : k.slotId \in Int /\ k.slotId + 1 \in Nat
  BY DEF Keys, ALL_SLOTS
<1>3. T \subseteq Nat /\ T # {}
  BY <1>2
<1>4. PICK n \in T : \A m \in T : n <= m
  <2> HIDE DEF T
  <2> QED BY <1>3, LeastElement
<1>5. PICK k \in keys : n = k.slotId + 1
  BY <1>4
<1>6. ASSUME NEW j \in keys PROVE k.slotId <= j.slotId
  <2>1. j.slotId + 1 \in T
    OBVIOUS
  <2>2. k.slotId + 1 <= j.slotId + 1
    <3> HIDE DEF T
    <3> QED BY <1>4, <1>5, <2>1
  <2> QED BY <1>2, <2>2
<1> QED BY <1>5, <1>6 DEF NextKey

-----------------------------------------------------------------------------
(* The initial state. *)

\* A process that has called nothing yet satisfies the invariant.
LEMMA InitHolds ==
    ASSUME Init
    PROVE  IndInv
<1>1. TypeInv
  <2>1. NoJob \in Jobs
    BY DEF Jobs
  <2>2. app.maxOns \in Nat
    BY FrontEndAssumption DEF Init, ProcessInit
  <2>3. NoCalls \in [CallSlots -> CALL_STATUS_UNKNOWN .. CALL_STATUS_ANSWERED]
    BY DEF NoCalls, CALL_STATUS_UNKNOWN, CALL_STATUS_ACTIVE, CALL_STATUS_ANSWERED
  <2> QED BY <2>1, <2>2, <2>3 DEF Init, ProcessInit, CjInit, AniInit, TypeInv
<1>2. \A f \in Fronts : ListOf(f) = {}
  BY DEF Init, CjInit, AniInit, ToSet, ListOf
<1>3. \A t \in Threads : job[t] = NoJob /\ job[t].op = "none"
  BY DEF Init, ProcessInit, NoJob
<1>4. \A f \in Fronts, t \in Threads : LockOf(f) # t
  BY FrontEndAssumption DEF Init, CjInit, AniInit, LockOf
<1>5. runner.pc = "idle" /\ exec = NoExec /\ innerLock # Binder /\ records = {} /\ late = {}
      /\ offInCallback = {} /\ isDeleting = {}
  BY DEF Init, ProcessInit, CjInit, AniInit, RunnerIdle, Binder, NoThread
<1>6. EventRunner \in Threads
  BY DEF Threads
<1> QED
  BY <1>1, <1>2, <1>3, <1>4, <1>5, <1>6 DEF IndInv, ListsProper, MutexOwners, Holds, OnePlace, Listed,
     ExecListed, LateCalls, RecordsFollow, Wanted, ToRemove, OnOps, LockedOps, Fronts

-----------------------------------------------------------------------------
(* Types. *)

\* An on call has a number no other has.
LEMMA NewNumber ==
    ASSUME TypeInv, ons < app.maxOns
    PROVE  /\ ons \in Nat /\ ons + 1 \in Ids /\ ons + 1 \in 0 .. app.maxOns /\ ons + 1 \in 1 .. ons + 1
           /\ \A n \in 1 .. ons : n # ons + 1 /\ n \in 1 .. ons + 1
<1>1. ons \in Nat /\ app.maxOns \in 0 .. MaxOns /\ MaxOns \in Nat
  BY AppTypes DEF TypeInv
<1> QED BY <1>1 DEF Ids

\* The listener a Cangjie on call makes is one of its front end.
LEMMA CjListenerProper ==
    ASSUME TypeInv, NEW c \in app.onCalls, c.front = "cj", ons < app.maxOns,
           CjIsValidSlotIdEx(c.type, CjSlotArgument(c))
    PROVE  /\ CjListener(c) \in Listener /\ Proper(CjListener(c))
           /\ CjListener(c).front = "cj" /\ CjListener(c).id = ons + 1
<1>1. /\ c.slotId \in Int /\ SIM_SLOT_COUNT \in Nat /\ c.type \in ObserverMask /\ c.func \in Functions
      /\ c.type \in CjTypes
  BY AppTypes DEF TypeInv
<1>2. ons + 1 \in Ids
  BY NewNumber
<1>3. CjSlotArgument(c) \in Int /\ (c.type = "ICC_ACCOUNT" => CjSlotArgument(c) = DEFAULT_SIM_SLOT_ID)
  BY <1>1 DEF CjSlotArgument, DEFAULT_SIM_SLOT_ID
<1> HIDE DEF CjSlotArgument
<1>4. CjSlotArgument(c) \in (IF c.type \in CallTypes THEN -1 ELSE 0) .. SIM_SLOT_COUNT
  BY <1>1, <1>3 DEF CjIsValidSlotIdEx, CallTypes, ALL_SLOTS, DEFAULT_SIM_SLOT_ID
<1> QED BY <1>1, <1>2, <1>3, <1>4 DEF CjListener, Listener, Proper, Fronts

\* The same for an ANI on call.
LEMMA AniListenerProper ==
    ASSUME TypeInv, NEW c \in app.onCalls, c.front = "ani", ons < app.maxOns,
           AniIsValidSlotIdEx(c.type, AniSlotArgument(c))
    PROVE  /\ AniListener(c) \in Listener /\ Proper(AniListener(c))
           /\ AniListener(c).front = "ani" /\ AniListener(c).id = ons + 1
<1>1. /\ c.slotId \in Int /\ SIM_SLOT_COUNT \in Nat /\ c.type \in ObserverMask /\ c.func \in Functions
      /\ c.type \in AniTypes
  BY AppTypes DEF TypeInv
<1>2. ons + 1 \in Ids
  BY NewNumber
<1>3. AniSlotArgument(c) \in Int /\ (c.type = "ICC_ACCOUNT" => AniSlotArgument(c) = DEFAULT_SIM_SLOT_ID)
  BY <1>1 DEF AniSlotArgument, DEFAULT_SIM_SLOT_ID, ALL_SLOTS
<1> HIDE DEF AniSlotArgument
<1>4. AniSlotArgument(c) \in (IF c.type \in CallTypes THEN -1 ELSE 0) .. SIM_SLOT_COUNT
  BY <1>1, <1>3 DEF AniIsValidSlotIdEx, ALL_SLOTS, DEFAULT_SIM_SLOT_ID
<1> QED BY <1>1, <1>2, <1>3, <1>4 DEF AniListener, Listener, Proper, Fronts

\* Calls of on and off begin.
LEMMA CallTypesKept ==
    ASSUME TypeInv, NEW t \in Threads,
           \/ \E c \in app.onCalls : c.front = "cj" /\ (CjOn(t, c) \/ CjOnWithoutEffect(t, c))
           \/ \E c \in app.offCalls : c.front = "cj" /\ CjOff(t, c)
           \/ \E c \in app.onCalls : c.front = "ani" /\ (AniOn(t, c) \/ AniOnRejected(t, c))
           \/ \E c \in app.offCalls : c.front = "ani" /\ AniOff(t, c),
           UNCHANGED cjVars, UNCHANGED aniVars
    PROVE  TypeInv'
<1>0. ASSUME job' \in [Threads -> Jobs], ons' \in 0 .. app.maxOns,
             UNCHANGED <<app, service, updates>>
      PROVE  TypeInv'
  BY <1>0 DEF TypeInv, service, cjVars, aniVars
<1>1. ASSUME NEW c \in app.onCalls, c.front = "cj" /\ CjOn(t, c)
      PROVE  TypeInv'
  <2>1. ons < app.maxOns /\ ons' = ons + 1 /\ UNCHANGED <<app, service, updates>>
    BY <1>1 DEF CjOn, CallOn
  <2>2. CjListener(c) \in Listener
    BY <1>1, <2>1, CjListenerProper DEF CjOn
  <2>3. job' \in [Threads -> Jobs]
    BY <1>1, <2>2, JobAdds DEF CjOn, OnOps
  <2> QED BY <1>0, <2>1, <2>3, NewNumber
<1>2. ASSUME NEW c \in app.onCalls, c.front = "ani" /\ AniOn(t, c)
      PROVE  TypeInv'
  <2>1. ons < app.maxOns /\ ons' = ons + 1 /\ UNCHANGED <<app, service, updates>>
    BY <1>2 DEF AniOn, CallOn
  <2>2. AniListener(c) \in Listener
    BY <1>2, <2>1, AniListenerProper DEF AniOn
  <2>3. job' \in [Threads -> Jobs]
    BY <1>2, <2>2, JobAdds DEF AniOn, OnOps
  <2> QED BY <1>0, <2>1, <2>3, NewNumber
<1>3. ASSUME NEW c \in app.onCalls, CjOnWithoutEffect(t, c) \/ AniOnRejected(t, c)
      PROVE  TypeInv'
  <2>1. ons < app.maxOns /\ ons' = ons + 1 /\ UNCHANGED <<app, job, service, updates>>
    BY <1>3 DEF CjOnWithoutEffect, AniOnRejected, CallOn
  <2> QED BY <1>0, <2>1, NewNumber DEF TypeInv
<1>4. ASSUME NEW c \in app.offCalls, CjOff(t, c) \/ AniOff(t, c)
      PROVE  TypeInv'
  <2>1. /\ UNCHANGED <<app, service, updates, ons>>
        /\ job' = [job EXCEPT ![t] = [op |-> "off", front |-> c.front, call |-> c]]
    BY <1>4 DEF CjOff, AniOff, CallOff
  <2>2. [op |-> "off", front |-> c.front, call |-> c] \in Jobs
    BY AppTypes DEF TypeInv, Jobs
  <2>3. job' \in [Threads -> Jobs]
    BY <2>1, <2>2, JobSet
  <2> QED BY <1>0, <2>1, <2>3 DEF TypeInv
<1> QED BY <1>1, <1>2, <1>3, <1>4

\* The service adds an observer: the replay is an event for the observer of the
\* record.
LEMMA AddTypes ==
    ASSUME TypeInv, NEW l \in Listener, Proper(l), NEW isUpdate, isUpdate => l.type \in CallTypes,
           AddStateObserver(l, isUpdate)
    PROVE  /\ records' \subseteq [key : Keys, front : Fronts, observer : Ids]
           /\ mail' \in [Ids -> Seq(Event)]
           /\ callState_' = callState_
           /\ \/ UNCHANGED mail
              \/ \E o \in Ids, ev \in Event :
                    /\ mail' = [mail EXCEPT ![o] = Append(@, ev)]
                    /\ ev.update = -l.id
<1> DEFINE old == {r \in records : r.key = Key(l)}
           record == IF old = {} THEN [key |-> Key(l), front |-> l.front, observer |-> l.id]
                     ELSE CHOOSE r \in old : TRUE
           replay == [front |-> record.front, type |-> l.type, slotId |-> l.slotId,
                      update |-> -l.id, val |-> callState_[l.slotId]]
<1>1. /\ l.type \in ObserverMask /\ l.slotId \in Int /\ l.front \in Fronts /\ l.id \in Ids /\ -l.id \in Int
      /\ Key(l) \in Keys
  BY DEF Listener, Ids, Key, Keys
<1>2. record \in [key : Keys, front : Fronts, observer : Ids]
  <2>1. CASE old = {}
    BY <2>1, <1>1
  <2>2. CASE old # {}
    BY <2>2 DEF TypeInv
  <2> QED BY <2>1, <2>2
<1>3. isUpdate => replay \in Event
  <2> HAVE isUpdate
  <2>1. l.slotId \in CallSlots
    <3>1. SIM_SLOT_COUNT \in 0 .. MAX_SLOT_COUNT + 1 /\ MAX_SLOT_COUNT \in Nat
      BY AppTypes DEF TypeInv, MAX_SLOT_COUNT
    <3> QED BY <3>1 DEF Proper, CallSlots
  <2>2. callState_[l.slotId] \in Int
    <3>1. callState_ \in [CallSlots -> CALL_STATUS_UNKNOWN .. CALL_STATUS_ANSWERED]
      BY DEF TypeInv
    <3>2. callState_[l.slotId] \in CALL_STATUS_UNKNOWN .. CALL_STATUS_ANSWERED
      BY <2>1, <3>1
    <3> QED BY <3>2 DEF CALL_STATUS_UNKNOWN, CALL_STATUS_ANSWERED
  <2>3. record.front \in Fronts
    BY <1>2
  <2> HIDE DEF record
  <2> QED BY <1>1, <2>2, <2>3 DEF Event
<1>4. /\ UNCHANGED callState_
      /\ \/ /\ records' = records \cup {record}
            /\ mail' = IF isUpdate THEN [mail EXCEPT ![record.observer] = Append(@, replay)] ELSE mail
         \/ UNCHANGED <<records, mail>>
  BY DEF AddStateObserver
<1>5. replay.update = -l.id
  OBVIOUS
<1> HIDE DEF record, replay
<1>6. ASSUME isUpdate PROVE Append(mail[record.observer], replay) \in Seq(Event)
  <2>1. mail[record.observer] \in Seq(Event)
    BY <1>2 DEF TypeInv
  <2> QED BY <1>3, <1>6, <2>1, AppendProperties
<1>7. records' \subseteq [key : Keys, front : Fronts, observer : Ids] /\ mail' \in [Ids -> Seq(Event)]
  BY <1>2, <1>4, <1>6 DEF TypeInv
<1>8. \/ UNCHANGED mail
      \/ \E o \in Ids, ev \in Event : mail' = [mail EXCEPT ![o] = Append(@, ev)] /\ ev.update = -l.id
  BY <1>2, <1>3, <1>4, <1>5
<1> QED BY <1>4, <1>7, <1>8

-----------------------------------------------------------------------------
(* What a step of either front end may do to the lists and the mutexes. *)

SameLists == \A g \in Fronts : ListOf(g)' = ListOf(g)
SameLocks == \A g \in Fronts : LockOf(g)' = LockOf(g)
OtherJobs(t) == \A s \in Threads : s # t => job'[s] = job[s]

Takes(t, f) == LockOf(f) = NoThread /\ \A g \in Fronts : LockOf(g)' = IF g = f THEN t ELSE LockOf(g)
Releases(t, f) ==
    Holds(t, f) /\ \A g \in Fronts : LockOf(g)' = IF g = f THEN NoThread ELSE LockOf(g)
Puts(f, l) == \A g \in Fronts : ListOf(g)' = IF g = f THEN ListOf(g) \cup {l} ELSE ListOf(g)

\* The two mutexes by name.
LEMMA Locks ==
    /\ LockOf("cj") = operatorMutex_ /\ LockOf("ani") = innerLock
    /\ LockOf("cj")' = operatorMutex_' /\ LockOf("ani")' = innerLock'
    /\ ListOf("cj") = ToSet(listenerList_) /\ ListOf("ani") = ToSet(inner)
    /\ ListOf("cj")' = ToSet(listenerList_') /\ ListOf("ani")' = ToSet(inner')
    /\ "cj" \in Fronts /\ "ani" \in Fronts
  BY DEF LockOf, ListOf, Fronts

\* A step that takes or releases a mutex together with the call that needs it,
\* or neither, keeps every mutex with its owner.
LEMMA LocksKept ==
    ASSUME TypeInv, MutexOwners, NEW t \in Threads, NEW f \in Fronts, OtherJobs(t), UNCHANGED exec,
           \/ SameLocks /\ job[t].op \notin LockedOps /\ job'[t].op \notin LockedOps
           \/ SameLocks /\ job[t].op \in LockedOps /\ job'[t].op \in LockedOps /\ job'[t].front = job[t].front
           \/ Takes(t, f) /\ job'[t].op \in LockedOps /\ job'[t].front = f /\ job[t].op \notin LockedOps
           \/ Releases(t, f) /\ job'[t].op \notin LockedOps
    PROVE  MutexOwners'
<1>0. NoThread \notin Threads /\ Binder \notin Threads /\ Binder # NoThread
  BY AppTypes DEF TypeInv, Binder, NoThread
<1>1. \A s \in Threads, g \in Fronts : s # t => (Holds(s, g)' <=> Holds(s, g))
  BY DEF OtherJobs, Holds
<1>2. \A s \in Threads, g \in Fronts : LockOf(g) = s <=> Holds(s, g)
  BY DEF MutexOwners
<1>3. /\ LockOf("ani") = innerLock /\ LockOf("ani")' = innerLock' /\ "ani" \in Fronts
      /\ innerLock = Binder <=> exec # NoExec
      /\ exec' # NoExec <=> exec # NoExec
  BY Locks DEF MutexOwners
<1>4. CASE SameLocks
  <2>1. \A g \in Fronts : Holds(t, g)' <=> Holds(t, g)
    BY <1>4, <1>0, <1>2 DEF SameLocks, Takes, Releases, Holds
  <2>2. \A s \in Threads, g \in Fronts : LockOf(g)' = s <=> Holds(s, g)'
    BY <1>1, <1>2, <1>4, <2>1 DEF SameLocks
  <2> QED BY <1>3, <1>4, <2>2 DEF MutexOwners, SameLocks
<1>5. CASE Takes(t, f) /\ job'[t].op \in LockedOps /\ job'[t].front = f /\ job[t].op \notin LockedOps
  <2>1. \A g \in Fronts : Holds(t, g)' <=> g = f
    BY <1>5 DEF Holds
  <2>2. \A g \in Fronts : ~Holds(t, g)
    BY <1>5 DEF Holds
  <2>3. \A s \in Threads, g \in Fronts : LockOf(g)' = s <=> Holds(s, g)'
    BY <1>0, <1>1, <1>2, <1>5, <2>1, <2>2 DEF Takes
  <2>4. innerLock' = Binder <=> innerLock = Binder
    BY <1>0, <1>3, <1>5 DEF Takes
  <2> QED BY <1>3, <2>3, <2>4 DEF MutexOwners
<1>6. CASE Releases(t, f) /\ job'[t].op \notin LockedOps
  <2>1. \A g \in Fronts : ~Holds(t, g)'
    BY <1>6 DEF Holds
  <2>2. LockOf(f) = t /\ \A g \in Fronts : Holds(t, g) => g = f
    BY <1>2, <1>6 DEF Releases, Holds
  <2>3. \A s \in Threads, g \in Fronts : LockOf(g)' = s <=> Holds(s, g)'
    BY <1>0, <1>1, <1>2, <1>6, <2>1, <2>2 DEF Releases
  <2>4. innerLock' = Binder <=> innerLock = Binder
    BY <1>0, <1>3, <1>6, <2>2 DEF Releases
  <2> QED BY <1>3, <2>3, <2>4 DEF MutexOwners
<1> QED BY <1>4, <1>5, <1>6

\* Lists that grow only by what on let through stay proper.
LEMMA ProperKept ==
    ASSUME TypeInv, ListsProper, NEW t \in Threads, OtherJobs(t), UNCHANGED app,
           \A g \in Fronts : \A m \in ListOf(g)' : m \in ListOf(g) \/ (m.front = g /\ Proper(m)),
           job'[t].op \in OnOps =>
               job'[t].listener.front = job'[t].front /\ Proper(job'[t].listener),
           job'[t].op = "remove" => \A k \in job'[t].keys : k.slotId >= ALL_SLOTS
    PROVE  ListsProper'
<1>1. \A m : Proper(m)' <=> Proper(m)
  BY DEF Proper, SIM_SLOT_COUNT
<1>2. \A g \in Fronts : \A m \in ListOf(g)' : m.front = g /\ Proper(m)
  BY DEF ListsProper
<1>3. \A s \in Threads : job'[s].op \in OnOps =>
          job'[s].listener.front = job'[s].front /\ Proper(job'[s].listener)
  BY DEF ListsProper, OtherJobs
<1>4. \A s \in Threads : job'[s].op = "remove" => \A k \in job'[s].keys : k.slotId >= ALL_SLOTS
  BY DEF ListsProper, OtherJobs
<1>5. \A s \in Threads : Proper(job[s].listener)' <=> Proper(job'[s].listener)
  BY DEF Proper, SIM_SLOT_COUNT
<1> HIDE DEF Proper
<1> QED BY <1>1, <1>2, <1>3, <1>4, <1>5 DEF ListsProper

\* A new on call, and one that goes on, keep every listener in one place.
LEMMA PlaceOfOn ==
    ASSUME TypeInv, OnePlace, NEW t \in Threads, OtherJobs(t), SameLists, UNCHANGED isDeleting,
           NEW l, job'[t].op \in OnOps => job'[t].listener = l,
           \/ UNCHANGED ons /\ job[t].op \in OnOps /\ job[t].listener = l
           \/ UNCHANGED ons /\ job'[t].op \notin OnOps
           \/ ons' = ons + 1 /\ job'[t].op \notin OnOps
           \/ ons' = ons + 1 /\ job[t].op \notin OnOps /\ l.id = ons + 1
    PROVE  OnePlace'
<1>0. ons \in Nat /\ \A n \in 1 .. ons : n \in 1 .. ons' /\ n # ons + 1
  BY AppTypes DEF TypeInv
<1>1. Listed' = Listed /\ ListOf("cj")' = ListOf("cj")
  BY Locks DEF SameLists, Listed
<1>2. isDeleting' \subseteq 1 .. ons' /\ \A m \in Listed' : m.id \in 1 .. ons'
  BY <1>0, <1>1 DEF OnePlace
<1>3. \A m, n \in Listed' : m.id = n.id => m = n
  BY <1>1 DEF OnePlace
<1>4. \A m \in ListOf("cj")' : m.id \notin isDeleting'
  BY <1>1 DEF OnePlace
<1>5. \A s \in Threads : job[s].op \in OnOps =>
          /\ job[s].listener.id \in 1 .. ons /\ job[s].listener.id \notin isDeleting
          /\ \A m \in Listed : m.id # job[s].listener.id
  BY DEF OnePlace
<1>6. job'[t].op \in OnOps =>
          /\ l.id \in 1 .. ons' /\ l.id \notin isDeleting
          /\ \A m \in Listed : m.id # l.id
          /\ \A s \in Threads : s # t /\ job[s].op \in OnOps => job[s].listener.id # l.id
  <2> SUFFICES ASSUME job'[t].op \in OnOps
               PROVE  /\ l.id \in 1 .. ons' /\ l.id \notin isDeleting
                      /\ \A m \in Listed : m.id # l.id
                      /\ \A s \in Threads : s # t /\ job[s].op \in OnOps => job[s].listener.id # l.id
    OBVIOUS
  <2>1. CASE job[t].op \in OnOps /\ job[t].listener = l
    BY <2>1, <1>0, <1>5 DEF OnePlace
  <2>2. CASE ons' = ons + 1 /\ job[t].op \notin OnOps /\ l.id = ons + 1
    <3>1. l.id \in 1 .. ons' /\ \A n \in 1 .. ons : n # l.id
      BY <2>2, <1>0
    <3> QED BY <3>1, <1>5 DEF OnePlace
  <2> QED BY <2>1, <2>2
<1>7. \A s \in Threads : job'[s].op \in OnOps =>
          /\ job'[s].listener.id \in 1 .. ons' /\ job'[s].listener.id \notin isDeleting'
          /\ \A m \in Listed' : m.id # job'[s].listener.id
  BY <1>0, <1>1, <1>5, <1>6 DEF OtherJobs
<1>8. \A s, r \in Threads : job'[s].op \in OnOps /\ job'[r].op \in OnOps /\ s # r
          => job'[s].listener.id # job'[r].listener.id
  BY <1>6 DEF OtherJobs, OnePlace
<1> QED BY <1>2, <1>3, <1>4, <1>7, <1>8 DEF OnePlace

\* The listener of an on call moves into the list.
LEMMA PlaceOfNew ==
    ASSUME TypeInv, OnePlace, NEW t \in Threads, OtherJobs(t), NEW f \in Fronts, NEW l, Puts(f, l),
           UNCHANGED <<isDeleting, ons>>, job[t].op \in OnOps, job[t].listener = l,
           job'[t].op \notin OnOps
    PROVE  OnePlace'
<1>1. Listed' = Listed \cup {l} /\ ListOf("cj")' \subseteq ListOf("cj") \cup {l}
  BY Locks DEF Puts, Listed, Fronts
<1>2. \A s \in Threads : job[s].op \in OnOps =>
          /\ job[s].listener.id \in 1 .. ons /\ job[s].listener.id \notin isDeleting
          /\ \A m \in Listed : m.id # job[s].listener.id
  BY DEF OnePlace
<1>3. l.id \in 1 .. ons /\ l.id \notin isDeleting /\ \A m \in Listed : m.id # l.id
  BY <1>2
<1>4. \A s \in Threads : job'[s].op \in OnOps =>
          /\ job'[s].listener.id \in 1 .. ons /\ job'[s].listener.id \notin isDeleting
          /\ \A m \in Listed' : m.id # job'[s].listener.id
  <2> SUFFICES ASSUME NEW s \in Threads, job'[s].op \in OnOps
               PROVE  /\ job'[s].listener.id \in 1 .. ons /\ job'[s].listener.id \notin isDeleting
                      /\ \A m \in Listed' : m.id # job'[s].listener.id
    OBVIOUS
  <2>1. s # t /\ job'[s] = job[s]
    BY DEF OtherJobs
  <2>2. l.id # job[s].listener.id
    BY <2>1 DEF OnePlace
  <2> QED BY <1>1, <1>2, <2>1, <2>2
<1>5. \A s, r \in Threads : job'[s].op \in OnOps /\ job'[r].op \in OnOps /\ s # r
          => job'[s].listener.id # job'[r].listener.id
  BY DEF OtherJobs, OnePlace
<1>6. \A m, n \in Listed' : m.id = n.id => m = n
  BY <1>1, <1>3 DEF OnePlace
<1>7. \A m \in ListOf("cj")' : m.id \notin isDeleting
  BY <1>1, <1>3 DEF OnePlace
<1>8. isDeleting \subseteq 1 .. ons /\ \A m \in Listed' : m.id \in 1 .. ons
  BY <1>1, <1>3 DEF OnePlace
<1> QED BY <1>4, <1>5, <1>6, <1>7, <1>8 DEF OnePlace

\* Listeners are taken out, the Cangjie ones with isDeleting set.
LEMMA PlaceOfOld ==
    ASSUME TypeInv, OnePlace, NEW t \in Threads, OtherJobs(t), UNCHANGED ons,
           job'[t].op \notin OnOps, \A g \in Fronts : ListOf(g)' \subseteq ListOf(g),
           isDeleting' = isDeleting \cup {l.id : l \in ListOf("cj") \ ListOf("cj")'}
    PROVE  OnePlace'
<1>1. Listed' \subseteq Listed /\ ListOf("cj")' \subseteq ListOf("cj") /\ ListOf("cj") \subseteq Listed
  BY Locks DEF Listed
<1> DEFINE gone == {l.id : l \in ListOf("cj") \ ListOf("cj")'}
<1>2. gone \subseteq 1 .. ons
  BY <1>1 DEF OnePlace
<1>3. \A m \in ListOf("cj")' : m.id \notin gone
  BY <1>1 DEF OnePlace
<1>4. \A s \in Threads : job[s].op \in OnOps => job[s].listener.id \notin gone
  BY <1>1 DEF OnePlace
<1>5. isDeleting' = isDeleting \cup gone
  OBVIOUS
<1> HIDE DEF gone
<1>6. isDeleting' \subseteq 1 .. ons /\ \A m \in Listed' : m.id \in 1 .. ons
  BY <1>1, <1>2, <1>5 DEF OnePlace
<1>7. \A m, n \in Listed' : m.id = n.id => m = n
  BY <1>1 DEF OnePlace
<1>8. \A m \in ListOf("cj")' : m.id \notin isDeleting'
  BY <1>1, <1>3, <1>5 DEF OnePlace
<1>9. \A s \in Threads : job'[s].op \in OnOps =>
          /\ job'[s].listener.id \in 1 .. ons /\ job'[s].listener.id \notin isDeleting'
          /\ \A m \in Listed' : m.id # job'[s].listener.id
  BY <1>1, <1>4, <1>5 DEF OtherJobs, OnePlace
<1>10. \A s, r \in Threads : job'[s].op \in OnOps /\ job'[r].op \in OnOps /\ s # r
          => job'[s].listener.id # job'[r].listener.id
  BY DEF OtherJobs, OnePlace
<1> QED BY <1>6, <1>7, <1>8, <1>9, <1>10 DEF OnePlace

\* The history of late calls while a thread is in a call of on or off.
LEMMA LateKept ==
    ASSUME TypeInv, LateCalls, NEW t \in Threads, OtherJobs(t), UNCHANGED <<runner, late>>,
           job[t] # NoJob \/ t # EventRunner \/ runner.pc = "in",
           NEW gone, \A n \in gone : n \notin isDeleting,
           isDeleting' = isDeleting \cup gone,
           offInCallback' = IF t = EventRunner THEN offInCallback \cup gone ELSE offInCallback,
           gone = {} \/ job[t] # NoJob
    PROVE  LateCalls'
<1>0. EventRunner \in Threads
  BY DEF Threads
<1>1. job'[EventRunner] # NoJob => runner'.pc = "in"
  BY <1>0 DEF LateCalls, OtherJobs
<1>2. \A c \in late' : c[1] \in isDeleting'
  BY DEF LateCalls
<1>3. \A c \in late' : c[1] \notin offInCallback'
  BY DEF LateCalls
<1>4. offInCallback' \subseteq isDeleting'
  BY DEF LateCalls
<1>5. runner'.pc = "call" => Head(runner'.todo).id \notin offInCallback'
  <2>1. runner.pc = "call" => t # EventRunner \/ gone = {}
    BY <1>0 DEF LateCalls
  <2> QED BY <2>1 DEF LateCalls
<1> QED BY <1>1, <1>2, <1>3, <1>4, <1>5 DEF LateCalls

\* The same for a call that takes nothing out.
LEMMA LateSame ==
    ASSUME TypeInv, LateCalls, NEW t \in Threads, OtherJobs(t),
           UNCHANGED <<runner, late, isDeleting, offInCallback>>,
           job[t] # NoJob \/ t # EventRunner \/ runner.pc = "in"
    PROVE  LateCalls'
<1>0. EventRunner \in Threads
  BY DEF Threads
<1> QED BY <1>0 DEF LateCalls, OtherJobs

-----------------------------------------------------------------------------
(* What a step may do to the records. *)

\* Nothing that counts for the records changes.
LEMMA RecordsUntouched ==
    ASSUME TypeInv, RecordsFollow, UNCHANGED <<records, lost, failed, reported>>,
           \A g \in Fronts, k \in Keys : Wanted(g, k)' <=> Wanted(g, k),
           \A g \in Fronts, k \in Keys : ToRemove(g, k)' <=> ToRemove(g, k)
    PROVE  RecordsFollow'
<1>1. \A g \in Fronts : GivenUp(g)' = GivenUp(g)
  BY DEF GivenUp
<1>2. \A r \in records : r.key \in Keys /\ r.front \in Fronts
  BY DEF TypeInv
<1>3. \A r \in records : GivenUp(r.front)' = GivenUp(r.front)
  BY DEF GivenUp
<1> HIDE DEF GivenUp, Wanted, ToRemove
<1>4. \A g \in Fronts, k \in Keys : Wanted(g, k)' =>
          <<g, k>> \in lost' \/ \E r \in records' : r.key = k /\ r.front = g
  BY DEF RecordsFollow
<1>5. \A g \in Fronts, k \in Keys : Wanted(g, k)' => ~ToRemove(g, k)'
  BY DEF RecordsFollow
<1>6. \A r \in records' :
          r.key \in GivenUp(r.front)' \/ ToRemove(r.front, r.key)' \/ Wanted(r.front, r.key)'
  BY <1>1, <1>2, <1>3 DEF RecordsFollow
<1> QED BY <1>4, <1>5, <1>6 DEF RecordsFollow

\* A call that neither holds a registered key nor removes one.
LEMMA RecordsSameLists ==
    ASSUME TypeInv, RecordsFollow, UNCHANGED <<records, lost, failed, reported>>,
           NEW t \in Threads, OtherJobs(t), SameLists,
           job[t].op # "added" /\ job'[t].op # "added",
           job[t].op = "remove" => job[t].keys = {}, job'[t].op # "remove"
    PROVE  RecordsFollow'
<1>1. \A g \in Fronts, k \in Keys : Wanted(g, k)' <=> Wanted(g, k)
  BY DEF Wanted, SameLists, OtherJobs
<1>2. \A g \in Fronts, k \in Keys : ToRemove(g, k)' <=> ToRemove(g, k)
  BY DEF ToRemove, OtherJobs
<1> QED BY <1>1, <1>2, RecordsUntouched

\* A listener enters the list with a key that is already wanted.
LEMMA RecordsNewListener ==
    ASSUME TypeInv, RecordsFollow, UNCHANGED <<records, lost, failed, reported>>,
           NEW t \in Threads, OtherJobs(t), NEW f \in Fronts, NEW l, Puts(f, l),
           job[t].op \in OnOps, job[t].front = f, job[t].listener = l, job'[t] = NoJob,
           job[t].op = "added" \/ \E m \in ListOf(f) : Key(m) = Key(l)
    PROVE  RecordsFollow'
<1>0. job'[t].op = "none"
  BY DEF NoJob
<1>1. ASSUME NEW g \in Fronts, NEW k \in Keys
      PROVE  Wanted(g, k)' <=> Wanted(g, k)
  <2>1. (\E m \in ListOf(g)' : Key(m) = k) <=> (\E m \in ListOf(g) : Key(m) = k) \/ (g = f /\ Key(l) = k)
    BY DEF Puts
  <2>2. (\E s \in Threads : job[s].op = "added" /\ job[s].front = g /\ Key(job[s].listener) = k)
          <=> \/ \E s \in Threads : job'[s].op = "added" /\ job'[s].front = g /\ Key(job'[s].listener) = k
              \/ job[t].op = "added" /\ g = f /\ Key(l) = k
    BY <1>0 DEF OtherJobs
  <2>3. Wanted(g, k)' <=>
          \/ \E m \in ListOf(g)' : Key(m) = k
          \/ \E s \in Threads : job'[s].op = "added" /\ job'[s].front = g /\ Key(job'[s].listener) = k
    BY DEF Wanted, Key
  <2> HIDE DEF Key
  <2> QED BY <2>1, <2>2, <2>3 DEF Wanted
<1>2. \A g \in Fronts, k \in Keys : ToRemove(g, k)' <=> ToRemove(g, k)
  BY <1>0 DEF ToRemove, OtherJobs, OnOps
<1> QED BY <1>1, <1>2, RecordsUntouched

\* The service has taken the key of a listener: it has a record of the front end,
\* or the key is lost.
LEMMA RecordsAdded ==
    ASSUME TypeInv, RecordsFollow, MutexOwners, UNCHANGED <<failed, reported>>,
           NEW t \in Threads, OtherJobs(t), SameLists, NEW l \in Listener,
           job[t].op = "add", job[t].listener = l, job[t].front = l.front,
           job'[t].op = "added", job'[t].listener = l, job'[t].front = l.front,
           NEW isUpdate, AddStateObserver(l, isUpdate)
    PROVE  RecordsFollow'
<1> DEFINE f == l.front
           old == {r \in records : r.key = Key(l)}
           record == IF old = {} THEN [key |-> Key(l), front |-> l.front, observer |-> l.id]
                     ELSE CHOOSE r \in old : TRUE
           own == SlotIsRecorded(l.slotId, AppToken) /\ record.front = l.front
<1>0. f \in Fronts /\ Key(l) \in Keys
  BY DEF Listener, Key, Keys
<1>1. record.key = Key(l) /\ (record \in records \/ record.front = f)
  <2>1. CASE old = {}
    BY <2>1
  <2>2. CASE old # {}
    BY <2>2
  <2> QED BY <2>1, <2>2
<1>2. /\ IF SlotIsRecorded(l.slotId, AppToken) THEN records' = records \cup {record} ELSE records' = records
      /\ lost' = IF own THEN lost \ {<<f, Key(l)>>} ELSE lost \cup {<<f, Key(l)>>}
  BY DEF AddStateObserver
<1> HIDE DEF record
<1>3. records \subseteq records' /\ \A r \in records' : r \in records \/ (r.key = Key(l) /\ r.front = f)
  BY <1>1, <1>2
<1>4. <<f, Key(l)>> \in lost' \/ \E r \in records' : r.key = Key(l) /\ r.front = f
  BY <1>1, <1>2
<1>5. \A d \in lost : d \in lost' \/ d = <<f, Key(l)>>
  BY <1>2
<1> HIDE DEF own, old
<1>6. ASSUME NEW g \in Fronts, NEW k \in Keys
      PROVE  Wanted(g, k)' <=> Wanted(g, k) \/ (g = f /\ k = Key(l))
  <2>1. Wanted(g, k)' <=>
          \/ \E m \in ListOf(g) : Key(m) = k
          \/ \E s \in Threads : job'[s].op = "added" /\ job'[s].front = g /\ Key(job'[s].listener) = k
    BY DEF Wanted, Key, SameLists
  <2>2. (\E s \in Threads : job'[s].op = "added" /\ job'[s].front = g /\ Key(job'[s].listener) = k)
          <=> \/ \E s \in Threads : job[s].op = "added" /\ job[s].front = g /\ Key(job[s].listener) = k
              \/ g = f /\ Key(l) = k
    <3> HIDE DEF Key
    <3> QED BY DEF OtherJobs
  <2> HIDE DEF Key
  <2> QED BY <2>1, <2>2 DEF Wanted
<1>7. \A g \in Fronts, k \in Keys : ToRemove(g, k)' <=> ToRemove(g, k)
  BY DEF ToRemove, OtherJobs
<1>8. \A k \in Keys : ~ToRemove(f, k)
  <2>1. Holds(t, f)
    BY DEF Holds, LockedOps
  <2>2. \A s \in Threads : Holds(s, f) => s = t
    BY <1>0, <2>1 DEF MutexOwners
  <2> QED BY <2>2 DEF ToRemove, Holds, LockedOps
<1> HIDE DEF f
<1>9. \A g \in Fronts, k \in Keys : Wanted(g, k)' =>
          <<g, k>> \in lost' \/ \E r \in records' : r.key = k /\ r.front = g
  BY <1>3, <1>4, <1>5, <1>6 DEF RecordsFollow
<1>10. \A g \in Fronts, k \in Keys : Wanted(g, k)' => ~ToRemove(g, k)'
  BY <1>6, <1>7, <1>8 DEF RecordsFollow
<1>11. \A r \in records' : r.key \in GivenUp(r.front)' \/ ToRemove(r.front, r.key)' \/ Wanted(r.front, r.key)'
  <2> SUFFICES ASSUME NEW r \in records'
               PROVE  r.key \in GivenUp(r.front)' \/ ToRemove(r.front, r.key)' \/ Wanted(r.front, r.key)'
    OBVIOUS
  <2>1. CASE r \in records
    <3>1. r.key \in Keys /\ r.front \in Fronts
      BY <2>1 DEF TypeInv
    <3>2. GivenUp(r.front)' = GivenUp(r.front)
      BY DEF GivenUp
    <3> QED BY <2>1, <3>1, <3>2, <1>6, <1>7 DEF RecordsFollow
  <2>2. CASE r.key = Key(l) /\ r.front = f
    BY <2>2, <1>0, <1>6
  <2> QED BY <2>1, <2>2, <1>3
<1> QED BY <1>9, <1>10, <1>11 DEF RecordsFollow

\* off takes listeners out: the keys it will remove are those nobody in the list
\* wants any more.
LEMMA RecordsTakenOut ==
    ASSUME TypeInv, RecordsFollow, MutexOwners, UNCHANGED <<records, lost, failed, reported>>,
           NEW t \in Threads, OtherJobs(t), NEW f \in Fronts, LockOf(f) = NoThread,
           job[t].op = "off", job'[t].op = "remove", job'[t].front = f,
           ListOf(f)' \subseteq ListOf(f), \A g \in Fronts : g # f => ListOf(g)' = ListOf(g),
           \A k \in Keys : k \in job'[t].keys <=>
               /\ \E m \in ListOf(f) : Key(m) = k
               /\ ~\E m \in ListOf(f)' : Key(m) = k
    PROVE  RecordsFollow'
<1>1. \A s \in Threads : ~(job[s].op \in LockedOps /\ job[s].front = f)
  BY AppTypes DEF TypeInv, MutexOwners, Holds
<1>2. \A s \in Threads : job'[s].op = "added" <=> job[s].op = "added"
  BY DEF OtherJobs
<1>3. ASSUME NEW g \in Fronts, NEW k \in Keys
      PROVE  /\ Wanted(g, k)' <=>
                   \/ \E m \in ListOf(g)' : Key(m) = k
                   \/ \E s \in Threads : job[s].op = "added" /\ job[s].front = g /\ Key(job[s].listener) = k
             /\ ToRemove(g, k)' <=> ToRemove(g, k) \/ (g = f /\ k \in job'[t].keys)
  <2>1. Wanted(g, k)' <=>
          \/ \E m \in ListOf(g)' : Key(m) = k
          \/ \E s \in Threads : job'[s].op = "added" /\ job'[s].front = g /\ Key(job'[s].listener) = k
    BY DEF Wanted, Key
  <2>2. \A s \in Threads : job'[s].op = "added" => job'[s] = job[s]
    BY DEF OtherJobs
  <2>3. ToRemove(g, k)' <=> ToRemove(g, k) \/ (g = f /\ k \in job'[t].keys)
    BY DEF ToRemove, OtherJobs
  <2> HIDE DEF Key
  <2> QED BY <2>1, <2>2, <2>3, <1>2
<1>4. \A k \in Keys : Wanted(f, k) <=> \E m \in ListOf(f) : Key(m) = k
  BY <1>1 DEF Wanted, LockedOps
<1>5. \A k \in Keys : Wanted(f, k)' <=> \E m \in ListOf(f)' : Key(m) = k
  BY <1>1, <1>3 DEF LockedOps
<1>6. \A g \in Fronts, k \in Keys : g # f => (Wanted(g, k)' <=> Wanted(g, k))
  BY <1>3 DEF Wanted
<1>7. \A k \in Keys : ~ToRemove(f, k)
  BY <1>1 DEF ToRemove, LockedOps
<1> HIDE DEF Wanted, ToRemove, Key
<1>8. \A k \in Keys : Wanted(f, k)' => Wanted(f, k)
  BY <1>4, <1>5
<1>9. \A g \in Fronts, k \in Keys : Wanted(g, k)' =>
          <<g, k>> \in lost' \/ \E r \in records' : r.key = k /\ r.front = g
  BY <1>6, <1>8 DEF RecordsFollow
<1>10. \A g \in Fronts, k \in Keys : Wanted(g, k)' => ~ToRemove(g, k)'
  <2>1. \A k \in Keys : Wanted(f, k)' => ~ToRemove(f, k)'
    BY <1>3, <1>5, <1>7
  <2>2. \A g \in Fronts, k \in Keys : g # f => (ToRemove(g, k)' <=> ToRemove(g, k))
    BY <1>3
  <2> QED BY <2>1, <2>2, <1>6 DEF RecordsFollow
<1>11. \A r \in records' : r.key \in GivenUp(r.front)' \/ ToRemove(r.front, r.key)' \/ Wanted(r.front, r.key)'
  <2> SUFFICES ASSUME NEW r \in records
               PROVE  r.key \in GivenUp(r.front)' \/ ToRemove(r.front, r.key)' \/ Wanted(r.front, r.key)'
    OBVIOUS
  <2>1. r.key \in Keys /\ r.front \in Fronts
    BY DEF TypeInv
  <2>2. GivenUp(r.front)' = GivenUp(r.front)
    BY DEF GivenUp
  <2>3. CASE r.front = f
    BY <2>1, <2>2, <2>3, <1>3, <1>4, <1>5, <1>7 DEF RecordsFollow
  <2>4. CASE r.front # f
    BY <2>1, <2>2, <2>4, <1>3, <1>6 DEF RecordsFollow
  <2> QED BY <2>3, <2>4
<1> QED BY <1>9, <1>10, <1>11 DEF RecordsFollow

\* The loop of off goes on: what leaves its keys has no record any more, or the
\* failure is known; a record of the other front end that went is lost.
LEMMA RecordsRemoved ==
    ASSUME TypeInv, RecordsFollow, NEW t \in Threads, OtherJobs(t), NEW f \in Fronts, SameLists,
           job[t].op = "remove", job[t].front = f, job'[t].op = "remove", job'[t].front = f,
           job'[t].keys \subseteq job[t].keys,
           records' \subseteq records, lost \subseteq lost',
           \A r \in records : r \in records' \/ (r.key \in job[t].keys /\ (r.front = f \/ <<r.front, r.key>> \in lost')),
           \A g \in Fronts : GivenUp(g) \subseteq GivenUp(g)',
           \A k \in job[t].keys : k \in job'[t].keys \/ k \in GivenUp(f)' \/ \A r \in records' : r.key # k
    PROVE  RecordsFollow'
<1>1. ASSUME NEW g \in Fronts, NEW k \in Keys PROVE Wanted(g, k)' <=> Wanted(g, k)
  <2>1. \A s \in Threads : (job'[s].op = "added" \/ job[s].op = "added") => job'[s] = job[s]
    BY DEF OtherJobs
  <2> QED BY <2>1 DEF Wanted, SameLists
<1>2. ASSUME NEW g \in Fronts, NEW k \in Keys
      PROVE  /\ ToRemove(g, k)' => ToRemove(g, k)
             /\ ToRemove(g, k) => ToRemove(g, k)' \/ (g = f /\ k \in job[t].keys)
  BY DEF ToRemove, OtherJobs
<1>3. \A k \in Keys : k \in job[t].keys => ToRemove(f, k)
  BY DEF ToRemove
<1>4. \A k \in Keys : k \in job'[t].keys => ToRemove(f, k)'
  BY DEF ToRemove
<1> HIDE DEF Wanted, ToRemove, GivenUp
<1>5. \A g \in Fronts, k \in Keys : Wanted(g, k)' =>
          <<g, k>> \in lost' \/ \E r \in records' : r.key = k /\ r.front = g
  <2> SUFFICES ASSUME NEW g \in Fronts, NEW k \in Keys, Wanted(g, k)
               PROVE  <<g, k>> \in lost' \/ \E r \in records' : r.key = k /\ r.front = g
    BY <1>1
  <2>1. CASE <<g, k>> \in lost
    BY <2>1
  <2>2. CASE \E r \in records : r.key = k /\ r.front = g
    <3>1. PICK r \in records : r.key = k /\ r.front = g
      BY <2>2
    <3>2. CASE r \in records'
      BY <3>1, <3>2
    <3>3. CASE r.key \in job[t].keys /\ (r.front = f \/ <<r.front, r.key>> \in lost')
      <4>1. r.front = f => ToRemove(g, k)
        BY <3>1, <3>3, <1>3
      <4> QED BY <3>1, <3>3, <4>1 DEF RecordsFollow
    <3> QED BY <3>2, <3>3
  <2> QED BY <2>1, <2>2 DEF RecordsFollow
<1>6. \A g \in Fronts, k \in Keys : Wanted(g, k)' => ~ToRemove(g, k)'
  BY <1>1, <1>2 DEF RecordsFollow
<1>7. \A r \in records' : r.key \in GivenUp(r.front)' \/ ToRemove(r.front, r.key)' \/ Wanted(r.front, r.key)'
  <2> SUFFICES ASSUME NEW r \in records'
               PROVE  r.key \in GivenUp(r.front)' \/ ToRemove(r.front, r.key)' \/ Wanted(r.front, r.key)'
    OBVIOUS
  <2>0. r \in records
    OBVIOUS
  <2>1. r.key \in Keys /\ r.front \in Fronts
    BY <2>0 DEF TypeInv
  <2>2. GivenUp(r.front) \subseteq GivenUp(r.front)'
    BY <2>1
  <2>3. r.key \in GivenUp(r.front) \/ ToRemove(r.front, r.key) \/ Wanted(r.front, r.key)
    BY <2>0 DEF RecordsFollow
  <2>4. CASE ToRemove(r.front, r.key)
    <3>1. CASE r.front = f /\ r.key \in job[t].keys
      <4>1. r.key \in job'[t].keys \/ r.key \in GivenUp(f)'
        BY <3>1
      <4>2. GivenUp(r.front)' = GivenUp(f)'
        BY <3>1
      <4> QED BY <3>1, <4>1, <4>2, <1>4, <2>1
    <3>2. CASE ToRemove(r.front, r.key)'
      BY <3>2
    <3> QED BY <3>1, <3>2, <2>1, <2>4, <1>2
  <2> QED BY <2>1, <2>2, <2>3, <2>4, <1>1
<1> QED BY <1>5, <1>6, <1>7 DEF RecordsFollow

-----------------------------------------------------------------------------
(* The calls of on and off begin. *)

\* A step of a thread in a call keeps the types if what it assigns has them.
LEMMA ThreadTypes ==
    ASSUME TypeInv, job' \in [Threads -> Jobs],
           UNCHANGED <<app, ons, updates, events, runner, exec, callState_>>,
           records' \subseteq [key : Keys, front : Fronts, observer : Ids],
           mail' \in [Ids -> Seq(Event)],
           listenerList_' \in Seq(Listener), inner' \in Seq(Listener),
           operatorMutex_' \in Threads \cup {NoThread}, innerLock' \in Threads \cup {NoThread, Binder},
           isDeleting' \subseteq Ids, takenOut' \subseteq Ids
    PROVE  TypeInv'
  BY DEF TypeInv

\* A thread of the application, or a function the EventRunner is in, calls on or
\* off of either front end.
LEMMA CallsBegin ==
    ASSUME IndInv, NEW t \in Threads,
           \/ \E c \in app.onCalls : c.front = "cj" /\ (CjOn(t, c) \/ CjOnWithoutEffect(t, c))
           \/ \E c \in app.offCalls : c.front = "cj" /\ CjOff(t, c)
           \/ \E c \in app.onCalls : c.front = "ani" /\ (AniOn(t, c) \/ AniOnRejected(t, c))
           \/ \E c \in app.offCalls : c.front = "ani" /\ AniOff(t, c),
           UNCHANGED cjVars, UNCHANGED aniVars
    PROVE  IndInv'
<1>0. TypeInv'
  BY CallTypesKept DEF IndInv
<1>a. /\ TypeInv /\ ListsProper /\ MutexOwners /\ OnePlace /\ ExecListed /\ LateCalls /\ RecordsFollow
  BY DEF IndInv
<1>b. /\ UNCHANGED <<exec, inner, isDeleting, late, offInCallback, runner, failed, reported>>
      /\ SameLists /\ SameLocks
  BY DEF cjVars, aniVars, SameLists, SameLocks, ListOf, LockOf
<1>c. /\ UNCHANGED <<app, records, lost>> /\ job[t] = NoJob /\ job[t].op = "none"
      /\ t # EventRunner \/ runner.pc = "in"
  <2>1. UNCHANGED <<app, records, lost>> /\ job[t] = NoJob
    BY DEF CjOn, CjOnWithoutEffect, CjOff, AniOn, AniOnRejected, AniOff, CallOn, CallOff, service
  <2>2. t \in app.threads \/ (t = EventRunner /\ runner.pc = "in")
    BY DEF CjOn, CjOnWithoutEffect, CjOff, AniOn, AniOnRejected, AniOff, CjReady
  <2> QED BY <2>1, <2>2, <1>a, AppTypes DEF TypeInv, NoJob
<1> DEFINE Begins ==
      /\ OtherJobs(t)
      /\ \/ job'[t].op \in {"none", "off"} /\ (UNCHANGED ons \/ ons' = ons + 1)
         \/ \E l \in Listener : /\ job'[t].op = "on" /\ job'[t].listener = l /\ job'[t].front = l.front
                                /\ Proper(l) /\ l.id = ons + 1 /\ ons' = ons + 1
<1>d. Begins
  <2>1. ASSUME NEW c \in app.onCalls, c.front = "cj" /\ CjOn(t, c)
        PROVE  Begins
    <3>1. ons < app.maxOns /\ ons' = ons + 1 /\ Goes(t, Adding("on", CjListener(c)))
      BY <2>1 DEF CjOn, CallOn
    <3>2. /\ CjListener(c) \in Listener /\ Proper(CjListener(c))
          /\ CjListener(c).id = ons + 1
      BY <2>1, <3>1, <1>a, CjListenerProper DEF CjOn
    <3>3. PICK l \in Listener : l = CjListener(c)
      BY <3>2
    <3>4. job'[t].op = "on" /\ job'[t].front = l.front /\ job'[t].listener = l /\ OtherJobs(t)
      BY <3>1, <3>3, <1>a, JobAdds DEF OnOps, OtherJobs
    <3> QED BY <3>1, <3>2, <3>3, <3>4
  <2>2. ASSUME NEW c \in app.onCalls, c.front = "ani" /\ AniOn(t, c)
        PROVE  Begins
    <3>1. ons < app.maxOns /\ ons' = ons + 1 /\ Goes(t, Adding("on", AniListener(c)))
      BY <2>2 DEF AniOn, CallOn
    <3>2. /\ AniListener(c) \in Listener /\ Proper(AniListener(c))
          /\ AniListener(c).id = ons + 1
      BY <2>2, <3>1, <1>a, AniListenerProper DEF AniOn
    <3>3. PICK l \in Listener : l = AniListener(c)
      BY <3>2
    <3>4. job'[t].op = "on" /\ job'[t].front = l.front /\ job'[t].listener = l /\ OtherJobs(t)
      BY <3>1, <3>3, <1>a, JobAdds DEF OnOps, OtherJobs
    <3> QED BY <3>1, <3>2, <3>3, <3>4
  <2>3. ASSUME NEW c \in app.onCalls, CjOnWithoutEffect(t, c) \/ AniOnRejected(t, c)
        PROVE  Begins
    BY <2>3, <1>c DEF CjOnWithoutEffect, AniOnRejected, CallOn, OtherJobs
  <2>4. ASSUME NEW c \in app.offCalls, CjOff(t, c) \/ AniOff(t, c)
        PROVE  Begins
    <3>1. job' = [job EXCEPT ![t] = [op |-> "off", front |-> c.front, call |-> c]] /\ UNCHANGED ons
      BY <2>4 DEF CjOff, AniOff, CallOff
    <3>2. job'[t] = [op |-> "off", front |-> c.front, call |-> c] /\ OtherJobs(t)
      BY <3>1, <1>a, JobSet DEF OtherJobs
    <3> QED BY <3>1, <3>2
  <2> QED BY <2>1, <2>2, <2>3, <2>4
<1>1. job'[t].op \in {"none", "off", "on"} /\ job[t].op \notin OnOps \cup LockedOps /\ job'[t].op \notin LockedOps
  BY <1>c, <1>d DEF OnOps, LockedOps
<1>2. MutexOwners'
  BY <1>1, <1>a, <1>b, <1>d, Locks, LocksKept
<1>3. ListsProper'
  <2>1. \A g \in Fronts : \A m \in ListOf(g)' : m \in ListOf(g) \/ (m.front = g /\ Proper(m))
    BY <1>b DEF SameLists
  <2> QED BY <2>1, <1>1, <1>a, <1>c, <1>d, ProperKept DEF OnOps
<1>4. OnePlace'
  <2>1. CASE job'[t].op \in {"none", "off"} /\ (UNCHANGED ons \/ ons' = ons + 1)
    <3>1. job'[t].op \notin OnOps
      BY <2>1 DEF OnOps
    <3> QED BY <3>1, <2>1, <1>a, <1>b, <1>d, PlaceOfOn
  <2>2. CASE \E l \in Listener : /\ job'[t].op = "on" /\ job'[t].listener = l /\ job'[t].front = l.front
                                 /\ Proper(l) /\ l.id = ons + 1 /\ ons' = ons + 1
    <3>1. PICK l \in Listener : job'[t].listener = l /\ l.id = ons + 1 /\ ons' = ons + 1
      BY <2>2
    <3> QED BY <3>1, <1>1, <1>a, <1>b, <1>d, PlaceOfOn
  <2> QED BY <2>1, <2>2, <1>d
<1>5. ExecListed'
  BY <1>a, <1>b DEF ExecListed, SameLists, Fronts
<1>6. LateCalls'
  BY <1>a, <1>b, <1>c, <1>d, LateSame
<1>7. RecordsFollow'
  BY <1>1, <1>a, <1>b, <1>c, <1>d, RecordsSameLists
<1> QED BY <1>0, <1>2, <1>3, <1>4, <1>5, <1>6, <1>7 DEF IndInv

-----------------------------------------------------------------------------
(* on, in either front end. *)

\* The mutex is free: the listener is there already, or follows others of its
\* key into the list, or the service has to be asked.
Registers(t, f, l) ==
    /\ job[t].op = "on" /\ job[t].front = f /\ job[t].listener = l
    /\ \/ Goes(t, NoJob) /\ SameLists /\ SameLocks
       \/ Goes(t, NoJob) /\ Puts(f, l) /\ SameLocks /\ \E m \in ListOf(f) : Key(m) = Key(l)
       \/ Goes(t, Adding("add", l)) /\ SameLists /\ Takes(t, f)

\* RegisterEventListener of the Cangjie front end does that.
LEMMA CjRegisters ==
    ASSUME IndInv, NEW t \in Threads, RegisterEventListener(t), UNCHANGED aniVars,
           NEW l \in Listener, l = job[t].listener, l.front = "cj"
    PROVE  TypeInv' /\ Registers(t, "cj", l)
<1>0. TypeInv
  BY DEF IndInv
<1>1. /\ job[t].op = "on" /\ job[t].front = "cj" /\ operatorMutex_ = NoThread
      /\ \/ Goes(t, NoJob) /\ UNCHANGED <<listenerList_, operatorMutex_>>
         \/ /\ RegisterStatus(listenerList_, l) = "SLOTID_AND_EVENTTYPE_SAME"
            /\ listenerList_' = Append(listenerList_, l) /\ Goes(t, NoJob) /\ UNCHANGED operatorMutex_
         \/ Goes(t, Adding("add", l)) /\ operatorMutex_' = t /\ UNCHANGED listenerList_
      /\ UNCHANGED <<app, service, counters, isDeleting, events, runner>>
  BY DEF RegisterEventListener, Waits, CjMutexFree, CjHeldDuringAdd
<1>2. UNCHANGED <<inner, innerLock, exec, takenOut>>
  BY DEF aniVars
<1>3. listenerList_ \in Seq(Listener) /\ operatorMutex_ \in Threads \cup {NoThread}
  BY <1>0 DEF TypeInv
<1>4. Append(listenerList_, l) \in Seq(Listener) /\ ToSet(Append(listenerList_, l)) = ToSet(listenerList_) \cup {l}
  BY <1>3, PushBack
<1>5. job' \in [Threads -> Jobs]
  BY <1>0, <1>1, JobEnds, JobAdds DEF OnOps
<1>6. listenerList_' \in Seq(Listener) /\ operatorMutex_' \in Threads \cup {NoThread}
  BY <1>1, <1>3, <1>4
<1>7. TypeInv'
  <2>1. UNCHANGED <<app, records, callState_, mail, ons, updates, isDeleting, events, runner>>
    BY <1>1 DEF service, counters
  <2> QED BY <2>1, <1>0, <1>2, <1>5, <1>6, ThreadTypes DEF TypeInv
<1>8. RegisterStatus(listenerList_, l) = "SLOTID_AND_EVENTTYPE_SAME" => \E m \in ListOf("cj") : Key(m) = Key(l)
  BY Locks DEF RegisterStatus
<1>9. UNCHANGED listenerList_ => SameLists
  BY <1>2 DEF SameLists, ListOf
<1>10. UNCHANGED operatorMutex_ => SameLocks
  BY <1>2 DEF SameLocks, LockOf
<1>11. operatorMutex_' = t => Takes(t, "cj")
  BY <1>1, <1>2, Locks DEF Takes, LockOf, Fronts
<1>12. listenerList_' = Append(listenerList_, l) => Puts("cj", l)
  BY <1>2, <1>4 DEF Puts, ListOf, Fronts
<1> QED BY <1>1, <1>7, <1>8, <1>9, <1>10, <1>11, <1>12 DEF Registers

\* register of the ANI front end does, too.
LEMMA AniRegisters ==
    ASSUME IndInv, NEW t \in Threads, register(t), UNCHANGED cjVars,
           NEW l \in Listener, l = job[t].listener, l.front = "ani"
    PROVE  TypeInv' /\ Registers(t, "ani", l)
<1>0. TypeInv
  BY DEF IndInv
<1>1. /\ job[t].op = "on" /\ job[t].front = "ani" /\ innerLock = NoThread
      /\ \/ Goes(t, NoJob) /\ UNCHANGED <<inner, innerLock>>
         \/ /\ RegisterStatus(inner, l) = "SLOTID_AND_EVENTTYPE_SAME"
            /\ inner' = Append(inner, l) /\ Goes(t, NoJob) /\ UNCHANGED innerLock
         \/ Goes(t, Adding("add", l)) /\ innerLock' = t /\ UNCHANGED inner
      /\ UNCHANGED <<app, service, counters, exec, takenOut>>
  BY DEF register, Waits, InnerFree
<1>2. UNCHANGED <<listenerList_, operatorMutex_, isDeleting, events, runner>>
  BY DEF cjVars
<1>3. inner \in Seq(Listener) /\ innerLock \in Threads \cup {NoThread, Binder}
  BY <1>0 DEF TypeInv
<1>4. Append(inner, l) \in Seq(Listener) /\ ToSet(Append(inner, l)) = ToSet(inner) \cup {l}
  BY <1>3, PushBack
<1>5. job' \in [Threads -> Jobs]
  BY <1>0, <1>1, JobEnds, JobAdds DEF OnOps
<1>6. inner' \in Seq(Listener) /\ innerLock' \in Threads \cup {NoThread, Binder}
  BY <1>1, <1>3, <1>4
<1>7. TypeInv'
  <2>1. UNCHANGED <<app, records, callState_, mail, ons, updates, exec, takenOut>>
    BY <1>1 DEF service, counters
  <2> QED BY <2>1, <1>0, <1>2, <1>5, <1>6, ThreadTypes DEF TypeInv
<1>8. RegisterStatus(inner, l) = "SLOTID_AND_EVENTTYPE_SAME" => \E m \in ListOf("ani") : Key(m) = Key(l)
  BY Locks DEF RegisterStatus
<1>9. UNCHANGED inner => SameLists
  BY <1>2 DEF SameLists, ListOf
<1>10. UNCHANGED innerLock => SameLocks
  BY <1>2 DEF SameLocks, LockOf
<1>11. innerLock' = t => Takes(t, "ani")
  BY <1>1, <1>2, Locks DEF Takes, LockOf, Fronts
<1>12. inner' = Append(inner, l) => Puts("ani", l)
  BY <1>2, <1>4 DEF Puts, ListOf, Fronts
<1> QED BY <1>1, <1>7, <1>8, <1>9, <1>10, <1>11, <1>12 DEF Registers

\* The step keeps the invariant, whichever front end makes it.
LEMMA RegistersKeeps ==
    ASSUME IndInv, TypeInv', NEW t \in Threads, NEW f \in Fronts, NEW l \in Listener, l.front = f,
           Registers(t, f, l),
           UNCHANGED <<app, records, lost, failed, reported, ons, isDeleting, late, offInCallback,
                       runner, exec>>
    PROVE  IndInv'
<1>a. /\ TypeInv /\ ListsProper /\ MutexOwners /\ OnePlace /\ ExecListed /\ LateCalls /\ RecordsFollow
  BY DEF IndInv
<1>b. job[t].op = "on" /\ job[t].front = f /\ job[t].listener = l /\ job[t] # NoJob
  BY DEF Registers, NoJob
<1>c. Proper(l)
  BY <1>a, <1>b DEF ListsProper, OnOps
<1>d. OtherJobs(t) /\ (job'[t].op \in OnOps => job'[t].listener = l /\ job'[t].front = f)
      /\ job'[t].op \in {"none", "add"}
  <2>1. CASE Goes(t, NoJob)
    BY <2>1, <1>a, JobEnds DEF OtherJobs, OnOps
  <2>2. CASE Goes(t, Adding("add", l))
    BY <2>2, <1>a, JobAdds DEF OtherJobs, OnOps
  <2> QED BY <2>1, <2>2 DEF Registers
<1>e. /\ job[t].op \in OnOps /\ job[t].op \notin LockedOps /\ job'[t].op # "remove"
      /\ job[t].op # "added" /\ job'[t].op # "added" /\ job[t].op # "remove"
  BY <1>b, <1>d DEF OnOps, LockedOps
<1>f. \A g \in Fronts : \A m \in ListOf(g)' : m \in ListOf(g) \/ (g = f /\ m = l)
  BY DEF Registers, SameLists, Puts
<1>1. ListsProper'
  BY <1>a, <1>c, <1>d, <1>e, <1>f, ProperKept
<1>2. LateCalls'
  BY <1>a, <1>b, <1>d, LateSame
<1>3. ExecListed'
  <2>1. ListOf("ani") \subseteq ListOf("ani")'
    BY Locks DEF Registers, SameLists, Puts
  <2> QED BY <2>1, <1>a DEF ExecListed
<1>4. CASE Goes(t, NoJob) /\ SameLists /\ SameLocks
  <2>1. job'[t].op = "none" /\ job'[t].op \notin OnOps \cup LockedOps
    BY <1>4, <1>a, JobEnds DEF OnOps, LockedOps
  <2>2. MutexOwners'
    BY <1>4, <2>1, <1>a, <1>d, <1>e, LocksKept
  <2>3. OnePlace'
    BY <1>4, <2>1, <1>a, <1>d, PlaceOfOn
  <2>4. RecordsFollow'
    BY <1>4, <2>1, <1>a, <1>d, <1>e, RecordsSameLists
  <2> QED BY <1>1, <1>2, <1>3, <2>2, <2>3, <2>4 DEF IndInv
<1>5. CASE Goes(t, NoJob) /\ Puts(f, l) /\ SameLocks /\ \E m \in ListOf(f) : Key(m) = Key(l)
  <2>1. job'[t].op = "none" /\ job'[t].op \notin OnOps \cup LockedOps /\ job'[t] = NoJob
    BY <1>5, <1>a, JobEnds DEF OnOps, LockedOps
  <2>2. MutexOwners'
    BY <1>5, <2>1, <1>a, <1>d, <1>e, LocksKept
  <2>3. OnePlace'
    BY <1>5, <2>1, <1>a, <1>b, <1>d, <1>e, PlaceOfNew
  <2>4. RecordsFollow'
    BY <1>5, <2>1, <1>a, <1>b, <1>d, <1>e, RecordsNewListener
  <2> QED BY <1>1, <1>2, <1>3, <2>2, <2>3, <2>4 DEF IndInv
<1>6. CASE Goes(t, Adding("add", l)) /\ SameLists /\ Takes(t, f)
  <2>1. job'[t].op = "add" /\ job'[t].op \in LockedOps /\ job'[t].front = f
    BY <1>6, <1>a, JobAdds DEF OnOps, LockedOps
  <2>2. MutexOwners'
    BY <1>6, <2>1, <1>a, <1>d, <1>e, LocksKept
  <2>3. OnePlace'
    BY <1>6, <2>1, <1>a, <1>b, <1>d, <1>e, PlaceOfOn
  <2>4. RecordsFollow'
    BY <1>6, <2>1, <1>a, <1>d, <1>e, RecordsSameLists
  <2> QED BY <1>1, <1>2, <1>3, <2>2, <2>3, <2>4 DEF IndInv
<1> QED BY <1>4, <1>5, <1>6 DEF Registers

\* The listener an on call is about.
LEMMA JobListener ==
    ASSUME IndInv, NEW t \in Threads, job[t].op \in OnOps
    PROVE  /\ job[t].listener \in Listener /\ Proper(job[t].listener)
           /\ job[t].listener.front = job[t].front /\ job[t].front \in Fronts /\ job[t] # NoJob
<1>1. job[t] \in [op : OnOps, front : Fronts, listener : Listener]
  BY JobTypes DEF IndInv
<1> QED BY <1>1 DEF IndInv, ListsProper, OnOps, NoJob

\* Either front end asks for a replay only of calls.
LEMMA AsksTheService ==
    ASSUME NEW t \in Threads, NEW l, l = job[t].listener, CjServiceAdds(t) \/ EventListenerRegister(t)
    PROVE  \E isUpdate \in BOOLEAN : AddStateObserver(l, isUpdate) /\ (isUpdate => l.type \in CallTypes)
<1>1. CASE CjServiceAdds(t)
  <2>1. AddStateObserver(l, l.type = "CALL_STATE")
    BY <1>1 DEF CjServiceAdds
  <2>2. (l.type = "CALL_STATE") \in BOOLEAN /\ (l.type = "CALL_STATE" => l.type \in CallTypes)
    BY DEF CallTypes
  <2> HIDE DEF AddStateObserver
  <2> QED BY <2>1, <2>2
<1>2. CASE EventListenerRegister(t)
  <2>1. AddStateObserver(l, l.type \in CallTypes)
    BY <1>2 DEF EventListenerRegister
  <2>2. (l.type \in CallTypes) \in BOOLEAN
    OBVIOUS
  <2> QED BY <2>1, <2>2
<1> QED BY <1>1, <1>2

\* The service takes the registration of either front end.
LEMMA ServiceAddsKeeps ==
    ASSUME IndInv, NEW t \in Threads,
           \/ CjServiceAdds(t) /\ UNCHANGED aniVars
           \/ EventListenerRegister(t) /\ UNCHANGED cjVars
    PROVE  IndInv'
<1>a. /\ TypeInv /\ ListsProper /\ MutexOwners /\ OnePlace /\ ExecListed /\ LateCalls /\ RecordsFollow
  BY DEF IndInv
<1>b. job[t].op = "add" /\ job[t].op \in OnOps
  BY DEF CjServiceAdds, EventListenerRegister, Waits, OnOps
<1>c. PICK l \in Listener : l = job[t].listener /\ Proper(l) /\ l.front = job[t].front /\ job[t] # NoJob
  BY <1>b, JobListener
<1>d. PICK isUpdate \in BOOLEAN : AddStateObserver(l, isUpdate) /\ (isUpdate => l.type \in CallTypes)
  BY <1>c, AsksTheService
<1>e. /\ Goes(t, Adding("added", l)) /\ UNCHANGED <<app, ons, updates>>
      /\ UNCHANGED <<cjVars, aniVars>>
  BY <1>c DEF CjServiceAdds, EventListenerRegister, counters
<1>f. /\ UNCHANGED <<listenerList_, operatorMutex_, isDeleting, events, runner, failed, late, offInCallback>>
      /\ UNCHANGED <<inner, innerLock, exec, reported, takenOut>>
  BY <1>e DEF cjVars, aniVars
<1>g. /\ job'[t].op = "added" /\ job'[t].front = l.front /\ job'[t].listener = l
      /\ OtherJobs(t) /\ job' \in [Threads -> Jobs]
  BY <1>a, <1>e, JobAdds DEF OnOps, OtherJobs
<1>h. /\ records' \subseteq [key : Keys, front : Fronts, observer : Ids]
      /\ mail' \in [Ids -> Seq(Event)] /\ callState_' = callState_
  BY <1>a, <1>c, <1>d, AddTypes
<1>i. SameLists /\ SameLocks
  BY <1>f DEF SameLists, SameLocks, ListOf, LockOf
<1>j. /\ job[t].op \in LockedOps /\ job'[t].op \in LockedOps /\ job'[t].op \in OnOps
      /\ job'[t].op # "remove" /\ job'[t].front = job[t].front
  BY <1>b, <1>c, <1>g DEF LockedOps, OnOps
<1>1. TypeInv'
  BY <1>a, <1>e, <1>f, <1>g, <1>h, ThreadTypes DEF TypeInv
<1>2. MutexOwners'
  BY <1>a, <1>f, <1>g, <1>i, <1>j, Locks, LocksKept
<1>3. ListsProper'
  <2>1. \A g \in Fronts : \A m \in ListOf(g)' : m \in ListOf(g) \/ (m.front = g /\ Proper(m))
    BY <1>i DEF SameLists
  <2> QED BY <2>1, <1>a, <1>c, <1>e, <1>g, <1>j, ProperKept
<1>4. OnePlace'
  BY <1>a, <1>b, <1>c, <1>e, <1>f, <1>g, <1>i, PlaceOfOn
<1>5. ExecListed'
  BY <1>a, <1>f, <1>i DEF ExecListed, SameLists, Fronts
<1>6. LateCalls'
  BY <1>a, <1>c, <1>f, <1>g, LateSame
<1>7. RecordsFollow'
  BY <1>a, <1>b, <1>c, <1>d, <1>f, <1>g, <1>i, RecordsAdded
<1> QED BY <1>1, <1>2, <1>3, <1>4, <1>5, <1>6, <1>7 DEF IndInv

\* A call with the mutex returns: an on that has put its listener into the list,
\* an on the service refused, or an off that has removed all its keys.
Returns(t, f) ==
    /\ Holds(t, f) /\ Goes(t, NoJob) /\ Releases(t, f)
    /\ \/ job[t].op = "added" /\ Puts(f, job[t].listener)
       \/ job[t].op = "add" /\ SameLists
       \/ job[t].op = "remove" /\ job[t].keys = {} /\ SameLists

\* The three ways a Cangjie call returns with the mutex.
LEMMA CjReturns ==
    ASSUME IndInv, NEW t \in Threads, CjOnReturns(t) \/ CjAddFails(t) \/ CjOffReturns(t), UNCHANGED aniVars
    PROVE  TypeInv' /\ Returns(t, "cj")
<1>0. TypeInv
  BY DEF IndInv
<1>1. /\ job[t].front = "cj" /\ operatorMutex_' = NoThread /\ Goes(t, NoJob)
      /\ \/ job[t].op = "added" /\ listenerList_' = Append(listenerList_, job[t].listener)
         \/ job[t].op = "add" /\ UNCHANGED listenerList_
         \/ job[t].op = "remove" /\ job[t].keys = {} /\ UNCHANGED listenerList_
      /\ UNCHANGED <<app, service, ons, updates, isDeleting, events, runner>>
  BY DEF CjOnReturns, CjAddFails, CjOffReturns, Waits, Fault, counters
<1>2. UNCHANGED <<inner, innerLock, exec, takenOut>>
  BY DEF aniVars
<1>3. listenerList_ \in Seq(Listener)
  BY <1>0 DEF TypeInv
<1>4. ASSUME job[t].op = "added"
      PROVE  /\ Append(listenerList_, job[t].listener) \in Seq(Listener)
             /\ ToSet(Append(listenerList_, job[t].listener)) = ToSet(listenerList_) \cup {job[t].listener}
  <2>1. job[t].listener \in Listener
    BY <1>4, JobListener DEF OnOps
  <2> QED BY <2>1, <1>3, PushBack
<1>5. job' \in [Threads -> Jobs]
  BY <1>0, <1>1, JobEnds
<1>6. listenerList_' \in Seq(Listener)
  BY <1>1, <1>3, <1>4
<1>7. TypeInv'
  <2>1. UNCHANGED <<records, callState_, mail>>
    BY <1>1 DEF service
  <2> QED BY <2>1, <1>0, <1>1, <1>2, <1>5, <1>6, ThreadTypes DEF TypeInv
<1>8. Holds(t, "cj")
  BY <1>1 DEF Holds, LockedOps
<1>9. Releases(t, "cj")
  BY <1>1, <1>2, <1>8 DEF Releases, LockOf, Fronts
<1>10. UNCHANGED listenerList_ => SameLists
  BY <1>2 DEF SameLists, ListOf
<1>11. job[t].op = "added" /\ listenerList_' = Append(listenerList_, job[t].listener) => Puts("cj", job[t].listener)
  BY <1>2, <1>4 DEF Puts, ListOf, Fronts
<1> QED BY <1>1, <1>7, <1>8, <1>9, <1>10, <1>11 DEF Returns

\* The same for the ANI front end.
LEMMA AniReturns ==
    ASSUME IndInv, NEW t \in Threads, registerReturns(t) \/ registerFails(t) \/ unregisterReturns(t),
           UNCHANGED cjVars
    PROVE  TypeInv' /\ Returns(t, "ani")
<1>0. TypeInv
  BY DEF IndInv
<1>1. /\ job[t].front = "ani" /\ innerLock' = NoThread /\ Goes(t, NoJob)
      /\ \/ job[t].op = "added" /\ inner' = Append(inner, job[t].listener)
         \/ job[t].op = "add" /\ UNCHANGED inner
         \/ job[t].op = "remove" /\ job[t].keys = {} /\ UNCHANGED inner
      /\ UNCHANGED <<app, service, ons, updates, exec, takenOut>>
  BY DEF registerReturns, registerFails, unregisterReturns, Waits, Fault, counters
<1>2. UNCHANGED <<listenerList_, operatorMutex_, isDeleting, events, runner>>
  BY DEF cjVars
<1>3. inner \in Seq(Listener)
  BY <1>0 DEF TypeInv
<1>4. ASSUME job[t].op = "added"
      PROVE  /\ Append(inner, job[t].listener) \in Seq(Listener)
             /\ ToSet(Append(inner, job[t].listener)) = ToSet(inner) \cup {job[t].listener}
  <2>1. job[t].listener \in Listener
    BY <1>4, JobListener DEF OnOps
  <2> QED BY <2>1, <1>3, PushBack
<1>5. job' \in [Threads -> Jobs]
  BY <1>0, <1>1, JobEnds
<1>6. inner' \in Seq(Listener)
  BY <1>1, <1>3, <1>4
<1>7. TypeInv'
  <2>1. UNCHANGED <<records, callState_, mail>>
    BY <1>1 DEF service
  <2> QED BY <2>1, <1>0, <1>1, <1>2, <1>5, <1>6, ThreadTypes DEF TypeInv
<1>8. Holds(t, "ani")
  BY <1>1 DEF Holds, LockedOps
<1>9. Releases(t, "ani")
  BY <1>1, <1>2, <1>8 DEF Releases, LockOf, Fronts
<1>10. UNCHANGED inner => SameLists
  BY <1>2 DEF SameLists, ListOf
<1>11. job[t].op = "added" /\ inner' = Append(inner, job[t].listener) => Puts("ani", job[t].listener)
  BY <1>2, <1>4 DEF Puts, ListOf, Fronts
<1> QED BY <1>1, <1>7, <1>8, <1>9, <1>10, <1>11 DEF Returns

\* A return keeps the invariant, whichever front end it is.
LEMMA ReturnsKeeps ==
    ASSUME IndInv, TypeInv', NEW t \in Threads, NEW f \in Fronts, Returns(t, f),
           UNCHANGED <<app, records, lost, failed, reported, ons, isDeleting, late, offInCallback,
                       runner, exec>>
    PROVE  IndInv'
<1>a. /\ TypeInv /\ ListsProper /\ MutexOwners /\ OnePlace /\ ExecListed /\ LateCalls /\ RecordsFollow
  BY DEF IndInv
<1>b. job[t].front = f /\ job[t].op \in LockedOps /\ job[t] # NoJob
  BY DEF Returns, Holds, LockedOps, NoJob
<1>c. OtherJobs(t) /\ job'[t] = NoJob /\ job'[t].op \notin OnOps \cup LockedOps
      /\ job'[t].op # "added" /\ job'[t].op # "remove"
  <2>1. job'[t].op = "none" /\ job'[t] = NoJob /\ OtherJobs(t)
    BY <1>a, JobEnds DEF Returns, OtherJobs
  <2> QED BY <2>1 DEF OnOps, LockedOps
<1>1. MutexOwners'
  BY <1>a, <1>c, LocksKept DEF Returns
<1>2. LateCalls'
  BY <1>a, <1>b, <1>c, LateSame
<1>3. CASE SameLists /\ job[t].op # "added" /\ (job[t].op = "remove" => job[t].keys = {})
  <2>1. OnePlace'
    BY <1>a, <1>c, <1>3, PlaceOfOn
  <2>2. RecordsFollow'
    BY <1>a, <1>c, <1>3, RecordsSameLists
  <2>3. ListsProper'
    <3>1. \A g \in Fronts : \A m \in ListOf(g)' : m \in ListOf(g) \/ (m.front = g /\ Proper(m))
      BY <1>3 DEF SameLists
    <3> QED BY <3>1, <1>a, <1>c, ProperKept
  <2>4. ExecListed'
    BY <1>a, <1>3 DEF ExecListed, SameLists, Fronts
  <2> QED BY <1>1, <1>2, <2>1, <2>2, <2>3, <2>4 DEF IndInv
<1>4. CASE job[t].op = "added" /\ Puts(f, job[t].listener)
  <2>1. job[t].op \in OnOps
    BY <1>4 DEF OnOps
  <2>2. PICK l \in Listener : l = job[t].listener /\ Proper(l) /\ l.front = f
    BY <1>b, <2>1, JobListener
  <2>3. Puts(f, l)
    BY <1>4, <2>2
  <2>4. OnePlace'
    BY <1>a, <1>c, <2>1, <2>2, <2>3, PlaceOfNew
  <2>5. RecordsFollow'
    BY <1>4, <1>a, <1>b, <1>c, <2>1, <2>2, <2>3, RecordsNewListener
  <2>6. ListsProper'
    <3>1. \A g \in Fronts : \A m \in ListOf(g)' : m \in ListOf(g) \/ (m.front = g /\ Proper(m))
      BY <2>2, <2>3 DEF Puts
    <3> QED BY <3>1, <1>a, <1>c, ProperKept
  <2>7. ExecListed'
    <3>1. ListOf("ani") \subseteq ListOf("ani")'
      BY <2>3, Locks DEF Puts
    <3> QED BY <3>1, <1>a DEF ExecListed
  <2> QED BY <1>1, <1>2, <2>4, <2>5, <2>6, <2>7 DEF IndInv
<1> QED BY <1>3, <1>4 DEF Returns

-----------------------------------------------------------------------------
(* off, in either front end. *)

\* off takes listeners out of the list, and keeps the mutex to remove the keys
\* nobody wants any more.
TakesOut(t, f) ==
    /\ job'[t].op = "remove" /\ job'[t].front = f /\ OtherJobs(t) /\ Takes(t, f)
    /\ ListOf(f)' \subseteq ListOf(f) /\ \A g \in Fronts : g # f => ListOf(g)' = ListOf(g)
    /\ \A k \in Keys : k \in job'[t].keys <=>
           /\ \E m \in ListOf(f) : Key(m) = k
           /\ ~\E m \in ListOf(f)' : Key(m) = k
    /\ job'[t].keys \subseteq {Key(m) : m \in ListOf(f)}

\* The keys off removes are those of the list that are not in the rest of it.
LEMMA Freed ==
    ASSUME NEW list \in Seq(Listener), NEW c
    PROVE  /\ Rest(list, c) \in Seq(Listener)
           /\ ToSet(Rest(list, c)) \subseteq ToSet(list)
           /\ ToSet(list) \ ToSet(Rest(list, c)) = Removed(list, c)
           /\ FreedKeys(list, c) \subseteq Keys
           /\ FreedKeys(list, c) \subseteq {Key(m) : m \in ToSet(list)}
           /\ \A k \in Keys : k \in FreedKeys(list, c) <=>
                  /\ \E m \in ToSet(list) : Key(m) = k
                  /\ ~\E m \in ToSet(Rest(list, c)) : Key(m) = k
<1>1. /\ Rest(list, c) \in Seq(Listener)
      /\ ToSet(Rest(list, c)) = ToSet(list) \ Removed(list, c)
      /\ Removed(list, c) \subseteq ToSet(list)
  BY TakenOutOf
<1>2. \A m \in ToSet(list) : Key(m) \in Keys
  <2>1. ToSet(list) \subseteq Listener
    BY DEF ToSet
  <2> QED BY <2>1 DEF Key, Keys, Listener
<1> HIDE DEF Rest, Removed, Key
<1>3. FreedKeys(list, c) = {k \in {Key(m) : m \in Removed(list, c)} : ~\E m \in ToSet(Rest(list, c)) : Key(m) = k}
  BY DEF FreedKeys, EventTypeExists
<1> QED BY <1>1, <1>2, <1>3

\* UnregisterEventListener takes out, with isDeleting set, or finds an empty list.
LEMMA CjTakesOut ==
    ASSUME IndInv, NEW t \in Threads, UnregisterEventListener(t), UNCHANGED aniVars
    PROVE  /\ TypeInv'
           /\ \/ Goes(t, NoJob) /\ SameLists /\ SameLocks /\ UNCHANGED <<isDeleting, offInCallback>>
              \/ /\ TakesOut(t, "cj")
                 /\ isDeleting' = isDeleting \cup {l.id : l \in ListOf("cj") \ ListOf("cj")'}
                 /\ offInCallback' = IF t = EventRunner
                                     THEN offInCallback \cup {l.id : l \in ListOf("cj") \ ListOf("cj")'}
                                     ELSE offInCallback
<1>0. TypeInv
  BY DEF IndInv
<1>1. PICK c : c = job[t].call
  OBVIOUS
<1>2. /\ operatorMutex_ = NoThread
      /\ \/ Goes(t, NoJob) /\ UNCHANGED <<listenerList_, operatorMutex_, isDeleting, offInCallback>>
         \/ /\ listenerList_' = Rest(listenerList_, c)
            /\ isDeleting' = isDeleting \cup {l.id : l \in Removed(listenerList_, c)}
            /\ offInCallback' = offInCallback \cup
                                   {l.id : l \in {m \in Removed(listenerList_, c) : t = EventRunner}}
            /\ operatorMutex_' = t
            /\ Goes(t, [op |-> "remove", front |-> "cj", keys |-> FreedKeys(listenerList_, c)])
      /\ UNCHANGED <<app, service, counters, events, runner>>
  BY <1>1 DEF UnregisterEventListener, CjMutexFree, SetEventListenerDeleting
<1>3. UNCHANGED <<inner, innerLock, exec, takenOut>> /\ UNCHANGED <<records, callState_, mail, ons, updates>>
  BY <1>2 DEF aniVars, service, counters
<1>4. listenerList_ \in Seq(Listener) /\ operatorMutex_ \in Threads \cup {NoThread} /\ isDeleting \subseteq Ids
  BY <1>0 DEF TypeInv
<1>5. CASE Goes(t, NoJob) /\ UNCHANGED <<listenerList_, operatorMutex_, isDeleting, offInCallback>>
  <2>1. TypeInv'
    BY <1>0, <1>2, <1>3, <1>5, JobEnds, ThreadTypes DEF TypeInv
  <2>2. SameLists /\ SameLocks
    BY <1>3, <1>5 DEF SameLists, SameLocks, ListOf, LockOf
  <2> QED BY <1>5, <2>1, <2>2
<1>6. ASSUME /\ listenerList_' = Rest(listenerList_, c)
             /\ isDeleting' = isDeleting \cup {l.id : l \in Removed(listenerList_, c)}
             /\ offInCallback' = offInCallback \cup
                                    {l.id : l \in {m \in Removed(listenerList_, c) : t = EventRunner}}
             /\ operatorMutex_' = t
             /\ Goes(t, [op |-> "remove", front |-> "cj", keys |-> FreedKeys(listenerList_, c)])
      PROVE  /\ TypeInv' /\ TakesOut(t, "cj")
             /\ isDeleting' = isDeleting \cup {l.id : l \in ListOf("cj") \ ListOf("cj")'}
             /\ offInCallback' = IF t = EventRunner
                                 THEN offInCallback \cup {l.id : l \in ListOf("cj") \ ListOf("cj")'}
                                 ELSE offInCallback
  <2>1. /\ Rest(listenerList_, c) \in Seq(Listener)
        /\ ToSet(Rest(listenerList_, c)) \subseteq ToSet(listenerList_)
        /\ ToSet(listenerList_) \ ToSet(Rest(listenerList_, c)) = Removed(listenerList_, c)
        /\ FreedKeys(listenerList_, c) \subseteq Keys
        /\ FreedKeys(listenerList_, c) \subseteq {Key(m) : m \in ToSet(listenerList_)}
        /\ \A k \in Keys : k \in FreedKeys(listenerList_, c) <=>
               /\ \E m \in ToSet(listenerList_) : Key(m) = k
               /\ ~\E m \in ToSet(Rest(listenerList_, c)) : Key(m) = k
    BY <1>4, Freed
  <2>2. PICK keys \in SUBSET Keys : keys = FreedKeys(listenerList_, c)
    BY <2>1
  <2>3. [op |-> "remove", front |-> "cj", keys |-> keys] \in Jobs
    BY Locks DEF Jobs
  <2>4. job'[t] = [op |-> "remove", front |-> "cj", keys |-> keys] /\ OtherJobs(t) /\ job' \in [Threads -> Jobs]
    BY <1>0, <1>6, <2>2, <2>3, JobSet DEF Goes, OtherJobs
  <2>5. {l.id : l \in Removed(listenerList_, c)} \subseteq Ids
    <3>1. Removed(listenerList_, c) \subseteq Listener
      <4>1. ToSet(listenerList_) \subseteq Listener
        BY <1>4 DEF ToSet
      <4> QED BY <4>1, <2>1
    <3> QED BY <3>1 DEF Listener
  <2>6. TypeInv'
    BY <1>0, <1>2, <1>3, <1>4, <1>6, <2>1, <2>4, <2>5, ThreadTypes DEF TypeInv
  <2>7. ListOf("cj") = ToSet(listenerList_) /\ ListOf("cj")' = ToSet(Rest(listenerList_, c))
    BY <1>6 DEF ListOf
  <2>8. ListOf("cj") \ ListOf("cj")' = Removed(listenerList_, c)
    BY <2>1, <2>7
  <2>9. Takes(t, "cj")
    BY <1>2, <1>3, <1>6 DEF Takes, LockOf, Fronts
  <2>10. \A g \in Fronts : g # "cj" => ListOf(g)' = ListOf(g)
    BY <1>3 DEF ListOf
  <2>11. TakesOut(t, "cj")
    BY <2>1, <2>2, <2>4, <2>7, <2>9, <2>10 DEF TakesOut
  <2> QED BY <1>6, <2>6, <2>8, <2>11
<1> QED BY <1>2, <1>5, <1>6

\* unregister takes out of the Vec, or finds it empty.
LEMMA AniTakesOut ==
    ASSUME IndInv, NEW t \in Threads, unregister(t), UNCHANGED cjVars
    PROVE  /\ TypeInv'
           /\ \/ Goes(t, NoJob) /\ SameLists /\ SameLocks
              \/ TakesOut(t, "ani")
<1>0. TypeInv
  BY DEF IndInv
<1>1. PICK c : c = job[t].call
  OBVIOUS
<1>2. /\ innerLock = NoThread
      /\ \/ Goes(t, NoJob) /\ UNCHANGED <<inner, innerLock, takenOut>>
         \/ /\ inner' = Rest(inner, c)
            /\ takenOut' = takenOut \cup {l.id : l \in Removed(inner, c)}
            /\ innerLock' = t
            /\ Goes(t, [op |-> "remove", front |-> "ani", keys |-> FreedKeys(inner, c)])
      /\ UNCHANGED <<app, service, counters, exec>>
  BY <1>1 DEF unregister, InnerFree
<1>3. /\ UNCHANGED <<listenerList_, operatorMutex_, isDeleting, events, runner>>
      /\ UNCHANGED <<records, callState_, mail, ons, updates>>
  BY <1>2 DEF cjVars, service, counters
<1>4. inner \in Seq(Listener) /\ innerLock \in Threads \cup {NoThread, Binder} /\ takenOut \subseteq Ids
  BY <1>0 DEF TypeInv
<1>5. CASE Goes(t, NoJob) /\ UNCHANGED <<inner, innerLock, takenOut>>
  <2>1. TypeInv'
    BY <1>0, <1>2, <1>3, <1>5, JobEnds, ThreadTypes DEF TypeInv
  <2>2. SameLists /\ SameLocks
    BY <1>3, <1>5 DEF SameLists, SameLocks, ListOf, LockOf
  <2> QED BY <1>5, <2>1, <2>2
<1>6. ASSUME /\ inner' = Rest(inner, c)
             /\ takenOut' = takenOut \cup {l.id : l \in Removed(inner, c)}
             /\ innerLock' = t
             /\ Goes(t, [op |-> "remove", front |-> "ani", keys |-> FreedKeys(inner, c)])
      PROVE  TypeInv' /\ TakesOut(t, "ani")
  <2>1. /\ Rest(inner, c) \in Seq(Listener)
        /\ ToSet(Rest(inner, c)) \subseteq ToSet(inner)
        /\ ToSet(inner) \ ToSet(Rest(inner, c)) = Removed(inner, c)
        /\ FreedKeys(inner, c) \subseteq Keys
        /\ FreedKeys(inner, c) \subseteq {Key(m) : m \in ToSet(inner)}
        /\ \A k \in Keys : k \in FreedKeys(inner, c) <=>
               /\ \E m \in ToSet(inner) : Key(m) = k
               /\ ~\E m \in ToSet(Rest(inner, c)) : Key(m) = k
    BY <1>4, Freed
  <2>2. PICK keys \in SUBSET Keys : keys = FreedKeys(inner, c)
    BY <2>1
  <2>3. [op |-> "remove", front |-> "ani", keys |-> keys] \in Jobs
    BY Locks DEF Jobs
  <2>4. job'[t] = [op |-> "remove", front |-> "ani", keys |-> keys] /\ OtherJobs(t) /\ job' \in [Threads -> Jobs]
    BY <1>0, <1>6, <2>2, <2>3, JobSet DEF Goes, OtherJobs
  <2>5. {l.id : l \in Removed(inner, c)} \subseteq Ids
    <3>1. Removed(inner, c) \subseteq Listener
      <4>1. ToSet(inner) \subseteq Listener
        BY <1>4 DEF ToSet
      <4> QED BY <4>1, <2>1
    <3> QED BY <3>1 DEF Listener
  <2>6. TypeInv'
    BY <1>0, <1>2, <1>3, <1>4, <1>6, <2>1, <2>4, <2>5, ThreadTypes DEF TypeInv
  <2>7. ListOf("ani") = ToSet(inner) /\ ListOf("ani")' = ToSet(Rest(inner, c))
    BY <1>6 DEF ListOf
  <2>8. Takes(t, "ani")
    BY <1>2, <1>3, <1>6 DEF Takes, LockOf, Fronts
  <2>9. \A g \in Fronts : g # "ani" => ListOf(g)' = ListOf(g)
    BY <1>3 DEF ListOf, Fronts
  <2> QED BY <2>1, <2>2, <2>4, <2>6, <2>7, <2>8, <2>9 DEF TakesOut
<1> QED BY <1>2, <1>5, <1>6

\* An off that finds the list empty keeps the invariant.
LEMMA OffEmptyKeeps ==
    ASSUME IndInv, TypeInv', NEW t \in Threads, job[t].op = "off",
           Goes(t, NoJob), SameLists, SameLocks,
           UNCHANGED <<app, records, lost, failed, reported, ons, isDeleting, late, offInCallback,
                       runner, exec>>
    PROVE  IndInv'
<1>a. /\ TypeInv /\ ListsProper /\ MutexOwners /\ OnePlace /\ ExecListed /\ LateCalls /\ RecordsFollow
  BY DEF IndInv
<1>b. OtherJobs(t) /\ job'[t].op = "none" /\ job[t] # NoJob
  BY <1>a, JobEnds DEF OtherJobs, NoJob
<1>c. /\ job'[t].op \notin OnOps /\ job'[t].op \notin LockedOps /\ job[t].op \notin LockedOps
      /\ job[t].op # "added" /\ job'[t].op # "added" /\ job'[t].op # "remove" /\ job[t].op # "remove"
  BY <1>b DEF OnOps, LockedOps
<1>1. MutexOwners'
  BY <1>a, <1>b, <1>c, Locks, LocksKept
<1>2. OnePlace'
  BY <1>a, <1>b, <1>c, PlaceOfOn
<1>3. LateCalls'
  BY <1>a, <1>b, LateSame
<1>4. RecordsFollow'
  BY <1>a, <1>b, <1>c, RecordsSameLists
<1>5. ListsProper'
  <2>1. \A g \in Fronts : \A m \in ListOf(g)' : m \in ListOf(g) \/ (m.front = g /\ Proper(m))
    BY DEF SameLists
  <2> QED BY <2>1, <1>a, <1>b, <1>c, ProperKept
<1>6. ExecListed'
  BY <1>a DEF ExecListed, SameLists, Fronts
<1> QED BY <1>1, <1>2, <1>3, <1>4, <1>5, <1>6 DEF IndInv

\* An off that takes listeners out keeps it.
LEMMA TakesOutKeeps ==
    ASSUME IndInv, TypeInv', NEW t \in Threads, NEW f \in Fronts, job[t].op = "off", TakesOut(t, f),
           UNCHANGED <<app, records, lost, failed, reported, ons, late, runner, exec>>,
           isDeleting' = isDeleting \cup {l.id : l \in ListOf("cj") \ ListOf("cj")'},
           offInCallback' = IF t = EventRunner
                            THEN offInCallback \cup {l.id : l \in ListOf("cj") \ ListOf("cj")'}
                            ELSE offInCallback
    PROVE  IndInv'
<1>a. /\ TypeInv /\ ListsProper /\ MutexOwners /\ OnePlace /\ ExecListed /\ LateCalls /\ RecordsFollow
  BY DEF IndInv
<1>b. /\ job'[t].op = "remove" /\ job'[t].front = f /\ OtherJobs(t) /\ Takes(t, f) /\ LockOf(f) = NoThread
      /\ ListOf(f)' \subseteq ListOf(f) /\ \A g \in Fronts : g # f => ListOf(g)' = ListOf(g)
      /\ \A k \in Keys : k \in job'[t].keys <=>
             /\ \E m \in ListOf(f) : Key(m) = k
             /\ ~\E m \in ListOf(f)' : Key(m) = k
      /\ job'[t].keys \subseteq {Key(m) : m \in ListOf(f)}
  BY DEF TakesOut, Takes
<1>c. /\ job[t] # NoJob /\ job'[t].op \notin OnOps /\ job'[t].op \in LockedOps
      /\ job[t].op \notin LockedOps
  BY <1>b DEF OnOps, LockedOps, NoJob
<1>d. \A g \in Fronts : ListOf(g)' \subseteq ListOf(g)
  BY <1>b
<1>1. MutexOwners'
  BY <1>a, <1>b, <1>c, LocksKept
<1>2. OnePlace'
  BY <1>a, <1>b, <1>c, <1>d, PlaceOfOld
<1>3. LateCalls'
  <2> DEFINE gone == {l.id : l \in ListOf("cj") \ ListOf("cj")'}
  <2>1. \A n \in gone : n \notin isDeleting
    BY <1>a DEF OnePlace
  <2>2. isDeleting' = isDeleting \cup gone
        /\ offInCallback' = IF t = EventRunner THEN offInCallback \cup gone ELSE offInCallback
    OBVIOUS
  <2>3. PICK ids : ids = gone
    OBVIOUS
  <2> HIDE DEF gone
  <2> QED BY <1>a, <1>b, <1>c, <2>1, <2>2, <2>3, LateKept
<1>4. RecordsFollow'
  BY <1>a, <1>b, <1>c, RecordsTakenOut
<1>5. ListsProper'
  <2>1. \A g \in Fronts : \A m \in ListOf(g)' : m \in ListOf(g) \/ (m.front = g /\ Proper(m))
    BY <1>d
  <2>2. \A m \in ListOf(f) : Key(m).slotId >= ALL_SLOTS
    <3>1. \A m \in ListOf(f) : Proper(m) /\ m.slotId \in Int
      BY <1>a, ListedType DEF ListsProper, Listed, Listener
    <3> QED BY <3>1 DEF Proper, Key, ALL_SLOTS
  <2>3. \A k \in job'[t].keys : k.slotId >= ALL_SLOTS
    BY <1>b, <2>2
  <2> QED BY <2>1, <2>3, <1>a, <1>b, <1>c, ProperKept
<1>6. ExecListed'
  <2>1. CASE f = "ani"
    <3>1. innerLock = NoThread
      BY <1>b, <2>1, Locks
    <3>2. exec = NoExec
      BY <3>1, <1>a DEF MutexOwners, Binder, NoThread
    <3> QED BY <3>2 DEF ExecListed
  <2>2. CASE f # "ani"
    BY <2>2, <1>a, <1>b, Locks DEF ExecListed
  <2> QED BY <2>1, <2>2
<1> QED BY <1>1, <1>2, <1>3, <1>4, <1>5, <1>6 DEF IndInv

\* off goes on to the next key, in either front end.
Removes(t, f) ==
    /\ job[t].op = "remove" /\ job[t].front = f /\ job'[t].op = "remove" /\ job'[t].front = f
    /\ OtherJobs(t) /\ job'[t].keys \subseteq job[t].keys
    /\ records' \subseteq records /\ lost \subseteq lost'
    /\ \A r \in records : r \in records'
          \/ (r.key \in job[t].keys /\ (r.front = f \/ <<r.front, r.key>> \in lost'))
    /\ \A g \in Fronts : GivenUp(g) \subseteq GivenUp(g)'
    /\ \A k \in job[t].keys : k \in job'[t].keys \/ k \in GivenUp(f)' \/ \A r \in records' : r.key # k

\* A step of the loop of off keeps the invariant.
LEMMA RemovesKeeps ==
    ASSUME IndInv, TypeInv', NEW t \in Threads, NEW f \in Fronts, Removes(t, f), SameLists, SameLocks,
           UNCHANGED <<app, ons, isDeleting, late, offInCallback, runner, exec>>
    PROVE  IndInv'
<1>a. /\ TypeInv /\ ListsProper /\ MutexOwners /\ OnePlace /\ ExecListed /\ LateCalls /\ RecordsFollow
  BY DEF IndInv
<1>b. /\ job[t].op = "remove" /\ job[t].front = f /\ job'[t].op = "remove" /\ job'[t].front = f
      /\ OtherJobs(t) /\ job'[t].keys \subseteq job[t].keys
  BY DEF Removes
<1>c. /\ job[t] # NoJob /\ job'[t].op \notin OnOps /\ job'[t].op \in LockedOps /\ job[t].op \in LockedOps
  BY <1>b DEF OnOps, LockedOps, NoJob
<1>1. MutexOwners'
  BY <1>a, <1>b, <1>c, LocksKept
<1>2. OnePlace'
  BY <1>a, <1>b, <1>c, PlaceOfOn
<1>3. LateCalls'
  BY <1>a, <1>b, <1>c, LateSame
<1>4. RecordsFollow'
  BY <1>a, RecordsRemoved DEF Removes
<1>5. ListsProper'
  <2>1. \A g \in Fronts : \A m \in ListOf(g)' : m \in ListOf(g) \/ (m.front = g /\ Proper(m))
    BY DEF SameLists
  <2>2. \A k \in job'[t].keys : k.slotId >= ALL_SLOTS
    BY <1>a, <1>b DEF ListsProper
  <2> QED BY <2>1, <2>2, <1>a, <1>b, <1>c, ProperKept
<1>6. ExecListed'
  BY <1>a DEF ExecListed, SameLists, Fronts
<1> QED BY <1>1, <1>2, <1>3, <1>4, <1>5, <1>6 DEF IndInv

\* A shorter set of keys in the call of off.
LEMMA FewerKeys ==
    ASSUME TypeInv, NEW t \in Threads, job[t].op = "remove",
           NEW K \in SUBSET Keys, job' = [job EXCEPT ![t].keys = K]
    PROVE  /\ job'[t].op = "remove" /\ job'[t].front = job[t].front /\ job'[t].keys = K
           /\ OtherJobs(t) /\ job' \in [Threads -> Jobs]
<1>1. job[t] \in [op : {"remove"}, front : Fronts, keys : SUBSET Keys]
  BY JobTypes
<1>2. job' = [job EXCEPT ![t] = [job[t] EXCEPT !.keys = K]]
  BY DEF TypeInv
<1>3. PICK j : j = [job[t] EXCEPT !.keys = K]
  OBVIOUS
<1>4. /\ j \in [op : {"remove"}, front : Fronts, keys : SUBSET Keys]
      /\ j.op = "remove" /\ j.front = job[t].front /\ j.keys = K
  BY <1>1, <1>3
<1>5. j \in Jobs
  BY <1>4 DEF Jobs
<1>6. job'[t] = j /\ OtherJobs(t) /\ job' \in [Threads -> Jobs]
  BY <1>2, <1>3, <1>5, JobSet DEF OtherJobs
<1> QED BY <1>4, <1>6

\* The key off asks the service to remove next.
LEMMA TheNextKey ==
    ASSUME IndInv, NEW t \in Threads, job[t].op = "remove", job[t].keys # {}
    PROVE  job[t].keys \in SUBSET Keys /\ NextKey(job[t].keys) \in job[t].keys
<1>1. job[t] \in [op : {"remove"}, front : Fronts, keys : SUBSET Keys]
  BY JobTypes DEF IndInv
<1>2. job[t].keys \subseteq Keys
  BY <1>1
<1>3. \A k \in job[t].keys : k.slotId >= ALL_SLOTS
  BY DEF IndInv, ListsProper
<1> QED BY <1>2, <1>3, NextKeyExists

\* The service removes the record of a key, for a call of front end f.
LEMMA ServiceRemoves ==
    ASSUME TypeInv, NEW f, NEW key, RemoveStateObserver(f, key)
    PROVE  /\ records' \subseteq records /\ lost \subseteq lost' /\ UNCHANGED <<callState_, mail>>
           /\ \A r \in records : r \in records' \/ (r.key = key /\ (r.front = f \/ <<r.front, r.key>> \in lost'))
           /\ \A r \in records' : r.key # key
  BY DEF RemoveStateObserver

\* CheckRemoveStateObserver, whether it succeeds or fails.
LEMMA CjRemoves ==
    ASSUME IndInv, NEW t \in Threads, CheckRemoveStateObserver(t) \/ CjRemoveFails(t), UNCHANGED aniVars
    PROVE  TypeInv' /\ Removes(t, "cj") /\ SameLists /\ SameLocks
<1>0. TypeInv
  BY DEF IndInv
<1>1. job[t].op = "remove" /\ job[t].front = "cj" /\ job[t].keys # {}
  BY DEF CheckRemoveStateObserver, CjRemoveFails, CjRemoving, Waits
<1>2. PICK keys \in SUBSET Keys, key \in Keys : keys = job[t].keys /\ key = NextKey(keys) /\ key \in keys
  BY <1>1, TheNextKey
<1>3. job' = [job EXCEPT ![t].keys = keys \ {key}]
  <2>1. CASE CheckRemoveStateObserver(t)
    BY <1>2, <2>1 DEF CheckRemoveStateObserver, CjKeysAfterFailure
  <2>2. CASE CjRemoveFails(t)
    BY <1>2, <2>2 DEF CjRemoveFails, CjKeysAfterFailure
  <2> QED BY <2>1, <2>2
<1>4. /\ job'[t].op = "remove" /\ job'[t].front = "cj" /\ job'[t].keys = keys \ {key}
      /\ OtherJobs(t) /\ job' \in [Threads -> Jobs]
  <2>1. keys \ {key} \in SUBSET Keys
    OBVIOUS
  <2> QED BY <2>1, <1>0, <1>1, <1>3, FewerKeys
<1>5. /\ UNCHANGED <<app, ons, updates, listenerList_, operatorMutex_, isDeleting, events, runner, late, offInCallback>>
      /\ UNCHANGED <<inner, innerLock, exec, takenOut, reported>>
  BY DEF CheckRemoveStateObserver, CjRemoveFails, Fault, counters, cjVars, aniVars
<1>6. /\ records' \subseteq records /\ lost \subseteq lost' /\ UNCHANGED <<callState_, mail>>
      /\ \A r \in records : r \in records' \/ (r.key = key /\ (r.front = "cj" \/ <<r.front, r.key>> \in lost'))
      /\ failed \subseteq failed'
      /\ key \in failed' \/ \A r \in records' : r.key # key
  <2>1. CASE CheckRemoveStateObserver(t)
    <3>1. RemoveStateObserver("cj", key) /\ UNCHANGED failed
      BY <1>2, <2>1 DEF CheckRemoveStateObserver, cjVars
    <3> QED BY <1>0, <3>1, ServiceRemoves
  <2>2. CASE CjRemoveFails(t)
    BY <1>2, <2>2 DEF CjRemoveFails, Fault, service
  <2> QED BY <2>1, <2>2
<1>7. \A g \in Fronts : GivenUp(g) \subseteq GivenUp(g)'
  BY <1>5, <1>6 DEF GivenUp
<1>8. GivenUp("cj")' = failed'
  BY DEF GivenUp
<1>9. Removes(t, "cj")
  BY <1>1, <1>2, <1>4, <1>6, <1>7, <1>8 DEF Removes
<1>10. TypeInv'
  BY <1>0, <1>4, <1>5, <1>6, ThreadTypes DEF TypeInv
<1>11. SameLists /\ SameLocks
  BY <1>5 DEF SameLists, SameLocks, ListOf, LockOf
<1> QED BY <1>9, <1>10, <1>11

\* The loop of unregister, whose first failure is its last turn.
LEMMA AniRemoves ==
    ASSUME IndInv, NEW t \in Threads, EventListenerUnRegister(t) \/ EventListenerUnRegisterFails(t),
           UNCHANGED cjVars
    PROVE  TypeInv' /\ Removes(t, "ani") /\ SameLists /\ SameLocks
<1>0. TypeInv
  BY DEF IndInv
<1>1. job[t].op = "remove" /\ job[t].front = "ani" /\ job[t].keys # {}
  BY DEF EventListenerUnRegister, EventListenerUnRegisterFails, unregisterRemoving, Waits
<1>2. PICK keys \in SUBSET Keys, key \in Keys : keys = job[t].keys /\ key = NextKey(keys) /\ key \in keys
  BY <1>1, TheNextKey
<1>3. \/ /\ job' = [job EXCEPT ![t].keys = keys \ {key}] /\ UNCHANGED reported
         /\ RemoveStateObserver("ani", key)
      \/ /\ job' = [job EXCEPT ![t].keys = {}] /\ reported' = reported \cup keys
         /\ RemoveStateObserver("ani", key) \/ UNCHANGED service
  <2>1. CASE EventListenerUnRegister(t)
    BY <1>2, <2>1 DEF EventListenerUnRegister, Err
  <2>2. CASE EventListenerUnRegisterFails(t)
    BY <1>2, <2>2 DEF EventListenerUnRegisterFails, Err, Fault
  <2> QED BY <2>1, <2>2
<1> DEFINE Shrinks(K) ==
      /\ K \subseteq keys /\ job' = [job EXCEPT ![t].keys = K]
      /\ \/ K = {} /\ reported' = reported \cup keys
         \/ K = keys \ {key} /\ UNCHANGED reported /\ RemoveStateObserver("ani", key)
<1>4. PICK K \in SUBSET Keys : Shrinks(K)
  <2>1. keys \ {key} \in SUBSET Keys /\ {} \in SUBSET Keys
    OBVIOUS
  <2>2. Shrinks(keys \ {key}) \/ Shrinks({})
    BY <1>3
  <2> HIDE DEF Shrinks
  <2> QED BY <2>1, <2>2
<1>5. /\ job'[t].op = "remove" /\ job'[t].front = "ani" /\ job'[t].keys = K
      /\ OtherJobs(t) /\ job' \in [Threads -> Jobs]
  BY <1>0, <1>1, <1>4, FewerKeys
<1>6. /\ UNCHANGED <<app, ons, updates, inner, innerLock, exec, takenOut>>
      /\ UNCHANGED <<listenerList_, operatorMutex_, isDeleting, events, runner, late, offInCallback, failed>>
  BY DEF EventListenerUnRegister, EventListenerUnRegisterFails, Fault, counters, cjVars
<1>7. /\ records' \subseteq records /\ lost \subseteq lost' /\ UNCHANGED <<callState_, mail>>
      /\ \A r \in records : r \in records' \/ (r.key = key /\ (r.front = "ani" \/ <<r.front, r.key>> \in lost'))
  <2>1. CASE RemoveStateObserver("ani", key)
    BY <1>0, <2>1, ServiceRemoves
  <2>2. CASE UNCHANGED service
    BY <2>2 DEF service
  <2> QED BY <1>3, <2>1, <2>2
<1>8. reported \subseteq reported' /\ \A k \in keys : k \in K \/ k \in reported' \/ \A r \in records' : r.key # k
  <2>1. CASE K = {} /\ reported' = reported \cup keys
    BY <2>1
  <2>2. CASE K = keys \ {key} /\ UNCHANGED reported /\ RemoveStateObserver("ani", key)
    <3>1. \A r \in records' : r.key # key
      BY <1>0, <2>2, ServiceRemoves
    <3> QED BY <2>2, <3>1
  <2> QED BY <1>4, <2>1, <2>2
<1>9. (\A g \in Fronts : GivenUp(g) \subseteq GivenUp(g)') /\ GivenUp("ani")' = reported'
  BY <1>6, <1>8 DEF GivenUp
<1>10. Removes(t, "ani")
  BY <1>1, <1>2, <1>4, <1>5, <1>7, <1>8, <1>9 DEF Removes
<1>11. TypeInv'
  BY <1>0, <1>5, <1>6, <1>7, ThreadTypes DEF TypeInv
<1>12. SameLists /\ SameLocks
  BY <1>6 DEF SameLists, SameLocks, ListOf, LockOf
<1> QED BY <1>10, <1>11, <1>12

-----------------------------------------------------------------------------
(* Events, and the service. *)

\* The lists, the mutexes, the calls and the records stay.
LEMMA QuietKeeps ==
    ASSUME IndInv, TypeInv', LateCalls',
           UNCHANGED <<app, job, records, lost, failed, reported, ons, listenerList_, inner>>,
           UNCHANGED <<operatorMutex_, innerLock, isDeleting, offInCallback, exec>>
    PROVE  IndInv'
<1>a. ListsProper /\ MutexOwners /\ OnePlace /\ ExecListed /\ RecordsFollow
  BY DEF IndInv
<1>b. /\ \A g : ListOf(g)' = ListOf(g) /\ LockOf(g)' = LockOf(g) /\ GivenUp(g)' = GivenUp(g)
      /\ Listed' = Listed
  BY DEF ListOf, LockOf, GivenUp, Listed
<1>1. ListsProper'
  <2>1. \A m : Proper(m)' <=> Proper(m)
    BY DEF Proper, SIM_SLOT_COUNT
  <2>2. \A s \in Threads : Proper(job[s].listener)' <=> Proper(job[s].listener)
    BY DEF Proper, SIM_SLOT_COUNT
  <2> HIDE DEF Proper, ListOf
  <2> QED BY <1>a, <1>b, <2>1, <2>2 DEF ListsProper
<1>2. MutexOwners'
  BY <1>a, <1>b DEF MutexOwners, Holds
<1>3. OnePlace'
  BY <1>a, <1>b DEF OnePlace
<1>4. ExecListed'
  BY <1>a, <1>b DEF ExecListed
<1>5. RecordsFollow'
  <2>1. \A g \in Fronts, k \in Keys : Wanted(g, k)' <=> Wanted(g, k)
    BY <1>b DEF Wanted
  <2>2. \A g \in Fronts, k \in Keys : ToRemove(g, k)' <=> ToRemove(g, k)
    BY DEF ToRemove
  <2> QED BY <1>a, <2>1, <2>2, RecordsUntouched DEF IndInv
<1> QED BY <1>1, <1>2, <1>3, <1>4, <1>5 DEF IndInv

\* What the EventRunner thread is doing.
LEMMA RunnerTypes ==
    ASSUME TypeInv
    PROVE  /\ runner.pc \in {"idle", "test", "call", "in"}
           /\ runner.pc # "idle" => runner \in [pc : {"test", "call", "in"}, event : Event, todo : Todo]
           /\ runner = RunnerIdle <=> runner.pc = "idle"
<1>1. CASE runner = RunnerIdle
  BY <1>1 DEF RunnerIdle
<1>2. CASE runner \in [pc : {"test", "call", "in"}, event : Event, todo : Todo]
  BY <1>2 DEF RunnerIdle
<1> QED BY <1>1, <1>2 DEF TypeInv

\* The thread goes on with the rest of its copies, or waits for the next event.
LEMMA RunnerGoesOn ==
    ASSUME NEW ev \in Event, NEW todo \in Seq(Listener), RunnerAt(ev, todo)
    PROVE  /\ runner' = RunnerIdle \/ runner' \in [pc : {"test", "call", "in"}, event : Event, todo : Todo]
           /\ runner'.pc \in {"idle", "test"}
<1>1. CASE todo = <<>>
  BY <1>1 DEF RunnerAt, RunnerIdle
<1>2. CASE todo # <<>>
  BY <1>2 DEF RunnerAt, Todo
<1> QED BY <1>1, <1>2

\* The types after a step of the queue or of the EventRunner.
LEMMA RunnerStepTypes ==
    ASSUME TypeInv, UNCHANGED <<app, job, records, callState_, mail, ons, updates>>,
           UNCHANGED <<listenerList_, inner, operatorMutex_, innerLock, isDeleting, takenOut, exec>>,
           events' \in Seq(Event),
           runner' = RunnerIdle \/ runner' \in [pc : {"test", "call", "in"}, event : Event, todo : Todo]
    PROVE  TypeInv'
  BY DEF TypeInv

\* The EventRunner takes an event and copies its listeners.
LEMMA ProcessEventKeeps ==
    ASSUME IndInv, ProcessEvent, UNCHANGED aniVars
    PROVE  IndInv'
<1>0. TypeInv /\ LateCalls
  BY DEF IndInv
<1>1. /\ runner = RunnerIdle /\ events # <<>> /\ events' = Tail(events)
      /\ RunnerAt(Head(events), Snapshot(Head(events)))
      /\ UNCHANGED <<app, job, records, callState_, mail, lost, ons, updates>>
      /\ UNCHANGED <<listenerList_, operatorMutex_, isDeleting, failed, late, offInCallback>>
      /\ UNCHANGED <<inner, innerLock, exec, reported, takenOut>>
  BY DEF ProcessEvent, MutexAfterSnapshot, processVars, service, counters, aniVars
<1>2. Head(events) \in Event /\ Tail(events) \in Seq(Event)
  BY <1>0, <1>1, PopFront DEF TypeInv
<1>3. Snapshot(Head(events)) \in Seq(Listener)
  BY <1>0, KeptElements DEF TypeInv, Snapshot
<1>4. /\ runner' = RunnerIdle \/ runner' \in [pc : {"test", "call", "in"}, event : Event, todo : Todo]
      /\ runner'.pc \in {"idle", "test"}
  BY <1>1, <1>2, <1>3, RunnerGoesOn
<1>5. TypeInv'
  BY <1>0, <1>1, <1>2, <1>4, RunnerStepTypes
<1>6. LateCalls'
  BY <1>0, <1>1, <1>4 DEF LateCalls, RunnerIdle
<1> QED BY <1>1, <1>5, <1>6, QuietKeeps

\* WorkUpdated tests isDeleting: a function it is about to call has not been
\* taken out.
LEMMA WorkUpdatedKeeps ==
    ASSUME IndInv, WorkUpdated, UNCHANGED aniVars
    PROVE  IndInv'
<1>0. TypeInv /\ LateCalls
  BY DEF IndInv
<1>1. /\ runner.pc = "test"
      /\ IF Passes(Head(runner.todo), runner.event) THEN runner' = [runner EXCEPT !.pc = "call"]
         ELSE RunnerAt(runner.event, Tail(runner.todo))
      /\ UNCHANGED <<app, job, records, callState_, mail, lost, ons, updates>>
      /\ UNCHANGED <<listenerList_, operatorMutex_, isDeleting, events, failed, late, offInCallback>>
      /\ UNCHANGED <<inner, innerLock, exec, reported, takenOut>>
  BY DEF WorkUpdated, processVars, service, counters, aniVars
<1>2. /\ runner \in [pc : {"test", "call", "in"}, event : Event, todo : Todo]
      /\ runner.event \in Event /\ runner.todo \in Seq(Listener) /\ runner.todo # <<>>
  BY <1>0, <1>1, RunnerTypes DEF Todo
<1>3. Tail(runner.todo) \in Seq(Listener)
  BY <1>2, PopFront
<1>4. job[EventRunner] = NoJob
  BY <1>0, <1>1 DEF LateCalls
<1>5. CASE Passes(Head(runner.todo), runner.event)
  <2>1. runner' = [runner EXCEPT !.pc = "call"]
    BY <1>1, <1>5
  <2>2. /\ runner' \in [pc : {"test", "call", "in"}, event : Event, todo : Todo]
        /\ runner'.pc = "call" /\ runner'.todo = runner.todo
    BY <1>2, <2>1
  <2>3. Head(runner.todo).id \notin isDeleting
    BY <1>5 DEF Passes
  <2>4. TypeInv'
    <3>1. events' \in Seq(Event)
      BY <1>0, <1>1 DEF TypeInv
    <3> QED BY <1>0, <1>1, <2>2, <3>1, RunnerStepTypes
  <2>5. LateCalls'
    <3>1. Head(runner'.todo).id \notin isDeleting
      BY <2>2, <2>3
    <3> QED BY <1>0, <1>1, <1>4, <3>1 DEF LateCalls
  <2> QED BY <1>1, <2>4, <2>5, QuietKeeps
<1>6. CASE ~Passes(Head(runner.todo), runner.event)
  <2>1. /\ runner' = RunnerIdle \/ runner' \in [pc : {"test", "call", "in"}, event : Event, todo : Todo]
        /\ runner'.pc \in {"idle", "test"}
    BY <1>1, <1>2, <1>3, <1>6, RunnerGoesOn
  <2>2. TypeInv'
    <3>1. events' \in Seq(Event)
      BY <1>0, <1>1 DEF TypeInv
    <3> QED BY <1>0, <1>1, <2>1, <3>1, RunnerStepTypes
  <2>3. LateCalls'
    BY <1>0, <1>1, <1>4, <2>1 DEF LateCalls
  <2> QED BY <1>1, <2>2, <2>3, QuietKeeps
<1> QED BY <1>5, <1>6

\* The function is called, late if off came in between.
LEMMA callbackRefKeeps ==
    ASSUME IndInv, callbackRef, UNCHANGED aniVars
    PROVE  IndInv'
<1>0. TypeInv /\ LateCalls
  BY DEF IndInv
<1> DEFINE call == <<Head(runner.todo).id, runner.event.update>>
<1>1. /\ runner.pc = "call" /\ runner' = [runner EXCEPT !.pc = "in"]
      /\ late' = IF call[1] \in isDeleting THEN late \cup {call} ELSE late
      /\ UNCHANGED <<app, job, records, callState_, mail, lost, ons, updates>>
      /\ UNCHANGED <<listenerList_, operatorMutex_, isDeleting, events, failed, offInCallback>>
      /\ UNCHANGED <<inner, innerLock, exec, reported, takenOut>>
  BY DEF callbackRef, service, counters, aniVars
<1>2. call[1] = Head(runner.todo).id
  OBVIOUS
<1>3. /\ runner' \in [pc : {"test", "call", "in"}, event : Event, todo : Todo]
      /\ runner'.pc = "in"
  BY <1>0, <1>1, RunnerTypes
<1>4. TypeInv'
  <2>1. events' \in Seq(Event)
    BY <1>0, <1>1 DEF TypeInv
  <2> QED BY <1>0, <1>1, <1>3, <2>1, RunnerStepTypes
<1>5. call[1] \notin offInCallback /\ \A c \in late : c[1] # call[1]
  BY <1>0, <1>1, <1>2 DEF LateCalls
<1> HIDE DEF call
<1>6. \A c \in late' : c \in late \/ (c = call /\ call[1] \in isDeleting)
  BY <1>1
<1>7. (\A c \in late' : c[1] \in isDeleting /\ c[1] \notin offInCallback)
      /\ \A c, d \in late' : c[1] = d[1] => c = d
  BY <1>0, <1>5, <1>6 DEF LateCalls
<1>8. LateCalls'
  BY <1>0, <1>1, <1>3, <1>7 DEF LateCalls
<1> QED BY <1>1, <1>4, <1>8, QuietKeeps

\* The function returns.
LEMMA CallbackReturnsKeeps ==
    ASSUME IndInv, CallbackReturns, UNCHANGED aniVars
    PROVE  IndInv'
<1>0. TypeInv /\ LateCalls
  BY DEF IndInv
<1>1. /\ runner.pc = "in" /\ job[EventRunner] = NoJob /\ RunnerAt(runner.event, Tail(runner.todo))
      /\ UNCHANGED <<app, job, records, callState_, mail, lost, ons, updates>>
      /\ UNCHANGED <<listenerList_, operatorMutex_, isDeleting, events, failed, late, offInCallback>>
      /\ UNCHANGED <<inner, innerLock, exec, reported, takenOut>>
  BY DEF CallbackReturns, processVars, service, counters, aniVars
<1>2. runner.event \in Event /\ runner.todo \in Seq(Listener) /\ runner.todo # <<>>
  BY <1>0, <1>1, RunnerTypes DEF Todo
<1>3. Tail(runner.todo) \in Seq(Listener)
  BY <1>2, PopFront
<1>4. /\ runner' = RunnerIdle \/ runner' \in [pc : {"test", "call", "in"}, event : Event, todo : Todo]
      /\ runner'.pc \in {"idle", "test"}
  BY <1>1, <1>2, <1>3, RunnerGoesOn
<1>5. TypeInv'
  <2>1. events' \in Seq(Event)
    BY <1>0, <1>1 DEF TypeInv
  <2> QED BY <1>0, <1>1, <1>4, <2>1, RunnerStepTypes
<1>6. LateCalls'
  BY <1>0, <1>1, <1>4 DEF LateCalls
<1> QED BY <1>1, <1>5, <1>6, QuietKeeps

\* A one-way call arrives: it was the first on its way to the observer.
LEMMA Delivered ==
    ASSUME TypeInv, NEW o \in Ids, NEW front, Deliver(o, front)
    PROVE  /\ Head(mail[o]) \in Event /\ Head(mail[o]).front = front
           /\ mail' \in [Ids -> Seq(Event)]
           /\ UNCHANGED <<app, job, records, callState_, lost, ons, updates, heard>>
<1>1. mail[o] \in Seq(Event) /\ mail[o] # <<>>
  BY DEF TypeInv, Deliver
<1>2. Head(mail[o]) \in Event /\ Tail(mail[o]) \in Seq(Event)
  BY <1>1, PopFront
<1>3. mail' = [mail EXCEPT ![o] = Tail(@)] /\ Head(mail[o]).front = front
  BY DEF Deliver
<1>4. mail' \in [Ids -> Seq(Event)]
  BY <1>2, <1>3 DEF TypeInv
<1>5. UNCHANGED <<app, job, records, callState_, lost, ons, updates, heard>>
  BY DEF Deliver, counters
<1> QED BY <1>2, <1>3, <1>4, <1>5

\* The Cangjie observer puts the event into the queue.
LEMMA SendEventKeeps ==
    ASSUME IndInv, NEW o \in Ids, FfiObserverSendsEvent(o), UNCHANGED aniVars
    PROVE  IndInv'
<1>0. TypeInv /\ LateCalls
  BY DEF IndInv
<1>1. /\ Deliver(o, "cj") /\ events' = Append(events, Head(mail[o]))
      /\ UNCHANGED <<listenerList_, operatorMutex_, isDeleting, runner, failed, late, offInCallback>>
      /\ UNCHANGED <<inner, innerLock, exec, reported, takenOut>>
  BY DEF FfiObserverSendsEvent, aniVars
<1>2. /\ Head(mail[o]) \in Event /\ mail' \in [Ids -> Seq(Event)]
      /\ UNCHANGED <<app, job, records, callState_, lost, ons, updates>>
  BY <1>0, <1>1, Delivered
<1>3. events' \in Seq(Event)
  <2>1. events \in Seq(Event)
    BY <1>0 DEF TypeInv
  <2> QED BY <1>1, <1>2, <2>1, PushBack
<1>4. TypeInv'
  BY <1>0, <1>1, <1>2, <1>3 DEF TypeInv
<1>5. LateCalls'
  BY <1>0, <1>1, <1>2 DEF LateCalls
<1> QED BY <1>1, <1>2, <1>4, <1>5, QuietKeeps

\* The Mutex of the Vec is with the binder thread exactly as long as it has
\* functions to execute.
LEMMA BinderLock ==
    ASSUME IndInv, innerLock \notin Threads, NEW todo \in Seq(Listener), HeldDuringExecute(todo),
           ToSet(todo) \subseteq ListOf("ani"),
           (exec' = NoExec /\ todo = <<>>) \/ (exec'.todo = todo /\ todo # <<>>),
           exec' = NoExec \/ exec' \in [event : Event, todo : Todo],
           mail' \in [Ids -> Seq(Event)],
           UNCHANGED <<app, job, records, callState_, lost, ons, updates>>,
           UNCHANGED <<inner, reported, takenOut>>, UNCHANGED cjVars
    PROVE  IndInv'
<1>a. /\ TypeInv /\ ListsProper /\ MutexOwners /\ OnePlace /\ LateCalls /\ RecordsFollow
  BY DEF IndInv
<1>b. UNCHANGED <<listenerList_, operatorMutex_, isDeleting, events, runner, failed, late, offInCallback>>
  BY DEF cjVars
<1>c. NoThread \notin Threads /\ Binder \notin Threads /\ Binder # NoThread
  BY <1>a, AppTypes DEF TypeInv, Binder, NoThread
<1>d. innerLock' = IF todo = <<>> THEN NoThread ELSE Binder
  BY DEF HeldDuringExecute
<1>e. exec' # NoExec <=> todo # <<>>
  BY DEF NoExec
<1>f. /\ SameLists /\ Listed' = Listed /\ ListOf("cj")' = ListOf("cj") /\ ListOf("ani")' = ListOf("ani")
      /\ \A g \in Fronts : GivenUp(g)' = GivenUp(g)
  BY <1>b DEF SameLists, ListOf, Listed, GivenUp
<1>1. TypeInv'
  BY <1>a, <1>b, <1>d DEF TypeInv
<1>2. MutexOwners'
  <2>1. \A s \in Threads, g \in Fronts : Holds(s, g)' <=> Holds(s, g)
    BY DEF Holds
  <2>2. \A s \in Threads : LockOf("cj")' = s <=> LockOf("cj") = s
    BY <1>b DEF LockOf
  <2>3. \A s \in Threads : LockOf("ani")' # s /\ LockOf("ani") # s
    BY <1>c, <1>d, Locks
  <2>4. \A s \in Threads, g \in Fronts : LockOf(g)' = s <=> Holds(s, g)'
    BY <1>a, <2>1, <2>2, <2>3 DEF MutexOwners, Fronts
  <2>5. innerLock' = Binder <=> exec' # NoExec
    BY <1>c, <1>d, <1>e
  <2> QED BY <2>4, <2>5 DEF MutexOwners
<1>3. ExecListed'
  BY <1>e, <1>f DEF ExecListed, NoExec
<1>4. ListsProper'
  <2>1. \A m : Proper(m)' <=> Proper(m)
    BY DEF Proper, SIM_SLOT_COUNT
  <2>2. \A s \in Threads : Proper(job[s].listener)' <=> Proper(job[s].listener)
    BY DEF Proper, SIM_SLOT_COUNT
  <2> HIDE DEF Proper
  <2> QED BY <1>a, <1>f, <2>1, <2>2 DEF ListsProper, SameLists
<1>5. OnePlace'
  BY <1>a, <1>b, <1>f DEF OnePlace
<1>6. LateCalls'
  BY <1>a, <1>b DEF LateCalls
<1>7. RecordsFollow'
  <2>1. \A g \in Fronts, k \in Keys : Wanted(g, k)' <=> Wanted(g, k)
    BY <1>f DEF Wanted, SameLists
  <2>2. \A g \in Fronts, k \in Keys : ToRemove(g, k)' <=> ToRemove(g, k)
    BY DEF ToRemove
  <2> QED BY <1>a, <1>b, <2>1, <2>2, RecordsUntouched
<1> QED BY <1>1, <1>2, <1>3, <1>4, <1>5, <1>6, <1>7 DEF IndInv

\* An event reaches the ANI front end, whose Mutex is free.
LEMMA on_updatedKeeps ==
    ASSUME IndInv, NEW o \in Ids, on_updated(o), UNCHANGED cjVars
    PROVE  IndInv'
<1>0. TypeInv
  BY DEF IndInv
<1>1. PICK ev : ev = Head(mail[o])
  OBVIOUS
<1>2. PICK todo : todo = Kept(inner, {l \in ToSet(inner) : executes_for(l, ev)})
  OBVIOUS
<1>3. /\ innerLock = NoThread /\ Deliver(o, "ani")
      /\ exec' = IF todo = <<>> THEN NoExec ELSE [event |-> ev, todo |-> todo]
      /\ HeldDuringExecute(todo)
      /\ UNCHANGED <<inner, reported, takenOut>>
  BY <1>1, <1>2 DEF on_updated, InnerFree
<1>4. todo \in Seq(Listener) /\ ToSet(todo) \subseteq ListOf("ani")
  <2>1. inner \in Seq(Listener)
    BY <1>0 DEF TypeInv
  <2>2. todo \in Seq(Listener) /\ ToSet(todo) = ToSet(inner) \cap {l \in ToSet(inner) : executes_for(l, ev)}
    BY <1>2, <2>1, KeptElements
  <2> QED BY <2>2, Locks
<1>5. /\ ev \in Event /\ mail' \in [Ids -> Seq(Event)]
      /\ UNCHANGED <<app, job, records, callState_, lost, ons, updates>>
  BY <1>0, <1>1, <1>3, Delivered
<1>6. innerLock \notin Threads
  BY <1>0, <1>3, AppTypes DEF TypeInv
<1>7. /\ (exec' = NoExec /\ todo = <<>>) \/ (exec'.todo = todo /\ todo # <<>>)
      /\ exec' = NoExec \/ exec' \in [event : Event, todo : Todo]
  BY <1>3, <1>4, <1>5 DEF Todo
<1> QED BY <1>3, <1>4, <1>5, <1>6, <1>7, BinderLock

\* What the binder thread is executing.
LEMMA ExecTypes ==
    ASSUME IndInv, exec # NoExec
    PROVE  /\ exec \in [event : Event, todo : Todo]
           /\ exec.todo \in Seq(Listener) /\ exec.todo # <<>> /\ exec.event \in Event
           /\ ToSet(exec.todo) \subseteq ListOf("ani")
           /\ innerLock \notin Threads
<1>1. exec \in [event : Event, todo : Todo]
  BY DEF IndInv, TypeInv
<1>2. innerLock = Binder /\ Binder \notin Threads
  BY AppTypes DEF IndInv, MutexOwners, TypeInv
<1> QED BY <1>1, <1>2 DEF Todo, IndInv, ExecListed

\* A function of the Vec is executed.
LEMMA executeKeeps ==
    ASSUME IndInv, execute, UNCHANGED cjVars
    PROVE  IndInv'
<1>0. TypeInv
  BY DEF IndInv
<1>1. /\ exec # NoExec
      /\ exec' = IF Tail(exec.todo) = <<>> THEN NoExec ELSE [exec EXCEPT !.todo = Tail(@)]
      /\ HeldDuringExecute(Tail(exec.todo))
      /\ UNCHANGED <<app, job, records, callState_, lost, mail, ons, updates>>
      /\ UNCHANGED <<inner, reported, takenOut>>
  BY DEF execute, service, counters
<1>2. /\ exec \in [event : Event, todo : Todo]
      /\ exec.todo \in Seq(Listener) /\ exec.todo # <<>>
      /\ ToSet(exec.todo) \subseteq ListOf("ani") /\ innerLock \notin Threads
  BY <1>1, ExecTypes
<1>3. PICK todo : todo = Tail(exec.todo)
  OBVIOUS
<1>4. todo \in Seq(Listener) /\ ToSet(todo) \subseteq ListOf("ani")
  BY <1>2, <1>3, PopFront
<1>5. exec' = IF todo = <<>> THEN NoExec ELSE [exec EXCEPT !.todo = todo]
  BY <1>1, <1>3
<1>6. /\ (exec' = NoExec /\ todo = <<>>) \/ (exec'.todo = todo /\ todo # <<>>)
      /\ exec' = NoExec \/ exec' \in [event : Event, todo : Todo]
  BY <1>2, <1>4, <1>5 DEF Todo
<1>7. mail' \in [Ids -> Seq(Event)]
  BY <1>0, <1>1 DEF TypeInv
<1>8. HeldDuringExecute(todo)
  BY <1>1, <1>3
<1> QED BY <1>1, <1>2, <1>4, <1>6, <1>7, <1>8, BinderLock

\* A producer reports a change.
LEMMA ServiceUpdateKeeps ==
    ASSUME IndInv, NEW u \in app.updates, ServiceUpdate(u), UNCHANGED <<cjVars, aniVars>>
    PROVE  IndInv'
<1>0. TypeInv /\ LateCalls
  BY DEF IndInv
<1>a. /\ updates \in Nat /\ u.type \in ObserverMask /\ u.slotId \in Int /\ u.val \in Int
      /\ u.type = "CALL_STATE" => u.val \in CALL_STATUS_UNKNOWN .. CALL_STATUS_ANSWERED
  BY <1>0, AppTypes DEF TypeInv
<1>1. /\ updates' = updates + 1
      /\ callState_' = IF u.type = "CALL_STATE" THEN [callState_ EXCEPT ![u.slotId] = u.val] ELSE callState_
      /\ UNCHANGED <<app, job, records, lost, ons>>
      /\ UNCHANGED <<listenerList_, operatorMutex_, isDeleting, events, runner, failed, late, offInCallback>>
      /\ UNCHANGED <<inner, innerLock, exec, reported, takenOut>>
  BY DEF ServiceUpdate, cjVars, aniVars
<1> DEFINE Called(o) == {r \in records : r.observer = o /\ ServiceCalls(r, u)}
           Told(o) == LET r == CHOOSE r \in Called(o) : TRUE
                      IN [front |-> r.front, type |-> r.key.type, slotId |-> u.slotId,
                          update |-> updates + 1, val |-> u.val]
<1>2. mail' = [o \in Ids |-> IF Called(o) = {} THEN mail[o] ELSE Append(mail[o], Told(o))]
  BY DEF ServiceUpdate
<1>3. ASSUME NEW o \in Ids, Called(o) # {} PROVE Told(o) \in Event
  <2>1. PICK r : r = CHOOSE x \in Called(o) : TRUE
    OBVIOUS
  <2>2. r \in records
    BY <1>3, <2>1
  <2>3. r.front \in Fronts /\ r.key.type \in ObserverMask
    BY <1>0, <2>2 DEF TypeInv, Keys
  <2>4. Told(o) = [front |-> r.front, type |-> r.key.type, slotId |-> u.slotId,
                   update |-> updates + 1, val |-> u.val]
    BY <2>1
  <2>5. updates + 1 \in Int
    BY <1>a
  <2> HIDE DEF Told
  <2> QED BY <1>a, <2>3, <2>4, <2>5 DEF Event
<1> HIDE DEF Called, Told
<1>4. \A o \in Ids : (IF Called(o) = {} THEN mail[o] ELSE Append(mail[o], Told(o))) \in Seq(Event)
  <2> SUFFICES ASSUME NEW o \in Ids PROVE (IF Called(o) = {} THEN mail[o] ELSE Append(mail[o], Told(o))) \in Seq(Event)
    OBVIOUS
  <2>1. mail[o] \in Seq(Event)
    BY <1>0 DEF TypeInv
  <2> QED BY <1>3, <2>1, PushBack
<1>5. mail' \in [Ids -> Seq(Event)]
  BY <1>2, <1>4
<1>6. callState_' \in [CallSlots -> CALL_STATUS_UNKNOWN .. CALL_STATUS_ANSWERED]
  <2>1. callState_ \in [CallSlots -> CALL_STATUS_UNKNOWN .. CALL_STATUS_ANSWERED]
    BY <1>0 DEF TypeInv
  <2> QED BY <1>1, <1>a, <2>1
<1>7. TypeInv'
  <2>1. updates' \in Nat
    BY <1>1, <1>a
  <2> QED BY <1>0, <1>1, <2>1, <1>5, <1>6 DEF TypeInv
<1>8. LateCalls'
  BY <1>0, <1>1 DEF LateCalls
<1> QED BY <1>1, <1>7, <1>8, QuietKeeps

\* The service ends and starts without records: every key a front end believes
\* to be registered is lost.
LEMMA ServiceDiesKeeps ==
    ASSUME IndInv, ServiceDies(CjListening \cup AniListening), UNCHANGED <<cjVars, aniVars>>
    PROVE  IndInv'
<1>a. /\ TypeInv /\ ListsProper /\ MutexOwners /\ OnePlace /\ ExecListed /\ LateCalls /\ RecordsFollow
  BY DEF IndInv
<1>1. /\ records' = {} /\ callState_' = NoCalls /\ lost' = lost \cup (CjListening \cup AniListening)
      /\ UNCHANGED <<app, job, mail, ons, updates>>
      /\ UNCHANGED <<listenerList_, operatorMutex_, isDeleting, events, runner, failed, late, offInCallback>>
      /\ UNCHANGED <<inner, innerLock, exec, reported, takenOut>>
  BY DEF ServiceDies, cjVars, aniVars
<1>b. /\ \A g : ListOf(g)' = ListOf(g) /\ LockOf(g)' = LockOf(g) /\ GivenUp(g)' = GivenUp(g)
      /\ Listed' = Listed
  BY <1>1 DEF ListOf, LockOf, GivenUp, Listed
<1>2. TypeInv'
  <2>1. NoCalls \in [CallSlots -> CALL_STATUS_UNKNOWN .. CALL_STATUS_ANSWERED]
    BY DEF NoCalls, CALL_STATUS_UNKNOWN, CALL_STATUS_ACTIVE, CALL_STATUS_ANSWERED
  <2> QED BY <1>a, <1>1, <2>1 DEF TypeInv
<1>3. ListsProper'
  <2>1. \A m : Proper(m)' <=> Proper(m)
    BY <1>1 DEF Proper, SIM_SLOT_COUNT
  <2>2. \A s \in Threads : Proper(job[s].listener)' <=> Proper(job[s].listener)
    BY <1>1 DEF Proper, SIM_SLOT_COUNT
  <2> HIDE DEF Proper, ListOf
  <2> QED BY <1>a, <1>b, <1>1, <2>1, <2>2 DEF ListsProper
<1>4. MutexOwners'
  BY <1>a, <1>b, <1>1 DEF MutexOwners, Holds
<1>5. OnePlace'
  BY <1>a, <1>b, <1>1 DEF OnePlace
<1>6. ExecListed' /\ LateCalls'
  BY <1>a, <1>b, <1>1 DEF ExecListed, LateCalls
<1>7. ASSUME NEW g \in Fronts, NEW k \in Keys, Wanted(g, k)
      PROVE  <<g, k>> \in CjListening \cup AniListening
  <2>1. CASE \E l \in ListOf(g) : Key(l) = k
    <3>1. PICK l \in ListOf(g) : Key(l) = k
      BY <2>1
    <3>2. CASE g = "cj"
      BY <3>1, <3>2 DEF CjListening, ListOf
    <3>3. CASE g = "ani"
      BY <3>1, <3>3 DEF AniListening, ListOf
    <3> QED BY <3>2, <3>3 DEF Fronts
  <2>2. CASE \E t \in Threads : job[t].op = "added" /\ job[t].front = g /\ Key(job[t].listener) = k
    <3>1. PICK t \in Threads : job[t].op = "added" /\ job[t].front = g /\ Key(job[t].listener) = k
      BY <2>2
    <3> HIDE DEF Key
    <3>2. CASE g = "cj"
      BY <3>1, <3>2 DEF CjListening, Waits
    <3>3. CASE g = "ani"
      BY <3>1, <3>3 DEF AniListening, Waits
    <3> QED BY <3>2, <3>3 DEF Fronts
  <2> QED BY <1>7, <2>1, <2>2 DEF Wanted
<1>8. RecordsFollow'
  <2>1. \A g \in Fronts, k \in Keys : Wanted(g, k)' <=> Wanted(g, k)
    BY <1>b, <1>1 DEF Wanted
  <2>2. \A g \in Fronts, k \in Keys : ToRemove(g, k)' <=> ToRemove(g, k)
    BY <1>1 DEF ToRemove
  <2> HIDE DEF Wanted, ToRemove
  <2> QED BY <1>a, <1>1, <1>7, <2>1, <2>2 DEF RecordsFollow
<1> QED BY <1>2, <1>3, <1>4, <1>5, <1>6, <1>8 DEF IndInv

-----------------------------------------------------------------------------
(* Every step, and the theorems. *)

\* Threads that wait for a mutex.
LEMMA WaitingKeeps ==
    ASSUME IndInv, NEW t \in Threads, Waiting(t)
    PROVE  IndInv'
<1>0. TypeInv
  BY DEF IndInv
<1>1. CASE RegisterEventListener(t) /\ UNCHANGED aniVars
  <2>1. job[t].op = "on" /\ job[t].front = "cj"
    BY <1>1 DEF RegisterEventListener, Waits
  <2>2. PICK l \in Listener : l = job[t].listener /\ l.front = "cj"
    BY <2>1, JobListener DEF OnOps
  <2>3. TypeInv' /\ Registers(t, "cj", l)
    BY <1>1, <2>2, CjRegisters
  <2>4. UNCHANGED <<app, records, lost, failed, reported, ons, isDeleting, late, offInCallback, runner, exec>>
    BY <1>1 DEF RegisterEventListener, service, counters, aniVars
  <2> QED BY <2>2, <2>3, <2>4, RegistersKeeps DEF Fronts
<1>2. CASE register(t) /\ UNCHANGED cjVars
  <2>1. job[t].op = "on" /\ job[t].front = "ani"
    BY <1>2 DEF register, Waits
  <2>2. PICK l \in Listener : l = job[t].listener /\ l.front = "ani"
    BY <2>1, JobListener DEF OnOps
  <2>3. TypeInv' /\ Registers(t, "ani", l)
    BY <1>2, <2>2, AniRegisters
  <2>4. UNCHANGED <<app, records, lost, failed, reported, ons, isDeleting, late, offInCallback, runner, exec>>
    BY <1>2 DEF register, service, counters, cjVars
  <2> QED BY <2>2, <2>3, <2>4, RegistersKeeps DEF Fronts
<1>3. CASE UnregisterEventListener(t) /\ UNCHANGED aniVars
  <2>1. /\ job[t].op = "off"
        /\ UNCHANGED <<app, records, lost, failed, reported, ons, late, runner, exec>>
    BY <1>3 DEF UnregisterEventListener, Waits, service, counters, aniVars
  <2>2. /\ TypeInv'
        /\ \/ Goes(t, NoJob) /\ SameLists /\ SameLocks /\ UNCHANGED <<isDeleting, offInCallback>>
           \/ /\ TakesOut(t, "cj")
              /\ isDeleting' = isDeleting \cup {l.id : l \in ListOf("cj") \ ListOf("cj")'}
              /\ offInCallback' = IF t = EventRunner
                                  THEN offInCallback \cup {l.id : l \in ListOf("cj") \ ListOf("cj")'}
                                  ELSE offInCallback
    BY <1>3, CjTakesOut
  <2> QED BY <2>1, <2>2, OffEmptyKeeps, TakesOutKeeps DEF Fronts
<1>4. CASE unregister(t) /\ UNCHANGED cjVars
  <2>1. /\ job[t].op = "off"
        /\ UNCHANGED <<app, records, lost, failed, reported, ons, late, runner, exec>>
        /\ UNCHANGED <<isDeleting, offInCallback, listenerList_>>
    BY <1>4 DEF unregister, Waits, service, counters, cjVars
  <2>2. /\ TypeInv'
        /\ \/ Goes(t, NoJob) /\ SameLists /\ SameLocks
           \/ TakesOut(t, "ani")
    BY <1>4, AniTakesOut
  <2>3. CASE Goes(t, NoJob) /\ SameLists /\ SameLocks
    BY <2>1, <2>2, <2>3, OffEmptyKeeps
  <2>4. CASE TakesOut(t, "ani")
    <3>1. ListOf("cj") \ ListOf("cj")' = {}
      BY <2>1 DEF ListOf
    <3>2. {l.id : l \in ListOf("cj") \ ListOf("cj")'} = {}
      BY <3>1
    <3>3. /\ isDeleting' = isDeleting \cup {l.id : l \in ListOf("cj") \ ListOf("cj")'}
          /\ offInCallback' = IF t = EventRunner
                              THEN offInCallback \cup {l.id : l \in ListOf("cj") \ ListOf("cj")'}
                              ELSE offInCallback
      BY <2>1, <3>2
    <3> QED BY <2>1, <2>2, <2>4, <3>3, TakesOutKeeps DEF Fronts
  <2> QED BY <2>2, <2>3, <2>4
<1> QED BY <1>1, <1>2, <1>3, <1>4 DEF Waiting, CjWaiting, AniWaiting

\* Threads that hold one.
LEMMA ServedKeeps ==
    ASSUME IndInv, NEW t \in Threads, Served(t)
    PROVE  IndInv'
<1>1. CASE (CjServiceAdds(t) /\ UNCHANGED aniVars) \/ (EventListenerRegister(t) /\ UNCHANGED cjVars)
  BY <1>1, ServiceAddsKeeps
<1>2. CASE (CjOnReturns(t) \/ CjAddFails(t) \/ CjOffReturns(t)) /\ UNCHANGED aniVars
  <2>1. TypeInv' /\ Returns(t, "cj")
    BY <1>2, CjReturns
  <2>2. UNCHANGED <<app, records, lost, failed, reported, ons, isDeleting, late, offInCallback, runner, exec>>
    BY <1>2 DEF CjOnReturns, CjAddFails, CjOffReturns, Fault, service, counters, aniVars
  <2> QED BY <2>1, <2>2, ReturnsKeeps DEF Fronts
<1>3. CASE (registerReturns(t) \/ registerFails(t) \/ unregisterReturns(t)) /\ UNCHANGED cjVars
  <2>1. TypeInv' /\ Returns(t, "ani")
    BY <1>3, AniReturns
  <2>2. UNCHANGED <<app, records, lost, failed, reported, ons, isDeleting, late, offInCallback, runner, exec>>
    BY <1>3 DEF registerReturns, registerFails, unregisterReturns, Fault, service, counters, cjVars
  <2> QED BY <2>1, <2>2, ReturnsKeeps DEF Fronts
<1>4. CASE (CheckRemoveStateObserver(t) \/ CjRemoveFails(t)) /\ UNCHANGED aniVars
  <2>1. TypeInv' /\ Removes(t, "cj") /\ SameLists /\ SameLocks
    BY <1>4, CjRemoves
  <2>2. UNCHANGED <<app, ons, isDeleting, late, offInCallback, runner, exec>>
    BY <1>4 DEF CheckRemoveStateObserver, CjRemoveFails, Fault, counters, cjVars, aniVars
  <2> QED BY <2>1, <2>2, RemovesKeeps DEF Fronts
<1>5. CASE (EventListenerUnRegister(t) \/ EventListenerUnRegisterFails(t)) /\ UNCHANGED cjVars
  <2>1. TypeInv' /\ Removes(t, "ani") /\ SameLists /\ SameLocks
    BY <1>5, AniRemoves
  <2>2. UNCHANGED <<app, ons, isDeleting, late, offInCallback, runner, exec>>
    BY <1>5 DEF EventListenerUnRegister, EventListenerUnRegisterFails, Fault, counters, cjVars
  <2> QED BY <2>1, <2>2, RemovesKeeps DEF Fronts
<1> QED BY <1>1, <1>2, <1>3, <1>4, <1>5 DEF Served, CjServed, AniServed

\* Any step.
LEMMA NextKeeps ==
    ASSUME IndInv, [Next]_vars
    PROVE  IndInv'
<1>1. CASE UNCHANGED vars
  <2>1. UNCHANGED <<app, job, records, callState_, mail, lost, ons, updates>>
        /\ UNCHANGED <<listenerList_, operatorMutex_, isDeleting, events, runner, failed, late, offInCallback>>
        /\ UNCHANGED <<inner, innerLock, exec, reported, takenOut>>
    BY <1>1 DEF vars, frontEndVars, processVars, service, counters, cjVars, aniVars
  <2>2. TypeInv' /\ LateCalls'
    BY <2>1 DEF IndInv, TypeInv, LateCalls
  <2> QED BY <2>1, <2>2, QuietKeeps
<1>2. CASE Step
  <2>1. CASE CjNext /\ UNCHANGED aniVars
    <3>1. ASSUME NEW t \in Threads,
                 \/ \E c \in app.onCalls : c.front = "cj" /\ (CjOn(t, c) \/ CjOnWithoutEffect(t, c))
                 \/ \E c \in app.offCalls : c.front = "cj" /\ CjOff(t, c)
          PROVE  IndInv'
      <4>1. UNCHANGED cjVars
        BY <3>1 DEF CjOn, CjOnWithoutEffect, CjOff
      <4> QED BY <2>1, <3>1, <4>1, CallsBegin
    <3>2. ASSUME NEW t \in Threads, CjWaiting(t) \/ CjServed(t) PROVE IndInv'
      BY <2>1, <3>2, WaitingKeeps, ServedKeeps DEF Waiting, Served
    <3>3. ASSUME NEW o \in Ids, FfiObserverSendsEvent(o) PROVE IndInv'
      BY <2>1, <3>3, SendEventKeeps
    <3> QED
      BY <2>1, <3>1, <3>2, <3>3, ProcessEventKeeps, WorkUpdatedKeeps, callbackRefKeeps,
         CallbackReturnsKeeps DEF CjNext
  <2>2. CASE AniNext /\ UNCHANGED cjVars
    <3>1. ASSUME NEW t \in Threads,
                 \/ \E c \in app.onCalls : c.front = "ani" /\ (AniOn(t, c) \/ AniOnRejected(t, c))
                 \/ \E c \in app.offCalls : c.front = "ani" /\ AniOff(t, c)
          PROVE  IndInv'
      <4>1. UNCHANGED aniVars
        BY <3>1 DEF AniOn, AniOnRejected, AniOff
      <4> QED BY <2>2, <3>1, <4>1, CallsBegin
    <3>2. ASSUME NEW t \in Threads, AniWaiting(t) \/ AniServed(t) PROVE IndInv'
      BY <2>2, <3>2, WaitingKeeps, ServedKeeps DEF Waiting, Served
    <3>3. ASSUME NEW o \in Ids, on_updated(o) PROVE IndInv'
      BY <2>2, <3>3, on_updatedKeeps
    <3> QED BY <2>2, <3>1, <3>2, <3>3, executeKeeps DEF AniNext
  <2>3. CASE World /\ UNCHANGED <<cjVars, aniVars>>
    BY <2>3, ServiceUpdateKeeps, ServiceDiesKeeps DEF World
  <2> QED BY <1>2, <2>1, <2>2, <2>3 DEF Step
<1> QED BY <1>1, <1>2 DEF Next

\* The inductive invariant holds in every reachable state of the two front ends.
THEOREM Invariance == Spec => []IndInv
<1>1. Init => IndInv
  BY InitHolds
<1>2. IndInv /\ [Next]_vars => IndInv'
  BY NextKeeps
<1> QED BY <1>1, <1>2, PTL DEF Spec

\* The lists hold only what on lets through, and a mutex is with the thread that
\* is past it, however many threads, functions and calls there are.
THEOREM TypeCorrect == Spec => []TypeOK
<1>1. IndInv => TypeOK
  <2> SUFFICES ASSUME IndInv PROVE TypeOK
    OBVIOUS
  <2>0. TypeInv /\ ListsProper /\ MutexOwners
    BY DEF IndInv
  <2>1. ToSet(listenerList_) \subseteq Listener /\ ToSet(inner) \subseteq Listener
    BY <2>0 DEF TypeInv, ToSet
  <2>2. \A l \in ToSet(listenerList_) : l.front = "cj" /\ Proper(l)
    BY <2>0, Locks DEF ListsProper
  <2>3. \A l \in ToSet(inner) : l.front = "ani" /\ Proper(l)
    BY <2>0, Locks DEF ListsProper
  <2>4. \A t \in Threads :
           /\ operatorMutex_ = t <=> (\/ Waits(t, "add", "cj") \/ Waits(t, "added", "cj")
                                      \/ Waits(t, "remove", "cj"))
           /\ innerLock = t <=> (\/ Waits(t, "add", "ani") \/ Waits(t, "added", "ani")
                                 \/ Waits(t, "remove", "ani"))
    BY <2>0, Locks DEF MutexOwners, Holds, LockedOps, Waits
  <2>5. /\ runner.pc \in {"idle", "test", "call", "in"}
        /\ runner.pc # "idle" => runner.todo # <<>> /\ runner.event \in Event
    BY <2>0, RunnerTypes DEF Todo
  <2>6. \A r \in records : r.key \in Keys /\ r.observer \in Ids /\ r.front \in Fronts
    BY <2>0 DEF TypeInv
  <2>7. /\ isDeleting \subseteq Ids /\ takenOut \subseteq Ids
        /\ events \in Seq(Event) /\ mail \in [Ids -> Seq(Event)]
        /\ callState_ \in [CallSlots -> CALL_STATUS_UNKNOWN .. CALL_STATUS_ANSWERED]
        /\ innerLock = Binder <=> exec # NoExec
    BY <2>0 DEF TypeInv, MutexOwners
  <2>8. \A l \in ToSet(listenerList_) \cup ToSet(inner) :
           l.slotId \in (IF l.type \in CallTypes THEN -1 ELSE 0) .. SIM_SLOT_COUNT
    BY <2>2, <2>3 DEF Proper
  <2>9. /\ \A l \in ToSet(listenerList_) : l \in Listener /\ l.front = "cj" /\ l.type \in CjTypes
        /\ \A l \in ToSet(inner) : l \in Listener /\ l.front = "ani" /\ l.type \in AniTypes
    BY <2>1, <2>2, <2>3 DEF Proper
  <2> QED BY <2>4, <2>5, <2>6, <2>7, <2>8, <2>9 DEF TypeOK
<1> QED BY <1>1, Invariance, PTL

\* A listener in a list of either front end has a record of its own front end in
\* the service, or its key is one of those the process lost.
THEOREM ListenersStayRecorded == Spec => []ListenersRecorded
<1>1. IndInv => ListenersRecorded
  <2> SUFFICES ASSUME IndInv, NEW l \in ToSet(listenerList_) \cup ToSet(inner)
               PROVE  \/ <<l.front, Key(l)>> \in lost
                      \/ \E r \in records : r.key = Key(l) /\ r.front = l.front
    BY DEF ListenersRecorded
  <2>1. l \in ListOf(l.front) /\ l.front \in Fronts
    BY Locks DEF IndInv, ListsProper
  <2>2. Key(l) \in Keys
    <3>1. l \in Listener
      BY <2>1, ListedType DEF IndInv
    <3> QED BY <3>1 DEF Key, Keys, Listener
  <2>3. Wanted(l.front, Key(l))
    BY <2>1 DEF Wanted
  <2> QED BY <2>1, <2>2, <2>3 DEF IndInv, RecordsFollow
<1> QED BY <1>1, Invariance, PTL

\* When no Cangjie call is running every record of the front end has a listener,
\* but for the keys whose own removal failed: a failure at one slot leaves no
\* record of another.
THEOREM EachSlotIsRemoved == Spec => []CjRemovesEachSlot
<1>1. IndInv => CjRemovesEachSlot
  <2> SUFFICES ASSUME IndInv, CjMutexFree, NEW r \in records, r.front = "cj"
               PROVE  r.key \in failed \/ <<"cj", r.key>> \in CjListening
    BY DEF CjRemovesEachSlot
  <2>1. \A t \in Threads : ~Holds(t, "cj")
    BY AppTypes, Locks DEF IndInv, TypeInv, MutexOwners, CjMutexFree
  <2>2. r.key \in failed \/ ToRemove("cj", r.key) \/ Wanted("cj", r.key)
    BY DEF IndInv, RecordsFollow, GivenUp
  <2>3. ~ToRemove("cj", r.key)
    BY <2>1 DEF ToRemove, Holds, LockedOps
  <2>4. Wanted("cj", r.key) => \E l \in ToSet(listenerList_) : Key(l) = r.key
    BY <2>1, Locks DEF Wanted, Holds, LockedOps
  <2> QED BY <2>2, <2>3, <2>4 DEF CjListening
<1> QED BY <1>1, Invariance, PTL

\* What off of the ANI front end leaves behind when a removal fails, it leaves
\* only with an error returned.
THEOREM LeftoversAreReported == Spec => []AniLeftoversReported
<1>1. IndInv => AniLeftoversReported
  <2> SUFFICES ASSUME IndInv, innerLock \notin Threads, NEW r \in records, r.front = "ani"
               PROVE  r.key \in reported \/ <<"ani", r.key>> \in AniListening
    BY DEF AniLeftoversReported
  <2>1. \A t \in Threads : ~Holds(t, "ani")
    BY Locks DEF IndInv, MutexOwners
  <2>2. r.key \in reported \/ ToRemove("ani", r.key) \/ Wanted("ani", r.key)
    BY DEF IndInv, RecordsFollow, GivenUp
  <2>3. ~ToRemove("ani", r.key)
    BY <2>1 DEF ToRemove, Holds, LockedOps
  <2>4. Wanted("ani", r.key) => \E l \in ToSet(inner) : Key(l) = r.key
    BY <2>1, Locks DEF Wanted, Holds, LockedOps
  <2> QED BY <2>2, <2>3, <2>4 DEF AniListening
<1> QED BY <1>1, Invariance, PTL

\* An off that a function calls itself is final for the listeners it takes out:
\* the EventRunner is then between two isDeleting tests.
THEOREM OffInFunctionIsFinal == Spec => []CjOffInFunctionIsFinal
<1>1. IndInv => CjOffInFunctionIsFinal
  BY DEF IndInv, LateCalls, CjOffInFunctionIsFinal
<1> QED BY <1>1, Invariance, PTL

\* How far the Cangjie front end departs from the README's "no callback will be
\* received" (the run cj_late_call shows that it does): after off a function is
\* called at most once more, by the event that was past the isDeleting test.
THEOREM AtMostOneLateCall ==
    Spec => [](\A id \in Ids : Cardinality({c \in late : c[1] = id}) <= 1)
<1>1. IndInv => \A id \in Ids : Cardinality({c \in late : c[1] = id}) <= 1
  <2> SUFFICES ASSUME IndInv, NEW id \in Ids
               PROVE  Cardinality({c \in late : c[1] = id}) <= 1
    OBVIOUS
  <2>0. LateCalls
    BY DEF IndInv
  <2> DEFINE calls == {c \in late : c[1] = id}
  <2>1. CASE calls = {}
    <3>1. Cardinality(calls) = 0
      BY <2>1, FS_EmptySet
    <3> QED BY <3>1
  <2>2. CASE calls # {}
    <3>1. PICK c \in late : calls = {c}
      BY <2>0, <2>2 DEF LateCalls
    <3>2. Cardinality({c}) = 1
      BY FS_Singleton
    <3> QED BY <3>1, <3>2
  <2> QED BY <2>1, <2>2
<1> QED BY <1>1, Invariance, PTL

\* unregister is final: execute calls only what is in the Vec, though it works on
\* a copy, because the binder thread keeps the Mutex until the copy is done.
THEOREM OffIsFinal == Spec => AniOffIsFinal
<1>1. IndInv /\ [Next]_vars => [execute => Head(exec.todo).id \in AniIds]_vars
  <2> SUFFICES ASSUME IndInv, execute PROVE Head(exec.todo).id \in AniIds
    OBVIOUS
  <2>1. exec # NoExec
    BY DEF execute
  <2>2. exec.todo \in Seq(Listener) /\ exec.todo # <<>> /\ ToSet(exec.todo) \subseteq ListOf("ani")
    BY <2>1, ExecTypes
  <2>3. Head(exec.todo) \in ToSet(inner)
    BY <2>2, PopFront, Locks
  <2> QED BY <2>3 DEF AniIds
<1> QED BY <1>1, Invariance, PTL DEF Spec, AniOffIsFinal

-----------------------------------------------------------------------------
(* HeardOnce. *)

\* Messages move from place to place, one by one: the one now at p was at f[p], but
\* for the places in New; and new ones get numbers nobody has seen.
NewsMoves(f, New) ==
    /\ \A p \in Places' : p \notin New =>
          f[p] \in Places /\ News'[p] = News[f[p]] /\ (p \in OnItsWay' => f[p] \in OnItsWay)
    /\ \A p, q \in Places' : p \notin New /\ q \notin New /\ f[p] = f[q] => p = q
    /\ \A p \in Places' : p \in New =>
          News'[p].update \in UsedNumbers' /\ News'[p].update \notin UsedNumbers
    /\ \A p, q \in Places' : p \in New /\ q \in New /\ SameNews(News'[p], News'[q]) => p = q

\* A new listener has a number of its own.
EveryoneGrows ==
    /\ ons' \in {ons, ons + 1} /\ UsedNumbers \subseteq UsedNumbers'
    /\ \A l \in Everyone' : l \in Everyone \/ (l.id = ons + 1 /\ ons' = ons + 1)
    /\ \A l, m \in Everyone' : l \notin Everyone /\ m \notin Everyone => l = m

\* Then the messages stay unique, numbered and unheard.
LEMMA NewsKept ==
    ASSUME HeardInv, ons \in Nat, UNCHANGED heard, EveryoneGrows, NEW f, NEW New, NewsMoves(f, New)
    PROVE  NewsUnique' /\ NewsNumbered' /\ EveryoneOnce' /\ NotYetHeard'
<1> USE DEF HeardInv, EveryoneGrows, NewsMoves
<1>1. NewsUnique'
  <2> SUFFICES ASSUME NEW p \in Places', NEW q \in Places', SameNews(News'[p], News'[q]) PROVE p = q
    BY DEF NewsUnique, SameNews
  <2>1. CASE p \in New /\ q \in New
    BY <2>1
  <2>2. CASE p \notin New /\ q \notin New
    BY <2>2 DEF NewsUnique
  <2>3. ASSUME NEW a \in Places', NEW b \in Places', a \in New, b \notin New, SameNews(News'[a], News'[b])
        PROVE  FALSE
    BY <2>3 DEF NewsNumbered, SameNews
  <2> QED BY <2>1, <2>2, <2>3 DEF SameNews
<1>2. NewsNumbered'
  <2>1. \A p \in Places' : News'[p].update \in UsedNumbers'
    BY DEF NewsNumbered
  <2>2. \A c \in heard : c[1] \in 1 .. ons' /\ c[2] \in UsedNumbers'
    BY DEF NewsNumbered
  <2> QED BY <2>1, <2>2 DEF NewsNumbered
<1>3. EveryoneOnce'
  <2>1. \A l \in Everyone' : l.id \in 1 .. ons'
    BY DEF EveryoneOnce
  <2>2. ASSUME NEW l \in Everyone', NEW m \in Everyone', l.id = m.id PROVE l = m
    BY <2>2 DEF EveryoneOnce
  <2> QED BY <2>1, <2>2 DEF EveryoneOnce
<1>4. NotYetHeard'
  <2> SUFFICES ASSUME NEW p \in OnItsWay', NEW l \in Everyone', News'[p].type = l.type,
                      <<l.id, News'[p].update>> \in heard
               PROVE  FALSE
    BY DEF NotYetHeard
  <2>0. p \in Places'
    BY DEF Places
  <2>1. l.id \in 1 .. ons /\ News'[p].update \in UsedNumbers
    <3>1. PICK c \in heard : c = <<l.id, News'[p].update>>
      OBVIOUS
    <3>2. c[1] = l.id /\ c[2] = News'[p].update
      BY <3>1
    <3> QED BY <3>2 DEF NewsNumbered
  <2>2. l \in Everyone /\ p \notin New
    BY <2>0, <2>1
  <2> QED BY <2>0, <2>2 DEF NotYetHeard
<1> QED BY <1>1, <1>2, <1>3, <1>4

\* The places depend on the queues and the two tellers only.
LEMMA SamePlaces ==
    ASSUME UNCHANGED <<mail, events, runner, exec>>
    PROVE  Places' = Places /\ News' = News /\ OnItsWay' = OnItsWay
<1>1. MailPlaces' = MailPlaces /\ QueuePlaces' = QueuePlaces /\ BeingTold' = BeingTold
  BY DEF MailPlaces, QueuePlaces, BeingTold
<1>2. Places' = Places /\ OnItsWay' = OnItsWay
  BY <1>1 DEF Places, OnItsWay
<1> QED BY <1>2 DEF News

\* The numbers in use stay in use as a call goes on or returns.
LEMMA UsedGrows ==
    ASSUME TypeInv, OnePlace, NEW t \in Threads, OtherJobs(t), ons' \in {ons, ons + 1}, UNCHANGED updates,
           job'[t].op \in {"on", "add"} =>
               \/ job'[t].listener.id = ons + 1
               \/ job[t].op \in {"on", "add"} /\ job'[t].listener = job[t].listener
    PROVE  UsedNumbers \subseteq UsedNumbers'
<1>0. ons \in Nat /\ updates \in Nat
  BY AppTypes DEF TypeInv
<1> SUFFICES ASSUME NEW n \in Int, -n \in 1 .. ons,
                    \A s \in Threads : job[s].op \in {"on", "add"} => job[s].listener.id # -n
             PROVE  /\ -n \in 1 .. ons'
                    /\ \A s \in Threads : job'[s].op \in {"on", "add"} => job'[s].listener.id # -n
  BY DEF UsedNumbers
<1>1. -n \in 1 .. ons' /\ -n # ons + 1
  BY <1>0
<1>2. ASSUME NEW s \in Threads, job'[s].op \in {"on", "add"} PROVE job'[s].listener.id # -n
  <2>1. CASE s = t
    BY <1>1, <1>2, <2>1
  <2>2. CASE s # t
    BY <1>2, <2>2 DEF OtherJobs
  <2> QED BY <2>1, <2>2
<1> QED BY <1>1, <1>2

\* A call begins, goes on or returns: a listener it puts into a list was its own.
LEMMA EveryoneStays ==
    ASSUME NEW t \in Threads, OtherJobs(t), UNCHANGED runner,
           \A l \in Listed' : l \in Listed \/ (job[t].op \in OnOps /\ l = job[t].listener)
    PROVE  \A l \in Everyone' :
              \/ l \in Everyone
              \/ job'[t].op \in OnOps /\ l = job'[t].listener
<1> SUFFICES ASSUME NEW l \in Everyone', l \notin Everyone
             PROVE  job'[t].op \in OnOps /\ l = job'[t].listener
  OBVIOUS
<1>1. l \notin Listed'
  BY DEF Everyone
<1>2. PICK s \in Threads : job'[s].op \in OnOps /\ l = job'[s].listener
  BY <1>1 DEF Everyone
<1>3. s = t
  BY <1>2 DEF OtherJobs, Everyone
<1> QED BY <1>2, <1>3

\* A step of an application thread that sends nothing.
LEMMA ThreadNews ==
    ASSUME IndInv, HeardInv, NEW t \in Threads, OtherJobs(t),
           UNCHANGED <<mail, events, runner, exec, heard, updates>>, ons' \in {ons, ons + 1},
           \A l \in Listed' : l \in Listed \/ (job[t].op \in OnOps /\ l = job[t].listener),
           job'[t].op \in OnOps =>
               \/ job'[t].listener.id = ons + 1 /\ ons' = ons + 1
               \/ /\ job[t].op \in OnOps /\ job'[t].listener = job[t].listener
                  /\ job'[t].op \in {"on", "add"} => job[t].op \in {"on", "add"}
    PROVE  NewsUnique' /\ NewsNumbered' /\ EveryoneOnce' /\ NotYetHeard' /\ Telling'
<1>0. TypeInv /\ OnePlace /\ ons \in Nat
  BY AppTypes DEF IndInv, TypeInv
<1>1. Places' = Places /\ News' = News /\ OnItsWay' = OnItsWay
  BY SamePlaces
<1>2. UsedNumbers \subseteq UsedNumbers'
  <2>1. job'[t].op \in {"on", "add"} =>
            \/ job'[t].listener.id = ons + 1
            \/ job[t].op \in {"on", "add"} /\ job'[t].listener = job[t].listener
    BY DEF OnOps
  <2> QED BY <1>0, <2>1, UsedGrows
<1>3. \A l \in Everyone' : l \in Everyone \/ (job'[t].op \in OnOps /\ l = job'[t].listener)
  BY EveryoneStays
<1>4. job[t].op \in OnOps => job[t].listener \in Everyone
  BY DEF Everyone
<1>5. EveryoneGrows
  BY <1>2, <1>3, <1>4 DEF EveryoneGrows
<1>6. PICK f : f = [p \in Places |-> p]
  OBVIOUS
<1>7. PICK New : New = {}
  OBVIOUS
<1>8. NewsMoves(f, New)
  BY <1>1, <1>6, <1>7 DEF NewsMoves
<1>11. NewsUnique' /\ NewsNumbered' /\ EveryoneOnce' /\ NotYetHeard'
  BY <1>0, <1>5, <1>8, NewsKept
<1>12. Telling'
  BY DEF HeardInv, Telling, TellsOnce
<1> QED BY <1>11, <1>12

\* A list without repetitions stays so when a listener that is not in it is added.
LEMMA PushDistinct ==
    ASSUME NEW E, NEW list \in Seq(E), NEW x \in E, x \notin ToSet(list), Distinct(list)
    PROVE  Distinct(Append(list, x))
<1>1. /\ Len(list) \in Nat /\ Len(Append(list, x)) = Len(list) + 1
      /\ \A i \in 1 .. Len(list) : Append(list, x)[i] = list[i]
      /\ Append(list, x)[Len(list) + 1] = x
  BY AppendProperties
<1>2. \A i \in 1 .. Len(list) : list[i] # x
  BY <1>1 DEF ToSet
<1>3. PICK new : new = Append(list, x)
  OBVIOUS
<1>4. \A i \in 1 .. Len(new) : i \in 1 .. Len(list) \/ i = Len(list) + 1
  BY <1>1, <1>3
<1>5. Distinct(new)
  BY <1>1, <1>2, <1>3, <1>4 DEF Distinct
<1> QED BY <1>3, <1>5

\* And when the first one is taken off.
LEMMA PopDistinct ==
    ASSUME NEW E, NEW list \in Seq(E), list # <<>>, Distinct(list)
    PROVE  Distinct(Tail(list)) /\ \A i \in 2 .. Len(list) : list[i] # Head(list)
<1>1. /\ Head(list) = list[1] /\ 1 \in 1 .. Len(list)
      /\ Len(Tail(list)) = Len(list) - 1 /\ Len(list) \in Nat
      /\ \A i \in 1 .. Len(list) - 1 : Tail(list)[i] = list[i + 1]
  BY PopFront
<1>2. PICK rest : rest = Tail(list)
  OBVIOUS
<1>3. ASSUME NEW i \in 1 .. Len(rest), NEW j \in 1 .. Len(rest), i # j PROVE rest[i] # rest[j]
  <2>1. i + 1 \in 1 .. Len(list) /\ j + 1 \in 1 .. Len(list) /\ i + 1 # j + 1
    BY <1>1, <1>2, <1>3
  <2>2. rest[i] = list[i + 1] /\ rest[j] = list[j + 1]
    BY <1>1, <1>2, <1>3
  <2> QED BY <2>1, <2>2 DEF Distinct
<1>4. \A i \in 2 .. Len(list) : i \in 1 .. Len(list) /\ i # 1
  BY <1>1
<1> QED BY <1>1, <1>2, <1>3, <1>4 DEF Distinct

\* A call goes on or returns, without a message.
LEMMA CallGoesOn ==
    ASSUME IndInv, HeardInv, NEW t \in Threads,
           UNCHANGED <<mail, events, runner, exec, heard, updates, ons>>,
           records' \subseteq records, ListsDistinct',
           \/ Goes(t, NoJob) /\ SameLists
           \/ Goes(t, NoJob) /\ job[t].op \in OnOps /\ \E f \in Fronts : Puts(f, job[t].listener)
           \/ Goes(t, Adding("add", job[t].listener)) /\ job[t].op = "on" /\ SameLists
           \/ OtherJobs(t) /\ job'[t].op = "remove" /\ \A f \in Fronts : ListOf(f)' \subseteq ListOf(f)
    PROVE  HeardInv'
<1>0. TypeInv
  BY DEF IndInv
<1>1. OtherJobs(t)
  BY <1>0, JobSet DEF Goes, OtherJobs
<1>2. \A l \in Listed' : l \in Listed \/ (job[t].op \in OnOps /\ l = job[t].listener)
  BY Locks DEF SameLists, Puts, Listed
<1>3. job'[t].op \in OnOps =>
          /\ job[t].op \in OnOps /\ job'[t].listener = job[t].listener
          /\ job'[t].op \in {"on", "add"} => job[t].op \in {"on", "add"}
  <2>1. CASE Goes(t, NoJob)
    BY <1>0, <2>1, JobEnds DEF OnOps
  <2>2. CASE Goes(t, Adding("add", job[t].listener)) /\ job[t].op = "on"
    <3>1. job[t].listener \in Listener
      BY <2>2, JobListener DEF OnOps
    <3>2. job'[t].listener = job[t].listener
      BY <1>0, <2>2, <3>1, JobAdds DEF OnOps
    <3> QED BY <2>2, <3>2 DEF OnOps
  <2>3. CASE job'[t].op = "remove"
    BY <2>3 DEF OnOps
  <2> QED BY <2>1, <2>2, <2>3
<1>4. NewsUnique' /\ NewsNumbered' /\ EveryoneOnce' /\ NotYetHeard' /\ Telling'
  BY <1>1, <1>2, <1>3, ThreadNews
<1>5. OneRecord'
  BY DEF HeardInv, OneRecord
<1> QED BY <1>4, <1>5 DEF HeardInv

\* A call begins.
LEMMA CallsBeginHeard ==
    ASSUME IndInv, HeardInv, NEW t \in Threads,
           \/ \E c \in app.onCalls : c.front = "cj" /\ (CjOn(t, c) \/ CjOnWithoutEffect(t, c))
           \/ \E c \in app.offCalls : c.front = "cj" /\ CjOff(t, c)
           \/ \E c \in app.onCalls : c.front = "ani" /\ (AniOn(t, c) \/ AniOnRejected(t, c))
           \/ \E c \in app.offCalls : c.front = "ani" /\ AniOff(t, c),
           UNCHANGED cjVars, UNCHANGED aniVars
    PROVE  HeardInv'
<1>0. TypeInv
  BY DEF IndInv
<1>1. UNCHANGED <<listenerList_, inner, events, runner, exec>>
  BY DEF cjVars, aniVars
<1>2. UNCHANGED <<mail, heard, updates, records>>
  BY DEF CjOn, CjOnWithoutEffect, CjOff, AniOn, AniOnRejected, AniOff, CallOn, CallOff, service
<1>3. /\ ons' \in {ons, ons + 1}
      /\ OtherJobs(t)
      /\ job'[t].op \in OnOps => job'[t].listener.id = ons + 1 /\ ons' = ons + 1
  <2>1. ASSUME NEW c, CjOn(t, c) \/ AniOn(t, c)
        PROVE  /\ ons' = ons + 1 /\ OtherJobs(t)
               /\ job'[t].op \in OnOps => job'[t].listener.id = ons + 1 /\ ons' = ons + 1
    <3>1. PICK l : Goes(t, Adding("on", l)) /\ l.id = ons + 1 /\ ons' = ons + 1
      BY <2>1 DEF CjOn, AniOn, CallOn, CjListener, AniListener
    <3>2. job'[t] = Adding("on", l) /\ OtherJobs(t)
      BY <1>0, <3>1, JobSet DEF Goes, OtherJobs
    <3> QED BY <3>1, <3>2 DEF Adding
  <2>2. ASSUME NEW c, CjOnWithoutEffect(t, c) \/ AniOnRejected(t, c)
        PROVE  ons' = ons + 1 /\ OtherJobs(t) /\ job'[t].op \notin OnOps
    <3>1. job[t] = NoJob /\ UNCHANGED job /\ ons' = ons + 1
      BY <2>2 DEF CjOnWithoutEffect, AniOnRejected, CallOn
    <3> QED BY <3>1 DEF OtherJobs, NoJob, OnOps
  <2>3. ASSUME NEW c, CallOff(t, c)
        PROVE  ons' = ons /\ OtherJobs(t) /\ job'[t].op \notin OnOps
    <3>1. PICK j : job' = [job EXCEPT ![t] = j] /\ j.op = "off" /\ ons' = ons
      BY <2>3 DEF CallOff
    <3>2. job'[t].op = "off" /\ OtherJobs(t)
      BY <1>0, <3>1, JobSet DEF OtherJobs
    <3> QED BY <3>1, <3>2 DEF OnOps
  <2> QED BY <2>1, <2>2, <2>3 DEF CjOff, AniOff
<1>4. Listed' = Listed
  BY <1>1 DEF Listed, ListOf
<1>5. NewsUnique' /\ NewsNumbered' /\ EveryoneOnce' /\ NotYetHeard' /\ Telling'
  BY <1>1, <1>2, <1>3, <1>4, ThreadNews
<1>6. ListsDistinct' /\ OneRecord'
  BY <1>1, <1>2 DEF HeardInv, ListsDistinct, OneRecord
<1> QED BY <1>5, <1>6 DEF HeardInv

\* A thread gets the mutex it waited for.
LEMMA WaitingHeard ==
    ASSUME IndInv, HeardInv, NEW t \in Threads, Waiting(t)
    PROVE  HeardInv'
<1>0. /\ TypeInv /\ OnePlace /\ Distinct(listenerList_) /\ Distinct(inner)
      /\ listenerList_ \in Seq(Listener) /\ inner \in Seq(Listener)
  BY DEF IndInv, HeardInv, ListsDistinct, TypeInv
<1>1. UNCHANGED <<mail, events, runner, exec, heard, updates, ons, records>>
  BY DEF Waiting, CjWaiting, AniWaiting, RegisterEventListener, register, UnregisterEventListener,
         unregister, service, counters, cjVars, aniVars
<1>2. job[t].op = "on" => /\ job[t].listener \in Listener
                          /\ job[t].listener \notin ToSet(listenerList_) /\ job[t].listener \notin ToSet(inner)
  BY <1>0, JobListener, Locks DEF OnePlace, OnOps, Listed
<1>3. CASE RegisterEventListener(t) /\ UNCHANGED aniVars
  <2>1. job[t].op = "on" /\ job[t].front = "cj" /\ UNCHANGED inner
    BY <1>3 DEF RegisterEventListener, Waits, aniVars
  <2>2. PICK l \in Listener : l = job[t].listener /\ l.front = "cj"
    BY <2>1, JobListener DEF OnOps
  <2>3. Registers(t, "cj", l)
    BY <1>3, <2>2, CjRegisters
  <2>4. listenerList_' = listenerList_ \/ listenerList_' = Append(listenerList_, l)
    BY <1>3, <2>2 DEF RegisterEventListener
  <2>5. Distinct(listenerList_')
    BY <1>0, <1>2, <2>1, <2>2, <2>4, PushDistinct
  <2>6. ListsDistinct'
    BY <1>0, <2>1, <2>5 DEF ListsDistinct
  <2> QED BY <1>1, <2>1, <2>2, <2>3, <2>6, CallGoesOn DEF Registers, Fronts, OnOps
<1>4. CASE register(t) /\ UNCHANGED cjVars
  <2>1. job[t].op = "on" /\ job[t].front = "ani" /\ UNCHANGED listenerList_
    BY <1>4 DEF register, Waits, cjVars
  <2>2. PICK l \in Listener : l = job[t].listener /\ l.front = "ani"
    BY <2>1, JobListener DEF OnOps
  <2>3. Registers(t, "ani", l)
    BY <1>4, <2>2, AniRegisters
  <2>4. inner' = inner \/ inner' = Append(inner, l)
    BY <1>4, <2>2 DEF register
  <2>5. Distinct(inner')
    BY <1>0, <1>2, <2>1, <2>2, <2>4, PushDistinct
  <2>6. ListsDistinct'
    BY <1>0, <2>1, <2>5 DEF ListsDistinct
  <2> QED BY <1>1, <2>1, <2>2, <2>3, <2>6, CallGoesOn DEF Registers, Fronts, OnOps
<1>5. CASE UnregisterEventListener(t) /\ UNCHANGED aniVars
  <2>1. /\ UNCHANGED inner
        /\ listenerList_' = listenerList_ \/ \E c : listenerList_' = Rest(listenerList_, c)
    BY <1>5 DEF UnregisterEventListener, aniVars
  <2>2. Distinct(listenerList_')
    BY <1>0, <2>1, TakenOutOf
  <2>3. ListsDistinct'
    BY <1>0, <2>1, <2>2 DEF ListsDistinct
  <2>4. (Goes(t, NoJob) /\ SameLists) \/ TakesOut(t, "cj")
    BY <1>5, CjTakesOut
  <2> QED BY <1>1, <2>3, <2>4, CallGoesOn DEF TakesOut, Fronts
<1>6. CASE unregister(t) /\ UNCHANGED cjVars
  <2>1. /\ UNCHANGED listenerList_
        /\ inner' = inner \/ \E c : inner' = Rest(inner, c)
    BY <1>6 DEF unregister, cjVars
  <2>2. Distinct(inner')
    BY <1>0, <2>1, TakenOutOf
  <2>3. ListsDistinct'
    BY <1>0, <2>1, <2>2 DEF ListsDistinct
  <2>4. (Goes(t, NoJob) /\ SameLists) \/ TakesOut(t, "ani")
    BY <1>6, AniTakesOut
  <2> QED BY <1>1, <2>3, <2>4, CallGoesOn DEF TakesOut, Fronts
<1> QED BY <1>3, <1>4, <1>5, <1>6 DEF Waiting, CjWaiting, AniWaiting

\* New messages go to the ends of queues.
LEMMA MailGrows ==
    ASSUME TypeInv, UNCHANGED <<events, runner, exec>>, NEW sent \in SUBSET Ids,
           \A o \in Ids : o \notin sent => mail'[o] = mail[o],
           \A o \in sent : \E ev \in Event : mail'[o] = Append(mail[o], ev),
           NEW New, New = {<<"mail", o, Len(mail[o]) + 1>> : o \in sent}
    PROVE  /\ \A p \in Places' : p \notin New =>
                  p \in Places /\ News'[p] = News[p] /\ (p \in OnItsWay' => p \in OnItsWay)
           /\ \A p \in Places' : p \in New =>
                  \E o \in sent : p = <<"mail", o, Len(mail[o]) + 1>> /\ News'[p] = mail'[o][Len(mail[o]) + 1]
<1>1. \A o \in Ids : mail[o] \in Seq(Event) /\ Len(mail[o]) \in Nat
  BY DEF TypeInv
<1>2. \A o \in sent : /\ Len(mail'[o]) = Len(mail[o]) + 1
                      /\ \A i \in 1 .. Len(mail[o]) : mail'[o][i] = mail[o][i]
  <2> TAKE o \in sent
  <2>1. PICK ev \in Event : mail'[o] = Append(mail[o], ev)
    OBVIOUS
  <2> QED BY <1>1, <2>1, AppendProperties
<1>3. QueuePlaces' = QueuePlaces /\ BeingTold' = BeingTold
  BY DEF QueuePlaces, BeingTold
<1>4. \A p \in Places' : News'[p] = IF p[1] = "mail" THEN mail'[p[2]][p[3]]
                                    ELSE IF p[1] = "queue" THEN events[p[3]]
                                         ELSE IF p[1] = "runner" THEN runner.event ELSE exec.event
  BY DEF News
<1>5. \A p \in Places : News[p] = IF p[1] = "mail" THEN mail[p[2]][p[3]]
                                  ELSE IF p[1] = "queue" THEN events[p[3]]
                                       ELSE IF p[1] = "runner" THEN runner.event ELSE exec.event
  BY DEF News
<1>6. ASSUME NEW p \in MailPlaces'
      PROVE  /\ p \in New => \E o \in sent : p = <<"mail", o, Len(mail[o]) + 1>> /\ News'[p] = mail'[o][Len(mail[o]) + 1]
             /\ p \notin New => p \in MailPlaces /\ News'[p] = News[p]
  <2>1. PICK o \in Ids, i \in Nat : p = <<"mail", o, i>> /\ i \in 1 .. Len(mail'[o])
    BY DEF MailPlaces
  <2>2. p \in Places' /\ p[1] = "mail" /\ p[2] = o /\ p[3] = i
    BY <2>1 DEF Places, OnItsWay
  <2>3. News'[p] = mail'[o][i]
    BY <1>4, <2>2
  <2>4. CASE o \in sent /\ i = Len(mail[o]) + 1
    BY <2>1, <2>3, <2>4
  <2>5. CASE ~(o \in sent /\ i = Len(mail[o]) + 1)
    <3>1. p \notin New
      BY <2>2, <2>5
    <3>2. i \in 1 .. Len(mail[o]) /\ mail'[o][i] = mail[o][i]
      BY <1>1, <1>2, <2>1, <2>5
    <3>3. p \in MailPlaces /\ p \in Places
      BY <2>1, <3>2 DEF MailPlaces, Places, OnItsWay
    <3>4. News[p] = mail[o][i]
      BY <1>5, <2>2, <3>3
    <3> QED BY <2>3, <3>1, <3>2, <3>3, <3>4
  <2> QED BY <2>4, <2>5
<1>7. ASSUME NEW p \in QueuePlaces \cup BeingTold
      PROVE  p \notin New /\ p \in Places /\ p \in Places' /\ News'[p] = News[p]
  <2>1. p[1] # "mail"
    BY DEF QueuePlaces, BeingTold, RunnerPlace, ExecPlace
  <2>2. p \in Places /\ p \in Places'
    BY <1>3 DEF Places, OnItsWay
  <2>3. p \notin New
    BY <2>1
  <2> QED BY <1>4, <1>5, <2>1, <2>2, <2>3
<1>8. \A p \in Places' : p \in MailPlaces' \/ p \in QueuePlaces \cup BeingTold
  BY <1>3 DEF Places, OnItsWay
<1>9. \A p \in OnItsWay' : p \in MailPlaces' \/ p \in QueuePlaces
  BY <1>3 DEF OnItsWay
<1>10. \A p \in BeingTold : p \notin QueuePlaces /\ p \notin MailPlaces'
  BY DEF BeingTold, RunnerPlace, ExecPlace, QueuePlaces, MailPlaces
<1>11. MailPlaces \subseteq Places /\ MailPlaces \subseteq OnItsWay /\ QueuePlaces \subseteq OnItsWay
  BY DEF Places, OnItsWay
<1> QED BY <1>6, <1>7, <1>8, <1>9, <1>10, <1>11

\* The service answers an on call, and may send a replay under the call's number.
LEMMA ServiceAddsHeard ==
    ASSUME IndInv, HeardInv, NEW t \in Threads,
           \/ CjServiceAdds(t) /\ UNCHANGED aniVars
           \/ EventListenerRegister(t) /\ UNCHANGED cjVars
    PROVE  HeardInv'
<1>0. TypeInv /\ OnePlace /\ ons \in Nat /\ updates \in Nat
  BY AppTypes DEF IndInv, TypeInv
<1>1. PICK l \in Listener : l = job[t].listener /\ Proper(l) /\ job[t].op = "add"
  BY JobListener DEF CjServiceAdds, EventListenerRegister, Waits, OnOps
<1>2. PICK isUpdate \in BOOLEAN : AddStateObserver(l, isUpdate) /\ (isUpdate => l.type \in CallTypes)
  BY <1>1, AsksTheService
<1>3. /\ Goes(t, Adding("added", l))
      /\ UNCHANGED <<ons, updates, heard, listenerList_, inner, events, runner, exec>>
  BY <1>1 DEF CjServiceAdds, EventListenerRegister, counters, cjVars, aniVars
<1>4. job'[t].op = "added" /\ job'[t].listener = l /\ OtherJobs(t)
  BY <1>0, <1>3, JobAdds DEF OnOps, OtherJobs
<1>5. \/ UNCHANGED mail
      \/ \E o \in Ids, ev \in Event :
            mail' = [mail EXCEPT ![o] = Append(@, ev)] /\ ev.update = -l.id
  BY <1>0, <1>1, <1>2, AddTypes
<1>6. PICK sent \in SUBSET Ids :
         /\ \A o \in Ids : o \notin sent => mail'[o] = mail[o]
         /\ \A o \in sent : \E ev \in Event : mail'[o] = Append(mail[o], ev) /\ ev.update = -l.id
         /\ \A o, p \in sent : o = p
  <2>1. CASE UNCHANGED mail
    <3>1. {} \in SUBSET Ids
      OBVIOUS
    <3> QED BY <2>1, <3>1
  <2>2. CASE \E o \in Ids, ev \in Event : mail' = [mail EXCEPT ![o] = Append(@, ev)] /\ ev.update = -l.id
    <3>1. PICK o \in Ids, ev \in Event : mail' = [mail EXCEPT ![o] = Append(@, ev)] /\ ev.update = -l.id
      BY <2>2
    <3>2. mail'[o] = Append(mail[o], ev) /\ \A p \in Ids : p # o => mail'[p] = mail[p]
      BY <1>0, <3>1 DEF TypeInv
    <3>3. {o} \in SUBSET Ids
      OBVIOUS
    <3> QED BY <3>1, <3>2, <3>3
  <2> QED BY <1>5, <2>1, <2>2
<1>7. PICK New : New = {<<"mail", o, Len(mail[o]) + 1>> : o \in sent}
  OBVIOUS
<1>8. /\ \A p \in Places' : p \notin New =>
             p \in Places /\ News'[p] = News[p] /\ (p \in OnItsWay' => p \in OnItsWay)
      /\ \A p \in Places' : p \in New =>
             \E o \in sent : p = <<"mail", o, Len(mail[o]) + 1>> /\ News'[p] = mail'[o][Len(mail[o]) + 1]
  <2>1. UNCHANGED <<events, runner, exec>>
    BY <1>3
  <2>2. \A o \in sent : \E ev \in Event : mail'[o] = Append(mail[o], ev)
    BY <1>6
  <2> QED BY ONLY <1>0, <1>6, <1>7, <2>1, <2>2, sent \in SUBSET Ids, MailGrows
<1>9. l.id \in 1 .. ons /\ \A s \in Threads : s # t /\ job[s].op \in OnOps => job[s].listener.id # l.id
  BY <1>0, <1>1 DEF OnePlace, OnOps
<1>10. -l.id \in UsedNumbers' /\ -l.id \notin UsedNumbers
  <2>1. -l.id \in Int /\ -(-l.id) = l.id /\ -l.id \notin 1 .. updates
    BY <1>0, <1>9
  <2>2. ASSUME NEW s \in Threads, job'[s].op \in {"on", "add"} PROVE job'[s].listener.id # l.id
    BY <1>4, <1>9, <2>2 DEF OtherJobs, OnOps
  <2> QED BY <1>1, <1>3, <1>9, <2>1, <2>2 DEF UsedNumbers
<1>11. /\ \A p \in Places' : p \in New => News'[p].update = -l.id
       /\ \A p, q \in Places' : p \in New /\ q \in New => p = q
  <2>1. ASSUME NEW o \in sent PROVE mail'[o][Len(mail[o]) + 1].update = -l.id
    <3>1. PICK ev \in Event : mail'[o] = Append(mail[o], ev) /\ ev.update = -l.id
      BY <1>6
    <3>2. mail[o] \in Seq(Event)
      BY <1>0 DEF TypeInv
    <3>3. mail'[o][Len(mail[o]) + 1] = ev
      BY <3>1, <3>2, AppendProperties
    <3> QED BY <3>1, <3>3
  <2> QED BY <1>6, <1>7, <1>8, <2>1
<1>12. UsedNumbers \subseteq UsedNumbers'
  BY <1>0, <1>3, <1>4, UsedGrows
<1>13. Listed' = Listed
  BY <1>3 DEF Listed, ListOf
<1>14. Everyone' \subseteq Everyone
  <2>1. \A m \in Everyone' : m \in Everyone \/ (job'[t].op \in OnOps /\ m = job'[t].listener)
    BY <1>3, <1>4, <1>13, EveryoneStays
  <2>2. l \in Everyone
    BY <1>1 DEF Everyone, OnOps
  <2> QED BY <1>4, <2>1, <2>2
<1>15. PICK f : f = [p \in Places |-> p]
  OBVIOUS
<1>16. NewsUnique' /\ NewsNumbered' /\ EveryoneOnce' /\ NotYetHeard'
  <2>1. NewsMoves(f, New)
    BY <1>8, <1>10, <1>11, <1>15 DEF NewsMoves
  <2>2. EveryoneGrows
    BY <1>3, <1>12, <1>14 DEF EveryoneGrows
  <2> QED BY <1>0, <1>3, <2>1, <2>2, NewsKept
<1>17. Telling' /\ ListsDistinct'
  BY <1>3 DEF HeardInv, Telling, TellsOnce, ListsDistinct
<1>18. OneRecord'
  <2>1. records' \subseteq records \/
        \E r : r.key = Key(l) /\ (\A s \in records : s.key # Key(l)) /\ records' = records \cup {r}
    <3> DEFINE old == {r \in records : r.key = Key(l)}
    <3>1. CASE old = {}
      <4>1. PICK r : r = [key |-> Key(l), front |-> l.front, observer |-> l.id]
        OBVIOUS
      <4>2. records' = records \cup {r} \/ records' = records
        BY <1>2, <3>1, <4>1 DEF AddStateObserver
      <4> QED BY <3>1, <4>1, <4>2
    <3>2. CASE old # {}
      <4>1. (CHOOSE r \in old : TRUE) \in old
        BY <3>2
      <4>2. records' = records \cup {CHOOSE r \in old : TRUE} \/ records' = records
        BY <1>2, <3>2 DEF AddStateObserver
      <4> QED BY <4>1, <4>2
    <3> QED BY <3>1, <3>2
  <2>2. Key(l).type = "ICC_ACCOUNT" => Key(l).slotId = DEFAULT_SIM_SLOT_ID
    BY <1>1 DEF Key, Proper
  <2> HIDE DEF Key
  <2>3. OneRecord
    BY DEF HeardInv
  <2> QED BY <2>1, <2>2, <2>3 DEF OneRecord
<1> QED BY <1>16, <1>17, <1>18 DEF HeardInv

\* A thread that holds a mutex goes on.
LEMMA ServedHeard ==
    ASSUME IndInv, HeardInv, NEW t \in Threads, Served(t)
    PROVE  HeardInv'
<1>0. /\ TypeInv /\ OnePlace /\ Distinct(listenerList_) /\ Distinct(inner)
      /\ listenerList_ \in Seq(Listener) /\ inner \in Seq(Listener)
  BY DEF IndInv, HeardInv, ListsDistinct, TypeInv
<1>1. CASE (CjServiceAdds(t) /\ UNCHANGED aniVars) \/ (EventListenerRegister(t) /\ UNCHANGED cjVars)
  BY <1>1, ServiceAddsHeard
<1>2. CASE (CjOnReturns(t) \/ CjAddFails(t) \/ CjOffReturns(t)) /\ UNCHANGED aniVars
  <2>1. Returns(t, "cj")
    BY <1>2, CjReturns
  <2>2. UNCHANGED <<mail, events, runner, exec, heard, updates, ons, records, inner>>
    BY <1>2 DEF CjOnReturns, CjAddFails, CjOffReturns, Fault, service, counters, aniVars
  <2>3. \/ listenerList_' = listenerList_
        \/ job[t].op = "added" /\ listenerList_' = Append(listenerList_, job[t].listener)
    BY <1>2 DEF CjOnReturns, CjAddFails, CjOffReturns, Waits
  <2>4. job[t].op = "added" => job[t].listener \in Listener /\ job[t].listener \notin ToSet(listenerList_)
    BY <1>0, JobListener, Locks DEF OnePlace, OnOps, Listed
  <2>5. Distinct(listenerList_')
    BY <1>0, <2>3, <2>4, PushDistinct
  <2>6. ListsDistinct'
    BY <1>0, <2>2, <2>5 DEF ListsDistinct
  <2> QED BY <2>1, <2>2, <2>6, CallGoesOn DEF Returns, Fronts, OnOps
<1>3. CASE (registerReturns(t) \/ registerFails(t) \/ unregisterReturns(t)) /\ UNCHANGED cjVars
  <2>1. Returns(t, "ani")
    BY <1>3, AniReturns
  <2>2. UNCHANGED <<mail, events, runner, exec, heard, updates, ons, records, listenerList_>>
    BY <1>3 DEF registerReturns, registerFails, unregisterReturns, Fault, service, counters, cjVars
  <2>3. \/ inner' = inner
        \/ job[t].op = "added" /\ inner' = Append(inner, job[t].listener)
    BY <1>3 DEF registerReturns, registerFails, unregisterReturns, Waits
  <2>4. job[t].op = "added" => job[t].listener \in Listener /\ job[t].listener \notin ToSet(inner)
    BY <1>0, JobListener, Locks DEF OnePlace, OnOps, Listed
  <2>5. Distinct(inner')
    BY <1>0, <2>3, <2>4, PushDistinct
  <2>6. ListsDistinct'
    BY <1>0, <2>2, <2>5 DEF ListsDistinct
  <2> QED BY <2>1, <2>2, <2>6, CallGoesOn DEF Returns, Fronts, OnOps
<1>4. CASE (CheckRemoveStateObserver(t) \/ CjRemoveFails(t)) /\ UNCHANGED aniVars
  <2>1. Removes(t, "cj") /\ SameLists
    BY <1>4, CjRemoves
  <2>2. UNCHANGED <<mail, events, runner, exec, heard, updates, ons, listenerList_, inner>>
    BY <1>4 DEF CheckRemoveStateObserver, CjRemoveFails, RemoveStateObserver, Fault, service, counters, cjVars, aniVars
  <2>3. ListsDistinct'
    BY <1>0, <2>2 DEF ListsDistinct
  <2> QED BY <2>1, <2>2, <2>3, CallGoesOn DEF Removes, SameLists
<1>5. CASE (EventListenerUnRegister(t) \/ EventListenerUnRegisterFails(t)) /\ UNCHANGED cjVars
  <2>1. Removes(t, "ani") /\ SameLists
    BY <1>5, AniRemoves
  <2>2. UNCHANGED <<mail, events, runner, exec, heard, updates, ons, listenerList_, inner>>
    BY <1>5 DEF EventListenerUnRegister, EventListenerUnRegisterFails, RemoveStateObserver, Fault, service, counters, cjVars
  <2>3. ListsDistinct'
    BY <1>0, <2>2 DEF ListsDistinct
  <2> QED BY <2>1, <2>2, <2>3, CallGoesOn DEF Removes, SameLists
<1> QED BY <1>1, <1>2, <1>3, <1>4, <1>5 DEF Served, CjServed, AniServed

\* Only the thread's calls and the runner's copies count; a step of neither adds nobody.
LEMMA NobodyNew ==
    ASSUME UNCHANGED <<job, ons, updates>>, \A l \in Listed' : l \in Listed,
           runner' # RunnerIdle => ToSet(runner'.todo) \subseteq Everyone
    PROVE  EveryoneGrows /\ Everyone' \subseteq Everyone
<1>1. UsedNumbers' = UsedNumbers
  BY DEF UsedNumbers
<1>2. Everyone' \subseteq Everyone
  BY DEF Everyone
<1> QED BY <1>1, <1>2 DEF EveryoneGrows

\* A producer reports: each observer gets one message at most, and no two of them
\* are of the same type, for a key has one record.
LEMMA ServiceUpdateHeard ==
    ASSUME IndInv, HeardInv, NEW u \in app.updates, ServiceUpdate(u), UNCHANGED <<cjVars, aniVars>>
    PROVE  HeardInv'
<1>0. TypeInv /\ OneRecord /\ ons \in Nat
  BY AppTypes DEF IndInv, HeardInv, TypeInv
<1>a. /\ updates \in Nat /\ u.type \in ObserverMask /\ u.slotId \in Int /\ u.val \in Int
  BY <1>0, AppTypes DEF TypeInv
<1>1. /\ updates' = updates + 1
      /\ UNCHANGED <<job, records, ons, heard, listenerList_, events, runner, inner, exec>>
  BY DEF ServiceUpdate, cjVars, aniVars
<1> DEFINE Called(o) == {r \in records : r.observer = o /\ ServiceCalls(r, u)}
           Told(o) == LET r == CHOOSE r \in Called(o) : TRUE
                      IN [front |-> r.front, type |-> r.key.type, slotId |-> u.slotId,
                          update |-> updates + 1, val |-> u.val]
<1>2. mail' = [o \in Ids |-> IF Called(o) = {} THEN mail[o] ELSE Append(mail[o], Told(o))]
  BY DEF ServiceUpdate
<1>3. ASSUME NEW o \in Ids, Called(o) # {}
      PROVE  /\ Told(o) \in Event /\ Told(o).update = updates + 1
             /\ \E r \in records : r.observer = o /\ ServiceCalls(r, u) /\ Told(o).type = r.key.type
  <2>1. PICK r : r = CHOOSE x \in Called(o) : TRUE
    OBVIOUS
  <2>2. r \in records /\ r.observer = o /\ ServiceCalls(r, u)
    BY <1>3, <2>1
  <2>3. r.front \in Fronts /\ r.key.type \in ObserverMask
    BY <1>0, <2>2 DEF TypeInv, Keys
  <2>4. Told(o) = [front |-> r.front, type |-> r.key.type, slotId |-> u.slotId,
                   update |-> updates + 1, val |-> u.val]
    BY <2>1
  <2>5. updates + 1 \in Int
    BY <1>a
  <2> HIDE DEF Told
  <2> QED BY <1>a, <2>2, <2>3, <2>4, <2>5 DEF Event
<1>4. ASSUME NEW r \in records, NEW s \in records, ServiceCalls(r, u), ServiceCalls(s, u),
             r.key.type = s.key.type
      PROVE  r = s
  <2>1. r.key.slotId = s.key.slotId
    <3>1. CASE u.type = "ICC_ACCOUNT"
      <4>1. r.key.type = "ICC_ACCOUNT" /\ s.key.type = "ICC_ACCOUNT"
        BY <1>4, <3>1 DEF ServiceCalls
      <4> QED BY <1>0, <4>1 DEF OneRecord
    <3>2. CASE u.type # "ICC_ACCOUNT"
      BY <1>4, <3>2 DEF ServiceCalls
    <3> QED BY <3>1, <3>2
  <2>2. r.key = s.key
    <3>1. PICK a, b : a = r.key /\ b = s.key
      OBVIOUS
    <3>2. a \in Keys /\ b \in Keys
      BY <1>0, <3>1 DEF TypeInv
    <3>3. a.type = b.type /\ a.slotId = b.slotId
      BY <1>4, <2>1, <3>1
    <3>4. a = b
      BY <3>2, <3>3 DEF Keys
    <3> QED BY <3>1, <3>4
  <2> QED BY <1>0, <2>2 DEF OneRecord
<1> HIDE DEF Called, Told
<1>5. PICK sent \in SUBSET Ids : sent = {o \in Ids : Called(o) # {}}
  OBVIOUS
<1>6. PICK New : New = {<<"mail", o, Len(mail[o]) + 1>> : o \in sent}
  OBVIOUS
<1>7. \A o \in sent : mail'[o] = Append(mail[o], Told(o)) /\ Told(o) \in Event
  BY <1>2, <1>3, <1>5
<1>8. /\ \A p \in Places' : p \notin New =>
             p \in Places /\ News'[p] = News[p] /\ (p \in OnItsWay' => p \in OnItsWay)
      /\ \A p \in Places' : p \in New =>
             \E o \in sent : p = <<"mail", o, Len(mail[o]) + 1>> /\ News'[p] = mail'[o][Len(mail[o]) + 1]
  <2>1. UNCHANGED <<events, runner, exec>>
    BY <1>1
  <2>2. /\ \A o \in sent : \E ev \in Event : mail'[o] = Append(mail[o], ev)
        /\ \A o \in Ids : o \notin sent => mail'[o] = mail[o]
    BY <1>2, <1>5, <1>7
  <2> QED BY ONLY <1>0, <1>6, <2>1, <2>2, sent \in SUBSET Ids, MailGrows
<1>9. \A o \in sent : mail'[o][Len(mail[o]) + 1] = Told(o)
  <2> TAKE o \in sent
  <2>1. mail[o] \in Seq(Event)
    BY <1>0 DEF TypeInv
  <2> QED BY <1>7, <2>1, AppendProperties
<1>10. updates + 1 \notin UsedNumbers /\ updates + 1 \in UsedNumbers' /\ UsedNumbers \subseteq UsedNumbers'
  BY <1>0, <1>a, <1>1 DEF UsedNumbers
<1>11. ASSUME NEW p \in Places', NEW q \in Places', p \in New, q \in New, SameNews(News'[p], News'[q])
       PROVE  p = q
  <2>1. PICK o \in sent : p = <<"mail", o, Len(mail[o]) + 1>> /\ News'[p] = Told(o)
    BY <1>8, <1>9, <1>11
  <2>2. PICK v \in sent : q = <<"mail", v, Len(mail[v]) + 1>> /\ News'[q] = Told(v)
    BY <1>8, <1>9, <1>11
  <2>3. o = v
    <3>1. PICK r \in records : r.observer = o /\ ServiceCalls(r, u) /\ Told(o).type = r.key.type
      BY <1>3, <1>5
    <3>2. PICK s \in records : s.observer = v /\ ServiceCalls(s, u) /\ Told(v).type = s.key.type
      BY <1>3, <1>5
    <3>3. Told(o).type = Told(v).type
      BY <1>11, <2>1, <2>2 DEF SameNews
    <3> QED BY <1>4, <3>1, <3>2, <3>3
  <2> QED BY <2>1, <2>2, <2>3
<1>12. \A p \in Places' : p \in New => News'[p].update = updates + 1
  BY <1>3, <1>5, <1>8, <1>9
<1>13. PICK f : f = [p \in Places |-> p]
  OBVIOUS
<1>14. NewsMoves(f, New)
  BY <1>8, <1>10, <1>11, <1>12, <1>13 DEF NewsMoves
<1>15. EveryoneGrows
  <2>1. Everyone' = Everyone
    BY <1>1 DEF Everyone, Listed, ListOf
  <2> QED BY <1>1, <1>10, <2>1 DEF EveryoneGrows
<1>16. NewsUnique' /\ NewsNumbered' /\ EveryoneOnce' /\ NotYetHeard'
  BY <1>0, <1>1, <1>14, <1>15, NewsKept
<1>17. Telling' /\ ListsDistinct' /\ OneRecord'
  BY <1>1 DEF HeardInv, Telling, TellsOnce, ListsDistinct, OneRecord
<1> QED BY <1>16, <1>17 DEF HeardInv

\* The first message of a line moves to dest, or is dropped, and the others move up.
LEMMA OneMoves ==
    ASSUME NEW Line, NEW g, NEW first, NEW dest, first \in Line, first \in OnItsWay, dest \notin Line,
           \A p \in Places' : p \in Line =>
               g[p] \in Line /\ g[p] \in OnItsWay /\ g[p] # first /\ News'[p] = News[g[p]],
           \A p, q \in Places' : p \in Line /\ q \in Line /\ g[p] = g[q] => p = q,
           \A p \in Places' : p \notin Line /\ p # dest =>
               p \in Places /\ News'[p] = News[p] /\ (p \in OnItsWay' => p \in OnItsWay),
           dest \in Places' => News'[dest] = News[first]
    PROVE  \E f, New : NewsMoves(f, New)
<1>1. PICK f : f = [p \in Places' |-> IF p \in Line THEN g[p] ELSE IF p = dest THEN first ELSE p]
  OBVIOUS
<1>2. PICK New : New = {}
  OBVIOUS
<1>3. \A p \in OnItsWay : p \in Places
  BY DEF Places
<1>4. \A p \in Places' : f[p] = IF p \in Line THEN g[p] ELSE IF p = dest THEN first ELSE p
  BY <1>1
<1>5. ASSUME NEW p \in Places'
      PROVE  f[p] \in Places /\ News'[p] = News[f[p]] /\ (p \in OnItsWay' => f[p] \in OnItsWay)
  <2>1. CASE p \in Line
    BY <1>3, <1>4, <2>1
  <2>2. CASE p \notin Line /\ p = dest
    BY <1>3, <1>4, <2>2
  <2>3. CASE p \notin Line /\ p # dest
    BY <1>4, <2>3
  <2> QED BY <2>1, <2>2, <2>3
<1>6. ASSUME NEW p \in Places', NEW q \in Places', f[p] = f[q] PROVE p = q
  <2>1. CASE p \in Line /\ q \in Line
    BY <1>4, <1>6, <2>1
  <2>2. CASE p \notin Line /\ q \notin Line
    BY <1>4, <1>6, <2>2
  <2>3. ASSUME NEW a \in Places', NEW b \in Places', a \in Line, b \notin Line, f[a] = f[b] PROVE FALSE
    BY <1>4, <2>3
  <2> QED BY <1>6, <2>1, <2>2, <2>3
<1>7. NewsMoves(f, New)
  BY <1>2, <1>5, <1>6 DEF NewsMoves
<1> QED BY <1>7

\* A queue of mail moves up.
LEMMA MailMovesUp ==
    ASSUME TypeInv, NEW o \in Ids, NEW front, Deliver(o, front), NEW dest, dest[1] # "mail",
           \A p \in Places' : p[1] # "mail" /\ p # dest =>
               p \in Places /\ News'[p] = News[p] /\ (p \in OnItsWay' => p \in OnItsWay),
           dest \in Places' => News'[dest] = Head(mail[o])
    PROVE  /\ \E f, New : NewsMoves(f, New)
           /\ <<"mail", o, 1>> \in OnItsWay /\ News[<<"mail", o, 1>>] = Head(mail[o])
<1>1. mail[o] \in Seq(Event) /\ mail[o] # <<>> /\ mail' = [mail EXCEPT ![o] = Tail(@)]
      /\ \A q \in Ids : mail[q] \in Seq(Event)
  BY DEF TypeInv, Deliver
<1>2. /\ Head(mail[o]) = mail[o][1] /\ 1 \in 1 .. Len(mail[o]) /\ Len(mail[o]) \in Nat
      /\ Len(Tail(mail[o])) = Len(mail[o]) - 1
      /\ \A i \in 1 .. Len(mail[o]) - 1 : Tail(mail[o])[i] = mail[o][i + 1]
  BY <1>1, PopFront
<1>3. mail'[o] = Tail(mail[o]) /\ \A q \in Ids : q # o => mail'[q] = mail[q]
  BY <1>1 DEF TypeInv
<1>4. \A p \in Places' : p[1] = "mail" => p \in MailPlaces' /\ News'[p] = mail'[p[2]][p[3]]
  BY DEF News, Places, OnItsWay, QueuePlaces, BeingTold, RunnerPlace, ExecPlace
<1>5. \A p \in MailPlaces : p \in OnItsWay /\ News[p] = mail[p[2]][p[3]]
  <2>1. \A p \in MailPlaces : p[1] = "mail" /\ p \in Places /\ p \in OnItsWay
    BY DEF MailPlaces, Places, OnItsWay
  <2> QED BY <2>1 DEF News
<1>6. PICK first : first = <<"mail", o, 1>>
  OBVIOUS
<1>7. PICK Line : Line = {"mail"} \X {o} \X Nat
  OBVIOUS
<1>8. PICK g : g = [p \in Line |-> <<"mail", o, p[3] + 1>>]
  OBVIOUS
<1>9. first \in MailPlaces /\ first \in Line /\ dest \notin Line
  BY <1>2, <1>6, <1>7 DEF MailPlaces
<1>10. News[first] = Head(mail[o]) /\ first \in OnItsWay
  BY <1>2, <1>5, <1>6, <1>9
<1>11. ASSUME NEW p \in Places', p \in Line
       PROVE  /\ g[p] = <<"mail", o, p[3] + 1>> /\ g[p] \in Line /\ g[p] \in OnItsWay /\ g[p] # first
              /\ News'[p] = News[g[p]]
  <2>1. PICK i \in Nat : p = <<"mail", o, i>>
    BY <1>7, <1>11
  <2>2. p[1] = "mail" /\ p[2] = o /\ p[3] = i /\ g[p] = <<"mail", o, i + 1>>
    BY <1>8, <1>11, <2>1
  <2>3. i \in 1 .. Len(mail'[o]) /\ News'[p] = mail'[o][i]
    BY <1>4, <2>2 DEF MailPlaces
  <2>4. i + 1 \in 1 .. Len(mail[o]) /\ mail'[o][i] = mail[o][i + 1] /\ i + 1 # 1 /\ i + 1 \in Nat
    BY <1>2, <1>3, <2>3
  <2>5. <<"mail", o, i + 1>> \in MailPlaces /\ <<"mail", o, i + 1>> \in Line
    BY <1>7, <2>4 DEF MailPlaces
  <2>6. News[<<"mail", o, i + 1>>] = mail[o][i + 1] /\ <<"mail", o, i + 1>> \in OnItsWay
    BY <1>5, <2>5
  <2>7. <<"mail", o, i + 1>> # first
    BY <1>6, <2>4
  <2> QED BY <2>2, <2>3, <2>4, <2>5, <2>6, <2>7
<1>12. ASSUME NEW p \in Places', NEW q \in Places', p \in Line, q \in Line, g[p] = g[q] PROVE p = q
  <2>1. PICK i \in Nat : p = <<"mail", o, i>>
    BY <1>7, <1>12
  <2>2. PICK j \in Nat : q = <<"mail", o, j>>
    BY <1>7, <1>12
  <2>3. g[p] = <<"mail", o, i + 1>> /\ g[q] = <<"mail", o, j + 1>>
    BY <1>8, <1>12, <2>1, <2>2
  <2>4. g[p][3] = i + 1 /\ g[q][3] = j + 1
    BY <2>3
  <2>5. i = j
    BY <1>12, <2>4
  <2> QED BY <2>1, <2>2, <2>5
<1>13. ASSUME NEW p \in Places', p \notin Line, p # dest
       PROVE  p \in Places /\ News'[p] = News[p] /\ (p \in OnItsWay' => p \in OnItsWay)
  <2>1. CASE p[1] # "mail"
    BY <1>13, <2>1
  <2>2. CASE p[1] = "mail"
    <3>1. p \in MailPlaces' /\ News'[p] = mail'[p[2]][p[3]]
      BY <1>4, <2>2
    <3>2. PICK q \in Ids, i \in Nat : p = <<"mail", q, i>> /\ i \in 1 .. Len(mail'[q])
      BY <3>1 DEF MailPlaces
    <3>3. q # o
      BY <1>7, <1>13, <3>2
    <3>4. p \in MailPlaces
      BY <1>3, <3>2, <3>3 DEF MailPlaces
    <3>5. p \in OnItsWay /\ News[p] = mail[q][i]
      BY <1>5, <3>2, <3>4
    <3>6. News'[p] = mail[q][i]
      BY <1>3, <3>1, <3>2, <3>3
    <3> QED BY <3>5, <3>6 DEF Places
  <2> QED BY <2>1, <2>2
<1>14. \E f, New : NewsMoves(f, New)
  <2>1. \A p \in Places' : p \in Line =>
            g[p] \in Line /\ g[p] \in OnItsWay /\ g[p] # first /\ News'[p] = News[g[p]]
    BY <1>11
  <2>2. dest \in Places' => News'[dest] = News[first]
    BY <1>10
  <2> QED BY ONLY <1>9, <1>10, <1>12, <1>13, <2>1, <2>2, OneMoves
<1> QED BY <1>6, <1>10, <1>14

\* The queue of the EventRunner moves up.
LEMMA QueueMovesUp ==
    ASSUME TypeInv, events # <<>>, events' = Tail(events), UNCHANGED <<mail, exec>>,
           runner = RunnerIdle, runner' # RunnerIdle => runner'.event = Head(events)
    PROVE  /\ \E f, New : NewsMoves(f, New)
           /\ <<"queue", 0, 1>> \in OnItsWay /\ News[<<"queue", 0, 1>>] = Head(events)
<1>1. events \in Seq(Event)
  BY DEF TypeInv
<1>2. /\ Head(events) = events[1] /\ 1 \in 1 .. Len(events) /\ Len(events) \in Nat
      /\ Len(Tail(events)) = Len(events) - 1
      /\ \A i \in 1 .. Len(events) - 1 : Tail(events)[i] = events[i + 1]
  BY <1>1, PopFront
<1>4. \A p \in Places' : p[1] = "queue" => p \in QueuePlaces' /\ News'[p] = events'[p[3]]
  <2>1. \A p \in Places' : p[1] = "queue" => p \in QueuePlaces'
    BY DEF Places, OnItsWay, MailPlaces, BeingTold, RunnerPlace, ExecPlace
  <2>2. \A p \in Places' : p[1] = "queue" => News'[p] = events'[p[3]]
    BY DEF News
  <2> QED BY <2>1, <2>2
<1>5. \A p \in QueuePlaces : p \in OnItsWay /\ News[p] = events[p[3]]
  <2>1. \A p \in QueuePlaces : p[1] = "queue" /\ p \in Places /\ p \in OnItsWay
    BY DEF QueuePlaces, Places, OnItsWay
  <2> QED BY <2>1 DEF News
<1>6. PICK first : first = <<"queue", 0, 1>>
  OBVIOUS
<1>7. PICK Line : Line = {"queue"} \X {0} \X Nat
  OBVIOUS
<1>8. PICK g : g = [p \in Line |-> <<"queue", 0, p[3] + 1>>]
  OBVIOUS
<1>9. first \in QueuePlaces /\ first \in Line /\ RunnerPlace \notin Line
  BY <1>2, <1>6, <1>7 DEF QueuePlaces, RunnerPlace
<1>10. News[first] = Head(events) /\ first \in OnItsWay
  BY <1>2, <1>5, <1>6, <1>9
<1>11. ASSUME NEW p \in Places', p \in Line
       PROVE  g[p] \in Line /\ g[p] \in OnItsWay /\ g[p] # first /\ News'[p] = News[g[p]]
  <2>1. PICK i \in Nat : p = <<"queue", 0, i>>
    BY <1>7, <1>11
  <2>2. p[1] = "queue" /\ p[3] = i /\ g[p] = <<"queue", 0, i + 1>>
    BY <1>8, <1>11, <2>1
  <2>3. i \in 1 .. Len(events') /\ News'[p] = events'[i]
    BY <1>4, <2>2 DEF QueuePlaces
  <2>4. i + 1 \in 1 .. Len(events) /\ events'[i] = events[i + 1] /\ i + 1 # 1 /\ i + 1 \in Nat
    BY <1>2, <2>3
  <2>5. <<"queue", 0, i + 1>> \in QueuePlaces /\ <<"queue", 0, i + 1>> \in Line
    BY <1>7, <2>4 DEF QueuePlaces
  <2>6. News[<<"queue", 0, i + 1>>] = events[i + 1] /\ <<"queue", 0, i + 1>> \in OnItsWay
    BY <1>5, <2>5
  <2>7. <<"queue", 0, i + 1>> # first
    BY <1>6, <2>4
  <2> QED BY <2>2, <2>3, <2>4, <2>5, <2>6, <2>7
<1>12. ASSUME NEW p \in Places', NEW q \in Places', p \in Line, q \in Line, g[p] = g[q] PROVE p = q
  <2>1. PICK i \in Nat : p = <<"queue", 0, i>>
    BY <1>7, <1>12
  <2>2. PICK j \in Nat : q = <<"queue", 0, j>>
    BY <1>7, <1>12
  <2>3. g[p] = <<"queue", 0, i + 1>> /\ g[q] = <<"queue", 0, j + 1>>
    BY <1>8, <1>12, <2>1, <2>2
  <2>4. g[p][3] = i + 1 /\ g[q][3] = j + 1
    BY <2>3
  <2>5. i = j
    BY <1>12, <2>4
  <2> QED BY <2>1, <2>2, <2>5
<1>13. ASSUME NEW p \in Places', p \notin Line, p # RunnerPlace
       PROVE  p \in Places /\ News'[p] = News[p] /\ (p \in OnItsWay' => p \in OnItsWay)
  <2>1. MailPlaces' = MailPlaces
    BY DEF MailPlaces
  <2>2. p \in MailPlaces \/ (p = ExecPlace /\ exec # NoExec)
    BY <1>7, <1>13, <2>1 DEF Places, OnItsWay, QueuePlaces, BeingTold
  <2>3. p \in Places /\ (p = ExecPlace \/ p \in OnItsWay)
    BY <2>2 DEF Places, OnItsWay, BeingTold
  <2>4. p = ExecPlace => p \notin OnItsWay'
    BY DEF OnItsWay, MailPlaces, QueuePlaces, ExecPlace
  <2>5. p[1] \in {"mail", "exec"}
    BY <2>2 DEF MailPlaces, ExecPlace
  <2>6. News'[p] = News[p]
    BY <1>13, <2>3, <2>5 DEF News
  <2> QED BY <2>3, <2>4, <2>6
<1>14. \E f, New : NewsMoves(f, New)
  <2>1. \A p \in Places' : p \in Line =>
            g[p] \in Line /\ g[p] \in OnItsWay /\ g[p] # first /\ News'[p] = News[g[p]]
    BY <1>11
  <2>2. RunnerPlace \in Places' => News'[RunnerPlace] = News[first]
    <3>1. RunnerPlace \in Places' => runner' # RunnerIdle
      BY DEF Places, OnItsWay, MailPlaces, QueuePlaces, BeingTold, RunnerPlace, ExecPlace
    <3>2. RunnerPlace \in Places' => News'[RunnerPlace] = runner'.event
      BY DEF News, RunnerPlace
    <3> QED BY <1>10, <3>1, <3>2
  <2> QED BY ONLY <1>9, <1>10, <1>12, <1>13, <2>1, <2>2, OneMoves
<1> QED BY <1>6, <1>10, <1>14

\* The Cangjie observer puts its message at the end of the queue.
LEMMA SendEventHeard ==
    ASSUME IndInv, HeardInv, NEW o \in Ids, FfiObserverSendsEvent(o), UNCHANGED aniVars
    PROVE  HeardInv'
<1>0. TypeInv /\ ons \in Nat /\ events \in Seq(Event) /\ Len(events) \in Nat
  BY AppTypes DEF IndInv, TypeInv
<1>1. /\ Deliver(o, "cj") /\ events' = Append(events, Head(mail[o]))
      /\ UNCHANGED <<listenerList_, runner, inner, exec>>
  BY DEF FfiObserverSendsEvent, aniVars
<1>2. /\ Head(mail[o]) \in Event
      /\ UNCHANGED <<job, records, ons, updates, heard>>
  BY <1>0, <1>1, Delivered
<1>3. /\ Len(events') = Len(events) + 1 /\ events'[Len(events) + 1] = Head(mail[o])
      /\ \A i \in 1 .. Len(events) : events'[i] = events[i]
  BY <1>0, <1>1, <1>2, AppendProperties
<1>4. PICK dest : dest = <<"queue", 0, Len(events) + 1>>
  OBVIOUS
<1>5. dest[1] = "queue" /\ dest[3] = Len(events) + 1
  BY <1>4
<1>6. dest \in Places' => News'[dest] = Head(mail[o])
  BY <1>3, <1>5 DEF News
<1>7. ASSUME NEW p \in Places', p[1] # "mail", p # dest
      PROVE  p \in Places /\ News'[p] = News[p] /\ (p \in OnItsWay' => p \in OnItsWay)
  <2>1. CASE p[1] = "queue"
    <3>1. p \in QueuePlaces'
      BY <1>7, <2>1 DEF Places, OnItsWay, MailPlaces, BeingTold, RunnerPlace, ExecPlace
    <3>2. PICK i \in Nat : p = <<"queue", 0, i>> /\ i \in 1 .. Len(events')
      BY <3>1 DEF QueuePlaces
    <3>3. i # Len(events) + 1
      BY <1>4, <1>7, <3>2
    <3>4. i \in 1 .. Len(events)
      BY <1>0, <1>3, <3>2, <3>3
    <3>5. p \in QueuePlaces /\ p[3] = i
      BY <3>2, <3>4 DEF QueuePlaces
    <3>6. p \in Places /\ p \in OnItsWay
      BY <3>5 DEF Places, OnItsWay
    <3>7. News'[p] = events'[i] /\ News[p] = events[i]
      BY <1>7, <2>1, <3>5, <3>6 DEF News
    <3> QED BY <1>3, <3>4, <3>6, <3>7
  <2>2. CASE p[1] # "queue"
    <3>1. p \in BeingTold' /\ p \notin OnItsWay'
      BY <1>7, <2>2 DEF Places, OnItsWay, MailPlaces, QueuePlaces
    <3>2. p \in Places
      BY <1>1, <3>1 DEF Places, BeingTold
    <3>3. News'[p] = News[p]
      BY <1>1, <1>7, <2>2, <3>2 DEF News
    <3> QED BY <3>1, <3>2, <3>3
  <2> QED BY <2>1, <2>2
<1>8. PICK f, New : NewsMoves(f, New)
  BY <1>0, <1>1, <1>5, <1>6, <1>7, MailMovesUp
<1>9. EveryoneGrows
  <2>1. Listed' = Listed
    BY <1>1 DEF Listed, ListOf
  <2>2. runner' # RunnerIdle => ToSet(runner'.todo) \subseteq Everyone
    BY <1>1 DEF Everyone
  <2> QED BY <1>2, <2>1, <2>2, NobodyNew
<1>10. NewsUnique' /\ NewsNumbered' /\ EveryoneOnce' /\ NotYetHeard'
  BY <1>0, <1>2, <1>8, <1>9, NewsKept
<1>11. Telling' /\ ListsDistinct' /\ OneRecord'
  BY <1>1, <1>2 DEF HeardInv, Telling, TellsOnce, ListsDistinct, OneRecord
<1> QED BY <1>10, <1>11 DEF HeardInv

\* Whoever takes a message off its line takes copies of listeners of its type, none
\* twice, and none of them has heard of it.
LEMMA CopiesTellOnce ==
    ASSUME TypeInv, HeardInv, NEW p \in OnItsWay, NEW list \in Seq(Listener), Distinct(list),
           ToSet(list) \subseteq Everyone, NEW S, \A l \in S : l.type = News[p].type,
           NEW todo, todo = Kept(list, S)
    PROVE  /\ todo \in Seq(Listener) /\ ToSet(todo) \subseteq ToSet(list)
           /\ TellsOnce(todo, News[p], 1)
<1>1. todo \in Seq(Listener) /\ ToSet(todo) = ToSet(list) \cap S /\ Distinct(todo)
  BY KeptElements
<1>2. \A i \in 1 .. Len(todo) : todo[i] \in ToSet(todo)
  BY <1>1 DEF ToSet
<1>3. \A l \in ToSet(todo) : l.type = News[p].type /\ <<l.id, News[p].update>> \notin heard
  BY <1>1 DEF HeardInv, NotYetHeard
<1> QED BY <1>1, <1>2, <1>3 DEF TellsOnce

\* The EventRunner takes the oldest event and copies its listeners.
LEMMA ProcessEventHeard ==
    ASSUME IndInv, HeardInv, ProcessEvent, UNCHANGED aniVars
    PROVE  HeardInv'
<1>0. TypeInv /\ ons \in Nat /\ listenerList_ \in Seq(Listener) /\ Distinct(listenerList_)
  BY AppTypes DEF IndInv, TypeInv, HeardInv, ListsDistinct
<1>1. /\ runner = RunnerIdle /\ events # <<>> /\ events' = Tail(events)
      /\ RunnerAt(Head(events), Snapshot(Head(events)))
      /\ UNCHANGED <<job, records, mail, ons, updates, heard, listenerList_, inner, exec>>
  BY DEF ProcessEvent, processVars, service, counters, aniVars
<1>2. PICK ev, todo : ev = Head(events) /\ todo = Snapshot(ev)
  OBVIOUS
<1>3. runner' = IF todo = <<>> THEN RunnerIdle ELSE [pc |-> "test", event |-> ev, todo |-> todo]
  BY <1>1, <1>2 DEF RunnerAt
<1>4. runner' # RunnerIdle => runner'.event = ev /\ runner'.todo = todo /\ runner'.pc = "test"
  BY <1>3
<1>5. /\ \E f, New : NewsMoves(f, New)
      /\ <<"queue", 0, 1>> \in OnItsWay /\ News[<<"queue", 0, 1>>] = ev
  BY <1>0, <1>1, <1>2, <1>4, QueueMovesUp
<1>6. PICK f, New : NewsMoves(f, New)
  BY <1>5
<1>7. ToSet(listenerList_) \subseteq Everyone
  BY DEF Everyone, Listed, ListOf
<1>8. PICK S : S = {l \in ToSet(listenerList_) : CjHandles(l, ev)}
  OBVIOUS
<1>9. (\A l \in S : l.type = ev.type) /\ todo = Kept(listenerList_, S)
  BY <1>2, <1>8 DEF CjHandles, Snapshot
<1>10. ToSet(todo) \subseteq ToSet(listenerList_) /\ TellsOnce(todo, ev, 1)
  BY <1>0, <1>5, <1>7, <1>9, CopiesTellOnce
<1>11. EveryoneGrows
  <2>1. Listed' = Listed
    BY <1>1 DEF Listed, ListOf
  <2>2. runner' # RunnerIdle => ToSet(runner'.todo) \subseteq Everyone
    BY <1>4, <1>7, <1>10
  <2> QED BY <1>1, <2>1, <2>2, NobodyNew
<1>12. NewsUnique' /\ NewsNumbered' /\ EveryoneOnce' /\ NotYetHeard'
  BY <1>0, <1>1, <1>6, <1>11, NewsKept
<1>13. Telling' /\ ListsDistinct' /\ OneRecord'
  BY <1>1, <1>4, <1>10 DEF HeardInv, Telling, TellsOnce, ListsDistinct, OneRecord
<1> QED BY <1>12, <1>13 DEF HeardInv

\* A binder thread takes a message to the functions of the Vec.
LEMMA on_updatedHeard ==
    ASSUME IndInv, HeardInv, NEW o \in Ids, on_updated(o), UNCHANGED cjVars
    PROVE  HeardInv'
<1>0. TypeInv /\ ons \in Nat /\ inner \in Seq(Listener) /\ Distinct(inner)
  BY AppTypes DEF IndInv, TypeInv, HeardInv, ListsDistinct
<1>1. /\ exec = NoExec /\ Deliver(o, "ani")
      /\ UNCHANGED <<inner, listenerList_, events, runner>>
  BY DEF on_updated, cjVars
<1>2. UNCHANGED <<job, records, ons, updates, heard>>
  BY <1>0, <1>1, Delivered
<1>3. PICK ev, S, todo : /\ ev = Head(mail[o]) /\ S = {l \in ToSet(inner) : executes_for(l, ev)}
                         /\ todo = Kept(inner, S)
  OBVIOUS
<1>4. exec' = IF todo = <<>> THEN NoExec ELSE [event |-> ev, todo |-> todo]
  BY <1>3 DEF on_updated
<1>5. exec' # NoExec => exec'.event = ev /\ exec'.todo = todo
  BY <1>4
<1>6. ExecPlace \in Places' => News'[ExecPlace] = ev
  <2>1. ExecPlace \in Places' => exec' # NoExec
    BY DEF Places, OnItsWay, MailPlaces, QueuePlaces, BeingTold, RunnerPlace, ExecPlace
  <2>2. ExecPlace \in Places' => News'[ExecPlace] = exec'.event
    BY DEF News, ExecPlace
  <2> QED BY <1>5, <2>1, <2>2
<1>7. ASSUME NEW p \in Places', p[1] # "mail", p # ExecPlace
      PROVE  p \in Places /\ News'[p] = News[p] /\ (p \in OnItsWay' => p \in OnItsWay)
  <2>1. QueuePlaces' = QueuePlaces
    BY <1>1 DEF QueuePlaces
  <2>2. p \in QueuePlaces \/ (p = RunnerPlace /\ runner # RunnerIdle)
    BY <1>1, <1>7, <2>1 DEF Places, OnItsWay, MailPlaces, BeingTold
  <2>3. p \in Places /\ (p = RunnerPlace \/ p \in OnItsWay)
    BY <2>2 DEF Places, OnItsWay, BeingTold
  <2>4. p = RunnerPlace => p \notin OnItsWay'
    BY DEF OnItsWay, MailPlaces, QueuePlaces, RunnerPlace
  <2>5. p[1] \in {"queue", "runner"}
    BY <2>2 DEF QueuePlaces, RunnerPlace
  <2>6. News'[p] = News[p]
    BY <1>1, <1>7, <2>3, <2>5 DEF News
  <2> QED BY <2>3, <2>4, <2>6
<1>8. /\ \E f, New : NewsMoves(f, New)
      /\ <<"mail", o, 1>> \in OnItsWay /\ News[<<"mail", o, 1>>] = ev
  <2>1. ExecPlace[1] # "mail"
    BY DEF ExecPlace
  <2> QED BY <1>0, <1>1, <1>3, <1>6, <1>7, <2>1, MailMovesUp
<1>9. PICK f, New : NewsMoves(f, New)
  BY <1>8
<1>10. ToSet(inner) \subseteq Everyone /\ \A l \in S : l.type = ev.type
  BY <1>3 DEF Everyone, Listed, ListOf, executes_for
<1>11. TellsOnce(todo, ev, 1)
  BY <1>0, <1>3, <1>8, <1>10, CopiesTellOnce
<1>12. EveryoneGrows
  <2>1. Listed' = Listed
    BY <1>1 DEF Listed, ListOf
  <2>2. runner' # RunnerIdle => ToSet(runner'.todo) \subseteq Everyone
    BY <1>1 DEF Everyone
  <2> QED BY <1>2, <2>1, <2>2, NobodyNew
<1>13. NewsUnique' /\ NewsNumbered' /\ EveryoneOnce' /\ NotYetHeard'
  BY <1>0, <1>2, <1>9, <1>12, NewsKept
<1>14. Telling' /\ ListsDistinct' /\ OneRecord'
  BY <1>1, <1>2, <1>5, <1>11 DEF HeardInv, Telling, TellsOnce, ListsDistinct, OneRecord
<1> QED BY <1>13, <1>14 DEF HeardInv

\* The tellers go on: they keep their message or have done with it.
LEMMA TellersGoOn ==
    ASSUME UNCHANGED <<mail, events>>,
           runner' = RunnerIdle \/ (runner # RunnerIdle /\ runner'.event = runner.event),
           exec' = NoExec \/ (exec # NoExec /\ exec'.event = exec.event)
    PROVE  /\ \A p \in Places' : p \in Places /\ News'[p] = News[p]
           /\ OnItsWay' = OnItsWay
           /\ \E f, New : NewsMoves(f, New)
<1>1. OnItsWay' = OnItsWay
  BY DEF OnItsWay, MailPlaces, QueuePlaces
<1>2. BeingTold' \subseteq BeingTold
  BY DEF BeingTold
<1>3. ASSUME NEW p \in Places' PROVE p \in Places /\ News'[p] = News[p]
  <2>1. p \in Places
    BY <1>1, <1>2 DEF Places
  <2>2. CASE p \in OnItsWay
    <3>1. p[1] \in {"mail", "queue"}
      BY <2>2 DEF OnItsWay, MailPlaces, QueuePlaces
    <3> QED BY <1>3, <2>1, <3>1 DEF News
  <2>3. CASE p = RunnerPlace /\ runner' # RunnerIdle
    <3>1. p[1] = "runner"
      BY <2>3 DEF RunnerPlace
    <3>2. News'[p] = runner'.event /\ News[p] = runner.event
      BY <1>3, <2>1, <3>1 DEF News
    <3> QED BY <2>1, <2>3, <3>2
  <2>4. CASE p = ExecPlace /\ exec' # NoExec
    <3>1. p[1] = "exec"
      BY <2>4 DEF ExecPlace
    <3>2. News'[p] = exec'.event /\ News[p] = exec.event
      BY <1>3, <2>1, <3>1 DEF News
    <3> QED BY <2>1, <2>4, <3>2
  <2> QED BY <1>1, <1>3, <2>2, <2>3, <2>4 DEF Places, BeingTold
<1>4. PICK f, New : f = [p \in Places |-> p] /\ New = {}
  OBVIOUS
<1>5. NewsMoves(f, New)
  BY <1>1, <1>3, <1>4 DEF NewsMoves
<1> QED BY <1>1, <1>3, <1>5

\* What is left to tell after the first listener.
LEMMA TellsTheRest ==
    ASSUME NEW todo \in Seq(Listener), todo # <<>>, NEW ev, NEW from \in {1, 2}, TellsOnce(todo, ev, from)
    PROVE  TellsOnce(Tail(todo), ev, 1)
<1>1. /\ ToSet(Tail(todo)) \subseteq ToSet(todo)
      /\ Len(Tail(todo)) = Len(todo) - 1 /\ Len(todo) \in Nat
      /\ \A i \in 1 .. Len(todo) - 1 : Tail(todo)[i] = todo[i + 1]
  BY PopFront
<1>2. Distinct(Tail(todo))
  BY PopDistinct DEF TellsOnce
<1>3. PICK rest : rest = Tail(todo)
  OBVIOUS
<1>4. ASSUME NEW i \in 1 .. Len(rest) PROVE <<rest[i].id, ev.update>> \notin heard
  <2>1. i + 1 \in from .. Len(todo) /\ rest[i] = todo[i + 1]
    BY <1>1, <1>3
  <2> QED BY <2>1 DEF TellsOnce
<1>5. TellsOnce(rest, ev, 1)
  BY <1>1, <1>2, <1>3, <1>4 DEF TellsOnce
<1> QED BY <1>3, <1>5

\* The EventRunner tests a listener, passes over it, or comes back from its function.
LEMMA RunnerHeard ==
    ASSUME IndInv, HeardInv, WorkUpdated \/ CallbackReturns, UNCHANGED aniVars
    PROVE  HeardInv'
<1>0. TypeInv /\ ons \in Nat
  BY AppTypes DEF IndInv, TypeInv
<1>1. /\ runner.pc \in {"test", "in"}
      /\ \/ runner' = [runner EXCEPT !.pc = "call"] /\ runner.pc = "test"
         \/ RunnerAt(runner.event, Tail(runner.todo))
      /\ UNCHANGED <<job, records, mail, ons, updates, heard, listenerList_, events, inner, exec>>
  BY DEF WorkUpdated, CallbackReturns, processVars, service, counters, aniVars
<1>2. /\ runner \in [pc : {"test", "call", "in"}, event : Event, todo : Todo] /\ runner # RunnerIdle
      /\ runner.todo \in Seq(Listener) /\ runner.todo # <<>>
  BY <1>0, <1>1, RunnerTypes DEF Todo
<1>3. PICK ev, todo : ev = runner.event /\ todo = runner.todo /\ todo \in Seq(Listener) /\ todo # <<>>
  BY <1>2
<1>4. TellsOnce(todo, ev, IF runner.pc = "in" THEN 2 ELSE 1)
  BY <1>2, <1>3 DEF HeardInv, Telling
<1>5. TellsOnce(Tail(todo), ev, 1) /\ ToSet(Tail(todo)) \subseteq ToSet(todo)
  BY <1>3, <1>4, TellsTheRest, PopFront
<1>6. \/ runner' = RunnerIdle
      \/ /\ runner'.event = ev /\ runner'.pc # "in" /\ TellsOnce(runner'.todo, ev, 1)
         /\ ToSet(runner'.todo) \subseteq ToSet(todo)
  <2>1. CASE runner' = [runner EXCEPT !.pc = "call"] /\ runner.pc = "test"
    <3>1. runner'.event = ev /\ runner'.pc = "call" /\ runner'.todo = todo
      BY <1>2, <1>3, <2>1
    <3> QED BY <1>4, <2>1, <3>1
  <2>2. CASE RunnerAt(ev, Tail(todo))
    <3>1. PICK rest : rest = Tail(todo)
      OBVIOUS
    <3>2. runner' = RunnerIdle \/ runner' = [pc |-> "test", event |-> ev, todo |-> rest]
      BY <2>2, <3>1 DEF RunnerAt
    <3>3. CASE runner' = [pc |-> "test", event |-> ev, todo |-> rest]
      <4>1. runner'.event = ev /\ runner'.pc = "test" /\ runner'.todo = rest
        BY <3>3
      <4>2. TellsOnce(rest, ev, 1) /\ ToSet(rest) \subseteq ToSet(todo)
        BY <1>5, <3>1
      <4> QED BY <4>1, <4>2
    <3> QED BY <3>2, <3>3
  <2> QED BY <1>1, <1>3, <2>1, <2>2
<1>7. PICK f, New : NewsMoves(f, New)
  <2>1. UNCHANGED <<mail, events>> /\ (exec' = NoExec \/ (exec # NoExec /\ exec'.event = exec.event))
    BY <1>1
  <2>2. runner' = RunnerIdle \/ (runner # RunnerIdle /\ runner'.event = runner.event)
    BY <1>2, <1>3, <1>6
  <2> QED BY <2>1, <2>2, TellersGoOn
<1>8. EveryoneGrows
  <2>1. Listed' = Listed
    BY <1>1 DEF Listed, ListOf
  <2>2. runner' # RunnerIdle => ToSet(runner'.todo) \subseteq Everyone
    BY <1>2, <1>3, <1>6 DEF Everyone
  <2> QED BY <1>1, <2>1, <2>2, NobodyNew
<1>9. NewsUnique' /\ NewsNumbered' /\ EveryoneOnce' /\ NotYetHeard'
  BY <1>0, <1>1, <1>7, <1>8, NewsKept
<1>10. Telling' /\ ListsDistinct' /\ OneRecord'
  BY <1>1, <1>6 DEF HeardInv, Telling, TellsOnce, ListsDistinct, OneRecord
<1> QED BY <1>9, <1>10 DEF HeardInv

\* A function hears of the message its teller holds: that is new to it, and settles
\* no other message for anybody.
LEMMA Hears ==
    ASSUME HeardInv, NEW place \in BeingTold, NEW l \in Everyone, NEW ev, ev = News[place],
           l.type = ev.type, heard' = heard \cup {<<l.id, ev.update>>},
           UNCHANGED <<job, ons, updates>>, Everyone' \subseteq Everyone, OnItsWay' = OnItsWay,
           \A p \in Places' : p \in Places /\ News'[p] = News[p]
    PROVE  /\ NewsUnique' /\ NewsNumbered' /\ EveryoneOnce' /\ NotYetHeard'
           /\ \A p \in Places, m \in Everyone :
                 p # place /\ News[p].type = m.type => <<m.id, News[p].update>> # <<l.id, ev.update>>
           /\ \A m \in Everyone : m # l => <<m.id, ev.update>> # <<l.id, ev.update>>
<1>0. NewsUnique /\ NewsNumbered /\ EveryoneOnce /\ NotYetHeard
  BY DEF HeardInv
<1>1. place \in Places /\ UsedNumbers' = UsedNumbers
  BY DEF Places, UsedNumbers
<1>2. ASSUME NEW p \in Places, NEW m \in Everyone, p # place, News[p].type = m.type,
             <<m.id, News[p].update>> = <<l.id, ev.update>>
      PROVE  FALSE
  <2>1. m.id = l.id /\ News[p].update = ev.update
    BY <1>2
  <2>2. m = l
    BY <1>0, <2>1 DEF EveryoneOnce
  <2>3. SameNews(News[p], News[place])
    BY <1>2, <2>1, <2>2 DEF SameNews
  <2> QED BY <1>0, <1>1, <1>2, <2>3 DEF NewsUnique
<1>3. ASSUME NEW m \in Everyone, m # l, <<m.id, ev.update>> = <<l.id, ev.update>> PROVE FALSE
  <2>1. m.id = l.id
    BY <1>3
  <2> QED BY <1>0, <1>3, <2>1 DEF EveryoneOnce
<1>4. NewsUnique'
  BY <1>0 DEF NewsUnique, SameNews
<1>5. NewsNumbered'
  <2>1. \A p \in Places' : News'[p].update \in UsedNumbers'
    BY <1>0, <1>1 DEF NewsNumbered
  <2>2. ASSUME NEW c \in heard' PROVE c[1] \in 1 .. ons /\ c[2] \in UsedNumbers
    <3>1. CASE c \in heard
      BY <1>0, <3>1 DEF NewsNumbered
    <3>2. CASE c = <<l.id, ev.update>>
      <4>1. c[1] = l.id /\ c[2] = ev.update
        BY <3>2
      <4> QED BY <1>0, <1>1, <4>1 DEF NewsNumbered, EveryoneOnce
    <3> QED BY <3>1, <3>2
  <2> QED BY <1>1, <2>1, <2>2 DEF NewsNumbered
<1>6. EveryoneOnce'
  BY <1>0 DEF EveryoneOnce
<1>7. NotYetHeard'
  <2> SUFFICES ASSUME NEW p \in OnItsWay, NEW m \in Everyone, News'[p].type = m.type
               PROVE  <<m.id, News'[p].update>> \notin heard'
    BY DEF NotYetHeard
  <2>1. p \in Places /\ p \in Places'
    BY DEF Places
  <2>2. p # place
    BY DEF OnItsWay, MailPlaces, QueuePlaces, BeingTold, RunnerPlace, ExecPlace
  <2>3. News'[p] = News[p]
    BY <2>1
  <2>4. <<m.id, News[p].update>> \notin heard
    BY <1>0, <2>3 DEF NotYetHeard
  <2>5. <<m.id, News[p].update>> # <<l.id, ev.update>>
    BY <1>2, <2>1, <2>2, <2>3
  <2> QED BY <2>3, <2>4, <2>5
<1> QED BY <1>2, <1>3, <1>4, <1>5, <1>6, <1>7

\* The teller of a message and its first listener.
LEMMA FirstToHear ==
    ASSUME NEW todo \in Seq(Listener), todo # <<>>, NEW ev, TellsOnce(todo, ev, 1)
    PROVE  /\ Head(todo) \in ToSet(todo) /\ Head(todo).type = ev.type
           /\ <<Head(todo).id, ev.update>> \notin heard
           /\ \A i \in 2 .. Len(todo) : todo[i] \in ToSet(todo) /\ todo[i] # Head(todo)
<1>1. Head(todo) = todo[1] /\ 1 \in 1 .. Len(todo) /\ Head(todo) \in ToSet(todo) /\ Len(todo) \in Nat
  BY PopFront
<1>2. \A i \in 2 .. Len(todo) : todo[i] # Head(todo)
  BY PopDistinct DEF TellsOnce
<1>3. \A i \in 2 .. Len(todo) : todo[i] \in ToSet(todo)
  BY <1>1 DEF ToSet
<1> QED BY <1>1, <1>2, <1>3 DEF TellsOnce

\* A Cangjie function is called.
LEMMA callbackRefHeard ==
    ASSUME IndInv, HeardInv, callbackRef, UNCHANGED aniVars
    PROVE  HeardInv'
<1>0. TypeInv
  BY DEF IndInv
<1>1. /\ runner.pc = "call" /\ runner' = [runner EXCEPT !.pc = "in"]
      /\ heard' = heard \cup {<<Head(runner.todo).id, runner.event.update>>}
      /\ UNCHANGED <<job, records, mail, ons, updates, listenerList_, events, inner, exec>>
  BY DEF callbackRef, service, counters, aniVars
<1>2. /\ runner \in [pc : {"test", "call", "in"}, event : Event, todo : Todo] /\ runner # RunnerIdle
      /\ runner.todo \in Seq(Listener) /\ runner.todo # <<>>
  BY <1>0, <1>1, RunnerTypes DEF Todo
<1>3. PICK ev, todo, l : /\ ev = runner.event /\ todo = runner.todo /\ todo \in Seq(Listener) /\ todo # <<>>
                         /\ l = Head(todo)
  BY <1>2
<1>4. TellsOnce(todo, ev, 1)
  BY <1>1, <1>2, <1>3 DEF HeardInv, Telling
<1>5. /\ l \in ToSet(todo) /\ l.type = ev.type /\ <<l.id, ev.update>> \notin heard
      /\ \A i \in 2 .. Len(todo) : todo[i] \in ToSet(todo) /\ todo[i] # l
  BY <1>3, <1>4, FirstToHear
<1>6. runner'.event = ev /\ runner'.pc = "in" /\ runner'.todo = todo
  BY <1>1, <1>2, <1>3
<1>7. ToSet(todo) \subseteq Everyone
  BY <1>2, <1>3 DEF Everyone
<1>8. Everyone' \subseteq Everyone
  <2>1. Listed' = Listed
    BY <1>1 DEF Listed, ListOf
  <2> QED BY <1>1, <1>6, <1>7, <2>1, NobodyNew
<1>9. /\ \A p \in Places' : p \in Places /\ News'[p] = News[p]
      /\ OnItsWay' = OnItsWay
  <2>1. UNCHANGED <<mail, events>> /\ (exec' = NoExec \/ (exec # NoExec /\ exec'.event = exec.event))
    BY <1>1
  <2>2. runner' = RunnerIdle \/ (runner # RunnerIdle /\ runner'.event = runner.event)
    BY <1>2, <1>3, <1>6
  <2> QED BY <2>1, <2>2, TellersGoOn
<1>10. RunnerPlace \in BeingTold /\ News[RunnerPlace] = ev
  <2>1. RunnerPlace \in BeingTold /\ RunnerPlace \in Places
    BY <1>2 DEF BeingTold, Places
  <2> QED BY <1>3, <2>1 DEF News, RunnerPlace
<1>11. heard' = heard \cup {<<l.id, ev.update>>}
  BY <1>1, <1>3
<1>12. /\ NewsUnique' /\ NewsNumbered' /\ EveryoneOnce' /\ NotYetHeard'
       /\ \A p \in Places, m \in Everyone :
             p # RunnerPlace /\ News[p].type = m.type => <<m.id, News[p].update>> # <<l.id, ev.update>>
       /\ \A m \in Everyone : m # l => <<m.id, ev.update>> # <<l.id, ev.update>>
  BY <1>1, <1>5, <1>7, <1>8, <1>9, <1>10, <1>11, Hears
<1>13. (runner # RunnerIdle => TellsOnce(runner.todo, runner.event, IF runner.pc = "in" THEN 2 ELSE 1))'
  <2>1. ASSUME NEW i \in 2 .. Len(todo) PROVE <<todo[i].id, ev.update>> \notin heard'
    <3>1. i \in 1 .. Len(todo)
      BY <1>3
    <3>2. <<todo[i].id, ev.update>> \notin heard
      BY <1>4, <3>1 DEF TellsOnce
    <3>3. <<todo[i].id, ev.update>> # <<l.id, ev.update>>
      BY <1>5, <1>7, <1>12
    <3> QED BY <1>11, <3>2, <3>3
  <2> QED BY <1>4, <1>6, <2>1 DEF TellsOnce
<1>14. (exec # NoExec => TellsOnce(exec.todo, exec.event, 1))'
  <2> SUFFICES ASSUME exec # NoExec PROVE (exec # NoExec => TellsOnce(exec.todo, exec.event, 1))'
    BY <1>1
  <2>1. PICK et, ee : et = exec.todo /\ ee = exec.event /\ TellsOnce(et, ee, 1) /\ et \in Seq(Listener)
    BY ExecTypes DEF HeardInv, Telling
  <2>2. ToSet(et) \subseteq Everyone
    BY <2>1, ExecTypes DEF Everyone, Listed
  <2>3. ExecPlace \in Places /\ News[ExecPlace] = ee /\ ExecPlace # RunnerPlace
    <3>1. ExecPlace \in Places
      BY DEF BeingTold, Places
    <3>2. News[ExecPlace] = exec.event
      BY <3>1 DEF News, ExecPlace
    <3> QED BY <2>1, <3>1, <3>2 DEF ExecPlace, RunnerPlace
  <2>4. ASSUME NEW i \in 1 .. Len(et) PROVE <<et[i].id, ee.update>> \notin heard'
    <3>1. et[i] \in ToSet(et)
      BY <2>1 DEF ToSet
    <3>2. et[i].type = ee.type /\ <<et[i].id, ee.update>> \notin heard
      BY <2>1, <3>1 DEF TellsOnce
    <3>3. <<et[i].id, ee.update>> # <<l.id, ev.update>>
      BY <1>12, <2>2, <2>3, <3>1, <3>2
    <3> QED BY <1>11, <3>2, <3>3
  <2> QED BY <1>1, <2>1, <2>4 DEF TellsOnce
<1>15. Telling'
  BY <1>13, <1>14 DEF Telling
<1>16. ListsDistinct' /\ OneRecord'
  BY <1>1 DEF HeardInv, ListsDistinct, OneRecord
<1> QED BY <1>12, <1>15, <1>16 DEF HeardInv

\* A function of the Vec is executed.
LEMMA executeHeard ==
    ASSUME IndInv, HeardInv, execute, UNCHANGED cjVars
    PROVE  HeardInv'
<1>0. TypeInv
  BY DEF IndInv
<1>1. /\ exec # NoExec
      /\ exec' = IF Tail(exec.todo) = <<>> THEN NoExec ELSE [exec EXCEPT !.todo = Tail(@)]
      /\ heard' = heard \cup {<<Head(exec.todo).id, exec.event.update>>}
      /\ UNCHANGED <<job, records, mail, ons, updates, listenerList_, events, runner, inner>>
  BY DEF execute, service, counters, cjVars
<1>2. /\ exec \in [event : Event, todo : Todo]
      /\ exec.todo \in Seq(Listener) /\ exec.todo # <<>>
      /\ ToSet(exec.todo) \subseteq Everyone
  BY <1>1, ExecTypes DEF Everyone, Listed
<1>3. PICK ev, todo, l, rest : /\ ev = exec.event /\ todo = exec.todo /\ todo \in Seq(Listener) /\ todo # <<>>
                               /\ l = Head(todo) /\ rest = Tail(todo)
  BY <1>2
<1>4. TellsOnce(todo, ev, 1)
  BY <1>1, <1>3 DEF HeardInv, Telling
<1>5. /\ l \in ToSet(todo) /\ l.type = ev.type /\ <<l.id, ev.update>> \notin heard
      /\ \A i \in 2 .. Len(todo) : todo[i] \in ToSet(todo) /\ todo[i] # l
  BY <1>3, <1>4, FirstToHear
<1>6. exec' = NoExec \/ (exec'.event = ev /\ exec'.todo = rest)
  BY <1>1, <1>2, <1>3
<1>7. ToSet(todo) \subseteq Everyone
  BY <1>2, <1>3
<1>8. Everyone' \subseteq Everyone
  <2>1. Listed' = Listed
    BY <1>1 DEF Listed, ListOf
  <2>2. runner' # RunnerIdle => ToSet(runner'.todo) \subseteq Everyone
    BY <1>1 DEF Everyone
  <2> QED BY <1>1, <2>1, <2>2, NobodyNew
<1>9. /\ \A p \in Places' : p \in Places /\ News'[p] = News[p]
      /\ OnItsWay' = OnItsWay
  <2>1. UNCHANGED <<mail, events>> /\ (runner' = RunnerIdle \/ (runner # RunnerIdle /\ runner'.event = runner.event))
    BY <1>1
  <2>2. exec' = NoExec \/ (exec # NoExec /\ exec'.event = exec.event)
    BY <1>1, <1>3, <1>6
  <2> QED BY <2>1, <2>2, TellersGoOn
<1>10. ExecPlace \in BeingTold /\ News[ExecPlace] = ev
  <2>1. ExecPlace \in BeingTold /\ ExecPlace \in Places
    BY <1>1 DEF BeingTold, Places
  <2> QED BY <1>3, <2>1 DEF News, ExecPlace
<1>11. heard' = heard \cup {<<l.id, ev.update>>}
  BY <1>1, <1>3
<1>12. /\ NewsUnique' /\ NewsNumbered' /\ EveryoneOnce' /\ NotYetHeard'
       /\ \A p \in Places, m \in Everyone :
             p # ExecPlace /\ News[p].type = m.type => <<m.id, News[p].update>> # <<l.id, ev.update>>
       /\ \A m \in Everyone : m # l => <<m.id, ev.update>> # <<l.id, ev.update>>
  BY <1>1, <1>5, <1>7, <1>8, <1>9, <1>10, <1>11, Hears
<1>13. (exec # NoExec => TellsOnce(exec.todo, exec.event, 1))'
  <2>1. TellsOnce(rest, ev, 1) /\ rest \in Seq(Listener)
    BY <1>3, <1>4, TellsTheRest, PopFront
  <2>2. /\ Len(rest) = Len(todo) - 1 /\ Len(todo) \in Nat
        /\ \A i \in 1 .. Len(todo) - 1 : rest[i] = todo[i + 1]
    BY <1>3, PopFront
  <2>3. ASSUME NEW i \in 1 .. Len(rest) PROVE <<rest[i].id, ev.update>> \notin heard'
    <3>1. i + 1 \in 2 .. Len(todo) /\ rest[i] = todo[i + 1]
      BY <2>2
    <3>2. <<rest[i].id, ev.update>> \notin heard
      BY <2>1 DEF TellsOnce
    <3>3. rest[i] \in Everyone /\ rest[i] # l
      BY <1>5, <1>7, <3>1
    <3>4. <<rest[i].id, ev.update>> # <<l.id, ev.update>>
      BY <1>12, <3>3
    <3> QED BY <1>11, <3>2, <3>4
  <2> QED BY <1>6, <2>1, <2>3 DEF TellsOnce
<1>14. (runner # RunnerIdle => TellsOnce(runner.todo, runner.event, IF runner.pc = "in" THEN 2 ELSE 1))'
  <2> SUFFICES ASSUME runner # RunnerIdle
               PROVE  (runner # RunnerIdle =>
                         TellsOnce(runner.todo, runner.event, IF runner.pc = "in" THEN 2 ELSE 1))'
    BY <1>1
  <2>1. PICK rt, re, from : /\ rt = runner.todo /\ re = runner.event /\ from = IF runner.pc = "in" THEN 2 ELSE 1
                            /\ TellsOnce(rt, re, from) /\ rt \in Seq(Listener)
    BY <1>0, RunnerTypes DEF HeardInv, Telling, Todo
  <2>2. ToSet(rt) \subseteq Everyone
    BY <2>1 DEF Everyone
  <2>3. RunnerPlace \in Places /\ News[RunnerPlace] = re /\ ExecPlace # RunnerPlace
    <3>1. RunnerPlace \in Places
      BY DEF BeingTold, Places
    <3>2. News[RunnerPlace] = runner.event
      BY <3>1 DEF News, RunnerPlace
    <3> QED BY <2>1, <3>1, <3>2 DEF ExecPlace, RunnerPlace
  <2>4. ASSUME NEW i \in from .. Len(rt) PROVE <<rt[i].id, re.update>> \notin heard'
    <3>1. i \in 1 .. Len(rt) /\ rt[i] \in ToSet(rt)
      BY <2>1 DEF ToSet
    <3>2. rt[i].type = re.type /\ <<rt[i].id, re.update>> \notin heard
      BY <2>1, <3>1 DEF TellsOnce
    <3>3. <<rt[i].id, re.update>> # <<l.id, ev.update>>
      BY <1>12, <2>2, <2>3, <3>1, <3>2
    <3> QED BY <1>11, <3>2, <3>3
  <2> QED BY <1>1, <2>1, <2>4 DEF TellsOnce
<1>15. Telling'
  BY <1>13, <1>14 DEF Telling
<1>16. ListsDistinct' /\ OneRecord'
  BY <1>1 DEF HeardInv, ListsDistinct, OneRecord
<1> QED BY <1>12, <1>15, <1>16 DEF HeardInv

\* The front ends do nothing, and the service at most ends.
LEMMA IdleHeard ==
    ASSUME IndInv, HeardInv, records' \in {records, {}},
           UNCHANGED <<job, mail, ons, updates, heard, listenerList_, events, runner, inner, exec>>
    PROVE  HeardInv'
<1>0. ons \in Nat
  BY AppTypes DEF IndInv, TypeInv
<1>1. EveryoneGrows
  <2>1. Listed' = Listed
    BY DEF Listed, ListOf
  <2>2. runner' # RunnerIdle => ToSet(runner'.todo) \subseteq Everyone
    BY DEF Everyone
  <2> QED BY <2>1, <2>2, NobodyNew
<1>2. PICK f, New : NewsMoves(f, New)
  BY TellersGoOn
<1>3. NewsUnique' /\ NewsNumbered' /\ EveryoneOnce' /\ NotYetHeard'
  BY <1>0, <1>1, <1>2, NewsKept
<1>4. Telling' /\ ListsDistinct' /\ OneRecord'
  BY DEF HeardInv, Telling, TellsOnce, ListsDistinct, OneRecord
<1> QED BY <1>3, <1>4 DEF HeardInv

\* In a process that has called nothing yet nobody has heard anything.
LEMMA InitHeard ==
    ASSUME Init
    PROVE  HeardInv
<1>1. /\ runner = RunnerIdle /\ exec = NoExec /\ events = <<>> /\ listenerList_ = <<>> /\ inner = <<>>
      /\ heard = {} /\ records = {} /\ mail = [o \in Ids |-> <<>>]
      /\ \A t \in Threads : job[t] = NoJob
  BY DEF Init, ProcessInit, CjInit, AniInit
<1>2. Everyone = {}
  <2>1. Listed = {}
    BY <1>1 DEF Listed, ListOf, ToSet
  <2>2. \A t \in Threads : job[t].op \notin OnOps
    BY <1>1 DEF NoJob, OnOps
  <2> QED BY <1>1, <2>1, <2>2 DEF Everyone
<1>3. Places = {}
  <2>1. MailPlaces = {}
    <3>1. ASSUME NEW p \in {"mail"} \X Ids \X Nat, p[3] \in 1 .. Len(mail[p[2]]) PROVE FALSE
      <4>1. p[2] \in Ids /\ p[3] \in Nat
        BY <3>1
      <4>2. mail[p[2]] = <<>>
        BY <1>1, <4>1
      <4>3. Len(mail[p[2]]) = 0
        BY <4>2
      <4> QED BY <3>1, <4>1, <4>3
    <3> QED BY <3>1 DEF MailPlaces
  <2>2. QueuePlaces = {}
    <3>1. ASSUME NEW p \in {"queue"} \X {0} \X Nat, p[3] \in 1 .. Len(events) PROVE FALSE
      <4>1. Len(events) = 0 /\ p[3] \in Nat
        BY <1>1, <3>1
      <4> QED BY <3>1, <4>1
    <3> QED BY <3>1 DEF QueuePlaces
  <2>3. BeingTold = {}
    BY <1>1 DEF BeingTold
  <2> QED BY <2>1, <2>2, <2>3 DEF Places, OnItsWay
<1>4. OnItsWay = {}
  BY <1>3 DEF Places
<1>5. ListsDistinct
  BY <1>1 DEF ListsDistinct, Distinct
<1> QED
  BY <1>1, <1>2, <1>3, <1>4, <1>5 DEF HeardInv, NewsUnique, NewsNumbered, EveryoneOnce, NotYetHeard,
     Telling, OneRecord

\* Every step keeps what HeardOnce rests on.
LEMMA NextHeard ==
    ASSUME IndInv, HeardInv, [Next]_vars
    PROVE  HeardInv'
<1>1. CASE UNCHANGED vars
  <2>1. UNCHANGED <<job, records, mail, ons, updates, heard, listenerList_, events, runner, inner, exec>>
    BY <1>1 DEF vars, frontEndVars, processVars, service, counters, cjVars, aniVars
  <2> QED BY <2>1, IdleHeard
<1>2. CASE Step
  <2>1. CASE CjNext /\ UNCHANGED aniVars
    <3>1. ASSUME NEW t \in Threads,
                 \/ \E c \in app.onCalls : c.front = "cj" /\ (CjOn(t, c) \/ CjOnWithoutEffect(t, c))
                 \/ \E c \in app.offCalls : c.front = "cj" /\ CjOff(t, c)
          PROVE  HeardInv'
      <4>1. UNCHANGED cjVars
        BY <3>1 DEF CjOn, CjOnWithoutEffect, CjOff
      <4> QED BY <2>1, <3>1, <4>1, CallsBeginHeard
    <3>2. ASSUME NEW t \in Threads, CjWaiting(t) \/ CjServed(t) PROVE HeardInv'
      BY <2>1, <3>2, WaitingHeard, ServedHeard DEF Waiting, Served
    <3>3. ASSUME NEW o \in Ids, FfiObserverSendsEvent(o) PROVE HeardInv'
      BY <2>1, <3>3, SendEventHeard
    <3> QED
      BY <2>1, <3>1, <3>2, <3>3, ProcessEventHeard, RunnerHeard, callbackRefHeard DEF CjNext
  <2>2. CASE AniNext /\ UNCHANGED cjVars
    <3>1. ASSUME NEW t \in Threads,
                 \/ \E c \in app.onCalls : c.front = "ani" /\ (AniOn(t, c) \/ AniOnRejected(t, c))
                 \/ \E c \in app.offCalls : c.front = "ani" /\ AniOff(t, c)
          PROVE  HeardInv'
      <4>1. UNCHANGED aniVars
        BY <3>1 DEF AniOn, AniOnRejected, AniOff
      <4> QED BY <2>2, <3>1, <4>1, CallsBeginHeard
    <3>2. ASSUME NEW t \in Threads, AniWaiting(t) \/ AniServed(t) PROVE HeardInv'
      BY <2>2, <3>2, WaitingHeard, ServedHeard DEF Waiting, Served
    <3>3. ASSUME NEW o \in Ids, on_updated(o) PROVE HeardInv'
      BY <2>2, <3>3, on_updatedHeard
    <3> QED BY <2>2, <3>1, <3>2, <3>3, executeHeard DEF AniNext
  <2>3. CASE World /\ UNCHANGED <<cjVars, aniVars>>
    <3>1. ASSUME NEW u \in app.updates, ServiceUpdate(u) PROVE HeardInv'
      BY <2>3, <3>1, ServiceUpdateHeard
    <3>2. ASSUME NEW listening, ServiceDies(listening) PROVE HeardInv'
      <4>1. records' \in {records, {}} /\ UNCHANGED <<job, mail, ons, updates, heard, listenerList_, events, runner, inner, exec>>
        BY <2>3, <3>2 DEF ServiceDies, cjVars, aniVars
      <4> QED BY <4>1, IdleHeard
    <3> QED BY <2>3, <3>1, <3>2 DEF World
  <2> QED BY <1>2, <2>1, <2>2, <2>3 DEF Step
<1> QED BY <1>1, <1>2 DEF Next

\* Messages stay unique, and nobody has heard what is still to be told, in every
\* reachable state of the two front ends.
THEOREM HeardInvariance == Spec => [](IndInv /\ HeardInv)
<1>1. Init => IndInv /\ HeardInv
  BY InitHolds, InitHeard
<1>2. IndInv /\ HeardInv /\ [Next]_vars => (IndInv /\ HeardInv)'
  BY NextKeeps, NextHeard
<1> QED BY <1>1, <1>2, PTL DEF Spec

\* callbackRef and execute tell a function of an update it has not heard of: several
\* observer objects get the messages of one type, but each update goes to one of
\* them, and whoever takes a message tells every listener once.
THEOREM EachUpdateOnce == Spec => HeardOnce
<1>1. IndInv /\ HeardInv /\ [Next]_vars => [callbackRef \/ execute => heard' # heard]_vars
  <2> SUFFICES ASSUME IndInv, HeardInv, [Next]_vars, callbackRef \/ execute
               PROVE  heard' # heard \/ UNCHANGED vars
    OBVIOUS
  <2>1. CASE callbackRef
    <3>1. runner.pc = "call" /\ heard' = heard \cup {<<Head(runner.todo).id, runner.event.update>>}
      BY <2>1 DEF callbackRef
    <3>2. TypeInv /\ runner # RunnerIdle
      BY <3>1 DEF IndInv, RunnerIdle
    <3>3. runner.todo \in Seq(Listener) /\ runner.todo # <<>> /\ TellsOnce(runner.todo, runner.event, 1)
      BY <3>1, <3>2, RunnerTypes DEF HeardInv, Telling, Todo
    <3>4. <<Head(runner.todo).id, runner.event.update>> \notin heard
      BY <3>3, FirstToHear
    <3> QED BY <3>1, <3>4
  <2>2. CASE execute
    <3>1. exec # NoExec /\ heard' = heard \cup {<<Head(exec.todo).id, exec.event.update>>}
      BY <2>2 DEF execute
    <3>2. exec.todo \in Seq(Listener) /\ exec.todo # <<>> /\ TellsOnce(exec.todo, exec.event, 1)
      BY <3>1, ExecTypes DEF HeardInv, Telling
    <3>3. <<Head(exec.todo).id, exec.event.update>> \notin heard
      BY <3>2, FirstToHear
    <3> QED BY <3>1, <3>3
  <2> QED BY <2>1, <2>2
<1> QED BY <1>1, HeardInvariance, PTL DEF Spec, HeardOnce
==============================================================================
