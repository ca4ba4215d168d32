------------------------- MODULE ObserverClientProofs -------------------------
(***************************************************************************)
(* Proofs about ObserverClient, for any number of client threads and any   *)
(* number of incarnations of the service.                                  *)
(***************************************************************************)
EXTENDS ObserverClient, TLAPS

(* The inductive invariant. *)

InGetProxy == {"check", "watch", "set"}

\* mutexProxy_ is held by the thread that is looking for a proxy, and it looks
\* for one only as long as there is none.
MutexOK ==
    /\ \A t \in Threads : mutexProxy_ = t <=> pc[t] \in InGetProxy
    /\ mutexProxy_ # 0 => proxy_ = 0

\* Nobody knows an incarnation that has not been started; the running one is
\* the last; the watched one is running; a notice is about one that is not.
HistoryOK ==
    /\ service \in {0, lives}
    /\ sam <= lives /\ proxy_ <= lives
    /\ \A t \in Threads : obj[t] <= lives
    /\ watched \subseteq {service}
    /\ \A i \in obituaries : i <= lives /\ i # service

IndInv == TypeOK /\ MutexOK /\ HistoryOK /\ ProxyIsWatched

-----------------------------------------------------------------------------
\* The constructor of the client and a service that was never started establish
\* the inductive invariant.
LEMMA InitStep == Init => IndInv
<1> SUFFICES ASSUME Init PROVE IndInv
  OBVIOUS
<1>1. TypeOK
  BY ClientAssumption DEF Init, TypeOK, Incarnations
<1>2. MutexOK
  BY ClientAssumption DEF Init, MutexOK, InGetProxy
<1>3. HistoryOK
  BY DEF Init, HistoryOK
<1>4. ProxyIsWatched
  BY DEF Init, ProxyIsWatched
<1> QED BY <1>1, <1>2, <1>3, <1>4 DEF IndInv

\* Who has to be watched, thread by thread.
Guarded(i) == i # 0 => IF i = service THEN i \in watched ELSE i \in obituaries

\* ProxyIsWatched speaks of proxy_ and of each thread that is about to set it.
LEMMA WatchedByThread ==
    /\ ProxyIsWatched <=> Guarded(proxy_) /\ \A t \in Threads : pc[t] = "set" => Guarded(obj[t])
    /\ ProxyIsWatched' <=>
          Guarded(proxy_)' /\ \A t \in Threads : pc'[t] = "set" => Guarded(obj[t])'
  BY DEF ProxyIsWatched, Guarded

\* The steps of a thread through GetProxy preserve the inductive invariant: only
\* the holder of mutexProxy_ is between the check and the store.
LEMMA ThreadStep ==
    ASSUME IndInv, NEW t \in Threads, Begin(t) \/ GetProxyStep(t) \/ Request(t)
    PROVE  IndInv'
<1> USE ClientAssumption DEF IndInv
<1>0. /\ pc \in [Threads -> {"idle", "lock", "check", "watch", "set", "request"}]
      /\ obj \in [Threads -> Incarnations] /\ t # 0
  BY DEF TypeOK
<1>1. CASE Begin(t) \/ Request(t)
  <2>1. UNCHANGED <<proxy_, mutexProxy_, obj, world>>
        /\ \/ pc[t] = "idle" /\ pc' = [pc EXCEPT ![t] = "lock"]
           \/ pc[t] = "request" /\ pc' = [pc EXCEPT ![t] = "idle"]
    BY <1>1 DEF Begin, Request, Goto
  <2>2. TypeOK'
    BY <1>0, <2>1 DEF TypeOK, world, Incarnations
  <2>3. MutexOK'
    BY <1>0, <2>1 DEF MutexOK, InGetProxy
  <2>4. HistoryOK'
    BY <2>1 DEF HistoryOK, world
  <2>5. ProxyIsWatched'
    BY <1>0, <2>1, WatchedByThread DEF Guarded, world
  <2> QED BY <2>2, <2>3, <2>4, <2>5
<1>2. CASE GetProxyCached(t)
  <2>1. /\ pc[t] = "lock" /\ mutexProxy_ = 0 /\ proxy_ # 0
        /\ obj' = [obj EXCEPT ![t] = proxy_] /\ pc' = [pc EXCEPT ![t] = "request"]
        /\ UNCHANGED <<proxy_, mutexProxy_, world>>
    BY <1>2 DEF GetProxyCached, Goto
  <2>2. TypeOK'
    BY <1>0, <2>1 DEF TypeOK, world, Incarnations
  <2>3. MutexOK'
    BY <1>0, <2>1 DEF MutexOK, InGetProxy
  <2>4. HistoryOK'
    BY <1>0, <2>1 DEF HistoryOK, world
  <2>5. ProxyIsWatched'
    BY <1>0, <2>1, WatchedByThread DEF Guarded, world
  <2> QED BY <2>2, <2>3, <2>4, <2>5
<1>3. CASE GetProxyLocks(t)
  <2>1. /\ pc[t] = "lock" /\ mutexProxy_ = 0 /\ proxy_ = 0
        /\ mutexProxy_' = t /\ pc' = [pc EXCEPT ![t] = "check"]
        /\ UNCHANGED <<proxy_, obj, world>>
    BY <1>3 DEF GetProxyLocks, Goto
  <2>2. TypeOK'
    BY <1>0, <2>1 DEF TypeOK, world, Incarnations
  <2>3. MutexOK'
    BY <1>0, <2>1 DEF MutexOK, InGetProxy
  <2>4. HistoryOK'
    BY <2>1 DEF HistoryOK, world
  <2>5. ProxyIsWatched'
    BY <1>0, <2>1, WatchedByThread DEF Guarded, world
  <2> QED BY <2>2, <2>3, <2>4, <2>5
<1>4. CASE pc[t] \in {"check", "watch"} /\ Fails(t)
  <2>1. /\ mutexProxy_' = 0 /\ pc' = [pc EXCEPT ![t] = "idle"]
        /\ UNCHANGED <<proxy_, obj, world>>
    BY <1>4 DEF Fails, Goto
  <2>2. TypeOK'
    BY <1>0, <2>1 DEF TypeOK, world, Incarnations
  <2>3. MutexOK'
    BY <1>0, <1>4, <2>1 DEF MutexOK, InGetProxy
  <2>4. HistoryOK'
    BY <2>1 DEF HistoryOK, world
  <2>5. ProxyIsWatched'
    BY <1>0, <2>1, WatchedByThread DEF Guarded, world
  <2> QED BY <2>2, <2>3, <2>4, <2>5
<1>5. CASE CheckSystemAbility(t) /\ ~Fails(t)
  <2>1. /\ pc[t] = "check" /\ sam # 0
        /\ obj' = [obj EXCEPT ![t] = sam] /\ pc' = [pc EXCEPT ![t] = "watch"]
        /\ UNCHANGED <<proxy_, mutexProxy_, world>>
    BY <1>5 DEF CheckSystemAbility, Goto
  <2>2. TypeOK'
    BY <1>0, <2>1 DEF TypeOK, world, Incarnations
  <2>3. MutexOK'
    BY <1>0, <2>1 DEF MutexOK, InGetProxy
  <2>4. HistoryOK'
    BY <1>0, <2>1 DEF HistoryOK, world
  <2>5. ProxyIsWatched'
    BY <1>0, <2>1, WatchedByThread DEF Guarded, world
  <2> QED BY <2>2, <2>3, <2>4, <2>5
<1>6. CASE AddDeathRecipient(t) /\ ~Fails(t)
  <2>1. /\ pc[t] = "watch" /\ obj[t] = service /\ watched' = watched \cup {service}
        /\ pc' = [pc EXCEPT ![t] = "set"]
        /\ UNCHANGED <<proxy_, mutexProxy_, obj, service, lives, sam, obituaries>>
    BY <1>6 DEF AddDeathRecipient, Goto
  <2>2. TypeOK'
    BY <1>0, <2>1 DEF TypeOK, Incarnations
  <2>3. MutexOK'
    BY <1>0, <2>1 DEF MutexOK, InGetProxy
  <2>4. HistoryOK'
    BY <2>1 DEF HistoryOK
  <2>5. ProxyIsWatched'
    BY <1>0, <2>1, WatchedByThread DEF Guarded
  <2> QED BY <2>2, <2>3, <2>4, <2>5
<1>7. CASE SetProxy(t)
  <2>1. /\ pc[t] = "set" /\ proxy_' = obj[t] /\ mutexProxy_' = 0
        /\ pc' = [pc EXCEPT ![t] = "request"] /\ UNCHANGED <<obj, world>>
    BY <1>7 DEF SetProxy, Goto
  <2>2. TypeOK'
    BY <1>0, <2>1 DEF TypeOK, world, Incarnations
  <2>3. MutexOK'
    BY <1>0, <2>1 DEF MutexOK, InGetProxy
  <2>4. HistoryOK'
    BY <1>0, <2>1 DEF HistoryOK, world
  <2>5. ProxyIsWatched'
    BY <1>0, <2>1, WatchedByThread DEF Guarded, world
  <2> QED BY <2>2, <2>3, <2>4, <2>5
<1> QED
  BY <1>1, <1>2, <1>3, <1>4, <1>5, <1>6, <1>7
  DEF GetProxyStep, CheckSystemAbility, AddDeathRecipient

\* The notice of a death finds mutexProxy_ free, so no thread is about to store
\* the proxy of the incarnation that died.
LEMMA DeathNoticeStep ==
    ASSUME IndInv, NEW i \in 1 .. MaxLives, OnRemoteDied(i)
    PROVE  IndInv'
<1> USE ClientAssumption DEF IndInv
<1>1. /\ i \in obituaries /\ mutexProxy_ = 0 /\ obituaries' = obituaries \ {i}
      /\ proxy_' = IF proxy_ = i THEN 0 ELSE proxy_
      /\ UNCHANGED <<mutexProxy_, pc, obj, service, lives, sam, watched>>
  BY DEF OnRemoteDied
<1>2. TypeOK'
  BY <1>1 DEF TypeOK, Incarnations
<1>3. MutexOK'
  BY <1>1 DEF MutexOK
<1>4. HistoryOK'
  BY <1>1 DEF HistoryOK, TypeOK, Incarnations
<1>5. \A t \in Threads : pc[t] # "set"
  BY <1>1 DEF MutexOK, InGetProxy
<1>6. ProxyIsWatched'
  BY <1>1, <1>5, WatchedByThread DEF Guarded
<1> QED BY <1>2, <1>3, <1>4, <1>6

\* A start, a death and the manager's forgetting preserve the inductive invariant:
\* a new incarnation has a number nobody has seen, and a watched one that dies
\* leaves a notice.
LEMMA ServiceStep ==
    ASSUME IndInv, Starts \/ Dies \/ SamForgets
    PROVE  IndInv'
<1> USE ClientAssumption DEF IndInv
<1>0. UNCHANGED <<proxy_, mutexProxy_, pc, obj>>
  BY DEF Starts, Dies, SamForgets
<1>1. MutexOK'
  BY <1>0 DEF MutexOK
<1>2. CASE Starts
  <2>1. TypeOK'
    BY <1>0, <1>2 DEF Starts, TypeOK, Incarnations
  <2>2. HistoryOK'
    BY <1>0, <1>2 DEF Starts, TypeOK, HistoryOK, Incarnations
  <2>3. ASSUME NEW i \in Incarnations, i <= lives, Guarded(i)
        PROVE  Guarded(i)'
    BY <1>2, <2>3 DEF Starts, TypeOK, HistoryOK, Guarded, Incarnations
  <2>4. Guarded(proxy_) => Guarded(proxy_)'
    BY <1>0, <2>3 DEF TypeOK, HistoryOK
  <2>5. ASSUME NEW t \in Threads, pc[t] = "set" PROVE Guarded(obj[t])'
    BY <1>0, <2>3, <2>5, WatchedByThread DEF TypeOK, HistoryOK
  <2>6. ProxyIsWatched'
    BY <1>0, <2>4, <2>5, WatchedByThread
  <2> QED BY <1>1, <2>1, <2>2, <2>6
<1>3. CASE Dies
  <2>1. TypeOK'
    BY <1>0, <1>3 DEF Dies, TypeOK, Incarnations
  <2>2. HistoryOK'
    BY <1>0, <1>3 DEF Dies, TypeOK, HistoryOK, Incarnations
  <2>3. ProxyIsWatched'
    BY <1>0, <1>3, WatchedByThread DEF Dies, Guarded
  <2> QED BY <1>1, <2>1, <2>2, <2>3
<1>4. CASE SamForgets
  <2>1. TypeOK'
    BY <1>0, <1>4 DEF SamForgets, TypeOK, Incarnations
  <2>2. HistoryOK'
    BY <1>0, <1>4 DEF SamForgets, TypeOK, HistoryOK, Incarnations
  <2>3. ProxyIsWatched'
    BY <1>0, <1>4, WatchedByThread DEF SamForgets, Guarded
  <2> QED BY <1>1, <2>1, <2>2, <2>3
<1> QED BY <1>2, <1>3, <1>4

\* Every step of the client, of the manager and of the service preserves it.
LEMMA IndInvStep == IndInv /\ [Next]_vars => IndInv'
<1> SUFFICES ASSUME IndInv, [Next]_vars PROVE IndInv'
  OBVIOUS
<1>1. CASE UNCHANGED vars
  BY <1>1 DEF IndInv, TypeOK, MutexOK, HistoryOK, ProxyIsWatched, Incarnations, vars
<1> QED
  BY <1>1, ThreadStep, DeathNoticeStep, ServiceStep DEF Next

-----------------------------------------------------------------------------
(* The theorems. *)

\* The invariant that makes the properties inductive holds of every run.
THEOREM Invariance == Spec => []IndInv
  BY InitStep, IndInvStep, PTL DEF Spec

\* A thread that goes on after GetProxy has a remote object, and the variables of
\* TelephonyObserverClient keep their types.
THEOREM TypeCorrect == Spec => []TypeOK
  BY Invariance, PTL DEF IndInv

\* However the threads, the restarts and the death notices interleave, the
\* incarnation that proxy_ talks to is watched, or its notice is still to come.
THEOREM DeathIsNoticed == Spec => []ProxyIsWatched
  BY Invariance, PTL DEF IndInv
===============================================================================
