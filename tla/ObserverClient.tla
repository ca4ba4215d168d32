---------------------------- MODULE ObserverClient ----------------------------
(***************************************************************************)
(* TelephonyObserverClient: how the threads of a client process share one  *)
(* proxy to the state registry service, and how they get rid of it when    *)
(* the service dies.  GetProxy holds mutexProxy_ while it asks the system  *)
(* ability manager for the service and watches it; the service may die     *)
(* between any two of these steps, and the notice of its death waits for   *)
(* the same mutex.  Each start of the service is a new incarnation, known  *)
(* by its number; 0 stands for the null pointer and for "not running".     *)
(***************************************************************************)
EXTENDS Naturals, FiniteSets

CONSTANTS
    Threads,    \* the threads of the client process
    MaxLives    \* bound on the incarnations of the service; the last one stays

ASSUME ClientAssumption ==
    /\ Threads # {} /\ 0 \notin Threads
    /\ MaxLives \in Nat \ {0}

VARIABLES
    proxy_,       \* TelephonyObserverClient::proxy_
    mutexProxy_,  \* the thread that holds mutexProxy_, or 0
    pc, obj,      \* of each thread: where it is, the remote object it has
    service,      \* the running incarnation
    lives,        \* the incarnations so far
    sam,          \* the incarnation the system ability manager hands out
    watched,      \* the incarnations with our death recipient
    obituaries    \* death notices on their way to OnRemoteDied

vars == <<proxy_, mutexProxy_, pc, obj, service, lives, sam, watched, obituaries>>

world == <<service, lives, sam, watched, obituaries>>

-----------------------------------------------------------------------------
(* AddStateObserver / RemoveStateObserver: GetProxy, then the request. *)

Goto(t, label) == pc' = [pc EXCEPT ![t] = label]

Begin(t) ==
    /\ pc[t] = "idle"
    /\ Goto(t, "lock")
    /\ UNCHANGED <<proxy_, mutexProxy_, obj, world>>

\* A proxy that is there is used.
GetProxyCached(t) ==
    /\ pc[t] = "lock"
    /\ mutexProxy_ = 0
    /\ proxy_ # 0
    /\ obj' = [obj EXCEPT ![t] = proxy_]
    /\ Goto(t, "request")
    /\ UNCHANGED <<proxy_, mutexProxy_, world>>

GetProxyLocks(t) ==
    /\ pc[t] = "lock"
    /\ mutexProxy_ = 0
    /\ proxy_ = 0
    /\ mutexProxy_' = t
    /\ Goto(t, "check")
    /\ UNCHANGED <<proxy_, obj, world>>

\* A null proxy is TELEPHONY_ERR_IPC_CONNECT_STUB_FAIL to the caller.
Fails(t) ==
    /\ mutexProxy_' = 0
    /\ Goto(t, "idle")
    /\ UNCHANGED <<proxy_, obj, world>>

CheckSystemAbility_NoNullCheck(t) ==
    /\ pc[t] = "check"
    /\ obj' = [obj EXCEPT ![t] = sam]
    /\ Goto(t, "watch")
    /\ UNCHANGED <<proxy_, mutexProxy_, world>>
CheckSystemAbility(t) ==
    /\ pc[t] = "check"
    /\ \/ sam = 0 /\ Fails(t)
       \/ /\ sam # 0
          /\ obj' = [obj EXCEPT ![t] = sam]
          /\ Goto(t, "watch")
          /\ UNCHANGED <<proxy_, mutexProxy_, world>>

\* A dead object accepts no death recipient.
AddDeathRecipient_Unchecked(t) ==
    /\ pc[t] = "watch"
    /\ watched' = IF obj[t] = service THEN watched \cup {obj[t]} ELSE watched
    /\ Goto(t, "set")
    /\ UNCHANGED <<proxy_, mutexProxy_, obj, service, lives, sam, obituaries>>
AddDeathRecipient(t) ==
    /\ pc[t] = "watch"
    /\ \/ obj[t] # service /\ Fails(t)
       \/ /\ obj[t] = service
          /\ watched' = watched \cup {obj[t]}
          /\ Goto(t, "set")
          /\ UNCHANGED <<proxy_, mutexProxy_, obj, service, lives, sam, obituaries>>

SetProxy(t) ==
    /\ pc[t] = "set"
    /\ proxy_' = obj[t]
    /\ mutexProxy_' = 0
    /\ Goto(t, "request")
    /\ UNCHANGED <<obj, world>>

\* The request goes to the incarnation the proxy was made for, without the
\* mutex; it fails when that one is gone.
Request(t) ==
    /\ pc[t] = "request"
    /\ Goto(t, "idle")
    /\ UNCHANGED <<proxy_, mutexProxy_, obj, world>>

-----------------------------------------------------------------------------
(* OnRemoteDied, on a binder thread. *)

\* Only the proxy of the object that died is dropped.
OnRemoteDied_KeepsProxy(i) ==
    /\ i \in obituaries
    /\ mutexProxy_ = 0
    /\ obituaries' = obituaries \ {i}
    /\ UNCHANGED <<proxy_, mutexProxy_, pc, obj, service, lives, sam, watched>>
OnRemoteDied(i) ==
    /\ i \in obituaries
    /\ mutexProxy_ = 0
    /\ obituaries' = obituaries \ {i}
    /\ proxy_' = IF proxy_ = i THEN 0 ELSE proxy_
    /\ UNCHANGED <<mutexProxy_, pc, obj, service, lives, sam, watched>>

-----------------------------------------------------------------------------
(* The service process and the system ability manager. *)

Starts ==
    /\ service = 0
    /\ lives < MaxLives
    /\ lives' = lives + 1
    /\ service' = lives + 1
    /\ sam' = lives + 1
    /\ UNCHANGED <<proxy_, mutexProxy_, pc, obj, watched, obituaries>>

\* Those who watched the process are told.
Dies ==
    /\ service # 0
    /\ service < MaxLives
    /\ service' = 0
    /\ obituaries' = obituaries \cup (watched \cap {service})
    /\ watched' = watched \ {service}
    /\ UNCHANGED <<proxy_, mutexProxy_, pc, obj, lives, sam>>

\* The manager is told of the death too, at a time of its own.
SamForgets ==
    /\ sam # 0 /\ sam # service
    /\ sam' = 0
    /\ UNCHANGED <<proxy_, mutexProxy_, pc, obj, service, lives, watched, obituaries>>

-----------------------------------------------------------------------------

Init ==
    /\ proxy_ = 0 /\ mutexProxy_ = 0
    /\ pc = [t \in Threads |-> "idle"]
    /\ obj = [t \in Threads |-> 0]
    /\ service = 0 /\ lives = 0 /\ sam = 0
    /\ watched = {} /\ obituaries = {}

GetProxyStep(t) ==
    \/ GetProxyCached(t) \/ GetProxyLocks(t) \/ CheckSystemAbility(t)
    \/ AddDeathRecipient(t) \/ SetProxy(t)

Next ==
    \/ \E t \in Threads : Begin(t) \/ GetProxyStep(t) \/ Request(t)
    \/ \E i \in 1 .. MaxLives : OnRemoteDied(i)
    \/ Starts \/ Dies \/ SamForgets

Spec == Init /\ [][Next]_vars

\* Client threads run and get the mutex in the end; binder delivers death
\* notices; a service that died is started again.
FairSpec ==
    /\ Spec
    /\ \A t \in Threads : SF_vars(GetProxyStep(t)) /\ WF_vars(Request(t))
    /\ \A i \in 1 .. MaxLives : SF_vars(OnRemoteDied(i))
    /\ WF_vars(Starts)

-----------------------------------------------------------------------------
(* Properties. *)

Incarnations == 0 .. MaxLives

\* The variables have the types of the members they stand for, and a thread
\* that goes on to use a remote object has one.
TypeOK ==
    /\ proxy_ \in Incarnations
    /\ mutexProxy_ \in Threads \cup {0}
    /\ pc \in [Threads -> {"idle", "lock", "check", "watch", "set", "request"}]
    /\ obj \in [Threads -> Incarnations]
    /\ \A t \in Threads : pc[t] \in {"watch", "set", "request"} => obj[t] # 0
    /\ service \in Incarnations /\ lives \in Incarnations /\ sam \in Incarnations
    /\ watched \subseteq 1 .. MaxLives /\ obituaries \subseteq 1 .. MaxLives

\* The client always learns that its proxy is dead: the incarnation proxy_ talks
\* to, or the one a thread is about to store in it, is watched while it lives,
\* and when it has died its notice is still to come.
ProxyIsWatched ==
    \A i \in ({proxy_} \cup {obj[t] : t \in {u \in Threads : pc[u] = "set"}}) \ {0} :
        IF i = service THEN i \in watched ELSE i \in obituaries

\* A restart does not cut the client off: once the service stays up, the requests
\* of all threads reach the running incarnation from some point on, though the
\* first ones may still have gone to a dead one.
RequestsReach ==
    (service = MaxLives) ~> [](\A t \in Threads : pc[t] = "request" => obj[t] = service)
===============================================================================
