----------------------------- MODULE ObserverIpc -----------------------------
(***************************************************************************)
(* What a reported state goes through between two processes and back:      *)
(*                                                                         *)
(*   producer --> TelephonyStateRegistryStub::OnUpdateXxx --> service      *)
(*   service --> TelephonyObserverProxy::OnXxxUpdated --> binder           *)
(*   binder --> TelephonyObserver::OnXxxUpdatedInner --> the observer      *)
(*                                                                         *)
(* Both directions write a value into a parcel and read it back, with      *)
(* checks of their own on each side.  A parcel is the sequence of the words *)
(* written.  Lists of signals and of cells are read item by item: the type *)
(* first, and then, only if the reader knows the type, the item; a reader  *)
(* that does not know a type takes the next word for the next type.        *)
(* One slot and one registered observer; StateRegistry has the others.     *)
(***************************************************************************)
EXTENDS Integers, Sequences, SequencesExt

CONSTANTS
    SignalTypes, CellTypes,  \* the types the two switch statements know
    OtherTypes,              \* the types they do not
    Bodies,                  \* what an item holds besides its type
    MAX_SIGNAL_NUM, MAX_CELL_NUM,    \* SignalInformation::, CellInformation::
    SIGNAL_NUM_MAX, CELL_NUM_MAX,    \* TelephonyObserver::
    Scalars,                 \* call states, SIM states, indicators...
    VOIP_CALL_STATE_MAX,     \* VoIPCallState::DISCONNECTED
    MaxReports               \* bound

ASSUME IpcAssumption ==
    /\ SignalTypes \subseteq Nat /\ CellTypes \subseteq Nat /\ OtherTypes \subseteq Nat
    /\ 0 \notin SignalTypes \cup CellTypes
    /\ OtherTypes \cap (SignalTypes \cup CellTypes) = {}
    /\ Bodies \subseteq Nat
    /\ MAX_SIGNAL_NUM \in Nat /\ MAX_SIGNAL_NUM <= SIGNAL_NUM_MAX
    /\ MAX_CELL_NUM \in Nat /\ MAX_CELL_NUM <= CELL_NUM_MAX
    /\ SIGNAL_NUM_MAX \in Nat /\ CELL_NUM_MAX \in Nat
    /\ Scalars \subseteq Nat /\ 0 \in Scalars
    /\ VOIP_CALL_STATE_MAX \in Nat /\ MaxReports \in Nat

VARIABLES
    state,      \* state[k]: what the service holds; for VoIP, which it does not
                \* keep, what it was last handed
    mail,       \* one-way calls to the observer, in order
    heard,      \* heard[k]: what the observer's OnXxxUpdated was last called with
    reported,   \* history: what the producer last got accepted
    reports     \* counter, bounded

vars == <<state, mail, heard, reported, reports>>

-----------------------------------------------------------------------------
(* Parcels. *)

Kinds == {"signal", "cell", "network", "voip", "scalar"}
ListKinds == {"signal", "cell"}

\* ReadInt32 past the end of the parcel returns 0.
Word(parcel, i) == IF i <= Len(parcel) THEN parcel[i] ELSE 0

Known(k) == IF k = "signal" THEN SignalTypes ELSE CellTypes

Item(type, body) == [type |-> type, body |-> body]

\* Marshalling of an item writes its type before its fields.
Marshalled(list) ==
    [w \in 1 .. 2 * Len(list) |->
        LET item == list[(w + 1) \div 2] IN IF w % 2 = 1 THEN item.type ELSE item.body]

\* The loop of parseSignalInfos, OnUpdateCellInfo, ConvertSignalInfoList and
\* ConvertCellInfoList: size times a type, and the item if the type is known.
ParseUpTo(k, parcel, size) ==
    LET after[n \in 0 .. size] ==
            IF n = 0 THEN [pos |-> 1, list |-> <<>>]
            ELSE LET s == after[n - 1]
                     type == Word(parcel, s.pos)
                 IN IF type \in Known(k)
                    THEN [pos |-> s.pos + 2,
                          list |-> Append(s.list, Item(type, Word(parcel, s.pos + 1)))]
                    ELSE [s EXCEPT !.pos = @ + 1]
    IN after

Parse(k, parcel, size) == ParseUpTo(k, parcel, size)[size].list

-----------------------------------------------------------------------------
(* The stub. *)

Null == 0

\* More signals than allowed are read as none; cells are refused.
StubSize_OffByOne(k, size) ==
    IF k = "signal" THEN IF size >= MAX_SIGNAL_NUM THEN 0 ELSE size
    ELSE IF size >= MAX_CELL_NUM THEN 0 ELSE size
StubSize(k, size) ==
    IF k = "signal" THEN IF size > MAX_SIGNAL_NUM THEN 0 ELSE size
    ELSE IF size > MAX_CELL_NUM THEN 0 ELSE size

OnUpdateSignalInfoOk(size) == size >= 0
OnUpdateCellInfoOk(size) == size > 0

StubAccepts(k, v) ==
    CASE k = "signal"  -> OnUpdateSignalInfoOk(StubSize(k, Len(v)))
      [] k = "cell"    -> OnUpdateCellInfoOk(StubSize(k, Len(v)))
      [] k = "network" -> v # Null
      [] k = "voip"    -> v \in 0 .. VOIP_CALL_STATE_MAX
      [] k = "scalar"  -> TRUE

StubReads(k, v) ==
    IF k \in ListKinds THEN Parse(k, Marshalled(v), StubSize(k, Len(v))) ELSE v

-----------------------------------------------------------------------------
(* The observer's proxy, in the service, and the observer. *)

\* An empty cell list is not sent; a null network state is, without a body.
ProxySends_NotFull(k, v) ==
    CASE k = "signal" -> Len(v) < MAX_SIGNAL_NUM
      [] k = "cell"   -> Len(v) > 0 /\ Len(v) < MAX_CELL_NUM
      [] OTHER        -> TRUE
ProxySends(k, v) ==
    CASE k = "signal" -> Len(v) <= MAX_SIGNAL_NUM
      [] k = "cell"   -> Len(v) > 0 /\ Len(v) <= MAX_CELL_NUM
      [] OTHER        -> TRUE

Message(k, v) ==
    IF k \in ListKinds THEN [kind |-> k, size |-> Len(v), parcel |-> Marshalled(v)]
    ELSE [kind |-> k, size |-> 0, parcel |-> <<v>>]

Sent(k, v) == IF ProxySends(k, v) THEN Append(mail, Message(k, v)) ELSE mail

Clamp(k, size) ==
    LET max == IF k = "signal" THEN SIGNAL_NUM_MAX ELSE CELL_NUM_MAX
    IN IF size > max THEN max ELSE size

ObserverReads(m) ==
    IF m.kind \in ListKinds THEN Parse(m.kind, m.parcel, Clamp(m.kind, m.size)) ELSE m.parcel[1]

-----------------------------------------------------------------------------
(* Actions. *)

Items(k) == [type : Known(k) \cup OtherTypes, body : Bodies]

\* A VoIP state the stub refuses is one past the last enumerator.
Reports(k) ==
    CASE k = "signal"  -> SeqOf(Items(k), MAX_SIGNAL_NUM + 1)
      [] k = "cell"    -> SeqOf(Items(k), MAX_CELL_NUM + 1)
      [] k = "network" -> {Null, 1, 2}
      [] k = "voip"    -> {-1, 0, VOIP_CALL_STATE_MAX, VOIP_CALL_STATE_MAX + 1}
      [] k = "scalar"  -> Scalars

\* OnUpdateXxx: the service stores what the stub read and calls the observer.
Report(k, v) ==
    /\ reports < MaxReports
    /\ reports' = reports + 1
    /\ StubAccepts(k, v)
    /\ state' = [state EXCEPT ![k] = StubReads(k, v)]
    /\ mail' = Sent(k, StubReads(k, v))
    /\ reported' = [reported EXCEPT ![k] = v]
    /\ UNCHANGED heard

\* TELEPHONY_ERR_FAIL, TELEPHONY_ERR_ARGUMENT_INVALID: the service is not called.
ReportRefused(k, v) ==
    /\ reports < MaxReports
    /\ reports' = reports + 1
    /\ ~StubAccepts(k, v)
    /\ UNCHANGED <<state, mail, heard, reported>>

\* A registration that asks for the current state: it is sent again.  VoIP
\* states are not kept and not replayed.
Replay(k) ==
    /\ reports < MaxReports
    /\ reports' = reports + 1
    /\ k # "voip"
    /\ mail' = Sent(k, state[k])
    /\ UNCHANGED <<state, heard, reported>>

\* A network state that cannot be read is dropped.
Receive ==
    /\ mail # <<>>
    /\ mail' = Tail(mail)
    /\ LET m == Head(mail)
       IN heard' = IF m.kind = "network" /\ ObserverReads(m) = Null THEN heard
                   ELSE [heard EXCEPT ![m.kind] = ObserverReads(m)]
    /\ UNCHANGED <<state, reported, reports>>

Nothing == [k \in Kinds |-> IF k \in ListKinds THEN <<>> ELSE 0]

Init ==
    /\ state = Nothing /\ heard = Nothing /\ reported = Nothing
    /\ mail = <<>> /\ reports = 0

Next ==
    \/ \E k \in Kinds : \/ \E v \in Reports(k) : Report(k, v) \/ ReportRefused(k, v)
                        \/ Replay(k)
    \/ Receive

Spec == Init /\ [][Next]_vars

-----------------------------------------------------------------------------
(* Properties. *)

\* What no message can say: there is no call for an empty cell list and no
\* network state to be read from a null pointer.
Unsayable(k, v) == (k = "cell" /\ v = <<>>) \/ (k = "network" /\ v = Null)

\* When nothing is on the way the observer has last been told what the service
\* holds: the checks of the proxy and of the observer let through whatever the
\* stub let in, the longest list and the shortest included.
ObserverAgreesWithService ==
    mail = <<>> => \A k \in Kinds : Unsayable(k, state[k]) \/ heard[k] = state[k]

\* A list whose items both readers know, and that is not too long, arrives at the
\* observer item for item, through two parcels.
ListsArriveWhole ==
    mail = <<>> =>
        \A k \in ListKinds :
            (/\ \A i \in 1 .. Len(reported[k]) : reported[k][i].type \in Known(k)
             /\ Len(reported[k]) <= IF k = "signal" THEN MAX_SIGNAL_NUM ELSE MAX_CELL_NUM)
                => heard[k] = reported[k]
===============================================================================
