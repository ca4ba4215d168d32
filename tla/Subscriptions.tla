---------------------------- MODULE Subscriptions ----------------------------
(***************************************************************************)
(* What the service promises its observers, without threads, a lock, loops *)
(* or a vector: a state per topic, a set of subscriptions, and callbacks   *)
(* that each happen at one moment and tell the state of that moment.       *)
(*                                                                         *)
(* A topic is a mask bit and a slot.  StateRegistryRefinement shows that   *)
(* StateRegistry, whose UpdateXxx writes the state, lets the lock go and   *)
(* calls back later, one record at a time, implements this.                *)
(***************************************************************************)
EXTENDS TelephonyTypes

CONSTANTS
    Observers, NullObserver,
    Bits, Slots,
    Stateless,      \* bits of events the service does not remember
    Shared,         \* topics more than one producer reports
    Withheld,       \* bits whose callbacks need a permission of the subscriber
    NotTold         \* the observer has been told nothing yet

VARIABLES
    subs,           \* the subscriptions: [client, slot, mask, observer]
    state,          \* state[bit][slot]: [val, num]
    told            \* told[observer][bit][slot]: the last callback, or NotTold

vars == <<subs, state, told>>

\* A client has at most one subscription for a slot and mask.
SameSubscription(s, t) == s.client = t.client /\ s.slot = t.slot /\ s.mask = t.mask

\* An observer of the data connection may ask for all slots at once.
Covers(s, bit, k) ==
    k = s.slot \/ (s.slot = SIM_SLOT_ID_FOR_DEFAULT_CONN_EVENT /\ bit \in DataBits)

\* A callback tells the state now, with the number that belongs to it or with
\* none; an unknown call may be shown as idle where calls are continued on
\* another device.  An event that is not remembered, or comes from producers
\* that race, may carry anything.
Tells(bit, k, t) ==
    \/ bit \in Stateless \/ <<bit, k>> \in Shared
    \/ /\ t.num \in {NoNumber, state[bit][k].num}
       /\ \/ t.val = state[bit][k].val
          \/ /\ bit = "CCALL_STATE"
             /\ state[bit][k].val = CALL_STATUS_UNKNOWN /\ t.val = CALL_STATUS_IDLE

\* Exactly the observer of s is told, of the topics in these bits and slots.
OnlyTold(s, bits, slots) ==
    LET o == s.observer
    IN /\ o # NullObserver
       /\ \A bit \in bits, k \in slots :
             told'[o][bit][k] # NotTold /\ Tells(bit, k, told'[o][bit][k])
       /\ told' = [told EXCEPT ![o] =
                      [bit \in Bits |-> [k \in Slots |->
                          IF bit \in bits /\ k \in slots THEN told'[o][bit][k] ELSE @[bit][k]]]]

-----------------------------------------------------------------------------

Init ==
    /\ subs = {}
    /\ told = [o \in Observers |-> [bit \in Bits |-> [k \in Slots |-> NotTold]]]

\* Producers report whatever they like; nobody is told yet.
Publish == UNCHANGED <<subs, told>>

\* A new subscription, or the one the client already has, which stays as it
\* is; told of all its topics at once if the client asked for that.
Replayed(s) ==
    \/ UNCHANGED told
    \/ \E bits \in {s.mask \ barred : barred \in SUBSET Withheld} : OnlyTold(s, bits, {s.slot})

Subscribe ==
    /\ \/ \E s \in subs' \ subs : /\ subs' = subs \cup {s}
                                  /\ \A t \in subs : ~SameSubscription(s, t)
                                  /\ Replayed(s)
       \/ subs' = subs /\ \E s \in subs : Replayed(s)
    /\ UNCHANGED state

\* What the subscription was told is forgotten with it.
Unsubscribe(s) ==
    /\ subs' = subs \ {s}
    /\ told' = [told EXCEPT ![s.observer] =
                   [bit \in Bits |-> [k \in Slots |->
                       IF bit \in s.mask /\ Covers(s, bit, k) THEN NotTold ELSE @[bit][k]]]]
    /\ UNCHANGED state

\* One callback, to a subscription that is still there.
Notify(s, bit, k) ==
    /\ bit \in s.mask
    /\ Covers(s, bit, k) \/ bit \in Stateless
    /\ OnlyTold(s, {bit}, {k})
    /\ UNCHANGED <<subs, state>>

Next ==
    \/ Publish
    \/ \E s \in subs, bit \in Bits, k \in Slots : Notify(s, bit, k)
    \/ Subscribe
    \/ \E s \in subs : Unsubscribe(s)

Spec == Init /\ [][Next]_vars
==============================================================================
