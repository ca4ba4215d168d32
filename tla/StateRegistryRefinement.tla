----------------------- MODULE StateRegistryRefinement -----------------------
(***************************************************************************)
(* StateRegistry implements Subscriptions.  The vector is the set of its   *)
(* records, the maps are the state, a missing key counting as the 0 that   *)
(* operator[] inserts for it; locks, program counters and loop indexes     *)
(* have no counterpart.                                                    *)
(***************************************************************************)
EXTENDS StateRegistry

Subscription(r) ==
    [client |-> <<r.tokenId_, r.pid_>>, slot |-> r.slotId_, mask |-> r.mask_,
     observer |-> r.telephonyObserver_]

StatelessBits == {bit \in Masks : StateMap(bit) = "none"}

\* The topics that more than one producer reports.
SharedTopics ==
    {t \in (Masks \ StatelessBits) \X RecordSlot : ~OneProducer(StateMap(t[1]), t[2])}

Subscribed == {Subscription(r) : r \in ToSet(stateRecords_)}

TopicState ==
    [bit \in Masks |-> [k \in RecordSlot |->
        IF bit \in StatelessBits THEN [val |-> Null, num |-> NoNumber]
        ELSE [val |-> Value(StateMap(bit), k), num |-> Value("callIncomingNumber_", k)]]]

Promise == INSTANCE Subscriptions WITH
    Bits <- Masks,
    Slots <- RecordSlot,
    Stateless <- StatelessBits,
    Shared <- SharedTopics,
    Withheld <- {"CCALL_STATE", "VOIP_CALL_STATE"},
    NotTold <- Absent,
    subs <- Subscribed,
    state <- TopicState,
    told <- told

\* The service keeps the promise: though UpdateXxx gives lock_ up between the
\* write and the callbacks, every callback, replayed or not, happens as if at
\* one moment, to a registration that exists at that moment, with the state of
\* that moment and the number that belongs to it; a registration is found
\* again by slot, mask, token and process, and its end makes it forgotten.
ImplementsSubscriptions == Promise!Spec
==============================================================================
