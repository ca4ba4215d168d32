-------------------------------- MODULE Lists --------------------------------
(***************************************************************************)
(* What the loops over listener lists compute: each front end walks its    *)
(* list once, from the front, and keeps some of the listeners in order.    *)
(***************************************************************************)
EXTENDS Naturals, Sequences

\* KeptUpTo(list, S)[n]: those of the first n elements that are in S, in order.
KeptUpTo(list, S) ==
    LET kept[n \in 0 .. Len(list)] ==
            IF n = 0 THEN <<>>
            ELSE IF list[n] \in S THEN Append(kept[n - 1], list[n]) ELSE kept[n - 1]
    IN kept

Kept(list, S) == KeptUpTo(list, S)[Len(list)]
==============================================================================
