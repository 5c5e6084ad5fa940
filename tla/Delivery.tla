------------------------------- MODULE Delivery -------------------------------
(***************************************************************************)
(* What a queue promises its producers and consumers: an item that was     *)
(* accepted is pending until it is handed to a consumer or discarded, and  *)
(* each of these happens once.  Nothing is said about order or threads.    *)
(***************************************************************************)
CONSTANT Item

VARIABLES pending, delivered, discarded

vars == <<pending, delivered, discarded>>

Init == pending = {} /\ delivered = {} /\ discarded = {}

Accept(S) ==
    /\ S \cap (pending \cup delivered \cup discarded) = {}
    /\ pending' = pending \cup S
    /\ UNCHANGED <<delivered, discarded>>

Deliver(S) ==
    /\ S \subseteq pending
    /\ pending' = pending \ S
    /\ delivered' = delivered \cup S
    /\ UNCHANGED discarded

Discard(S) ==
    /\ S \subseteq pending
    /\ pending' = pending \ S
    /\ discarded' = discarded \cup S
    /\ UNCHANGED delivered

Next == \E S \in SUBSET Item : Accept(S) \/ Deliver(S) \/ Discard(S)

Spec == Init /\ [][Next]_vars
=============================================================================
