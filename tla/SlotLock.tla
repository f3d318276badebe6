------------------------------ MODULE SlotLock ------------------------------
(***************************************************************************)
(* What the browser pool promises: a Chrome slot is used by one login at a *)
(* time, from the start of its connection to the end of its cleanup, a     *)
(* login uses one slot at a time, and no slot passes from one login to     *)
(* another without having been free in between.                            *)
(***************************************************************************)
CONSTANTS Users, Slots, Nobody

VARIABLE owner

Init == owner = [s \in Slots |-> Nobody]

Take(u, s) ==
    /\ owner[s] = Nobody
    /\ \A t \in Slots : owner[t] # u
    /\ owner' = [owner EXCEPT ![s] = u]

Give(u, s) ==
    /\ owner[s] = u
    /\ owner' = [owner EXCEPT ![s] = Nobody]

Next == \E u \in Users, s \in Slots : Take(u, s) \/ Give(u, s)

Spec == Init /\ [][Next]_owner
=============================================================================
