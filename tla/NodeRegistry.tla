---------------------------- MODULE NodeRegistry ----------------------------
(***************************************************************************)
(* What node discovery promises: a durable set of nodes that only grows,   *)
(* and at most one announcement per node in the whole life of the          *)
(* database, never before the node is recorded.                            *)
(***************************************************************************)
EXTENDS Naturals

CONSTANT Guid

VARIABLES recorded, announced

vars == <<recorded, announced>>

Init ==
    /\ recorded = {}
    /\ announced = [g \in Guid |-> 0]

Record(g) ==
    /\ g \notin recorded
    /\ recorded' = recorded \cup {g}
    /\ UNCHANGED announced

Announce(g) ==
    /\ g \in recorded /\ announced[g] = 0
    /\ announced' = [announced EXCEPT ![g] = 1]
    /\ UNCHANGED recorded

Next == \E g \in Guid : Record(g) \/ Announce(g)

Spec == Init /\ [][Next]_vars
=============================================================================
