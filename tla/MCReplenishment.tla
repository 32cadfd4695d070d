--------------------------- MODULE MCReplenishment ---------------------------
(* Two warehouses and two branches, one person who may do everything; one  *)
(* branch fills to a maximum, the other to its minimum.                    *)
EXTENDS Replenishment, TLC

CONSTANTS w1, w2, b1, b2, owner

MCLocations == {w1, w2, b1, b2}
MCWorksAt == owner :> MCLocations
MCCapsOf == owner :> Caps
MCWarehouses == {w1, w2}
MCOpening == [l \in MCLocations |-> [i \in Items |-> IF l = w1 THEN 2 ELSE 1]]
MCParMin == [l \in MCLocations |-> [i \in Items |-> 1]]
MCParMax == [l \in MCLocations |-> [i \in Items |-> IF l = b1 THEN 3 ELSE NoMax]]

Symmetry == Permutations(Transfers)
=============================================================================
