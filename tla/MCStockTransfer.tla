--------------------------- MODULE MCStockTransfer ---------------------------
(* A warehouse and a branch, their two managers and an owner.              *)
EXTENDS StockTransfer, TLC

CONSTANTS w, b, wm, bm, owner

MCLocations == {w, b}
MCPersons == {wm, bm, owner}
MCWorksAt == (wm :> {w}) @@ (bm :> {b}) @@ (owner :> {w, b})
MCCapsOf == (wm :> {"create", "edit"}) @@ (bm :> {"create", "edit"})
                @@ (owner :> Caps)
MCOpening == [l \in {w, b} |-> [i \in Items |-> 3]]
=============================================================================
