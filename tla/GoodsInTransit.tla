---------------------------- MODULE GoodsInTransit ----------------------------
(***************************************************************************)
(* What a stock transfer promises the two locations, whoever calls what:   *)
(* a parcel of goods leaves one shelf, once; on the road its ends and what *)
(* was sent are fixed; and it ends once, either back on the shelf it left  *)
(* or, with a recorded difference, on the other.  No shelf is touched by   *)
(* anything else.                                                          *)
(*                                                                         *)
(* StockTransfer implements it: the statuses, the lines while they may     *)
(* still change, the people and their capabilities are all detail here.    *)
(***************************************************************************)
EXTENDS Integers

CONSTANTS
    Parcels,     \* one per transfer
    Places,      \* branches and warehouses
    Goods,       \* ingredients
    Stocked,     \* Stocked[l][i]: what is on the shelves before any parcel
    Sendable     \* what a parcel may hold: thousandths per item

VARIABLES
    shelf,       \* shelf[l][i]: thousandths of i at l
    road         \* road[t]: waiting, on the road with what it holds, or ended

goodsVars == <<shelf, road>>

Waiting == [at |-> "waiting"]
OnRoad(from, to, sent) == [at |-> "road", from |-> from, to |-> to, sent |-> sent]

(* Where a parcel ended, and by how much what landed differs from what was *)
(* sent (nothing lands of one that came back).                             *)
Ended(place, difference) == [at |-> "ended", place |-> place, difference |-> difference]

None == [i \in Goods |-> 0]

GoodsInit == shelf = Stocked /\ road = [t \in Parcels |-> Waiting]

Leave(t, from, to, sent) ==
    /\ road[t] = Waiting /\ from # to
    /\ road' = [road EXCEPT ![t] = OnRoad(from, to, sent)]
    /\ shelf' = [shelf EXCEPT ![from] = [i \in Goods |-> @[i] - sent[i]]]

(* What lands is what was sent and the difference recorded with it.        *)
Land(t) ==
    LET parcel == road[t]
        difference == road'[t].difference
    IN  /\ parcel.at = "road" /\ road'[t].at = "ended"
        /\ road' = [road EXCEPT ![t] = Ended(parcel.to, difference)]
        /\ \A i \in Goods : parcel.sent[i] + difference[i] >= 0
        /\ shelf' = [shelf EXCEPT ![parcel.to] =
                         [i \in Goods |-> @[i] + parcel.sent[i] + difference[i]]]

ComeBack(t) ==
    LET parcel == road[t]
    IN  /\ parcel.at = "road"
        /\ road' = [road EXCEPT ![t] = Ended(parcel.from, None)]
        /\ shelf' = [shelf EXCEPT ![parcel.from] =
                         [i \in Goods |-> @[i] + parcel.sent[i]]]

GoodsNext ==
    \E t \in Parcels :
        \/ \E from, to \in Places, sent \in Sendable : Leave(t, from, to, sent)
        \/ Land(t)
        \/ ComeBack(t)

GoodsSpec == GoodsInit /\ [][GoodsNext]_goodsVars
==============================================================================
