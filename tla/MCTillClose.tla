----------------------------- MODULE MCTillClose -----------------------------
(* Sales over cash, a second cash method and card, one of them with a      *)
(* legacy leg that has the second cash method as no cash; a pay-in with    *)
(* its correction, written by key or by server id; a cash or a card        *)
(* refund.                                                                 *)
EXTENDS TillClose

MCRank == [m \in {"card", "cash", "naqd", " "} |->
              CASE m = " " -> 0 [] m = "card" -> 1 [] m = "cash" -> 2 [] m = "naqd" -> 3]

Leg(method, amount, cash) == [method |-> method, amount |-> amount, cash |-> cash]

Sale(legs, tip, tipMethod, tipIsCash, soldBy, teller) ==
    [key |-> None, status |-> "completed", paymentMethod |-> legs[1].method,
     legs |-> legs, tip |-> tip, tipMethod |-> tipMethod, tipIsCash |-> tipIsCash,
     soldBy |-> soldBy, teller |-> teller, unsent |-> TRUE]

Kind(sale, cashTaken) == [sale |-> sale, cashTaken |-> cashTaken]

MCSaleKinds ==
    { Kind(Sale(<<Leg("cash", 5, TRUE), Leg("naqd", 3, FALSE)>>, 1, None, None, None, "ali"), 6),
      Kind(Sale(<<Leg("naqd", 4, TRUE)>>, 2, "card", FALSE, "sara", "ali"), 4),
      Kind(Sale(<<Leg("card", 7, FALSE)>>, 1, "cash", None, None, None), 1) }

Move(key, id, kind, amount, corrects, reverses) ==
    [key |-> key, id |-> id, serverId |-> None, kind |-> kind, amount |-> amount,
     corrects |-> corrects, reverses |-> reverses]

MCMoveKinds ==
    { Move("m1", "id1", "pay_in", 2, None, None),
      Move("m2", "id2", "correction", -2, "m1", "pay_in"),
      Move("m2", "id2", "correction", -2, "id1", "pay_in") }

MCRefundKinds ==
    { [key |-> "r1", method |-> "cash", cash |-> TRUE, amount |-> 2],
      [key |-> "r1", method |-> "card", cash |-> FALSE, amount |-> 3] }

Input(method, status, declared, note) ==
    [method |-> method, status |-> status, declared |-> declared, note |-> note]

MCInputKinds ==
    { <<Input("card", "disagreed", None, None), Input("wallet", "checked", None, None)>>,
      <<Input("card", "disagreed", 3, "short"), Input("wallet", "odd", None, None)>> }

MCMethods ==
    { [name |-> "naqd", cash |-> TRUE, active |-> TRUE, createdAt |-> None],
      [name |-> "cash", cash |-> TRUE, active |-> FALSE, createdAt |-> 2],
      [name |-> "card", cash |-> FALSE, active |-> TRUE, createdAt |-> 1] }
=============================================================================
