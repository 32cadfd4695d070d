---------------------------- MODULE MCLoyaltySync ----------------------------
(* Two tills, three sales of up to two units, a reward of two points that  *)
(* may become three, five points to start with: two tills can spend the    *)
(* same points, and a queued sale can meet another price.                  *)
(* On the board: two lines and two asks over one- and two-track            *)
(* programmes: priced, unpriced and unlisted items, a staff drink, a combo *)
(* line, a line without an item, and balances that cover none, one or      *)
(* several units.                                                          *)
EXTENDS LoyaltySync

Line(item, quantity, staff, combo) ==
    [item |-> item, quantity |-> quantity, staff |-> staff, combo |-> combo]

MCLineKinds ==
    { Line("latte", 1, FALSE, FALSE), Line("latte", 3, FALSE, FALSE),
      Line("cake", 2, FALSE, FALSE), Line("water", 1, FALSE, FALSE),
      Line("latte", 1, TRUE, FALSE), Line("latte", 1, FALSE, TRUE),
      Line(None, 1, FALSE, FALSE) }

Ask(line, units, track) == [line |-> line, units |-> units, track |-> track]

MCAskKinds ==
    { Ask(None, 1, 1), Ask(1, None, None), Ask(1, 2, 1), Ask(2, 1, 2), Ask(2, 3, 1),
      Ask(1, 0, 1), Ask(1, 3, 2), Ask(2, 1, 1), Ask(3, 1, 1) }

Track(rewards, anyItem, points) ==
    [rewards |-> rewards, anyItem |-> anyItem, anyItemCost |-> 2, balance |-> points]

Latte(points) == [item |-> "latte", cost |-> points]
Cake(points) == [item |-> "cake", cost |-> points]

MCOffers ==
    LET one(bal) == Track(<<Latte(2), Cake(3), Latte(1)>>, FALSE, bal)
        free(bal) == Track(<<Cake(0)>>, TRUE, bal)
        two(bal) == Track(<<Cake(2), Latte(2)>>, FALSE, bal)
    IN  { [tracks |-> t, cap |-> c] :
              t \in { 1 :> one(5), 1 :> one(-1), 1 :> free(4), 2 :> two(4),
                      (1 :> one(7) @@ 2 :> two(4)), (1 :> one(2) @@ 2 :> two(2)) },
              c \in {None, 0, 2} }

MCGifts ==
    { [rewardItems |-> {"cake"}, anyItem |-> any, open |-> open] :
          any \in BOOLEAN, open \in BOOLEAN }

Symmetry == Permutations(Sales) \union Permutations(Tills)
=============================================================================
