-------------------------------- MODULE MCSale --------------------------------
(* A latte of two sizes with swaps, an extra and a choice two groups list; *)
(* a cake and a cheap water; a combo of a drink and one or two bites.      *)
EXTENDS Sale

Swap(id, price, slug, category, ingredient) ==
    [id |-> id, kind |-> "extra", price |-> price, group |-> "milks", effect |-> "swaps",
     category |-> category, slug |-> slug, replaces |-> None, ingredients |-> <<ingredient>>,
     sized |-> <<>>]

Legacy(id, kind, ingredient) ==
    [id |-> id, kind |-> kind, price |-> 0, group |-> None, effect |-> None, category |-> None,
     slug |-> None, replaces |-> None, ingredients |-> <<ingredient>>,
     sized |-> <<[size |-> "L", ingredient |-> ingredient]>>]

Addition(id) ==
    [id |-> id, kind |-> "extra", price |-> 0, group |-> None, effect |-> "adds", category |-> None,
     slug |-> None, replaces |-> None, ingredients |-> <<>>, sized |-> <<>>]

MCOptions == << Swap("whole", 0, "milk", "dairy", "milk"), Swap("oat", 0, "milk", "dairy", "oats"),
                Legacy("house", "coffee_type", "beans"), Legacy("decaf", "coffee_type", "mild"),
                Addition("syrup"), Addition("biscuit") >>

MCAddOnPrices == [whole |-> {20, 35}, oat |-> {60}, house |-> {0}, decaf |-> {15},
                  syrup |-> {30}, biscuit |-> {8}]

Size(label, price) == [label |-> label, price |-> price, active |-> TRUE, branchPrice |-> None]

Item(id, sizes) ==
    [id |-> id, branchPrice |-> None, recipeSize |-> None, sizes |-> sizes, recipe |-> <<>>,
     bases |-> <<>>, optionals |-> <<>>, groups |-> <<>>]

Base(option, kind, category, group) ==
    [option |-> option, kind |-> kind, price |-> 0, group |-> group, category |-> category]

Group(id, options, included) ==
    [id |-> id, min |-> 1, required |-> TRUE, effect |-> "adds", legacy |-> None,
     included |-> included, options |-> options]

Given(id, price, default) ==
    [id |-> id, price |-> price, branchPrice |-> None, default |-> default, active |-> TRUE]

Latte(small) ==
    [Item("latte", <<Size("S", small), Size("L", 157)>>) EXCEPT
        !.recipe = <<[size |-> "S", category |-> "milk", ingredient |-> "milk"],
                     [size |-> "L", category |-> "milk", ingredient |-> "milk"],
                     [size |-> "S", category |-> "coffee_bean", ingredient |-> "beans"],
                     [size |-> "L", category |-> "coffee_bean", ingredient |-> "beans"]>>,
        !.bases = [milk |-> <<Base("whole", "extra", "dairy", "milks")>>,
                   beans |-> <<Base("house", "coffee_type", None, None)>>],
        !.optionals = <<[id |-> "big cup", size |-> "L", price |-> 3]>>,
        !.groups = << Group("side", <<Given("biscuit", 7, TRUE), Given("syrup", 30, FALSE)>>, None),
                      Group("more", <<Given("syrup", 30, FALSE), Given("biscuit", 7, FALSE)>>, {"biscuit"}) >>]

Cake == Item("cake", <<Size("S", 51), Size("L", 90)>>)
Water == [Item("water", <<Size("one_size", 4)>>) EXCEPT !.branchPrice = 3]

Menu(latte) == [latte |-> latte, cake |-> Cake, water |-> Water]
MCCatalogues == << Menu(Latte(105)), Menu([Latte(117) EXCEPT !.sizes[2].branchPrice = 150]) >>

MCNameOrder == <<"beans", "milk", "mild", "oats">>

-----------------------------------------------------------------------------
Choice(item, category, surcharge, included, sizes) ==
    [item |-> item, category |-> category, surcharge |-> surcharge, included |-> included,
     sizes |-> sizes]

MCCombo ==
    [price |-> 179, active |-> TRUE, windows |-> {},
     slots |-> << [id |-> "drink", sort |-> 2, min |-> 1, max |-> 1,
                   choices |-> <<Choice("latte", None, 13, "S", [L |-> 45])>>],
                  [id |-> "bite", sort |-> 1, min |-> 1, max |-> 2,
                   choices |-> <<Choice(None, "food", 2, None, <<>>)>>] >>]

(* Combos sell at the till because this branch says so.                    *)
MCShop ==
    [sell |-> [c \in Channels |-> c # "pos"],
     branchSell |-> [c \in Channels |-> IF c = "pos" THEN TRUE ELSE None],
     at |-> [branchEnabled |-> TRUE, channel |-> "pos", branch |-> "main", now |-> None]]

Pick(slot, item, category, label, options, quantity) ==
    [slot |-> slot, item |-> item, category |-> category, quantity |-> quantity,
     selection |-> [size |-> label, options |-> options, optionals |-> <<>>]]

One1(id) == [id |-> id, quantity |-> 1]
Times(id, n) == [id |-> id, quantity |-> n]

Line(item, label, options, quantity) ==
    [kind |-> "item", item |-> item, quantity |-> quantity, reward |-> 0, staff |-> FALSE,
     selection |-> [size |-> label, options |-> options, optionals |-> <<"big cup">>]]

ComboLine(picks, quantity) ==
    [kind |-> "combo", picks |-> picks, quantity |-> quantity, reward |-> 0, staff |-> FALSE]

MCSellable ==
    { Line("latte", "S", <<Times("oat", 2)>>, 2),
      Line("latte", "L", <<One1("oat"), One1("syrup"), One1("decaf"), One1("whole")>>, 1),
      Line("latte", None, <<One1("decaf"), Times("syrup", 2), One1("house"), One1("oat")>>, 1),
      [Line("latte", "S", <<One1("biscuit"), One1("whole")>>, 2) EXCEPT !.staff = TRUE, !.reward = 1],
      [Line("latte", "L", <<One1("syrup"), One1("biscuit"), One1("oat")>>, 2) EXCEPT !.staff = TRUE],
      Line("water", None, <<>>, 1),
      [Line("cake", "L", <<>>, 3) EXCEPT !.reward = 2],
      ComboLine(<<Pick("drink", "latte", "hot", "L", <<One1("oat")>>, 1),
                  Pick("bite", "cake", "food", None, <<>>, 2)>>, 2),
      ComboLine(<<Pick("bite", "cake", "food", "L", <<>>, 1),
                  Pick("drink", "latte", "hot", "S", <<One1("syrup")>>, 1)>>, 1) }

-----------------------------------------------------------------------------
MCOrders == { NoOrder }

Policy0(tax, inclusive, service, taxable) ==
    [taxRate |-> tax, inclusive |-> inclusive, serviceRate |-> service, serviceTaxable |-> taxable]

Term(policy, channel, waived) == [policy |-> policy, channel |-> channel, waived |-> waived]

Exclusive == Term(Policy0(14000, FALSE, 12000, TRUE), "dine_in", FALSE)
Inclusive == Term(Policy0(14000, TRUE, 12500, FALSE), "dine_in", FALSE)
Heavy == Term(Policy0(50000, FALSE, 30000, FALSE), "dine_in", FALSE)

MCTerms == { Exclusive, Inclusive, Heavy,
             Term(Policy0(14000, TRUE, 12000, TRUE), "takeaway", FALSE),
             Term(Policy0(5000, FALSE, 12000, TRUE), "dine_in", TRUE) }

Preset(type, value) ==
    [kind |-> "preset", preset |-> [type |-> type, value |-> value], amount |-> None, bps |-> None]
Manual(kind, amount, bps) == [kind |-> kind, preset |-> None, amount |-> amount, bps |-> bps]

Half == Preset("percentage", 50000)

MCDiscounts == { None, Half, Preset("percentage", 12345), Preset("fixed", 30 * One),
                 Preset("fixed", 12 * One + One \div 2), Manual("manual_amount", 99, None),
                 Manual("manual_percent", None, 1500), Manual("manual_percent", None, 10000) }

(* The refunds followed: of a bill of 6 with 2 of tax and 1 of service, and *)
(* of smaller ones at half the price.                                      *)
MCFollowed == { <<Heavy, None>>, <<Heavy, Half>> }
===============================================================================
