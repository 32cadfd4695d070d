------------------------------- MODULE StockRoom -------------------------------
(***************************************************************************)
(* The stock room and the bar over it: units (madar-units), a drink's      *)
(* recipe with yields and what its extras follow (recipe.rs, follow.rs),   *)
(* what it costs (cost.rs), purchases and their deliveries (purchase.rs),  *)
(* waste (waste.rs) and counts (count.rs).                                 *)
(*                                                                         *)
(* Quantities are whole thousandths, as the database holds them, and every *)
(* product is exact and rounded where the code rounds it.  Of what binary  *)
(* floating point adds to that, only the rounding of a waste's worth is    *)
(* modelled (FloatRounded).                                                *)
(***************************************************************************)
EXTENDS Rounding, FiniteSetsExt

CONSTANTS
    Ingredients,
    Ordered,     \* the ingredient the store buys, wastes and counts
    Unit,        \* Unit[i]: the unit i is stocked in
    Density,     \* Density[i]: thousandths of a gram per millilitre, or None
    Category,    \* Category[i]: the family i is a choice of
    Cost,        \* Cost[i]: hundredths of a piastre per unit, or None
    Amounts,     \* what may be typed, in thousandths
    Units,       \* units that may be typed, a wrong one among them
    Yields,      \* percent of an ingredient that is usable, or None
    Factors,     \* <<num, den>>: a recipe copied to another size
    SwapPicks,   \* sequences of families a swap was picked of
    Price,       \* what the drink sells at, in piastres
    CostGrain,   \* parts of a piastre a unit cost keeps (8 decimals in the code)
    MaxQuantity, \* the most one waste may record
    Threshold,   \* thousandths of a percent a count may be off unexplained
    OrderAmounts,\* quantities ordered and received, in ten-thousandths
    Invoices,    \* whole piastres of a line or of a unit, or None
    MaxLines,    \* bound: lines of the recipe, and extras
    MaxSteps     \* bound: steps at the bar, and in the store

(* Why a quantity cannot be converted, and why a purchase has no cost.     *)
Reasons ==
    {"unknown", "incompatible", "needs_density", "not_bridged",
     "negative_line_cost", "negative_unit_cost", "quantity_not_positive", "no_cost"}

ASSUME RoomAssumption ==
    /\ None \notin Int \union Reasons
    /\ Ordered \in Ingredients
    /\ Density \in [Ingredients -> Int \union {None}] /\ Cost \in [Ingredients -> Nat \union {None}]
    /\ Amounts \subseteq Nat /\ Yields \subseteq Int \union {None}
    /\ Factors \subseteq Nat \X (Nat \ {0})
    /\ SwapPicks \subseteq Seq(STRING)
    /\ Price \in Int /\ CostGrain \in Nat \ {0} /\ Threshold \in Nat
    /\ OrderAmounts \subseteq Nat /\ Invoices \subseteq Int \union {None}

VARIABLES
    recipe,      \* the drink's own lines, with what the editor was shown
    extras,      \* the lines its additive options add
    yields,      \* yields[i]
    picks,       \* families a swap was picked of
    order,       \* the purchase line, or None
    received,    \* its deliveries
    shelf,       \* what the store believes it has of the ordered ingredient
    counts,      \* finalised counts
    wastes,      \* recorded wastes
    steps

barVars == <<recipe, extras, yields, picks>>
storeVars == <<order, received, shelf, counts>>
roomVars == <<barVars, storeVars, wastes, steps>>

-----------------------------------------------------------------------------
UnitSpec == [g   |-> [family |-> "mass", factor |-> 1], kg |-> [family |-> "mass", factor |-> 1000],
             ml  |-> [family |-> "volume", factor |-> 1], l |-> [family |-> "volume", factor |-> 1000],
             pcs |-> [family |-> "count", factor |-> 1]]

Failed(why) == [error |-> why, q |-> 0]
Quantity(num, den) == [error |-> None, q |-> RoundHalfAway(num, den)]

(* Within a family by the factors; across, an error.                       *)
Convert(q, from, to) ==
    IF {from, to} \subseteq DOMAIN UnitSpec
    THEN IF UnitSpec[from].family = UnitSpec[to].family
         THEN Quantity(q * UnitSpec[from].factor, UnitSpec[to].factor)
         ELSE Failed("incompatible")
    ELSE Failed("unknown")

(* Mass and volume also by a positive density; a count never bridges.      *)
ConvertWithDensity(q, from, to, density) ==
    LET f == UnitSpec[from]
        t == UnitSpec[to]
    IN  IF Convert(q, from, to).error # "incompatible" THEN Convert(q, from, to)
        ELSE IF density = None \/ density <= 0 THEN Failed("needs_density")
        ELSE IF <<f.family, t.family>> = <<"mass", "volume">>
        THEN Quantity(q * f.factor * 1000, density * t.factor)
        ELSE IF <<f.family, t.family>> = <<"volume", "mass">>
        THEN Quantity(q * f.factor * density, 1000 * t.factor)
        ELSE Failed("not_bridged")

(* The units a quantity stocked in `base` may be typed in.                 *)
UnitsOf(base) ==
    IF base \notin DOMAIN UnitSpec THEN {base}
    ELSE { u \in DOMAIN UnitSpec : UnitSpec[u].family = UnitSpec[base].family }

-----------------------------------------------------------------------------
YieldFactor(yield) == IF yield = None \/ yield <= 0 THEN 100 ELSE yield

(* What a recipe line stores, grossed up by its yield loss.                *)
RecipeBaseQty(q, unit, i, yield) ==
    LET base == ConvertWithDensity(q, unit, Unit[i], Density[i])
    IN  IF base.error # None THEN base ELSE Quantity(base.q * 100, YieldFactor(yield))

(* The usable amount of a stored quantity, for an editor to show.          *)
UsableQty(stored, yield) == RoundHalfAway(stored * YieldFactor(yield), 100)

ScaleQty(q, factor) == RoundHalfAway(q * factor[1], factor[2])

-----------------------------------------------------------------------------
(* The drink as resolved: its own lines, then the additive ones.           *)
DrinkLines ==
    [k \in DOMAIN recipe |-> [ingredient |-> recipe[k].ingredient, unit |-> Unit[recipe[k].ingredient],
                              quantity |-> recipe[k].stored, additive |-> FALSE]]
        \o [k \in DOMAIN extras |-> [ingredient |-> extras[k].ingredient, unit |-> extras[k].unit,
                                     quantity |-> extras[k].quantity, additive |-> TRUE]]

Always == <<"milk", "coffee_bean">>
AddFamily(done, family) == IF family \in ToSet(done) THEN done ELSE Append(done, family)
FamiliesOf(picked) == FoldLeft(AddFamily, Always, picked)

OwnLines(lines, family) ==
    { k \in DOMAIN lines : Category[lines[k].ingredient] = family /\ ~lines[k].additive }

(* Mutant: the last of the drink's lines of the family is its choice.      *)
ChoiceOfLast(lines, family) ==
    IF OwnLines(lines, family) = {} THEN 0 ELSE Max(OwnLines(lines, family))

(* The drink's choice of a family: its first line of it that is not an     *)
(* extra's; 0 when it has none.                                            *)
ChoiceOf(lines, family) ==
    IF OwnLines(lines, family) = {} THEN 0 ELSE Min(OwnLines(lines, family))

(* One extra told to follow a choice: it names it, its quantity in the     *)
(* choice's unit, or stays as it is where that cannot be converted.        *)
Follow(line, choice) ==
    LET q == Convert(line.quantity, line.unit, choice.unit)
    IN  IF q.error # None THEN line
        ELSE [line EXCEPT !.ingredient = choice.ingredient, !.unit = choice.unit, !.quantity = q.q]

Follows(line, family, choice) ==
    line.additive /\ Category[line.ingredient] = family /\ line.ingredient # choice.ingredient

(* One family of the pass: its extras name the drink's choice; `stuck` are *)
(* the lines reported as not convertible.                                  *)
FollowFamily(made, family) ==
    LET at == ChoiceOf(made.lines, family)
        choice == made.lines[at]
        asked == { k \in DOMAIN made.lines : Follows(made.lines[k], family, choice) }
    IN  IF at = 0 THEN made
        ELSE [lines |-> [k \in DOMAIN made.lines |->
                            IF k \in asked THEN Follow(made.lines[k], choice) ELSE made.lines[k]],
              stuck |-> made.stuck \union
                  { k \in asked : Convert(made.lines[k].quantity, made.lines[k].unit,
                                          choice.unit).error # None }]

FollowTheDrink(lines, families) == FoldLeft(FollowFamily, [lines |-> lines, stuck |-> {}], families)

-----------------------------------------------------------------------------
(* A line with its ingredient's cost: thousandths by hundredths.           *)
CostLines == [k \in DOMAIN recipe |-> [q |-> recipe[k].stored, cost |-> Cost[recipe[k].ingredient]]]

Known(lines) == { k \in DOMAIN lines : lines[k].cost # None }
ExactCost(lines) == SumFunctionOnSet([k \in Known(lines) |-> lines[k].q * lines[k].cost], Known(lines))

(* The known lines' exact sum, rounded once.                               *)
RecipeCost(lines) ==
    [piastres |-> RoundHalfAway(ExactCost(lines), 100000),
     complete |-> Known(lines) = DOMAIN lines]

(* The margin as a fraction of the price; None without a price.            *)
Margin(price, cost) == IF price <= 0 THEN None ELSE <<price - cost, price>>

FoodCostBand(cost, price) ==
    IF price <= 0 THEN None
    ELSE IF cost * 100 < 30 * price THEN "good"
    ELSE IF cost * 100 <= 40 * price THEN "fair" ELSE "poor"

(* What rounding a sum of binary products may give: a half may come out    *)
(* just below one (1.015 x 100, cost.rs:190-192), and nothing else differs.*)
FloatRounded(num, den) ==
    LET exact == RoundHalfAway(num, den)
    IN  {exact} \union (IF 2 * (num % den) = den THEN {exact - 1} ELSE {})

(* What a waste may be found worth: rounded once; None when no line has a  *)
(* cost.                                                                   *)
ValueOf(lines) ==
    LET values == IF Known(lines) = {} THEN {None} ELSE FloatRounded(ExactCost(lines), 100000)
    IN  IF \E k \in DOMAIN lines : lines[k].q < 0 \/ (lines[k].cost # None /\ lines[k].cost < 0)
        THEN {[bad |-> TRUE, value |-> None, partial |-> FALSE]}
        ELSE { [bad |-> FALSE, partial |-> Cardinality(Known(lines)) < Len(lines), value |-> v] :
                   v \in values }

(* Which wastes may be recorded: an ingredient of which something is left  *)
(* once converted, a menu item in whole pieces.                            *)
CheckQuantity(q) == q > 0 /\ q <= MaxQuantity
CheckConverted(q) == q > 0
CheckMenuItem(unit, q) == unit \in {None, "pcs"} /\ q % 1000 = 0

-----------------------------------------------------------------------------
(* A typed quantity in thousandths, as the column stores it.               *)
QuantityDec(typed) == RoundHalfAway(typed, 10)

RoundHalfEven(num, den) ==
    LET floor == num \div den
        up == 2 * (num % den) > den \/ (2 * (num % den) = den /\ floor % 2 = 1)
    IN  IF up THEN floor + 1 ELSE floor

PurchaseError(line, unit) ==
    IF line # None THEN IF line < 0 THEN "negative_line_cost" ELSE None
    ELSE IF unit # None THEN IF unit < 0 THEN "negative_unit_cost" ELSE None ELSE "no_cost"

(* A purchase line: the invoice total is the truth and gives the unit      *)
(* cost; only an older client's price per unit is multiplied out.          *)
LineCosts(typed, line, unit) ==
    LET q == QuantityDec(typed)
    IN  IF PurchaseError(line, unit) # None THEN [error |-> PurchaseError(line, unit)]
        ELSE IF line # None /\ q <= 0 THEN [error |-> "quantity_not_positive"]
        ELSE IF line # None
        THEN [error |-> None, quantity |-> q, line |-> line,
              unit |-> RoundHalfEven(line * 1000 * CostGrain, q)]
        ELSE [error |-> None, quantity |-> q, line |-> RoundHalfAway(unit * q, 1000),
              unit |-> unit * CostGrain]

(* Mutant: a delivery's part of the line is rounded to whole piastres.     *)
DeliveryCostRounded(q, line, unit) ==
    IF line # None THEN <<line, 1>>
    ELSE IF unit # None THEN <<unit * q, 1000>>
    ELSE IF order.quantity > 0 THEN <<RoundHalfAway(order.line * q, order.quantity), 1>> ELSE <<0, 1>>

(* What a delivery cost, a fraction of piastres: its own invoice, an older *)
(* client's price, else its part of the line that was ordered.             *)
DeliveryCost(q, line, unit) ==
    IF line # None THEN <<line, 1>>
    ELSE IF unit # None THEN <<unit * q, 1000>>
    ELSE IF order.quantity > 0 THEN <<order.line * q, order.quantity>> ELSE <<0, 1>>

Distance(a, b) == IF a < b THEN b - a ELSE a - b

(* A counted row far enough off its book to need a reason.                 *)
IsVarianceFlagged(book, counted) ==
    IF book = 0 THEN counted # 0
    ELSE Distance(counted, book) * 100000 >= Distance(book, 0) * Threshold

-----------------------------------------------------------------------------
RoomInit ==
    /\ recipe = <<>> /\ extras = <<>> /\ picks \in SwapPicks
    /\ yields = [i \in Ingredients |-> None]
    /\ order = None /\ received = <<>> /\ shelf = 0 /\ counts = <<>>
    /\ wastes = <<>> /\ steps = 0

Worked == steps < MaxSteps /\ steps' = steps + 1

(* What the editor saves: `usable` is the amount it was shown saving.      *)
Line(i, q, unit) ==
    [ingredient |-> i, stored |-> RecipeBaseQty(q, unit, i, yields[i]).q, yield |-> yields[i],
     usable |-> ConvertWithDensity(q, unit, Unit[i], Density[i]).q]

Saves(i, q, unit) ==
    LET base == RecipeBaseQty(q, unit, i, yields[i]) IN base.error = None /\ base.q > 0

WriteLine(i, q, unit) ==
    /\ Worked /\ Len(recipe) < MaxLines /\ Saves(i, q, unit)
    /\ recipe' = Append(recipe, Line(i, q, unit))
    /\ UNCHANGED <<extras, yields, picks, storeVars, wastes>>

(* The editor shows the usable amount, as it is or for another size, and   *)
(* sends back what it shows.                                               *)
CopyLine(k, factor) ==
    LET i == recipe[k].ingredient
        shown == ScaleQty(UsableQty(recipe[k].stored, yields[i]), factor)
    IN  /\ Worked /\ Saves(i, shown, Unit[i])
        /\ recipe' = [recipe EXCEPT ![k] = Line(i, shown, Unit[i])]
        /\ UNCHANGED <<extras, yields, picks, storeVars, wastes>>

SetYield(i, yield) ==
    /\ Worked
    /\ yields' = [yields EXCEPT ![i] = yield]
    /\ UNCHANGED <<recipe, extras, picks, storeVars, wastes>>

AddExtra(i, q, unit) ==
    /\ Worked /\ Len(extras) < MaxLines /\ unit \in UnitsOf(Unit[i])
    /\ extras' = Append(extras, [ingredient |-> i, quantity |-> q, unit |-> unit])
    /\ UNCHANGED <<recipe, yields, picks, storeVars, wastes>>

(* A drink thrown away: each line of its recipe, as many times.            *)
WasteDrink(q, unit) ==
    LET lines == [k \in DOMAIN CostLines |-> [CostLines[k] EXCEPT !.q = @ * (q \div 1000)]]
    IN  /\ Worked /\ CheckQuantity(q) /\ CheckMenuItem(unit, q)
        /\ \E worth \in ValueOf(lines) :
              /\ ~worth.bad
              /\ wastes' = Append(wastes, [of |-> "drink", units |-> q \div 1000,
                                           lines |-> CostLines, worth |-> worth])
        /\ UNCHANGED <<barVars, storeVars>>

PlaceOrder(typed, line, unit) ==
    /\ Worked /\ order = None /\ LineCosts(typed, line, unit).error = None
    /\ order' = LineCosts(typed, line, unit)
    /\ UNCHANGED <<received, shelf, counts, barVars, wastes>>

Deliver(typed, line, unit) ==
    LET q == QuantityDec(typed)
    IN  /\ Worked /\ order # None
        /\ PurchaseError(line, unit) \in {None, "no_cost"}
        /\ received' = Append(received, [q |-> q, cost |-> DeliveryCost(q, line, unit),
                                         invoiced |-> <<line, unit>> # <<None, None>>])
        /\ shelf' = shelf + q
        /\ UNCHANGED <<order, counts, barVars, wastes>>

WasteIngredient(q, unit) ==
    LET base == ConvertWithDensity(q, unit, Unit[Ordered], Density[Ordered])
        lines == <<[q |-> base.q, cost |-> Cost[Ordered]]>>
    IN  /\ Worked /\ CheckQuantity(q) /\ base.error = None /\ CheckConverted(base.q)
        /\ \E worth \in ValueOf(lines) :
              /\ ~worth.bad
              /\ wastes' = Append(wastes, [of |-> "ingredient", units |-> 1,
                                           lines |-> lines, worth |-> worth])
        /\ shelf' = shelf - base.q
        /\ UNCHANGED <<order, received, counts, barVars>>

FinaliseCount(counted, reason) ==
    /\ Worked /\ (IsVarianceFlagged(shelf, counted) => reason)
    /\ counts' = Append(counts, [book |-> shelf, counted |-> counted, reason |-> reason])
    /\ shelf' = counted
    /\ UNCHANGED <<order, received, barVars, wastes>>

BarNext ==
    \/ \E i \in Ingredients, q \in Amounts, unit \in Units : WriteLine(i, q, unit) \/ AddExtra(i, q, unit)
    \/ \E k \in DOMAIN recipe, factor \in Factors : CopyLine(k, factor)
    \/ \E i \in Ingredients, yield \in Yields : SetYield(i, yield)
    \/ \E q \in Amounts, unit \in Units \union {None} : WasteDrink(q, unit)

StoreNext ==
    \/ \E typed \in OrderAmounts, line, unit \in Invoices :
           PlaceOrder(typed, line, unit) \/ Deliver(typed, line, unit)
    \/ \E q \in Amounts, unit \in Units : WasteIngredient(q, unit)
    \/ \E typed \in OrderAmounts, reason \in BOOLEAN : FinaliseCount(QuantityDec(typed), reason)

RoomSpec == RoomInit /\ [][BarNext \/ StoreNext]_roomVars

-----------------------------------------------------------------------------
(* What an editor saved it shows again, and saving what it shows changes   *)
(* nothing, however often: no recipe drifts (recipe.rs:40-48).             *)
EditorIsStable ==
    \A k \in DOMAIN recipe :
        LET line == recipe[k]
            shown == UsableQty(line.stored, line.yield)
        IN  YieldFactor(line.yield) <= 100 =>
                /\ shown = line.usable
                /\ RecipeBaseQty(shown, Unit[line.ingredient], line.ingredient, line.yield).q = line.stored

(* The sale deducts what the drink is made of: after the pass every extra  *)
(* of a following family names the drink's own choice, in the same amount  *)
(* but for the rounding, or is reported and as authored; nothing else is   *)
(* touched, and the pass run again (the till's preview, then the server)   *)
(* changes nothing (follow.rs:1-28).                                       *)
ExtrasFollowTheCup ==
    LET families == FamiliesOf(picks)
        made == FollowTheDrink(DrinkLines, families)
        choices(line) == OwnLines(DrinkLines, Category[line.ingredient])
        told(line) == /\ line.additive /\ Category[line.ingredient] \in ToSet(families)
                      /\ choices(line) # {}
        canonical(line) == line.quantity * UnitSpec[line.unit].factor
    IN  /\ FollowTheDrink(made.lines, families).lines = made.lines
        /\ \A k \in DOMAIN made.lines :
              LET before == DrinkLines[k]
                  after == made.lines[k]
              IN  IF ~told(before) THEN after = before
                  ELSE \/ after = before /\ k \in made.stuck
                       \/ /\ after.ingredient = DrinkLines[Min(choices(before))].ingredient
                          /\ after.ingredient # before.ingredient => after.unit = Unit[after.ingredient]
                          /\ 2 * Distance(canonical(after), canonical(before))
                                  <= UnitSpec[after.unit].factor

(* A cup is made of its recipe: the editor changes nothing it was not told *)
(* to, and the extras follow the drink they are in.                        *)
CupIsItsRecipe == EditorIsStable /\ ExtrasFollowTheCup

(* What one drink wasted is worth: what it costs, but for half a piastre.   *)
OneCosts(lines, value) ==
    LET cost == RecipeCost(lines).piastres
    IN  value = cost \/ (value = cost - 1 /\ 2 * (ExactCost(lines) % 100000) = 100000)

WorthItsCost(waste) ==
    LET cost == RecipeCost(waste.lines)
    IN  /\ waste.of = "ingredient" => waste.lines[1].q > 0
        /\ waste.worth.partial <=> ~cost.complete
        /\ waste.worth.value # None =>
              IF waste.units = 1 THEN OneCosts(waste.lines, waste.worth.value)
              ELSE 2 * Distance(waste.worth.value, waste.units * cost.piastres) <= waste.units + 1

(* A recorded waste destroys something, and the till's figure under an     *)
(* approval ceiling is what the recipe costs: known on the same lines; for *)
(* one drink the same, or a piastre less where the cost is at half a       *)
(* piastre; and apart by the rounding for several (waste.rs:28-56 against  *)
(* cost.rs:71-80).                                                         *)
WasteIsWorthItsCost == \A k \in DOMAIN wastes : WorthItsCost(wastes[k])

(* The margin badge and the food-cost band of a priced drink have the same *)
(* cut-offs.                                                               *)
BadgesAgree ==
    LET cost == RecipeCost(CostLines).piastres
        margin == Margin(Price, cost)
        band == FoodCostBand(cost, Price)
    IN  Price > 0 =>
            /\ band = "good" <=> 10 * margin[1] > 7 * margin[2]
            /\ band = "poor" <=> 10 * margin[1] < 6 * margin[2]

(* Of any order that the unit cost's decimals can tell apart, the unit cost*)
(* gives the total back; and however an order comes in, receiving all of   *)
(* it costs exactly what was ordered (purchase.rs:108-112).                *)
OrderedCostIsKept ==
    LET came == DOMAIN received
        all == SumFunctionOnSet([d \in came |-> received[d].q], came)
        paid == SumFunctionOnSet([d \in came |-> (received[d].cost[1] * order.quantity)
                                                     \div received[d].cost[2]], came)
    IN  order # None =>
            /\ order.quantity < 1000 * CostGrain =>
                   RoundHalfAway(order.unit * order.quantity, 1000 * CostGrain) = order.line
            /\ order.quantity > 0 /\ all = order.quantity
                   /\ (\A d \in came : ~received[d].invoiced)
                   => paid = order.line * order.quantity

(* Stock moved by a count with no reason is less than the threshold off    *)
(* its book, and none appears from nothing (count.rs:13-33).               *)
CountsExplained ==
    \A k \in DOMAIN counts :
        LET count == counts[k]
        IN  \/ count.reason \/ count.counted = count.book
            \/ /\ count.book # 0
               /\ Distance(count.counted, count.book) * 100000 < Distance(count.book, 0) * Threshold

(* What the store writes down is what it had, bought and threw away: the   *)
(* four parts above.                                                       *)
StoreIsAccounted ==
    WasteIsWorthItsCost /\ BadgesAgree /\ OrderedCostIsKept /\ CountsExplained
=============================================================================
