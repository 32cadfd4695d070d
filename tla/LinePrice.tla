------------------------------ MODULE LinePrice ------------------------------
(***************************************************************************)
(* What one line of a menu item costs (madar-catalog view.rs, price.rs,    *)
(* feed.rs; madar-money line.rs): its size, its options, of which a swap   *)
(* is charged over the recipe's own choice, and its optional fields.       *)
(*                                                                         *)
(* A view is [item, options]; lists are in the server's order.  Names are  *)
(* left out but for the order they put an option's ingredients in, and so  *)
(* is what the rule notes for a log.                                       *)
(***************************************************************************)
EXTENDS Rounding

CONSTANT NameOrder    \* the ingredients by name

(* The views' types.  A recipe line, an option's ingredient and a comped   *)
(* choice are what the rules read of them.                                 *)
Or(S) == S \union {None}

SizeView == [label : STRING, price : Or(Int), active : BOOLEAN, branchPrice : Or(Int)]

RecipeLine == [size : STRING, category : Or(STRING), ingredient : Or(STRING)]

BaseCandidate ==
    [option : STRING, kind : STRING, price : Int, group : Or(STRING), category : Or(STRING)]

OptionalView == [id : STRING, price : Int, size : Or(STRING)]

GroupOption ==
    [id : STRING, price : Int, branchPrice : Or(Int), default : BOOLEAN, active : BOOLEAN]

OptionView ==
    [id : STRING, kind : STRING, price : Int, group : Or(STRING), effect : Or(STRING),
     category : Or(STRING), slug : Or(STRING), replaces : Or(STRING), ingredients : Seq(STRING),
     sized : Seq([size : STRING, ingredient : STRING])]

IsGroupView(g) ==
    /\ g.id \in STRING /\ g.min \in Int /\ g.required \in BOOLEAN /\ g.effect \in STRING
    /\ g.legacy \in Or(STRING)
    /\ g.included = None \/ \A id \in g.included : id \in STRING
    /\ \A n \in DOMAIN g.options : g.options[n] \in GroupOption

IsItemView(item) ==
    /\ item.id \in STRING /\ item.branchPrice \in Or(Int) /\ item.recipeSize \in Or(STRING)
    /\ item.sizes \in Seq(SizeView) /\ item.recipe \in Seq(RecipeLine)
    /\ \A i \in DOMAIN item.bases : item.bases[i] \in Seq(BaseCandidate)
    /\ item.optionals \in Seq(OptionalView)
    /\ \A n \in DOMAIN item.groups : IsGroupView(item.groups[n])

OptionOf(view, id) ==
    LET is == SelectSeq(view.options, LAMBDA o : o.id = id)
    IN  IF is = <<>> THEN None ELSE is[1]

FirstOf(list, Test(_)) ==
    LET fit == SelectSeq(list, Test) IN IF fit = <<>> THEN None ELSE fit[1]

-----------------------------------------------------------------------------
(* A till's item row names each option a swap may be charged over with its *)
(* price; the option's own row, refreshed more often, is the one to read.  *)

(* Mutant: the item row's figures are kept.                                *)
StaleCandidates(item, options) == item

WithFreshCandidates(item, options) ==
    LET fresh(c) ==
            LET o == OptionOf([options |-> options], c.option)
            IN  IF o = None THEN c
                ELSE [c EXCEPT !.kind = o.kind, !.price = o.price, !.group = o.group,
                               !.category = o.category]
    IN  [item EXCEPT !.bases = [i \in DOMAIN @ |-> Each(@[i], fresh)]]

ViewOf(item, options) == [item |-> WithFreshCandidates(item, options), options |-> options]

-----------------------------------------------------------------------------
(* One unit of the item at a size, before any option: the branch's price   *)
(* of the size, else its own when it is active, else the item's fallback.  *)
(* None when no active size has a price.                                   *)
Lowest(prices) == CHOOSE p \in prices : \A q \in prices : p <= q

UnitPrice(item, label) ==
    LET priced == { item.sizes[n].price : n \in { m \in DOMAIN item.sizes : item.sizes[m].active } } \ {None}
        fallback == IF item.branchPrice # None THEN item.branchPrice ELSE Lowest(priced)
        named == FirstOf(item.sizes, LAMBDA s : s.label = label)
        on == FirstOf(item.sizes, LAMBDA s : s.label = label /\ s.active)
    IN  IF priced = {} THEN None
        ELSE IF label = None THEN fallback
        ELSE IF named # None /\ named.branchPrice # None THEN named.branchPrice
        ELSE IF on # None /\ on.price # None THEN on.price
        ELSE fallback

-----------------------------------------------------------------------------
(* How an option relates to the recipe: what it swaps and the family it    *)
(* cannot share a line with, or None for an addition.                      *)
FamilyOf(slug, fallback) ==
    CASE slug = "milk" -> "milk_type" [] slug = "coffee_bean" -> "coffee_type" [] OTHER -> fallback

TargetOf(o) ==
    IF o.effect = "swaps" /\ None \notin {o.category, o.slug}
    THEN [slug |-> o.slug, category |-> o.category, family |-> FamilyOf(o.slug, o.category)]
    ELSE CASE o.kind = "milk_type"   -> [slug |-> "milk", category |-> None, family |-> "milk_type"]
           [] o.kind = "coffee_type" -> [slug |-> "coffee_bean", category |-> None, family |-> "coffee_type"]
           [] OTHER                  -> None

FamilyIn(target) == IF target = None THEN None ELSE target.family
OptionFamily(o) == IF o = None THEN None ELSE FamilyIn(TargetOf(o))

PickFamily(view, pick) == OptionFamily(OptionOf(view, pick.id))

(* Mutant: the first of a family is kept.                                  *)
CollapseToFirst(view, picks) ==
    LET keep == { i \in DOMAIN picks : PickFamily(view, picks[i]) = None
                     \/ \A j \in 1..(i - 1) : PickFamily(view, picks[j]) # PickFamily(view, picks[i]) }
    IN  FoldLeft(LAMBDA kept, i : IF i \in keep THEN Append(kept, picks[i]) ELSE kept,
                 <<>>, [i \in DOMAIN picks |-> i])

(* Of the picks of one family the last, once; a lone pick is left as it is.*)
LastOfFamilies(picks, family) ==
    FoldLeft(LAMBDA kept, i :
                 IF family[i] = None THEN Append(kept, picks[i])
                 ELSE IF \E j \in (i + 1)..Len(picks) : family[j] = family[i] THEN kept
                 ELSE Append(kept, [picks[i] EXCEPT !.quantity = 1]),
             <<>>, [i \in DOMAIN picks |-> i])

CollapseFamilies(view, picks) ==
    IF Len(picks) < 2 THEN picks
    ELSE LastOfFamilies(picks, [i \in DOMAIN picks |-> PickFamily(view, picks[i])])

(* An option's ingredients at a size: a sized line replaces the generic    *)
(* line of the same ingredient or is added, and they are then by name.     *)
OptionLines(o, label) ==
    LET sized == SelectSeq(o.sized, LAMBDA s : s.size = label)
        named == { sized[n].ingredient : n \in DOMAIN sized } \union
                     { o.ingredients[n] : n \in DOMAIN o.ingredients }
    IN  IF label = None \/ sized = <<>> THEN o.ingredients
        ELSE SelectSeq(NameOrder, LAMBDA i : i \in named)

RecipeSize(item, label) ==
    CASE label # None           -> label
      [] item.recipeSize # None -> item.recipeSize
      [] OTHER                  -> "one_size"

RecipeLines(view, label, slug) ==
    SelectSeq(view.item.recipe,
              LAMBDA r : r.size = RecipeSize(view.item, label) /\ r.category = slug)

(* The option a swap is charged over: the one that carries the recipe's    *)
(* ingredient, in the chosen option's family, its own group first.         *)
Over(view, o, target, base) ==
    LET among == IF base = None \/ base \notin DOMAIN view.item.bases THEN <<>>
                 ELSE SelectSeq(view.item.bases[base],
                          LAMBDA c : IF target.category = None THEN c.kind = o.kind
                                     ELSE c.category = target.category)
        own == SelectSeq(among, LAMBDA c : c.group # None /\ c.group = o.group)
    IN  CASE own # <<>> -> own[1] [] among # <<>> -> among[1] [] OTHER -> None

Replacement(o, target, lines) ==
    IF target.category # None /\ o.replaces # None THEN o.replaces
    ELSE IF lines = <<>> THEN None ELSE lines[1]

(* The ingredient a swap finds in the recipe.                              *)
FirstIngredient(lines) == IF lines = <<>> THEN None ELSE lines[1].ingredient

(* One option as charged: the recipe's own choice costs nothing, another   *)
(* swap what it costs above the option it is charged over, an option that  *)
(* replaces nothing its price.  A category is swapped once.                *)
SwapPrice(o, over) ==
    IF over = None THEN NonNegative(o.price) ELSE NonNegative(o.price - over.price)

ChargedRow(o, pick, price, slug, isBase, replacement) ==
    [id |-> o.id, quantity |-> IF pick.quantity < 1 THEN 1 ELSE pick.quantity,
     price |-> price, slug |-> slug, isBase |-> isBase, replacement |-> replacement]

ChargedSwap(view, o, pick, target, base, replacement) ==
    IF base # None /\ replacement = base THEN ChargedRow(o, pick, 0, target.slug, TRUE, replacement)
    ELSE ChargedRow(o, pick,
                    IF replacement = None THEN o.price ELSE SwapPrice(o, Over(view, o, target, base)),
                    target.slug, FALSE, replacement)

ChargedOver(view, label, swapped, o, pick, target) ==
    IF target = None THEN ChargedRow(o, pick, o.price, None, FALSE, None)
    ELSE ChargedSwap(view, o, pick, target,
                     IF target.slug \in swapped THEN None ELSE FirstIngredient(RecipeLines(view, label, target.slug)),
                     Replacement(o, target, OptionLines(o, label)))

Charged(view, label, swapped, o, pick) == ChargedOver(view, label, swapped, o, pick, TargetOf(o))

Replaces(view, label, row) ==
    row.slug # None /\ ~row.isBase /\ row.replacement # None
        /\ RecipeLines(view, label, row.slug) # <<>>

WithRow(view, label, done, row) ==
    [rows |-> Append(done.rows, row),
     swapped |-> IF Replaces(view, label, row) THEN done.swapped \union {row.slug} ELSE done.swapped]

AddOption(view, label, done, pick) ==
    WithRow(view, label, done,
            Charged(view, label, done.swapped, OptionOf(view, pick.id), pick))

(* A line's options and optional fields, per unit, or None when an option  *)
(* is not in the catalogue.  A field of another size is left out.          *)
FieldPrice(label, field) ==
    IF field = None THEN 0 ELSE IF field.size \in {None, label} THEN field.price ELSE 0

Priced(view, selection, rows) ==
    [options |-> rows,
     optionTotal |-> FoldLeft(LAMBDA sum, r : sum + r.price * r.quantity, 0, rows),
     optionalTotal |-> FoldLeft(LAMBDA sum, id :
                                     sum + FieldPrice(selection.size,
                                                      FirstOf(view.item.optionals, LAMBDA f : f.id = id)),
                                0, selection.optionals)]

PricePicks(view, selection, picks) ==
    IF \E n \in DOMAIN picks : OptionOf(view, picks[n].id) = None THEN None
    ELSE Priced(view, selection,
                FoldLeft(LAMBDA done, pick : AddOption(view, selection.size, done, pick),
                         [rows |-> <<>>, swapped |-> {}], picks).rows)

PriceOptions(view, selection) ==
    PricePicks(view, selection, CollapseFamilies(view, selection.options))

Extras(priced) == priced.optionTotal + priced.optionalTotal

WithExtras(unit, priced) == IF None \in {unit, priced} THEN None ELSE unit + Extras(priced)

(* One unit with everything on it, or None.                                *)
PriceLine(view, selection) ==
    WithExtras(UnitPrice(view.item, selection.size), PriceOptions(view, selection))

Alone(label, id) == [size |-> label, options |-> <<[id |-> id, quantity |-> 1]>>, optionals |-> <<>>]

(* What one option alone is charged, and whether it is the recipe's own.   *)
FirstCharge(priced) == IF priced = None THEN None ELSE priced.options[1].price
FirstIsBase(priced) == priced # None /\ priced.options[1].isBase

OptionCharge(view, label, id) == FirstCharge(PriceOptions(view, Alone(label, id)))
IsRecipeChoice(view, label, id) == FirstIsBase(PriceOptions(view, Alone(label, id)))

(* The till's line (line.rs): the charged extras, then the quantity.       *)
ExtrasPerUnit(addons, optionals) ==
    FoldLeft(LAMBDA sum, a : sum + a.price * a.quantity, 0, addons)
        + FoldLeft(LAMBDA sum, p : sum + p, 0, optionals)

LineTotal(line) ==
    (line.unit + ExtrasPerUnit(line.addons, line.optionals)) * line.quantity
===============================================================================
