-------------------------------- MODULE Combos --------------------------------
(***************************************************************************)
(* Combos (madar-catalog combo.rs, madar-money line.rs): one price P over  *)
(* the picks of some slots.  P is split over the picks by what each costs  *)
(* at the size the combo includes; a bigger size, a dearer choice and the  *)
(* add-ons come on top.                                                    *)
(*                                                                         *)
(* A combo is [price, active, windows, slots], a slot [id, sort, min, max, *)
(* choices], a choice [item, category, surcharge, included, sizes] with    *)
(* sizes[label] the owner's price for a bigger size; a pick [slot, view,   *)
(* category, selection, quantity], per combo unit.                         *)
(***************************************************************************)
EXTENDS LinePrice

Sales == INSTANCE Deals

SumOf(seq) == FoldLeft(LAMBDA sum, n : sum + n, 0, seq)

-----------------------------------------------------------------------------
(* The views' types.                                                       *)
IsChoiceView(c) ==
    /\ {c.item, c.category, c.included} \subseteq Or(STRING) /\ c.surcharge \in Int
    /\ \A label \in DOMAIN c.sizes : label \in STRING /\ c.sizes[label] \in Int

IsSlotView(s) ==
    /\ s.id \in STRING /\ {s.sort, s.min, s.max} \subseteq Int
    /\ \A n \in DOMAIN s.choices : IsChoiceView(s.choices[n])

IsComboView(combo) ==
    /\ combo.price \in Int /\ combo.active \in BOOLEAN
    /\ \A n \in DOMAIN combo.slots : IsSlotView(combo.slots[n])

-----------------------------------------------------------------------------
(* Where combos sell: the org's switch of each channel, or the branch's.   *)
Channels == {"pos", "qr", "online", "delivery"}

ResolveSell(org, branch) ==
    IF branch = None THEN org
    ELSE [c \in Channels |-> IF branch[c] # None THEN branch[c] ELSE org[c]]

(* Why a combo is not on sale, or None: the first reason.                  *)
Unavailable(combo, at, Sellable(_)) ==
    LET empty(slot) == slot.min >= 1 /\ ~\E n \in DOMAIN slot.choices : Sellable(slot.choices[n])
        reasons == << [why |-> "inactive",   holds |-> ~combo.active],
                      [why |-> "branch",     holds |-> ~at.branchEnabled],
                      [why |-> "channel",    holds |-> ~at.sell[at.channel]],
                      [why |-> "window",     holds |-> ~Sales!Open(combo.windows, at.branch, at.now)],
                      [why |-> "slot_empty", holds |-> \E n \in DOMAIN combo.slots : empty(combo.slots[n])] >>
        first == FirstOf(reasons, LAMBDA r : r.holds)
    IN  IF first = None THEN None ELSE first.why

-----------------------------------------------------------------------------
SlotOf(combo, id) == FirstOf(combo.slots, LAMBDA s : s.id = id)

(* The choice that admits an item: its own, else its category's.           *)
ChoiceFor(slot, item, category) ==
    LET own == FirstOf(slot.choices, LAMBDA c : c.item = item)
    IN  IF own # None THEN own
        ELSE IF category = None THEN None
        ELSE FirstOf(slot.choices, LAMBDA c : c.item = None /\ c.category = category)

PickChoice(combo, pick) == ChoiceFor(SlotOf(combo, pick.slot), pick.view.item.id, pick.category)

(* The size P covers: the choice's, else the item's cheapest active size.  *)
IncludedSize(item, choice) ==
    LET price(s) == IF s.branchPrice # None THEN s.branchPrice ELSE s.price
        priced == SelectSeq(item.sizes, LAMBDA s : s.active /\ price(s) # None)
        cheapest == Lowest({ price(priced[n]) : n \in DOMAIN priced })
    IN  IF choice.included # None THEN choice.included
        ELSE IF priced = <<>> THEN None
        ELSE FirstOf(priced, LAMBDA s : price(s) = cheapest).label

Got(picks, slot) ==
    SumOf([n \in DOMAIN picks |-> IF picks[n].slot = slot.id THEN picks[n].quantity ELSE 0])

(* Every pick is of a slot, of one unit at least and admitted, and every   *)
(* slot has as many as it takes.                                           *)
Valid(combo, picks) ==
    /\ \A n \in DOMAIN picks :
         /\ SlotOf(combo, picks[n].slot) # None
         /\ picks[n].quantity >= 1
         /\ PickChoice(combo, picks[n]) # None
    /\ \A n \in DOMAIN combo.slots :
         Got(picks, combo.slots[n]) \in combo.slots[n].min..combo.slots[n].max

-----------------------------------------------------------------------------
(* What a size adds over the included one: the owner's price, else what it *)
(* costs more.                                                             *)
SizeExtra(choice, item, included, label) ==
    IF label = included THEN 0
    ELSE IF label \in DOMAIN choice.sizes THEN choice.sizes[label]
    ELSE NonNegative(UnitPrice(item, label) - UnitPrice(item, included))

(* A pick priced: None when its size or an option cannot be.               *)
PricedPart(pick, base, chosen, options, onTop) ==
    IF None \in {base, chosen, options} THEN None
    ELSE [base |-> base, chosen |-> chosen, quantity |-> pick.quantity, surcharge |-> onTop,
          extras |-> Extras(options)]

PartAt(pick, choice, included, label) ==
    IF included = None THEN None
    ELSE PricedPart(pick, UnitPrice(pick.view.item, included), UnitPrice(pick.view.item, label),
                    PriceOptions(pick.view, [pick.selection EXCEPT !.size = label]),
                    choice.surcharge + SizeExtra(choice, pick.view.item, included, label))

PartOf(pick, choice, included) ==
    PartAt(pick, choice, included,
           IF pick.selection.size # None THEN pick.selection.size ELSE included)

PickPart(pick, choice) == PartOf(pick, choice, IncludedSize(pick.view.item, choice))

Part(combo, pick) == PickPart(pick, PickChoice(combo, pick))

(* Picks in slot order: the slot's sort, its place, then as picked.        *)
SlotOrder(combo, picks) ==
    LET place(n) == CHOOSE k \in DOMAIN combo.slots :
                        combo.slots[k].id = picks[n].slot /\ \A j \in 1..(k - 1) : combo.slots[j].id # picks[n].slot
        key(n) == <<combo.slots[place(n)].sort, place(n), n>>
        before(m, n) == \E i \in 1..3 : key(m)[i] < key(n)[i] /\ \A j \in 1..(i - 1) : key(m)[j] = key(n)[j]
    IN  SetToSortSeq(DOMAIN picks, before)

Weights(parts) == [n \in DOMAIN parts |-> parts[n].base * parts[n].quantity]

(* A combo line of n units, or None: its parts with their share of P, one  *)
(* unit's total and what its picks would cost on their own.                *)
OnTop(parts) == SumOf([k \in DOMAIN parts |-> parts[k].quantity * (parts[k].surcharge + parts[k].extras)])

OnTheirOwn(parts) == SumOf([k \in DOMAIN parts |-> parts[k].quantity * (parts[k].chosen + parts[k].extras)])

QuotedPart(part, pick, share, made) ==
    [pick |-> pick, quantity |-> part.quantity * made,
     share |-> share, surcharge |-> part.surcharge, extras |-> part.extras,
     lineTotal |-> made * share + part.quantity * made * part.surcharge,
     addonsTotal |-> part.extras * part.quantity * made]

QuoteOf(combo, made, order, parts, share, unitTotal) ==
    [price |-> combo.price, quantity |-> made, unitTotal |-> unitTotal,
     saving |-> OnTheirOwn(parts) - unitTotal,
     parts |-> [k \in DOMAIN parts |-> QuotedPart(parts[k], order[k], share[k], made)]]

QuoteParts(combo, made, order, parts) ==
    IF \E k \in DOMAIN parts : parts[k] = None THEN None
    ELSE QuoteOf(combo, made, order, parts, Split(combo.price, Weights(parts)),
                 combo.price + OnTop(parts))

QuoteInOrder(combo, picks, made, order) ==
    QuoteParts(combo, made, order, [k \in DOMAIN order |-> Part(combo, picks[order[k]])])

Quote(combo, picks, units) ==
    IF ~Valid(combo, picks) THEN None
    ELSE QuoteInOrder(combo, picks, IF units < 1 THEN 1 ELSE units, SlotOrder(combo, picks))

-----------------------------------------------------------------------------
(* The cart's line (line.rs): P and the picks' figures, no catalogue.      *)
ComboExtras(shape) ==
    SumOf([k \in DOMAIN shape |-> shape[k].quantity * (shape[k].surcharge + shape[k].extras)])

CartLineUnit(price, shape) == price + ComboExtras(shape)

(* The public menu states what each size of a choice adds; the customer's  *)
(* page adds the choice's surcharge to it.  A size not listed adds nothing.*)
MenuChoice(choice, item) ==
    LET included == IncludedSize(item, choice)
    IN  [surcharge |-> choice.surcharge,
         extra |-> [label \in { item.sizes[n].label : n \in DOMAIN item.sizes } |->
                        SizeExtra(choice, item, included, label)]]

ChoiceExtra(menu, label) ==
    menu.surcharge + (IF label \in DOMAIN menu.extra THEN menu.extra[label] ELSE 0)
===============================================================================
