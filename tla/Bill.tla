--------------------------------- MODULE Bill ---------------------------------
(***************************************************************************)
(* From priced lines to what the customer pays, and the tender (madar-     *)
(* money bill.rs, tax/mod.rs, loyalty/mod.rs), with what the staff pool    *)
(* takes off a drink (staff_comp.rs, madar-catalog staff.rs) and what a    *)
(* discount is judged on (discount.rs).                                    *)
(*                                                                         *)
(* A rate or a discount's value is a decimal, held in units of 1/One; a    *)
(* policy is [taxRate, inclusive, serviceRate, serviceTaxable].            *)
(***************************************************************************)
EXTENDS LinePrice

One == 100000

HalfEven(num, den) ==
    LET q == num \div den
        twice == 2 * (num % den)
    IN  IF twice > den \/ (twice = den /\ q % 2 = 1) THEN q + 1 ELSE q

Clamp(n, upto) == AtMost(NonNegative(n), NonNegative(upto))

Total(seq) == FoldLeft(LAMBDA sum, n : sum + n, 0, seq)

-----------------------------------------------------------------------------
(* Which sales carry a service charge.                                     *)
ChannelOf(word) == IF word \in {"dine_in", "takeaway", "delivery", "online"} THEN word ELSE None

IsSane(policy) == {policy.taxRate, policy.serviceRate} \subseteq 0..One

(* Mutant: a waived charge stays in the rate.                              *)
ForSaleKept(policy, channel, waived) ==
    IF channel = "dine_in" THEN policy ELSE [policy EXCEPT !.serviceRate = 0]

(* The policy a sale is priced under: the charge is dine-in only, and may  *)
(* be waived; it is the rate that goes.                                    *)
ForSale(policy, channel, waived) ==
    IF channel = "dine_in" /\ ~waived THEN policy ELSE [policy EXCEPT !.serviceRate = 0]

(* The tax on a taxed base: contained in an inclusive one.                 *)
TaxOf(policy, taxed) ==
    IF policy.inclusive THEN taxed - RoundHalfAway(taxed * One, One + policy.taxRate)
    ELSE RoundHalfAway(taxed * policy.taxRate, One)

(* Every figure of a bill; a bill is never discounted below nothing.       *)
Compute(subtotal, discount, policy) ==
    LET off == Clamp(discount, subtotal)
        base == NonNegative(subtotal - off)
        service == RoundHalfAway(base * policy.serviceRate, One)
        tax == TaxOf(policy, IF policy.serviceTaxable THEN base + service ELSE base)
        total == base + service + (IF policy.inclusive THEN 0 ELSE tax)
    IN  [subtotal |-> subtotal, discount |-> off, service |-> service, tax |-> tax,
         total |-> total, net |-> total - tax]

NegativePart(b) ==
    CASE b.subtotal < 0                     -> "subtotal"
      [] b.subtotal >= 0 /\ b.discount < 0  -> "discount"
      [] b.subtotal >= 0 /\ b.discount >= 0 /\ b.service < 0 -> "service_charge"
      [] OTHER -> IF b.tax < 0 THEN "tax" ELSE IF b.total < 0 THEN "total" ELSE None

-----------------------------------------------------------------------------
(* A discount is a rule [type, value], or an amount a person stated.       *)
RuleOf(type, value) ==
    [type |-> IF type \in {"percentage", "fixed"} THEN type ELSE "none", value |-> value]

Stated(amount) == [type |-> "stated", value |-> amount]

DiscountOn(subtotal, d) ==
    Clamp(CASE d.type = "percentage" -> RoundHalfAway(NonNegative(subtotal) * d.value, One)
            [] d.type = "fixed"      -> RoundHalfAway(d.value, One)
            [] d.type = "stated"     -> d.value
            [] d.type = "none"       -> 0,
          subtotal)

-----------------------------------------------------------------------------
(* What the staff pool takes off a drink: the base configuration is free,  *)
(* at the cheapest size and the default of each required choice.           *)
(* Its input comes from the choice groups as attached, [id, min, required, *)
(* effect, legacy, included, options], an option being [id, price,         *)
(* branchPrice, default, active].  A swap group is no base: its pick rings *)
(* as the difference over the recipe's own choice already.                 *)
IsCompGroup(g) == g.effect # "swaps" /\ g.legacy \notin {"milk_type", "coffee_type"}

RequiredMin(g) == IF g.min >= 1 THEN g.min ELSE IF g.required THEN 1 ELSE 0

Offered(g) == SelectSeq(g.options, LAMBDA o : g.included = None \/ o.id \in g.included)

CompGroups(groups) ==
    LET base == SelectSeq(groups, LAMBDA g : IsCompGroup(g) /\ RequiredMin(g) >= 1 /\ Offered(g) # <<>>)
    IN  [n \in DOMAIN base |->
            [id |-> base[n].id, requiredMin |-> RequiredMin(base[n]), options |-> Offered(base[n])]]

(* A line that names no size rings at the item's price, which is then free.*)
CompSizes(item, label) ==
    IF label = None THEN <<>> ELSE SelectSeq(item.sizes, LAMBDA s : s.price # None)

CompInput(item, line) ==
    [eligible |-> line.eligible, unit |-> line.unit, sizes |-> CompSizes(item, line.size),
     groups |-> CompGroups(item.groups), picks |-> line.picks,
     optionals |-> line.optionals, quantity |-> line.quantity]

-----------------------------------------------------------------------------
PriceOf(x) == NonNegative(IF x.branchPrice # None THEN x.branchPrice ELSE x.price)

(* A group's free allowance per unit: its default, else its cheapest, as   *)
(* often as it must be picked.                                             *)
GroupAllowance(g) ==
    LET active == { n \in DOMAIN g.options : g.options[n].active }
        defaults == { n \in active : g.options[n].default }
    IN  CASE active = {}    -> 0
          [] defaults # {}  -> g.requiredMin * PriceOf(g.options[Lowest(defaults)])
          [] OTHER          -> g.requiredMin * Lowest({ PriceOf(g.options[n]) : n \in active })

Rang(pick) == NonNegative(pick.price) * NonNegative(pick.quantity)

Lists(g, id) == \E n \in DOMAIN g.options : g.options[n].id = id

(* A pick is of the first group that lists it.                             *)
GroupOf(groups, picks, k, n) ==
    /\ Lists(groups[k], picks[n].option)
    /\ \A j \in 1..(k - 1) : ~Lists(groups[j], picks[n].option)

(* What the picks of a group rang at, absorbed in pick order up to its     *)
(* allowance.                                                              *)
Absorbed(groups, picks, k) ==
    LET upto(n) == FoldLeft(LAMBDA sum, m : IF GroupOf(groups, picks, k, m) THEN sum + Rang(picks[m]) ELSE sum,
                            0, [m \in 1..n |-> m])
        taken(n) == AtMost(upto(n), GroupAllowance(groups[k]))
    IN  [n \in DOMAIN picks |-> taken(n) - taken(n - 1)]

FreeSize(sizes, unit) ==
    IF \A n \in DOMAIN sizes : ~sizes[n].active THEN unit
    ELSE Lowest({ PriceOf(sizes[n]) : n \in { m \in DOMAIN sizes : sizes[m].active } })

PerUnit(input, normal, free, absorbed) ==
    [normal |-> normal, freePerUnit |-> free, chargedPerUnit |-> normal - free,
     lineComp |-> free * NonNegative(input.quantity),
     lineCharged |-> (normal - free) * NonNegative(input.quantity),
     groups |-> [k \in DOMAIN absorbed |-> Total(absorbed[k])],
     picks |-> [n \in DOMAIN input.picks |->
                   IF ~input.eligible THEN 0
                   ELSE Total([k \in DOMAIN absorbed |-> absorbed[k][n]])]]

CompOf(input, unit, normal, absorbed) ==
    PerUnit(input, normal,
            IF ~input.eligible THEN 0
            ELSE AtMost(AtMost(FreeSize(input.sizes, unit), unit)
                          + Total([k \in DOMAIN absorbed |-> Total(absorbed[k])]), normal),
            absorbed)

Comp(input) ==
    CompOf(input, NonNegative(input.unit),
           NonNegative(input.unit) + Total([n \in DOMAIN input.picks |-> Rang(input.picks[n])])
               + NonNegative(input.optionals),
           [k \in DOMAIN input.groups |-> Absorbed(input.groups, input.picks, k)])

-----------------------------------------------------------------------------
(* A line [charged, perUnit, rewardUnits, comp]: the staff comp comes off  *)
(* first, then the reward covers whole units of what is left.              *)
CoveredMinor(perUnit, charged, units) ==
    AtMost(NonNegative(perUnit) * NonNegative(units), NonNegative(charged))

NetLine(line) ==
    LET covered == AtMost(CoveredMinor(line.perUnit, line.charged, line.rewardUnits),
                          NonNegative(line.charged - line.comp))
    IN  [comp |-> line.comp, covered |-> covered, net |-> line.charged - line.comp - covered]

PriceSubtotal(subtotal, discount, policy) ==
    Compute(subtotal, DiscountOn(subtotal, discount), policy)

(* A bill over the subtotal a till stated, or over its own lines.          *)
PriceBillOn(lines, stated, discount, policy) ==
    LET nets == Each(lines, NetLine)
        own == Total([n \in DOMAIN nets |-> nets[n].net])
    IN  [lines |-> nets,
         covered |-> Total([n \in DOMAIN nets |-> nets[n].covered]),
         comp |-> Total([n \in DOMAIN nets |-> nets[n].comp]),
         figures |-> PriceSubtotal(IF stated = None THEN own ELSE stated, discount, policy)]

PriceBill(lines, discount, policy) == PriceBillOn(lines, None, discount, policy)

(* Why a bill may not be booked: a line below zero, else a figure.         *)
Refusal(bill) ==
    IF \E n \in DOMAIN bill.lines : bill.lines[n].net < 0 THEN "line" ELSE NegativePart(bill.figures)

(* A table bill's preview: a subtotal below zero reads as nothing.         *)
PriceOpenBill(subtotal, rule, policy) == PriceSubtotal(NonNegative(subtotal), rule, policy)

-----------------------------------------------------------------------------
(* The tender.                                                             *)
ChangeCap == 999999

ChangeDue(tendered, total, cashTip) ==
    IF tendered = None THEN 0 ELSE Clamp(tendered - total - cashTip, ChangeCap)

LegsSum(legs) == Total([n \in DOMAIN legs |-> legs[n].amount])

NegativeLeg(legs) == \E n \in DOMAIN legs : legs[n].amount < 0

LegsCover(legs, total) == LegsSum(legs) = total

CashLegs(legs) == Total([n \in DOMAIN legs |-> IF legs[n].cash THEN legs[n].amount ELSE 0])

(* What the server records of the tender: of a split, the notes cover its  *)
(* cash legs or none are recorded.                                         *)
RecordedTender(legs, tendered, change, total) ==
    CASE legs = <<>> ->
           [tendered |-> tendered,
            change |-> IF change # None THEN change
                       ELSE IF tendered # None THEN NonNegative(tendered - total) ELSE None]
      [] legs # <<>> /\ tendered # None /\ CashLegs(legs) > 0 /\ tendered >= CashLegs(legs) ->
           [tendered |-> tendered, change |-> tendered - CashLegs(legs)]
      [] OTHER -> [tendered |-> None, change |-> None]

-----------------------------------------------------------------------------
(* What a discount is judged on: its capability and its figures.           *)
CapFor(kind) ==
    CASE kind = "preset"         -> "discount.preset"
      [] kind = "manual_amount"  -> "discount.manual_amount"
      [] kind = "manual_percent" -> "discount.manual_percent"
      [] OTHER                   -> None

(* A percentage in basis points; above 1 it is the older spelling, 12 for  *)
(* 12%.                                                                    *)
PercentBpsOf(value) ==
    Clamp(IF value > One THEN HalfEven(value * 100, One) ELSE HalfEven(value * 10000, One), 10000)

FixedMinor(value) == HalfEven(value, One)

RequestFor(kind, amount, bps) ==
    [cap |-> CapFor(kind),
     amount |-> CASE kind = "manual_amount"  -> IF amount = None THEN 0 ELSE amount
                  [] kind = "manual_percent" -> None
                  [] OTHER                   -> amount,
     percent |-> CASE kind = "manual_amount"  -> None
                   [] kind = "manual_percent" -> IF bps = None THEN 0 ELSE bps
                   [] OTHER                   -> bps]

(* The figures a discount would have on a cart: the amount off and the     *)
(* basis points.                                                           *)
Figures(kind, preset, amount, bps, subtotal) ==
    LET off(points) == RoundHalfAway(NonNegative(subtotal) * points, 10000)
        percent(points) == [amount |-> off(points), percent |-> points]
        fixed(minor) == [amount |-> Clamp(minor, subtotal), percent |-> None]
    IN  CASE kind = "manual_amount"  -> fixed(IF amount = None THEN 0 ELSE amount)
          [] kind = "manual_percent" -> percent(Clamp(IF bps = None THEN 0 ELSE bps, 10000))
          [] kind \notin {"manual_amount", "manual_percent"} /\ preset = None ->
                 [amount |-> None, percent |-> None]
          [] kind \notin {"manual_amount", "manual_percent"} /\ preset # None ->
                 IF preset.type = "percentage" THEN percent(PercentBpsOf(preset.value))
                                               ELSE fixed(FixedMinor(preset.value))

(* The discount a sale's request asks for, or None.  The request is        *)
(* [hasPreset, type, value, amount, kind, bps]; the preset is as the       *)
(* server holds it.                                                        *)
KindOf(body, isPercent) ==
    CASE CapFor(body.kind) # None -> body.kind
      [] OTHER -> IF body.hasPreset THEN "preset"
                  ELSE IF isPercent THEN "manual_percent" ELSE "manual_amount"

(* Mutant: the sale's own figures are judged, whatever the preset says.    *)
AskFromTheBody(body, preset) ==
    IF body.amount = None THEN None
    ELSE [cap |-> CapFor(body.kind), kind |-> body.kind, amount |-> body.amount, percent |-> body.bps]

AskFrom(body, preset) ==
    LET type == IF preset # None THEN preset.type ELSE body.type
        value == IF preset # None THEN preset.value ELSE IF body.value # None THEN body.value ELSE 0
        amount == IF body.amount # None /\ body.amount > 0 THEN body.amount ELSE None
        isPercent == type = "percentage"
        isFixed == type = "fixed"
        bps == IF body.bps # None THEN body.bps ELSE IF isPercent THEN PercentBpsOf(value) ELSE None
        fixed == IF amount # None THEN amount
                 ELSE IF isFixed /\ FixedMinor(value) > 0 THEN FixedMinor(value) ELSE None
        kind == KindOf(body, isPercent)
        ask(a, p) == [cap |-> CapFor(kind), kind |-> kind, amount |-> a, percent |-> p]
    IN  IF ~(body.hasPreset \/ amount # None \/ ((isPercent \/ isFixed) /\ value > 0)) THEN None
        ELSE CASE kind = "preset"         -> ask(IF isPercent THEN amount ELSE fixed,
                                                 IF isPercent THEN bps ELSE None)
               [] kind = "manual_percent" -> ask(None, IF bps = None THEN 0 ELSE bps)
               [] kind = "manual_amount"  -> ask(IF fixed = None THEN 0 ELSE fixed, None)
===============================================================================
