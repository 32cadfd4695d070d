--------------------------------- MODULE Sale ---------------------------------
(***************************************************************************)
(* One sale, from the menu to its refunds: the till prices a cart by the   *)
(* menu rows it holds, the server prices it again and books it, and the    *)
(* order it books is refunded (LinePrice, Combos, Bill and Refunds).       *)
(*                                                                         *)
(* A till refetches its item rows when the catalogue's revision moves; a   *)
(* branch's add-on price does not move it, and comes on the add-on's own   *)
(* row (feed.rs).  Rows, carts and the checkout call are the apps'         *)
(* (external).                                                             *)
(***************************************************************************)
EXTENDS Refunds, Combos, Bill

CONSTANTS
    Catalogues,   \* Catalogues[r]: the items at revision r
    Options,      \* the add-ons
    Combo,        \* the combo on sale
    Shop,         \* [sell, branchSell, at]: the combo switches, and where and when it is
    AddOnPrices,  \* the branch prices each add-on may be given
    Sellable,     \* the lines a teller may ring
    Terms,        \* [policy, channel, waived]
    Discounts,    \* [kind, preset, amount, bps], or None
    MaxLines,     \* bound: lines of a cart
    MaxEdits,     \* bound: edits of the menu
    MaxRefunded,  \* bound: refunds are followed of orders of up to this
    Followed      \* bound: the terms and discounts of sales whose refunds are followed

(* The types of a line, of the terms and of a discount.                    *)
Selection ==
    [size : Or(STRING), options : Seq([id : STRING, quantity : Int]), optionals : Seq(STRING)]

ComboPick ==
    [slot : STRING, item : STRING, category : Or(STRING), quantity : Int, selection : Selection]

IsLine(line) ==
    /\ {line.quantity, line.reward} \subseteq Int /\ line.staff \in BOOLEAN
    /\ \/ line.kind = "item" /\ line.item \in STRING /\ line.selection \in Selection
       \/ line.kind = "combo" /\ line.picks \in Seq(ComboPick)

Policies == [taxRate : Int, inclusive : BOOLEAN, serviceRate : Int, serviceTaxable : BOOLEAN]

SaleTerms == [policy : Policies, channel : STRING, waived : BOOLEAN]

SaleDiscount ==
    [kind : STRING, preset : Or([type : STRING, value : Int]), amount : Or(Int), bps : Or(Int)]

DiscountKinds == {"preset", "manual_amount", "manual_percent"}

(* A preset is a part of the price or an amount off it; a discount by hand *)
(* has its amount or its percentage.                                       *)
IsDiscount(d) ==
    /\ d \in SaleDiscount
    /\ \/ /\ d.kind = "preset" /\ d.preset # None
          /\ \/ d.preset.type = "percentage" /\ d.preset.value \in 0..One
             \/ d.preset.type = "fixed" /\ d.preset.value >= 0
       \/ d.kind = "manual_amount" /\ d.preset = None /\ d.amount # None
       \/ d.kind = "manual_percent" /\ d.preset = None /\ d.bps # None /\ d.bps \in 0..10000

ASSUME SaleAssumption ==
    /\ None \notin Int \union SaleDiscount \union {"percentage", "fixed", "dine_in"}
    /\ \A kind \in DiscountKinds : None \notin {kind, CapFor(kind)}
    /\ \A line \in Sellable : IsLine(line)
    /\ \A d \in Discounts \union { f[2] : f \in Followed } : d = None \/ IsDiscount(d)
    /\ \A t \in Terms \union { f[1] : f \in Followed } : t \in SaleTerms
    /\ \A r \in DOMAIN Catalogues : \A id \in DOMAIN Catalogues[r] : IsItemView(Catalogues[r][id])
    /\ \A n \in DOMAIN Options : Options[n] \in OptionView
    /\ IsComboView(Combo)
    /\ \A t \in Terms : IsSane(t.policy)

VARIABLES
    revision, prices,   \* the server's menu: its revision and add-on prices
    pulled,             \* the till's item rows: their revision, and its prices
    addOns,             \* the prices of the till's add-on rows
    edits,
    terms,              \* the terms of the sale
    cart,
    sale                \* the sale as booked, or None

menuVars == <<revision, prices, pulled, addOns, edits>>
saleVars == <<revision, prices, pulled, addOns, edits, terms, cart, sale>>
allVars == <<refundsVars, saleVars>>

NoOrder == [total |-> 0, tax |-> 0, service |-> 0]

-----------------------------------------------------------------------------
(* The rows as the server ships them at some add-on prices.                *)
ItemRow(item, at) ==
    LET base(c) == [c EXCEPT !.price = at[c.option]]
        option(o) == [o EXCEPT !.branchPrice = at[o.id]]
        group(g) == [g EXCEPT !.options = Each(@, option)]
    IN  [item EXCEPT !.bases = [i \in DOMAIN @ |-> Each(@[i], base)],
                     !.groups = Each(@, group)]

OptionRows(at) == Each(Options, LAMBDA o : [o EXCEPT !.price = at[o.id]])

TillView(id) == ViewOf(ItemRow(Catalogues[pulled.revision][id], pulled.prices), OptionRows(addOns))

ServerView(id) ==
    [item |-> ItemRow(Catalogues[revision][id], prices), options |-> OptionRows(prices)]

(* The views of one side of the sale, "till" or "server".                  *)
View(side, id) == IF side = "till" THEN TillView(id) ELSE ServerView(id)

-----------------------------------------------------------------------------
(* A combo's picks over a side's views, and its quote.                      *)
PicksOver(line, side) ==
    Each(line.picks, LAMBDA p : [slot |-> p.slot, view |-> View(side, p.item), category |-> p.category,
                                 selection |-> p.selection, quantity |-> p.quantity])

QuoteOver(line, side) == Quote(Combo, PicksOver(line, side), line.quantity)

(* What the till charges one unit: the figures it holds, added up.         *)
Shape(quote) ==
    Each(quote.parts, LAMBDA p : [quantity |-> p.quantity \div quote.quantity,
                                  surcharge |-> p.surcharge, extras |-> p.extras])

ItemUnit(unit, priced) ==
    LineTotal([unit |-> unit, addons |-> priced.options, optionals |-> <<priced.optionalTotal>>,
               quantity |-> 1])

TillItemUnit(view, selection) ==
    ItemUnit(UnitPrice(view.item, selection.size), PriceOptions(view, selection))

TillUnit(line) ==
    IF line.kind = "combo" THEN CartLineUnit(Combo.price, Shape(QuoteOver(line, "till")))
    ELSE TillItemUnit(TillView(line.item), line.selection)

ServerUnit(line) ==
    IF line.kind = "combo" THEN QuoteOver(line, "server").unitTotal
    ELSE PriceLine(ServerView(line.item), line.selection)

(* What the comp of a staff line is judged on.                             *)
StaffInputOf(line, view, priced) ==
    CompInput(view.item,
        [size |-> line.selection.size, eligible |-> TRUE,
         unit |-> UnitPrice(view.item, line.selection.size),
         picks |-> Each(priced.options, LAMBDA p :
                        [option |-> p.id, price |-> p.price, quantity |-> p.quantity]),
         optionals |-> priced.optionalTotal, quantity |-> line.quantity])

StaffInputOver(line, view) == StaffInputOf(line, view, PriceOptions(view, line.selection))

StaffInput(line, side) == StaffInputOver(line, View(side, line.item))

BillLine(line, unit, side) ==
    [charged |-> unit * line.quantity, perUnit |-> unit, rewardUnits |-> line.reward,
     comp |-> IF line.staff THEN Comp(StaffInput(line, side)).lineComp ELSE 0]

TillLines == Each(cart, LAMBDA l : BillLine(l, TillUnit(l), "till"))
ServerLines == Each(cart, LAMBDA l : BillLine(l, ServerUnit(l), "server"))

(* The server prices a bill itself when it has a reward or a staff comp;   *)
(* otherwise the till's word on what was sold stands.                      *)
PricedHere == \E n \in DOMAIN cart : cart[n].staff \/ cart[n].reward > 0

Policy == ForSale(terms.policy, ChannelOf(terms.channel), terms.waived)

-----------------------------------------------------------------------------
(* What a discount takes off, as asked on a subtotal, and as it is judged. *)
Taken(d, subtotal) ==
    CASE d = None -> RuleOf(None, 0)
      [] d # None /\ d.kind = "manual_amount"  -> Stated(Figures(d.kind, d.preset, d.amount, d.bps, subtotal).amount)
      [] d # None /\ d.kind = "manual_percent" -> RuleOf("percentage", d.bps * (One \div 10000))
      [] d # None /\ d.kind = "preset"         -> RuleOf(d.preset.type, d.preset.value)

(* An older client names no kind, and a manual discount by its type.       *)
OldBody(d, subtotal) ==
    [hasPreset |-> d.preset # None, kind |-> None, bps |-> None,
     amount |-> Figures(d.kind, d.preset, d.amount, d.bps, subtotal).amount,
     type |-> CASE d.kind = "manual_percent" -> "percentage" [] d.kind = "manual_amount" -> "fixed"
                [] OTHER -> None,
     value |-> IF d.kind = "manual_percent" THEN d.bps * (One \div 10000) ELSE None]

RequestBody(d, subtotal) ==
    LET figures == Figures(d.kind, d.preset, d.amount, d.bps, subtotal)
    IN  [hasPreset |-> d.preset # None, type |-> None, value |-> None, kind |-> d.kind,
         amount |-> figures.amount, bps |-> figures.percent]

Undiscounted(lines) == PriceBill(lines, RuleOf(None, 0), Policy).figures.subtotal

TillBillOver(lines, d) == PriceBill(lines, Taken(d, Undiscounted(lines)), Policy)

TillBill(d) == TillBillOver(TillLines, d)

ServerBillOn(subtotal, d) ==
    PriceBillOn(ServerLines, IF PricedHere THEN None ELSE subtotal, Taken(d, subtotal), Policy)

ServerBill(d) == ServerBillOn(TillBill(d).figures.subtotal, d)

-----------------------------------------------------------------------------
SaleInit ==
    /\ RefundsInit /\ order = NoOrder
    /\ revision = 1
    /\ prices = [id \in DOMAIN AddOnPrices |-> Lowest(AddOnPrices[id])]
    /\ pulled = [revision |-> 1, prices |-> prices] /\ addOns = prices
    /\ edits = 0
    /\ terms \in Terms
    /\ cart = <<>>
    /\ sale = None

(* The owner edits the catalogue, or the branch's price of an add-on.      *)
EditCatalogue ==
    /\ sale = None /\ edits < MaxEdits /\ edits' = edits + 1
    /\ revision < Len(Catalogues) /\ revision' = revision + 1
    /\ UNCHANGED <<refundsVars, prices, pulled, addOns, terms, cart, sale>>

EditAddOn(id, price) ==
    /\ sale = None /\ edits < MaxEdits /\ edits' = edits + 1
    /\ price # prices[id]
    /\ prices' = [prices EXCEPT ![id] = price]
    /\ UNCHANGED <<refundsVars, revision, pulled, addOns, terms, cart, sale>>

PullItems ==
    /\ sale = None /\ pulled.revision # revision
    /\ pulled' = [revision |-> revision, prices |-> prices]
    /\ UNCHANGED <<refundsVars, revision, prices, addOns, edits, terms, cart, sale>>

PullAddOns ==
    /\ sale = None /\ addOns # prices
    /\ addOns' = prices
    /\ UNCHANGED <<refundsVars, revision, prices, pulled, edits, terms, cart, sale>>

ComboOnSale ==
    LET at == [sell |-> ResolveSell(Shop.sell, Shop.branchSell)] @@ Shop.at
    IN  Unavailable(Combo, at, LAMBDA c : c.item = None \/ c.item \in DOMAIN Catalogues[pulled.revision]) = None

RingLine(line) ==
    /\ sale = None
    /\ IF line.kind = "combo" THEN ComboOnSale /\ QuoteOver(line, "till") # None
       ELSE PriceLine(TillView(line.item), line.selection) # None
    /\ cart' = Append(cart, line)
    /\ UNCHANGED <<refundsVars, menuVars, terms, sale>>

(* The server books the sale, unless a figure of it is below zero.         *)
Book(discount, bill) ==
    /\ Refusal(bill) = None
    /\ sale' = [till |-> TillBill(discount).figures, server |-> bill, discount |-> discount]
    /\ order' = [total |-> bill.figures.total, tax |-> bill.figures.tax,
                 service |-> bill.figures.service]
    /\ UNCHANGED <<issued, clock, outbox, known, book, refunded, takenTax, takenService,
                   menuVars, terms, cart>>

Settle(discount) == sale = None /\ Book(discount, ServerBill(discount))

Refund ==
    /\ sale # None /\ edits = 0 /\ order.total <= MaxRefunded
    /\ <<terms, sale.discount>> \in Followed
    /\ RefundsNext
    /\ UNCHANGED saleVars

SaleNext ==
    \/ EditCatalogue
    \/ \E id \in DOMAIN AddOnPrices : \E price \in AddOnPrices[id] : EditAddOn(id, price)
    \/ PullItems
    \/ PullAddOns
    \/ Len(cart) < MaxLines /\ \E line \in Sellable : RingLine(line)
    \/ cart # <<>> /\ \E discount \in Discounts : Settle(discount)
    \/ Refund

SaleSpec == SaleInit /\ [][SaleNext]_allVars

-----------------------------------------------------------------------------
Ringing == sale = None

(* A till that holds the revision and the add-on rows of the day charges   *)
(* each line what the server does, though its item rows carry add-on       *)
(* prices of another day; and the sale they book is then one sale.  Not so *)
(* a staff drink's free choices, whose prices are the item row's           *)
(* (feed.rs:37-43).                                                        *)
TillAndServerAgree ==
    LET current == pulled.revision = revision /\ addOns = prices
        freshRows == pulled.prices = prices
        staffed == \E n \in DOMAIN cart : cart[n].staff
    IN  /\ Ringing /\ current =>
               \A n \in DOMAIN cart : TillUnit(cart[n]) = ServerUnit(cart[n])
        /\ ~Ringing /\ (~PricedHere \/ (current /\ (staffed => freshRows))) =>
               sale.till = sale.server.figures

(* The order in which options are picked changes no price, as long as the  *)
(* picks of a swap family keep theirs; of those the last is the one        *)
(* charged, the others might as well not be there (beside some other pick: *)
(* a lone swap keeps its quantity); and the recipe's own choice costs      *)
(* nothing (price.rs collapse_families, price_options).                    *)
FamilyKept(family, shuffled) ==
    \A m, n \in DOMAIN family :
        /\ m < n /\ family[shuffled[m]] # None /\ family[shuffled[m]] = family[shuffled[n]]
        => shuffled[m] < shuffled[n]

Reordered(view, selection, price, family) ==
    /\ \A p \in Permutations(DOMAIN family) :
         FamilyKept(family, p) =>
            PriceLine(view, [selection EXCEPT !.options = [i \in DOMAIN @ |-> @[p[i]]]]) = price
    /\ \A i, j \in DOMAIN family :
         i < j /\ family[i] # None /\ family[i] = family[j] /\ Len(selection.options) > 2 =>
            PriceLine(view, [selection EXCEPT !.options = RemoveAt(@, i)]) = price
    /\ \A i \in DOMAIN family :
         IsRecipeChoice(view, selection.size, selection.options[i].id) =>
            OptionCharge(view, selection.size, selection.options[i].id) = 0

InAnyOrder(view, selection) ==
    Reordered(view, selection, PriceLine(view, selection),
              Each(selection.options, LAMBDA pick : PickFamily(view, pick)))

PicksInAnyOrder ==
    \A n \in DOMAIN cart :
        Ringing /\ cart[n].kind = "item" => InAnyOrder(TillView(cart[n].item), cart[n].selection)

(* A combo's parts add up to what it is charged, its shares to its price,  *)
(* none of them negative nor moved by the sizes chosen; and the customer's *)
(* page, from the public menu's figures, adds for each pick what the quote *)
(* does (combo.rs quote, choice_extra; line.rs cart_line_total).           *)
PageAgrees(pick, surcharge) ==
    ChoiceExtra(MenuChoice(PickChoice(Combo, pick), pick.view.item), pick.selection.size) = surcharge

QuoteAddsUp(line, picks, parts, plain) ==
    /\ SumOf([k \in DOMAIN parts |-> parts[k].share]) = Combo.price
    /\ \A k \in DOMAIN parts : parts[k].share >= 0 /\ plain[k].share = parts[k].share
    /\ SumOf([k \in DOMAIN parts |-> parts[k].lineTotal + parts[k].addonsTotal])
           = TillUnit(line) * line.quantity
    /\ \A k \in DOMAIN parts : PageAgrees(picks[parts[k].pick], parts[k].surcharge)

AtIncludedSizes(picks) == Each(picks, LAMBDA p : [p EXCEPT !.selection.size = None])

ComboAddsUp(line, picks) ==
    QuoteAddsUp(line, picks, Quote(Combo, picks, line.quantity).parts,
                Quote(Combo, AtIncludedSizes(picks), 1).parts)

CombosAddUp ==
    \A n \in DOMAIN cart :
        Ringing /\ cart[n].kind = "combo" => ComboAddsUp(cart[n], PicksOver(cart[n], "till"))

(* The parts of BillAddsUp.  A bill is what its lines cost less what the   *)
(* staff comp and the rewards take off, no line or figure is negative, and *)
(* a table's preview shows the same.                                       *)
LinesAddUp(lines, bill, d) ==
    /\ Refusal(bill) = None /\ \A n \in DOMAIN bill.lines : bill.lines[n].net >= 0
    /\ bill.figures.subtotal = Total([n \in DOMAIN lines |-> lines[n].charged]) - bill.comp - bill.covered
    /\ d # None /\ d.kind # "manual_amount" =>
         PriceOpenBill(bill.figures.subtotal, Taken(d, bill.figures.subtotal), Policy) = bill.figures

(* The tax contained in prices that include it is the one that would be    *)
(* added to prices that do not; only a table pays service.                 *)
TaxIsContained(f) ==
    LET taxed == f.subtotal - f.discount + (IF Policy.serviceTaxable THEN f.service ELSE 0)
        added == TaxOf([Policy EXCEPT !.inclusive = FALSE], taxed)
    IN  /\ TaxOf([Policy EXCEPT !.inclusive = TRUE], taxed + added) = added
        /\ f.service > 0 => terms.channel = "dine_in" /\ ~terms.waived

(* The pool pays a choice once, though two groups list it.                 *)
PaidOnce(input, comp) ==
    /\ \A n \in DOMAIN input.picks : comp.picks[n] <= Rang(input.picks[n])
    /\ Total(comp.picks) = Total(comp.groups)

StaffLinePaidOnce(input) == PaidOnce(input, Comp(input))

(* What the drawer keeps of the notes handed over, after the change the    *)
(* server records, is the sale's cash and no more: the total and the tip,  *)
(* or the cash legs of a split.                                            *)
DrawerKeepsItsCash(total) ==
    \A over \in {0, 7}, tip \in {0, 2}, cash \in {0, 1, total} :
        LET split == <<[amount |-> cash, cash |-> TRUE], [amount |-> total - cash, cash |-> FALSE]>>
            whole == RecordedTender(<<>>, total + tip + over, ChangeDue(total + tip + over, total, tip), total)
            part == RecordedTender(split, cash + over, None, total)
        IN  /\ whole.tendered - whole.change = total + tip
            /\ ~NegativeLeg(split) /\ LegsCover(split, total) /\ part.tendered # None =>
                   part.tendered - part.change = cash

(* No bill a menu can make is refused or drifts from what it was made of,  *)
(* whatever the comp, the reward, the discount and the policy take and     *)
(* add, and however it is paid (bill.rs, tax/mod.rs, staff_comp.rs).       *)
DiscountedAddsUp(lines, d, bill) ==
    LinesAddUp(lines, bill, d) /\ TaxIsContained(bill.figures) /\ DrawerKeepsItsCash(bill.figures.total)

LinesBillAddsUp(lines) == \A d \in Discounts : DiscountedAddsUp(lines, d, TillBillOver(lines, d))

BillAddsUp ==
    Ringing /\ cart # <<>> =>
        /\ \A n \in DOMAIN cart : cart[n].staff => StaffLinePaidOnce(StaffInput(cart[n], "till"))
        /\ LinesBillAddsUp(TillLines)

(* A discount takes off the bill what it was judged on; when its value is  *)
(* finer than a piastre, or than a basis point, it is judged on the value  *)
(* rounded, and the two are a piastre apart, or what half a basis point of *)
(* the subtotal is and a piastre.  And the till asks for a manager on the  *)
(* figures the server judges, whether the client is an older one or not    *)
(* (discount.rs:14-22, 148-156).                                           *)
Exact(d) == d.preset = None \/ IF d.preset.type = "fixed" THEN d.preset.value % One = 0
                               ELSE d.preset.value % (One \div 10000) = 0

TakesAsJudged(d, subtotal, apart) ==
    CASE Exact(d) -> apart = 0
      [] ~Exact(d) /\ d.preset.type = "fixed" -> apart \in -1..1
      [] ~Exact(d) /\ d.preset.type # "fixed" ->
             LET most == NonNegative(subtotal) + 20000 IN 20000 * apart \in -most..most

AskedAsJudged(d, figures, ask) ==
    /\ ask.kind = d.kind /\ ask.cap = CapFor(d.kind)
    /\ RequestFor(ask.kind, ask.amount, ask.percent)
           = RequestFor(d.kind, figures.amount, figures.percent)

DiscountIsJudged(d, f, figures) ==
    /\ TakesAsJudged(d, f.subtotal, f.discount - figures.amount)
    /\ figures.amount > 0 =>
         \A body \in { RequestBody(d, f.subtotal), OldBody(d, f.subtotal) } :
            AskedAsJudged(d, figures, AskFrom(body, d.preset))

LinesJudged(lines) ==
    \A d \in Discounts \ {None} :
        LET f == TillBillOver(lines, d).figures
        IN  DiscountIsJudged(d, f, Figures(d.kind, d.preset, d.amount, d.bps, f.subtotal))

JudgedIsTaken == Ringing /\ cart # <<>> => LinesJudged(TillLines)

(* What is picked into a drink or a combo is charged whatever the order it *)
(* was picked in, and the parts of a combo add up to it.                   *)
PicksAddUp == PicksInAnyOrder /\ CombosAddUp
===============================================================================
