------------------------------- MODULE Checkout -------------------------------
(***************************************************************************)
(* One order under deals (madar-catalog deal.rs): at a till the teller     *)
(* adds and removes units, applies deals and takes them off, while the     *)
(* clock passes in and out of sale windows and the owner edits the rules;  *)
(* the server prices what the till names once more.                        *)
(*                                                                         *)
(* The cart and the rules' store are the apps' (external): units taken by  *)
(* a deal are not removed before the deal is taken off.                    *)
(***************************************************************************)
EXTENDS Deals

CONSTANTS
    Branch,
    Items,          \* Items[i]: the item, category, size and price of line i
    Rules,          \* Rules[id]: the forms the owner may give a deal
    DayLength,      \* ticks of a day
    FirstDay, LastDay,   \* bound: the clock
    MaxQuantity,    \* bound: units on a line
    MaxApplied,     \* bound: deals applied at once
    MaxRuleEdits        \* bound: edits of the rules

(* A form of a rule, what it reads of one; no unit of a menu costs less    *)
(* than nothing.                                                           *)
IsForm(deal) ==
    /\ deal.qty \in Int /\ {deal.price, deal.get, deal.percent, deal.max} \subseteq Int \union {None}
    /\ deal.active \in BOOLEAN

ASSUME CheckoutAssumption ==
    /\ None \notin Int
    /\ \A id \in DOMAIN Rules : id \in Nat /\ \A deal \in Rules[id] : deal.id = id /\ IsForm(deal)
    /\ IsFiniteSet(DOMAIN Items) /\ DOMAIN Items \subseteq Nat
    /\ \A i \in DOMAIN Items : Items[i].price \in Nat
    /\ DayLength \in Nat \ {0} /\ {FirstDay, LastDay, MaxQuantity} \subseteq Nat

VARIABLES
    now,        \* the branch's clock
    quantity,   \* quantity[i]: units on line i
    deals,      \* deals[id]: the rule now
    applied,    \* the applications on the order, each with the rule it used
    ruleEdits

checkoutVars == <<now, quantity, deals, applied, ruleEdits>>

Line(i, units) ==
    [item |-> Items[i].item, category |-> Items[i].category, size |-> Items[i].size,
     price |-> Items[i].price, quantity |-> units]

Lines == [i \in DOMAIN Items |-> Line(i, quantity[i])]

(* The units of line i an application asks for.                            *)
Asked(app, i) == IF i \in DOMAIN app.asked THEN app.asked[i] ELSE 0

TakenUnits(i) ==
    SumFunctionOnSet([k \in DOMAIN applied |-> Asked(applied[k].app, i)], DOMAIN applied)

(* How often an application takes a deal.                                  *)
Times(app, id) == IF app.deal = id THEN app.times ELSE 0

Used(id) ==
    SumFunctionOnSet([k \in DOMAIN applied |-> Times(applied[k].app, id)], DOMAIN applied)

(* The units no deal has taken.                                            *)
Free == [i \in DOMAIN Items |-> Line(i, quantity[i] - TakenUnits(i))]

Context == [branch |-> Branch, now |-> now, used |-> [id \in DOMAIN deals |-> Used(id)]]

NothingUsed == [Context EXCEPT !.used = [id \in DOMAIN deals |-> 0]]

Asks == UNION { [indexes -> 1..MaxQuantity] : indexes \in (SUBSET DOMAIN Items) \ {{}} }

CheckoutInit ==
    /\ now = [date |-> FirstDay, time |-> 0]
    /\ quantity = [i \in DOMAIN Items |-> 0]
    /\ deals \in { f \in [DOMAIN Rules -> UNION { Rules[id] : id \in DOMAIN Rules }] :
                       \A id \in DOMAIN Rules : f[id] \in Rules[id] }
    /\ applied = <<>>
    /\ ruleEdits = 0

-----------------------------------------------------------------------------
Tick ==
    /\ now' = IF now.time + 1 < DayLength THEN [now EXCEPT !.time = @ + 1]
              ELSE [date |-> now.date + 1, time |-> 0]
    /\ now'.date <= LastDay
    /\ UNCHANGED <<quantity, deals, applied, ruleEdits>>

AddUnit(i) ==
    /\ quantity[i] < MaxQuantity
    /\ quantity' = [quantity EXCEPT ![i] = @ + 1]
    /\ UNCHANGED <<now, deals, applied, ruleEdits>>

RemoveUnit(i) ==
    /\ Free[i].quantity > 0
    /\ quantity' = [quantity EXCEPT ![i] = @ - 1]
    /\ UNCHANGED <<now, deals, applied, ruleEdits>>

(* The teller applies a deal on some free units, suggested or not.         *)
Apply(id, asked) ==
    LET app == PriceApplication(deals[id], Free, asked, Context)
    IN  /\ Len(applied) < MaxApplied
        /\ app # NotEligible
        /\ applied' = Append(applied, [app |-> app, rule |-> deals[id]])
        /\ UNCHANGED <<now, quantity, deals, ruleEdits>>

TakeOff(k) ==
    /\ applied' = [n \in 1..(Len(applied) - 1) |-> applied[IF n < k THEN n ELSE n + 1]]
    /\ UNCHANGED <<now, quantity, deals, ruleEdits>>

EditRule(id, deal) ==
    /\ ruleEdits < MaxRuleEdits /\ ruleEdits' = ruleEdits + 1
    /\ deal # deals[id]
    /\ deals' = [deals EXCEPT ![id] = deal]
    /\ UNCHANGED <<now, quantity, applied>>

CheckoutNext ==
    \/ Tick
    \/ \E i \in DOMAIN Items : AddUnit(i) \/ RemoveUnit(i)
    \/ \E id \in DOMAIN deals, asked \in Asks : Apply(id, asked)
    \/ \E k \in DOMAIN applied : TakeOff(k)
    \/ \E id \in DOMAIN deals : \E deal \in Rules[id] : EditRule(id, deal)

CheckoutSpec == CheckoutInit /\ [][CheckoutNext]_checkoutVars

-----------------------------------------------------------------------------
(* Applications, units of lines and times taken fit the order they are on. *)
Fits(lines, apps) ==
    /\ \A i \in DOMAIN lines :
           SumFunctionOnSet([k \in DOMAIN apps |-> Asked(apps[k], i)], DOMAIN apps) <= lines[i].quantity
    /\ \A k \in DOMAIN apps :
        LET app == apps[k]
        IN  /\ app.discount = SumFunctionOnSet(app.cuts, DOMAIN app.cuts)
            /\ \A i \in DOMAIN app.cuts : app.cuts[i] \in 0..(app.asked[i] * lines[i].price)

(* However the cart and its deals were changed, no unit is in two deals    *)
(* and the cuts of a deal add up to its discount, none above the price of  *)
(* the units it covers: a deal never makes a line negative (deal.rs:23-24, *)
(* alloc.rs:27-31).                                                        *)
DealsFitTheOrder == Fits(Lines, [k \in DOMAIN applied |-> applied[k].app])

(* The server's answer to the order, its applications taken in a given     *)
(* order at the moment it arrives.                                         *)
Answered(order, answer) ==
    IF answer = NotEligible THEN [order EXCEPT !.apps = Append(@, answer)]
    ELSE Take(order, answer)

Judged(sequence) ==
    FoldLeft(LAMBDA order, k :
                 Answered(order, PriceApplication(deals[applied[k].app.deal], order.lines,
                                                  applied[k].app.asked, order.ctx)),
             [lines |-> Lines, ctx |-> NothingUsed, apps |-> <<>>], sequence).apps

(* In whatever order it judges an order's deals, the server gives each the *)
(* discount the till gave it, unless its window has closed or the rule it  *)
(* or another of its deal was taken by was edited since: that one may be   *)
(* judged to be more of the deal than it was (deal.rs:20-21, 253-259).     *)
EditedSince(id) == \E k \in DOMAIN applied : applied[k].app.deal = id /\ applied[k].rule # deals[id]

ServerAgreesInAnyOrder ==
    \A sequence \in Bijection(DOMAIN applied, DOMAIN applied) :
        LET answers == Judged([n \in DOMAIN applied |-> sequence[n]])
        IN  \A n \in DOMAIN applied :
                LET k == sequence[n]
                    id == applied[k].app.deal
                IN  \/ answers[n] = applied[k].app
                    \/ EditedSince(id)
                    \/ ~EligibleNow(deals[id], Context)

(* An order checked out online has all its deals: they fit it, none is     *)
(* taken more often than it may be, nothing that saves is left, and they   *)
(* save at least what the best suggestion did.                             *)
HasAll(order, top) ==
    LET times(id) == SumFunctionOnSet([k \in DOMAIN order.apps |-> Times(order.apps[k], id)],
                                      DOMAIN order.apps)
    IN  /\ Fits(Lines, order.apps)
        /\ \A id \in DOMAIN deals : deals[id].max # None => times(id) <= deals[id].max
        /\ Suggest(deals, order.lines, [NothingUsed EXCEPT !.used =
                                            [id \in DOMAIN deals |-> times(id)]]) = {}
        /\ top # NotEligible =>
               SumFunctionOnSet([k \in DOMAIN order.apps |-> order.apps[k].discount],
                                DOMAIN order.apps) >= top.discount

(* Whatever is in the cart and whenever it is checked out online, the      *)
(* order has all its deals and no more (deal.rs:18-19).                    *)
OnlineTakesAll ==
    applied = <<>> => HasAll(AutoApply(deals, Lines, NothingUsed), Top(deals, Lines, NothingUsed))

(* Nothing the others save is missed by the best.                          *)
NoneBetter(deal, best, others) ==
    /\ ~HasRewardPool(deal) /\ others # {} =>
           best # NotEligible /\ \A app \in others : app.discount <= best.discount
    /\ HasRewardPool(deal) /\ others # {} =>
           \/ best # NotEligible
           \/ \E i \in DOMAIN Items : InPool(deal.pool, Items[i]) /\ InPool(deal.rewardPool, Items[i])

(* A deal is suggested when some units would save under it, and a deal of  *)
(* one pool at the most any units would save.  The exception: a unit both  *)
(* pools admit may be counted as the reward where it was the buy (deal.rs  *)
(* best against price_application).                                        *)
BestIsBest ==
    \A id \in DOMAIN deals :
        NoneBetter(deals[id], Best(deals[id], Free, Context),
                   { PriceApplication(deals[id], Free, asked, Context) : asked \in Asks }
                       \ {NotEligible})

(* A window covers exactly the moments from its start on a day it is for   *)
(* to its end, that day or the next (sale_window.rs:10-15).                *)
Covers(w, day, moment) ==
    /\ Weekday(day) \in w.weekdays
    /\ w.from # None => w.from <= day
    /\ w.to # None => day <= w.to
    /\ IF w.starts = None THEN moment \div DayLength = day
       ELSE /\ w.starts # w.ends
            /\ day * DayLength + w.starts <= moment
            /\ moment < (IF w.ends < w.starts THEN day + 1 ELSE day) * DayLength + w.ends

WindowIsItsInterval ==
    \A id \in DOMAIN deals : \A w \in deals[id].windows :
        Matches(w, now) <=> \E day \in FirstDay - 1..LastDay : Covers(w, day, now.date * DayLength + now.time)

(* What a deal is offered, taken and judged by: the units it saves on and  *)
(* the moments it is for.                                                  *)
NothingThatSavesIsMissed == OnlineTakesAll /\ BestIsBest /\ WindowIsItsInterval
=============================================================================
