----------------------------- MODULE LoyaltySync -----------------------------
(***************************************************************************)
(* The planner of LoyaltyPlan at work: a basket and its reward board at a  *)
(* till, then one member's points spent at several tills that may be       *)
(* offline.                                                                *)
(*                                                                         *)
(* The board.  The teller adds and removes lines, asks for rewards by line *)
(* number and drops asks; a sync may bring another programme or balance    *)
(* while the basket is open.  Nothing keeps an ask in step with the line   *)
(* it named, so an ask may name a line that is gone or is now another      *)
(* item.  The basket is the till's (external); what it charges is the      *)
(* trimmed plan, and the asks it sends are that plan's lines.              *)
(*                                                                         *)
(* The points.  Each till plans against the balance and reward cost it     *)
(* last synced (trimming); an online sale is planned by the server against *)
(* the live ones (strict, refused when short); a queued sale is replayed   *)
(* in order, planned strictly against what the server holds by then, and   *)
(* when that refuses, its cover stands and no points move (lib.rs:9-28).   *)
(* The outbox, the member's ledger and the order table are the apps'       *)
(* (external).  A reply may be lost, so a sale may be replayed again after *)
(* it landed.                                                              *)
(*                                                                         *)
(* Before the first of the sales the teller may work a basket of any kind  *)
(* on the board and put it away: the planners are the same, so the two     *)
(* parts' states add up and do not multiply.                               *)
(***************************************************************************)
EXTENDS LoyaltyPlan

CONSTANTS
    LineKinds,   \* the lines a teller may add
    AskKinds,    \* the rewards a teller may ask for
    Offers,      \* programmes a sync may bring: tracks and the ceiling
    Gifts,       \* what the member's gift may be taken as
    MaxLines,    \* bound: lines in a basket
    MaxAsks,     \* bound: rewards asked
    Tills, Sales,
    Opening,     \* the member's points at the start
    Costs,       \* what a unit of the reward may cost, over time
    Earns,       \* points one sale earns
    MaxUnits,    \* bound: units on a sale's line, and asked for
    MaxChanges   \* bound: times the shop changes the cost

IsOffer(o) ==
    /\ o.cap \in Int \union {None}
    /\ \A track \in DOMAIN o.tracks : IsProgramme(o.tracks[track])

ASSUME LoyaltyAssumption ==
    /\ \A line \in LineKinds : IsLine(line)
    /\ \A a \in AskKinds : IsAsk(a)
    /\ \A o \in Offers : IsOffer(o)
    /\ IsFiniteSet(Sales) /\ None # "latte"
    /\ Opening \in Nat /\ Earns \in Nat /\ Costs \subseteq Int /\ MaxUnits \in Nat

VARIABLES
    basket, asks, offer,   \* the board
    balance,     \* the member's points at the server
    cost,        \* what a unit costs at the server
    changes,
    cached,      \* cached[till]: the balance and cost the till last synced
    outbox,      \* outbox[till]: sales not known to have landed, in order
    receipt,     \* receipt[s]: what the customer's receipt says
    landed       \* landed[s]: what the server recorded

boardVars == <<basket, asks, offer>>
syncVars == <<balance, cost, changes, cached, outbox, receipt, landed>>
vars == <<boardVars, syncVars>>

-----------------------------------------------------------------------------
BoardInit == basket = <<>> /\ asks = <<>> /\ offer \in Offers

AddLine(line) ==
    /\ Len(basket) < MaxLines
    /\ basket' = Append(basket, line)
    /\ UNCHANGED <<asks, offer>>

RemoveLine(i) ==
    /\ basket' = RemoveAt(basket, i)
    /\ UNCHANGED <<asks, offer>>

AskReward(a) ==
    /\ Len(asks) < MaxAsks
    /\ asks' = Append(asks, a)
    /\ UNCHANGED <<basket, offer>>

DropAsk(k) ==
    /\ asks' = RemoveAt(asks, k)
    /\ UNCHANGED <<basket, offer>>

Refresh(o) ==
    /\ offer' = o
    /\ UNCHANGED <<basket, asks>>

BoardNext ==
    \/ \E line \in LineKinds : AddLine(line)
    \/ \E i \in DOMAIN basket : RemoveLine(i)
    \/ \E a \in AskKinds : AskReward(a)
    \/ \E k \in DOMAIN asks : DropAsk(k)
    \/ \E o \in Offers : Refresh(o)

-----------------------------------------------------------------------------
NoSale == [units |-> -1]

OneTrack(programme) == [track \in {1} |-> programme]

Programme(view) ==
    OneTrack([rewards |-> <<[item |-> "latte", cost |-> view.cost]>>,
              anyItem |-> FALSE, anyItemCost |-> 0, balance |-> view.balance])

Basket(quantity) == <<[item |-> "latte", quantity |-> quantity,
                       staff |-> FALSE, combo |-> FALSE]>>

Asked(units) == IF units = 0 THEN <<>> ELSE <<[line |-> 1, units |-> units, track |-> 1]>>

ServerView == [balance |-> balance, cost |-> cost]

(* The reward has no price until the basket on the board is put away.      *)
NoCost == 0

SyncInit ==
    /\ balance = Opening /\ cost = NoCost /\ changes = 0
    /\ cached = [till \in Tills |-> ServerView]
    /\ outbox = [till \in Tills |-> <<>>]
    /\ receipt = [s \in Sales |-> NoSale]
    /\ landed = [s \in Sales |-> NoSale]

(* A till reads the member and the programme.                              *)
Sync(till) ==
    /\ cached' = [cached EXCEPT ![till] = ServerView]
    /\ UNCHANGED <<balance, cost, changes, outbox, receipt, landed>>

(* The shop reprices the reward.                                           *)
Reprice(c) ==
    /\ changes < MaxChanges
    /\ cost' = c /\ changes' = changes + 1
    /\ UNCHANGED <<balance, cached, outbox, receipt, landed>>

(* Record what the server charged s, and the points it earns.              *)
Land(s, plan) ==
    /\ landed' = [landed EXCEPT ![s] = [units |-> plan.units, cost |-> plan.cost,
                                        found |-> ServerView]]
    /\ balance' = balance - plan.cost + Earns

(* A sale with the server reachable: planned strictly, refused whole.      *)
SellOnline(till, s, quantity, units) ==
    LET plan == PlanStrict(Basket(quantity), Programme(ServerView), None, Asked(units))
    IN  /\ receipt[s] = NoSale
        /\ plan.refusal = None
        /\ receipt' = [receipt EXCEPT ![s] =
               [units |-> plan.units, quantity |-> quantity, seen |-> ServerView]]
        /\ Land(s, plan)
        /\ UNCHANGED <<cost, changes, cached, outbox>>

(* A sale while offline: planned by the till on what it last synced.  The  *)
(* till may or may not take the points off its own copy.                   *)
SellOffline(till, s, quantity, units) ==
    LET plan == PlanTrimmed(Basket(quantity), Programme(cached[till]), None, Asked(units))
    IN  /\ receipt[s] = NoSale
        /\ receipt' = [receipt EXCEPT ![s] =
               [units |-> plan.units, quantity |-> quantity, seen |-> cached[till]]]
        /\ outbox' = [outbox EXCEPT ![till] = Append(@, s)]
        /\ \/ UNCHANGED cached
           \/ cached' = [cached EXCEPT ![till].balance = @ - plan.cost]
        /\ UNCHANGED <<balance, cost, changes, landed>>

(* What a replayed sale is charged.                                        *)
Replayed(s) ==
    LET lines == Basket(receipt[s].quantity)
        sent  == Asked(receipt[s].units)
        plan  == PlanStrict(lines, Programme(ServerView), None, sent)
    IN  IF plan.refusal = None THEN plan ELSE ReplayLines(lines, sent)

(* Mutant: a sale that has landed is charged again.                        *)
LandAgain(s) == Land(s, Replayed(s))

(* The server takes each sale once, whatever is sent again.                *)
LandOnce(s) ==
    IF landed[s] # NoSale THEN UNCHANGED <<balance, landed>> ELSE Land(s, Replayed(s))

(* The till sends its oldest queued sale; the answer may be lost.          *)
Replay(till, lost) ==
    LET s == Head(outbox[till])
    IN  /\ outbox[till] # <<>>
        /\ LandOnce(s)
        /\ outbox' = IF lost THEN outbox ELSE [outbox EXCEPT ![till] = Tail(@)]
        /\ UNCHANGED <<cost, changes, cached, receipt>>

SyncNext ==
    \/ \E till \in Tills : Sync(till)
    \/ \E c \in Costs : Reprice(c)
    \/ \E till \in Tills, s \in Sales, q \in 1..MaxUnits, u \in 0..MaxUnits :
           SellOnline(till, s, q, u) \/ SellOffline(till, s, q, u)
    \/ \E till \in Tills, lost \in BOOLEAN : Replay(till, lost)

(* A basket on the board, before any of the sales, put away for them.      *)
NoOffer == [tracks |-> <<>>, cap |-> None]

Init == BoardInit /\ SyncInit

WorkBoard == offer # NoOffer /\ BoardNext /\ UNCHANGED syncVars

PutAway ==
    /\ offer # NoOffer
    /\ basket' = <<>> /\ asks' = <<>> /\ offer' = NoOffer
    /\ cost' \in Costs
    /\ cached' = [till \in Tills |-> [balance |-> balance, cost |-> cost']]
    /\ UNCHANGED <<balance, changes, outbox, receipt, landed>>

TakeSales == offer = NoOffer /\ SyncNext /\ UNCHANGED boardVars

Next == WorkBoard \/ PutAway \/ TakeSales

Spec == Init /\ [][Next]_vars

-----------------------------------------------------------------------------
Charged == PlanTrimmed(basket, offer.tracks, offer.cap, asks)

AsksOf(plan) ==
    [k \in DOMAIN plan.lines |-> [line |-> plan.lines[k].line,
                                  units |-> plan.lines[k].units,
                                  track |-> plan.lines[k].track]]

Answer(sent) == PlanStrict(basket, offer.tracks, offer.cap, sent)

(* What the till charges, sent as asks, is a sale the server plans the     *)
(* same way and does not refuse, whatever was trimmed (lib.rs:14-16).      *)
TrimmedIsNotRefused ==
    LET answer == Answer(AsksOf(Charged))
    IN  /\ answer.refusal = None
        /\ answer.lines = Charged.lines
        /\ answer.cost = Charged.cost /\ answer.units = Charged.units

(* The till takes nothing off a request the server would take as asked:    *)
(* of the lines both judge (the server's planner does not judge staff      *)
(* drinks), they agree on which asks need no trimming (plan.rs:5-7).       *)
TrimsOnlyWhatIsRefused ==
    LET answer == Answer(asks)
    IN  /\ (answer.refusal = None /\ \A i \in DOMAIN basket : ~basket[i].staff) =>
               Charged = answer
        /\ (/\ Charged.trimmed = None
            /\ \A k \in DOMAIN asks : UnitsAsked(asks[k]) >= 1
            /\ \A j, k \in DOMAIN asks : asks[j].line = asks[k].line => j = k) =>
               answer.refusal = None

(* The units of a line a plan covers.                                      *)
UnitsOn(plan, line) ==
    FoldLeft(LAMBDA n, p : IF p.line = line THEN n + p.units ELSE n, 0, plan.lines)

(* A gift and a reward never both cover a unit: on every line, the units   *)
(* covered fit the line's quantity (gift.rs:9-17).                         *)
CoversFitTheLine ==
    LET rewarded == { Charged.lines[k].line : k \in DOMAIN Charged.lines }
    IN  \A gift \in Gifts, i \in DOMAIN basket :
            UnitsOn(Charged, i) + (IF GiftTaken(basket, gift, i, rewarded) THEN 1 ELSE 0)
                <= AtLeast(basket[i].quantity, 0)

(* The card and the planner agree: the rewards the card shows as earned    *)
(* are the units the planner would take of a reward at that cost, no       *)
(* ceiling (card.rs:34-50 against plan.rs:281-340).                        *)
CardAgreesWithPlanner ==
    \A track \in DOMAIN offer.tracks :
        LET programme == offer.tracks[track]
        IN  \A k \in DOMAIN programme.rewards :
                LET r == programme.rewards[k]
                    many == [item |-> r.item, quantity |-> AtLeast(programme.balance, 1),
                             staff |-> FALSE, combo |-> FALSE]
                    plan == PlanTrimmed(<<many>>, OneTrack(programme), None,
                                <<[line |-> 1, units |-> many.quantity, track |-> 1]>>)
                    card == Card(programme.balance, r.cost)
                IN  r.cost > 0 /\ ListedCost(r.item, programme) = r.cost =>
                        /\ card.ready = plan.units
                        /\ card.canRedeem <=> plan.units > 0
                        /\ card.ready * r.cost + card.progress
                               = AtLeast(programme.balance, 0)

(* The till's trimming planner and the server's strict one agree on every  *)
(* basket and every request, whatever was removed or synced under it.      *)
PlannersAgree == TrimmedIsNotRefused /\ TrimsOnlyWhatIsRefused

(* A unit is given once, and given when the card says so.                  *)
GivenOnceAndAsShown == CoversFitTheLine /\ CardAgreesWithPlanner

Recorded == { s \in Sales : landed[s] # NoSale }

(* The member's points never go below zero, however many tills spent them  *)
(* while offline.                                                          *)
NeverOverdrawn == balance >= 0

(* Every sale moves points once: the balance is the opening points, what   *)
(* the landed sales earned, less what their records say they cost.         *)
PointsAddUp ==
    balance = Opening + Cardinality(Recorded) * Earns
                - SumFunction([s \in Recorded |-> landed[s].cost])

(* The sale already happened: what lands covers exactly the units on the   *)
(* customer's receipt (plan.rs:342-346).                                   *)
ReceiptStands == \A s \in Recorded : landed[s].units = receipt[s].units

(* A reward is given for no points only when the server's balance or cost  *)
(* was no longer what the till had planned on (lib.rs:14-20).              *)
FreeOnlyWhenStale ==
    \A s \in Recorded :
        landed[s].units > 0 /\ landed[s].cost = 0 => landed[s].found # receipt[s].seen

(* Every landed sale moves the points its record says, once.               *)
PointsMoveOnce == NeverOverdrawn /\ PointsAddUp

(* The receipt stands, and costs nothing only when the till was stale.     *)
GivenAsPromised == ReceiptStands /\ FreeOnlyWhenStale
=============================================================================
