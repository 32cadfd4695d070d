------------------------------- MODULE Refunds -------------------------------
(***************************************************************************)
(* The tax and service charge the refunds of one order take back: what the *)
(* server books (madar-money tax/mod.rs, refund_split) and what a till     *)
(* reports while some are still queued (madar-till report.rs,              *)
(* refund_splits).                                                         *)
(*                                                                         *)
(* Tills issue refunds offline; each sends its own in the order it issued  *)
(* them, and a reply may be lost; the server books each once, split over   *)
(* the refunds already booked.  Outboxes, pages and tables are the apps'   *)
(* (external).                                                             *)
(***************************************************************************)
EXTENDS Rounding, FiniteSetsExt

CONSTANTS
    Tills,
    RefundIds,
    Orders,      \* the order's total, tax and service charge
    Amounts      \* what one refund may give back

ASSUME RefundsAssumption ==
    /\ Orders \subseteq [total : Nat, tax : Nat, service : Nat]
    /\ Amounts \subseteq Nat
    /\ None \notin [tax : Int, service : Int] /\ None \notin Tills

VARIABLES
    order,
    issued,      \* issued[r]: the till, the amount, and its place in issue order
    clock,
    outbox,      \* outbox[till]: refunds not known to have landed, in order
    known,       \* known[till]: the booked refunds the till has pulled
    book,        \* book[r]: the split the server recorded
    refunded,    \* the sums of the order's booked refunds: amount,
    takenTax,    \* tax
    takenService \* and service charge

refundsVars == <<order, issued, clock, outbox, known, book, refunded, takenTax, takenService>>

NotIssued == [till |-> None, amount |-> 0, at |-> 0]

RefundsInit ==
    /\ order \in Orders
    /\ issued = [r \in RefundIds |-> NotIssued] /\ clock = 1
    /\ outbox = [till \in Tills |-> <<>>]
    /\ known = [till \in Tills |-> {}]
    /\ book = [r \in RefundIds |-> None]
    /\ refunded = 0 /\ takenTax = 0 /\ takenService = 0

(* Mutant: each refund is split by itself.                                 *)
RefundSplitAlone(before, amount) ==
    [tax |-> Share(order.tax, AtMost(amount, order.total), order.total),
     service |-> Share(order.service, AtMost(amount, order.total), order.total)]

(* What the refunds so far and this one should have taken back, less what  *)
(* the earlier ones did; amounts are clamped to the order.                 *)
RefundSplit(before, amount) ==
    LET from == AtMost(NonNegative(before), order.total)
        upto == AtMost(NonNegative(before) + NonNegative(amount), order.total)
        part(figure) == Share(figure, upto, order.total) - Share(figure, from, order.total)
    IN  [tax |-> part(order.tax), service |-> part(order.service)]

-----------------------------------------------------------------------------
Booked == { r \in RefundIds : book[r] # None }

(* A till's refunds: what it has pulled and what it issued.                   *)
TillRefunds(till) == known[till] \union { r \in RefundIds : issued[r].till = till }

Amount(r) == issued[r].amount

AmountsOf(some) == SumFunctionOnSet([r \in some |-> Amount(r)], some)

(* Mutant: a till counts only its queue as refunded before.                *)
BeforeQueuedOnly(till, r) ==
    AmountsOf({ q \in TillRefunds(till) \ known[till] : issued[q].at < issued[r].at })

Before(till, r) ==
    AmountsOf({ q \in TillRefunds(till) : issued[q].at < issued[r].at })

(* The split the server recorded, or the till's own of a queued refund.    *)
TillSplit(till, r) ==
    IF r \in known[till] THEN book[r] ELSE RefundSplit(Before(till, r), Amount(r))

(* A till gives back no more than it believes is left of the order.        *)
Issue(till, r, amount) ==
    /\ issued[r] = NotIssued
    /\ amount + AmountsOf(TillRefunds(till)) <= order.total
    /\ issued' = [issued EXCEPT ![r] = [till |-> till, amount |-> amount, at |-> clock]]
    /\ clock' = clock + 1
    /\ outbox' = [outbox EXCEPT ![till] = Append(@, r)]
    /\ UNCHANGED <<order, known, book, refunded, takenTax, takenService>>

BookOnce(r) ==
    LET split == RefundSplit(refunded, Amount(r))
    IN  IF book[r] # None THEN UNCHANGED <<book, refunded, takenTax, takenService>>
        ELSE /\ book' = [book EXCEPT ![r] = split]
             /\ refunded' = refunded + Amount(r)
             /\ takenTax' = takenTax + split.tax
             /\ takenService' = takenService + split.service

Send(till, lost) ==
    LET r == Head(outbox[till])
    IN  /\ outbox[till] # <<>>
        /\ BookOnce(r)
        /\ IF lost THEN UNCHANGED <<outbox, known>>
           ELSE /\ outbox' = [outbox EXCEPT ![till] = Tail(@)]
                /\ known' = [known EXCEPT ![till] = @ \union {r}]
        /\ UNCHANGED <<order, issued, clock>>

Pull(till) ==
    /\ known' = [known EXCEPT ![till] = Booked]
    /\ UNCHANGED <<order, issued, clock, outbox, book, refunded, takenTax, takenService>>

RefundsNext ==
    \E till \in Tills :
        \/ \E r \in RefundIds, amount \in Amounts : Issue(till, r, amount)
        \/ \E lost \in BOOLEAN : Send(till, lost)
        \/ Pull(till)

RefundsSpec == RefundsInit /\ [][RefundsNext]_refundsVars

-----------------------------------------------------------------------------
RefundsTypeOK ==
    /\ order \in Orders
    /\ issued \in [RefundIds -> [till : Tills \union {None}, amount : Nat, at : Nat]]
    /\ clock \in Nat
    /\ outbox \in [Tills -> Seq(RefundIds)]
    /\ known \in [Tills -> SUBSET RefundIds]
    /\ book \in [RefundIds -> [tax : Nat, service : Nat] \union {None}]
    /\ refunded \in Nat /\ takenTax \in Nat /\ takenService \in Nat

(* Whatever the refunds of an order, however many and in whatever order    *)
(* they land, they never take back more than its tax and service charge,   *)
(* and once the whole order is refunded exactly that (tax/mod.rs:386-391). *)
TakesBackExactly ==
    /\ takenTax <= order.tax /\ takenService <= order.service
    /\ order.total > 0 /\ refunded >= order.total =>
           takenTax = order.tax /\ takenService = order.service

(* The split a till reported for a queued refund is the one the server     *)
(* records, when the till knew all that reached the server before it       *)
(* (report.rs:193-196).                                                    *)
ForecastHolds ==
    [][\A r \in RefundIds :
          LET till == issued[r].till
          IN  /\ book[r] = None /\ book'[r] # None
              /\ \A q \in Booked : q \in TillRefunds(till) /\ issued[q].at < issued[r].at
              => book'[r] = TillSplit(till, r)]_refundsVars
=============================================================================
