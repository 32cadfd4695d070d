------------------------------ MODULE SaleProofs ------------------------------
(***************************************************************************)
(* What a sale's deals take off and its refunds take back, for every menu, *)
(* rule, cart and refund.                                                  *)
(*                                                                         *)
(* Refunds: the running sums are the share of what is refunded so far; the *)
(* split is computed cumulatively, so each booking telescopes whatever     *)
(* order it lands in.  A till's queue leaves in the order it was issued,   *)
(* so a refund being booked has none of its till's before it still queued. *)
(*                                                                         *)
(* Checkout: the units asked are cut into chunks that share none of them,  *)
(* a chunk saves no more than its units cost and splits what it saves over *)
(* them; what the units asked make of a deal depends on nothing else on    *)
(* the order, so the server, judging in any order, finds of each deal      *)
(* whose rule stands its units still free and its maximum not reached.     *)
(*                                                                         *)
(* Bill: a list's figures are its lines', so a line's comp, cover and net  *)
(* make its charge and their sums the bill's; no tax, service or net is    *)
(* below zero; rounding gives back the tax that was added; and a pick of a *)
(* staff drink is of one group, which absorbs no more than it rang at.     *)
(***************************************************************************)
EXTENDS Checkout, Sale, FoldFacts, SequenceTheorems, TLAPS

-----------------------------------------------------------------------------
(* Arithmetic of the share.                                                *)

(* Integer division by a positive number is monotone.                      *)
LEMMA DivMonotone ==
    ASSUME NEW a \in Nat, NEW b \in Nat, NEW d \in Nat \ {0}, a <= b
    PROVE  a \div d \in Nat /\ b \div d \in Nat /\ a \div d <= b \div d
  <1> DEFINE p == a \div d
             q == b \div d
  <1>1. p \in Int /\ q \in Int
    OBVIOUS
  <1>2. d * p <= a /\ a < d * p + d
    OBVIOUS
  <1>3. d * q <= b /\ b < d * q + d
    OBVIOUS
  <1> HIDE DEF p, q
  <1>4. p <= q
    <2> SUFFICES ASSUME q + 1 <= p PROVE FALSE
      BY <1>1
    <2>1. d * (q + 1) <= d * p
      BY <1>1
    <2> QED BY <2>1, <1>1, <1>2, <1>3
  <1>5. p >= 0
    <2> SUFFICES ASSUME p + 1 <= 0 PROVE FALSE
      BY <1>1
    <2>1. d * (p + 1) <= 0
      BY <1>1
    <2> QED BY <2>1, <1>1, <1>2
  <1> QED BY <1>1, <1>4, <1>5 DEF p, q

(* A share is a natural number, grows with the amount, and of the whole is *)
(* the figure itself.                                                      *)
LEMMA ShareType ==
    ASSUME NEW f \in Nat, NEW n \in Nat, NEW w \in Nat
    PROVE  Share(f, n, w) \in Nat
  <1>1. f * n \in Nat
    OBVIOUS
  <1>2. CASE w = 0
    BY <1>2 DEF Share, RoundHalfAway, NonNegative
  <1>3. CASE w > 0
    <2>1. 2 * (f * n) + w \in Nat /\ 2 * w \in Nat \ {0}
      BY <1>1, <1>3
    <2>2. (2 * (f * n) + w) \div (2 * w) \in Nat
      BY <2>1, DivMonotone
    <2> QED BY <1>1, <1>3, <2>2 DEF Share, RoundHalfAway, NonNegative
  <1> QED BY <1>2, <1>3

LEMMA ShareMonotone ==
    ASSUME NEW f \in Nat, NEW m \in Nat, NEW n \in Nat, NEW w \in Nat, m <= n
    PROVE  Share(f, m, w) <= Share(f, n, w)
  <1>1. f * m \in Nat /\ f * n \in Nat /\ f * m <= f * n
    <2>1. n - m \in Nat
      OBVIOUS
    <2>2. f * (n - m) \in Nat
      BY <2>1
    <2> QED BY <2>2
  <1>2. CASE w = 0
    BY <1>2 DEF Share, RoundHalfAway, NonNegative
  <1>3. CASE w > 0
    <2>1. /\ 2 * (f * m) + w \in Nat /\ 2 * (f * n) + w \in Nat
          /\ 2 * (f * m) + w <= 2 * (f * n) + w
          /\ 2 * w \in Nat \ {0}
      BY <1>1, <1>3
    <2>2. (2 * (f * m) + w) \div (2 * w) <= (2 * (f * n) + w) \div (2 * w)
      BY <2>1, DivMonotone
    <2> QED BY <1>1, <1>3, <2>2 DEF Share, RoundHalfAway, NonNegative
  <1> QED BY <1>2, <1>3

LEMMA ShareOfAll ==
    ASSUME NEW f \in Nat, NEW w \in Nat \ {0}
    PROVE  Share(f, w, w) = f
  <1>1. f * w \in Nat
    OBVIOUS
  <1> DEFINE q == (2 * (f * w) + w) \div (2 * w)
  <1>2. q \in Int /\ (2 * w) * q <= 2 * (f * w) + w /\ 2 * (f * w) + w < (2 * w) * q + 2 * w
    BY <1>1
  <1> HIDE DEF q
  <1>3. ~(q + 1 <= f)
    <2> SUFFICES ASSUME q + 1 <= f PROVE FALSE
      OBVIOUS
    <2>1. (2 * w) * (q + 1) <= (2 * w) * f
      BY <1>2
    <2> QED BY <2>1, <1>1, <1>2
  <1>4. ~(f + 1 <= q)
    <2> SUFFICES ASSUME f + 1 <= q PROVE FALSE
      OBVIOUS
    <2>1. (2 * w) * (f + 1) <= (2 * w) * q
      BY <1>2
    <2> QED BY <2>1, <1>1, <1>2
  <1>5. q = f
    BY <1>2, <1>3, <1>4
  <1> QED BY <1>1, <1>5 DEF q, Share, RoundHalfAway, NonNegative

LEMMA ShareOfNothing ==
    ASSUME NEW f \in Nat, NEW w \in Nat
    PROVE  Share(f, 0, w) = 0
  <1>1. CASE w = 0
    BY <1>1 DEF Share, RoundHalfAway
  <1>2. CASE w > 0
    <2> DEFINE q == w \div (2 * w)
    <2>1. q \in Int /\ (2 * w) * q <= w /\ w < (2 * w) * q + 2 * w
      BY <1>2
    <2> HIDE DEF q
    <2>2. ~(q + 1 <= 0)
      <3> SUFFICES ASSUME q + 1 <= 0 PROVE FALSE
        OBVIOUS
      <3>1. (2 * w) * (q + 1) <= 0
        BY <1>2, <2>1
      <3> QED BY <3>1, <2>1
    <2>3. ~(1 <= q)
      <3> SUFFICES ASSUME 1 <= q PROVE FALSE
        OBVIOUS
      <3>1. 2 * w <= (2 * w) * q
        BY <1>2, <2>1
      <3> QED BY <3>1, <1>2, <2>1
    <2>4. q = 0
      BY <2>1, <2>2, <2>3
    <2> QED BY <1>2, <2>4 DEF q, Share, RoundHalfAway, NonNegative
  <1> QED BY <1>1, <1>2

-----------------------------------------------------------------------------
(* What the refunds booked so far should have taken of a figure.           *)
Due(figure) == Share(figure, AtMost(refunded, order.total), order.total)

RefundsInv == RefundsTypeOK /\ takenTax = Due(order.tax) /\ takenService = Due(order.service)

LEMMA InitRefunds == RefundsInit => RefundsInv
  <1> SUFFICES ASSUME RefundsInit PROVE RefundsInv
    OBVIOUS
  <1>1. order.total \in Nat /\ order.tax \in Nat /\ order.service \in Nat
    BY RefundsAssumption DEF RefundsInit
  <1>2. AtMost(0, order.total) = 0
    BY <1>1 DEF AtMost
  <1>3. RefundsTypeOK
    BY DEF RefundsInit, RefundsTypeOK, NotIssued
  <1>4. Due(order.tax) = 0 /\ Due(order.service) = 0
    BY <1>1, <1>2, ShareOfNothing DEF RefundsInit, Due
  <1> QED BY <1>3, <1>4 DEF RefundsInit, RefundsInv

(* Booking a refund, the only step that moves the sums.                    *)
LEMMA BookKeeps ==
    ASSUME RefundsInv, NEW r \in RefundIds, BookOnce(r), order' = order
    PROVE  /\ book' \in [RefundIds -> [tax : Nat, service : Nat] \union {None}]
           /\ refunded' \in Nat /\ takenTax' \in Nat /\ takenService' \in Nat
           /\ takenTax' = Due(order.tax)' /\ takenService' = Due(order.service)'
  <1>1. CASE book[r] # None
    BY <1>1 DEF BookOnce, RefundsInv, RefundsTypeOK, Due
  <1>2. CASE book[r] = None
    <2> DEFINE w == order.total
               n == Amount(r)
               upto == AtMost(refunded + n, w)
               part(f) == Share(f, upto, w) - Due(f)
               split == RefundSplit(refunded, n)
    <2>1. /\ w \in Nat /\ order.tax \in Nat /\ order.service \in Nat
          /\ n \in Nat /\ refunded \in Nat
      BY RefundsAssumption DEF RefundsInv, RefundsTypeOK, Amount
    <2>2. ASSUME NEW f \in Nat
          PROVE  Due(f) \in Nat /\ Share(f, upto, w) \in Nat /\ part(f) \in Nat
      <3> DEFINE from == AtMost(refunded, w)
      <3>1. from \in Nat /\ upto \in Nat /\ from <= upto
        BY <2>1 DEF AtMost
      <3>2. Due(f) = Share(f, from, w)
        BY DEF Due
      <3> HIDE DEF from, upto
      <3>3. Share(f, from, w) \in Nat /\ Share(f, upto, w) \in Nat
        BY <2>1, <3>1, ShareType
      <3>4. Share(f, from, w) <= Share(f, upto, w)
        BY <2>1, <3>1, ShareMonotone
      <3> QED BY <3>2, <3>3, <3>4
    <2>3. split = [tax |-> part(order.tax), service |-> part(order.service)]
      BY <2>1 DEF RefundSplit, Due, AtMost, NonNegative
    <2>4. /\ book' = [book EXCEPT ![r] = split]
          /\ refunded' = refunded + n
          /\ takenTax' = takenTax + split.tax
          /\ takenService' = takenService + split.service
      BY <1>2 DEF BookOnce
    <2>5. Due(order.tax)' = Share(order.tax, upto, w)
          /\ Due(order.service)' = Share(order.service, upto, w)
      BY <2>4 DEF Due
    <2> HIDE DEF split, upto
    <2>6. split \in [tax : Nat, service : Nat]
      BY <2>1, <2>2, <2>3
    <2>7. takenTax' = Share(order.tax, upto, w) /\ takenService' = Share(order.service, upto, w)
      <3>1. takenTax = Due(order.tax) /\ takenService = Due(order.service)
        BY DEF RefundsInv
      <3>2. /\ split.tax = Share(order.tax, upto, w) - Due(order.tax)
            /\ split.service = Share(order.service, upto, w) - Due(order.service)
        BY <2>3
      <3>3. /\ Due(order.tax) \in Nat /\ Share(order.tax, upto, w) \in Nat
            /\ Due(order.service) \in Nat /\ Share(order.service, upto, w) \in Nat
        BY <2>1, <2>2
      <3> QED BY <2>4, <3>1, <3>2, <3>3
    <2>8. refunded' \in Nat /\ takenTax' \in Nat /\ takenService' \in Nat
      BY <2>1, <2>2, <2>4, <2>7
    <2>9. book' \in [RefundIds -> [tax : Nat, service : Nat] \union {None}]
      BY <2>4, <2>6 DEF RefundsInv, RefundsTypeOK
    <2> QED BY <2>5, <2>7, <2>8, <2>9
  <1> QED BY <1>1, <1>2

LEMMA StepRefunds == RefundsInv /\ [RefundsNext]_refundsVars => RefundsInv'
  <1> SUFFICES ASSUME RefundsInv, [RefundsNext]_refundsVars PROVE RefundsInv'
    OBVIOUS
  <1> USE DEF RefundsInv, RefundsTypeOK
  <1>1. CASE UNCHANGED refundsVars
    BY <1>1 DEF refundsVars, Due
  <1>2. ASSUME NEW till \in Tills, NEW r \in RefundIds, NEW amount \in Amounts,
               Issue(till, r, amount)
        PROVE  RefundsInv'
    <2>1. amount \in Nat
      BY RefundsAssumption
    <2>2. outbox' \in [Tills -> Seq(RefundIds)]
      BY <1>2 DEF Issue
    <2> QED BY <1>2, <2>1, <2>2 DEF Issue, Due
  <1>3. ASSUME NEW till \in Tills, NEW lost \in BOOLEAN, Send(till, lost)
        PROVE  RefundsInv'
    <2> DEFINE r == Head(outbox[till])
    <2>1. outbox[till] \in Seq(RefundIds) /\ outbox[till] # <<>>
      BY <1>3 DEF Send
    <2>2. r \in RefundIds /\ Tail(outbox[till]) \in Seq(RefundIds)
      BY <2>1
    <2>3. BookOnce(r) /\ order' = order
      BY <1>3 DEF Send
    <2> HIDE DEF r
    <2>4. /\ book' \in [RefundIds -> [tax : Nat, service : Nat] \union {None}]
          /\ refunded' \in Nat /\ takenTax' \in Nat /\ takenService' \in Nat
          /\ takenTax' = Due(order.tax)' /\ takenService' = Due(order.service)'
      BY <2>2, <2>3, BookKeeps
    <2>5. /\ issued' = issued /\ clock' = clock
          /\ outbox' \in [Tills -> Seq(RefundIds)]
          /\ known' \in [Tills -> SUBSET RefundIds]
      <3>1. CASE lost
        BY <1>3, <3>1 DEF Send
      <3>2. CASE ~lost
        <4>1. /\ outbox' = [outbox EXCEPT ![till] = Tail(outbox[till])]
              /\ known' = [known EXCEPT ![till] = known[till] \union {r}]
              /\ issued' = issued /\ clock' = clock
          BY <1>3, <3>2 DEF Send, r
        <4> QED BY <2>2, <4>1
      <3> QED BY <3>1, <3>2
    <2> QED BY <2>3, <2>4, <2>5
  <1>4. ASSUME NEW till \in Tills, Pull(till)
        PROVE  RefundsInv'
    BY <1>4 DEF Pull, Booked, Due
  <1> QED BY <1>1, <1>2, <1>3, <1>4 DEF RefundsNext

LEMMA RefundsInvariance == RefundsSpec => []RefundsInv
  BY InitRefunds, StepRefunds, PTL DEF RefundsSpec

(* Every variable keeps its type, so no split is ever negative.            *)
THEOREM SplitsNeverNegative == RefundsSpec => []RefundsTypeOK
  <1>1. RefundsInv => RefundsTypeOK
    BY DEF RefundsInv
  <1> QED BY <1>1, RefundsInvariance, PTL

(* The refunds of an order never take back more than its tax and service   *)
(* charge, and a fully refunded order exactly that.                        *)
THEOREM BooksAddUp == RefundsSpec => []TakesBackExactly
  <1>1. RefundsInv => TakesBackExactly
    <2> SUFFICES ASSUME RefundsInv PROVE TakesBackExactly
      OBVIOUS
    <2> DEFINE w == order.total
               upto == AtMost(refunded, w)
    <2>1. w \in Nat /\ order.tax \in Nat /\ order.service \in Nat /\ refunded \in Nat
      BY RefundsAssumption DEF RefundsInv, RefundsTypeOK
    <2>2. upto \in Nat /\ upto <= w /\ (refunded >= w => upto = w)
      BY <2>1 DEF AtMost
    <2> HIDE DEF upto
    <2>3. \A f \in Nat : Share(f, upto, w) <= f
      <3> SUFFICES ASSUME NEW f \in Nat PROVE Share(f, upto, w) <= f
        OBVIOUS
      <3>1. CASE w = 0
        BY <3>1 DEF Share, RoundHalfAway
      <3>2. CASE w > 0
        <4>1. Share(f, upto, w) <= Share(f, w, w)
          BY <2>1, <2>2, ShareMonotone
        <4> QED BY <2>1, <3>2, <4>1, ShareOfAll
      <3> QED BY <2>1, <3>1, <3>2
    <2>4. takenTax = Share(order.tax, upto, w) /\ takenService = Share(order.service, upto, w)
      BY DEF RefundsInv, Due, upto
    <2>5. w > 0 /\ refunded >= w => takenTax = order.tax /\ takenService = order.service
      BY <2>1, <2>2, <2>4, ShareOfAll
    <2> QED BY <2>1, <2>3, <2>4, <2>5 DEF TakesBackExactly
  <1> QED BY <1>1, RefundsInvariance, PTL

-----------------------------------------------------------------------------
(* A till's refunds leave in the order it issued them, so all of its own   *)
(* that it does not know booked wait in its outbox, the oldest at the head.*)
SentInOrder(till) ==
    /\ known[till] \subseteq Booked
    /\ \A k \in 1..Len(outbox[till]) :
          issued[outbox[till][k]].till = till /\ issued[outbox[till][k]].at > 0
    /\ \A j, k \in 1..Len(outbox[till]) :
          j < k => issued[outbox[till][j]].at < issued[outbox[till][k]].at
    /\ \A r \in RefundIds :
          issued[r].till = till =>
              r \in known[till] \/ \E k \in 1..Len(outbox[till]) : outbox[till][k] = r

QueueInv ==
    /\ IsFiniteSet(Booked) /\ refunded = AmountsOf(Booked)
    /\ clock > 0 /\ \A r \in RefundIds : issued[r].at < clock
    /\ \A r \in Booked : issued[r].at > 0
    /\ \A till \in Tills : SentInOrder(till)

(* A recorded split is never mistaken for none.                            *)
LEMMA SplitIsSome ==
    ASSUME RefundsInv, NEW r \in RefundIds
    PROVE  RefundSplit(refunded, Amount(r)) # None
<1> DEFINE w == order.total
           n == Amount(r)
           from == AtMost(refunded, w)
           upto == AtMost(refunded + n, w)
<1>1. /\ w \in Nat /\ order.tax \in Nat /\ order.service \in Nat
      /\ n \in Nat /\ refunded \in Nat
  BY RefundsAssumption DEF RefundsInv, RefundsTypeOK, Amount
<1>2. from \in Nat /\ upto \in Nat
  BY <1>1 DEF AtMost
<1>3. RefundSplit(refunded, n) =
        [tax |-> Share(order.tax, upto, w) - Share(order.tax, from, w),
         service |-> Share(order.service, upto, w) - Share(order.service, from, w)]
  BY <1>1 DEF RefundSplit, AtMost, NonNegative
<1> HIDE DEF w, n, from, upto
<1>4. \A f \in Nat : Share(f, upto, w) - Share(f, from, w) \in Int
  <2> TAKE f \in Nat
  <2>1. Share(f, upto, w) \in Nat /\ Share(f, from, w) \in Nat
    BY <1>1, <1>2, ShareType
  <2> QED BY <2>1
<1>5. RefundSplit(refunded, n) \in [tax : Int, service : Int]
  BY <1>1, <1>3, <1>4
<1> QED BY <1>5, RefundsAssumption DEF n

(* A booking adds the refund to the sum of the booked.                     *)
LEMMA BookAdds ==
    ASSUME RefundsInv, QueueInv, NEW r \in RefundIds, BookOnce(r), issued' = issued
    PROVE  /\ Booked' = Booked \union {r} /\ IsFiniteSet(Booked')
           /\ refunded' = AmountsOf(Booked)'
<1>1. \A q \in RefundIds : Amount(q) \in Int /\ Amount(q)' = Amount(q)
  BY DEF RefundsInv, RefundsTypeOK, Amount
<1>2. book \in [RefundIds -> [tax : Nat, service : Nat] \union {None}]
  BY DEF RefundsInv, RefundsTypeOK
<1>3. CASE book[r] # None
  <2>1. book' = book /\ refunded' = refunded
    BY <1>3 DEF BookOnce
  <2>2. Booked' = Booked /\ r \in Booked
    BY <1>3, <2>1 DEF Booked
  <2>3. AmountsOf(Booked)' = AmountsOf(Booked)
    BY <2>2 DEF AmountsOf, Amount
  <2> QED BY <2>1, <2>2, <2>3 DEF QueueInv
<1>4. CASE book[r] = None
  <2>1. /\ book' = [book EXCEPT ![r] = RefundSplit(refunded, Amount(r))]
        /\ refunded' = refunded + Amount(r)
    BY <1>4 DEF BookOnce
  <2>2. Booked' = Booked \union {r} /\ r \notin Booked
    BY <1>2, <1>4, <2>1, SplitIsSome DEF Booked
  <2>3. IsFiniteSet(Booked) /\ IsFiniteSet(Booked')
    BY <2>2, FS_AddElement DEF QueueInv
  <2> DEFINE B == Booked
             f == [q \in B |-> Amount(q)]
             g == [q \in B \union {r} |-> Amount(q)]
  <2>4. AmountsOf(Booked)' = SumFunctionOnSet(g, B \union {r})
    BY <2>2 DEF AmountsOf, Amount
  <2>5. refunded = SumFunctionOnSet(f, B)
    BY DEF QueueInv, AmountsOf
  <2>6. (\A q \in B : f[q] = g[q]) /\ (\A q \in B \union {r} : g[q] \in Int) /\ g[r] = Amount(r)
    BY <1>1 DEF Booked
  <2> HIDE DEF B, f, g
  <2>7. SumFunctionOnSet(f, B) = SumFunctionOnSet(g, B)
    BY <2>3, <2>6, SumSame DEF B
  <2>8. SumFunctionOnSet(g, B \union {r}) = SumFunctionOnSet(g, B) + g[r]
    BY <2>2, <2>3, <2>6, SumWith DEF B
  <2> QED BY <2>1, <2>2, <2>3, <2>4, <2>5, <2>6, <2>7, <2>8
<1> QED BY <1>3, <1>4

LEMMA InitQueue == RefundsInit => QueueInv
<1> SUFFICES ASSUME RefundsInit PROVE QueueInv
  OBVIOUS
<1>1. Booked = {} /\ IsFiniteSet({})
  BY FS_EmptySet DEF RefundsInit, Booked
<1>2. AmountsOf({}) = 0
  BY SumNothing DEF AmountsOf
<1>3. \A till \in Tills : SentInOrder(till)
  BY <1>1, RefundsAssumption DEF RefundsInit, SentInOrder, NotIssued
<1> QED BY <1>1, <1>2, <1>3 DEF RefundsInit, QueueInv, NotIssued

LEMMA IssueKeepsQueue ==
    ASSUME RefundsInv, QueueInv, NEW till \in Tills, NEW r \in RefundIds, NEW amount \in Amounts,
           Issue(till, r, amount)
    PROVE  QueueInv'
<1> DEFINE new == [till |-> till, amount |-> amount, at |-> clock]
<1>1. /\ issued \in [RefundIds -> [till : Tills \union {None}, amount : Nat, at : Nat]]
      /\ clock \in Nat /\ outbox \in [Tills -> Seq(RefundIds)]
  BY DEF RefundsInv, RefundsTypeOK
<1>2. /\ issued[r].till = None /\ issued[r].at = 0
      /\ issued' = [issued EXCEPT ![r] = new]
      /\ clock' = clock + 1
      /\ outbox' = [outbox EXCEPT ![till] = Append(outbox[till], r)]
      /\ known' = known /\ book' = book /\ refunded' = refunded
  BY DEF Issue, NotIssued
<1>3. Booked' = Booked /\ r \notin Booked
  BY <1>2 DEF Booked, QueueInv
<1>4. \A q \in RefundIds : q # r => issued'[q] = issued[q]
  BY <1>1, <1>2
<1>5. issued'[r].till = till /\ issued'[r].at = clock
  BY <1>1, <1>2
<1>6. AmountsOf(Booked)' = AmountsOf(Booked)
  <2> DEFINE f == [q \in Booked |-> Amount(q)]
             g == [q \in Booked |-> issued'[q].amount]
  <2>1. AmountsOf(Booked)' = SumFunctionOnSet(g, Booked)
    BY <1>3 DEF AmountsOf, Amount
  <2>2. f = g
    BY <1>3, <1>4 DEF Amount, Booked
  <2> QED BY <2>1, <2>2 DEF AmountsOf
<1>7. clock' > 0 /\ \A q \in RefundIds : issued'[q].at < clock'
  BY <1>1, <1>2, <1>4, <1>5 DEF QueueInv
<1>8. \A q \in Booked' : issued'[q].at > 0
  BY <1>3, <1>4 DEF QueueInv, Booked
<1>9. ASSUME NEW other \in Tills PROVE SentInOrder(other)'
  <2>0. SentInOrder(other)
    BY DEF QueueInv
  <2>1. \A k \in 1..Len(outbox[other]) : outbox[other][k] \in RefundIds /\ outbox[other][k] # r
    BY <1>1, <1>2, <2>0 DEF SentInOrder
  <2>2. CASE other # till
    <3>1. outbox'[other] = outbox[other]
      BY <1>1, <1>2, <2>2
    <3>2. \A q \in RefundIds : issued'[q].till = other => issued[q].till = other
      BY <1>4, <1>5, <2>2
    <3>3. \A k \in 1..Len(outbox[other]) : issued'[outbox[other][k]] = issued[outbox[other][k]]
      BY <1>4, <2>1
    <3>4. \A k \in 1..Len(outbox'[other]) :
              issued'[outbox'[other][k]].till = other /\ issued'[outbox'[other][k]].at > 0
      BY <2>0, <3>1, <3>3 DEF SentInOrder
    <3>5. \A j, k \in 1..Len(outbox'[other]) :
              j < k => issued'[outbox'[other][j]].at < issued'[outbox'[other][k]].at
      BY <2>0, <3>1, <3>3 DEF SentInOrder
    <3>6. \A q \in RefundIds : issued'[q].till = other =>
              q \in known'[other] \/ \E k \in 1..Len(outbox'[other]) : outbox'[other][k] = q
      BY <1>2, <2>0, <3>1, <3>2 DEF SentInOrder
    <3>7. known'[other] \subseteq Booked'
      BY <1>2, <1>3, <2>0 DEF SentInOrder
    <3> QED BY <3>4, <3>5, <3>6, <3>7 DEF SentInOrder
  <2>3. CASE other = till
    <3> DEFINE s == outbox[till]
               t == outbox'[till]
               n == Len(s)
    <3>1. /\ t = Append(s, r) /\ s \in Seq(RefundIds) /\ n \in Nat
      BY <1>1, <1>2
    <3>2. /\ Len(t) = n + 1 /\ t[n + 1] = r /\ \A k \in 1..n : t[k] = s[k] /\ s[k] \in RefundIds
      BY <3>1
    <3> HIDE DEF s, t, n
    <3>3. /\ \A k \in 1..n : s[k] # r /\ issued[s[k]].till = till /\ issued[s[k]].at > 0
          /\ \A j, k \in 1..n : j < k => issued[s[j]].at < issued[s[k]].at
          /\ \A q \in RefundIds : issued[q].till = till => q \in known[till] \/ \E k \in 1..n : s[k] = q
      BY <2>0, <2>1, <2>3 DEF SentInOrder, s, n
    <3>4. \A k \in 1..n : issued'[t[k]] = issued[s[k]] /\ issued[s[k]].at < clock
      BY <1>4, <3>2, <3>3 DEF QueueInv
    <3>5. \A k \in 1..(n + 1) : issued'[t[k]].till = till /\ issued'[t[k]].at > 0
      <4> TAKE k \in 1..(n + 1)
      <4>1. n \in Nat
        BY <3>1
      <4>2. CASE k = n + 1
        <5>1. clock > 0
          BY DEF QueueInv
        <5> QED BY <1>5, <3>2, <4>2, <5>1
      <4>3. CASE k # n + 1
        <5>1. k \in 1..n
          BY <4>1, <4>3
        <5>2. issued'[t[k]] = issued[s[k]] /\ issued[s[k]].till = till /\ issued[s[k]].at > 0
          BY <3>3, <3>4, <5>1
        <5> QED BY <5>2
      <4> QED BY <4>2, <4>3
    <3>6. \A j, k \in 1..(n + 1) : j < k => issued'[t[j]].at < issued'[t[k]].at
      <4> TAKE j, k \in 1..(n + 1)
      <4> HAVE j < k
      <4>1. j \in 1..n /\ (k \in 1..n \/ k = n + 1)
        BY <3>1
      <4> QED BY <1>5, <3>2, <3>3, <3>4, <4>1
    <3>7. \A q \in RefundIds : issued'[q].till = till =>
              q \in known[till] \/ \E k \in 1..(n + 1) : t[k] = q
      <4> TAKE q \in RefundIds
      <4> HAVE issued'[q].till = till
      <4>1. CASE q = r
        BY <3>1, <3>2, <4>1
      <4>2. CASE q # r
        <5>1. q \in known[till] \/ \E k \in 1..n : s[k] = q
          BY <1>4, <3>3, <4>2
        <5>2. \A k \in 1..n : k \in 1..(n + 1)
          BY <3>1
        <5> QED BY <3>2, <5>1, <5>2
      <4> QED BY <4>1, <4>2
    <3>8. known'[till] \subseteq Booked'
      BY <1>2, <1>3, <2>0, <2>3 DEF SentInOrder
    <3> QED BY <1>2, <2>3, <3>2, <3>5, <3>6, <3>7, <3>8 DEF SentInOrder, t
  <2> QED BY <2>2, <2>3
<1> QED BY <1>2, <1>3, <1>6, <1>7, <1>8, <1>9 DEF QueueInv

LEMMA SendKeepsQueue ==
    ASSUME RefundsInv, QueueInv, NEW till \in Tills, NEW lost \in BOOLEAN, Send(till, lost)
    PROVE  QueueInv'
<1> DEFINE s == outbox[till]
           r == Head(s)
<1>1. s \in Seq(RefundIds) /\ s # <<>> /\ outbox \in [Tills -> Seq(RefundIds)]
      /\ known \in [Tills -> SUBSET RefundIds]
  BY DEF RefundsInv, RefundsTypeOK, Send
<1>2. /\ r \in RefundIds /\ r = s[1] /\ Len(s) \in Nat /\ 1 \in 1..Len(s)
      /\ Tail(s) \in Seq(RefundIds) /\ Len(Tail(s)) = Len(s) - 1
      /\ \A k \in 1..(Len(s) - 1) : k + 1 \in 1..Len(s) /\ Tail(s)[k] = s[k + 1]
  BY <1>1
<1>3. BookOnce(r) /\ issued' = issued /\ clock' = clock
  BY DEF Send
<1>4. SentInOrder(till)
  BY DEF QueueInv
<1>5. /\ Booked' = Booked \union {r} /\ IsFiniteSet(Booked')
      /\ refunded' = AmountsOf(Booked)'
  BY <1>2, <1>3, BookAdds
<1>6. issued[r].at > 0
  BY <1>2, <1>4 DEF SentInOrder
<1>7. ASSUME NEW other \in Tills PROVE SentInOrder(other)'
  <2>0. SentInOrder(other)
    BY DEF QueueInv
  <2>1. CASE lost \/ other # till
    <3>1. outbox'[other] = outbox[other] /\ known'[other] = known[other]
      BY <1>1, <2>1 DEF Send
    <3> QED BY <1>3, <1>5, <2>0, <3>1 DEF SentInOrder
  <2>2. CASE ~lost /\ other = till
    <3> DEFINE t == outbox'[till]
    <3>1. t = Tail(s) /\ known'[till] = known[till] \union {r}
      BY <1>1, <2>2 DEF Send
    <3>2. /\ \A k \in 1..Len(s) : issued[s[k]].till = till /\ issued[s[k]].at > 0
          /\ \A j, k \in 1..Len(s) : j < k => issued[s[j]].at < issued[s[k]].at
          /\ \A q \in RefundIds : issued[q].till = till =>
                 q \in known[till] \/ \E k \in 1..Len(s) : s[k] = q
          /\ known[till] \subseteq Booked
      BY <1>4 DEF SentInOrder
    <3> HIDE DEF s, r, t
    <3>3. Len(t) = Len(s) - 1 /\ \A k \in 1..Len(t) : k + 1 \in 1..Len(s) /\ t[k] = s[k + 1]
      BY <1>2, <3>1
    <3>4. \A j, k \in 1..Len(t) : j < k => issued[t[j]].at < issued[t[k]].at
      <4> TAKE j, k \in 1..Len(t)
      <4> HAVE j < k
      <4>1. j + 1 < k + 1
        OBVIOUS
      <4> QED BY <3>2, <3>3, <4>1
    <3>5. \A q \in RefundIds : issued[q].till = till =>
              q \in known'[till] \/ \E k \in 1..Len(t) : t[k] = q
      <4> TAKE q \in RefundIds
      <4> HAVE issued[q].till = till
      <4> SUFFICES ASSUME q \notin known'[till] PROVE \E k \in 1..Len(t) : t[k] = q
        OBVIOUS
      <4>1. q \notin known[till] /\ q # s[1]
        BY <1>2, <3>1
      <4>2. PICK k \in 1..Len(s) : s[k] = q
        BY <3>2, <4>1
      <4>3. k # 1
        BY <4>1, <4>2
      <4>4. k - 1 \in 1..Len(t) /\ (k - 1) + 1 = k
        BY <1>2, <3>3, <4>3
      <4> QED BY <3>3, <4>2, <4>4
    <3>6. \A k \in 1..Len(t) : issued[t[k]].till = till /\ issued[t[k]].at > 0
      BY <3>2, <3>3
    <3>7. known'[till] \subseteq Booked'
      BY <1>5, <3>1, <3>2
    <3> QED BY <1>3, <2>2, <3>4, <3>5, <3>6, <3>7 DEF SentInOrder, t
  <2> QED BY <2>1, <2>2
<1>8. (\A q \in RefundIds : issued'[q].at < clock') /\ clock' > 0
  BY <1>3 DEF QueueInv
<1>9. \A q \in Booked' : issued'[q].at > 0
  BY <1>3, <1>5, <1>6 DEF QueueInv
<1> QED BY <1>5, <1>7, <1>8, <1>9 DEF QueueInv

LEMMA StepQueue == RefundsInv /\ QueueInv /\ [RefundsNext]_refundsVars => QueueInv'
<1> SUFFICES ASSUME RefundsInv, QueueInv, [RefundsNext]_refundsVars PROVE QueueInv'
  OBVIOUS
<1>1. CASE UNCHANGED refundsVars
  BY <1>1 DEF refundsVars, QueueInv, SentInOrder, Booked, AmountsOf, Amount
<1>2. ASSUME NEW till \in Tills, Pull(till) PROVE QueueInv'
  <2>1. /\ known' = [known EXCEPT ![till] = Booked] /\ outbox' = outbox /\ issued' = issued
        /\ book' = book /\ refunded' = refunded /\ clock' = clock
    BY <1>2 DEF Pull
  <2>2. known \in [Tills -> SUBSET RefundIds]
    BY DEF RefundsInv, RefundsTypeOK
  <2>3. Booked' = Booked /\ AmountsOf(Booked)' = AmountsOf(Booked)
    BY <2>1 DEF Booked, AmountsOf, Amount
  <2>4. ASSUME NEW other \in Tills PROVE SentInOrder(other)'
    <3>1. SentInOrder(other)
      BY DEF QueueInv
    <3>2. known'[other] \subseteq Booked' /\ known[other] \subseteq known'[other]
      BY <2>1, <2>2, <2>3, <3>1 DEF SentInOrder
    <3> QED BY <2>1, <3>1, <3>2 DEF SentInOrder
  <2> QED BY <2>1, <2>3, <2>4 DEF QueueInv
<1> QED BY <1>1, <1>2, IssueKeepsQueue, SendKeepsQueue DEF RefundsNext

(* The split a till shows for a queued refund is the one the server books, *)
(* when all the server booked before is among what the till counts before  *)
(* it: what a till sends first it issued first, so it counts nothing else. *)
LEMMA HeadForecast ==
    ASSUME RefundsInv, QueueInv, NEW r \in RefundIds, [RefundsNext]_refundsVars,
           book[r] = None, book'[r] # None,
           \A q \in Booked : q \in TillRefunds(issued[r].till) /\ issued[q].at < issued[r].at
    PROVE  book'[r] = TillSplit(issued[r].till, r)
<1>1. PICK till \in Tills : \E lost \in BOOLEAN : Send(till, lost)
  BY DEF RefundsNext, refundsVars, Issue, Pull
<1> DEFINE s == outbox[till]
<1>2. s # <<>> /\ BookOnce(Head(s)) /\ s \in Seq(RefundIds)
  BY <1>1 DEF Send, RefundsInv, RefundsTypeOK
<1>3. Head(s) = s[1] /\ s[1] \in RefundIds /\ 1 \in 1..Len(s) /\ Len(s) \in Nat
  BY <1>2
<1>4. book \in [RefundIds -> [tax : Nat, service : Nat] \union {None}]
      /\ issued \in [RefundIds -> [till : Tills \union {None}, amount : Nat, at : Nat]]
  BY DEF RefundsInv, RefundsTypeOK
<1> HIDE DEF s
<1>5. r = s[1] /\ book'[r] = RefundSplit(refunded, Amount(r))
  BY <1>2, <1>3, <1>4 DEF BookOnce
<1>6. /\ known[till] \subseteq Booked
      /\ \A k \in 1..Len(s) : issued[s[k]].till = till
      /\ \A j, k \in 1..Len(s) : j < k => issued[s[j]].at < issued[s[k]].at
      /\ \A q \in RefundIds : issued[q].till = till =>
             q \in known[till] \/ \E k \in 1..Len(s) : s[k] = q
  BY DEF QueueInv, SentInOrder, s
<1>7. issued[r].till = till /\ r \notin known[till]
  BY <1>3, <1>5, <1>6 DEF Booked
<1>8. { q \in TillRefunds(till) : issued[q].at < issued[r].at } = Booked
  <2>1. ASSUME NEW q \in TillRefunds(till), issued[q].at < issued[r].at PROVE q \in Booked
    <3>1. CASE q \in known[till]
      BY <1>6, <3>1
    <3>2. CASE q \notin known[till]
      <4>1. q \in RefundIds /\ issued[q].till = till
        BY <2>1, <3>2 DEF TillRefunds
      <4>2. PICK k \in 1..Len(s) : s[k] = q
        BY <1>6, <3>2, <4>1
      <4>3. issued[q].at \in Nat /\ issued[r].at \in Nat
        BY <1>4, <4>1
      <4>4. k = 1 \/ 1 < k
        BY <1>3
      <4> QED BY <1>3, <1>5, <1>6, <2>1, <4>2, <4>3, <4>4
    <3> QED BY <3>1, <3>2
  <2> QED BY <1>7, <2>1
<1>9. Before(till, r) = refunded
  BY <1>8 DEF Before, QueueInv
<1> QED BY <1>5, <1>7, <1>9 DEF TillSplit

(* A till that knew all the server had booked forecast the split that the  *)
(* server records, whatever else was queued, lost and sent again           *)
(* (report.rs:193-196).                                                    *)
THEOREM ForecastStands == RefundsSpec => ForecastHolds
<1>1. RefundsInv /\ QueueInv /\ [RefundsNext]_refundsVars =>
        [\A r \in RefundIds :
            LET till == issued[r].till
            IN  /\ book[r] = None /\ book'[r] # None
                /\ \A q \in Booked : q \in TillRefunds(till) /\ issued[q].at < issued[r].at
                => book'[r] = TillSplit(till, r)]_refundsVars
  BY HeadForecast
<1>2. RefundsSpec => []QueueInv
  BY InitQueue, StepQueue, RefundsInvariance, PTL DEF RefundsSpec
<1> QED BY <1>1, <1>2, RefundsInvariance, PTL DEF RefundsSpec, ForecastHolds

-----------------------------------------------------------------------------
(* Sums of a split.                                                        *)

(* Nothing summed exceeds m each: the sum does not exceed m times as many. *)
LEMMA SumUpTo ==
    ASSUME NEW f, NEW S, IsFiniteSet(S), NEW m \in Int, \A x \in S : f[x] \in Int /\ f[x] <= m
    PROVE  SumFunctionOnSet(f, S) <= m * Cardinality(S)
<1> DEFINE bad == { s \in SUBSET S : ~(SumFunctionOnSet(f, s) <= m * Cardinality(s)) }
<1> SUFFICES ASSUME bad # {} PROVE FALSE
  BY FS_Subset
<1>0. bad \in SUBSET (SUBSET S)
  OBVIOUS
<1>1. PICK s \in bad : \A u \in bad : u \subseteq s => u = s
  <2> HIDE DEF bad
  <2> QED BY <1>0, SmallestSubset
<1>2. IsFiniteSet(s)
  BY FS_Subset
<1>3. CASE s = {}
  <2>1. SumFunctionOnSet(f, s) = 0 /\ Cardinality(s) = 0
    BY <1>3, SumNothing, FS_EmptySet
  <2>2. 0 <= m * 0
    OBVIOUS
  <2> QED BY <1>1, <2>1, <2>2
<1>4. CASE s # {}
  <2> DEFINE x == AnyOf(s)
             r == s \ {x}
  <2>1. x \in s
    BY <1>4 DEF AnyOf
  <2>2. SumFunctionOnSet(f, r) <= m * Cardinality(r)
    BY <1>1, <2>1
  <2>3. SumFunctionOnSet(f, s) = f[x] + SumFunctionOnSet(f, r)
    BY <1>2, <1>4, SumStep
  <2>4. IsFiniteSet(r) /\ Cardinality(r) = Cardinality(s) - 1 /\ Cardinality(s) \in Nat
    BY <1>2, <2>1, FS_RemoveElement, FS_CardinalityType
  <2>5. f[x] \in Int /\ f[x] <= m
    BY <2>1
  <2>6. SumFunctionOnSet(f, r) \in Int
    <3>1. \A y \in r : f[y] \in Int
      OBVIOUS
    <3> HIDE DEF r
    <3> QED BY <2>4, <3>1, SumType
  <2>7. SumFunctionOnSet(f, s) \notin Int \/ ~(SumFunctionOnSet(f, s) <= m * Cardinality(s))
    BY <1>1
  <2> HIDE DEF x, r, bad
  <2>8. m * (Cardinality(s) - 1) = m * Cardinality(s) - m /\ m * Cardinality(s) \in Int
    BY <2>4
  <2> QED BY <2>2, <2>3, <2>4, <2>5, <2>6, <2>7, <2>8
<1> QED BY <1>3, <1>4

(* A greater set of naturals has no lesser sum.                            *)
LEMMA SumGrows ==
    ASSUME NEW f, NEW S, NEW T, IsFiniteSet(T), S \subseteq T, \A x \in T : f[x] \in Nat
    PROVE  SumFunctionOnSet(f, S) \in Nat /\ SumFunctionOnSet(f, S) <= SumFunctionOnSet(f, T)
<1> DEFINE R == T \ S
<1>1. IsFiniteSet(S) /\ IsFiniteSet(R) /\ S \intersect R = {} /\ S \union R = T
  BY FS_Subset, FS_Difference
<1>2. (\A x \in S : f[x] \in Nat) /\ (\A x \in R : f[x] \in Nat) /\ \A x \in S \union R : f[x] \in Int
  OBVIOUS
<1> HIDE DEF R
<1>3. SumFunctionOnSet(f, S) \in Nat
  BY <1>1, <1>2, SumNat
<1>4. SumFunctionOnSet(f, R) \in Nat
  BY <1>1, <1>2, SumNat
<1>5. SumFunctionOnSet(f, S \union R) = SumFunctionOnSet(f, S) + SumFunctionOnSet(f, R)
  BY <1>1, <1>2, SumApart
<1>6. SumFunctionOnSet(f, T) = SumFunctionOnSet(f, S) + SumFunctionOnSet(f, R)
  BY <1>1, <1>5, Zenon
<1> QED BY <1>3, <1>4, <1>6

-----------------------------------------------------------------------------
(* Sorting units: the number of dearer ones is a unit's place, and every   *)
(* place has its unit.                                                     *)
AreUnits(lines, units) ==
    /\ IsFiniteSet(units) /\ units \subseteq Int \X Int
    /\ \A u \in units : u[1] \in DOMAIN lines /\ lines[u[1]].price \in Int

LEMMA DearerIsAnOrder ==
    ASSUME NEW lines, NEW units, AreUnits(lines, units), NEW u \in units, NEW v \in units
    PROVE  /\ ~Dearer(lines, u, u)
           /\ u # v => Dearer(lines, u, v) \/ Dearer(lines, v, u)
           /\ \A w \in units : Dearer(lines, u, v) /\ Dearer(lines, v, w) => Dearer(lines, u, w)
<1>1. \A x \in units : x = <<x[1], x[2]>> /\ x[1] \in Int /\ x[2] \in Int /\ lines[x[1]].price \in Int
  BY DEF AreUnits
<1>2. u # v => u[1] # v[1] \/ u[2] # v[2]
  BY <1>1
<1>3. ~Dearer(lines, u, u)
  BY <1>1 DEF Dearer
<1>4. u # v => Dearer(lines, u, v) \/ Dearer(lines, v, u)
  BY <1>1, <1>2 DEF Dearer
<1>5. ASSUME NEW w \in units, Dearer(lines, u, v), Dearer(lines, v, w)
      PROVE  Dearer(lines, u, w)
  BY <1>1, <1>5 DEF Dearer
<1> QED BY <1>3, <1>4, <1>5

Above(lines, units, u) == { v \in units : Dearer(lines, v, u) }

Rank(lines, units) == [u \in units |-> Cardinality(Above(lines, units, u))]

(* The dearer of two has the lower rank.                                   *)
LEMMA RankFalls ==
    ASSUME NEW lines, NEW units, AreUnits(lines, units), NEW u \in units, NEW v \in units,
           Dearer(lines, u, v)
    PROVE  Cardinality(Above(lines, units, u)) < Cardinality(Above(lines, units, v))
<1> DEFINE a == Above(lines, units, u)
           b == Above(lines, units, v)
<1>1. a \subseteq b /\ u \in b /\ u \notin a
  BY DearerIsAnOrder DEF Above
<1>2. IsFiniteSet(b)
  BY FS_Subset DEF AreUnits, Above
<1> HIDE DEF a, b
<1>3. Cardinality(a) <= Cardinality(b) /\ (Cardinality(b) = Cardinality(a) => a = b)
  BY <1>1, <1>2, FS_Subset
<1>4. Cardinality(a) \in Nat /\ Cardinality(b) \in Nat
  BY <1>1, <1>2, FS_Subset, FS_CardinalityType
<1>5. Cardinality(a) < Cardinality(b)
  BY <1>1, <1>3, <1>4
<1> QED BY <1>5 DEF a, b

LEMMA RankIsOne ==
    ASSUME NEW lines, NEW units, AreUnits(lines, units), NEW u \in units, NEW v \in units,
           Cardinality(Above(lines, units, u)) = Cardinality(Above(lines, units, v))
    PROVE  u = v
<1> SUFFICES ASSUME u # v PROVE FALSE
  OBVIOUS
<1>1. Dearer(lines, u, v) \/ Dearer(lines, v, u)
  BY DearerIsAnOrder
<1>2. /\ Above(lines, units, u) \subseteq units /\ Above(lines, units, v) \subseteq units
      /\ IsFiniteSet(units)
  BY DEF Above, AreUnits
<1>3. Cardinality(Above(lines, units, u)) \in Nat /\ Cardinality(Above(lines, units, v)) \in Nat
  BY <1>2, FS_Subset, FS_CardinalityType
<1>4. \/ Cardinality(Above(lines, units, u)) < Cardinality(Above(lines, units, v))
      \/ Cardinality(Above(lines, units, v)) < Cardinality(Above(lines, units, u))
  BY <1>1, RankFalls
<1> QED BY <1>3, <1>4

(* Every place up to the last is the rank of a unit.                       *)
LEMMA RankIsOnto ==
    ASSUME NEW lines, NEW units, AreUnits(lines, units), NEW n \in 1..Cardinality(units)
    PROVE  \E u \in units : Cardinality(Above(lines, units, u)) = n - 1
<1> DEFINE c == Cardinality(units)
           rank == Rank(lines, units)
<1>1. IsFiniteSet(units) /\ c \in Nat
  BY FS_CardinalityType DEF AreUnits
<1>2. \A u \in units : rank[u] = Cardinality(Above(lines, units, u)) /\ rank[u] \in 0..(c - 1)
  <2> TAKE u \in units
  <2>1. Above(lines, units, u) \subseteq units /\ u \notin Above(lines, units, u)
    BY DearerIsAnOrder DEF Above
  <2>2. /\ Cardinality(Above(lines, units, u)) <= c
        /\ c = Cardinality(Above(lines, units, u)) => units = Above(lines, units, u)
        /\ IsFiniteSet(Above(lines, units, u))
    BY <1>1, <2>1, FS_Subset
  <2>3. Cardinality(Above(lines, units, u)) \in Nat
    BY <2>2, FS_CardinalityType
  <2>4. rank[u] = Cardinality(Above(lines, units, u))
    BY DEF Rank
  <2> HIDE DEF c, rank
  <2> QED BY <1>1, <2>1, <2>2, <2>3, <2>4
<1>3. rank \in [units -> 0..(c - 1)]
  BY <1>2 DEF Rank
<1>4. \A u, v \in units : rank[u] = rank[v] => u = v
  BY <1>2, RankIsOne
<1> HIDE DEF rank
<1>5. rank \in Injection(units, 0..(c - 1))
  BY <1>3, <1>4 DEF Injection, IsInjective
<1>6. IsFiniteSet(0..(c - 1)) /\ Cardinality(0..(c - 1)) = c
  <2> HIDE DEF c
  <2>1. 0 \in Int /\ c - 1 \in Int /\ (0 > c - 1 <=> c = 0)
    BY <1>1
  <2>2. /\ IsFiniteSet(0..(c - 1))
        /\ Cardinality(0..(c - 1)) = IF 0 > c - 1 THEN 0 ELSE (c - 1) - 0 + 1
    BY <2>1, FS_Interval
  <2> QED BY <1>1, <2>1, <2>2
<1>7. rank \in Surjection(units, 0..(c - 1))
  BY <1>5, <1>6, FS_Injection
<1>8. n - 1 \in 0..(c - 1)
  BY <1>1
<1>9. \E u \in units : rank[u] = n - 1
  BY <1>7, <1>8 DEF Surjection
<1> QED BY <1>2, <1>9

(* The sorted units are the units, each once.                              *)
LEMMA SortedIs ==
    ASSUME NEW lines, NEW units, AreUnits(lines, units)
    PROVE  /\ Cardinality(units) \in Nat
           /\ Sorted(lines, units) \in [1..Cardinality(units) -> units]
           /\ \A m, n \in 1..Cardinality(units) :
                  Sorted(lines, units)[m] = Sorted(lines, units)[n] => m = n
           /\ \A n \in 1..Cardinality(units) :
                  Cardinality(Above(lines, units, Sorted(lines, units)[n])) = n - 1
<1> DEFINE c == Cardinality(units)
           s == Sorted(lines, units)
<1>1. c \in Nat
  BY FS_CardinalityType DEF AreUnits
<1>2. \A n \in 1..c : s[n] \in units /\ Cardinality(Above(lines, units, s[n])) = n - 1
  <2> TAKE n \in 1..c
  <2>1. s[n] = CHOOSE u \in units : Cardinality(Above(lines, units, u)) = n - 1
    BY DEF Sorted, Above
  <2>2. \E u \in units : Cardinality(Above(lines, units, u)) = n - 1
    BY RankIsOnto
  <2> HIDE DEF s, c
  <2> QED BY <2>1, <2>2
<1>4. s \in [1..c -> units]
  BY <1>2 DEF Sorted, Above
<1> HIDE DEF s
<1>5. \A m, n \in 1..c : s[m] = s[n] => m = n
  BY <1>1, <1>2
<1> QED BY <1>1, <1>2, <1>4, <1>5 DEF s

-----------------------------------------------------------------------------
(* What a running sum defines.                                             *)
IsRunning(w, n, sum) == sum = [k \in 0..n |-> IF k = 0 THEN 0 ELSE sum[k - 1] + w[k]]

(* A running sum ends in the sum.                                          *)
LEMMA RunningIs ==
    ASSUME NEW n \in Nat, NEW w \in [1..n -> Nat]
    PROVE  /\ Len(w) = n
           /\ Running(w)[0] = 0
           /\ \A k \in 1..n : Running(w)[k] = Running(w)[k - 1] + w[k]
           /\ \A k \in 0..n : /\ Running(w)[k] = SumFunctionOnSet(w, 1..k)
                              /\ Running(w)[k] \in Nat
<1> DEFINE f == [k \in 0..n |-> SumFunctionOnSet(w, 1..k)]
           r == CHOOSE sum : IsRunning(w, n, sum)
<1>1. Len(w) = n
  OBVIOUS
<1>2. \A k \in 0..n : IsFiniteSet(1..k) /\ (\A x \in 1..k : w[x] \in Nat) /\ SumFunctionOnSet(w, 1..k) \in Nat
  <2> TAKE k \in 0..n
  <2>1. k \in Int /\ 1 \in Int /\ \A x \in 1..k : w[x] \in Nat
    OBVIOUS
  <2>2. IsFiniteSet(1..k)
    BY <2>1, FS_Interval
  <2> QED BY <2>1, <2>2, SumNat
<1>3. SumFunctionOnSet(w, 1..0) = 0
  <2>1. 1..0 = {}
    OBVIOUS
  <2> QED BY <2>1, SumNothing
<1>4. \A k \in 1..n : SumFunctionOnSet(w, 1..k) = SumFunctionOnSet(w, 1..(k - 1)) + w[k]
  <2> TAKE k \in 1..n
  <2>1. 1..k = 1..(k - 1) \union {k} /\ k \notin 1..(k - 1) /\ k - 1 \in 0..n
    OBVIOUS
  <2>2. \A y \in 1..(k - 1) \union {k} : w[y] \in Int
    OBVIOUS
  <2>3. SumFunctionOnSet(w, 1..(k - 1) \union {k}) = SumFunctionOnSet(w, 1..(k - 1)) + w[k]
    BY <1>2, <2>1, <2>2, SumWith
  <2> QED BY <2>1, <2>3
<1>5. IsRunning(w, n, f)
  <2>1. \A k \in 0..n : f[k] = IF k = 0 THEN 0 ELSE f[k - 1] + w[k]
    BY <1>3, <1>4
  <2>2. f = [k \in 0..n |-> f[k]]
    OBVIOUS
  <2> HIDE DEF f
  <2> QED BY <2>1, <2>2 DEF IsRunning
<1>6. IsRunning(w, n, r)
  <2> HIDE DEF f
  <2> QED BY <1>5
<1>7. Running(w) = r
  BY <1>1 DEF Running, IsRunning
<1> HIDE DEF r, f
<1>8. /\ r[0] = 0
      /\ \A k \in 1..n : r[k] = r[k - 1] + w[k]
  <2>1. \A k \in 0..n : r[k] = IF k = 0 THEN 0 ELSE r[k - 1] + w[k]
    BY <1>6 DEF IsRunning
  <2> QED BY <2>1
<1>9. \A k \in 0..n : r[k] = SumFunctionOnSet(w, 1..k)
  <2> DEFINE T == { k \in 0..n : r[k] = SumFunctionOnSet(w, 1..k) }
  <2>1. 0 \in T
    BY <1>3, <1>8
  <2>2. \A k \in 1..n : k - 1 \in T => k \in T
    BY <1>4, <1>8
  <2>3. \A k \in 0..n : k \in T
    <3> HIDE DEF T
    <3> QED BY <2>1, <2>2, Upward
  <2> QED BY <2>3
<1> QED BY <1>1, <1>2, <1>7, <1>8, <1>9

(* A weight's share of a total of no more than the weights is no more than *)
(* the weight.                                                             *)
LEMMA ShareStep ==
    ASSUME NEW t \in Nat, NEW a \in Nat, NEW w \in Nat, NEW sum \in Nat \ {0}, t <= sum
    PROVE  Share(t, a + w, sum) - Share(t, a, sum) \in 0..w
<1> DEFINE p == 2 * (t * a) + sum
           q == 2 * (t * (a + w)) + sum
           d == 2 * sum
<1>1. p \in Nat /\ q \in Nat /\ d \in Nat \ {0} /\ t * a \in Nat /\ t * (a + w) \in Nat
  OBVIOUS
<1>2. q <= p + d * w
  <2>1. t * (a + w) = t * a + t * w /\ t * w \in Nat
    OBVIOUS
  <2>2. t * w <= sum * w
    OBVIOUS
  <2>3. d * w = 2 * (sum * w) /\ sum * w \in Nat
    OBVIOUS
  <2> HIDE DEF d
  <2> QED BY <1>1, <2>1, <2>2, <2>3
<1>3. Share(t, a, sum) = p \div d /\ Share(t, a + w, sum) = q \div d
  BY <1>1 DEF Share, RoundHalfAway, NonNegative
<1>4. Share(t, a, sum) <= Share(t, a + w, sum)
  BY ShareMonotone
<1> HIDE DEF p, q, d
<1> DEFINE x == p \div d
           y == q \div d
<1>5. x \in Int /\ y \in Int /\ p < d * x + d /\ d * y <= q
  BY <1>1
<1> HIDE DEF x, y
<1>6. y <= x + w
  <2> SUFFICES ASSUME x + w + 1 <= y PROVE FALSE
    BY <1>5
  <2>1. d * (x + w + 1) <= d * y
    BY <1>1, <1>5
  <2>2. d * (x + w + 1) = d * x + d * w + d /\ d * x \in Int /\ d * w \in Int
    BY <1>1, <1>5
  <2>3. d * y \in Int
    BY <1>1, <1>5
  <2> QED BY <1>1, <1>2, <1>5, <2>1, <2>2, <2>3
<1> QED BY <1>3, <1>4, <1>5, <1>6 DEF x, y

(* A total of no more than its weights is split into shares none above its *)
(* weight, and they add up to it.                                          *)
LEMMA SplitFits ==
    ASSUME NEW n \in Nat, NEW weights \in [1..n -> Nat], NEW total \in Nat,
           total <= SumFunctionOnSet(weights, 1..n)
    PROVE  /\ DOMAIN Split(total, weights) = 1..n
           /\ \A k \in 1..n : Split(total, weights)[k] \in 0..weights[k]
           /\ SumFunctionOnSet(Split(total, weights), 1..n) = total
<1> DEFINE w == Counted(weights)
           r == Running(w)
           upto == [k \in 0..n |-> Share(total, r[k], r[n])]
           s == Split(total, weights)
<1>1. \A k \in 1..n : weights[k] \in Nat /\ NonNegative(weights[k]) = weights[k]
  BY DEF NonNegative
<1>2. w = IF \A k \in 1..n : weights[k] = 0 THEN [k \in 1..n |-> 1] ELSE weights
  BY <1>1 DEF Counted
<1>3. w \in [1..n -> Nat]
  BY <1>2
<1> HIDE DEF w
<1>4. /\ Len(w) = n /\ r[0] = 0
      /\ \A k \in 1..n : r[k] = r[k - 1] + w[k]
      /\ \A k \in 0..n : r[k] = SumFunctionOnSet(w, 1..k) /\ r[k] \in Nat
  BY <1>3, RunningIs
<1>5. DOMAIN s = 1..n /\ \A k \in 1..n : s[k] = Share(total, r[k], r[n]) - Share(total, r[k - 1], r[n])
  BY <1>3, <1>4 DEF Split, w
<1> HIDE DEF r, s
<1>6. \A k \in 0..n : upto[k] = Share(total, r[k], r[n])
  OBVIOUS
<1>7. \A k \in 1..n : s[k] = upto[k] - upto[k - 1]
  BY <1>5, <1>6
<1>8. \A k \in 0..n : upto[k] \in Nat
  <2> TAKE k \in 0..n
  <2>1. r[k] \in Nat /\ r[n] \in Nat
    BY <1>4
  <2>2. Share(total, r[k], r[n]) \in Nat
    BY <2>1, ShareType
  <2> QED BY <1>6, <2>2
<1>9. upto[0] = 0
  BY <1>4, ShareOfNothing
<1>10. (n = 0 \/ r[n] = 0) => total = 0
  <2>1. CASE n = 0
    <3>1. 1..n = {}
      BY <2>1
    <3> QED BY <3>1, SumNothing
  <2>2. CASE r[n] = 0
    <3>1. SumFunctionOnSet(w, 1..n) = 0
      BY <1>4, <2>2
    <3>2. CASE w = weights
      BY <3>1, <3>2
    <3>3. CASE w # weights /\ n # 0
      <4>1. w[1] = 1
        BY <1>2, <3>3
      <4>2. {1} \subseteq 1..n
        BY <3>3
      <4>3. SumFunctionOnSet(w, {1}) <= SumFunctionOnSet(w, 1..n) /\ SumFunctionOnSet(w, {1}) \in Nat
        <5>1. IsFiniteSet(1..n)
          BY FS_Interval
        <5> QED BY <1>3, <4>2, <5>1, SumGrows
      <4>4. SumFunctionOnSet(w, {} \union {1}) = SumFunctionOnSet(w, {}) + w[1]
        <5>1. \A y \in {} \union {1} : w[y] \in Int
          BY <4>1
        <5> QED BY <5>1, FS_EmptySet, SumWith
      <4>5. SumFunctionOnSet(w, {1}) = 1
        <5>1. {} \union {1} = {1}
          OBVIOUS
        <5> QED BY <4>1, <4>4, <5>1, SumNothing
      <4> QED BY <3>1, <4>3, <4>5
    <3> QED BY <2>1, <3>2, <3>3
  <2> QED BY <2>1, <2>2
<1>11. upto[n] = total
  <2>1. CASE r[n] = 0
    BY <1>4, <1>6, <1>10, <2>1, ShareOfNothing
  <2>2. CASE r[n] # 0
    BY <1>4, <1>6, <2>2, ShareOfAll
  <2> QED BY <2>1, <2>2
<1> HIDE DEF upto
<1>12. \A k \in 1..n : s[k] \in 0..weights[k]
  <2> TAKE k \in 1..n
  <2>0. k \in 0..n /\ k - 1 \in 0..n
    OBVIOUS
  <2>1. CASE total = 0
    <3>1. \A j \in 0..n : upto[j] = 0
      <4> TAKE j \in 0..n
      <4>1. r[j] \in Nat /\ r[n] \in Nat
        BY <1>4
      <4>2. Share(0, r[j], r[n]) = Share(0, 0, r[n])
        BY <4>1 DEF Share, NonNegative
      <4>3. Share(0, 0, r[n]) = 0
        BY <4>1, ShareOfNothing
      <4> QED BY <1>6, <2>1, <4>2, <4>3
    <3> QED BY <1>1, <1>7, <2>0, <3>1
  <2>2. CASE total # 0
    <3>1. r[n] # 0 /\ r[n] \in Nat
      BY <1>4, <1>10, <2>2
    <3>2. w = weights
      <4>1. CASE \A j \in 1..n : weights[j] = 0
        <5>1. SumFunctionOnSet(weights, 1..n) <= 0 * Cardinality(1..n)
          BY <4>1, FS_Interval, SumUpTo
        <5>2. Cardinality(1..n) \in Nat
          BY FS_Interval, FS_CardinalityType
        <5>3. SumFunctionOnSet(weights, 1..n) \in Nat
          BY FS_Interval, SumNat
        <5> QED BY <2>2, <5>1, <5>2, <5>3
      <4> QED BY <1>2, <4>1
    <3>3. total <= r[n]
      BY <1>4, <3>2
    <3>4. r[k] = r[k - 1] + w[k] /\ r[k - 1] \in Nat /\ w[k] \in Nat
      BY <1>1, <1>4, <2>0, <3>2
    <3>5. Share(total, r[k - 1] + w[k], r[n]) - Share(total, r[k - 1], r[n]) \in 0..w[k]
      BY <3>1, <3>3, <3>4, ShareStep
    <3> QED BY <1>5, <3>2, <3>4, <3>5
  <2> QED BY <2>1, <2>2
<1>13. SumFunctionOnSet(s, 1..n) = total
  <2> DEFINE T == { k \in 0..n : SumFunctionOnSet(s, 1..k) = upto[k] }
  <2>0. \A k \in 1..n : s[k] \in Int
    BY <1>1, <1>12
  <2>1. 0 \in T
    <3>1. 1..0 = {}
      OBVIOUS
    <3> QED BY <3>1, <1>9, SumNothing
  <2>2. \A k \in 1..n : k - 1 \in T => k \in T
    <3> SUFFICES ASSUME NEW k \in 1..n, k - 1 \in T PROVE SumFunctionOnSet(s, 1..k) = upto[k]
      OBVIOUS
    <3>0. 1..k = 1..(k - 1) \union {k} /\ k \notin 1..(k - 1) /\ k - 1 \in 0..n /\ k \in 0..n
      OBVIOUS
    <3>1. IsFiniteSet(1..(k - 1))
      BY <3>0, FS_Interval
    <3>2. \A y \in 1..(k - 1) \union {k} : s[y] \in Int
      BY <2>0, <3>0
    <3>3. SumFunctionOnSet(s, 1..(k - 1) \union {k}) = SumFunctionOnSet(s, 1..(k - 1)) + s[k]
      BY <3>0, <3>1, <3>2, SumWith
    <3>4. SumFunctionOnSet(s, 1..(k - 1)) = upto[k - 1]
      OBVIOUS
    <3>5. SumFunctionOnSet(s, 1..k) = upto[k - 1] + s[k]
      BY <3>0, <3>3, <3>4, Zenon
    <3>6. s[k] = upto[k] - upto[k - 1] /\ upto[k] \in Nat /\ upto[k - 1] \in Nat
      BY <1>7, <1>8, <3>0
    <3> HIDE DEF T
    <3> QED BY <3>5, <3>6
  <2>3. \A k \in 0..n : k \in T
    <3> HIDE DEF T
    <3> QED BY <2>1, <2>2, Upward
  <2>4. n \in 0..n
    OBVIOUS
  <2> QED BY <1>11, <2>3, <2>4
<1> QED BY <1>5, <1>12, <1>13 DEF s

-----------------------------------------------------------------------------
(* Chunks: T of them, of m units each, no unit in two places.              *)
AreChunks(chunks, T, m, units) ==
    /\ chunks \in [1..T -> [1..m -> units]]
    /\ \A s, t \in 1..T : \A j, k \in 1..m : chunks[s][j] = chunks[t][k] => s = t /\ j = k

(* A place along the units is in one chunk, at one place of it.            *)
LEMMA OnePlace ==
    ASSUME NEW m \in Nat, NEW s \in Nat, NEW t \in Nat, NEW j \in 1..m, NEW k \in 1..m,
           s * m + j = t * m + k
    PROVE  s = t /\ j = k
<1>1. s * m \in Int /\ t * m \in Int
  OBVIOUS
<1>2. ~(s + 1 <= t)
  <2> SUFFICES ASSUME s + 1 <= t PROVE FALSE
    OBVIOUS
  <2>1. (s + 1) * m <= t * m /\ (s + 1) * m = s * m + m
    OBVIOUS
  <2> QED BY <1>1, <2>1
<1>3. ~(t + 1 <= s)
  <2> SUFFICES ASSUME t + 1 <= s PROVE FALSE
    OBVIOUS
  <2>1. (t + 1) * m <= s * m /\ (t + 1) * m = t * m + m
    OBVIOUS
  <2> QED BY <1>1, <2>1
<1>4. s = t
  BY <1>2, <1>3
<1> QED BY <1>1, <1>4

(* Units in a row, each once, cut into chunks.                             *)
LEMMA ChunksOfRow ==
    ASSUME NEW units, NEW T \in Nat, NEW m \in Nat, NEW row \in [1..(T * m) -> units],
           \A j, k \in 1..(T * m) : row[j] = row[k] => j = k
    PROVE  AreChunks([t \in 1..T |-> Chunk(row, m, t)], T, m, units)
<1>1. T * m \in Nat
  OBVIOUS
<1>2. row \in Seq(units) /\ Len(row) = T * m
  BY <1>1
<1>3. \A t \in 1..T : /\ (t - 1) * m \in Nat /\ t * m = (t - 1) * m + m /\ t * m <= T * m
                      /\ \A k \in 1..m : (t - 1) * m + k \in 1..(T * m)
  <2> TAKE t \in 1..T
  <2>1. t - 1 \in Nat /\ T - t \in Nat
    OBVIOUS
  <2>2. (t - 1) * m \in Nat /\ t * m = (t - 1) * m + m
    BY <2>1
  <2>3. (T - t) * m \in Nat /\ T * m = t * m + (T - t) * m
    BY <2>1
  <2>4. t * m \in Nat
    OBVIOUS
  <2> QED BY <1>1, <2>2, <2>3, <2>4
<1>4. \A t \in 1..T : /\ Chunk(row, m, t) \in [1..m -> units]
                      /\ \A k \in 1..m : Chunk(row, m, t)[k] = row[(t - 1) * m + k]
  <2> TAKE t \in 1..T
  <2> DEFINE o == (t - 1) * m
             c == SubSeq(row, o + 1, o + m)
  <2>1. o \in Nat /\ t * m = o + m /\ \A k \in 1..m : o + k \in 1..(T * m)
    BY <1>3
  <2>2. Chunk(row, m, t) = c
    BY <2>1 DEF Chunk
  <2> HIDE DEF o
  <2>3. o + 1 \in Int /\ o + m \in Int /\ \A i \in (o + 1)..(o + m) : row[i] \in units
    <3>1. \A i \in (o + 1)..(o + m) : i - o \in 1..m /\ i = o + (i - o)
      BY <2>1
    <3>2. \A i \in (o + 1)..(o + m) : i \in 1..(T * m)
      BY <2>1, <3>1
    <3> QED BY <2>1, <3>2
  <2>4. /\ c \in Seq(units) /\ Len(c) = IF o + 1 <= o + m THEN (o + m) - (o + 1) + 1 ELSE 0
        /\ \A k \in 1..((o + m) - (o + 1) + 1) : c[k] = row[(o + 1) + k - 1]
    BY <2>3, SubSeqProperties
  <2> HIDE DEF c
  <2>5. Len(c) = m /\ (o + m) - (o + 1) + 1 = m /\ \A k \in 1..m : (o + 1) + k - 1 = o + k
    BY <2>1, <2>4
  <2>6. c \in [1..m -> units]
    BY <2>4, <2>5
  <2>7. \A k \in 1..m : c[k] = row[o + k]
    BY <2>4, <2>5
  <2> QED BY <2>2, <2>6, <2>7 DEF o
<1> DEFINE chunks == [t \in 1..T |-> Chunk(row, m, t)]
<1>5. \A t \in 1..T : /\ chunks[t] \in [1..m -> units]
                      /\ \A k \in 1..m : chunks[t][k] = row[(t - 1) * m + k]
  BY <1>4
<1>6. chunks \in [1..T -> [1..m -> units]]
  BY <1>4
<1> HIDE DEF chunks
<1>7. ASSUME NEW s \in 1..T, NEW t \in 1..T, NEW j \in 1..m, NEW k \in 1..m, chunks[s][j] = chunks[t][k]
      PROVE  s = t /\ j = k
  <2>0. row[(s - 1) * m + j] = row[(t - 1) * m + k]
    BY <1>5, <1>7
  <2>1. (s - 1) * m + j = (t - 1) * m + k
    BY <1>3, <2>0
  <2>2. s - 1 = t - 1 /\ j = k
    BY <2>1, OnePlace
  <2> QED BY <2>2
<1> QED BY <1>6, <1>7 DEF chunks, AreChunks

(* Chunks of one pool's units and of the other's, put together.            *)
LEMMA ChunksJoined ==
    ASSUME NEW A, NEW B, NEW T \in Nat, NEW p \in Nat, NEW q \in Nat, NEW U, NEW V,
           AreChunks(A, T, p, U), AreChunks(B, T, q, V), U \intersect V = {}
    PROVE  AreChunks([t \in 1..T |-> A[t] \o B[t]], T, p + q, U \union V)
<1> DEFINE chunks == [t \in 1..T |-> A[t] \o B[t]]
<1>1. \A t \in 1..T : A[t] \in [1..p -> U] /\ B[t] \in [1..q -> V]
  BY DEF AreChunks
<1>2. \A t \in 1..T : /\ chunks[t] \in [1..(p + q) -> U \union V]
                      /\ \A k \in 1..p : chunks[t][k] = A[t][k] /\ A[t][k] \in U
                      /\ \A k \in (p + 1)..(p + q) : chunks[t][k] = B[t][k - p] /\ B[t][k - p] \in V
  <2> TAKE t \in 1..T
  <2> DEFINE a == A[t]
             b == B[t]
             c == a \o b
  <2>1. a \in [1..p -> U] /\ b \in [1..q -> V]
    BY <1>1
  <2>2. chunks[t] = c
    OBVIOUS
  <2> HIDE DEF a, b, chunks
  <2>3. a \in Seq(U \union V) /\ Len(a) = p /\ b \in Seq(U \union V) /\ Len(b) = q
    BY <2>1
  <2>4. c \in Seq(U \union V) /\ Len(c) = p + q
    BY <2>3
  <2>5. \A k \in 1..(p + q) : c[k] = IF k <= p THEN a[k] ELSE b[k - p]
    BY <2>3
  <2> HIDE DEF c
  <2>6. c \in [1..(p + q) -> U \union V]
    BY <2>4
  <2>7. \A k \in 1..p : c[k] = a[k] /\ a[k] \in U
    BY <2>1, <2>5
  <2>8. \A k \in (p + 1)..(p + q) : c[k] = b[k - p] /\ b[k - p] \in V
    <3> TAKE k \in (p + 1)..(p + q)
    <3>1. k \in 1..(p + q) /\ ~(k <= p) /\ k - p \in 1..q
      OBVIOUS
    <3> QED BY <2>1, <2>5, <3>1
  <2> QED BY <2>2, <2>6, <2>7, <2>8 DEF a, b
<1>3. chunks \in [1..T -> [1..(p + q) -> U \union V]]
  BY <1>2
<1> HIDE DEF chunks
<1>4. ASSUME NEW s \in 1..T, NEW t \in 1..T, NEW j \in 1..(p + q), NEW k \in 1..(p + q),
             chunks[s][j] = chunks[t][k]
      PROVE  s = t /\ j = k
  <2>1. CASE j \in 1..p /\ k \in 1..p
    BY <1>2, <1>4, <2>1 DEF AreChunks
  <2>2. CASE j \in (p + 1)..(p + q) /\ k \in (p + 1)..(p + q)
    <3>0. chunks[s][j] = B[s][j - p] /\ chunks[t][k] = B[t][k - p]
      BY <1>2, <2>2
    <3>1. j - p \in 1..q /\ k - p \in 1..q
      BY <2>2
    <3>2. \A a, b \in 1..q : B[s][a] = B[t][b] => s = t /\ a = b
      BY DEF AreChunks
    <3>3. s = t /\ j - p = k - p
      BY <1>4, <3>0, <3>1, <3>2
    <3> QED BY <3>3
  <2>3. CASE j \in 1..p /\ k \in (p + 1)..(p + q)
    <3>1. chunks[s][j] \in U /\ chunks[t][k] \in V
      BY <1>2, <2>3
    <3> QED BY <1>4, <3>1
  <2>4. CASE j \in (p + 1)..(p + q) /\ k \in 1..p
    <3>1. chunks[s][j] \in V /\ chunks[t][k] \in U
      BY <1>2, <2>4
    <3> QED BY <1>4, <3>1
  <2>5. (j \in 1..p \/ j \in (p + 1)..(p + q)) /\ (k \in 1..p \/ k \in (p + 1)..(p + q))
    OBVIOUS
  <2> QED BY <2>1, <2>2, <2>3, <2>4, <2>5
<1> QED BY <1>3, <1>4 DEF chunks, AreChunks

(* A deal's rule read: its kinds and figures.                              *)
LEMMA RuleIs ==
    ASSUME NEW deal, IsForm(deal), ValidRule(deal), None \notin Int
    PROVE  /\ deal.qty \in Nat \ {0} /\ ChunkSize(deal) \in Nat \ {0}
           /\ \/ deal.kind = "n_for_price" /\ deal.price \in Nat /\ ChunkSize(deal) = deal.qty
              \/ /\ deal.kind = "buy_get" /\ deal.get \in Nat \ {0} /\ deal.percent \in 1..100
                 /\ ChunkSize(deal) = deal.qty + deal.get
           /\ HasRewardPool(deal) => deal.get \in Nat \ {0} /\ ChunkSize(deal) = deal.qty + deal.get
<1>1. CASE deal.kind = "n_for_price"
  <2>1. deal.qty \in Nat \ {0} /\ deal.price \in Nat
    BY <1>1 DEF IsForm, ValidRule
  <2> QED BY <1>1, <2>1 DEF ChunkSize, HasRewardPool
<1>2. CASE deal.kind = "buy_get"
  <2>1. deal.qty \in Nat \ {0} /\ deal.get \in Nat \ {0} /\ deal.percent \in 1..100
    BY <1>2 DEF IsForm, ValidRule
  <2> QED BY <1>2, <2>1 DEF ChunkSize, HasRewardPool
<1> QED BY <1>1, <1>2 DEF ValidRule

(* The units asked make chunks, each unit in one place at the most.        *)
LEMMA ChunksAre ==
    ASSUME NEW deal, IsForm(deal), ValidRule(deal), None \notin Int,
           NEW lines, NEW picked, AreUnits(lines, picked),
           NEW rewards, rewards \subseteq picked, ~HasRewardPool(deal) => rewards = {},
           NEW times \in Int, MakeChunks(deal, lines, picked, rewards, times)
    PROVE  /\ times \in Nat \ {0}
           /\ AreChunks(Chunks(deal, lines, picked, rewards, times), times, ChunkSize(deal), picked)
<1> DEFINE rest == picked \ rewards
           buys == Sorted(lines, rest)
           gets == Sorted(lines, rewards)
           chunks == Chunks(deal, lines, picked, rewards, times)
<1>1. times \in Nat \ {0} /\ Cardinality(picked) = times * ChunkSize(deal)
  BY DEF MakeChunks
<1>2. AreUnits(lines, rest) /\ AreUnits(lines, rewards)
  BY FS_Subset DEF AreUnits
<1>3. CASE ~HasRewardPool(deal)
  <2> DEFINE m == ChunkSize(deal)
  <2>1. rest = picked
    BY <1>3
  <2>2. Cardinality(rest) = times * m /\ m \in Nat
    BY <1>1, <2>1, RuleIs
  <2>3. chunks = [t \in 1..times |-> Chunk(buys, m, t)]
    BY <1>3 DEF Chunks, ChunksOf
  <2> HIDE DEF m, chunks, rest
  <2>4. buys \in [1..(times * m) -> rest] /\ \A j, k \in 1..(times * m) : buys[j] = buys[k] => j = k
    BY <1>2, <2>2, SortedIs
  <2> HIDE DEF buys
  <2>5. AreChunks(chunks, times, m, rest)
    BY <1>1, <2>2, <2>3, <2>4, ChunksOfRow
  <2> QED BY <1>1, <2>1, <2>5 DEF m, chunks
<1>4. CASE HasRewardPool(deal)
  <2> DEFINE p == deal.qty
             q == deal.get
             A == [t \in 1..times |-> Chunk(buys, p, t)]
             B == [t \in 1..times |-> Chunk(gets, q, t)]
  <2>1. p \in Nat /\ q \in Nat /\ ChunkSize(deal) = p + q
    BY <1>4, RuleIs
  <2>2. Cardinality(rewards) = times * q
    BY <1>4 DEF MakeChunks
  <2>3. IsFiniteSet(picked) /\ picked \cap rewards = rewards
    BY DEF AreUnits
  <2>4. Cardinality(rest) = Cardinality(picked) - Cardinality(rewards)
    <3>1. Cardinality(picked \ rewards) = Cardinality(picked) - Cardinality(picked \cap rewards)
      BY <2>3, FS_Difference
    <3> QED BY <2>3, <3>1
  <2>5. chunks = [t \in 1..times |-> A[t] \o B[t]]
    BY <1>4 DEF Chunks, ChunksOf
  <2> HIDE DEF p, q, chunks, rest
  <2>6. Cardinality(rest) = times * p
    <3>1. times * (p + q) = times * p + times * q /\ times * p \in Int /\ times * q \in Int
      BY <1>1, <2>1
    <3> QED BY <1>1, <2>1, <2>2, <2>4, <3>1
  <2>7. buys \in [1..(times * p) -> rest] /\ \A j, k \in 1..(times * p) : buys[j] = buys[k] => j = k
    BY <1>2, <2>6, SortedIs
  <2>8. gets \in [1..(times * q) -> rewards] /\ \A j, k \in 1..(times * q) : gets[j] = gets[k] => j = k
    BY <1>2, <2>2, SortedIs
  <2> HIDE DEF buys, gets
  <2>9. AreChunks(A, times, p, rest)
    BY <1>1, <2>1, <2>7, ChunksOfRow
  <2>10. AreChunks(B, times, q, rewards)
    BY <1>1, <2>1, <2>8, ChunksOfRow
  <2>11. rest \intersect rewards = {} /\ rest \union rewards = picked
    BY DEF rest
  <2> HIDE DEF A, B
  <2>12. AreChunks(chunks, times, p + q, rest \union rewards)
    BY <1>1, <2>1, <2>5, <2>9, <2>10, <2>11, ChunksJoined
  <2> QED BY <1>1, <2>1, <2>11, <2>12 DEF chunks
<1> QED BY <1>3, <1>4

-----------------------------------------------------------------------------
(* What one chunk takes off is no more than it is worth.                   *)
Prices(lines, chunk) == [k \in DOMAIN chunk |-> lines[chunk[k][1]].price]

ArePriced(lines, units) ==
    AreUnits(lines, units) /\ \A u \in units : lines[u[1]].price \in Nat

LEMMA PercentFits ==
    ASSUME NEW v \in Nat, NEW percent \in 1..100
    PROVE  PctOf(v, percent) \in 0..v
<1>0. percent \in Nat /\ 100 \in Nat /\ percent <= 100
  OBVIOUS
<1>1. PctOf(v, percent) = Share(v, percent, 100)
  BY DEF PctOf, Share, NonNegative
<1>2. Share(v, percent, 100) <= Share(v, 100, 100)
  BY <1>0, ShareMonotone
<1>3. Share(v, 100, 100) = v
  BY ShareOfAll
<1>4. Share(v, percent, 100) \in Nat
  BY <1>0, ShareType
<1> QED BY <1>1, <1>2, <1>3, <1>4

LEMMA SavingFits ==
    ASSUME NEW deal, IsForm(deal), ValidRule(deal), None \notin Int,
           NEW lines, NEW units, ArePriced(lines, units),
           NEW chunk \in [1..ChunkSize(deal) -> units]
    PROVE  /\ Value(lines, chunk) = SumFunctionOnSet(Prices(lines, chunk), 1..ChunkSize(deal))
           /\ Value(lines, chunk) \in Nat
           /\ ChunkSaving(deal, lines, chunk) \in 0..Value(lines, chunk)
<1> DEFINE m == ChunkSize(deal)
           q == deal.qty
           pr == Prices(lines, chunk)
<1>1. m \in Nat \ {0} /\ q \in Nat \ {0} /\ DOMAIN chunk = 1..m /\ Len(chunk) = m
  BY RuleIs
<1>2. \A k \in 1..m : pr[k] = lines[chunk[k][1]].price /\ pr[k] \in Nat
  BY DEF Prices, ArePriced
<1>3. Value(lines, chunk) = SumFunctionOnSet(pr, 1..m)
  BY <1>1 DEF Value, Prices
<1> HIDE DEF pr
<1>4. IsFiniteSet(1..m)
  BY <1>1, FS_Interval
<1>5. Value(lines, chunk) \in Nat
  BY <1>2, <1>3, <1>4, SumNat
<1>6. ASSUME deal.kind = "n_for_price", deal.price \in Nat
      PROVE  ChunkSaving(deal, lines, chunk) \in 0..Value(lines, chunk)
  BY <1>5, <1>6 DEF ChunkSaving, NonNegative
<1>7. ASSUME deal.kind = "buy_get", deal.get \in Nat \ {0}, deal.percent \in 1..100, m = q + deal.get
      PROVE  ChunkSaving(deal, lines, chunk) \in 0..Value(lines, chunk)
  <2> DEFINE tail == SubSeq(chunk, q + 1, m)
             g == deal.get
             tp == Prices(lines, tail)
             row == [k \in 1..g |-> k + q]
  <2>1. /\ tail \in Seq(units) /\ Len(tail) = g
        /\ \A k \in 1..g : tail[k] = chunk[k + q] /\ k + q \in 1..m
    <3>1. q + 1 \in Int /\ m \in Int /\ q + 1 <= m /\ m - (q + 1) + 1 = g /\ \A i \in (q + 1)..m : i \in 1..m
      BY <1>1, <1>7
    <3>2. \A i \in (q + 1)..m : chunk[i] \in units
      BY <3>1
    <3>3. /\ tail \in Seq(units) /\ Len(tail) = IF q + 1 <= m THEN m - (q + 1) + 1 ELSE 0
          /\ \A k \in 1..(m - (q + 1) + 1) : tail[k] = chunk[(q + 1) + k - 1]
      <4> HIDE DEF q, m
      <4> QED BY <3>1, <3>2, SubSeqProperties
    <3>4. \A k \in 1..g : (q + 1) + k - 1 = k + q /\ k + q \in 1..m
      BY <1>1, <1>7
    <3> HIDE DEF tail, g, m, q
    <3> QED BY <3>1, <3>3, <3>4
  <2> HIDE DEF tail
  <2>2. DOMAIN tail = 1..g
    BY <2>1
  <2>3. \A k \in 1..g : tp[k] = pr[k + q] /\ tp[k] \in Int
    BY <1>2, <2>1, <2>2 DEF Prices
  <2>4. Value(lines, tail) = SumFunctionOnSet(tp, 1..g)
    BY <2>2 DEF Value, Prices
  <2> HIDE DEF tp
  <2>5. IsFiniteSet(1..g)
    <3>1. g \in Int
      BY <1>7
    <3> HIDE DEF g
    <3> QED BY <3>1, FS_Interval
  <2>6. SumFunctionOnSet(pr, { row[k] : k \in 1..g }) = SumFunctionOnSet(tp, 1..g)
    <3> DEFINE K == 1..g
    <3>1. \A j, k \in K : row[j] = row[k] => j = k
      BY <1>1, <1>7
    <3>2. \A k \in K : pr[row[k]] = tp[k] /\ tp[k] \in Int
      BY <2>3
    <3>3. IsFiniteSet(K)
      BY <2>5
    <3> HIDE DEF row, K
    <3>4. SumFunctionOnSet(pr, { row[k] : k \in K }) = SumFunctionOnSet(tp, K)
      BY <3>1, <3>2, <3>3, SumImage
    <3> QED BY <3>4 DEF K
  <2>7. { row[k] : k \in 1..g } \subseteq 1..m
    BY <2>1
  <2> DEFINE image == { row[k] : k \in 1..g }
  <2> HIDE DEF image, m
  <2>8. SumFunctionOnSet(pr, image) \in Nat /\ SumFunctionOnSet(pr, image) <= SumFunctionOnSet(pr, 1..m)
    BY <1>2, <1>4, <2>7, SumGrows DEF image
  <2>9. Value(lines, tail) \in Nat /\ Value(lines, tail) <= Value(lines, chunk)
    BY <1>3, <2>4, <2>6, <2>8 DEF image
  <2>10. ChunkSaving(deal, lines, chunk) = PctOf(Value(lines, tail), deal.percent)
    BY <1>1, <1>7 DEF ChunkSaving, tail
  <2>11. PctOf(Value(lines, tail), deal.percent) \in 0..Value(lines, tail)
    BY <1>7, <2>9, PercentFits
  <2>12. ChunkSaving(deal, lines, chunk) \in 0..Value(lines, tail)
    BY <2>10, <2>11
  <2> QED BY <1>5, <2>9, <2>12
<1>8. \/ deal.kind = "n_for_price" /\ deal.price \in Nat
      \/ deal.kind = "buy_get" /\ deal.get \in Nat \ {0} /\ deal.percent \in 1..100 /\ m = q + deal.get
  BY RuleIs
<1> QED BY <1>3, <1>5, <1>6, <1>7, <1>8 DEF pr

(* And it is split over its units, no share above its unit's price.        *)
Shares(deal, lines, chunk) == Split(ChunkSaving(deal, lines, chunk), Prices(lines, chunk))

LEMMA SharesFit ==
    ASSUME NEW deal, IsForm(deal), ValidRule(deal), None \notin Int,
           NEW lines, NEW units, ArePriced(lines, units),
           NEW chunk \in [1..ChunkSize(deal) -> units]
    PROVE  /\ \A k \in 1..ChunkSize(deal) :
                  Shares(deal, lines, chunk)[k] \in 0..lines[chunk[k][1]].price
           /\ SumFunctionOnSet(Shares(deal, lines, chunk), 1..ChunkSize(deal))
                = ChunkSaving(deal, lines, chunk)
           /\ ChunkSaving(deal, lines, chunk) \in Nat
<1> DEFINE m == ChunkSize(deal)
           pr == Prices(lines, chunk)
           off == ChunkSaving(deal, lines, chunk)
<1>1. m \in Nat
  BY RuleIs
<1>2. pr \in [1..m -> Nat] /\ \A k \in 1..m : pr[k] = lines[chunk[k][1]].price
  BY DEF Prices, ArePriced
<1>3. off \in Nat /\ off <= SumFunctionOnSet(pr, 1..m)
  BY SavingFits
<1> HIDE DEF m, pr, off
<1>4. /\ \A k \in 1..m : Split(off, pr)[k] \in 0..pr[k]
      /\ SumFunctionOnSet(Split(off, pr), 1..m) = off
  BY <1>1, <1>2, <1>3, SplitFits
<1> QED BY <1>2, <1>3, <1>4 DEF m, pr, off, Shares

-----------------------------------------------------------------------------
(* An application's discount, and its cut of each line, are sums of the    *)
(* shares of the places in its chunks.                                     *)
AskedUnits(asked) == UNION { {i} \X (1..asked[i]) : i \in DOMAIN asked }

IsAsk(asked) == IsFiniteSet(DOMAIN asked) /\ \A i \in DOMAIN asked : i \in Int /\ asked[i] \in Nat \ {0}

LEMMA AskedUnit ==
    ASSUME NEW asked, IsAsk(asked)
    PROVE  /\ IsFiniteSet(AskedUnits(asked)) /\ AskedUnits(asked) \subseteq Int \X Int
           /\ \A u \in AskedUnits(asked) : /\ u = <<u[1], u[2]>> /\ u[1] \in DOMAIN asked
                                           /\ u[2] \in 1..asked[u[1]]
<1> DEFINE J == DOMAIN asked
           row == [i \in J |-> {i} \X (1..asked[i])]
           F == { row[i] : i \in J }
<1>1. IsFiniteSet(J) /\ \A i \in J : i \in Int /\ asked[i] \in Nat \ {0}
  BY DEF IsAsk
<1>2. row \in Surjection(J, F)
  BY DEF Surjection
<1>3. IsFiniteSet(F)
  <2> HIDE DEF F, row, J
  <2> QED BY <1>1, <1>2, FS_Surjection
<1>4. \A s \in F : IsFiniteSet(s)
  <2> SUFFICES ASSUME NEW i \in J PROVE IsFiniteSet(row[i])
    OBVIOUS
  <2>1. IsFiniteSet(1..asked[i])
    BY <1>1, FS_Interval
  <2>2. IsFiniteSet({i})
    BY FS_Singleton
  <2>3. IsFiniteSet({i} \X (1..asked[i]))
    BY <2>1, <2>2, FS_Product
  <2> QED BY <2>3
<1>5. AskedUnits(asked) = UNION F
  BY DEF AskedUnits
<1>6. IsFiniteSet(AskedUnits(asked))
  <2> HIDE DEF F
  <2> QED BY <1>3, <1>4, <1>5, FS_UNION
<1>7. \A u \in AskedUnits(asked) : u = <<u[1], u[2]>> /\ u[1] \in J /\ u[2] \in 1..asked[u[1]]
  BY DEF AskedUnits
<1> QED BY <1>1, <1>6, <1>7

(* The sum over the places of a set, taken chunk by chunk.                 *)
PlacesIn(Q, m, t) == { k \in 1..m : <<t, k>> \in Q }

AddsByChunk(T, m, share, f, Q, g) ==
    /\ T \in Nat /\ m \in Nat /\ Q \subseteq (1..T) \X (1..m)
    /\ \A t \in 1..T : \A k \in 1..m : share[t][k] \in Int /\ f[<<t, k>>] = share[t][k]
    /\ \A t \in 1..T : g[t] = SumFunctionOnSet(share[t], PlacesIn(Q, m, t))

LEMMA PlacesByChunk ==
    ASSUME NEW T, NEW m, NEW share, NEW f, NEW Q, NEW g, AddsByChunk(T, m, share, f, Q, g)
    PROVE  IsFiniteSet(Q) /\ SumFunctionOnSet(g, 1..T) = SumFunctionOnSet(f, Q)
<1>0. T \in Nat /\ m \in Nat
  BY DEF AddsByChunk
<1>1. IsFiniteSet(1..T)
  BY <1>0, FS_Interval
<1>2. IsFiniteSet(1..m)
  BY <1>0, FS_Interval
<1> USE DEF AddsByChunk
<1> DEFINE W == 1..T
           part == [t \in W |-> { <<t, k>> : k \in PlacesIn(Q, m, t) }]
<1>3. IsFiniteSet((1..T) \X (1..m))
  BY <1>1, <1>2, FS_Product
<1>4. IsFiniteSet(Q)
  BY <1>3, FS_Subset
<1>5. \A x \in Q : x[1] \in W /\ x[2] \in 1..m /\ x = <<x[1], x[2]>> /\ f[x] \in Int
  <2> TAKE x \in Q
  <2>1. x[1] \in 1..T /\ x[2] \in 1..m /\ x = <<x[1], x[2]>>
    OBVIOUS
  <2>2. f[<<x[1], x[2]>>] \in Int
    BY <2>1
  <2> QED BY <2>1, <2>2
<1>6. \A t \in W : part[t] \subseteq Q
  BY DEF PlacesIn
<1>7. \A x \in Q : \E t \in W : x \in part[t]
  <2> TAKE x \in Q
  <2>1. x[1] \in W /\ x = <<x[1], x[2]>> /\ x[2] \in PlacesIn(Q, m, x[1])
    BY <1>5 DEF PlacesIn
  <2>2. x \in part[x[1]]
    BY <2>1
  <2> QED BY <2>1, <2>2
<1>8. \A s, t \in W : s # t => part[s] \intersect part[t] = {}
  OBVIOUS
<1>9. \A t \in W : g[t] = SumFunctionOnSet(f, part[t])
  <2> TAKE t \in W
  <2> DEFINE K == PlacesIn(Q, m, t)
             row == [k \in K |-> <<t, k>>]
             h == share[t]
  <2>1. K \subseteq 1..m /\ part[t] = { row[k] : k \in K }
    BY DEF PlacesIn
  <2>2. IsFiniteSet(K)
    <3> HIDE DEF K
    <3> QED BY <1>2, <2>1, FS_Subset
  <2>3. \A j, k \in K : row[j] = row[k] => j = k
    OBVIOUS
  <2>4. \A k \in K : f[row[k]] = h[k] /\ h[k] \in Int
    BY <2>1
  <2>5. g[t] = SumFunctionOnSet(h, K)
    OBVIOUS
  <2> HIDE DEF K, row, h
  <2>6. SumFunctionOnSet(f, { row[k] : k \in K }) = SumFunctionOnSet(h, K)
    BY <2>2, <2>3, <2>4, SumImage
  <2> HIDE DEF part
  <2> QED BY <2>1, <2>5, <2>6
<1>10. IsFiniteSet(W) /\ \A x \in Q : f[x] \in Int
  BY <1>1, <1>5
<1> HIDE DEF W, part
<1>11. SumFunctionOnSet(g, W) = SumFunctionOnSet(f, Q)
  BY <1>4, <1>6, <1>7, <1>8, <1>9, <1>10, SumParts
<1> QED BY <1>4, <1>11 DEF W

LEMMA ApplicationFits ==
    ASSUME NEW deal, IsForm(deal), ValidRule(deal), None \notin Int,
           NEW lines, NEW asked, IsAsk(asked),
           \A i \in DOMAIN asked : i \in DOMAIN lines /\ lines[i].price \in Nat,
           NEW T \in Nat, NEW chunks, AreChunks(chunks, T, ChunkSize(deal), AskedUnits(asked)),
           NEW app, app = Application(deal, lines, asked, chunks)
    PROVE  /\ app.deal = deal.id /\ app.times = T /\ app.asked = asked
           /\ DOMAIN app.cuts = DOMAIN asked
           /\ app.discount = SumFunctionOnSet(app.cuts, DOMAIN asked)
           /\ \A i \in DOMAIN asked : app.cuts[i] \in 0..(asked[i] * lines[i].price)
<1> DEFINE m == ChunkSize(deal)
           U == AskedUnits(asked)
           J == DOMAIN asked
           share == [t \in 1..T |-> Shares(deal, lines, chunks[t])]
           P == (1..T) \X (1..m)
           f == [x \in P |-> share[x[1]][x[2]]]
           Of == [i \in J |-> { x \in P : chunks[x[1]][x[2]][1] = i }]
           saved == [t \in 1..T |-> ChunkSaving(deal, lines, chunks[t])]
           cut == [i \in J |-> [t \in 1..T |-> CutOf(deal, lines, chunks[t], i)]]
<1>1. m \in Nat
  BY RuleIs
<1>2. ArePriced(lines, U)
  BY AskedUnit DEF ArePriced, AreUnits
<1>3. \A t \in 1..T : chunks[t] \in [1..m -> U]
  BY DEF AreChunks
<1>4. \A t \in 1..T : /\ \A k \in 1..m : /\ share[t][k] \in 0..lines[chunks[t][k][1]].price
                                         /\ chunks[t][k] \in U
                      /\ SumFunctionOnSet(share[t], 1..m) = saved[t]
  <2> TAKE t \in 1..T
  <2>1. chunks[t] \in [1..m -> U]
    BY <1>3
  <2>2. /\ \A k \in 1..m : Shares(deal, lines, chunks[t])[k] \in 0..lines[chunks[t][k][1]].price
        /\ SumFunctionOnSet(Shares(deal, lines, chunks[t]), 1..m) = ChunkSaving(deal, lines, chunks[t])
    BY <1>2, <2>1, SharesFit
  <2>3. \A k \in 1..m : chunks[t][k] \in U
    BY <2>1
  <2> QED BY <2>2, <2>3
<1>5. DOMAIN chunks = 1..T /\ Len(chunks) = T /\ \A t \in 1..T : DOMAIN chunks[t] = 1..m
  BY <1>3 DEF AreChunks
<1>6. \A u \in U : u[1] \in J /\ u[2] \in 1..asked[u[1]] /\ u = <<u[1], u[2]>> /\ lines[u[1]].price \in Nat
  BY AskedUnit
<1>7. \A t \in 1..T : \A k \in 1..m : /\ share[t][k] \in Int /\ f[<<t, k>>] = share[t][k]
                                      /\ chunks[t][k][1] \in J
  <2> TAKE t \in 1..T
  <2> TAKE k \in 1..m
  <2>1. f[<<t, k>>] = share[t][k]
    BY <1>1
  <2>2. chunks[t][k] \in U /\ share[t][k] \in 0..lines[chunks[t][k][1]].price
    BY <1>4
  <2> HIDE DEF f, share, U, J
  <2> QED BY <1>6, <2>1, <2>2
<1>8. /\ app.deal = deal.id /\ app.times = T /\ app.asked = asked
      /\ app.discount = SumFunctionOnSet(saved, 1..T)
      /\ DOMAIN app.cuts = J /\ \A i \in J : app.cuts[i] = SumFunctionOnSet(cut[i], 1..T)
  BY <1>5 DEF Application
<1>9. \A i \in J : \A t \in 1..T : cut[i][t] = SumFunctionOnSet(share[t], PlacesIn(Of[i], m, t))
  <2> TAKE i \in J
  <2> TAKE t \in 1..T
  <2>1. cut[i][t] = SumFunctionOnSet(Shares(deal, lines, chunks[t]), { k \in DOMAIN chunks[t] : chunks[t][k][1] = i })
    BY DEF CutOf, Shares, Prices
  <2>2. { k \in DOMAIN chunks[t] : chunks[t][k][1] = i } = PlacesIn(Of[i], m, t)
    BY <1>5 DEF PlacesIn
  <2> QED BY <2>1, <2>2
<1>10. \A t \in 1..T : saved[t] = SumFunctionOnSet(share[t], PlacesIn(P, m, t))
  <2> TAKE t \in 1..T
  <2>1. PlacesIn(P, m, t) = 1..m
    BY DEF PlacesIn
  <2> HIDE DEF saved, share, P, m
  <2> QED BY <1>4, <2>1
<1> HIDE DEF m, U, share, f, saved, cut
<1>16. \A t \in 1..T : \A k \in 1..m : share[t][k] \in Int /\ f[<<t, k>>] = share[t][k]
  BY <1>7
<1>11. IsFiniteSet(P) /\ SumFunctionOnSet(saved, 1..T) = SumFunctionOnSet(f, P)
  <2>1. P \subseteq (1..T) \X (1..m)
    OBVIOUS
  <2> HIDE DEF P
  <2>2. AddsByChunk(T, m, share, f, P, saved)
    BY <1>1, <1>10, <1>16, <2>1 DEF AddsByChunk
  <2> QED BY <2>2, PlacesByChunk
<1>12. \A i \in J : IsFiniteSet(Of[i]) /\ app.cuts[i] = SumFunctionOnSet(f, Of[i])
  <2> TAKE i \in J
  <2> DEFINE Q == Of[i]
             g == cut[i]
  <2>1. Q \subseteq (1..T) \X (1..m)
    OBVIOUS
  <2>2. \A t \in 1..T : g[t] = SumFunctionOnSet(share[t], PlacesIn(Q, m, t))
    BY <1>9
  <2>3. app.cuts[i] = SumFunctionOnSet(g, 1..T)
    BY <1>8
  <2> HIDE DEF Q, g
  <2>4. IsFiniteSet(Q) /\ SumFunctionOnSet(g, 1..T) = SumFunctionOnSet(f, Q)
    <3>1. AddsByChunk(T, m, share, f, Q, g)
      BY <1>1, <1>16, <2>1, <2>2 DEF AddsByChunk
    <3> QED BY <3>1, PlacesByChunk
  <2> QED BY <2>3, <2>4 DEF Q
<1>13. \A x \in P : f[x] \in Int /\ chunks[x[1]][x[2]][1] \in J
  <2> TAKE x \in P
  <2>1. x[1] \in 1..T /\ x[2] \in 1..m /\ x = <<x[1], x[2]>>
    OBVIOUS
  <2>2. f[<<x[1], x[2]>>] \in Int
    BY <1>7, <2>1
  <2> QED BY <1>7, <2>1, <2>2
<1>14. SumFunctionOnSet(app.cuts, J) = SumFunctionOnSet(f, P)
  <2>1. IsFiniteSet(J)
    BY DEF IsAsk
  <2>2. \A i \in J : Of[i] \subseteq P
    OBVIOUS
  <2>3. \A x \in P : \E i \in J : x \in Of[i]
    BY <1>13
  <2>4. \A i, j \in J : i # j => Of[i] \intersect Of[j] = {}
    OBVIOUS
  <2> DEFINE g == app.cuts
  <2>5. \A i \in J : g[i] = SumFunctionOnSet(f, Of[i])
    BY <1>12
  <2>6. \A x \in P : f[x] \in Int
    BY <1>13
  <2> HIDE DEF J, P, Of, g
  <2>7. SumFunctionOnSet(g, J) = SumFunctionOnSet(f, P)
    BY <1>11, <2>1, <2>2, <2>3, <2>4, <2>5, <2>6, SumParts
  <2> QED BY <2>7 DEF g
<1>15. \A i \in J : app.cuts[i] \in 0..(asked[i] * lines[i].price)
  <2> TAKE i \in J
  <2> DEFINE Q == Of[i]
             c == lines[i].price
             number == [x \in Q |-> chunks[x[1]][x[2]][2]]
  <2>1. \A x \in Q : /\ x[1] \in 1..T /\ x[2] \in 1..m /\ x = <<x[1], x[2]>>
                     /\ chunks[x[1]][x[2]][1] = i
    OBVIOUS
  <2>2. \A x \in Q : f[x] \in 0..c
    <3> TAKE x \in Q
    <3>1. f[<<x[1], x[2]>>] = share[x[1]][x[2]] /\ share[x[1]][x[2]] \in 0..lines[chunks[x[1]][x[2]][1]].price
      BY <1>4, <1>7, <2>1
    <3> QED BY <2>1, <3>1
  <2>3. \A x \in Q : chunks[x[1]][x[2]] \in U /\ chunks[x[1]][x[2]] = <<i, number[x]>> /\ number[x] \in 1..asked[i]
    <3> TAKE x \in Q
    <3>1. chunks[x[1]][x[2]] \in U
      BY <1>4, <2>1
    <3>2. number[x] = chunks[x[1]][x[2]][2]
      OBVIOUS
    <3> QED BY <1>6, <2>1, <3>1, <3>2
  <2>4. \A x, y \in Q : number[x] = number[y] => x = y
    <3> SUFFICES ASSUME NEW x \in Q, NEW y \in Q, number[x] = number[y] PROVE x = y
      OBVIOUS
    <3>1. chunks[x[1]][x[2]] = chunks[y[1]][y[2]]
      BY <2>3
    <3>2. x[1] = y[1] /\ x[2] = y[2]
      BY <2>1, <3>1 DEF AreChunks, m, U
    <3> QED BY <2>1, <3>2
  <2>5. number \in [Q -> 1..asked[i]]
    BY <2>3
  <2>6. c \in Nat /\ asked[i] \in Nat /\ IsFiniteSet(Q)
    BY <1>12 DEF IsAsk
  <2>7. app.cuts[i] = SumFunctionOnSet(f, Q)
    BY <1>12
  <2> HIDE DEF Q, number
  <2>8. number \in Injection(Q, 1..asked[i])
    BY <2>4, <2>5 DEF Injection, IsInjective
  <2>9. IsFiniteSet(1..asked[i]) /\ Cardinality(1..asked[i]) = asked[i]
    <3> DEFINE n == asked[i]
    <3>1. n \in Nat
      BY <2>6
    <3> HIDE DEF n
    <3>2. IsFiniteSet(1..n) /\ Cardinality(1..n) = IF 1 > n THEN 0 ELSE n - 1 + 1
      BY <3>1, FS_Interval
    <3>3. IsFiniteSet(1..n) /\ Cardinality(1..n) = n
      BY <3>1, <3>2
    <3> QED BY <3>3 DEF n
  <2>10. Cardinality(Q) <= asked[i] /\ Cardinality(Q) \in Nat
    BY <2>6, <2>8, <2>9, FS_Injection, FS_CardinalityType
  <2> HIDE DEF c
  <2>11. \A x \in Q : f[x] \in Int /\ f[x] <= c /\ f[x] \in Nat
    BY <2>2, <2>6
  <2>12. SumFunctionOnSet(f, Q) <= c * Cardinality(Q)
    BY <2>6, <2>11, SumUpTo
  <2>13. SumFunctionOnSet(f, Q) \in Nat
    BY <2>6, <2>11, SumNat
  <2>14. c * Cardinality(Q) <= asked[i] * c /\ c * Cardinality(Q) \in Nat /\ asked[i] * c \in Nat
    <3>1. asked[i] - Cardinality(Q) \in Nat
      BY <2>6, <2>10
    <3>2. c * (asked[i] - Cardinality(Q)) \in Nat
      BY <2>6, <3>1
    <3>3. c * (asked[i] - Cardinality(Q)) = c * asked[i] - c * Cardinality(Q)
      BY <2>6, <2>10
    <3>4. c * Cardinality(Q) \in Nat /\ c * asked[i] \in Nat /\ c * asked[i] = asked[i] * c
      BY <2>6, <2>10
    <3> QED BY <3>2, <3>3, <3>4
  <2>15. SumFunctionOnSet(f, Q) \in 0..(asked[i] * c)
    BY <2>12, <2>13, <2>14
  <2> QED BY <2>7, <2>15 DEF c
<1> QED BY <1>8, <1>11, <1>14, <1>15

-----------------------------------------------------------------------------
(* Lines are the items with some quantities: all a deal reads of one but   *)
(* its quantity is the item's.                                             *)
Menu == [i \in DOMAIN Items |-> Line(i, 0)]

AreLines(lines) == \E q : lines = [i \in DOMAIN Items |-> Line(i, q[i])]

OfMenu(units) ==
    IsFiniteSet(units) /\ units \subseteq Int \X Int /\ \A u \in units : u[1] \in DOMAIN Items

LEMMA LineIs ==
    ASSUME NEW lines, AreLines(lines)
    PROVE  /\ DOMAIN lines = DOMAIN Items
           /\ \A i \in DOMAIN Items : /\ lines[i].price = Items[i].price
                                      /\ lines[i].price = Menu[i].price
                                      /\ lines[i].item = Menu[i].item
                                      /\ lines[i].category = Menu[i].category
                                      /\ lines[i].size = Menu[i].size
BY DEF AreLines, Line, Menu

LEMMA InPoolAlike ==
    ASSUME NEW lines, AreLines(lines), NEW pool, NEW i \in DOMAIN Items
    PROVE  InPool(pool, lines[i]) <=> InPool(pool, Menu[i])
<1>1. \A entry \in pool : EntryMatches(entry, lines[i]) <=> EntryMatches(entry, Menu[i])
  BY LineIs DEF EntryMatches
<1> QED BY <1>1 DEF InPool

LEMMA SortedAlike ==
    ASSUME NEW lines, AreLines(lines), NEW units, OfMenu(units)
    PROVE  Sorted(lines, units) = Sorted(Menu, units)
<1>1. \A u, v \in units : Dearer(lines, v, u) <=> Dearer(Menu, v, u)
  <2> TAKE u, v \in units
  <2>1. lines[u[1]].price = Menu[u[1]].price /\ lines[v[1]].price = Menu[v[1]].price
    BY LineIs DEF OfMenu
  <2> QED BY <2>1 DEF Dearer
<1>2. AreUnits(lines, units) /\ AreUnits(Menu, units)
  <2>1. \A u \in units : lines[u[1]].price \in Int /\ Menu[u[1]].price \in Int
    BY LineIs, CheckoutAssumption DEF OfMenu
  <2> QED BY <2>1, LineIs DEF OfMenu, AreUnits, Menu
<1>3. \A u \in units : Above(lines, units, u) = Above(Menu, units, u)
  BY <1>1 DEF Above
<1> DEFINE c == Cardinality(units)
           a == Sorted(lines, units)
           b == Sorted(Menu, units)
<1>4. /\ a \in [1..c -> units] /\ b \in [1..c -> units]
      /\ \A n \in 1..c : /\ Cardinality(Above(lines, units, a[n])) = n - 1
                          /\ Cardinality(Above(Menu, units, b[n])) = n - 1
  BY <1>2, SortedIs
<1> HIDE DEF a, b, c
<1>5. \A n \in 1..c : a[n] = b[n]
  BY <1>2, <1>3, <1>4, RankIsOne
<1>6. a = [n \in 1..c |-> a[n]] /\ b = [n \in 1..c |-> b[n]]
  BY <1>4
<1>7. a = b
  BY <1>5, <1>6
<1> QED BY <1>7 DEF a, b

LEMMA RewardsAlike ==
    ASSUME NEW lines, AreLines(lines), NEW deal, NEW units, OfMenu(units), NEW want
    PROVE  Rewards(deal, lines, units, want) = Rewards(deal, Menu, units, want)
<1> DEFINE F == { u \in units : InPool(deal.rewardPool, lines[u[1]]) }
           G == { u \in units : InPool(deal.rewardPool, Menu[u[1]]) }
<1>1. F = G
  BY InPoolAlike DEF OfMenu
<1>2. \A u, v \in units : Cheaper(deal, lines, v, u) <=> Cheaper(deal, Menu, v, u)
  <2> TAKE u, v \in units
  <2>1. /\ lines[u[1]].price = Menu[u[1]].price /\ lines[v[1]].price = Menu[v[1]].price
        /\ InPool(deal.pool, lines[u[1]]) <=> InPool(deal.pool, Menu[u[1]])
        /\ InPool(deal.pool, lines[v[1]]) <=> InPool(deal.pool, Menu[v[1]])
    BY LineIs, InPoolAlike DEF OfMenu
  <2> QED BY <2>1 DEF Cheaper
<1>3. \A u \in units : { v \in F : Cheaper(deal, lines, v, u) } = { v \in F : Cheaper(deal, Menu, v, u) }
  BY <1>2
<1>4. Rewards(deal, lines, units, want) = { u \in F : Cardinality({ v \in F : Cheaper(deal, lines, v, u) }) < want }
  BY DEF Rewards
<1>5. Rewards(deal, Menu, units, want) = { u \in G : Cardinality({ v \in G : Cheaper(deal, Menu, v, u) }) < want }
  BY DEF Rewards
<1>6. F \subseteq units
  OBVIOUS
<1> HIDE DEF F, G
<1> QED BY <1>1, <1>3, <1>4, <1>5, <1>6

LEMMA ChunksAlike ==
    ASSUME NEW lines, AreLines(lines), NEW deal, NEW units, OfMenu(units),
           NEW rewards, rewards \subseteq units, NEW times
    PROVE  Chunks(deal, lines, units, rewards, times) = Chunks(deal, Menu, units, rewards, times)
<1>1. OfMenu(units \ rewards) /\ OfMenu(rewards)
  BY FS_Subset DEF OfMenu
<1> DEFINE buys == Sorted(lines, units \ rewards)
           gets == Sorted(lines, rewards)
<1>2. buys = Sorted(Menu, units \ rewards)
  BY <1>1, SortedAlike
<1>3. gets = Sorted(Menu, rewards)
  BY <1>1, SortedAlike
<1>4. Chunks(deal, lines, units, rewards, times) = ChunksOf(deal, lines, buys, gets, times)
  BY DEF Chunks
<1>5. Chunks(deal, Menu, units, rewards, times) = ChunksOf(deal, Menu, buys, gets, times)
  BY <1>2, <1>3 DEF Chunks
<1> HIDE DEF buys, gets
<1> QED BY <1>4, <1>5 DEF ChunksOf

LEMMA MakeAlike ==
    ASSUME NEW lines, AreLines(lines), NEW deal, NEW units, OfMenu(units), NEW rewards, NEW times
    PROVE  MakeChunks(deal, lines, units, rewards, times) <=> MakeChunks(deal, Menu, units, rewards, times)
<1>1. \A u \in units \ rewards : InPool(deal.pool, lines[u[1]]) <=> InPool(deal.pool, Menu[u[1]])
  BY InPoolAlike DEF OfMenu
<1> QED BY <1>1 DEF MakeChunks

LEMMA PricesAlike ==
    ASSUME NEW lines, AreLines(lines), NEW chunk, \A k \in DOMAIN chunk : chunk[k][1] \in DOMAIN Items
    PROVE  Prices(lines, chunk) = Prices(Menu, chunk) /\ Value(lines, chunk) = Value(Menu, chunk)
<1>1. \A k \in DOMAIN chunk : lines[chunk[k][1]].price = Menu[chunk[k][1]].price
  BY LineIs
<1>2. Prices(lines, chunk) = Prices(Menu, chunk)
  BY <1>1 DEF Prices
<1>3. Value(lines, chunk) = SumFunctionOnSet(Prices(lines, chunk), DOMAIN chunk)
  BY DEF Value, Prices
<1>4. Value(Menu, chunk) = SumFunctionOnSet(Prices(Menu, chunk), DOMAIN chunk)
  BY DEF Value, Prices
<1> QED BY <1>2, <1>3, <1>4

LEMMA SharesAlike ==
    ASSUME NEW lines, AreLines(lines), NEW deal, IsForm(deal), ValidRule(deal), NEW units, OfMenu(units),
           NEW chunk \in [1..ChunkSize(deal) -> units]
    PROVE  /\ ChunkSaving(deal, lines, chunk) = ChunkSaving(deal, Menu, chunk)
           /\ Prices(lines, chunk) = Prices(Menu, chunk)
<1> DEFINE m == ChunkSize(deal)
           tail == SubSeq(chunk, deal.qty + 1, Len(chunk))
<1>1. m \in Nat \ {0} /\ deal.qty \in Nat \ {0}
  BY RuleIs, CheckoutAssumption
<1>2. Len(chunk) = m /\ \A k \in DOMAIN chunk : chunk[k][1] \in DOMAIN Items
  BY <1>1 DEF OfMenu
<1>3. Prices(lines, chunk) = Prices(Menu, chunk) /\ Value(lines, chunk) = Value(Menu, chunk)
  BY <1>2, PricesAlike
<1>4. tail \in Seq(units)
  <2> DEFINE a == deal.qty + 1
             b == Len(chunk)
  <2>1. a \in Int /\ b \in Int /\ \A k \in a..b : chunk[k] \in units
    BY <1>1, <1>2
  <2> HIDE DEF a, b
  <2>2. SubSeq(chunk, a, b) \in Seq(units)
    BY <2>1, SubSeqProperties
  <2> QED BY <2>2 DEF a, b
<1> HIDE DEF tail
<1>5. \A k \in DOMAIN tail : tail[k][1] \in DOMAIN Items
  BY <1>4 DEF OfMenu
<1>6. Value(lines, tail) = Value(Menu, tail)
  BY <1>5, PricesAlike
<1> QED BY <1>3, <1>6 DEF ChunkSaving, tail

LEMMA ApplicationAlike ==
    ASSUME NEW lines, AreLines(lines), NEW deal, IsForm(deal), ValidRule(deal), NEW units, OfMenu(units),
           NEW asked, NEW T \in Nat, NEW chunks, AreChunks(chunks, T, ChunkSize(deal), units)
    PROVE  Application(deal, lines, asked, chunks) = Application(deal, Menu, asked, chunks)
<1>1. DOMAIN chunks = 1..T
  BY DEF AreChunks
<1>2. \A t \in DOMAIN chunks : /\ ChunkSaving(deal, lines, chunks[t]) = ChunkSaving(deal, Menu, chunks[t])
                               /\ Prices(lines, chunks[t]) = Prices(Menu, chunks[t])
  <2> TAKE t \in DOMAIN chunks
  <2>1. chunks[t] \in [1..ChunkSize(deal) -> units]
    BY <1>1 DEF AreChunks
  <2> QED BY <2>1, SharesAlike
<1> DEFINE saved(l) == [t \in DOMAIN chunks |-> ChunkSaving(deal, l, chunks[t])]
           share(l, t) == Split(ChunkSaving(deal, l, chunks[t]), Prices(l, chunks[t]))
           onLine(t, i) == { k \in DOMAIN chunks[t] : chunks[t][k][1] = i }
           cut(l, i) == [t \in DOMAIN chunks |-> SumFunctionOnSet(share(l, t), onLine(t, i))]
           made(l) == [deal |-> deal.id, times |-> Len(chunks), asked |-> asked,
                       discount |-> SumFunctionOnSet(saved(l), DOMAIN chunks),
                       cuts |-> [i \in DOMAIN asked |-> SumFunctionOnSet(cut(l, i), DOMAIN chunks)]]
<1>3. saved(lines) = saved(Menu)
  BY <1>2
<1>4. \A i \in DOMAIN asked : cut(lines, i) = cut(Menu, i)
  <2> TAKE i \in DOMAIN asked
  <2>1. \A t \in DOMAIN chunks : share(lines, t) = share(Menu, t)
    BY <1>2
  <2> HIDE DEF share, onLine
  <2> QED BY <2>1
<1>5. Application(deal, lines, asked, chunks) = made(lines)
  BY DEF Application, CutOf, Prices
<1>6. Application(deal, Menu, asked, chunks) = made(Menu)
  BY DEF Application, CutOf, Prices
<1> HIDE DEF saved, cut
<1>7. made(lines) = made(Menu)
  BY <1>3, <1>4
<1> QED BY <1>5, <1>6, <1>7

(* What the units asked make of a deal, whatever else is on the order.     *)
RewardsOf(deal, asked, times) ==
    IF HasRewardPool(deal) THEN Rewards(deal, Menu, AskedUnits(asked), times * deal.get) ELSE {}

TimesOf(deal, asked) == Cardinality(AskedUnits(asked)) \div ChunkSize(deal)

ChunksMade(deal, asked) ==
    Chunks(deal, Menu, AskedUnits(asked), RewardsOf(deal, asked, TimesOf(deal, asked)), TimesOf(deal, asked))

Made(deal, asked) == Application(deal, Menu, asked, ChunksMade(deal, asked))

Makes(deal, asked) ==
    /\ MakeChunks(deal, Menu, AskedUnits(asked), RewardsOf(deal, asked, TimesOf(deal, asked)), TimesOf(deal, asked))
    /\ Made(deal, asked).discount > 0

IsAskOfItems(asked) == IsAsk(asked) /\ DOMAIN asked \subseteq DOMAIN Items

LEMMA AskOfMenu ==
    ASSUME NEW asked, IsAskOfItems(asked)
    PROVE  OfMenu(AskedUnits(asked))
BY AskedUnit DEF IsAskOfItems, OfMenu

LEMMA MadeChunksAre ==
    ASSUME NEW deal, IsForm(deal), ValidRule(deal), NEW asked, IsAskOfItems(asked),
           MakeChunks(deal, Menu, AskedUnits(asked), RewardsOf(deal, asked, TimesOf(deal, asked)),
                      TimesOf(deal, asked))
    PROVE  /\ TimesOf(deal, asked) \in Nat \ {0}
           /\ AreChunks(ChunksMade(deal, asked), TimesOf(deal, asked), ChunkSize(deal), AskedUnits(asked))
<1> DEFINE units == AskedUnits(asked)
           times == TimesOf(deal, asked)
           rewards == RewardsOf(deal, asked, times)
<1>1. OfMenu(units)
  BY AskOfMenu
<1>2. AreUnits(Menu, units)
  <2>1. \A i \in DOMAIN Items : Menu[i].price = Items[i].price
    BY DEF Menu, Line
  <2> QED BY <1>1, <2>1, CheckoutAssumption DEF OfMenu, AreUnits, Menu
<1>3. rewards \subseteq units /\ (~HasRewardPool(deal) => rewards = {})
  BY DEF RewardsOf, Rewards
<1>4. times \in Int
  <2>1. Cardinality(units) \in Nat
    BY <1>1, FS_CardinalityType DEF OfMenu
  <2>2. ChunkSize(deal) \in Nat \ {0}
    BY RuleIs, CheckoutAssumption
  <2> HIDE DEF units
  <2>3. Cardinality(units) \div ChunkSize(deal) \in Int
    BY <2>1, <2>2
  <2> QED BY <2>3 DEF TimesOf, units
<1>5. MakeChunks(deal, Menu, units, rewards, times)
  OBVIOUS
<1>6. ChunksMade(deal, asked) = Chunks(deal, Menu, units, rewards, times)
  BY DEF ChunksMade
<1> HIDE DEF units, times, rewards
<1>7. times \in Nat \ {0} /\ AreChunks(Chunks(deal, Menu, units, rewards, times), times, ChunkSize(deal), units)
  BY <1>2, <1>3, <1>4, <1>5, ChunksAre, CheckoutAssumption
<1> QED BY <1>6, <1>7 DEF units, times

(* A deal priced is what the units asked make of it, if they are free and  *)
(* it may be taken so often.                                               *)
LEMMA PricedAlike ==
    ASSUME NEW deal, IsForm(deal), NEW lines, AreLines(lines), NEW asked, IsAskOfItems(asked), NEW ctx
    PROVE  PriceApplication(deal, lines, asked, ctx) =
             IF /\ ValidRule(deal) /\ EligibleNow(deal, ctx) /\ UnitsAreFree(lines, asked)
                /\ Makes(deal, asked) /\ WithinCap(deal, TimesOf(deal, asked), ctx)
             THEN Made(deal, asked) ELSE NotEligible
<1> DEFINE units == AskedUnits(asked)
           times == TimesOf(deal, asked)
           rewards == RewardsOf(deal, asked, times)
           may == ValidRule(deal) /\ EligibleNow(deal, ctx) /\ UnitsAreFree(lines, asked)
<1>1. OfMenu(units)
  BY AskOfMenu
<1>2. rewards = IF HasRewardPool(deal) THEN Rewards(deal, lines, units, times * deal.get) ELSE {}
  BY <1>1, RewardsAlike DEF RewardsOf
<1>3. rewards \subseteq units
  BY DEF RewardsOf, Rewards
<1>4. PriceApplication(deal, lines, asked, ctx) =
        IF may THEN PriceUnits(deal, lines, asked, units, rewards, times, ctx) ELSE NotEligible
  <2>1. PriceApplication(deal, lines, asked, ctx) =
          IF may THEN PriceUnits(deal, lines, asked, units,
                          IF HasRewardPool(deal) THEN Rewards(deal, lines, units, times * deal.get) ELSE {},
                          times, ctx)
          ELSE NotEligible
    BY DEF PriceApplication, AskedUnits, TimesOf
  <2> HIDE DEF units, times, rewards, may
  <2> QED BY <1>2, <2>1
<1>5. Chunks(deal, lines, units, rewards, times) = ChunksMade(deal, asked)
  <2>1. ChunksMade(deal, asked) = Chunks(deal, Menu, units, rewards, times)
    BY DEF ChunksMade
  <2> HIDE DEF units, rewards, times
  <2> QED BY <1>1, <1>3, <2>1, ChunksAlike
<1>6. MakeChunks(deal, lines, units, rewards, times) <=> MakeChunks(deal, Menu, units, rewards, times)
  <2> HIDE DEF units, rewards, times
  <2> QED BY <1>1, MakeAlike
<1>7. ASSUME may, MakeChunks(deal, Menu, units, rewards, times)
      PROVE  Application(deal, lines, asked, ChunksMade(deal, asked)) = Made(deal, asked)
  <2>1. times \in Nat \ {0} /\ AreChunks(ChunksMade(deal, asked), times, ChunkSize(deal), units)
    BY <1>7, MadeChunksAre
  <2> HIDE DEF units, rewards, times
  <2> QED BY <1>1, <1>7, <2>1, ApplicationAlike DEF Made
<1>8. PriceUnits(deal, lines, asked, units, rewards, times, ctx) =
        IF /\ MakeChunks(deal, lines, units, rewards, times)
           /\ WithinCap(deal, times, ctx)
           /\ Application(deal, lines, asked, ChunksMade(deal, asked)).discount > 0
        THEN Application(deal, lines, asked, ChunksMade(deal, asked)) ELSE NotEligible
  <2> HIDE DEF units, rewards, times
  <2> QED BY <1>5 DEF PriceUnits
<1>9. Makes(deal, asked) <=> MakeChunks(deal, Menu, units, rewards, times) /\ Made(deal, asked).discount > 0
  BY DEF Makes
<1> HIDE DEF units, rewards, times
<1>10. CASE may /\ MakeChunks(deal, Menu, units, rewards, times)
  BY <1>4, <1>6, <1>7, <1>8, <1>9, <1>10 DEF times
<1>11. CASE ~(may /\ MakeChunks(deal, Menu, units, rewards, times))
  BY <1>4, <1>6, <1>8, <1>9, <1>11 DEF times
<1> QED BY <1>10, <1>11

(* What it then is.                                                        *)
LEMMA MadeIs ==
    ASSUME NEW deal, IsForm(deal), ValidRule(deal), NEW asked, IsAskOfItems(asked), Makes(deal, asked),
           NEW app, app = Made(deal, asked)
    PROVE  /\ app.deal = deal.id /\ app.times = TimesOf(deal, asked) /\ app.times \in Nat \ {0}
           /\ app.asked = asked /\ DOMAIN app.cuts = DOMAIN asked
           /\ app.discount = SumFunctionOnSet(app.cuts, DOMAIN asked)
           /\ \A i \in DOMAIN asked : app.cuts[i] \in 0..(asked[i] * Items[i].price)
<1> DEFINE times == TimesOf(deal, asked)
<1>1. times \in Nat \ {0} /\ AreChunks(ChunksMade(deal, asked), times, ChunkSize(deal), AskedUnits(asked))
  BY MadeChunksAre DEF Makes
<1>2. \A i \in DOMAIN asked : i \in DOMAIN Menu /\ Menu[i].price = Items[i].price /\ Menu[i].price \in Nat
  BY CheckoutAssumption DEF Menu, Line, IsAskOfItems
<1>3. IsAsk(asked) /\ None \notin Int
  BY CheckoutAssumption DEF IsAskOfItems
<1>4. app = Application(deal, Menu, asked, ChunksMade(deal, asked))
  BY DEF Made
<1> HIDE DEF times
<1>5. /\ app.deal = deal.id /\ app.times = times /\ app.asked = asked /\ DOMAIN app.cuts = DOMAIN asked
      /\ app.discount = SumFunctionOnSet(app.cuts, DOMAIN asked)
      /\ \A i \in DOMAIN asked : app.cuts[i] \in 0..(asked[i] * Menu[i].price)
  BY <1>1, <1>2, <1>3, <1>4, ApplicationFits
<1> QED BY <1>1, <1>2, <1>5 DEF times

-----------------------------------------------------------------------------
(* The order's invariant: each application is what its units make of its   *)
(* rule, the units taken are on the lines, and a rule with a maximum was   *)
(* not taken beyond it up to where it was applied.                         *)
Fitting(e) ==
    /\ e.app.deal \in DOMAIN Rules /\ e.rule \in Rules[e.app.deal]
    /\ e.app.asked \in Asks
    /\ ValidRule(e.rule) /\ Makes(e.rule, e.app.asked) /\ e.app = Made(e.rule, e.app.asked)

TakenOf(s, i) == SumFunctionOnSet([k \in DOMAIN s |-> Asked(s[k].app, i)], DOMAIN s)

TimesUpTo(s, id, k) == SumFunctionOnSet([j \in DOMAIN s |-> Times(s[j].app, id)], 1..k)

AreFitting(s) ==
    /\ s \in Seq({ s[k] : k \in DOMAIN s })
    /\ \A k \in DOMAIN s : Fitting(s[k])

WithinMax(s) ==
    \A k \in DOMAIN s :
        s[k].rule.max # None => TimesUpTo(s, s[k].app.deal, k) <= s[k].rule.max

RulesOK == DOMAIN deals = DOMAIN Rules /\ \A id \in DOMAIN Rules : deals[id] \in Rules[id]

CheckoutInv ==
    /\ quantity \in [DOMAIN Items -> Nat]
    /\ RulesOK
    /\ AreFitting(applied)
    /\ \A i \in DOMAIN Items : TakenOf(applied, i) <= quantity[i]
    /\ WithinMax(applied)

LEMMA AsksAre ==
    ASSUME NEW asked \in Asks
    PROVE  IsAskOfItems(asked)
<1>1. PICK indexes \in (SUBSET DOMAIN Items) \ {{}} : asked \in [indexes -> 1..MaxQuantity]
  BY DEF Asks
<1>2. IsFiniteSet(DOMAIN Items) /\ DOMAIN Items \subseteq Nat /\ MaxQuantity \in Nat
  BY CheckoutAssumption
<1>3. IsFiniteSet(indexes)
  BY <1>2, FS_Subset
<1> QED BY <1>1, <1>2, <1>3 DEF IsAskOfItems, IsAsk

LEMMA RuleForms ==
    ASSUME NEW id \in DOMAIN Rules, NEW deal \in Rules[id]
    PROVE  deal.id = id /\ IsForm(deal)
BY CheckoutAssumption

LEMMA FittingIs ==
    ASSUME NEW e, Fitting(e)
    PROVE  /\ e.app.deal = e.rule.id /\ e.app.times \in Nat \ {0}
           /\ e.app.times = TimesOf(e.rule, e.app.asked)
           /\ DOMAIN e.app.cuts = DOMAIN e.app.asked
           /\ e.app.discount = SumFunctionOnSet(e.app.cuts, DOMAIN e.app.cuts)
           /\ \A i \in DOMAIN e.app.cuts : e.app.cuts[i] \in 0..(e.app.asked[i] * Items[i].price)
           /\ \A i : Asked(e.app, i) \in Nat
           /\ \A id : Times(e.app, id) \in Nat
<1> DEFINE rule == e.rule
           asked == e.app.asked
           app == e.app
<1>1. rule.id = app.deal /\ IsForm(rule)
  BY RuleForms DEF Fitting
<1>2. IsAskOfItems(asked)
  BY AsksAre DEF Fitting
<1>3. ValidRule(rule) /\ Makes(rule, asked) /\ app = Made(rule, asked)
  BY DEF Fitting
<1> HIDE DEF rule, asked, app
<1>4. /\ app.deal = rule.id /\ app.times = TimesOf(rule, asked) /\ app.times \in Nat \ {0}
      /\ DOMAIN app.cuts = DOMAIN asked
      /\ app.discount = SumFunctionOnSet(app.cuts, DOMAIN asked)
      /\ \A i \in DOMAIN asked : app.cuts[i] \in 0..(asked[i] * Items[i].price)
  BY <1>1, <1>2, <1>3, MadeIs
<1>5. \A i : Asked(app, i) \in Nat
  BY <1>2 DEF Asked, asked, app, IsAskOfItems, IsAsk
<1>6. \A id : Times(app, id) \in Nat
  BY <1>4 DEF Times
<1> QED BY <1>4, <1>5, <1>6 DEF rule, asked, app

LEMMA SeqIs ==
    ASSUME NEW s, NEW S, s \in Seq(S)
    PROVE  /\ s \in Seq({ s[k] : k \in DOMAIN s })
           /\ Len(s) \in Nat /\ DOMAIN s = 1..Len(s) /\ IsFiniteSet(DOMAIN s)
<1>1. Len(s) \in Nat /\ DOMAIN s = 1..Len(s) /\ s \in [1..Len(s) -> S]
  OBVIOUS
<1> DEFINE n == Len(s)
           R == { s[k] : k \in DOMAIN s }
<1>2. s \in [1..n -> R]
  BY <1>1
<1>3. n \in Nat
  BY <1>1
<1> HIDE DEF n, R
<1>4. s \in Seq(R)
  BY <1>2, <1>3
<1>5. IsFiniteSet(1..n)
  BY <1>3, FS_Interval
<1> QED BY <1>1, <1>4, <1>5 DEF n, R

Appended(s, e, t) == t = Append(s, e)

LEMMA AppendedIs ==
    ASSUME NEW s, AreFitting(s), NEW e, Fitting(e), NEW t, Appended(s, e, t)
    PROVE  /\ Len(s) \in Nat /\ DOMAIN s = 1..Len(s)
           /\ Len(t) = Len(s) + 1 /\ DOMAIN t = 1..(Len(s) + 1)
           /\ AreFitting(t)
           /\ \A k \in 1..Len(s) : t[k] = s[k]
           /\ t[Len(s) + 1] = e
<1> DEFINE S == { s[k] : k \in DOMAIN s } \union {e}
<1>1. s \in Seq({ s[k] : k \in DOMAIN s })
  BY DEF AreFitting
<1>2. Len(s) \in Nat /\ DOMAIN s = 1..Len(s)
  BY <1>1, SeqIs
<1>3. s \in Seq(S) /\ e \in S
  <2>1. { s[k] : k \in DOMAIN s } \subseteq S
    OBVIOUS
  <2> DEFINE R == { s[k] : k \in DOMAIN s }
  <2> HIDE DEF R
  <2>2. R \subseteq R \union {e}
    OBVIOUS
  <2>3. s \in Seq(R \union {e})
    BY <1>1, <2>2 DEF R
  <2> QED BY <2>3 DEF R
<1> HIDE DEF S
<1>4. /\ t \in Seq(S) /\ Len(t) = Len(s) + 1
      /\ \A k \in 1..Len(s) : t[k] = s[k]
      /\ t[Len(s) + 1] = e
  BY <1>3, AppendProperties DEF Appended
<1>5. t \in Seq({ t[k] : k \in DOMAIN t }) /\ DOMAIN t = 1..Len(t)
  BY <1>4, SeqIs
<1>6. \A k \in DOMAIN t : Fitting(t[k])
  <2> TAKE k \in DOMAIN t
  <2>1. k \in 1..Len(s) \/ k = Len(s) + 1
    BY <1>2, <1>4, <1>5
  <2> QED BY <1>2, <1>4, <2>1 DEF AreFitting
<1> QED BY <1>2, <1>4, <1>5, <1>6 DEF AreFitting

(* One value more.                                                         *)
LEMMA SumOneMore ==
    ASSUME NEW n \in Nat, NEW f, NEW g, \A k \in 1..n : f[k] \in Int /\ g[k] = f[k], g[n + 1] \in Int
    PROVE  SumFunctionOnSet(g, 1..(n + 1)) = SumFunctionOnSet(f, 1..n) + g[n + 1]
<1>1. IsFiniteSet(1..n)
  BY FS_Interval
<1>2. 1..(n + 1) = 1..n \union {n + 1} /\ n + 1 \notin 1..n
  OBVIOUS
<1>3. \A y \in 1..n \union {n + 1} : g[y] \in Int
  OBVIOUS
<1>4. SumFunctionOnSet(g, 1..n \union {n + 1}) = SumFunctionOnSet(g, 1..n) + g[n + 1]
  BY <1>1, <1>2, <1>3, SumWith
<1>5. SumFunctionOnSet(f, 1..n) = SumFunctionOnSet(g, 1..n)
  BY <1>1, SumSame
<1> QED BY <1>2, <1>4, <1>5, Zenon

(* One value less: where the k-th is left out, no sum grows.               *)
Skip(k, n) == IF n < k THEN n ELSE n + 1

LEMMA SumOneLess ==
    ASSUME NEW N \in Nat, NEW k \in 1..N, NEW n \in 0..(N - 1), NEW f, NEW g,
           \A j \in 1..N : f[j] \in Nat, \A j \in 1..(N - 1) : g[j] = f[Skip(k, j)]
    PROVE  SumFunctionOnSet(g, 1..n) <= SumFunctionOnSet(f, 1..Skip(k, n))
<1> DEFINE K == 1..n
           row == [j \in K |-> Skip(k, j)]
           image == { row[j] : j \in K }
           up == 1..Skip(k, n)
<1>1. n \in Nat /\ Skip(k, n) \in 0..N
  BY DEF Skip
<1>2. IsFiniteSet(K)
  <2>1. n \in Int
    BY <1>1
  <2> QED BY <2>1, FS_Interval
<1>3. IsFiniteSet(up)
  <2>1. Skip(k, n) \in Int
    BY <1>1
  <2> QED BY <2>1, FS_Interval
<1>4. \A i, j \in K : row[i] = row[j] => i = j
  BY DEF Skip
<1>5. \A j \in K : row[j] \in up /\ row[j] \in 1..N /\ j \in 1..(N - 1)
  BY DEF Skip
<1>6. \A j \in K : f[row[j]] = g[j] /\ g[j] \in Int
  BY <1>5
<1>7. \A x \in up : f[x] \in Nat
  BY <1>1
<1> HIDE DEF K, row, up
<1>8. SumFunctionOnSet(f, { row[j] : j \in K }) = SumFunctionOnSet(g, K)
  BY <1>2, <1>4, <1>6, SumImage
<1>9. image \subseteq up
  BY <1>5
<1> HIDE DEF image
<1>10. SumFunctionOnSet(f, image) <= SumFunctionOnSet(f, up)
  BY <1>3, <1>7, <1>9, SumGrows
<1> QED BY <1>8, <1>10 DEF K, up, image

LEMMA TakenIs ==
    ASSUME NEW s, AreFitting(s)
    PROVE  /\ Len(s) \in Nat /\ DOMAIN s = 1..Len(s) /\ IsFiniteSet(DOMAIN s)
           /\ \A i : TakenOf(s, i) \in Nat
           /\ \A id : \A k \in 0..Len(s) : TimesUpTo(s, id, k) \in Nat
<1> DEFINE n == Len(s)
<1>1. n \in Nat /\ DOMAIN s = 1..n /\ IsFiniteSet(DOMAIN s)
  BY SeqIs DEF AreFitting
<1>2. \A k \in DOMAIN s : \A x : Asked(s[k].app, x) \in Nat /\ Times(s[k].app, x) \in Nat
  BY FittingIs DEF AreFitting
<1>3. ASSUME NEW i PROVE TakenOf(s, i) \in Nat
  <2> DEFINE f == [k \in DOMAIN s |-> Asked(s[k].app, i)]
  <2>1. \A k \in DOMAIN s : f[k] \in Nat
    BY <1>2
  <2> HIDE DEF f
  <2>2. SumFunctionOnSet(f, DOMAIN s) \in Nat
    BY <1>1, <2>1, SumNat
  <2> QED BY <2>2 DEF f, TakenOf
<1>4. ASSUME NEW id, NEW k \in 0..n PROVE TimesUpTo(s, id, k) \in Nat
  <2> DEFINE f == [j \in DOMAIN s |-> Times(s[j].app, id)]
  <2>1. \A j \in DOMAIN s : f[j] \in Nat
    BY <1>2
  <2>2. 1..k \subseteq DOMAIN s
    BY <1>1
  <2> HIDE DEF f
  <2>3. SumFunctionOnSet(f, 1..k) \in Nat
    BY <1>1, <2>1, <2>2, SumGrows
  <2> QED BY <2>3 DEF f, TimesUpTo
<1> QED BY <1>1, <1>3, <1>4

LEMMA CheckoutInitInv == CheckoutInit => CheckoutInv
<1> SUFFICES ASSUME CheckoutInit PROVE CheckoutInv
  OBVIOUS
<1>1. applied = <<>> /\ DOMAIN applied = {}
  BY DEF CheckoutInit
<1>2. AreFitting(applied) /\ WithinMax(applied)
  BY <1>1 DEF AreFitting, WithinMax
<1>3. \A i \in DOMAIN Items : TakenOf(applied, i) = 0
  BY <1>1, SumNothing DEF TakenOf
<1>4. quantity \in [DOMAIN Items -> Nat] /\ \A i \in DOMAIN Items : quantity[i] = 0
  BY DEF CheckoutInit
<1>5. RulesOK
  BY DEF CheckoutInit, RulesOK
<1> QED BY <1>2, <1>3, <1>4, <1>5 DEF CheckoutInv

LEMMA FreeIs ==
    ASSUME CheckoutInv
    PROVE  /\ AreLines(Free) /\ AreLines(Lines)
           /\ DOMAIN Free = DOMAIN Items
           /\ \A i \in DOMAIN Items : Free[i].quantity = quantity[i] - TakenOf(applied, i)
           /\ \A id \in DOMAIN Rules : Context.used[id] = TimesUpTo(applied, id, Len(applied))
<1> DEFINE q == [i \in DOMAIN Items |-> quantity[i] - TakenUnits(i)]
<1>1. Free = [i \in DOMAIN Items |-> Line(i, q[i])]
  BY DEF Free
<1>2. Lines = [i \in DOMAIN Items |-> Line(i, quantity[i])]
  BY DEF Lines
<1>3. \A i \in DOMAIN Items : q[i] = quantity[i] - TakenOf(applied, i)
  BY DEF TakenUnits, TakenOf
<1>4. ASSUME NEW id \in DOMAIN Rules PROVE Context.used[id] = TimesUpTo(applied, id, Len(applied))
  <2>1. DOMAIN applied = 1..Len(applied) /\ id \in DOMAIN deals
    BY TakenIs DEF CheckoutInv, RulesOK
  <2>2. Context.used[id] = Used(id)
    BY <2>1 DEF Context
  <2> QED BY <2>1, <2>2 DEF Used, TimesUpTo
<1> HIDE DEF q
<1>5. AreLines(Free) /\ AreLines(Lines)
  BY <1>1, <1>2 DEF AreLines
<1> QED BY <1>1, <1>3, <1>4, <1>5 DEF Line

LEMMA ApplyKeeps ==
    ASSUME CheckoutInv, NEW id \in DOMAIN deals, NEW asked \in Asks, Apply(id, asked)
    PROVE  CheckoutInv'
<1> DEFINE deal == deals[id]
           app == PriceApplication(deal, Free, asked, Context)
           e == [app |-> app, rule |-> deal]
           n == Len(applied)
<1>1. /\ app # NotEligible /\ applied' = Append(applied, e)
      /\ quantity' = quantity /\ deals' = deals
  BY DEF Apply
<1>2. id \in DOMAIN Rules /\ deal \in Rules[id] /\ deal.id = id /\ IsForm(deal)
  BY RuleForms DEF CheckoutInv, RulesOK
<1>3. IsAskOfItems(asked) /\ AreLines(Free)
  BY AsksAre, FreeIs
<1>4. /\ ValidRule(deal) /\ UnitsAreFree(Free, asked) /\ Makes(deal, asked) /\ app = Made(deal, asked)
      /\ WithinCap(deal, TimesOf(deal, asked), Context)
  <2> HIDE DEF deal
  <2> QED BY <1>1, <1>2, <1>3, PricedAlike
<1>5. app.deal = id /\ app.times = TimesOf(deal, asked) /\ app.times \in Nat \ {0} /\ app.asked = asked
  <2> HIDE DEF deal, app
  <2> QED BY <1>2, <1>3, <1>4, MadeIs
<1>6. Fitting(e)
  BY <1>2, <1>4, <1>5 DEF Fitting
<1> HIDE DEF app, deal
<1>7. e.app = app /\ e.rule = deal
  OBVIOUS
<1> HIDE DEF e
<1>8. AreFitting(applied)
  BY DEF CheckoutInv
<1>9. /\ n \in Nat /\ DOMAIN applied = 1..n
      /\ DOMAIN applied' = 1..(n + 1) /\ AreFitting(applied')
      /\ \A k \in 1..n : applied'[k] = applied[k]
      /\ applied'[n + 1] = e
  <2> DEFINE t == applied'
  <2>1. Appended(applied, e, t)
    BY <1>1 DEF Appended
  <2> HIDE DEF t
  <2>2. /\ Len(applied) \in Nat /\ DOMAIN applied = 1..Len(applied)
        /\ Len(t) = Len(applied) + 1 /\ DOMAIN t = 1..(Len(applied) + 1)
        /\ AreFitting(t)
        /\ \A k \in 1..Len(applied) : t[k] = applied[k]
        /\ t[Len(applied) + 1] = e
    BY <1>6, <1>8, <2>1, AppendedIs
  <2> QED BY <2>2 DEF t
<1> HIDE DEF n
<1>10. \A k \in 1..n : \A x : Asked(applied[k].app, x) \in Nat /\ Times(applied[k].app, x) \in Nat
  BY <1>8, <1>9, FittingIs DEF AreFitting
<1>11. \A x : Asked(e.app, x) \in Nat /\ Times(e.app, x) \in Nat
  BY <1>6, FittingIs
<1>12. ASSUME NEW i \in DOMAIN Items PROVE TakenOf(applied', i) <= quantity[i]
  <2> DEFINE f == [k \in DOMAIN applied |-> Asked(applied[k].app, i)]
             g == [k \in DOMAIN applied' |-> Asked(applied'[k].app, i)]
  <2>1. (\A k \in 1..n : f[k] \in Int /\ g[k] = f[k]) /\ g[n + 1] = Asked(app, i) /\ g[n + 1] \in Int
    BY <1>7, <1>9, <1>10, <1>11
  <2>2. TakenOf(applied, i) = SumFunctionOnSet(f, 1..n) /\ TakenOf(applied', i) = SumFunctionOnSet(g, 1..(n + 1))
    BY <1>9 DEF TakenOf
  <2> HIDE DEF f, g
  <2>3. TakenOf(applied', i) = TakenOf(applied, i) + Asked(app, i)
    BY <1>9, <2>1, <2>2, SumOneMore
  <2>4. Asked(app, i) = 0 \/ Asked(app, i) \in 1..(quantity[i] - TakenOf(applied, i))
    BY <1>4, <1>5, FreeIs DEF Asked, UnitsAreFree
  <2>5. quantity[i] \in Nat /\ TakenOf(applied, i) \in Nat /\ TakenOf(applied, i) <= quantity[i]
    BY <1>8, TakenIs DEF CheckoutInv
  <2> QED BY <2>3, <2>4, <2>5
<1>13. ASSUME NEW k \in 1..(n + 1), applied'[k].rule.max # None
       PROVE  TimesUpTo(applied', applied'[k].app.deal, k) <= applied'[k].rule.max
  <2> DEFINE d == applied'[k].app.deal
             f == [j \in DOMAIN applied |-> Times(applied[j].app, d)]
             g == [j \in DOMAIN applied' |-> Times(applied'[j].app, d)]
  <2> HIDE DEF d
  <2>1. (\A j \in 1..n : f[j] \in Int /\ g[j] = f[j]) /\ g[n + 1] = Times(app, d) /\ g[n + 1] \in Int
    BY <1>7, <1>9, <1>10, <1>11
  <2>2. \A j \in 0..(n + 1) : TimesUpTo(applied', d, j) = SumFunctionOnSet(g, 1..j)
    BY DEF TimesUpTo
  <2>3. \A j \in 0..n : TimesUpTo(applied, d, j) = SumFunctionOnSet(f, 1..j)
    BY DEF TimesUpTo
  <2> HIDE DEF f, g
  <2>4. CASE k \in 1..n
    <3>1. IsFiniteSet(1..k) /\ \A j \in 1..k : g[j] = f[j]
      <4>1. k \in Int
        BY <2>4
      <4> QED BY <1>9, <2>1, <2>4, <4>1, FS_Interval
    <3>2. SumFunctionOnSet(g, 1..k) = SumFunctionOnSet(f, 1..k)
      BY <3>1, SumSame
    <3>3. TimesUpTo(applied', d, k) = TimesUpTo(applied, d, k)
      BY <1>9, <2>2, <2>3, <2>4, <3>2
    <3>4. applied'[k] = applied[k] /\ k \in DOMAIN applied
      BY <1>9, <2>4
    <3>5. applied[k].rule.max # None /\ d = applied[k].app.deal
      BY <1>13, <3>4 DEF d
    <3>6. TimesUpTo(applied, d, k) <= applied[k].rule.max
      BY <3>4, <3>5 DEF CheckoutInv, WithinMax
    <3>7. TimesUpTo(applied', d, k) <= applied'[k].rule.max
      BY <3>3, <3>4, <3>6
    <3> QED BY <3>7 DEF d
  <2>5. CASE k = n + 1
    <3>1. d = id /\ applied'[k].rule = deal
      BY <1>5, <1>7, <1>9, <2>5 DEF d
    <3>2. SumFunctionOnSet(g, 1..(n + 1)) = SumFunctionOnSet(f, 1..n) + g[n + 1]
      BY <1>9, <2>1, SumOneMore
    <3>3. n \in 0..n /\ n + 1 \in 0..(n + 1)
      BY <1>9
    <3>4. TimesUpTo(applied', id, n + 1) = TimesUpTo(applied, id, n) + Times(app, id)
      BY <2>1, <2>2, <2>3, <3>1, <3>2, <3>3
    <3>5. Times(app, id) = app.times
      BY <1>5 DEF Times
    <3>6. Context.used[id] = TimesUpTo(applied, id, n)
      BY <1>2, FreeIs DEF n
    <3>7. deal.max # None
      BY <1>13, <3>1
    <3>8. TimesUpTo(applied, id, n) + app.times <= deal.max
      BY <1>2, <1>4, <1>5, <3>6, <3>7 DEF WithinCap
    <3>9. TimesUpTo(applied', d, k) <= applied'[k].rule.max
      BY <2>5, <3>1, <3>4, <3>5, <3>8
    <3> QED BY <3>9, Zenon DEF d
  <2>6. k \in 1..n \/ k = n + 1
    BY <1>9
  <2> QED BY <2>4, <2>5, <2>6
<1>14. WithinMax(applied')
  BY <1>9, <1>13 DEF WithinMax
<1>15. \A i \in DOMAIN Items : TakenOf(applied', i) <= quantity'[i]
  BY <1>1, <1>12
<1>16. RulesOK'
  BY <1>1 DEF CheckoutInv, RulesOK
<1> QED BY <1>1, <1>9, <1>14, <1>15, <1>16 DEF CheckoutInv

LEMMA TakeOffKeeps ==
    ASSUME CheckoutInv, NEW k \in DOMAIN applied, TakeOff(k)
    PROVE  CheckoutInv'
<1> DEFINE N == Len(applied)
           t == [n \in 1..(N - 1) |-> applied[Skip(k, n)]]
<1>1. applied' = t /\ quantity' = quantity /\ deals' = deals
  BY DEF TakeOff, Skip
<1>2. AreFitting(applied)
  BY DEF CheckoutInv
<1>3. N \in Nat /\ DOMAIN applied = 1..N /\ k \in 1..N /\ N - 1 \in Nat
  BY <1>2, TakenIs
<1>4. \A n \in 0..(N - 1) : Skip(k, n) \in 0..N /\ (n # 0 => Skip(k, n) \in 1..N)
  BY <1>3 DEF Skip
<1>5. DOMAIN t = 1..(N - 1) /\ \A n \in 1..(N - 1) : t[n] = applied[Skip(k, n)] /\ Skip(k, n) \in 1..N
  BY <1>3, <1>4
<1>6. AreFitting(t)
  <2> DEFINE R == { applied[j] : j \in DOMAIN applied }
  <2>1. t \in [1..(N - 1) -> R]
    BY <1>3, <1>5
  <2> HIDE DEF t, R
  <2>2. t \in Seq(R)
    BY <1>3, <2>1
  <2>3. t \in Seq({ t[n] : n \in DOMAIN t })
    BY <2>2, SeqIs
  <2>4. \A n \in DOMAIN t : Fitting(t[n])
    BY <1>2, <1>3, <1>5 DEF AreFitting
  <2> QED BY <2>3, <2>4 DEF AreFitting
<1> HIDE DEF t, N
<1>7. \A j \in 1..N : \A x : Asked(applied[j].app, x) \in Nat /\ Times(applied[j].app, x) \in Nat
  BY <1>2, <1>3, FittingIs DEF AreFitting
<1>8. ASSUME NEW i \in DOMAIN Items PROVE TakenOf(t, i) <= quantity[i]
  <2> DEFINE f == [j \in DOMAIN applied |-> Asked(applied[j].app, i)]
             g == [j \in DOMAIN t |-> Asked(t[j].app, i)]
  <2>1. (\A j \in 1..N : f[j] \in Nat) /\ \A j \in 1..(N - 1) : g[j] = f[Skip(k, j)]
    BY <1>3, <1>5, <1>7
  <2>2. TakenOf(applied, i) = SumFunctionOnSet(f, 1..N) /\ TakenOf(t, i) = SumFunctionOnSet(g, 1..(N - 1))
    BY <1>3, <1>5 DEF TakenOf
  <2> HIDE DEF f, g
  <2>3. N - 1 \in 0..(N - 1) /\ Skip(k, N - 1) \in {N - 1, N}
    BY <1>3 DEF Skip
  <2>4. SumFunctionOnSet(g, 1..(N - 1)) <= SumFunctionOnSet(f, 1..Skip(k, N - 1))
    BY <1>3, <2>1, <2>3, SumOneLess
  <2>5. /\ SumFunctionOnSet(f, 1..Skip(k, N - 1)) <= SumFunctionOnSet(f, 1..N)
        /\ SumFunctionOnSet(f, 1..Skip(k, N - 1)) \in Nat
    <3>1. 1..Skip(k, N - 1) \subseteq 1..N
      BY <1>3, <2>3
    <3>2. IsFiniteSet(1..N)
      BY <1>3, FS_Interval
    <3> QED BY <2>1, <3>1, <3>2, SumGrows
  <2>6. quantity[i] \in Nat /\ TakenOf(applied, i) \in Nat /\ TakenOf(applied, i) <= quantity[i]
    BY <1>2, TakenIs DEF CheckoutInv
  <2>7. TakenOf(t, i) \in Nat
    BY <1>6, TakenIs
  <2> QED BY <2>2, <2>4, <2>5, <2>6, <2>7
<1>9. ASSUME NEW n \in 1..(N - 1), t[n].rule.max # None
      PROVE  TimesUpTo(t, t[n].app.deal, n) <= t[n].rule.max
  <2> DEFINE d == t[n].app.deal
             f == [j \in DOMAIN applied |-> Times(applied[j].app, d)]
             g == [j \in DOMAIN t |-> Times(t[j].app, d)]
             b == Skip(k, n)
  <2> HIDE DEF d
  <2>1. (\A j \in 1..N : f[j] \in Nat) /\ \A j \in 1..(N - 1) : g[j] = f[Skip(k, j)]
    BY <1>3, <1>5, <1>7
  <2>2. TimesUpTo(t, d, n) = SumFunctionOnSet(g, 1..n) /\ TimesUpTo(applied, d, b) = SumFunctionOnSet(f, 1..b)
    BY DEF TimesUpTo
  <2> HIDE DEF f, g
  <2>3. SumFunctionOnSet(g, 1..n) <= SumFunctionOnSet(f, 1..b)
    <3>1. n \in 0..(N - 1)
      BY <1>3
    <3> QED BY <1>3, <2>1, <3>1, SumOneLess
  <2>4. b \in 1..N /\ t[n] = applied[b]
    BY <1>5
  <2> HIDE DEF b
  <2>5. TimesUpTo(applied, d, b) <= applied[b].rule.max
    <3>1. applied[b].rule.max # None /\ d = applied[b].app.deal
      BY <1>9, <2>4 DEF d
    <3> QED BY <1>3, <2>4, <3>1 DEF CheckoutInv, WithinMax
  <2>6. TimesUpTo(t, d, n) \in Nat /\ TimesUpTo(applied, d, b) \in Nat
    BY <1>2, <1>3, <1>5, <1>6, <2>4, TakenIs
  <2>7. applied[b].rule.max \in Int
    <3>1. applied[b].app.deal \in DOMAIN Rules /\ applied[b].rule \in Rules[applied[b].app.deal]
      BY <1>2, <1>3, <2>4 DEF AreFitting, Fitting
    <3> QED BY <1>9, <2>4, <3>1, RuleForms DEF IsForm
  <2>8. TimesUpTo(t, d, n) <= t[n].rule.max
    BY <2>2, <2>3, <2>4, <2>5, <2>6, <2>7
  <2> QED BY <2>8 DEF d
<1>10. WithinMax(t)
  BY <1>5, <1>9 DEF WithinMax
<1>11. AreFitting(applied') /\ WithinMax(applied') /\ \A i \in DOMAIN Items : TakenOf(applied', i) <= quantity[i]
  BY <1>1, <1>6, <1>8, <1>10
<1>12. RulesOK'
  BY <1>1 DEF CheckoutInv, RulesOK
<1> QED BY <1>1, <1>11, <1>12 DEF CheckoutInv

(* The steps that leave what is applied alone.                             *)
LEMMA OrderKeeps ==
    ASSUME CheckoutInv, applied' = applied, RulesOK', quantity' \in [DOMAIN Items -> Nat],
           \A i \in DOMAIN Items : quantity'[i] >= TakenOf(applied, i)
    PROVE  CheckoutInv'
BY DEF CheckoutInv

LEMMA CheckoutNextKeeps == CheckoutInv /\ [CheckoutNext]_checkoutVars => CheckoutInv'
<1> SUFFICES ASSUME CheckoutInv, [CheckoutNext]_checkoutVars PROVE CheckoutInv'
  OBVIOUS
<1>1. AreFitting(applied) /\ RulesOK /\ quantity \in [DOMAIN Items -> Nat]
  BY DEF CheckoutInv
<1>2. \A i \in DOMAIN Items : quantity[i] \in Nat /\ TakenOf(applied, i) \in Nat /\ TakenOf(applied, i) <= quantity[i]
  BY <1>1, TakenIs DEF CheckoutInv
<1>3. deals' = deals => RulesOK'
  BY <1>1 DEF RulesOK
<1>4. CASE Tick \/ UNCHANGED checkoutVars
  <2>1. applied' = applied /\ deals' = deals /\ quantity' = quantity
    BY <1>4 DEF Tick, checkoutVars
  <2> QED BY <1>1, <1>2, <1>3, <2>1, OrderKeeps
<1>5. ASSUME NEW i \in DOMAIN Items, AddUnit(i) PROVE CheckoutInv'
  <2>1. applied' = applied /\ deals' = deals /\ quantity' = [quantity EXCEPT ![i] = @ + 1]
    BY <1>5 DEF AddUnit
  <2>2. \A j \in DOMAIN Items : quantity'[j] \in Nat /\ quantity'[j] >= quantity[j]
    BY <1>1, <1>2, <2>1
  <2>3. quantity' \in [DOMAIN Items -> Nat]
    BY <1>1, <2>1
  <2>4. \A j \in DOMAIN Items : quantity'[j] >= TakenOf(applied, j)
    BY <1>2, <2>2
  <2> QED BY <1>3, <2>1, <2>3, <2>4, OrderKeeps
<1>6. ASSUME NEW i \in DOMAIN Items, RemoveUnit(i) PROVE CheckoutInv'
  <2>1. /\ applied' = applied /\ deals' = deals /\ quantity' = [quantity EXCEPT ![i] = @ - 1]
        /\ Free[i].quantity > 0
    BY <1>6 DEF RemoveUnit
  <2>2. quantity[i] - TakenOf(applied, i) > 0
    BY <2>1, FreeIs
  <2>3. \A j \in DOMAIN Items : quantity'[j] \in Nat /\ quantity'[j] >= TakenOf(applied, j)
    BY <1>1, <1>2, <2>1, <2>2
  <2>4. quantity' \in [DOMAIN Items -> Nat]
    BY <1>1, <2>1, <2>3
  <2> QED BY <1>3, <2>1, <2>3, <2>4, OrderKeeps
<1>7. ASSUME NEW id \in DOMAIN deals, NEW deal \in Rules[id], EditRule(id, deal) PROVE CheckoutInv'
  <2>1. applied' = applied /\ quantity' = quantity /\ deals' = [deals EXCEPT ![id] = deal]
    BY <1>7 DEF EditRule
  <2>2. RulesOK'
    BY <1>1, <2>1 DEF RulesOK
  <2> QED BY <1>1, <1>2, <2>1, <2>2, OrderKeeps
<1>8. ASSUME NEW id \in DOMAIN deals, NEW asked \in Asks, Apply(id, asked) PROVE CheckoutInv'
  BY <1>8, ApplyKeeps
<1>9. ASSUME NEW k \in DOMAIN applied, TakeOff(k) PROVE CheckoutInv'
  BY <1>9, TakeOffKeeps
<1> QED BY <1>4, <1>5, <1>6, <1>7, <1>8, <1>9 DEF CheckoutNext

LEMMA CheckoutInvariance == CheckoutSpec => []CheckoutInv
<1> QED BY CheckoutInitInv, CheckoutNextKeeps, PTL DEF CheckoutSpec

LEMMA InvFits == CheckoutInv => DealsFitTheOrder
<1> SUFFICES ASSUME CheckoutInv PROVE DealsFitTheOrder
  OBVIOUS
<1> DEFINE apps == [k \in DOMAIN applied |-> applied[k].app]
<1>1. AreFitting(applied) /\ \A i \in DOMAIN Items : TakenOf(applied, i) <= quantity[i]
  BY DEF CheckoutInv
<1>2. DOMAIN Lines = DOMAIN Items /\ \A i \in DOMAIN Items : Lines[i].quantity = quantity[i] /\ Lines[i].price = Items[i].price
  BY DEF Lines, Line
<1>3. DOMAIN apps = DOMAIN applied /\ \A k \in DOMAIN applied : apps[k] = applied[k].app
  OBVIOUS
<1> HIDE DEF apps
<1>4. ASSUME NEW i \in DOMAIN Lines
      PROVE  SumFunctionOnSet([k \in DOMAIN apps |-> Asked(apps[k], i)], DOMAIN apps) <= Lines[i].quantity
  <2>1. [k \in DOMAIN apps |-> Asked(apps[k], i)] = [k \in DOMAIN applied |-> Asked(applied[k].app, i)]
    BY <1>3
  <2> QED BY <1>1, <1>2, <1>3, <2>1 DEF TakenOf
<1>5. ASSUME NEW k \in DOMAIN apps
      PROVE  /\ apps[k].discount = SumFunctionOnSet(apps[k].cuts, DOMAIN apps[k].cuts)
             /\ \A i \in DOMAIN apps[k].cuts : apps[k].cuts[i] \in 0..(apps[k].asked[i] * Lines[i].price)
  <2> DEFINE e == applied[k]
  <2>1. Fitting(e) /\ apps[k] = e.app
    BY <1>1, <1>3 DEF AreFitting
  <2> HIDE DEF e
  <2>2. DOMAIN e.app.cuts \subseteq DOMAIN Items
    BY <2>1, FittingIs, AsksAre DEF Fitting, IsAskOfItems
  <2> QED BY <1>2, <2>1, <2>2, FittingIs
<1> QED BY <1>4, <1>5 DEF DealsFitTheOrder, Fits, apps

(* However the cart and its deals were changed, no unit is in two deals    *)
(* and the cuts of a deal add up to its discount, none above the price of  *)
(* the units it covers (deal.rs:23-24, alloc.rs:27-31).                    *)
THEOREM DealsAlwaysFit == CheckoutSpec => []DealsFitTheOrder
<1> QED BY CheckoutInvariance, InvFits, PTL

-----------------------------------------------------------------------------
(* The server judges an order's applications in some order of their own.   *)
IsOrderOf(q, N) ==
    /\ N \in Nat /\ q \in [1..N -> 1..N]
    /\ \A m, n \in 1..N : q[m] = q[n] => m = n

LEMMA SumPermuted ==
    ASSUME NEW N, NEW q, IsOrderOf(q, N), NEW f, NEW g,
           \A k \in 1..N : f[k] \in Nat, \A m \in 1..N : g[m] = f[q[m]], NEW n \in 1..N
    PROVE  /\ SumFunctionOnSet(g, 1..(n - 1)) \in Nat
           /\ SumFunctionOnSet(g, 1..n) = SumFunctionOnSet(g, 1..(n - 1)) + g[n]
           /\ SumFunctionOnSet(g, 1..n) <= SumFunctionOnSet(f, 1..N)
<1> DEFINE K == 1..n
           image == { q[m] : m \in K }
           all == 1..N
<1>1. N \in Nat /\ n \in Nat /\ n - 1 \in Nat /\ q \in [1..N -> 1..N] /\ \A m, k \in 1..N : q[m] = q[k] => m = k
  BY DEF IsOrderOf
<1>2. IsFiniteSet(K) /\ IsFiniteSet(1..(n - 1)) /\ IsFiniteSet(all)
  BY <1>1, FS_Interval
<1>3. \A m \in K : m \in 1..N /\ q[m] \in 1..N /\ f[q[m]] = g[m] /\ g[m] \in Int /\ g[m] \in Nat
  BY <1>1
<1>4. SumFunctionOnSet(g, 1..(n - 1)) \in Nat
  <2>1. \A m \in 1..(n - 1) : g[m] \in Nat
    BY <1>1, <1>3
  <2> QED BY <1>2, <2>1, SumNat
<1>5. SumFunctionOnSet(g, 1..n) = SumFunctionOnSet(g, 1..(n - 1)) + g[n]
  <2>1. n - 1 \in Nat /\ (n - 1) + 1 = n /\ (\A k \in 1..(n - 1) : g[k] \in Int /\ g[k] = g[k]) /\ g[n] \in Int
    BY <1>1, <1>3
  <2>2. SumFunctionOnSet(g, 1..((n - 1) + 1)) = SumFunctionOnSet(g, 1..(n - 1)) + g[(n - 1) + 1]
    BY <2>1, SumOneMore
  <2> QED BY <2>1, <2>2, Zenon
<1>6. \A m, k \in K : q[m] = q[k] => m = k
  BY <1>1, <1>3
<1>7. image \subseteq all
  BY <1>3
<1> HIDE DEF K
<1>8. SumFunctionOnSet(f, image) = SumFunctionOnSet(g, K)
  BY <1>2, <1>3, <1>6, SumImage
<1> HIDE DEF image
<1>9. \A k \in all : f[k] \in Nat
  OBVIOUS
<1> HIDE DEF all
<1>10. SumFunctionOnSet(f, image) <= SumFunctionOnSet(f, all)
  BY <1>2, <1>7, <1>9, SumGrows
<1> QED BY <1>4, <1>5, <1>8, <1>10 DEF K, all

(* The units and the times of the first n judged.                          *)
AskedBefore(q, i, n) == SumFunctionOnSet([m \in DOMAIN q |-> Asked(applied[q[m]].app, i)], 1..n)

TimesBefore(q, id, n) == SumFunctionOnSet([m \in DOMAIN q |-> Times(applied[q[m]].app, id)], 1..n)

LEMMA BeforeIs ==
    ASSUME CheckoutInv, NEW q, IsOrderOf(q, Len(applied)), NEW n \in 1..Len(applied)
    PROVE  /\ \A i : /\ AskedBefore(q, i, n - 1) \in Nat
                     /\ AskedBefore(q, i, n) = AskedBefore(q, i, n - 1) + Asked(applied[q[n]].app, i)
                     /\ AskedBefore(q, i, n) <= TakenOf(applied, i)
           /\ \A id : /\ TimesBefore(q, id, n - 1) \in Nat
                      /\ TimesBefore(q, id, n) = TimesBefore(q, id, n - 1) + Times(applied[q[n]].app, id)
                      /\ TimesBefore(q, id, n) <= TimesUpTo(applied, id, Len(applied))
<1> DEFINE N == Len(applied)
<1>1. AreFitting(applied)
  BY DEF CheckoutInv
<1>2. N \in Nat /\ DOMAIN applied = 1..N
  BY <1>1, TakenIs
<1>3. DOMAIN q = 1..N /\ \A m \in 1..N : q[m] \in 1..N
  BY DEF IsOrderOf
<1> HIDE DEF N
<1>4. \A k \in 1..N : \A x : Asked(applied[k].app, x) \in Nat /\ Times(applied[k].app, x) \in Nat
  BY <1>1, <1>2, FittingIs DEF AreFitting
<1>5. ASSUME NEW i
      PROVE  /\ AskedBefore(q, i, n - 1) \in Nat
             /\ AskedBefore(q, i, n) = AskedBefore(q, i, n - 1) + Asked(applied[q[n]].app, i)
             /\ AskedBefore(q, i, n) <= TakenOf(applied, i)
  <2> DEFINE f == [k \in DOMAIN applied |-> Asked(applied[k].app, i)]
             g == [m \in DOMAIN q |-> Asked(applied[q[m]].app, i)]
  <2>1. /\ \A k \in 1..N : f[k] \in Nat
        /\ \A m \in 1..N : g[m] = f[q[m]]
        /\ n \in 1..N /\ g[n] = Asked(applied[q[n]].app, i)
    BY <1>2, <1>3, <1>4 DEF N
  <2>2. /\ AskedBefore(q, i, n) = SumFunctionOnSet(g, 1..n)
        /\ AskedBefore(q, i, n - 1) = SumFunctionOnSet(g, 1..(n - 1))
        /\ TakenOf(applied, i) = SumFunctionOnSet(f, 1..N)
    BY <1>2 DEF AskedBefore, TakenOf
  <2> HIDE DEF f, g
  <2>3. IsOrderOf(q, N)
    BY DEF N
  <2>4. /\ SumFunctionOnSet(g, 1..(n - 1)) \in Nat
        /\ SumFunctionOnSet(g, 1..n) = SumFunctionOnSet(g, 1..(n - 1)) + g[n]
        /\ SumFunctionOnSet(g, 1..n) <= SumFunctionOnSet(f, 1..N)
    BY <2>1, <2>3, SumPermuted
  <2> QED BY <2>1, <2>2, <2>4
<1>6. ASSUME NEW id
      PROVE  /\ TimesBefore(q, id, n - 1) \in Nat
             /\ TimesBefore(q, id, n) = TimesBefore(q, id, n - 1) + Times(applied[q[n]].app, id)
             /\ TimesBefore(q, id, n) <= TimesUpTo(applied, id, N)
  <2> DEFINE f == [k \in DOMAIN applied |-> Times(applied[k].app, id)]
             g == [m \in DOMAIN q |-> Times(applied[q[m]].app, id)]
  <2>1. /\ \A k \in 1..N : f[k] \in Nat
        /\ \A m \in 1..N : g[m] = f[q[m]]
        /\ n \in 1..N /\ g[n] = Times(applied[q[n]].app, id)
    BY <1>2, <1>3, <1>4 DEF N
  <2>2. /\ TimesBefore(q, id, n) = SumFunctionOnSet(g, 1..n)
        /\ TimesBefore(q, id, n - 1) = SumFunctionOnSet(g, 1..(n - 1))
        /\ TimesUpTo(applied, id, N) = SumFunctionOnSet(f, 1..N)
    BY DEF TimesBefore, TimesUpTo
  <2> HIDE DEF f, g
  <2>3. IsOrderOf(q, N)
    BY DEF N
  <2>4. /\ SumFunctionOnSet(g, 1..(n - 1)) \in Nat
        /\ SumFunctionOnSet(g, 1..n) = SumFunctionOnSet(g, 1..(n - 1)) + g[n]
        /\ SumFunctionOnSet(g, 1..n) <= SumFunctionOnSet(f, 1..N)
    BY <2>1, <2>3, SumPermuted
  <2> QED BY <2>1, <2>2, <2>4
<1> QED BY <1>5, <1>6 DEF N

(* A deal whose rule nobody edited since is taken no more often than its   *)
(* rule allows: what counts is the last of its applications.               *)
LEMMA UneditedWithinMax ==
    ASSUME CheckoutInv, NEW k \in DOMAIN applied, ~EditedSince(applied[k].app.deal),
           deals[applied[k].app.deal].max # None
    PROVE  TimesUpTo(applied, applied[k].app.deal, Len(applied)) <= deals[applied[k].app.deal].max
<1> DEFINE N == Len(applied)
           id == applied[k].app.deal
           K == { N - j : j \in { j \in 1..N : applied[j].app.deal = id } }
<1>1. AreFitting(applied)
  BY DEF CheckoutInv
<1>2. N \in Nat /\ DOMAIN applied = 1..N
  BY <1>1, TakenIs
<1>3. \A j \in 1..N : \A x : Times(applied[j].app, x) \in Nat
  BY <1>1, <1>2, FittingIs DEF AreFitting
<1> HIDE DEF N, id
<1>4. K \in SUBSET Nat /\ K # {}
  <2>1. N - k \in K
    BY <1>2 DEF id
  <2> QED BY <1>2, <2>1
<1>5. PICK x \in K : \A y \in K : x <= y
  <2> HIDE DEF K
  <2> QED BY <1>4, LeastNat
<1>6. PICK last \in 1..N : x = N - last /\ applied[last].app.deal = id
  BY <1>5
<1>7. \A j \in (last + 1)..N : applied[j].app.deal # id
  <2> SUFFICES ASSUME NEW j \in (last + 1)..N, applied[j].app.deal = id PROVE FALSE
    OBVIOUS
  <2>1. j \in 1..N /\ N - j \in K /\ ~(N - last <= N - j)
    BY <1>2
  <2> HIDE DEF K
  <2> QED BY <1>5, <1>6, <2>1
<1>8. applied[last].rule = deals[id]
  BY <1>2, <1>6 DEF EditedSince, id
<1>9. TimesUpTo(applied, id, last) <= deals[id].max
  BY <1>2, <1>6, <1>8 DEF CheckoutInv, WithinMax, id
<1>10. TimesUpTo(applied, id, N) = TimesUpTo(applied, id, last)
  <2> DEFINE f == [j \in DOMAIN applied |-> Times(applied[j].app, id)]
             A == 1..last
             B == (last + 1)..N
  <2>1. A \union B = 1..N /\ A \intersect B = {}
    BY <1>2
  <2>2. \A j \in A \union B : f[j] \in Int
    <3>1. \A j \in 1..N : f[j] \in Int
      BY <1>2, <1>3
    <3> QED BY <2>1, <3>1
  <2>3. \A j \in B : f[j] = 0
    BY <1>2, <1>7, <2>1 DEF Times
  <2>4. IsFiniteSet(A) /\ IsFiniteSet(B)
    <3>1. last \in Int /\ last + 1 \in Int /\ N \in Int
      BY <1>2
    <3> QED BY <3>1, FS_Interval
  <2>5. \A j \in B : f[j] \in Int /\ f[j] <= 0
    BY <2>3
  <2>6. TimesUpTo(applied, id, N) = SumFunctionOnSet(f, 1..N) /\ TimesUpTo(applied, id, last) = SumFunctionOnSet(f, A)
    BY DEF TimesUpTo
  <2> HIDE DEF f, A, B
  <2>7. SumFunctionOnSet(f, A \union B) = SumFunctionOnSet(f, A) + SumFunctionOnSet(f, B)
    BY <2>1, <2>2, <2>4, SumApart
  <2>8. SumFunctionOnSet(f, A) \in Int
    BY <2>2, <2>4, SumType
  <2>9. SumFunctionOnSet(f, B) = 0
    <3>1. SumFunctionOnSet(f, B) <= 0 * Cardinality(B)
      BY <2>4, <2>5, SumUpTo
    <3>2. SumFunctionOnSet(f, B) \in Nat /\ Cardinality(B) \in Nat
      BY <2>3, <2>4, SumNat, FS_CardinalityType
    <3> QED BY <3>1, <3>2
  <2>10. SumFunctionOnSet(f, 1..N) = SumFunctionOnSet(f, A) + SumFunctionOnSet(f, B)
    BY <2>1, <2>7, Zenon
  <2> QED BY <2>6, <2>8, <2>9, <2>10
<1> QED BY <1>9, <1>10 DEF N, id

(* What the server's pass keeps of an order.                               *)
Judging == INSTANCE FoldFacts WITH
    FoldStep <- LAMBDA rules, apps, none, done, k :
        Answered(done, PriceApplication(rules[apps[k].app.deal], done.lines,
                                         apps[k].app.asked, done.ctx))

BeforeJudging == [lines |-> Lines, ctx |-> NothingUsed, apps |-> <<>>]

LEMMA JudgedFold ==
    ASSUME NEW q
    PROVE  Judged(q) = Judging!Folded(deals, applied, None, BeforeJudging, q).apps
BY DEF Judged, BeforeJudging, FoldLeft, MapThenFoldSet, Max, Judging!Folded, Judging!IsFolder, Judging!Max

Agreed(answer, k) ==
    LET id == applied[k].app.deal
    IN  \/ answer = applied[k].app
        \/ EditedSince(id)
        \/ ~EligibleNow(deals[id], Context)

MayAnswer ==
    {NotEligible} \union { Made(deals[id], asked) : id \in DOMAIN Rules, asked \in Asks }

IsOrder(done) ==
    /\ done = [lines |-> done.lines, ctx |-> done.ctx, apps |-> done.apps]
    /\ done.ctx = [branch |-> Branch, now |-> now, used |-> done.ctx.used]
    /\ done.ctx.used \in [DOMAIN Rules -> Int]
    /\ done.apps \in Seq(MayAnswer)

QuantitiesOf(done) == [i \in DOMAIN Items |-> done.lines[i].quantity]

HasLines(done) ==
    /\ done.lines = [i \in DOMAIN Items |-> Line(i, QuantitiesOf(done)[i])]
    /\ QuantitiesOf(done) \in [DOMAIN Items -> Int]

AfterJudging(done, q, n) ==
    /\ IsOrder(done) /\ HasLines(done)
    /\ \A i \in DOMAIN Items : done.lines[i].quantity >= quantity[i] - AskedBefore(q, i, n)
    /\ \A id \in DOMAIN Rules : EditedSince(id) \/ done.ctx.used[id] <= TimesBefore(q, id, n)
    /\ Len(done.apps) = n
    /\ \A m \in 1..n : Agreed(done.apps[m], q[m])

Refused(done, next) == next = [done EXCEPT !.apps = Append(@, NotEligible)]

Granted(done, app, next) == next = Take(done, app)

(* What a refusal leaves.                                                  *)
LEMMA RefusedIs ==
    ASSUME NEW done, IsOrder(done), NEW next, Refused(done, next)
    PROVE  /\ IsOrder(next) /\ next.lines = done.lines /\ next.ctx = done.ctx
           /\ next.apps = Append(done.apps, NotEligible)
<1> DEFINE l == done.lines
           c == done.ctx
           a == done.apps
<1>1. done = [lines |-> l, ctx |-> c, apps |-> a]
  BY DEF IsOrder
<1>2. c = [branch |-> Branch, now |-> now, used |-> c.used] /\ c.used \in [DOMAIN Rules -> Int] /\ a \in Seq(MayAnswer)
  BY DEF IsOrder
<1> HIDE DEF l, c, a
<1>3. next = [lines |-> l, ctx |-> c, apps |-> Append(a, NotEligible)]
  BY <1>1 DEF Refused
<1>4. next.lines = l /\ next.ctx = c /\ next.apps = Append(a, NotEligible)
  BY <1>3
<1>5. NotEligible \in MayAnswer
  BY DEF MayAnswer
<1>6. Append(a, NotEligible) \in Seq(MayAnswer)
  <2> HIDE DEF MayAnswer, NotEligible
  <2> QED BY <1>2, <1>5, AppendProperties
<1>7. IsOrder(next)
  BY <1>2, <1>3, <1>4, <1>6 DEF IsOrder
<1> QED BY <1>4, <1>7 DEF l, c, a

(* What an answer that takes units leaves.                                 *)
LEMMA GrantedIs ==
    ASSUME NEW done, IsOrder(done), HasLines(done), NEW app \in MayAnswer,
           app.deal \in DOMAIN Rules, app.times \in Nat, \A i : Asked(app, i) \in Nat,
           NEW next, Granted(done, app, next)
    PROVE  /\ IsOrder(next) /\ HasLines(next)
           /\ next.apps = Append(done.apps, app)
           /\ \A i \in DOMAIN Items : next.lines[i].quantity = done.lines[i].quantity - Asked(app, i)
           /\ \A id \in DOMAIN Rules : next.ctx.used[id] = done.ctx.used[id] + Times(app, id)
<1> DEFINE l == done.lines
           c == done.ctx
           a == done.apps
           u == c.used
           d == app.deal
           used == [u EXCEPT ![d] = @ + app.times]
           lines == Consume(l, app)
<1>1. done = [lines |-> l, ctx |-> c, apps |-> a]
  BY DEF IsOrder
<1>2. c = [branch |-> Branch, now |-> now, used |-> u] /\ u \in [DOMAIN Rules -> Int] /\ a \in Seq(MayAnswer)
  BY DEF IsOrder
<1>3. l = [i \in DOMAIN Items |-> Line(i, QuantitiesOf(done)[i])]
      /\ \A i \in DOMAIN Items : l[i].quantity = QuantitiesOf(done)[i] /\ QuantitiesOf(done)[i] \in Int
  BY DEF HasLines, QuantitiesOf
<1> HIDE DEF l, c, a, u
<1>4. next = [lines |-> lines, ctx |-> [branch |-> Branch, now |-> now, used |-> used], apps |-> Append(a, app)]
  <2> HIDE DEF lines
  <2>1. done.ctx = c /\ c.used = u
    BY <1>1 DEF u
  <2>2. next = [done EXCEPT !.lines = lines, !.apps = Append(a, app), !.ctx.used[app.deal] = @ + app.times]
    BY <1>1 DEF Granted, Take, lines
  <2>3. next = [lines |-> lines, ctx |-> [c EXCEPT !.used[d] = @ + app.times], apps |-> Append(a, app)]
    BY <1>1, <2>2
  <2>4. [c EXCEPT !.used[d] = @ + app.times] = [branch |-> Branch, now |-> now, used |-> used]
    <3>1. [c EXCEPT !.used[d] = @ + app.times] = [c EXCEPT !.used = used]
      BY <2>1
    <3> HIDE DEF used, d
    <3>2. [c EXCEPT !.used = used] = [branch |-> Branch, now |-> now, used |-> used]
      BY <1>2
    <3> QED BY <3>1, <3>2
  <2> HIDE DEF used
  <2> QED BY <2>3, <2>4
<1>5. next.lines = lines /\ next.ctx = [branch |-> Branch, now |-> now, used |-> used] /\ next.ctx.used = used
      /\ next.apps = Append(a, app)
  BY <1>4
<1>6. /\ used \in [DOMAIN Rules -> Int]
      /\ \A id \in DOMAIN Rules : used[id] = u[id] + Times(app, id)
  BY <1>2 DEF Times
<1>7. Append(a, app) \in Seq(MayAnswer)
  <2> HIDE DEF MayAnswer
  <2> QED BY <1>2, AppendProperties
<1> HIDE DEF used
<1>8. IsOrder(next)
  <2> HIDE DEF lines
  <2> QED BY <1>4, <1>5, <1>6, <1>7 DEF IsOrder
<1>9. ASSUME NEW i \in DOMAIN Items
      PROVE  lines[i] = Line(i, l[i].quantity - Asked(app, i)) /\ l[i].quantity \in Int
  <2>1. l[i] = Line(i, QuantitiesOf(done)[i]) /\ l[i].quantity \in Int /\ i \in DOMAIN l
    BY <1>3
  <2>2. CASE i \in DOMAIN app.asked
    <3>1. lines[i] = [l[i] EXCEPT !.quantity = @ - app.asked[i]]
      BY <2>1, <2>2 DEF Consume
    <3>2. lines[i] = Line(i, l[i].quantity - app.asked[i])
      BY <2>1, <3>1 DEF Line
    <3> QED BY <2>1, <2>2, <3>2 DEF Asked
  <2>3. CASE i \notin DOMAIN app.asked
    <3>1. lines[i] = l[i]
      BY <2>1, <2>3 DEF Consume
    <3>2. l[i].quantity - 0 = l[i].quantity /\ l[i].quantity = QuantitiesOf(done)[i]
      BY <1>3, <2>1
    <3> QED BY <2>1, <2>3, <3>1, <3>2 DEF Asked
  <2> QED BY <2>2, <2>3
<1>10. lines = [i \in DOMAIN Items |-> lines[i]]
  <2>1. DOMAIN l = DOMAIN Items
    BY <1>3
  <2> QED BY <2>1 DEF Consume
<1> HIDE DEF lines
<1>11. ASSUME NEW i \in DOMAIN Items
       PROVE  next.lines[i].quantity = l[i].quantity - Asked(app, i)
  <2>1. next.lines[i] = Line(i, l[i].quantity - Asked(app, i))
    BY <1>5, <1>9
  <2> QED BY <2>1 DEF Line
<1>12. /\ QuantitiesOf(next) \in [DOMAIN Items -> Int]
       /\ \A i \in DOMAIN Items : QuantitiesOf(next)[i] = l[i].quantity - Asked(app, i)
  BY <1>9, <1>11 DEF QuantitiesOf
<1>13. next.lines = [i \in DOMAIN Items |-> Line(i, QuantitiesOf(next)[i])]
  <2>1. \A i \in DOMAIN Items : lines[i] = Line(i, QuantitiesOf(next)[i])
    BY <1>9, <1>12
  <2>2. [i \in DOMAIN Items |-> lines[i]] = [i \in DOMAIN Items |-> Line(i, QuantitiesOf(next)[i])]
    BY <2>1
  <2> QED BY <1>5, <1>10, <2>2
<1> QED BY <1>5, <1>6, <1>8, <1>11, <1>12, <1>13 DEF HasLines, l, a, u, c

(* An answer to the k-th application, whose rule still stands.             *)
JudgedNext(done, k, next) ==
    next = Answered(done, PriceApplication(deals[applied[k].app.deal], done.lines,
                                            applied[k].app.asked, done.ctx))

LEMMA JudgeKeeps ==
    ASSUME CheckoutInv, NEW q, IsOrderOf(q, Len(applied)), NEW n \in 1..Len(applied),
           NEW done, AfterJudging(done, q, n - 1), NEW next, JudgedNext(done, q[n], next)
    PROVE  AfterJudging(next, q, n)
<1> DEFINE N == Len(applied)
           k == q[n]
           e == applied[k]
           id == e.app.deal
           deal == deals[id]
           asked == e.app.asked
           times == TimesOf(deal, asked)
           answer == PriceApplication(deal, done.lines, asked, done.ctx)
           granted == /\ ValidRule(deal) /\ EligibleNow(deal, done.ctx) /\ UnitsAreFree(done.lines, asked)
                      /\ Makes(deal, asked) /\ WithinCap(deal, times, done.ctx)
<1>1. AreFitting(applied) /\ RulesOK
  BY DEF CheckoutInv
<1>2. N \in Nat /\ DOMAIN applied = 1..N /\ n \in 1..N /\ k \in DOMAIN applied /\ n - 1 \in Nat
  <2>1. N \in Nat /\ DOMAIN applied = 1..N
    BY <1>1, TakenIs
  <2> QED BY <2>1 DEF IsOrderOf
<1>3. Fitting(e)
  BY <1>1, <1>2 DEF AreFitting
<1>4. id \in DOMAIN Rules /\ deal \in Rules[id] /\ deal.id = id /\ IsForm(deal) /\ asked \in Asks
  <2>1. id \in DOMAIN Rules /\ asked \in Asks
    BY <1>3 DEF Fitting
  <2> HIDE DEF id
  <2> QED BY <1>1, <2>1, RuleForms DEF RulesOK
<1>5. IsAskOfItems(asked)
  BY <1>4, AsksAre
<1>6. IsOrder(done) /\ HasLines(done)
  BY DEF AfterJudging
<1>7. AreLines(done.lines) /\ DOMAIN done.lines = DOMAIN Items
  BY <1>6 DEF HasLines, AreLines
<1>8. /\ \A i \in DOMAIN Items : done.lines[i].quantity >= quantity[i] - AskedBefore(q, i, n - 1)
      /\ \A d \in DOMAIN Rules : EditedSince(d) \/ done.ctx.used[d] <= TimesBefore(q, d, n - 1)
      /\ Len(done.apps) = n - 1
      /\ \A m \in 1..(n - 1) : Agreed(done.apps[m], q[m])
  BY DEF AfterJudging
<1>9. /\ \A i : /\ AskedBefore(q, i, n - 1) \in Nat
                /\ AskedBefore(q, i, n) = AskedBefore(q, i, n - 1) + Asked(e.app, i)
                /\ AskedBefore(q, i, n) <= TakenOf(applied, i)
      /\ \A d : /\ TimesBefore(q, d, n - 1) \in Nat
                /\ TimesBefore(q, d, n) = TimesBefore(q, d, n - 1) + Times(e.app, d)
                /\ TimesBefore(q, d, n) <= TimesUpTo(applied, d, N)
  BY BeforeIs
<1>10. /\ \A i : Asked(e.app, i) \in Nat
       /\ \A d : Times(e.app, d) \in Nat
       /\ e.app.deal = id /\ e.app.asked = asked
  BY <1>3, FittingIs
<1>11. /\ \A i \in DOMAIN Items : done.lines[i].quantity \in Int
       /\ \A d \in DOMAIN Rules : done.ctx.used[d] \in Int
       /\ done.ctx.branch = Branch /\ done.ctx.now = now
       /\ done.apps \in Seq(MayAnswer)
  <2>1. \A i \in DOMAIN Items : QuantitiesOf(done)[i] \in Int /\ QuantitiesOf(done)[i] = done.lines[i].quantity
    BY <1>6 DEF HasLines, QuantitiesOf
  <2>2. done.ctx.branch = Branch /\ done.ctx.now = now
    BY <1>6 DEF IsOrder
  <2> QED BY <1>6, <2>1, <2>2 DEF IsOrder
<1> HIDE DEF answer, deal, asked, times, id, e, k
<1>12. answer = IF granted THEN Made(deal, asked) ELSE NotEligible
  BY <1>4, <1>5, <1>7, PricedAlike DEF answer, times
<1>13. next = Answered(done, answer)
  BY DEF JudgedNext, answer, deal, asked, id, e, k
<1>14. ASSUME e.rule = deal PROVE ValidRule(deal) /\ Makes(deal, asked) /\ Made(deal, asked) = e.app
  BY <1>3, <1>10, <1>14 DEF Fitting
<1>15. ASSUME ~EditedSince(id), EligibleNow(deal, Context) PROVE granted /\ Made(deal, asked) = e.app
  <2>1. e.rule = deal
    BY <1>2, <1>10, <1>15 DEF EditedSince, e, deal
  <2>2. ValidRule(deal) /\ Makes(deal, asked) /\ Made(deal, asked) = e.app
    BY <1>14, <2>1
  <2>3. EligibleNow(deal, done.ctx)
    BY <1>11, <1>15 DEF EligibleNow, Context
  <2>4. UnitsAreFree(done.lines, asked)
    <3> SUFFICES ASSUME NEW i \in DOMAIN asked PROVE i \in DOMAIN done.lines /\ asked[i] \in 1..done.lines[i].quantity
      BY DEF UnitsAreFree
    <3>1. i \in DOMAIN Items /\ asked[i] \in Nat \ {0}
      BY <1>5 DEF IsAskOfItems, IsAsk
    <3>2. Asked(e.app, i) = asked[i]
      BY <1>10 DEF Asked
    <3>3. quantity[i] \in Nat /\ TakenOf(applied, i) <= quantity[i] /\ TakenOf(applied, i) \in Nat
      BY <1>1, <3>1, TakenIs DEF CheckoutInv
    <3>4. asked[i] <= quantity[i] - AskedBefore(q, i, n - 1)
      BY <1>9, <3>1, <3>2, <3>3
    <3>5. done.lines[i].quantity \in Int /\ done.lines[i].quantity >= quantity[i] - AskedBefore(q, i, n - 1)
      BY <1>8, <1>11, <3>1
    <3>6. AskedBefore(q, i, n - 1) \in Nat
      BY <1>9
    <3>7. asked[i] <= done.lines[i].quantity
      BY <3>1, <3>3, <3>4, <3>5, <3>6
    <3> QED BY <1>7, <3>1, <3>5, <3>7
  <2>5. WithinCap(deal, times, done.ctx)
    <3> SUFFICES ASSUME deal.max # None PROVE done.ctx.used[id] + times <= deal.max
      BY <1>4 DEF WithinCap
    <3>1. Times(e.app, id) = times /\ times \in Nat
      BY <1>3, <1>10, <2>1, FittingIs DEF Times, times
    <3>2. TimesUpTo(applied, id, N) <= deal.max
      BY <1>2, <1>15, UneditedWithinMax DEF id, e, deal
    <3>3. TimesUpTo(applied, id, N) \in Nat /\ deal.max \in Int
      <4>1. N \in 0..N
        BY <1>2
      <4> QED BY <1>1, <1>4, <4>1, TakenIs DEF IsForm
    <3>4. done.ctx.used[id] <= TimesBefore(q, id, n - 1) /\ done.ctx.used[id] \in Int
      BY <1>4, <1>8, <1>11, <1>15
    <3>5. TimesBefore(q, id, n - 1) \in Nat /\ TimesBefore(q, id, n - 1) + times <= TimesUpTo(applied, id, N)
      BY <1>9, <3>1
    <3> QED BY <3>1, <3>2, <3>3, <3>4, <3>5
  <2> QED BY <2>2, <2>3, <2>4, <2>5
<1>16. Agreed(answer, k)
  <2>1. answer = e.app \/ EditedSince(id) \/ ~EligibleNow(deal, Context)
    BY <1>12, <1>15
  <2> QED BY <2>1 DEF Agreed, id, deal, e
<1>17. ASSUME NEW apps, apps = Append(done.apps, answer), answer \in MayAnswer
       PROVE  Len(apps) = n /\ \A m \in 1..n : Agreed(apps[m], q[m])
  <2> HIDE DEF MayAnswer
  <2>1. /\ Len(apps) = (n - 1) + 1 /\ \A m \in 1..(n - 1) : apps[m] = done.apps[m]
        /\ apps[(n - 1) + 1] = answer
    BY <1>8, <1>11, <1>17, AppendProperties
  <2>2. (n - 1) + 1 = n /\ \A m \in 1..n : m \in 1..(n - 1) \/ m = n
    BY <1>2
  <2>3. Agreed(apps[n], q[n])
    BY <1>16, <2>1, <2>2 DEF k
  <2> QED BY <1>8, <2>1, <2>2, <2>3
<1>18. CASE granted
  <2>1. answer = Made(deal, asked) /\ answer \in MayAnswer
    <3>1. answer = Made(deal, asked)
      BY <1>12, <1>18
    <3>2. deal = deals[id]
      BY DEF deal
    <3> QED BY <1>4, <3>1, <3>2 DEF MayAnswer
  <2>2. answer.deal = id /\ answer.times = times /\ times \in Nat \ {0} /\ answer.asked = asked
    BY <1>4, <1>5, <1>18, <2>1, MadeIs DEF times
  <2>3. answer # NotEligible
    BY <2>2 DEF NotEligible
  <2>4. Granted(done, answer, next)
    BY <1>13, <2>3 DEF Answered, Granted
  <2>5. \A i : Asked(answer, i) = Asked(e.app, i)
    BY <1>10, <2>2 DEF Asked
  <2>6. /\ IsOrder(next) /\ HasLines(next)
        /\ next.apps = Append(done.apps, answer)
        /\ \A i \in DOMAIN Items : next.lines[i].quantity = done.lines[i].quantity - Asked(answer, i)
        /\ \A d \in DOMAIN Rules : next.ctx.used[d] = done.ctx.used[d] + Times(answer, d)
    <3>1. answer.deal \in DOMAIN Rules /\ answer.times \in Nat /\ \A i : Asked(answer, i) \in Nat
      BY <1>4, <1>10, <2>2, <2>5
    <3> QED BY <1>6, <2>1, <2>4, <3>1, GrantedIs
  <2>7. ASSUME NEW i \in DOMAIN Items PROVE next.lines[i].quantity >= quantity[i] - AskedBefore(q, i, n)
    <3>1. quantity[i] \in Nat
      BY DEF CheckoutInv
    <3>2. next.lines[i].quantity = done.lines[i].quantity - Asked(e.app, i)
      BY <2>5, <2>6
    <3>3. done.lines[i].quantity \in Int /\ done.lines[i].quantity >= quantity[i] - AskedBefore(q, i, n - 1)
      BY <1>8, <1>11
    <3> QED BY <1>9, <1>10, <3>1, <3>2, <3>3
  <2>8. ASSUME NEW d \in DOMAIN Rules, ~EditedSince(d) PROVE next.ctx.used[d] <= TimesBefore(q, d, n)
    <3>1. Times(answer, d) = Times(e.app, d)
      <4>1. CASE d = id
        <5>1. e.rule = deal
          BY <1>2, <1>10, <2>8, <4>1 DEF EditedSince, e, deal
        <5> QED BY <1>14, <2>1, <5>1
      <4>2. CASE d # id
        BY <1>10, <2>2, <4>2 DEF Times
      <4> QED BY <4>1, <4>2
    <3>2. done.ctx.used[d] \in Int /\ done.ctx.used[d] <= TimesBefore(q, d, n - 1)
      BY <1>8, <1>11, <2>8
    <3> QED BY <1>9, <1>10, <2>6, <3>1, <3>2
  <2>9. Len(next.apps) = n /\ \A m \in 1..n : Agreed(next.apps[m], q[m])
    BY <1>17, <2>1, <2>6
  <2> QED BY <2>6, <2>7, <2>8, <2>9 DEF AfterJudging
<1>19. CASE ~granted
  <2>1. answer = NotEligible /\ answer \in MayAnswer
    BY <1>12, <1>19 DEF MayAnswer
  <2>2. Refused(done, next)
    BY <1>13, <2>1 DEF Answered, Refused
  <2>3. IsOrder(next) /\ next.lines = done.lines /\ next.ctx = done.ctx /\ next.apps = Append(done.apps, answer)
    BY <1>6, <2>1, <2>2, RefusedIs
  <2>4. HasLines(next)
    BY <1>6, <2>3 DEF HasLines, QuantitiesOf
  <2>5. ASSUME NEW i \in DOMAIN Items PROVE next.lines[i].quantity >= quantity[i] - AskedBefore(q, i, n)
    <3>1. quantity[i] \in Nat
      BY DEF CheckoutInv
    <3> QED BY <1>8, <1>9, <1>10, <1>11, <2>3, <3>1
  <2>6. ASSUME NEW d \in DOMAIN Rules, ~EditedSince(d) PROVE next.ctx.used[d] <= TimesBefore(q, d, n)
    <3>1. done.ctx.used[d] \in Int /\ done.ctx.used[d] <= TimesBefore(q, d, n - 1)
      BY <1>8, <1>11, <2>6
    <3> QED BY <1>9, <1>10, <2>3, <3>1
  <2>7. Len(next.apps) = n /\ \A m \in 1..n : Agreed(next.apps[m], q[m])
    BY <1>17, <2>1, <2>3
  <2> QED BY <2>3, <2>4, <2>5, <2>6, <2>7 DEF AfterJudging
<1> QED BY <1>18, <1>19

LEMMA JudgingStarts ==
    ASSUME CheckoutInv, NEW q
    PROVE  AfterJudging(BeforeJudging, q, 0)
<1> DEFINE done == BeforeJudging
           used == [id \in DOMAIN deals |-> 0]
<1>1. NothingUsed = [branch |-> Branch, now |-> now, used |-> used]
  <2> HIDE DEF used
  <2>1. NothingUsed = [Context EXCEPT !.used = used]
    BY DEF NothingUsed, used
  <2> QED BY <2>1 DEF Context
<1>2. DOMAIN deals = DOMAIN Rules
  BY DEF CheckoutInv, RulesOK
<1>3. done.lines = Lines /\ done.ctx = NothingUsed /\ done.apps = <<>>
      /\ done = [lines |-> done.lines, ctx |-> done.ctx, apps |-> done.apps]
  BY DEF BeforeJudging
<1> HIDE DEF done
<1>4. done.ctx.used = used
  BY <1>1, <1>3
<1>5. IsOrder(done)
  <2>1. done.ctx = [branch |-> Branch, now |-> now, used |-> done.ctx.used]
    BY <1>1, <1>3, <1>4
  <2>2. done.ctx.used \in [DOMAIN Rules -> Int]
    BY <1>2, <1>4
  <2>3. done.apps \in Seq(MayAnswer) /\ Len(done.apps) = 0
    BY <1>3
  <2> QED BY <1>3, <2>1, <2>2, <2>3 DEF IsOrder
<1>6. \A i \in DOMAIN Items : done.lines[i].quantity = quantity[i] /\ quantity[i] \in Nat
                              /\ done.lines[i] = Line(i, quantity[i])
  BY <1>3 DEF Lines, Line, CheckoutInv
<1>7. HasLines(done)
  <2>1. QuantitiesOf(done) \in [DOMAIN Items -> Int] /\ \A i \in DOMAIN Items : QuantitiesOf(done)[i] = quantity[i]
    BY <1>6 DEF QuantitiesOf
  <2>2. done.lines = [i \in DOMAIN Items |-> Line(i, quantity[i])]
    BY <1>3 DEF Lines
  <2>3. [i \in DOMAIN Items |-> Line(i, quantity[i])] = [i \in DOMAIN Items |-> Line(i, QuantitiesOf(done)[i])]
    BY <2>1
  <2> QED BY <2>1, <2>2, <2>3 DEF HasLines
<1>8. /\ \A i : AskedBefore(q, i, 0) = 0
      /\ \A id : TimesBefore(q, id, 0) = 0
  <2>1. 1..0 = {}
    OBVIOUS
  <2> QED BY <2>1, SumNothing DEF AskedBefore, TimesBefore
<1>9. \A i \in DOMAIN Items : done.lines[i].quantity >= quantity[i] - AskedBefore(q, i, 0)
  BY <1>6, <1>8
<1>10. \A id \in DOMAIN Rules : done.ctx.used[id] <= TimesBefore(q, id, 0)
  BY <1>2, <1>4, <1>8
<1>11. Len(done.apps) = 0 /\ \A m \in 1..0 : Agreed(done.apps[m], q[m])
  BY <1>3
<1> QED BY <1>5, <1>7, <1>9, <1>10, <1>11 DEF AfterJudging, done

LEMMA JudgedInOrder ==
    ASSUME CheckoutInv, NEW q, IsOrderOf(q, Len(applied))
    PROVE  \A n \in 1..Len(applied) : Agreed(Judged(q)[n], q[n])
<1> DEFINE N == Len(applied)
<1>1. N \in Nat /\ q \in [1..N -> 1..N]
  BY DEF IsOrderOf
<1> HIDE DEF N
<1>2. q \in Seq(1..N) /\ Len(q) = N
  BY <1>1
<1>3. PICK run : /\ Judging!IsRun(deals, applied, None, BeforeJudging, q, run)
                 /\ Judged(q) = run[Len(q)].apps
  <2>1. \E run : /\ Judging!IsRun(deals, applied, None, BeforeJudging, q, run)
                 /\ Judging!Folded(deals, applied, None, BeforeJudging, q) = run[Len(q)]
    BY <1>2, Judging!FoldIsRun
  <2> QED BY <2>1, JudgedFold
<1>4. run[0] = BeforeJudging /\ \A n \in 1..N : JudgedNext(run[n - 1], q[n], run[n])
  BY <1>2, <1>3 DEF Judging!IsRun, JudgedNext
<1> DEFINE T == { n \in 0..N : AfterJudging(run[n], q, n) }
<1>5. 0 \in T
  BY <1>1, <1>4, JudgingStarts
<1>6. ASSUME NEW n \in 1..N, n - 1 \in T PROVE n \in T
  <2>1. n \in 1..Len(applied) /\ n \in 0..N
    BY DEF N
  <2>2. JudgedNext(run[n - 1], q[n], run[n]) /\ AfterJudging(run[n - 1], q, n - 1)
    BY <1>4, <1>6
  <2>3. AfterJudging(run[n], q, n)
    BY <2>1, <2>2, JudgeKeeps
  <2> QED BY <2>1, <2>3
<1>7. N \in T
  <2> HIDE DEF T
  <2>1. \A n \in 0..N : n \in T
    BY <1>1, <1>5, <1>6, Upward
  <2> QED BY <1>1, <2>1
<1>8. AfterJudging(run[N], q, N)
  BY <1>7
<1> QED BY <1>2, <1>3, <1>8 DEF AfterJudging, N

LEMMA InvAgrees == CheckoutInv => ServerAgreesInAnyOrder
<1> SUFFICES ASSUME CheckoutInv, NEW sequence \in Bijection(DOMAIN applied, DOMAIN applied)
             PROVE  \A n \in DOMAIN applied :
                       Agreed(Judged([m \in DOMAIN applied |-> sequence[m]])[n], sequence[n])
  BY DEF ServerAgreesInAnyOrder, Agreed
<1> DEFINE N == Len(applied)
           q == [m \in DOMAIN applied |-> sequence[m]]
<1>1. N \in Nat /\ DOMAIN applied = 1..N /\ IsFiniteSet(1..N)
  BY TakenIs DEF CheckoutInv
<1>2. sequence \in [1..N -> 1..N] /\ \A m, n \in 1..N : sequence[m] = sequence[n] => m = n
  BY <1>1 DEF Bijection, Injection, IsInjective
<1>3. q = sequence
  BY <1>1, <1>2
<1>5. IsOrderOf(sequence, N)
  BY <1>1, <1>2 DEF IsOrderOf
<1> HIDE DEF q
<1>6. \A n \in 1..N : Agreed(Judged(sequence)[n], sequence[n])
  BY <1>5, JudgedInOrder
<1> QED BY <1>1, <1>3, <1>6 DEF q

(* In whatever order it judges an order's deals, the server gives each the *)
(* discount the till gave it, unless its window has closed or the rule it  *)
(* or another of its deal was taken by was edited since (deal.rs:20-21,    *)
(* 253-259).                                                               *)
THEOREM ServerAlwaysAgrees == CheckoutSpec => []ServerAgreesInAnyOrder
<1> QED BY CheckoutInvariance, InvAgrees, PTL

-----------------------------------------------------------------------------
(* What a discount is judged on.                                           *)

(* A rounded quotient is the natural within half of it.                    *)
LEMMA RoundNear ==
    ASSUME NEW n \in Nat, NEW d \in Nat \ {0}
    PROVE  /\ RoundHalfAway(n, d) \in Nat
           /\ 2 * (d * RoundHalfAway(n, d)) <= 2 * n + d
           /\ 2 * n < 2 * (d * RoundHalfAway(n, d)) + d
  <1> DEFINE q == (2 * n + d) \div (2 * d)
  <1>1. q \in Int /\ (2 * d) * q <= 2 * n + d /\ 2 * n + d < (2 * d) * q + 2 * d
    OBVIOUS
  <1>2. RoundHalfAway(n, d) = q
    BY DEF RoundHalfAway, NonNegative
  <1> HIDE DEF q
  <1>3. ~(q + 1 <= 0)
    <2> SUFFICES ASSUME q + 1 <= 0 PROVE FALSE
      OBVIOUS
    <2>1. (2 * d) * (q + 1) <= 0
      BY <1>1
    <2> QED BY <2>1, <1>1
  <1>4. q \in Nat
    BY <1>1, <1>3
  <1> QED BY <1>1, <1>2, <1>4

(* What is left of a division by a positive number.                        *)
LEMMA DivLeaves ==
    ASSUME NEW n \in Nat, NEW d \in Nat \ {0}
    PROVE  n \div d \in Nat /\ n % d \in 0..(d - 1) /\ n = d * (n \div d) + (n % d)
  <1>1. n \div d \in Nat
    BY DivMonotone
  <1>2. n % d \in Int /\ 0 <= n % d /\ n % d < d
    OBVIOUS
  <1>3. n = d * (n \div d) + (n % d)
    OBVIOUS
  <1> QED BY <1>1, <1>2, <1>3

(* Rounded to even, a value is within half too.                            *)
LEMMA EvenNear ==
    ASSUME NEW n \in Nat
    PROVE  /\ HalfEven(n, One) \in Nat
           /\ 2 * (One * HalfEven(n, One)) <= 2 * n + One
           /\ 2 * n <= 2 * (One * HalfEven(n, One)) + One
           /\ n % One = 0 => One * HalfEven(n, One) = n
  <1> DEFINE d == One
             q == n \div d
             r == n % d
             h == HalfEven(n, d)
  <1>1. d \in Nat \ {0}
    BY DEF One
  <1> HIDE DEF d
  <1>2. q \in Nat /\ r \in 0..(d - 1) /\ n = d * q + r
    BY <1>1, DivLeaves
  <1>3. (h = q + 1 /\ 2 * r >= d) \/ (h = q /\ 2 * r <= d)
    <2>1. h = IF 2 * r > d \/ (2 * r = d /\ q % 2 = 1) THEN q + 1 ELSE q
      BY DEF HalfEven
    <2> HIDE DEF q, r, h
    <2>2. CASE 2 * r > d \/ (2 * r = d /\ q % 2 = 1)
      BY <1>1, <1>2, <2>1, <2>2
    <2>3. CASE ~(2 * r > d \/ (2 * r = d /\ q % 2 = 1))
      <3>1. ~(2 * r > d)
        BY <2>3
      <3> QED BY <1>1, <1>2, <2>1, <2>3, <3>1
    <2> QED BY <2>2, <2>3
  <1> HIDE DEF q, r, h
  <1>4. d * (q + 1) = d * q + d
    BY <1>1, <1>2
  <1> DEFINE m == d * q
  <1>5. m \in Nat
    BY <1>1, <1>2
  <1>6. h \in Nat /\ ((d * h = m + d /\ 2 * r >= d) \/ (d * h = m /\ 2 * r <= d))
    BY <1>2, <1>3, <1>4
  <1>7. n = m + r
    BY <1>2
  <1> HIDE DEF m
  <1>8. 2 * (d * h) <= 2 * n + d /\ 2 * n <= 2 * (d * h) + d /\ (r = 0 => d * h = n)
    BY <1>1, <1>2, <1>5, <1>6, <1>7
  <1> QED BY <1>6, <1>8 DEF d, r, h

(* A discount comes off what is there, and never more.                     *)
LEMMA ClampIs ==
    ASSUME NEW s \in Int, NEW n \in Int
    PROVE  /\ Clamp(n, s) \in 0..NonNegative(s)
           /\ n \in 0..NonNegative(s) => Clamp(n, s) = n
           /\ Clamp(Clamp(n, s), s) = Clamp(n, s)
  BY DEF Clamp, AtMost, NonNegative

(* A part of an amount is of it.                                           *)
PartIsIn(s, v, d) == RoundHalfAway(s * v, d) \in 0..s

LEMMA PartFits ==
    ASSUME NEW s \in Nat, NEW d \in Nat \ {0}, NEW v \in 0..d
    PROVE  PartIsIn(s, v, d)
  <1> DEFINE n == s * v
  <1>1. n \in Nat /\ n <= d * s
    <2>1. s * v <= s * d
      OBVIOUS
    <2> QED BY <2>1
  <1> HIDE DEF n
  <1> DEFINE r == RoundHalfAway(n, d)
  <1>2. r \in Nat /\ 2 * (d * r) <= 2 * n + d /\ 2 * n < 2 * (d * r) + d
    BY <1>1, RoundNear
  <1> HIDE DEF r
  <1>3. r <= s
    <2> SUFFICES ASSUME s + 1 <= r PROVE FALSE
      BY <1>2
    <2>1. d * (s + 1) <= d * r
      BY <1>2
    <2> QED BY <2>1, <1>1, <1>2
  <1> QED BY <1>2, <1>3 DEF r, n, PartIsIn

(* What the bill takes off is what its rule makes of the subtotal.         *)
Off(d, s) ==
    CASE d.type = "percentage" -> RoundHalfAway(NonNegative(s) * d.value, One)
      [] d.type = "fixed"      -> RoundHalfAway(d.value, One)
      [] d.type = "stated"     -> d.value
      [] d.type = "none"       -> 0

JudgedFigures(d, s) == Figures(d.kind, d.preset, d.amount, d.bps, s)

LEMMA BillTakes ==
    ASSUME NEW s \in Int, NEW rule, NEW policy, Off(rule, s) \in Int
    PROVE  /\ PriceSubtotal(s, rule, policy).subtotal = s
           /\ PriceSubtotal(s, rule, policy).discount = Clamp(Off(rule, s), s)
  <1>1. DiscountOn(s, rule) = Clamp(Off(rule, s), s)
    BY DEF DiscountOn, Off
  <1>2. Clamp(Clamp(Off(rule, s), s), s) = Clamp(Off(rule, s), s)
    BY ClampIs
  <1>3. /\ Compute(s, DiscountOn(s, rule), policy).subtotal = s
        /\ Compute(s, DiscountOn(s, rule), policy).discount = Clamp(DiscountOn(s, rule), s)
    BY DEF Compute
  <1> QED BY <1>1, <1>2, <1>3 DEF PriceSubtotal

(* A percentage by hand, or a preset's exact one.                          *)
(* The basis points there are, and the parts of a price.                  *)
Points == 0..10000
Parts == 0..One

PartsAlike(s, b) == RoundHalfAway(s * (b * 10), One) = RoundHalfAway(s * b, 10000)

LEMMA PartIs == ASSUME NEW v \in Int, 0 <= v, v <= 100000 PROVE v \in Parts
  <1>1. One \in Int /\ v <= One
    BY DEF One
  <1> QED BY <1>1 DEF Parts

LEMMA PartOfPoints == ASSUME NEW b \in Points PROVE b * 10 \in Parts
  <1>1. b \in Int /\ 0 <= b /\ b <= 10000
    BY DEF Points
  <1>2. PICK v \in Int : v = b * 10
    BY <1>1
  <1>3. 0 <= v /\ v <= 100000
    BY <1>1, <1>2
  <1>4. v \in Parts
    BY <1>3, PartIs
  <1> QED BY <1>2, <1>4

LEMMA PartsAgree ==
    ASSUME NEW s \in Nat, NEW b \in Points
    PROVE  PartsAlike(s, b)
  <1> DEFINE n == s * b
             m == s * (b * 10)
             p == RoundHalfAway(n, 10000)
             q == RoundHalfAway(m, One)
  <1>1. n \in Nat /\ m = 10 * n
    BY DEF Points
  <1> HIDE DEF m, n
  <1>2. p \in Nat /\ 2 * (10000 * p) <= 2 * n + 10000 /\ 2 * n < 2 * (10000 * p) + 10000
    BY <1>1, RoundNear
  <1>3. q \in Nat /\ 2 * (One * q) <= 2 * m + One /\ 2 * m < 2 * (One * q) + One
    <2>1. m \in Nat /\ One \in Nat \ {0}
      BY <1>1 DEF One
    <2> HIDE DEF One
    <2> QED BY <2>1, RoundNear
  <1> HIDE DEF p, q
  <1>4. p = q
    BY <1>1, <1>2, <1>3 DEF One
  <1> QED BY <1>4 DEF p, q, m, n, PartsAlike

(* In basis points, a part of the price is within half of one.             *)
LEMMA BasisPoints ==
    ASSUME NEW v \in Parts
    PROVE  /\ PercentBpsOf(v) \in Points
           /\ 10 * PercentBpsOf(v) - v \in -5..5
           /\ v % 10 = 0 => v = PercentBpsOf(v) * 10
  <1> DEFINE h == HalfEven(v * 10000, One)
  <1>1. v * 10000 \in Nat /\ (v % 10 = 0 => (v * 10000) % One = 0)
    BY DEF One, Parts
  <1>2. /\ h \in Nat /\ 2 * (One * h) <= 2 * (v * 10000) + One
        /\ 2 * (v * 10000) <= 2 * (One * h) + One
        /\ v % 10 = 0 => One * h = v * 10000
    BY <1>1, EvenNear
  <1>3. PercentBpsOf(v) = Clamp(h, 10000)
    BY DEF PercentBpsOf, One, Parts
  <1> HIDE DEF h
  <1>4. /\ v \in Int /\ 0 <= v /\ v <= 100000 /\ h \in Nat
        /\ 20 * h <= 2 * v + 10 /\ 2 * v <= 20 * h + 10
        /\ v % 10 = 0 => 10 * h = v
    BY <1>2 DEF One, Parts
  <1>5. h \in 0..10000
    BY <1>4
  <1>6. Clamp(h, 10000) = h
    BY <1>5 DEF Clamp, AtMost, NonNegative
  <1>7. PercentBpsOf(v) = h
    BY <1>3, <1>6
  <1>8. 10 * h - v \in -5..5 /\ (v % 10 = 0 => v = h * 10)
    BY <1>4
  <1> QED BY <1>5, <1>7, <1>8 DEF Points

(* So what a percentage takes and what it is judged on are half a basis    *)
(* point of the subtotal apart, and what two roundings add.                *)
PartsApart(s, v, b) ==
    20000 * (RoundHalfAway(s * v, One) - RoundHalfAway(s * b, 10000)) \in -(s + 20000)..(s + 20000)

LEMMA PartsNear ==
    ASSUME NEW s \in Nat, NEW v \in Parts, NEW b \in Points, 10 * b - v \in -5..5
    PROVE  PartsApart(s, v, b)
  <1> DEFINE n == s * b
             m == s * v
             p == RoundHalfAway(n, 10000)
             q == RoundHalfAway(m, One)
  <1>1. n \in Nat /\ m \in Nat /\ 10 * n - m <= 5 * s /\ m - 10 * n <= 5 * s
    <2>1. v \in Int /\ b \in Int
      BY DEF One, Parts, Points
    <2>2. v \in Nat /\ b \in Nat
      BY DEF One, Parts, Points
    <2>3. s * (10 * b - v) <= s * 5 /\ s * (v - 10 * b) <= s * 5
      BY <2>1
    <2> QED BY <2>1, <2>2, <2>3
  <1> HIDE DEF m, n
  <1>2. p \in Nat /\ 2 * (10000 * p) <= 2 * n + 10000 /\ 2 * n < 2 * (10000 * p) + 10000
    <2> DEFINE e == 10000
    <2>1. n \in Nat /\ e \in Nat \ {0}
      BY <1>1
    <2> HIDE DEF e
    <2>2. /\ RoundHalfAway(n, e) \in Nat
          /\ 2 * (e * RoundHalfAway(n, e)) <= 2 * n + e
          /\ 2 * n < 2 * (e * RoundHalfAway(n, e)) + e
      BY <2>1, RoundNear
    <2> QED BY <2>2 DEF e
  <1>3. q \in Nat /\ 2 * (One * q) <= 2 * m + One /\ 2 * m < 2 * (One * q) + One
    <2>1. m \in Nat /\ One \in Nat \ {0}
      BY <1>1 DEF One
    <2> HIDE DEF One
    <2> QED BY <2>1, RoundNear
  <1> HIDE DEF p, q
  <1>4. 20000 * (q - p) <= s + 20000 /\ 20000 * (p - q) <= s + 20000
    BY <1>1, <1>2, <1>3 DEF One
  <1>5. 20000 * (q - p) \in -(s + 20000)..(s + 20000)
    BY <1>2, <1>3, <1>4
  <1> QED BY <1>5 DEF p, q, m, n, PartsApart

(* A fixed amount and the whole one it is judged as.                       *)
LEMMA FixedNear ==
    ASSUME NEW v \in Nat
    PROVE  /\ RoundHalfAway(v, One) \in Nat /\ FixedMinor(v) \in Nat
           /\ RoundHalfAway(v, One) - FixedMinor(v) \in -1..1
           /\ v % One = 0 => RoundHalfAway(v, One) = FixedMinor(v)
  <1> DEFINE p == RoundHalfAway(v, One)
             h == HalfEven(v, One)
  <1>1. p \in Nat /\ 2 * (One * p) <= 2 * v + One /\ 2 * v < 2 * (One * p) + One
    <2>1. One \in Nat \ {0}
      BY DEF One
    <2> HIDE DEF One
    <2> QED BY <2>1, RoundNear
  <1>2. /\ h \in Nat /\ 2 * (One * h) <= 2 * v + One
        /\ 2 * v <= 2 * (One * h) + One /\ (v % One = 0 => One * h = v)
    BY EvenNear
  <1> HIDE DEF p, h
  <1>3. p - h \in -1..1
    BY <1>1, <1>2 DEF One
  <1>4. v % One = 0 => p = h
    <2> SUFFICES ASSUME v % One = 0 PROVE p = h
      OBVIOUS
    <2>1. One * h = v
      BY <1>2
    <2> QED BY <2>1, <1>1, <1>2 DEF One
  <1> QED BY <1>1, <1>2, <1>3, <1>4 DEF p, h, FixedMinor

(* Clamped, two amounts are no further apart.                              *)
LEMMA ClampNear ==
    ASSUME NEW s \in Int, NEW a \in Nat, NEW b \in Nat
    PROVE  /\ a = b => Clamp(a, s) = Clamp(b, s)
           /\ a - b \in -1..1 => Clamp(a, s) - Clamp(b, s) \in -1..1
  BY DEF Clamp, AtMost, NonNegative

(* What the bill takes off is as judged, whatever the discount.            *)
JudgedAt(d, s) ==
    /\ JudgedFigures(d, s).amount \in 0..NonNegative(s)
    /\ Off(Taken(d, s), s) \in Int
    /\ TakesAsJudged(d, s, Clamp(Off(Taken(d, s), s), s) - JudgedFigures(d, s).amount)

LEMMA HandIs ==
    ASSUME NEW d, IsDiscount(d)
    PROVE  /\ d # None /\ (d.kind = "preset" <=> d.preset # None)
           /\ d.kind = "manual_amount" => d.amount \in Int
           /\ d.kind = "manual_percent" => d.bps \in 0..10000 /\ d.bps # None
           /\ d.kind = "preset" =>
                 \/ d.preset.type = "percentage" /\ d.preset.value \in 0..One
                 \/ d.preset.type = "fixed" /\ d.preset.value \in Nat
           /\ d.kind \in {"preset", "manual_amount", "manual_percent"}
  <1>1. d \in SaleDiscount /\ None \notin SaleDiscount
    <2>1. d \in SaleDiscount
      BY DEF IsDiscount
    <2> QED BY <2>1, SaleAssumption, Zenon
  <1>2. /\ d.amount \in Int \union {None}
        /\ d.preset \in [type : STRING, value : Int] \union {None}
    BY <1>1 DEF SaleDiscount, Or
  <1>3. d.preset # None => d.preset.value \in Int
    BY <1>2
  <1> QED BY <1>1, <1>2, <1>3 DEF IsDiscount

LEMMA JudgedByHand ==
    ASSUME NEW s \in Int, NEW d, IsDiscount(d), d.kind = "manual_amount"
    PROVE  /\ JudgedAt(d, s)
           /\ JudgedFigures(d, s).percent = None
  <1> DEFINE n == Clamp(d.amount, s)
  <1>1. d # None /\ d.amount \in Int /\ d.preset = None
    BY HandIs
  <1>2. JudgedFigures(d, s) = [amount |-> n, percent |-> None]
    BY <1>1, SaleAssumption DEF JudgedFigures, Figures
  <1>3. Taken(d, s) = Stated(n)
    BY <1>1, <1>2 DEF Taken, JudgedFigures
  <1>4. Off(Taken(d, s), s) = n
    BY <1>3 DEF Off, Stated
  <1>5. n \in 0..NonNegative(s) /\ Clamp(n, s) = n
    BY <1>1, ClampIs
  <1> HIDE DEF n
  <1>6. n \in Int /\ n - n = 0
    BY <1>5 DEF NonNegative
  <1>7. TakesAsJudged(d, s, 0)
    BY <1>1 DEF TakesAsJudged, Exact
  <1> QED BY <1>2, <1>4, <1>5, <1>6, <1>7 DEF JudgedAt

(* Of nothing, a percentage is nothing.                                    *)
PartsOff(s, v, b) ==
    LET whole == RoundHalfAway(NonNegative(s) * v, One)
    IN  /\ whole \in 0..NonNegative(s) /\ Clamp(whole, s) = whole
        /\ RoundHalfAway(NonNegative(s) * b, 10000) \in 0..NonNegative(s)

LEMMA PartOff ==
    ASSUME NEW s \in Int, NEW v \in Parts, NEW b \in Points
    PROVE  PartsOff(s, v, b)
  <1> DEFINE u == NonNegative(s)
  <1>1. u \in Nat /\ One \in Nat \ {0} /\ 10000 \in Nat \ {0}
    BY DEF NonNegative, One
  <1> HIDE DEF u, One
  <1>2. RoundHalfAway(u * v, One) \in 0..u
    <2> DEFINE e == One
    <2>1. e \in Nat \ {0} /\ v \in 0..e
      BY <1>1 DEF Parts
    <2> HIDE DEF e
    <2>2. PartIsIn(u, v, e)
      BY <1>1, <2>1, PartFits
    <2> QED BY <2>2 DEF e, PartIsIn
  <1>3. RoundHalfAway(u * b, 10000) \in 0..u
    <2> DEFINE e == 10000
    <2>1. e \in Nat \ {0} /\ b \in 0..e
      BY DEF Points
    <2> HIDE DEF e
    <2>2. PartIsIn(u, b, e)
      BY <1>1, <2>1, PartFits
    <2> QED BY <2>2 DEF e, PartIsIn
  <1>4. RoundHalfAway(u * v, One) \in Int
    BY <1>1, <1>2
  <1> QED BY <1>2, <1>3, <1>4, ClampIs DEF u, PartsOff

LEMMA JudgedByPart ==
    ASSUME NEW s \in Int, NEW d, IsDiscount(d), d.kind = "manual_percent"
    PROVE  /\ JudgedAt(d, s)
           /\ JudgedFigures(d, s).percent = d.bps
  <1> DEFINE b == d.bps
             u == NonNegative(s)
             p == RoundHalfAway(u * (b * 10), One)
             q == RoundHalfAway(u * b, 10000)
  <1>1. d # None /\ b \in Points /\ b # None /\ d.preset = None
    BY HandIs DEF Points
  <1>2. Clamp(b, 10000) = b
    <2> HIDE DEF b
    <2> QED BY <1>1 DEF Points, Clamp, AtMost, NonNegative
  <1>3. JudgedFigures(d, s) = [amount |-> q, percent |-> b]
    BY <1>1, <1>2 DEF JudgedFigures, Figures
  <1>4. Taken(d, s) = [type |-> "percentage", value |-> b * 10]
    BY <1>1 DEF Taken, RuleOf, One
  <1>5. Off(Taken(d, s), s) = p
    BY <1>4 DEF Off
  <1> HIDE DEF b
  <1>6. u \in Nat /\ b * 10 \in Parts
    <2>1. u \in Nat
      BY DEF NonNegative
    <2> QED BY <1>1, <2>1, PartOfPoints
  <1> HIDE DEF u
  <1>7. p = q
    BY <1>1, <1>6, PartsAgree DEF PartsAlike
  <1>8. p \in 0..u /\ q \in 0..u /\ Clamp(p, s) = p
    <2>1. b * 10 \in Parts /\ b \in Points
      BY <1>1, <1>6
    <2> DEFINE v == b * 10
    <2> HIDE DEF v
    <2>2. v \in Parts
      BY <2>1 DEF v
    <2>3. PartsOff(s, v, b)
      BY <2>1, <2>2, PartOff
    <2> QED BY <2>3 DEF u, v, PartsOff
  <1> HIDE DEF p, q
  <1>9. TakesAsJudged(d, s, 0) /\ p - q = 0 /\ p \in Int
    BY <1>1, <1>6, <1>7, <1>8 DEF TakesAsJudged, Exact
  <1> QED BY <1>3, <1>5, <1>7, <1>8, <1>9 DEF JudgedAt, u, b

LEMMA JudgedByPreset ==
    ASSUME NEW s \in Int, NEW d, IsDiscount(d), d.kind = "preset"
    PROVE  /\ JudgedAt(d, s)
           /\ JudgedFigures(d, s).percent =
                  IF d.preset.type = "percentage" THEN PercentBpsOf(d.preset.value) ELSE None
  <1> DEFINE v == d.preset.value
             u == NonNegative(s)
  <1>1. /\ d # None /\ d.preset # None /\ v \in Int
        /\ \/ d.preset.type = "percentage" /\ v \in Parts
           \/ d.preset.type = "fixed" /\ v \in Nat
    <2>1. d # None /\ d.preset # None
      BY HandIs
    <2>2. \/ d.preset.type = "percentage" /\ v \in Parts
          \/ d.preset.type = "fixed" /\ v \in Nat
      BY HandIs DEF Parts
    <2>3. v \in Int
      <3> HIDE DEF v
      <3>1. Parts \subseteq Int
        BY DEF One, Parts
      <3>2. CASE v \in Parts
        BY <3>1, <3>2
      <3>3. CASE v \in Nat
        BY <3>3
      <3> QED BY <2>2, <3>2, <3>3
    <2> QED BY <2>1, <2>2, <2>3
  <1>2. CASE d.preset.type = "percentage"
    <2> DEFINE b == PercentBpsOf(v)
               p == RoundHalfAway(u * v, One)
               q == RoundHalfAway(u * b, 10000)
    <2>1. v \in Parts
      BY <1>1, <1>2
    <2>2. b \in Points /\ 10 * b - v \in -5..5 /\ (v % 10 = 0 => v = b * 10)
      <3> HIDE DEF v
      <3> QED BY <2>1, BasisPoints
    <2>3. JudgedFigures(d, s) = [amount |-> q, percent |-> b]
      BY <1>1, <1>2 DEF JudgedFigures, Figures
    <2>4. Taken(d, s) = [type |-> "percentage", value |-> v]
      BY <1>1, <1>2 DEF Taken, RuleOf
    <2>5. Off(Taken(d, s), s) = p
      BY <2>4 DEF Off
    <2>6. Exact(d) <=> v % 10 = 0
      <3>1. d.preset # None /\ d.preset.type # "fixed"
        BY <1>1, <1>2
      <3>2. One \div 10000 = 10
        BY DEF One
      <3> QED BY <3>1, <3>2 DEF Exact
    <2> HIDE DEF b, v
    <2>7. u \in Nat
      BY DEF NonNegative
    <2>8. p \in 0..u /\ q \in 0..u /\ Clamp(p, s) = p
      <3>1. PartsOff(s, v, b)
        BY <2>1, <2>2, PartOff
      <3> QED BY <3>1 DEF PartsOff
    <2> HIDE DEF u
    <2>9. v % 10 = 0 => p = q
      <3> SUFFICES ASSUME v % 10 = 0 PROVE p = q
        OBVIOUS
      <3>1. v = b * 10
        BY <2>2
      <3>2. PartsAlike(u, b)
        BY <2>2, <2>7, PartsAgree
      <3> QED BY <3>1, <3>2 DEF PartsAlike
    <2>10. 20000 * (p - q) \in -(u + 20000)..(u + 20000)
      <3>1. 10 * b - v \in -5..5
        BY <2>2
      <3>2. PartsApart(u, v, b)
        BY <2>1, <2>2, <2>7, <3>1, PartsNear
      <3> QED BY <3>2 DEF PartsApart
    <2>11. TakesAsJudged(d, s, p - q)
      <3> HIDE DEF p, q
      <3>1. p = q => p - q = 0
        BY <2>8, <2>7
      <3>2. NonNegative(u) = u /\ NonNegative(s) = u
        BY <2>7 DEF u, NonNegative
      <3>3. d.preset.type # "fixed"
        BY <1>2
      <3> HIDE DEF u
      <3>4. NonNegative(s) + 20000 = u + 20000
        BY <3>2
      <3>5. CASE Exact(d)
        BY <3>5, <2>9, <2>6, <3>1 DEF TakesAsJudged
      <3>6. CASE ~Exact(d)
        BY <3>6, <2>10, <3>3, <3>4 DEF TakesAsJudged
      <3> QED BY <3>5, <3>6
    <2> HIDE DEF p, q
    <2>12. p \in Int
      BY <2>8, <2>7
    <2> QED BY <1>2, <2>3, <2>5, <2>8, <2>11, <2>12 DEF JudgedAt, b, v, u
  <1>3. CASE d.preset.type = "fixed"
    <2> DEFINE p == RoundHalfAway(v, One)
               q == FixedMinor(v)
    <2>1. p \in Nat /\ q \in Nat /\ p - q \in -1..1 /\ (v % One = 0 => p = q)
      <3>1. v \in Nat
        BY <1>1, <1>3
      <3> HIDE DEF v
      <3> QED BY <3>1, FixedNear
    <2>2. JudgedFigures(d, s) = [amount |-> Clamp(q, s), percent |-> None]
      BY <1>1, <1>3 DEF JudgedFigures, Figures
    <2>3. Taken(d, s) = [type |-> "fixed", value |-> v]
      BY <1>1, <1>3 DEF Taken, RuleOf
    <2>4. Off(Taken(d, s), s) = p
      BY <2>3 DEF Off
    <2>5. Exact(d) <=> v % One = 0
      BY <1>1, <1>3 DEF Exact
    <2> HIDE DEF p, q, v
    <2>6. Clamp(q, s) \in 0..u
      <3>1. q \in Int
        BY <2>1
      <3> QED BY <3>1, ClampIs, Zenon
    <2>7. TakesAsJudged(d, s, Clamp(p, s) - Clamp(q, s))
      <3>2. Clamp(p, s) \in Int /\ Clamp(q, s) \in Int
        BY <2>1, ClampIs DEF NonNegative
      <3>3. Clamp(p, s) - Clamp(q, s) \in -1..1
        BY <2>1, ClampNear
      <3>4. v % One = 0 => Clamp(p, s) - Clamp(q, s) = 0
        BY <2>1, <3>2
      <3>5. CASE Exact(d)
        BY <3>5, <2>5, <3>4 DEF TakesAsJudged
      <3>6. CASE ~Exact(d)
        BY <3>6, <1>3, <3>3 DEF TakesAsJudged
      <3> QED BY <3>5, <3>6
    <2> QED BY <1>3, <2>1, <2>2, <2>4, <2>6, <2>7 DEF JudgedAt
  <1> QED BY <1>1, <1>2, <1>3

(* A manual percentage by its value, as an older client sends it.          *)
LEMMA PointsBack ==
    ASSUME NEW b \in Points
    PROVE  PercentBpsOf(b * (One \div 10000)) = b
  <1>1. b * 10 \in Parts /\ (b * 10) % 10 = 0 /\ b \in Int /\ One \div 10000 = 10
    <2>1. b \in Int
      BY DEF Points
    <2>2. (b * 10) % 10 = 0
      BY <2>1
    <2>3. One \div 10000 = 10
      BY DEF One
    <2> QED BY <2>1, <2>2, <2>3, PartOfPoints
  <1> DEFINE v == b * 10
             c == PercentBpsOf(v)
  <1>2. v \in Parts /\ v % 10 = 0 /\ b * (One \div 10000) = v
    BY <1>1
  <1> HIDE DEF v
  <1>3. c \in Points /\ v = c * 10
    BY <1>2, BasisPoints
  <1> HIDE DEF c
  <1>4. c = b
    BY <1>1, <1>3 DEF v, Points
  <1> QED BY <1>2, <1>4 DEF c

LEMMA CapsAre ==
    /\ None # "percentage" /\ None # "fixed"
    /\ None # "preset" /\ None # "manual_amount" /\ None # "manual_percent"
    /\ CapFor("preset") # None /\ CapFor("manual_amount") # None
    /\ CapFor("manual_percent") # None /\ CapFor(None) = None
  <1>1. \A kind \in DiscountKinds : None # kind /\ None # CapFor(kind)
    BY SaleAssumption
  <1>2. None # "percentage" /\ None # "fixed"
    BY SaleAssumption
  <1> QED BY <1>1, <1>2 DEF DiscountKinds, CapFor

(* The till's ask, from a request that names its kind and from one that    *)
(* does not, is the one the server judges.                                 *)
AsksAlike(d, s) ==
    \A body \in { RequestBody(d, s), OldBody(d, s) } :
        AskedAsJudged(d, JudgedFigures(d, s), AskFrom(body, d.preset))

LEMMA AskedByHand ==
    ASSUME NEW s \in Int, NEW d, IsDiscount(d), d.kind = "manual_amount",
           JudgedFigures(d, s).amount > 0
    PROVE  AsksAlike(d, s)
  <1> DEFINE fig == JudgedFigures(d, s)
             n == fig.amount
  <1>1. d.preset = None /\ fig.percent = None /\ n \in Int /\ n # None /\ n > 0
    BY HandIs, JudgedByHand, SaleAssumption DEF JudgedAt, NonNegative
  <1>2. None # "percentage" /\ None # "fixed" /\ "fixed" # "percentage"
    BY CapsAre
  <1>3. /\ RequestBody(d, s).hasPreset = FALSE /\ RequestBody(d, s).type = None
        /\ RequestBody(d, s).value = None /\ RequestBody(d, s).kind = d.kind
        /\ RequestBody(d, s).amount = n /\ RequestBody(d, s).bps = None
    BY <1>1 DEF RequestBody, JudgedFigures
  <1>4. /\ OldBody(d, s).hasPreset = FALSE /\ OldBody(d, s).type = "fixed"
        /\ OldBody(d, s).value = None /\ OldBody(d, s).kind = None
        /\ OldBody(d, s).amount = n /\ OldBody(d, s).bps = None
    <2>1. OldBody(d, s).amount = n
      BY DEF OldBody, JudgedFigures
    <2>2. OldBody(d, s).hasPreset = FALSE
      BY <1>1 DEF OldBody
    <2>3. OldBody(d, s).value = None
      BY DEF OldBody
    <2>4. OldBody(d, s).type = "fixed" /\ OldBody(d, s).kind = None /\ OldBody(d, s).bps = None
      BY <1>1 DEF OldBody
    <2> QED BY <2>1, <2>2, <2>3, <2>4
  <1> HIDE DEF fig, n
  <1>5. /\ KindOf(RequestBody(d, s), FALSE) = "manual_amount"
        /\ KindOf(OldBody(d, s), FALSE) = "manual_amount"
    BY <1>3, <1>4, CapsAre DEF KindOf
  <1>6. ASSUME NEW body \in { RequestBody(d, s), OldBody(d, s) }
        PROVE  AskFrom(body, d.preset)
                   = [cap |-> CapFor("manual_amount"), kind |-> "manual_amount",
                      amount |-> n, percent |-> None]
    BY <1>1, <1>2, <1>3, <1>4, <1>5 DEF AskFrom
  <1>7. RequestFor("manual_amount", n, None) = RequestFor(d.kind, fig.amount, fig.percent)
    BY <1>1 DEF n
  <1> QED BY <1>6, <1>7 DEF AsksAlike, AskedAsJudged, fig

LEMMA AskedByPart ==
    ASSUME NEW s \in Int, NEW d, IsDiscount(d), d.kind = "manual_percent",
           JudgedFigures(d, s).amount > 0
    PROVE  AsksAlike(d, s)
  <1> DEFINE fig == JudgedFigures(d, s)
             n == fig.amount
             b == d.bps
             v == b * (One \div 10000)
  <1>1. d.preset = None /\ fig.percent = b /\ b # None /\ b \in Points /\ n \in Int /\ n # None /\ n > 0
    BY HandIs, JudgedByPart, SaleAssumption DEF JudgedAt, NonNegative, Points
  <1>2. None # "percentage" /\ None # "fixed" /\ "fixed" # "percentage" /\ None # "manual_percent"
    BY CapsAre
  <1>3. /\ RequestBody(d, s).hasPreset = FALSE /\ RequestBody(d, s).type = None
        /\ RequestBody(d, s).value = None /\ RequestBody(d, s).kind = d.kind
        /\ RequestBody(d, s).amount = n /\ RequestBody(d, s).bps = b
    BY <1>1 DEF RequestBody, JudgedFigures
  <1>4. /\ OldBody(d, s).hasPreset = FALSE /\ OldBody(d, s).type = "percentage"
        /\ OldBody(d, s).value = v /\ OldBody(d, s).kind = None
        /\ OldBody(d, s).amount = n /\ OldBody(d, s).bps = None
    <2>1. OldBody(d, s).amount = n
      BY DEF OldBody, JudgedFigures
    <2>2. OldBody(d, s).hasPreset = FALSE
      BY <1>1 DEF OldBody
    <2>3. OldBody(d, s).value = v
      BY DEF OldBody
    <2>4. OldBody(d, s).type = "percentage" /\ OldBody(d, s).kind = None /\ OldBody(d, s).bps = None
      BY <1>1 DEF OldBody
    <2> QED BY <2>1, <2>2, <2>3, <2>4
  <1>5. PercentBpsOf(v) = b /\ v # None
    <2>1. PercentBpsOf(v) = b
      BY <1>1, PointsBack
    <2>2. v \in Int
      <3> HIDE DEF b
      <3> QED BY <1>1 DEF Points, One
    <2> QED BY <2>1, <2>2, SaleAssumption
  <1> HIDE DEF fig, n, b, v
  <1>6. /\ KindOf(RequestBody(d, s), FALSE) = "manual_percent"
        /\ KindOf(OldBody(d, s), TRUE) = "manual_percent"
    BY <1>3, <1>4, CapsAre DEF KindOf
  <1>7. ASSUME NEW body \in { RequestBody(d, s), OldBody(d, s) }
        PROVE  AskFrom(body, d.preset)
                   = [cap |-> CapFor("manual_percent"), kind |-> "manual_percent",
                      amount |-> None, percent |-> b]
    <2>1. CASE body = RequestBody(d, s)
      BY <2>1, <1>1, <1>2, <1>3, <1>6 DEF AskFrom
    <2>2. CASE body = OldBody(d, s)
      BY <2>2, <1>1, <1>2, <1>4, <1>5, <1>6 DEF AskFrom
    <2> QED BY <2>1, <2>2
  <1>8. RequestFor("manual_percent", None, b) = RequestFor(d.kind, fig.amount, fig.percent)
    BY <1>1 DEF RequestFor
  <1> QED BY <1>7, <1>8 DEF AsksAlike, AskedAsJudged, fig

LEMMA AskedByPreset ==
    ASSUME NEW s \in Int, NEW d, IsDiscount(d), d.kind = "preset",
           JudgedFigures(d, s).amount > 0
    PROVE  AsksAlike(d, s)
  <1> DEFINE fig == JudgedFigures(d, s)
             n == fig.amount
             v == d.preset.value
             type == d.preset.type
             b == IF type = "percentage" THEN PercentBpsOf(v) ELSE None
  <1>1. /\ d.preset # None /\ fig.percent = b /\ n \in Int /\ n # None /\ n > 0
        /\ (type = "percentage" \/ type = "fixed")
    BY HandIs, JudgedByPreset, SaleAssumption DEF JudgedAt, NonNegative
  <1>2. None # "percentage" /\ None # "fixed" /\ "fixed" # "percentage"
    BY CapsAre
  <1>3. /\ RequestBody(d, s).hasPreset = TRUE /\ RequestBody(d, s).kind = d.kind
        /\ RequestBody(d, s).amount = n /\ RequestBody(d, s).bps = b
    BY <1>1 DEF RequestBody, JudgedFigures
  <1>4. /\ OldBody(d, s).hasPreset = TRUE /\ OldBody(d, s).kind = None
        /\ OldBody(d, s).amount = n /\ OldBody(d, s).bps = None
    <2>1. OldBody(d, s).amount = n
      BY DEF OldBody, JudgedFigures
    <2>2. OldBody(d, s).hasPreset = TRUE
      BY <1>1 DEF OldBody
    <2>3. OldBody(d, s).kind = None /\ OldBody(d, s).bps = None
      BY DEF OldBody
    <2> QED BY <2>1, <2>2, <2>3
  <1>5. b # None => b = PercentBpsOf(v) /\ type = "percentage"
    OBVIOUS
  <1> HIDE DEF fig, n
  <1>6. \A is \in BOOLEAN : /\ KindOf(RequestBody(d, s), is) = "preset"
                            /\ KindOf(OldBody(d, s), is) = "preset"
    BY <1>3, <1>4, CapsAre DEF KindOf
  <1>7. ASSUME NEW body \in { RequestBody(d, s), OldBody(d, s) }
        PROVE  AskFrom(body, d.preset)
                   = [cap |-> CapFor("preset"), kind |-> "preset", amount |-> n, percent |-> b]
    <2> HIDE DEF v
    <2>1. body.hasPreset = TRUE /\ body.amount = n /\ (body.bps = b \/ body.bps = None)
      BY <1>3, <1>4
    <2>2. KindOf(body, type = "percentage") = "preset"
      BY <1>6
    <2>3. CASE type = "percentage"
      BY <2>1, <2>2, <2>3, <1>1, <1>2 DEF AskFrom, v
    <2>4. CASE type = "fixed"
      BY <2>1, <2>2, <2>4, <1>1, <1>2 DEF AskFrom, v
    <2> QED BY <2>3, <2>4, <1>1
  <1>8. RequestFor("preset", n, b) = RequestFor(d.kind, fig.amount, fig.percent)
    BY <1>1 DEF n
  <1> QED BY <1>7, <1>8 DEF AsksAlike, AskedAsJudged, fig

(* On any subtotal, any discount the models allow.                         *)
LEMMA EveryDiscountIsJudged ==
    ASSUME NEW s \in Int, NEW d, IsDiscount(d), NEW policy
    PROVE  DiscountIsJudged(d, PriceSubtotal(s, Taken(d, s), policy), JudgedFigures(d, s))
  <1> DEFINE f == PriceSubtotal(s, Taken(d, s), policy)
             fig == JudgedFigures(d, s)
  <1>1. JudgedAt(d, s) /\ (fig.amount > 0 => AsksAlike(d, s))
    BY HandIs, JudgedByHand, JudgedByPart, JudgedByPreset, AskedByHand, AskedByPart, AskedByPreset
  <1>2. f.subtotal = s /\ f.discount = Clamp(Off(Taken(d, s), s), s)
    BY <1>1, BillTakes DEF JudgedAt
  <1> HIDE DEF f, fig
  <1>3. TakesAsJudged(d, f.subtotal, f.discount - fig.amount)
    BY <1>1, <1>2 DEF JudgedAt, fig
  <1>4. fig.amount > 0 =>
            \A body \in { RequestBody(d, f.subtotal), OldBody(d, f.subtotal) } :
                AskedAsJudged(d, fig, AskFrom(body, d.preset))
    BY <1>1, <1>2 DEF AsksAlike, fig
  <1> QED BY <1>3, <1>4 DEF DiscountIsJudged, f, fig

(* JudgedIsTaken: what a discount takes off a bill is what it was judged   *)
(* on, to the rounding of a value finer than a piastre or a basis point;   *)
(* and the till asks for a manager on the figures the server judges, of an *)
(* older client too (discount.rs:14-22, 148-156), for every discount, menu *)
(* and cart whose lines come to a whole amount of piastres.                *)
WholeSubtotal == Undiscounted(TillLines) \in Int

THEOREM TakenAsJudged == SaleSpec /\ []WholeSubtotal => []JudgedIsTaken
  <1>1. WholeSubtotal => JudgedIsTaken
    <2> SUFFICES ASSUME WholeSubtotal, NEW d \in Discounts \ {None}
                 PROVE  DiscountIsJudged(d, TillBillOver(TillLines, d).figures,
                            Figures(d.kind, d.preset, d.amount, d.bps,
                                    TillBillOver(TillLines, d).figures.subtotal))
      BY DEF JudgedIsTaken, LinesJudged
    <2> DEFINE s == Undiscounted(TillLines)
               own == Total([n \in DOMAIN Each(TillLines, NetLine) |-> Each(TillLines, NetLine)[n].net])
    <2>1. \A rule : PriceBill(TillLines, rule, Policy).figures = PriceSubtotal(own, rule, Policy)
      BY DEF PriceBill, PriceBillOn
    <2>2. s = own
      <3>1. s = PriceSubtotal(own, RuleOf(None, 0), Policy).subtotal
        BY <2>1 DEF Undiscounted
      <3> HIDE DEF own, s
      <3> QED BY <3>1 DEF PriceSubtotal, Compute
    <2> HIDE DEF own
    <2>3. TillBillOver(TillLines, d).figures = PriceSubtotal(s, Taken(d, s), Policy)
      BY <2>1, <2>2 DEF TillBillOver
    <2>4. s \in Int
      BY DEF WholeSubtotal
    <2> HIDE DEF s
    <2>5. IsDiscount(d)
      BY SaleAssumption
    <2>6. DiscountIsJudged(d, PriceSubtotal(s, Taken(d, s), Policy), JudgedFigures(d, s))
      BY <2>4, <2>5, EveryDiscountIsJudged
    <2>7. PriceSubtotal(s, Taken(d, s), Policy).subtotal = s
      BY DEF PriceSubtotal, Compute
    <2> QED BY <2>3, <2>6, <2>7 DEF JudgedFigures
  <1> QED BY <1>1, PTL

-----------------------------------------------------------------------------
(* The bill.                                                               *)

Adding == INSTANCE FoldFacts WITH
    FoldStep <- LAMBDA no, none, nil, sum, n : sum + n
Charging == INSTANCE FoldFacts WITH
    FoldStep <- LAMBDA no, none, nil, sum, a : sum + a.price * a.quantity
Absorbing == INSTANCE FoldFacts WITH
    FoldStep <- LAMBDA groups, picks, k, sum, m :
                    IF GroupOf(groups, picks, k, m) THEN sum + Rang(picks[m]) ELSE sum
Netting == INSTANCE FoldFacts WITH
    FoldStep <- LAMBDA no, none, nil, done, x : Append(done, NetLine(x))
Picking == INSTANCE FoldFacts WITH
    FoldStep <- LAMBDA no, none, nil, done, p :
                    Append(done, [option |-> p.id, price |-> p.price, quantity |-> p.quantity])
Listing == INSTANCE FoldFacts WITH
    FoldStep <- LAMBDA no, none, nil, done, l : Append(done, BillLine(l, TillUnit(l), "till"))

(* A run that adds is a sum; one that appends, a list.                     *)
LEMMA RunSums ==
    ASSUME NEW n \in Nat, NEW f, NEW run, run[0] = 0,
           \A k \in 1..n : f[k] \in Int /\ run[k] = run[k - 1] + f[k]
    PROVE  \A k \in 0..n : run[k] = SumFunctionOnSet(f, 1..k)
<1> DEFINE T == { k \in 0..n : run[k] = SumFunctionOnSet(f, 1..k) }
<1>1. 0 \in T
  <2>1. 1..0 = {}
    OBVIOUS
  <2> QED BY <2>1, SumNothing
<1>2. ASSUME NEW k \in 1..n, k - 1 \in T PROVE k \in T
  <2>1. k - 1 \in Nat /\ (k - 1) + 1 = k /\ k \in 0..n
    OBVIOUS
  <2>2. \A j \in 1..(k - 1) : f[j] \in Int /\ f[j] = f[j]
    OBVIOUS
  <2>3. SumFunctionOnSet(f, 1..((k - 1) + 1)) = SumFunctionOnSet(f, 1..(k - 1)) + f[(k - 1) + 1]
    BY <2>1, <2>2, SumOneMore
  <2>4. run[k - 1] = SumFunctionOnSet(f, 1..(k - 1))
    BY <1>2
  <2> QED BY <2>1, <2>3, <2>4
<1> HIDE DEF T
<1>3. \A k \in 0..n : k \in T
  BY <1>1, <1>2, Upward
<1> QED BY <1>3 DEF T

ListsUpTo(list, S, img, k) == list \in Seq(S) /\ Len(list) = k /\ \A j \in 1..k : list[j] = img[j]

LEMMA ListsMore ==
    ASSUME NEW s, NEW S, NEW img, NEW k \in Nat, ListsUpTo(s, S, img, k), img[k + 1] \in S
    PROVE  ListsUpTo(Append(s, img[k + 1]), S, img, k + 1)
<1> DEFINE t == Append(s, img[k + 1])
<1>1. s \in Seq(S) /\ Len(s) = k /\ \A j \in 1..k : s[j] = img[j]
  BY DEF ListsUpTo
<1>2. /\ t \in Seq(S) /\ Len(t) = k + 1 /\ t[k + 1] = img[k + 1]
      /\ \A j \in 1..k : t[j] = s[j]
  BY <1>1, AppendProperties
<1> HIDE DEF t
<1>3. \A j \in 1..(k + 1) : t[j] = img[j]
  BY <1>1, <1>2
<1> QED BY <1>2, <1>3 DEF ListsUpTo, t

LEMMA RunLists ==
    ASSUME NEW n \in Nat, NEW S, NEW img \in [1..n -> S], NEW run, run[0] = <<>>,
           \A k \in 1..n : run[k] = Append(run[k - 1], img[k])
    PROVE  run[n] = img
<1> DEFINE T == { k \in 0..n : ListsUpTo(run[k], S, img, k) }
<1>1. 0 \in T
  <2>1. run[0] \in Seq(S)
    OBVIOUS
  <2>2. Len(run[0]) = 0
    OBVIOUS
  <2>3. \A j \in 1..0 : run[0][j] = img[j]
    OBVIOUS
  <2>4. ListsUpTo(run[0], S, img, 0)
    BY <2>1, <2>2, <2>3 DEF ListsUpTo
  <2> QED BY <2>4
<1>2. ASSUME NEW k \in 1..n, k - 1 \in T PROVE k \in T
  <2>1. ListsUpTo(run[k - 1], S, img, k - 1) /\ k - 1 \in Nat /\ (k - 1) + 1 = k /\ k \in 0..n
    BY <1>2
  <2>2. img[k] \in S /\ run[k] = Append(run[k - 1], img[k])
    OBVIOUS
  <2> DEFINE j == k - 1
  <2>3. ListsUpTo(run[j], S, img, j) /\ j \in Nat /\ img[j + 1] \in S
    BY <2>1, <2>2
  <2>4. run[k] = Append(run[j], img[j + 1]) /\ k = j + 1
    BY <2>1, <2>2
  <2> HIDE DEF j
  <2>5. ListsUpTo(Append(run[j], img[j + 1]), S, img, j + 1)
    BY <2>3, ListsMore
  <2> QED BY <2>1, <2>4, <2>5
<1> HIDE DEF T
<1>3. \A k \in 0..n : k \in T
  BY <1>1, <1>2, Upward
<1>4. run[n] \in Seq(S) /\ Len(run[n]) = n /\ \A j \in 1..n : run[n][j] = img[j]
  BY <1>3 DEF T, ListsUpTo
<1> QED BY <1>4

LEMMA TotalIs ==
    ASSUME NEW n \in Nat, NEW s \in [1..n -> Int]
    PROVE  Total(s) = SumFunctionOnSet(s, 1..n) /\ Total(s) \in Int
<1>1. s \in Seq(Int) /\ Len(s) = n
  OBVIOUS
<1>2. Total(s) = Adding!Folded(None, None, None, 0, s)
  BY DEF Total, FoldLeft, MapThenFoldSet, Max, Adding!Folded, Adding!IsFolder, Adding!Max
<1>3. PICK run : Adding!IsRun(None, None, None, 0, s, run) /\ Total(s) = run[n]
  BY <1>1, <1>2, Adding!FoldIsRun
<1>4. run[0] = 0 /\ \A k \in 1..n : run[k] = run[k - 1] + s[k]
  BY <1>1, <1>3 DEF Adding!IsRun
<1>5. run[n] = SumFunctionOnSet(s, 1..n)
  <2>0. \A k \in 1..n : s[k] \in Int /\ run[k] = run[k - 1] + s[k]
    BY <1>4
  <2>1. \A k \in 0..n : run[k] = SumFunctionOnSet(s, 1..k)
    BY <1>4, <2>0, RunSums
  <2> QED BY <2>1
<1>6. SumFunctionOnSet(s, 1..n) \in Int
  BY SumType, FS_Interval
<1> QED BY <1>3, <1>5, <1>6

(* The tax contained in a price that has a tax added to it is that tax.    *)
LEMMA TaxComesBack ==
    ASSUME NEW t \in Nat, NEW r \in Nat, NEW o \in Nat \ {0}
    PROVE  RoundHalfAway((t + RoundHalfAway(t * r, o)) * o, o + r) = t
<1> DEFINE a == RoundHalfAway(t * r, o)
           m == (t + a) * o
           q == RoundHalfAway(m, o + r)
           P == t * o
           R == t * r
           A == o * a
<1>1. R \in Nat /\ P \in Nat
  OBVIOUS
<1>2. a \in Nat /\ 2 * A <= 2 * R + o /\ 2 * R < 2 * A + o
  <2> HIDE DEF R
  <2>1. RoundHalfAway(R, o) \in Nat /\ 2 * (o * RoundHalfAway(R, o)) <= 2 * R + o
        /\ 2 * R < 2 * (o * RoundHalfAway(R, o)) + o
    BY <1>1, RoundNear
  <2> QED BY <2>1 DEF R
<1>3. A \in Nat
  <2> HIDE DEF a
  <2> QED BY <1>2
<1>4. m \in Nat /\ m = P + A
  <2> HIDE DEF a
  <2> QED BY <1>2
<1>5. q \in Nat /\ 2 * ((o + r) * q) <= 2 * m + (o + r) /\ 2 * m < 2 * ((o + r) * q) + (o + r)
  <2> DEFINE d == o + r
  <2>1. m \in Nat /\ d \in Nat \ {0}
    BY <1>4
  <2> HIDE DEF m, d
  <2>2. /\ RoundHalfAway(m, d) \in Nat /\ 2 * (d * RoundHalfAway(m, d)) <= 2 * m + d
        /\ 2 * m < 2 * (d * RoundHalfAway(m, d)) + d
    BY <2>1, RoundNear
  <2> QED BY <2>2 DEF d
<1>6. (o + r) * t = P + R
  OBVIOUS
<1>7. o >= 1
  OBVIOUS
<1> HIDE DEF q, m
<1>8. ~(t + 1 <= q)
  <2> SUFFICES ASSUME t + 1 <= q PROVE FALSE
    OBVIOUS
  <2>1. (o + r) * (t + 1) <= (o + r) * q
    BY <1>5
  <2>2. (o + r) * (t + 1) = P + R + (o + r)
    BY <1>6
  <2> DEFINE D == (o + r) * q
             E == (o + r) * (t + 1)
  <2>3. E <= D /\ E = P + R + (o + r) /\ 2 * D <= 2 * m + (o + r) /\ D \in Int /\ E \in Int
    BY <1>5, <2>1, <2>2
  <2> HIDE DEF D, E, P, R, A, a
  <2>4. 2 * R + o + r <= 2 * A
    BY <1>1, <1>3, <1>4, <2>3
  <2>5. r = 0
    BY <1>1, <1>2, <1>3, <2>4
  <2>6. R = 0
    BY <2>5 DEF R
  <2>7. 2 * A <= o
    BY <1>2, <2>6
  <2>8. A = 0
    <3>1. CASE a = 0
      BY <3>1 DEF A
    <3>2. CASE a >= 1
      <4>1. o * 1 <= o * a
        BY <1>2, <3>2
      <4> QED BY <1>3, <1>7, <2>7, <4>1 DEF A
    <3> QED BY <1>2, <3>1, <3>2
  <2> QED BY <1>7, <2>4, <2>5, <2>6, <2>8
<1>9. ~(q + 1 <= t)
  <2> SUFFICES ASSUME q + 1 <= t PROVE FALSE
    OBVIOUS
  <2>1. (o + r) * (q + 1) <= (o + r) * t
    BY <1>5
  <2>2. (o + r) * (q + 1) = (o + r) * q + (o + r)
    BY <1>5
  <2> DEFINE D == (o + r) * q
  <2>3. D + (o + r) <= P + R /\ 2 * m < 2 * D + (o + r) /\ D \in Int
    BY <1>5, <1>6, <2>1, <2>2
  <2> HIDE DEF D, P, R, A, a
  <2> QED BY <1>1, <1>2, <1>3, <1>4, <1>7, <2>3
<1>10. q = t
  BY <1>5, <1>8, <1>9
<1> QED BY <1>10 DEF q, m

LEMMA OneIs == One \in Nat \ {0}
BY DEF One

LEMMA RatesAre ==
    ASSUME NEW policy \in Policies, IsSane(policy)
    PROVE  /\ policy.taxRate \in Nat /\ policy.serviceRate \in Nat
           /\ policy.taxRate \in 0..One /\ policy.serviceRate \in 0..One
<1>1. {policy.taxRate, policy.serviceRate} \subseteq 0..One
  BY DEF IsSane
<1>2. policy.taxRate \in 0..One /\ policy.serviceRate \in 0..One
  BY <1>1
<1> QED BY <1>2

(* A tax is no less than nothing, and one contained no more than its price.*)
LEMMA TaxType ==
    ASSUME NEW policy \in Policies, IsSane(policy), NEW t \in Nat
    PROVE  TaxOf(policy, t) \in Nat /\ (policy.inclusive => TaxOf(policy, t) <= t)
<1> DEFINE r == policy.taxRate
<1>1. r \in Nat /\ One \in Nat \ {0}
  BY RatesAre, OneIs
<1>2. CASE policy.inclusive
  <2>1. PartIsIn(t, One, One + r)
    BY <1>1, PartFits
  <2>2. RoundHalfAway(t * One, One + r) \in 0..t
    BY <2>1 DEF PartIsIn
  <2>3. TaxOf(policy, t) = t - RoundHalfAway(t * One, One + r)
    BY <1>2 DEF TaxOf
  <2> QED BY <2>2, <2>3
<1>3. CASE ~policy.inclusive
  <2> DEFINE n == t * r
  <2>1. n \in Nat
    BY <1>1
  <2>2. TaxOf(policy, t) = RoundHalfAway(n, One)
    BY <1>3 DEF TaxOf
  <2> HIDE DEF n
  <2> QED BY <1>1, <1>3, <2>1, <2>2, RoundNear
<1> QED BY <1>2, <1>3

LEMMA TaxIncluded ==
    ASSUME NEW policy \in Policies, IsSane(policy), NEW t \in Nat, NEW added,
           added = TaxOf([policy EXCEPT !.inclusive = FALSE], t)
    PROVE  TaxOf([policy EXCEPT !.inclusive = TRUE], t + added) = added
<1> DEFINE r == policy.taxRate
           out == [policy EXCEPT !.inclusive = FALSE]
           in == [policy EXCEPT !.inclusive = TRUE]
<1>1. r \in Nat /\ One \in Nat \ {0}
  BY RatesAre, OneIs
<1>2. /\ out.inclusive = FALSE /\ out.taxRate = r
      /\ in.inclusive = TRUE /\ in.taxRate = r
  BY DEF Policies
<1> HIDE DEF out, in, r
<1>3. added = RoundHalfAway(t * r, One)
  BY <1>2 DEF TaxOf, out
<1>4. TaxOf(in, t + added) = (t + added) - RoundHalfAway((t + added) * One, One + r)
  BY <1>2 DEF TaxOf
<1>5. RoundHalfAway((t + added) * One, One + r) = t
  BY <1>1, <1>3, TaxComesBack
<1>6. added \in Nat
  <2> DEFINE n == t * r
  <2>1. n \in Nat
    BY <1>1
  <2> HIDE DEF n
  <2>2. RoundHalfAway(n, One) \in Nat
    BY <1>1, <2>1, RoundNear
  <2> QED BY <1>3, <2>2 DEF n
<1> QED BY <1>4, <1>5, <1>6 DEF in

(* A bill's figures over a whole subtotal.                                 *)
FiguresAre(f, s, policy) ==
    /\ f.subtotal = s /\ f.discount \in 0..s /\ f.service \in Nat /\ f.tax \in Nat /\ f.total \in Nat
    /\ f.service > 0 => policy.serviceRate > 0

LEMMA BillFigures ==
    ASSUME NEW s \in Nat, NEW off \in Int, NEW policy \in Policies, IsSane(policy)
    PROVE  FiguresAre(Compute(s, off, policy), s, policy)
<1> DEFINE f == Compute(s, off, policy)
           cut == Clamp(off, s)
           base == NonNegative(s - cut)
           service == RoundHalfAway(base * policy.serviceRate, One)
           taxed == IF policy.serviceTaxable THEN base + service ELSE base
           tax == TaxOf(policy, taxed)
           total == base + service + (IF policy.inclusive THEN 0 ELSE tax)
<1>1. cut \in 0..s
  <2>1. cut \in 0..NonNegative(s)
    BY ClampIs
  <2> QED BY <2>1 DEF NonNegative
<1>2. f = [subtotal |-> s, discount |-> cut, service |-> service, tax |-> tax,
           total |-> total, net |-> total - tax]
  BY DEF Compute
<1>3. base \in Nat
  <2> HIDE DEF cut
  <2> QED BY <1>1 DEF NonNegative
<1>4. service \in Nat /\ (service > 0 => policy.serviceRate > 0)
  <2> HIDE DEF base
  <2> DEFINE rate == policy.serviceRate
             n == base * rate
  <2>1. rate \in Nat /\ One \in Nat \ {0}
    BY RatesAre, OneIs
  <2> HIDE DEF rate
  <2>2. n \in Nat /\ (rate = 0 => n = 0)
    BY <1>3, <2>1
  <2> HIDE DEF n
  <2> DEFINE q == RoundHalfAway(n, One)
  <2>3. q \in Nat /\ 2 * (One * q) <= 2 * n + One
    BY <2>1, <2>2, RoundNear
  <2> HIDE DEF q
  <2>4. rate = 0 => q = 0
    <3> SUFFICES ASSUME rate = 0, q >= 1 PROVE FALSE
      BY <2>3
    <3>1. One * 1 <= One * q
      BY <2>1, <2>3
    <3> QED BY <2>1, <2>2, <2>3, <3>1
  <2> QED BY <2>1, <2>3, <2>4 DEF q, n, rate
<1>5. taxed \in Nat
  <2> HIDE DEF base, service
  <2> QED BY <1>3, <1>4
<1>6. tax \in Nat
  <2> HIDE DEF taxed
  <2> QED BY <1>5, TaxType
<1>7. total \in Nat
  <2> HIDE DEF base, service, tax
  <2> QED BY <1>3, <1>4, <1>6
<1> HIDE DEF f, cut, base, service, taxed, tax, total
<1>8. FiguresAre(f, s, policy)
  BY <1>1, <1>2, <1>4, <1>6, <1>7 DEF FiguresAre
<1> QED BY <1>8 DEF f

LEMMA NoNegativePart ==
    ASSUME NEW f, NEW s \in Nat, NEW policy, FiguresAre(f, s, policy)
    PROVE  NegativePart(f) = None
<1>1. f.subtotal \in Nat /\ f.discount \in Nat /\ f.service \in Nat /\ f.tax \in Nat /\ f.total \in Nat
  BY DEF FiguresAre
<1>2. /\ ~(f.subtotal < 0) /\ ~(f.discount < 0) /\ ~(f.service < 0) /\ ~(f.tax < 0)
      /\ ~(f.total < 0) /\ f.subtotal >= 0 /\ f.discount >= 0
  BY <1>1
<1> QED BY <1>2 DEF NegativePart

(* The sale's policy: a charge only at a table, and not when waived.       *)
LEMMA PolicyIs ==
    ASSUME terms \in Terms
    PROVE  /\ Policy \in Policies /\ IsSane(Policy)
           /\ Policy.serviceRate > 0 => terms.channel = "dine_in" /\ ~terms.waived
<1>1. terms \in SaleTerms /\ IsSane(terms.policy)
  BY SaleAssumption
<1>2. terms.policy \in Policies /\ terms.waived \in BOOLEAN
  BY <1>1 DEF SaleTerms
<1> DEFINE p == terms.policy
           none == [p EXCEPT !.serviceRate = 0]
<1>3. none \in Policies /\ none.serviceRate = 0 /\ none.taxRate = p.taxRate
  BY <1>2 DEF Policies
<1>4. IsSane(none)
  <2>1. p.taxRate \in 0..One /\ 0 \in 0..One
    BY <1>1, <1>2, RatesAre, OneIs
  <2> QED BY <1>3, <2>1 DEF IsSane
<1>5. ChannelOf(terms.channel) = "dine_in" => terms.channel = "dine_in"
  <2>1. None # "dine_in"
    BY SaleAssumption
  <2> QED BY <2>1 DEF ChannelOf
<1>6. CASE ChannelOf(terms.channel) = "dine_in" /\ ~terms.waived
  <2>1. Policy = p
    BY <1>6 DEF Policy, ForSale
  <2> QED BY <1>1, <1>2, <1>5, <1>6, <2>1
<1>7. CASE ~(ChannelOf(terms.channel) = "dine_in" /\ ~terms.waived)
  <2>1. Policy = none
    BY <1>7 DEF Policy, ForSale
  <2> HIDE DEF none
  <2> QED BY <1>3, <1>4, <2>1
<1> QED BY <1>6, <1>7

-----------------------------------------------------------------------------
(* A line of a bill with whole figures: a comp is of its line.             *)
LineIsWhole(l) ==
    /\ l.charged \in Nat /\ l.perUnit \in Int /\ l.rewardUnits \in Int /\ l.comp \in Int
    /\ l.comp <= l.charged

NetIs(l, net) ==
    /\ net.comp = l.comp /\ net.covered \in Int
    /\ net.net = l.charged - l.comp - net.covered /\ net.net \in Nat

LEMMA NetLineIs ==
    ASSUME NEW l, LineIsWhole(l)
    PROVE  NetIs(l, NetLine(l))
<1> DEFINE n == NonNegative(l.perUnit) * NonNegative(l.rewardUnits)
           cover == CoveredMinor(l.perUnit, l.charged, l.rewardUnits)
           left == NonNegative(l.charged - l.comp)
           covered == AtMost(cover, left)
<1>1. NonNegative(l.perUnit) \in Nat /\ NonNegative(l.rewardUnits) \in Nat
  BY DEF LineIsWhole, NonNegative
<1>2. n \in Int
  BY <1>1
<1>3. cover \in Int
  <2>1. cover = AtMost(n, NonNegative(l.charged))
    BY DEF CoveredMinor
  <2> HIDE DEF n
  <2> QED BY <1>2, <2>1 DEF LineIsWhole, AtMost, NonNegative
<1> HIDE DEF cover
<1>4. left = l.charged - l.comp /\ left \in Nat
  BY DEF LineIsWhole, NonNegative
<1>5. covered \in Int /\ covered <= left
  <2> HIDE DEF left
  <2> QED BY <1>3, <1>4 DEF AtMost
<1>6. NetLine(l) = [comp |-> l.comp, covered |-> covered, net |-> l.charged - l.comp - covered]
  BY DEF NetLine, cover
<1> HIDE DEF covered, left
<1> QED BY <1>4, <1>5, <1>6 DEF NetIs, LineIsWhole

LEMMA NetsAre ==
    ASSUME NEW n \in Nat, NEW lines, lines \in [1..n -> { lines[k] : k \in 1..n }]
    PROVE  Each(lines, NetLine) = [k \in 1..n |-> NetLine(lines[k])]
<1> DEFINE S == { NetLine(lines[k]) : k \in 1..n }
           img == [k \in 1..n |-> NetLine(lines[k])]
           R == { lines[k] : k \in 1..n }
<1>1. Each(lines, NetLine) = Netting!Folded(None, None, None, <<>>, lines)
  BY DEF Each, FoldLeft, MapThenFoldSet, Max, Netting!Folded, Netting!IsFolder, Netting!Max
<1>2. lines \in Seq(R) /\ Len(lines) = n
  <2>1. lines \in [1..n -> R]
    OBVIOUS
  <2> HIDE DEF R
  <2> QED BY <2>1
<1>3. PICK run : Netting!IsRun(None, None, None, <<>>, lines, run)
                 /\ Each(lines, NetLine) = run[n]
  <2> HIDE DEF R
  <2> QED BY <1>1, <1>2, Netting!FoldIsRun
<1>4. run[0] = <<>> /\ \A k \in 1..n : run[k] = Append(run[k - 1], NetLine(lines[k]))
  <2> HIDE DEF R
  <2> QED BY <1>2, <1>3 DEF Netting!IsRun
<1>5. img \in [1..n -> S] /\ \A k \in 1..n : run[k] = Append(run[k - 1], img[k])
  BY <1>4
<1> HIDE DEF img, S
<1>6. run[n] = img
  BY <1>4, <1>5, RunLists
<1> QED BY <1>3, <1>6 DEF img

(* What the bill makes of whole lines.                                     *)
LinesAreWhole(lines, n) ==
    /\ n \in Nat /\ lines \in [1..n -> { lines[k] : k \in 1..n }]
    /\ \A k \in 1..n : LineIsWhole(lines[k])

ChargedIn(lines) == Total([k \in DOMAIN lines |-> lines[k].charged])

BillIs(bill, lines, n, s, rule) ==
    /\ DOMAIN bill.lines = 1..n /\ \A k \in 1..n : bill.lines[k].net \in Nat
    /\ s \in Nat /\ s = ChargedIn(lines) - bill.comp - bill.covered
    /\ bill.figures = PriceSubtotal(s, rule, Policy)

LEMMA BillOfLines ==
    ASSUME NEW n, NEW lines, LinesAreWhole(lines, n)
    PROVE  \E s : \A rule : BillIs(PriceBill(lines, rule, Policy), lines, n, s, rule)
<1> DEFINE nets == [k \in 1..n |-> NetLine(lines[k])]
           own == [k \in 1..n |-> nets[k].net]
           cov == [k \in 1..n |-> nets[k].covered]
           comp == [k \in 1..n |-> nets[k].comp]
           chg == [k \in 1..n |-> lines[k].charged]
           s == Total(own)
           D == 1..n
<1>0. n \in Nat /\ IsFiniteSet(D)
  <2>1. n \in Nat
    BY DEF LinesAreWhole
  <2> QED BY <2>1, FS_Interval
<1>1. Each(lines, NetLine) = nets /\ DOMAIN lines = 1..n
  BY NetsAre DEF LinesAreWhole
<1>2. \A k \in 1..n : NetIs(lines[k], nets[k]) /\ LineIsWhole(lines[k])
  BY NetLineIs DEF LinesAreWhole
<1>3. DOMAIN nets = 1..n
  OBVIOUS
<1> HIDE DEF nets
<1>4. \A rule : LET b == PriceBill(lines, rule, Policy)
                IN  /\ b.lines = nets /\ b.covered = Total(cov) /\ b.comp = Total(comp)
                    /\ b.figures = PriceSubtotal(s, rule, Policy)
  BY <1>1, <1>3 DEF PriceBill, PriceBillOn
<1>5. own \in [1..n -> Int] /\ cov \in [1..n -> Int] /\ comp \in [1..n -> Int] /\ chg \in [1..n -> Int]
  BY <1>2 DEF NetIs, LineIsWhole
<1>6. \A k \in D : /\ own[k] \in Nat /\ cov[k] \in Int /\ comp[k] \in Int /\ chg[k] \in Int
                   /\ chg[k] = own[k] + cov[k] + comp[k]
  BY <1>2 DEF NetIs, LineIsWhole
<1>7. ChargedIn(lines) = Total(chg)
  BY <1>1 DEF ChargedIn
<1> DEFINE both == [k \in D |-> own[k] + cov[k]]
<1>8. \A k \in D : both[k] = own[k] + cov[k] /\ both[k] \in Int /\ chg[k] = both[k] + comp[k]
  BY <1>6
<1> HIDE DEF own, cov, comp, chg, both, s
<1>9. /\ Total(own) = SumFunctionOnSet(own, D) /\ Total(cov) = SumFunctionOnSet(cov, D)
      /\ Total(comp) = SumFunctionOnSet(comp, D) /\ Total(chg) = SumFunctionOnSet(chg, D)
      /\ Total(own) \in Int /\ Total(cov) \in Int /\ Total(comp) \in Int /\ Total(chg) \in Int
  BY <1>0, <1>5, TotalIs
<1> HIDE DEF D
<1>10. SumFunctionOnSet(both, D) = SumFunctionOnSet(own, D) + SumFunctionOnSet(cov, D)
  BY <1>0, <1>6, <1>8, SumPlus
<1>11. SumFunctionOnSet(chg, D) = SumFunctionOnSet(both, D) + SumFunctionOnSet(comp, D)
  BY <1>0, <1>6, <1>8, SumPlus
<1>12. SumFunctionOnSet(own, D) \in Nat
  BY <1>0, <1>6, SumNat
<1>13. s \in Nat /\ s = ChargedIn(lines) - Total(comp) - Total(cov)
  BY <1>7, <1>9, <1>10, <1>11, <1>12 DEF s
<1>14. \A k \in 1..n : nets[k].net \in Nat
  BY <1>2 DEF NetIs
<1>15. \A rule : BillIs(PriceBill(lines, rule, Policy), lines, n, s, rule)
  BY <1>3, <1>4, <1>13, <1>14 DEF BillIs
<1> QED BY <1>15

-----------------------------------------------------------------------------
(* What a discount asks of a whole subtotal is a whole amount.             *)
LEMMA AskedIsWhole ==
    ASSUME NEW s \in Nat, NEW d \in Discounts
    PROVE  DiscountOn(s, Taken(d, s)) \in Int
<1>1. CASE d = None
  <2>1. None # "percentage" /\ None # "fixed"
    BY SaleAssumption
  <2>2. Taken(d, s).type = "none"
    BY <1>1, <2>1 DEF Taken, RuleOf
  <2>3. DiscountOn(s, Taken(d, s)) = Clamp(0, s)
    BY <2>2 DEF DiscountOn
  <2> QED BY <2>3, ClampIs
<1>2. CASE d # None
  <2>1. IsDiscount(d)
    BY <1>2, SaleAssumption
  <2>2. JudgedAt(d, s)
    BY <2>1, HandIs, JudgedByHand, JudgedByPart, JudgedByPreset
  <2>3. Off(Taken(d, s), s) \in Int
    BY <2>2 DEF JudgedAt
  <2>4. DiscountOn(s, Taken(d, s)) = Clamp(Off(Taken(d, s), s), s)
    BY DEF DiscountOn, Off
  <2> QED BY <2>3, <2>4, ClampIs
<1> QED BY <1>1, <1>2

(* The change the server records, and the cash of a split.                 *)
LEMMA CashOfTwo ==
    ASSUME NEW a \in Int, NEW b \in Int
    PROVE  CashLegs(<<[amount |-> a, cash |-> TRUE], [amount |-> b, cash |-> FALSE]>>) = a
<1> DEFINE legs == <<[amount |-> a, cash |-> TRUE], [amount |-> b, cash |-> FALSE]>>
           f == [n \in DOMAIN legs |-> IF legs[n].cash THEN legs[n].amount ELSE 0]
<1>1. f = [n \in 1..2 |-> IF n = 1 THEN a ELSE 0]
  OBVIOUS
<1>2. f \in [1..2 -> Int] /\ f[1] = a /\ f[2] = 0
  BY <1>1
<1>3. CashLegs(legs) = Total(f)
  BY DEF CashLegs
<1> HIDE DEF f, legs
<1>4. Total(f) = SumFunctionOnSet(f, 1..2)
  BY <1>2, TotalIs
<1>5. IsFiniteSet({1}) /\ IsFiniteSet({})
  BY FS_EmptySet, FS_Singleton
<1>6. 1..2 = {1} \union {2} /\ {} \union {1} = {1}
  OBVIOUS
<1>7. SumFunctionOnSet(f, {1} \union {2}) = SumFunctionOnSet(f, {1}) + f[2]
  <2>1. 2 \notin {1} /\ \A y \in {1} \union {2} : f[y] \in Int
    BY <1>2
  <2> QED BY <1>5, <2>1, SumWith
<1>8. SumFunctionOnSet(f, {} \union {1}) = SumFunctionOnSet(f, {}) + f[1]
  <2>1. 1 \notin {} /\ \A y \in {} \union {1} : f[y] \in Int
    BY <1>2
  <2> QED BY <1>5, <2>1, SumWith
<1>9. SumFunctionOnSet(f, {1}) = a
  <2>1. SumFunctionOnSet(f, {}) = 0
    BY SumNothing
  <2>2. SumFunctionOnSet(f, {1}) = 0 + a
    BY <1>2, <1>6, <1>8, <2>1
  <2> QED BY <2>2
<1>10. SumFunctionOnSet(f, 1..2) = a + 0
  BY <1>2, <1>6, <1>7, <1>9
<1>11. CashLegs(legs) = a
  BY <1>3, <1>4, <1>10
<1> QED BY <1>11 DEF legs

LEMMA DrawerKeeps == ASSUME NEW total \in Nat PROVE DrawerKeepsItsCash(total)
<1> SUFFICES ASSUME NEW over \in {0, 7}, NEW tip \in {0, 2}, NEW cash \in {0, 1, total}
             PROVE  LET split == <<[amount |-> cash, cash |-> TRUE], [amount |-> total - cash, cash |-> FALSE]>>
                        whole == RecordedTender(<<>>, total + tip + over, ChangeDue(total + tip + over, total, tip), total)
                        part == RecordedTender(split, cash + over, None, total)
                    IN  /\ whole.tendered - whole.change = total + tip
                        /\ ~NegativeLeg(split) /\ LegsCover(split, total) /\ part.tendered # None =>
                               part.tendered - part.change = cash
  BY DEF DrawerKeepsItsCash
<1> DEFINE split == <<[amount |-> cash, cash |-> TRUE], [amount |-> total - cash, cash |-> FALSE]>>
           given == total + tip + over
           change == ChangeDue(given, total, tip)
           whole == RecordedTender(<<>>, given, change, total)
           part == RecordedTender(split, cash + over, None, total)
<1>1. None \notin Int
  BY SaleAssumption
<1>2. given \in Nat /\ given - total - tip = over /\ cash \in Nat /\ over \in Nat
  OBVIOUS
<1>3. change = over
  <2>1. change = Clamp(over, ChangeCap)
    BY <1>1, <1>2 DEF ChangeDue
  <2>2. ChangeCap \in Nat /\ ChangeCap >= 7
    BY SMT DEF ChangeCap
  <2>3. over \in 0..NonNegative(ChangeCap)
    BY <1>2, <2>2, SMT DEF NonNegative
  <2> QED BY <1>2, <2>1, <2>2, <2>3, ClampIs
<1> HIDE DEF given, change
<1>4. whole.tendered = given /\ whole.change = over
  BY <1>1, <1>2, <1>3 DEF RecordedTender
<1>5. CashLegs(split) = cash /\ split # <<>>
  <2>1. CashLegs(split) = cash
    BY <1>2, CashOfTwo
  <2> QED BY <2>1
<1> HIDE DEF split
<1>6. part.tendered # None => part.tendered = cash + over /\ part.change = over
  BY <1>1, <1>2, <1>5 DEF RecordedTender
<1>7. whole.tendered - whole.change = total + tip
  BY <1>4 DEF given
<1>8. part.tendered # None => part.tendered - part.change = cash
  BY <1>2, <1>6
<1> QED BY <1>7, <1>8 DEF split, given, change

-----------------------------------------------------------------------------
(* A bill of whole lines.                                                  *)
LEMMA BillAdds ==
    ASSUME terms \in Terms, NEW n, NEW lines, LinesAreWhole(lines, n), NEW d \in Discounts
    PROVE  DiscountedAddsUp(lines, d, TillBillOver(lines, d))
<1>1. PICK s : \A rule : BillIs(PriceBill(lines, rule, Policy), lines, n, s, rule)
  BY BillOfLines
<1> DEFINE b == TillBillOver(lines, d)
           f == b.figures
           t == Taken(d, s)
<1>2. Undiscounted(lines) = s
  <2>1. PriceBill(lines, RuleOf(None, 0), Policy).figures = PriceSubtotal(s, RuleOf(None, 0), Policy)
    BY <1>1 DEF BillIs
  <2> QED BY <2>1 DEF Undiscounted, PriceSubtotal, Compute
<1>3. BillIs(b, lines, n, s, t)
  BY <1>1, <1>2 DEF TillBillOver
<1> HIDE DEF b, t
<1>4. /\ DOMAIN b.lines = 1..n /\ \A k \in 1..n : b.lines[k].net \in Nat
      /\ s \in Nat /\ s = ChargedIn(lines) - b.comp - b.covered
      /\ f = PriceSubtotal(s, t, Policy)
  BY <1>3 DEF BillIs
<1>5. Policy \in Policies /\ IsSane(Policy)
      /\ (Policy.serviceRate > 0 => terms.channel = "dine_in" /\ ~terms.waived)
  BY PolicyIs
<1>6. DiscountOn(s, t) \in Int
  BY <1>4, AskedIsWhole DEF t
<1>7. FiguresAre(f, s, Policy)
  <2> DEFINE off == DiscountOn(s, t)
  <2>1. f = Compute(s, off, Policy)
    BY <1>4 DEF PriceSubtotal
  <2>2. off \in Int
    BY <1>6
  <2> HIDE DEF off, f
  <2>3. FiguresAre(Compute(s, off, Policy), s, Policy)
    BY <1>4, <1>5, <2>2, BillFigures
  <2> QED BY <2>1, <2>3
<1> HIDE DEF f
<1>8. f.subtotal = s /\ f.discount \in 0..s /\ f.service \in Nat /\ f.total \in Nat
      /\ (f.service > 0 => Policy.serviceRate > 0)
  BY <1>7 DEF FiguresAre
<1>9. LinesAddUp(lines, b, d)
  <2>1. NegativePart(f) = None
    BY <1>4, <1>7, NoNegativePart
  <2>2. ~ \E k \in DOMAIN b.lines : b.lines[k].net < 0
    BY <1>4
  <2>3. Refusal(b) = None
    BY <2>1, <2>2 DEF Refusal, f
  <2>4. \A k \in DOMAIN b.lines : b.lines[k].net >= 0
    BY <1>4
  <2>5. b.figures.subtotal = Total([k \in DOMAIN lines |-> lines[k].charged]) - b.comp - b.covered
    BY <1>4, <1>8 DEF ChargedIn, f
  <2>6. PriceOpenBill(b.figures.subtotal, Taken(d, b.figures.subtotal), Policy) = b.figures
    <3>1. b.figures.subtotal = s /\ NonNegative(s) = s
      BY <1>4, <1>8 DEF NonNegative, f
    <3>2. b.figures = PriceSubtotal(s, Taken(d, s), Policy)
      BY <1>4 DEF f, t
    <3> QED BY <3>1, <3>2 DEF PriceOpenBill
  <2> QED BY <2>3, <2>4, <2>5, <2>6 DEF LinesAddUp
<1>10. TaxIsContained(f)
  <2> DEFINE taxed == f.subtotal - f.discount + (IF Policy.serviceTaxable THEN f.service ELSE 0)
             added == TaxOf([Policy EXCEPT !.inclusive = FALSE], taxed)
  <2>1. taxed \in Nat
    BY <1>4, <1>8
  <2> HIDE DEF taxed
  <2>2. TaxOf([Policy EXCEPT !.inclusive = TRUE], taxed + added) = added
    BY <1>5, <2>1, TaxIncluded
  <2>3. f.service > 0 => terms.channel = "dine_in" /\ ~terms.waived
    BY <1>5, <1>8
  <2> QED BY <2>2, <2>3 DEF TaxIsContained, taxed
<1>11. DrawerKeepsItsCash(f.total)
  BY <1>8, DrawerKeeps
<1> QED BY <1>9, <1>10, <1>11 DEF DiscountedAddsUp, f, b

-----------------------------------------------------------------------------
(* The comp of a staff drink, over whole figures.                          *)
CompSize == [label : STRING, price : Int, active : BOOLEAN, branchPrice : Or(Int)]
CompGroup == [id : STRING, requiredMin : Nat, options : Seq(GroupOption)]
CompPick == [option : STRING, price : Nat, quantity : Nat]
CompInputs ==
    [eligible : {TRUE}, unit : Nat, sizes : Seq(CompSize), groups : Seq(CompGroup),
     picks : Seq(CompPick), optionals : Nat, quantity : Nat]

LEMMA LowestIs ==
    ASSUME NEW S \in SUBSET Nat, S # {}
    PROVE  Lowest(S) \in S /\ Lowest(S) \in Nat
<1>1. \E p \in S : \A q \in S : p <= q
  BY LeastNat
<1>2. Lowest(S) \in S
  BY <1>1 DEF Lowest
<1> QED BY <1>2

LEMMA PriceOfIs ==
    ASSUME NEW x, x.branchPrice \in Or(Int), x.price \in Int
    PROVE  PriceOf(x) \in Nat
BY DEF PriceOf, NonNegative, Or

LEMMA AllowanceIs == ASSUME NEW g \in CompGroup PROVE GroupAllowance(g) \in Nat
<1> DEFINE D == DOMAIN g.options
           active == { n \in D : g.options[n].active }
           defaults == { n \in active : g.options[n].default }
           costs == { PriceOf(g.options[n]) : n \in active }
<1>1. g.requiredMin \in Nat /\ g.options \in Seq(GroupOption)
  BY DEF CompGroup
<1>2. D \in SUBSET Nat /\ \A n \in D : g.options[n] \in GroupOption
  BY <1>1
<1>3. \A n \in D : PriceOf(g.options[n]) \in Nat
  <2> TAKE n \in D
  <2>1. g.options[n].branchPrice \in Or(Int) /\ g.options[n].price \in Int
    BY <1>2 DEF GroupOption
  <2> QED BY <2>1, PriceOfIs
<1>4. active \in SUBSET Nat /\ active \subseteq D /\ defaults \in SUBSET Nat /\ defaults \subseteq D
  BY <1>2
<1>5. costs \in SUBSET Nat /\ (active # {} => costs # {})
  BY <1>3, <1>4
<1>6. GroupAllowance(g) =
        CASE active = {}    -> 0
          [] defaults # {}  -> g.requiredMin * PriceOf(g.options[Lowest(defaults)])
          [] OTHER          -> g.requiredMin * Lowest(costs)
  BY DEF GroupAllowance
<1>7. defaults # {} => defaults \subseteq active /\ active # {}
  OBVIOUS
<1> DEFINE p == PriceOf(g.options[Lowest(defaults)])
           l == Lowest(costs)
           r == g.requiredMin
<1> HIDE DEF D, active, defaults, costs
<1>8. defaults # {} => p \in Nat
  <2>1. defaults # {} => Lowest(defaults) \in D
    BY <1>4, LowestIs
  <2> QED BY <1>3, <2>1
<1>9. active # {} => l \in Nat
  BY <1>5, LowestIs
<1>10. GroupAllowance(g) = 0 \/ (defaults # {} /\ GroupAllowance(g) = r * p)
          \/ (active # {} /\ GroupAllowance(g) = r * l)
  BY <1>6, <1>7
<1>11. r \in Nat
  BY <1>1
<1> HIDE DEF p, l, r
<1>12. defaults # {} => r * p \in Nat
  BY <1>8, <1>11
<1>13. active # {} => r * l \in Nat
  BY <1>9, <1>11
<1> QED BY <1>10, <1>12, <1>13

(* What the picks of the k-th group rang at.                               *)
RangIn(groups, picks, k) ==
    [m \in DOMAIN picks |-> IF GroupOf(groups, picks, k, m) THEN Rang(picks[m]) ELSE 0]

LEMMA RangIs ==
    ASSUME NEW picks \in Seq(CompPick), NEW m \in DOMAIN picks
    PROVE  Rang(picks[m]) \in Nat
<1>1. picks[m] \in CompPick
  OBVIOUS
<1> DEFINE p == picks[m].price
           q == picks[m].quantity
<1>2. p \in Nat /\ q \in Nat
  BY <1>1 DEF CompPick
<1>3. Rang(picks[m]) = p * q
  BY <1>2 DEF Rang, NonNegative
<1> HIDE DEF p, q
<1> QED BY <1>2, <1>3

Upto(groups, picks, k, n) ==
    FoldLeft(LAMBDA sum, m : IF GroupOf(groups, picks, k, m) THEN sum + Rang(picks[m]) ELSE sum,
             0, [m \in 1..n |-> m])

LEMMA UptoIs ==
    ASSUME NEW groups, NEW picks \in Seq(CompPick), NEW k, NEW n \in 0..Len(picks)
    PROVE  Upto(groups, picks, k, n) = SumFunctionOnSet(RangIn(groups, picks, k), 1..n)
<1> DEFINE seq == [m \in 1..n |-> m]
           f == RangIn(groups, picks, k)
<1>1. n \in Nat /\ seq \in [1..n -> Nat] /\ DOMAIN picks = 1..Len(picks) /\ Len(picks) \in Nat
  OBVIOUS
<1>2. seq \in Seq(Nat) /\ Len(seq) = n
  <2> HIDE DEF seq
  <2> QED BY <1>1
<1>3. Upto(groups, picks, k, n) = Absorbing!Folded(groups, picks, k, 0, seq)
  BY DEF Upto, FoldLeft, MapThenFoldSet, Max, Absorbing!Folded, Absorbing!IsFolder, Absorbing!Max
<1>4. PICK run : Absorbing!IsRun(groups, picks, k, 0, seq, run) /\ Upto(groups, picks, k, n) = run[n]
  <2> HIDE DEF seq
  <2> QED BY <1>2, <1>3, Absorbing!FoldIsRun
<1>5. run[0] = 0 /\ \A m \in 1..n : run[m] = IF GroupOf(groups, picks, k, m)
                                               THEN run[m - 1] + Rang(picks[m]) ELSE run[m - 1]
  BY <1>2, <1>4 DEF Absorbing!IsRun
<1>6. \A m \in 1..n : f[m] \in Int /\ f[m] = IF GroupOf(groups, picks, k, m) THEN Rang(picks[m]) ELSE 0
  <2> TAKE m \in 1..n
  <2>1. m \in DOMAIN picks
    BY <1>1
  <2>2. Rang(picks[m]) \in Nat
    BY <2>1, RangIs
  <2> QED BY <2>1, <2>2 DEF RangIn
<1> HIDE DEF f, seq
<1> DEFINE T == { m \in 0..n : run[m] = SumFunctionOnSet(f, 1..m) /\ run[m] \in Int }
<1>7. 0 \in T
  <2>1. 1..0 = {}
    OBVIOUS
  <2> QED BY <1>1, <1>5, <2>1, SumNothing
<1>8. ASSUME NEW m \in 1..n, m - 1 \in T PROVE m \in T
  <2>1. m - 1 \in Nat /\ (m - 1) + 1 = m /\ m \in 0..n
    BY <1>1
  <2>2. SumFunctionOnSet(f, 1..((m - 1) + 1)) = SumFunctionOnSet(f, 1..(m - 1)) + f[(m - 1) + 1]
    <3>1. \A j \in 1..(m - 1) : f[j] \in Int /\ f[j] = f[j]
      BY <1>6
    <3>2. f[(m - 1) + 1] \in Int
      BY <1>6, <2>1
    <3> QED BY <2>1, <3>1, <3>2, SumOneMore
  <2>3. run[m - 1] = SumFunctionOnSet(f, 1..(m - 1)) /\ run[m - 1] \in Int
    BY <1>8
  <2>4. run[m] = run[m - 1] + f[m] /\ f[m] \in Int
    BY <1>5, <1>6, <2>3
  <2> QED BY <2>1, <2>2, <2>3, <2>4
<1> HIDE DEF T
<1>9. \A m \in 0..n : m \in T
  BY <1>1, <1>7, <1>8, Upward
<1> QED BY <1>1, <1>4, <1>9 DEF T, f

(* What a group absorbs of a pick: none of another group's, and no more    *)
(* than it rang at.                                                        *)
LEMMA AbsorbedIs ==
    ASSUME NEW groups, NEW k, groups[k] \in CompGroup, NEW picks \in Seq(CompPick)
    PROVE  /\ Absorbed(groups, picks, k) \in [DOMAIN picks -> Nat]
           /\ \A n \in DOMAIN picks :
                /\ Absorbed(groups, picks, k)[n] <= Rang(picks[n])
                /\ ~GroupOf(groups, picks, k, n) => Absorbed(groups, picks, k)[n] = 0
<1> DEFINE a == Absorbed(groups, picks, k)
           A == GroupAllowance(groups[k])
           u(n) == Upto(groups, picks, k, n)
           f == RangIn(groups, picks, k)
<1>1. A \in Nat
  BY AllowanceIs
<1>2. a = [n \in DOMAIN picks |-> AtMost(u(n), A) - AtMost(u(n - 1), A)]
  BY DEF Absorbed, Upto
<1>3. ASSUME NEW n \in DOMAIN picks
      PROVE  /\ a[n] \in Nat /\ a[n] <= Rang(picks[n])
             /\ ~GroupOf(groups, picks, k, n) => a[n] = 0
  <2>1. n \in 1..Len(picks) /\ n \in 0..Len(picks) /\ n - 1 \in 0..Len(picks) /\ n - 1 \in Nat
        /\ (n - 1) + 1 = n
    OBVIOUS
  <2>2. \A m \in 1..Len(picks) : /\ f[m] \in Nat /\ (~GroupOf(groups, picks, k, m) => f[m] = 0)
                                 /\ f[m] <= Rang(picks[m])
    <3> TAKE m \in 1..Len(picks)
    <3>1. m \in DOMAIN picks
      OBVIOUS
    <3>2. Rang(picks[m]) \in Nat
      BY <3>1, RangIs
    <3> QED BY <3>1, <3>2 DEF RangIn
  <2>3. u(n) = SumFunctionOnSet(f, 1..n) /\ u(n - 1) = SumFunctionOnSet(f, 1..(n - 1))
    BY <2>1, UptoIs
  <2> DEFINE v == u(n - 1)
             w == u(n)
  <2>4. a[n] = AtMost(w, A) - AtMost(v, A)
    BY <1>2
  <2> HIDE DEF a, A, f, u
  <2>5. SumFunctionOnSet(f, 1..((n - 1) + 1)) = SumFunctionOnSet(f, 1..(n - 1)) + f[(n - 1) + 1]
    <3>1. \A j \in 1..(n - 1) : f[j] \in Int /\ f[j] = f[j]
      BY <2>1, <2>2
    <3>2. f[(n - 1) + 1] \in Int
      BY <2>1, <2>2
    <3> QED BY <2>1, <3>1, <3>2, SumOneMore
  <2>6. v \in Nat
    <3>1. IsFiniteSet(1..(n - 1))
      BY <2>1, FS_Interval
    <3>2. \A j \in 1..(n - 1) : f[j] \in Nat
      BY <2>1, <2>2
    <3>3. SumFunctionOnSet(f, 1..(n - 1)) \in Nat
      BY <3>1, <3>2, SumNat
    <3> QED BY <2>3, <3>3
  <2>7. w = v + f[n]
    BY <2>1, <2>3, <2>5
  <2>8. f[n] \in Nat /\ f[n] <= Rang(picks[n]) /\ (~GroupOf(groups, picks, k, n) => f[n] = 0)
    BY <2>1, <2>2
  <2> DEFINE x == f[n]
  <2>9. x \in Nat /\ w = v + x
    BY <2>7, <2>8
  <2> HIDE DEF v, w, x
  <2>10. AtMost(w, A) - AtMost(v, A) \in Nat /\ AtMost(w, A) - AtMost(v, A) <= x
    BY <1>1, <2>6, <2>9 DEF AtMost
  <2>11. Rang(picks[n]) \in Nat
    BY RangIs
  <2> DEFINE y == AtMost(w, A) - AtMost(v, A)
  <2> HIDE DEF y
  <2>12. y \in Nat /\ y <= x /\ a[n] = y /\ x <= Rang(picks[n]) /\ (~GroupOf(groups, picks, k, n) => x = 0)
    BY <2>4, <2>8, <2>10 DEF y, x
  <2> QED BY <2>9, <2>11, <2>12
<1> HIDE DEF a
<1>4. a \in [DOMAIN picks -> Nat]
  <2>1. \E g : a = [n \in DOMAIN picks |-> g[n]]
    <3> DEFINE g == [n \in DOMAIN picks |-> AtMost(u(n), A) - AtMost(u(n - 1), A)]
    <3>1. a = [n \in DOMAIN picks |-> g[n]]
      BY <1>2
    <3> QED BY <3>1
  <2> QED BY <1>3, <2>1
<1> QED BY <1>3, <1>4 DEF a

(* A sum of naturals of which at most one is not zero is no more than what *)
(* bounds each.                                                            *)
LEMMA SumOfOne ==
    ASSUME NEW n \in Nat, NEW c, NEW r \in Nat,
           \A k \in 1..n : c[k] \in Nat /\ c[k] <= r,
           \A j, k \in 1..n : j # k => c[j] = 0 \/ c[k] = 0
    PROVE  SumFunctionOnSet(c, 1..n) <= r
<1> DEFINE S(m) == SumFunctionOnSet(c, 1..m)
           T == { m \in 0..n : S(m) = 0 \/ \E k \in 1..m : c[k] # 0 /\ S(m) = c[k] }
<1>1. 0 \in T
  <2>1. 1..0 = {}
    OBVIOUS
  <2> QED BY <2>1, SumNothing
<1>2. ASSUME NEW m \in 1..n, m - 1 \in T PROVE m \in T
  <2>1. m - 1 \in Nat /\ (m - 1) + 1 = m /\ m \in 0..n /\ c[m] \in Nat
    OBVIOUS
  <2>2. \A j \in 1..(m - 1) : c[j] \in Int /\ c[j] = c[j]
    OBVIOUS
  <2>3. S((m - 1) + 1) = S(m - 1) + c[(m - 1) + 1]
    BY <2>1, <2>2, SumOneMore
  <2>4. S(m - 1) = 0 \/ \E k \in 1..(m - 1) : c[k] # 0 /\ S(m - 1) = c[k]
    BY <1>2
  <2> HIDE DEF S
  <2>5. CASE S(m - 1) = 0
    <3>1. S(m) = c[m]
      BY <2>1, <2>3, <2>5
    <3> QED BY <2>1, <3>1
  <2>6. CASE \E k \in 1..(m - 1) : c[k] # 0 /\ S(m - 1) = c[k]
    <3>1. PICK k \in 1..(m - 1) : c[k] # 0 /\ S(m - 1) = c[k]
      BY <2>6
    <3>2. k \in 1..n /\ k # m /\ k \in 1..m
      OBVIOUS
    <3>3. c[m] = 0 /\ c[k] \in Nat
      BY <3>1, <3>2
    <3>4. S(m) = c[k]
      BY <2>1, <2>3, <3>1, <3>3
    <3> QED BY <2>1, <3>1, <3>2, <3>4
  <2> QED BY <2>4, <2>5, <2>6
<1> HIDE DEF T
<1>3. n \in T
  <2>1. \A m \in 0..n : m \in T
    BY <1>1, <1>2, Upward
  <2> QED BY <2>1
<1> HIDE DEF S
<1>4. S(n) = 0 \/ \E k \in 1..n : S(n) = c[k]
  BY <1>3 DEF T
<1>5. S(n) <= r
  BY <1>4
<1> QED BY <1>5 DEF S

(* The rows and the columns of a table sum to the same.                    *)
IsTable(n, p, a, rows, cs, cols) ==
    /\ n \in Nat /\ p \in Nat
    /\ \A k \in 1..n : rows[k] = SumFunctionOnSet(a[k], 1..p)
    /\ \A i \in 1..p : cols[i] = SumFunctionOnSet(cs[i], 1..n)
    /\ \A k \in 1..n, i \in 1..p : a[k][i] \in Nat /\ cs[i][k] = a[k][i]

LEMMA RowsAndColumns ==
    ASSUME NEW n, NEW p, NEW a, NEW rows, NEW cs, NEW cols, IsTable(n, p, a, rows, cs, cols)
    PROVE  SumFunctionOnSet(rows, 1..n) = SumFunctionOnSet(cols, 1..p)
<1>a. /\ n \in Nat /\ p \in Nat
      /\ \A k \in 1..n : rows[k] = SumFunctionOnSet(a[k], 1..p)
      /\ \A i \in 1..p : cols[i] = SumFunctionOnSet(cs[i], 1..n)
      /\ \A k \in 1..n, i \in 1..p : a[k][i] \in Nat /\ cs[i][k] = a[k][i]
  BY DEF IsTable
<1> USE <1>a
<1> DEFINE col(i) == cs[i]
           part(m) == [i \in 1..p |-> SumFunctionOnSet(col(i), 1..m)]
           S(m) == SumFunctionOnSet(rows, 1..m)
           C(m) == SumFunctionOnSet(part(m), 1..p)
           T == { m \in 0..n : S(m) = C(m) }
<1>0. IsFiniteSet(1..p) /\ \A m \in 0..n : IsFiniteSet(1..m)
  BY FS_Interval
<1>1. \A i \in 1..p, k \in 1..n : col(i)[k] = a[k][i] /\ col(i)[k] \in Nat
  OBVIOUS
<1>2. \A k \in 1..n : rows[k] \in Int
  <2> TAKE k \in 1..n
  <2>1. \A i \in 1..p : a[k][i] \in Int
    OBVIOUS
  <2> QED BY <1>0, <2>1, SumType
<1> HIDE DEF col
<1>3. ASSUME NEW m \in 0..n, NEW i \in 1..p PROVE part(m)[i] = SumFunctionOnSet(col(i), 1..m) /\ part(m)[i] \in Int
  <2>1. \A k \in 1..m : col(i)[k] \in Int
    BY <1>1
  <2>2. SumFunctionOnSet(col(i), 1..m) \in Int
    BY <1>0, <2>1, SumType
  <2> QED BY <2>2
<1>4. 0 \in T
  <2> DEFINE z == part(0)
  <2>1. 1..0 = {}
    OBVIOUS
  <2>2. \A i \in 1..p : z[i] = 0
    BY <2>1, SumNothing
  <2>3. S(0) = 0
    BY <2>1, SumNothing
  <2> HIDE DEF z, S
  <2>4. \A i \in 1..p : z[i] \in Nat /\ z[i] <= 0
    BY <2>2
  <2>5. SumFunctionOnSet(z, 1..p) \in Nat
    BY <1>0, <2>4, SumNat
  <2>6. SumFunctionOnSet(z, 1..p) <= 0
    BY <2>2, <2>4, SumOfOne
  <2>7. SumFunctionOnSet(z, 1..p) = 0
    BY <2>5, <2>6
  <2>8. C(0) = 0
    BY <2>7 DEF z
  <2> QED BY <2>3, <2>8
<1>5. ASSUME NEW m \in 1..n, m - 1 \in T PROVE m \in T
  <2> DEFINE old == part(m - 1)
             new == part(m)
  <2>1. m - 1 \in Nat /\ m - 1 \in 0..n /\ (m - 1) + 1 = m /\ m \in 0..n
    OBVIOUS
  <2>2. S(m) = S(m - 1) + rows[m]
    <3>1. \A j \in 1..(m - 1) : rows[j] \in Int /\ rows[j] = rows[j]
      BY <1>2
    <3>2. rows[(m - 1) + 1] \in Int
      BY <1>2, <2>1
    <3>3. S((m - 1) + 1) = S(m - 1) + rows[(m - 1) + 1]
      BY <2>1, <3>1, <3>2, SumOneMore
    <3> QED BY <2>1, <3>3
  <2>3. \A i \in 1..p : old[i] \in Int /\ a[m][i] \in Int /\ new[i] = old[i] + a[m][i]
    <3> TAKE i \in 1..p
    <3>0. \A j \in 1..(m - 1) : j \in 1..n
      OBVIOUS
    <3>1. \A j \in 1..(m - 1) : col(i)[j] \in Int /\ col(i)[j] = col(i)[j]
      BY <1>1, <3>0
    <3>2. col(i)[(m - 1) + 1] \in Int /\ col(i)[m] = a[m][i] /\ a[m][i] \in Int
      BY <1>1, <2>1
    <3>3. SumFunctionOnSet(col(i), 1..((m - 1) + 1))
            = SumFunctionOnSet(col(i), 1..(m - 1)) + col(i)[(m - 1) + 1]
      BY <2>1, <3>1, <3>2, SumOneMore
    <3>4. /\ part(m)[i] = SumFunctionOnSet(col(i), 1..m)
          /\ part(m - 1)[i] = SumFunctionOnSet(col(i), 1..(m - 1)) /\ part(m - 1)[i] \in Int
      BY <1>3, <2>1
    <3> HIDE DEF part
    <3> QED BY <2>1, <3>2, <3>3, <3>4
  <2>4. SumFunctionOnSet(new, 1..p) = SumFunctionOnSet(old, 1..p) + SumFunctionOnSet(a[m], 1..p)
    <3> HIDE DEF old, new
    <3> QED BY <1>0, <2>3, SumPlus
  <2>5. S(m - 1) = C(m - 1) /\ rows[m] = SumFunctionOnSet(a[m], 1..p)
    BY <1>5
  <2>6. C(m) = C(m - 1) + rows[m]
    BY <2>4, <2>5
  <2> HIDE DEF S, C, old, new
  <2> QED BY <2>1, <2>2, <2>5, <2>6
<1> HIDE DEF T
<1>6. n \in T
  <2>1. \A m \in 0..n : m \in T
    BY <1>4, <1>5, Upward
  <2> QED BY <2>1
<1>7. S(n) = C(n)
  BY <1>6 DEF T
<1>8. \A i \in 1..p : cols[i] = part(n)[i]
  BY DEF col
<1>9. SumFunctionOnSet(cols, 1..p) = C(n)
  <2> HIDE DEF part
  <2> QED BY <1>0, <1>8, SumSame
<1> QED BY <1>7, <1>9

(* What the pool pays of a staff drink: of each choice once.               *)
LEMMA PaysOnce ==
    ASSUME NEW input \in CompInputs
    PROVE  PaidOnce(input, Comp(input))
<1> DEFINE gs == input.groups
           ps == input.picks
           n == Len(gs)
           p == Len(ps)
           a == [k \in DOMAIN gs |-> Absorbed(gs, ps, k)]
           rows == [k \in 1..n |-> Total(a[k])]
           cols == [i \in 1..p |-> Total([k \in 1..n |-> a[k][i]])]
           cs == [i \in 1..p |-> [k \in 1..n |-> a[k][i]]]
           comp == Comp(input)
<1>1. /\ gs \in Seq(CompGroup) /\ ps \in Seq(CompPick) /\ n \in Nat /\ p \in Nat
      /\ DOMAIN gs = 1..n /\ DOMAIN ps = 1..p /\ input.eligible = TRUE
  <2>1. gs \in Seq(CompGroup) /\ ps \in Seq(CompPick) /\ input.eligible = TRUE
    BY DEF CompInputs
  <2> HIDE DEF gs, ps
  <2> QED BY <2>1
<1>2. comp.groups = rows /\ comp.picks = cols
  <2>1. DOMAIN a = 1..n
    BY <1>1
  <2>2. /\ comp.groups = [k \in DOMAIN a |-> Total(a[k])]
        /\ comp.picks = [i \in DOMAIN input.picks |->
                            IF ~input.eligible THEN 0 ELSE Total([k \in DOMAIN a |-> a[k][i]])]
    BY DEF Comp, CompOf, PerUnit
  <2> HIDE DEF a, comp
  <2> QED BY <1>1, <2>1, <2>2
<1>3. \A k \in 1..n : /\ a[k] \in [1..p -> Nat]
                      /\ \A i \in 1..p : a[k][i] <= Rang(ps[i]) /\ (~GroupOf(gs, ps, k, i) => a[k][i] = 0)
  <2> TAKE k \in 1..n
  <2>1. gs[k] \in CompGroup
    BY <1>1
  <2> HIDE DEF gs, ps
  <2>2. /\ Absorbed(gs, ps, k) \in [DOMAIN ps -> Nat]
        /\ \A i \in DOMAIN ps : /\ Absorbed(gs, ps, k)[i] <= Rang(ps[i])
                                /\ ~GroupOf(gs, ps, k, i) => Absorbed(gs, ps, k)[i] = 0
    BY <1>1, <2>1, AbsorbedIs
  <2>3. a[k] = Absorbed(gs, ps, k)
    BY <1>1
  <2> QED BY <1>1, <2>2, <2>3
<1>4. \A i \in 1..p : \A j, k \in 1..n : j # k => ~GroupOf(gs, ps, j, i) \/ ~GroupOf(gs, ps, k, i)
  <2> TAKE i \in 1..p
  <2> TAKE j, k \in 1..n
  <2> SUFFICES ASSUME j # k, GroupOf(gs, ps, j, i), GroupOf(gs, ps, k, i) PROVE FALSE
    OBVIOUS
  <2> HIDE DEF gs, ps
  <2>1. j \in 1..(k - 1) \/ k \in 1..(j - 1)
    BY <1>1
  <2> QED BY <2>1 DEF GroupOf
<1> HIDE DEF a, gs, ps, n, p, comp
<1>5. \A i \in 1..p : /\ cols[i] = SumFunctionOnSet([k \in 1..n |-> a[k][i]], 1..n)
                      /\ cols[i] \in Int /\ cols[i] <= Rang(ps[i])
  <2> TAKE i \in 1..p
  <2> DEFINE c == [k \in 1..n |-> a[k][i]]
             r == Rang(ps[i])
  <2>1. c \in [1..n -> Int] /\ \A k \in 1..n : c[k] = a[k][i] /\ c[k] \in Nat /\ c[k] <= r
    <3>1. \A k \in 1..n : a[k][i] \in Nat /\ a[k][i] <= r
      BY <1>3
    <3> HIDE DEF r
    <3> QED BY <3>1
  <2>2. \A j, k \in 1..n : j # k => c[j] = 0 \/ c[k] = 0
    <3> TAKE j, k \in 1..n
    <3>1. ~GroupOf(gs, ps, j, i) => c[j] = 0
      BY <1>3
    <3>2. ~GroupOf(gs, ps, k, i) => c[k] = 0
      BY <1>3
    <3>3. j # k => ~GroupOf(gs, ps, j, i) \/ ~GroupOf(gs, ps, k, i)
      BY <1>4
    <3> QED BY <3>1, <3>2, <3>3
  <2>3. r \in Nat
    BY <1>1, RangIs
  <2>4. cols[i] = Total(c)
    OBVIOUS
  <2> HIDE DEF c, r, cols
  <2>5. Total(c) = SumFunctionOnSet(c, 1..n) /\ Total(c) \in Int
    BY <1>1, <2>1, TotalIs
  <2>6. SumFunctionOnSet(c, 1..n) <= r
    BY <1>1, <2>1, <2>2, <2>3, SumOfOne
  <2>7. cols[i] = SumFunctionOnSet(c, 1..n) /\ cols[i] \in Int /\ cols[i] <= r
    BY <2>4, <2>5, <2>6
  <2> QED BY <2>7 DEF c, r
<1>6. \A k \in 1..n : rows[k] = SumFunctionOnSet(a[k], 1..p) /\ rows[k] \in Int
  <2> TAKE k \in 1..n
  <2>1. a[k] \in [1..p -> Int]
    BY <1>3
  <2>2. Total(a[k]) = SumFunctionOnSet(a[k], 1..p) /\ Total(a[k]) \in Int
    BY <1>1, <2>1, TotalIs
  <2> QED BY <2>2
<1>7. rows \in [1..n -> Int] /\ cols \in [1..p -> Int] /\ DOMAIN cols = 1..p
  <2>1. rows \in [1..n -> Int]
    BY <1>6
  <2>2. cols \in [1..p -> Int]
    BY <1>5
  <2> QED BY <2>1, <2>2
<1> HIDE DEF rows, cols
<1>8. SumFunctionOnSet(rows, 1..n) = SumFunctionOnSet(cols, 1..p)
  <2>1. \A k \in 1..n, i \in 1..p : a[k][i] \in Nat
    BY <1>3
  <2>2. \A k \in 1..n : rows[k] = SumFunctionOnSet(a[k], 1..p)
    BY <1>6
  <2>3. \A i \in 1..p, k \in 1..n : cs[i][k] = a[k][i]
    OBVIOUS
  <2>4. \A i \in 1..p : cols[i] = SumFunctionOnSet(cs[i], 1..n)
    BY <1>5
  <2> HIDE DEF cs
  <2>5. IsTable(n, p, a, rows, cs, cols)
    BY <1>1, <2>1, <2>2, <2>3, <2>4 DEF IsTable
  <2> QED BY <2>5, RowsAndColumns
<1>9. Total(rows) = SumFunctionOnSet(rows, 1..n) /\ Total(cols) = SumFunctionOnSet(cols, 1..p)
  BY <1>1, <1>7, TotalIs
<1>10. Total(cols) = Total(rows)
  BY <1>8, <1>9
<1>11. \A i \in DOMAIN input.picks : comp.picks[i] <= Rang(input.picks[i])
  <2>1. \A i \in DOMAIN ps : cols[i] <= Rang(ps[i])
    BY <1>1, <1>5
  <2> QED BY <1>2, <2>1 DEF ps
<1> QED BY <1>2, <1>10, <1>11 DEF PaidOnce, comp

-----------------------------------------------------------------------------
(* The cart's lines.                                                       *)
ChargedOption ==
    [id : STRING, quantity : Nat, price : Nat, slug : Or(STRING), isBase : BOOLEAN,
     replacement : Or(STRING)]

AsPick(p) == [option |-> p.id, price |-> p.price, quantity |-> p.quantity]

AsPicks(list) ==
    Each(list, LAMBDA p : [option |-> p.id, price |-> p.price, quantity |-> p.quantity])

LEMMA PicksOf ==
    ASSUME NEW list \in Seq(ChargedOption)
    PROVE  AsPicks(list) = [k \in 1..Len(list) |-> AsPick(list[k])]
<1> DEFINE n == Len(list)
           S == { AsPick(list[k]) : k \in 1..n }
           img == [k \in 1..n |-> AsPick(list[k])]
<1>1. AsPicks(list) = Picking!Folded(None, None, None, <<>>, list)
  BY DEF AsPicks, Each, FoldLeft, MapThenFoldSet, Max, Picking!Folded, Picking!IsFolder, Picking!Max
<1>2. PICK run : Picking!IsRun(None, None, None, <<>>, list, run) /\ AsPicks(list) = run[n]
  BY <1>1, Picking!FoldIsRun
<1>3. run[0] = <<>> /\ \A k \in 1..n : run[k] = Append(run[k - 1], AsPick(list[k]))
  BY <1>2 DEF Picking!IsRun, AsPick
<1>4. n \in Nat /\ img \in [1..n -> S] /\ \A k \in 1..n : run[k] = Append(run[k - 1], img[k])
  BY <1>3
<1> HIDE DEF img, S, n
<1>5. run[n] = img
  BY <1>3, <1>4, RunLists
<1> QED BY <1>2, <1>5 DEF img, n

(* What the options add to a unit is what the picks of its comp rang at.   *)
OptionsSum(list) == FoldLeft(LAMBDA sum, a : sum + a.price * a.quantity, 0, list)

RangOf(picks) == Total([n \in DOMAIN picks |-> Rang(picks[n])])

LEMMA OptionsRing ==
    ASSUME NEW list \in Seq(ChargedOption)
    PROVE  OptionsSum(list) = RangOf(AsPicks(list)) /\ OptionsSum(list) \in Int
<1> DEFINE n == Len(list)
           f == [k \in 1..n |-> Rang(AsPick(list[k]))]
<1>1. OptionsSum(list) = Charging!Folded(None, None, None, 0, list)
  BY DEF OptionsSum, FoldLeft, MapThenFoldSet, Max, Charging!Folded, Charging!IsFolder, Charging!Max
<1>2. PICK run : Charging!IsRun(None, None, None, 0, list, run) /\ OptionsSum(list) = run[n]
  BY <1>1, Charging!FoldIsRun
<1>3. run[0] = 0 /\ \A k \in 1..n : run[k] = run[k - 1] + list[k].price * list[k].quantity
  BY <1>2 DEF Charging!IsRun
<1>4. \A k \in 1..n : f[k] = list[k].price * list[k].quantity /\ f[k] \in Int
  <2> TAKE k \in 1..n
  <2> DEFINE p == list[k].price
             q == list[k].quantity
  <2>1. list[k] \in ChargedOption
    OBVIOUS
  <2>2. p \in Nat /\ q \in Nat
    BY <2>1 DEF ChargedOption
  <2>3. AsPick(list[k]).price = p /\ AsPick(list[k]).quantity = q
    BY DEF AsPick
  <2>4. f[k] = NonNegative(p) * NonNegative(q)
    BY <2>3 DEF Rang
  <2>5. NonNegative(p) = p /\ NonNegative(q) = q
    BY <2>2 DEF NonNegative
  <2> HIDE DEF p, q, f
  <2>6. f[k] = p * q /\ p * q \in Int
    BY <2>2, <2>4, <2>5
  <2> QED BY <2>6 DEF p, q
<1>5. n \in Nat /\ f \in [1..n -> Int]
  BY <1>4
<1>6. RangOf(AsPicks(list)) = Total(f)
  <2> DEFINE ps == AsPicks(list)
  <2>1. ps = [k \in 1..n |-> AsPick(list[k])]
    BY PicksOf
  <2> HIDE DEF ps
  <2>2. DOMAIN ps = 1..n /\ \A k \in 1..n : ps[k] = AsPick(list[k])
    BY <2>1
  <2>3. [k \in DOMAIN ps |-> Rang(ps[k])] = f
    BY <2>2
  <2> QED BY <2>3 DEF RangOf, ps
<1> HIDE DEF f, n
<1>7. Total(f) = SumFunctionOnSet(f, 1..n) /\ Total(f) \in Int
  BY <1>5, TotalIs
<1>8. \A k \in 1..n : f[k] \in Int /\ run[k] = run[k - 1] + f[k]
  BY <1>3, <1>4
<1>9. \A k \in 0..n : run[k] = SumFunctionOnSet(f, 1..k)
  BY <1>3, <1>5, <1>8, RunSums
<1>10. run[n] = SumFunctionOnSet(f, 1..n)
  BY <1>5, <1>9
<1> QED BY <1>2, <1>6, <1>7, <1>10

(* What a staff line's comp takes is what of the line is free.             *)
LEMMA CompTakes ==
    ASSUME NEW input \in CompInputs, NEW normal \in Nat,
           normal = input.unit + RangOf(input.picks) + input.optionals
    PROVE  /\ Comp(input).lineComp \in Int
           /\ Comp(input).lineComp <= normal * input.quantity
<1> DEFINE a == [k \in DOMAIN input.groups |-> Absorbed(input.groups, input.picks, k)]
           unit == NonNegative(input.unit)
           whole == unit + Total([n \in DOMAIN input.picks |-> Rang(input.picks[n])])
                         + NonNegative(input.optionals)
           size == FreeSize(input.sizes, unit)
           groups == Total([k \in DOMAIN a |-> Total(a[k])])
           free == AtMost(AtMost(size, unit) + groups, whole)
           q == input.quantity
<1>1. /\ input.unit \in Nat /\ input.optionals \in Nat /\ q \in Nat /\ input.eligible = TRUE
      /\ input.sizes \in Seq(CompSize) /\ input.picks \in Seq(CompPick) /\ input.groups \in Seq(CompGroup)
  BY DEF CompInputs
<1>2. unit = input.unit /\ NonNegative(input.optionals) = input.optionals /\ NonNegative(q) = q
  BY <1>1 DEF NonNegative
<1>3. whole = normal
  BY <1>2 DEF RangOf
<1>4. Comp(input).lineComp = free * q
  <2> HIDE DEF a
  <2>1. Comp(input).lineComp = free * NonNegative(input.quantity)
    BY <1>1 DEF Comp, CompOf, PerUnit, a
  <2> HIDE DEF free
  <2> QED BY <1>2, <2>1
<1> HIDE DEF unit, whole, q
<1>5. size \in Int
  <2> DEFINE S == { PriceOf(input.sizes[n]) :
                       n \in { m \in DOMAIN input.sizes : input.sizes[m].active } }
  <2>1. \A n \in DOMAIN input.sizes : PriceOf(input.sizes[n]) \in Nat
    <3> TAKE n \in DOMAIN input.sizes
    <3>1. input.sizes[n] \in CompSize
      BY <1>1
    <3>2. input.sizes[n].branchPrice \in Or(Int) /\ input.sizes[n].price \in Int
      BY <3>1 DEF CompSize
    <3> QED BY <3>2, PriceOfIs
  <2>2. S \in SUBSET Nat
    BY <2>1
  <2>3. size = unit \/ (S # {} /\ size = Lowest(S))
    BY DEF FreeSize
  <2> HIDE DEF S, size
  <2>4. S # {} => Lowest(S) \in Nat
    BY <2>2, LowestIs
  <2> QED BY <1>1, <1>2, <2>3, <2>4
<1>6. groups \in Int
  <2> DEFINE n == Len(input.groups)
             rows == [k \in DOMAIN a |-> Total(a[k])]
             p == Len(input.picks)
  <2>1. n \in Nat /\ DOMAIN a = 1..n /\ DOMAIN input.picks = 1..p /\ p \in Nat
    BY <1>1
  <2>2. \A k \in 1..n : Total(a[k]) \in Int
    <3> TAKE k \in 1..n
    <3>1. input.groups[k] \in CompGroup
      BY <1>1
    <3>2. a[k] = Absorbed(input.groups, input.picks, k)
      BY <2>1
    <3> HIDE DEF a
    <3>3. a[k] \in [DOMAIN input.picks -> Nat]
      BY <1>1, <3>1, <3>2, AbsorbedIs
    <3>4. a[k] \in [1..p -> Int]
      BY <2>1, <3>3
    <3> HIDE DEF p
    <3> QED BY <2>1, <3>4, TotalIs
  <2> HIDE DEF a, n
  <2>3. rows \in [1..n -> Int]
    BY <2>1, <2>2
  <2> HIDE DEF rows
  <2>4. Total(rows) \in Int
    BY <2>1, <2>3, TotalIs
  <2> QED BY <2>4 DEF rows
<1> HIDE DEF size, groups
<1>7. free \in Int /\ free <= normal
  BY <1>1, <1>2, <1>3, <1>5, <1>6 DEF AtMost
<1> HIDE DEF free
<1>8. q \in Nat
  BY <1>1 DEF q
<1>9. free * q \in Int /\ free * q <= normal * q
  BY <1>7, <1>8
<1> QED BY <1>4, <1>9 DEF q

(* What the till charges a unit of an item is what the comp calls normal.  *)
ItemIsWhole(view, selection) ==
    LET priced == PriceOptions(view, selection)
    IN  /\ UnitPrice(view.item, selection.size) \in Nat
        /\ priced.options \in Seq(ChargedOption) /\ priced.optionalTotal \in Nat

LEMMA UnitIsNormal ==
    ASSUME NEW view, NEW selection, ItemIsWhole(view, selection)
    PROVE  LET priced == PriceOptions(view, selection)
           IN  TillItemUnit(view, selection)
                   = UnitPrice(view.item, selection.size) + RangOf(AsPicks(priced.options))
                         + priced.optionalTotal
<1> DEFINE unit == UnitPrice(view.item, selection.size)
           options == PriceOptions(view, selection).options
           more == PriceOptions(view, selection).optionalTotal
           last == <<more>>
           added == FoldLeft(LAMBDA sum, p : sum + p, 0, last)
<1>1. unit \in Nat /\ options \in Seq(ChargedOption) /\ more \in Nat
  BY DEF ItemIsWhole
<1>2. TillItemUnit(view, selection) = (unit + (OptionsSum(options) + added)) * 1
  BY DEF TillItemUnit, ItemUnit, LineTotal, ExtrasPerUnit, OptionsSum
<1> HIDE DEF unit, options, more, added
<1>3. OptionsSum(options) = RangOf(AsPicks(options)) /\ OptionsSum(options) \in Int
  BY <1>1, OptionsRing
<1>4. last \in Seq(Nat) /\ Len(last) = 1 /\ last[1] = more
  BY <1>1
<1>5. added = Adding!Folded(None, None, None, 0, last)
  BY DEF added, FoldLeft, MapThenFoldSet, Max, Adding!Folded, Adding!IsFolder, Adding!Max
<1> HIDE DEF last
<1>6. PICK run : Adding!IsRun(None, None, None, 0, last, run) /\ added = run[1]
  <2>1. last \in Seq(Nat)
    BY <1>4
  <2>2. PICK run : /\ Adding!IsRun(None, None, None, 0, last, run)
                   /\ Adding!Folded(None, None, None, 0, last) = run[Len(last)]
    BY <2>1, Adding!FoldIsRun, Zenon
  <2> QED BY <1>4, <1>5, <2>2, Zenon
<1>7. run[0] = 0 /\ run[1] = run[0] + more
  BY <1>4, <1>6 DEF Adding!IsRun
<1>8. added = more
  BY <1>1, <1>6, <1>7
<1>9. TillItemUnit(view, selection) = unit + RangOf(AsPicks(options)) + more
  BY <1>1, <1>2, <1>3, <1>8
<1> QED BY <1>9 DEF unit, options, more

(* The figures of a line as the till has them are whole piastres.          *)
StaffIsWhole(line) ==
    /\ line.kind = "item" /\ ItemIsWhole(TillView(line.item), line.selection)
    /\ StaffInput(line, "till") \in CompInputs

WholeLine(line) ==
    /\ line.quantity \in Nat /\ TillUnit(line) \in Nat
    /\ line.staff => StaffIsWhole(line)

WholeFigures == \A n \in DOMAIN cart : WholeLine(cart[n])

LEMMA StaffCompFits ==
    ASSUME NEW line, StaffIsWhole(line), TillUnit(line) \in Nat
    PROVE  /\ Comp(StaffInput(line, "till")).lineComp \in Int
           /\ Comp(StaffInput(line, "till")).lineComp <= TillUnit(line) * line.quantity
<1> DEFINE view == TillView(line.item)
           input == StaffInput(line, "till")
           priced == PriceOptions(view, line.selection)
           normal == TillUnit(line)
<1>1. line.kind = "item" /\ ItemIsWhole(view, line.selection) /\ input \in CompInputs
  BY DEF StaffIsWhole
<1>2. normal = TillItemUnit(view, line.selection)
  BY <1>1 DEF TillUnit
<1>3. /\ input.unit = UnitPrice(view.item, line.selection.size)
      /\ input.picks = AsPicks(priced.options)
      /\ input.optionals = priced.optionalTotal /\ input.quantity = line.quantity
  BY DEF StaffInput, StaffInputOver, StaffInputOf, CompInput, View, AsPicks
<1> HIDE DEF view, input, normal
<1>4. normal = input.unit + RangOf(input.picks) + input.optionals
  BY <1>1, <1>2, <1>3, UnitIsNormal
<1>5. normal \in Nat
  BY DEF normal
<1>6. Comp(input).lineComp \in Int /\ Comp(input).lineComp <= normal * input.quantity
  BY <1>1, <1>4, <1>5, CompTakes
<1> QED BY <1>3, <1>6 DEF input, normal

LEMMA BilledIsWhole ==
    ASSUME NEW line, WholeLine(line), line.reward \in Int
    PROVE  LineIsWhole(BillLine(line, TillUnit(line), "till"))
<1> DEFINE unit == TillUnit(line)
           comp == Comp(StaffInput(line, "till")).lineComp
           l == BillLine(line, unit, "till")
           q == line.quantity
<1>1. unit \in Nat /\ q \in Nat /\ (line.staff => StaffIsWhole(line))
  BY DEF WholeLine
<1>2. line.staff => comp \in Int /\ comp <= unit * q
  BY <1>1, StaffCompFits
<1>3. /\ l.charged = unit * q /\ l.perUnit = unit /\ l.rewardUnits = line.reward
      /\ l.comp = IF line.staff THEN comp ELSE 0
  BY DEF BillLine
<1> HIDE DEF unit, comp, l, q
<1>4. unit * q \in Nat
  BY <1>1
<1>5. l.charged \in Nat /\ l.perUnit \in Int /\ l.rewardUnits \in Int /\ l.comp \in Int /\ l.comp <= l.charged
  BY <1>1, <1>2, <1>3, <1>4
<1> QED BY <1>5 DEF LineIsWhole, l, unit

LEMMA TillLinesAre ==
    ASSUME NEW A, cart \in Seq(A)
    PROVE  TillLines = [k \in 1..Len(cart) |-> BillLine(cart[k], TillUnit(cart[k]), "till")]
<1> DEFINE n == Len(cart)
           S == { BillLine(cart[k], TillUnit(cart[k]), "till") : k \in 1..n }
           img == [k \in 1..n |-> BillLine(cart[k], TillUnit(cart[k]), "till")]
<1>1. TillLines = Listing!Folded(None, None, None, <<>>, cart)
  BY DEF TillLines, Each, FoldLeft, MapThenFoldSet, Max, Listing!Folded, Listing!IsFolder, Listing!Max
<1>2. PICK run : Listing!IsRun(None, None, None, <<>>, cart, run) /\ TillLines = run[n]
  BY <1>1, Listing!FoldIsRun
<1>3. run[0] = <<>> /\ \A k \in 1..n : run[k] = Append(run[k - 1], BillLine(cart[k], TillUnit(cart[k]), "till"))
  BY <1>2 DEF Listing!IsRun
<1>4. n \in Nat /\ img \in [1..n -> S] /\ \A k \in 1..n : run[k] = Append(run[k - 1], img[k])
  BY <1>3
<1> HIDE DEF img, S, n
<1>5. run[n] = img
  BY <1>3, <1>4, RunLists
<1> QED BY <1>2, <1>5 DEF img, n

(* The cart is lines on sale, under the terms of a sale.                   *)
CartInv == terms \in Terms /\ cart \in Seq(Sellable)

LEMMA CartInvariance == SaleSpec => []CartInv
<1>1. SaleInit => CartInv
  BY DEF SaleInit, CartInv
<1>2. CartInv /\ [SaleNext]_allVars => CartInv'
  <2> SUFFICES ASSUME CartInv, [SaleNext]_allVars PROVE CartInv'
    OBVIOUS
  <2> USE DEF CartInv
  <2>1. ASSUME NEW line \in Sellable, RingLine(line) PROVE CartInv'
    <3>1. cart' = Append(cart, line) /\ terms' = terms
      BY <2>1 DEF RingLine
    <3>2. cart' \in Seq(Sellable)
      BY <3>1, AppendProperties
    <3> QED BY <3>1, <3>2
  <2>2. CASE EditCatalogue \/ PullItems \/ PullAddOns \/ Refund \/ UNCHANGED allVars
    <3>1. cart' = cart /\ terms' = terms
      BY <2>2 DEF EditCatalogue, PullItems, PullAddOns, Refund, saleVars, allVars
    <3> QED BY <3>1
  <2>3. ASSUME NEW id, NEW price, EditAddOn(id, price) PROVE CartInv'
    BY <2>3 DEF EditAddOn
  <2>4. ASSUME NEW discount, Settle(discount) PROVE CartInv'
    BY <2>4 DEF Settle, Book
  <2> QED BY <2>1, <2>2, <2>3, <2>4 DEF SaleNext
<1> QED BY <1>1, <1>2, PTL DEF SaleSpec

LEMMA WholeBillAddsUp == CartInv /\ WholeFigures => BillAddsUp
<1> SUFFICES ASSUME CartInv, WholeFigures PROVE BillAddsUp
  OBVIOUS
<1> DEFINE n == Len(cart)
           lines == TillLines
<1>1. n \in Nat /\ DOMAIN cart = 1..n /\ cart \in Seq(Sellable) /\ terms \in Terms
  BY DEF CartInv
<1>2. \A k \in 1..n : WholeLine(cart[k])
  BY <1>1 DEF WholeFigures
<1>3. lines = [k \in 1..n |-> BillLine(cart[k], TillUnit(cart[k]), "till")]
  BY <1>1, TillLinesAre
<1> HIDE DEF lines
<1>4. \A k \in 1..n : LineIsWhole(lines[k])
  <2> TAKE k \in 1..n
  <2>1. cart[k] \in Sellable
    BY <1>1
  <2>2. IsLine(cart[k])
    BY <2>1, SaleAssumption
  <2>3. cart[k].reward \in Int
    BY <2>2 DEF IsLine
  <2>4. LineIsWhole(BillLine(cart[k], TillUnit(cart[k]), "till"))
    BY <1>2, <2>3, BilledIsWhole
  <2> QED BY <1>3, <2>4
<1>5. lines \in [1..n -> { lines[k] : k \in 1..n }]
  BY <1>3
<1> HIDE DEF n
<1>6. LinesAreWhole(lines, n)
  BY <1>1, <1>4, <1>5 DEF LinesAreWhole
<1>7. LinesBillAddsUp(lines)
  BY <1>1, <1>6, BillAdds DEF LinesBillAddsUp
<1>8. \A k \in DOMAIN cart : cart[k].staff => StaffLinePaidOnce(StaffInput(cart[k], "till"))
  <2> TAKE k \in DOMAIN cart
  <2> DEFINE input == StaffInput(cart[k], "till")
  <2>1. cart[k].staff => input \in CompInputs
    BY <1>1, <1>2 DEF WholeLine, StaffIsWhole
  <2> HIDE DEF input
  <2>2. cart[k].staff => PaidOnce(input, Comp(input))
    BY <2>1, PaysOnce
  <2> QED BY <2>2 DEF input, StaffLinePaidOnce
<1> QED BY <1>7, <1>8 DEF BillAddsUp, lines

(* BillAddsUp: no bill of a menu is refused or drifts from what it was     *)
(* made of, whatever the comp, the reward, the discount and the policy     *)
(* take and add, and however it is paid (bill.rs, tax/mod.rs,              *)
(* staff_comp.rs), for every menu, cart, terms and discount whose lines    *)
(* come to whole amounts of piastres.                                      *)
THEOREM BillAlwaysAddsUp == SaleSpec /\ []WholeFigures => []BillAddsUp
<1> QED BY CartInvariance, WholeBillAddsUp, PTL
===============================================================================
