------------------------------ MODULE TillProofs ------------------------------
(***************************************************************************)
(* A till's drawer and its lists, for every till and sale (TillClose).     *)
(*                                                                         *)
(* The drawer: the box holds what was rung, moved and given back; a frozen *)
(* figure is its sales, movements and refunds, and what it is short of the *)
(* box is the rest; the sales of the one a page brought are sales the      *)
(* device then knows have landed, so adding the others counts none twice.  *)
(*                                                                         *)
(* The lists: a sum over legs cut by method, by sale and by person is one  *)
(* sum; a correction's target is there, under one of its names.            *)
(*                                                                         *)
(* The close: the entries that are not cash are listed or not; the listed, *)
(* regrouped by their methods, are one line a method; the cash line is the *)
(* figure; so the lines stored are all the till's money but the unlisted.  *)
(***************************************************************************)
EXTENDS TillClose, FoldFacts, TLAPS

-----------------------------------------------------------------------------
(* What entries, or lines of another kind with amounts, add up to.         *)
AmountIn(S) == [e \in S |-> e.amount]
SumOf(S) == SumFunctionOnSet(AmountIn(S), S)

NotCash(S) == { e \in S : ~e.cash }

(* A sum over a part may be taken over the whole's amounts.                *)
LEMMA PartOfWhole ==
    ASSUME NEW S, NEW P \in SUBSET S, IsFiniteSet(P), \A e \in P : e.amount \in Int
    PROVE  SumOf(P) = SumFunctionOnSet(AmountIn(S), P) /\ SumOf(P) \in Int
<1> DEFINE f == AmountIn(S)
           g == AmountIn(P)
<1>1. \A e \in P : f[e] = g[e] /\ g[e] \in Int
  BY DEF AmountIn
<1> HIDE DEF f, g
<1>2. SumFunctionOnSet(f, P) = SumFunctionOnSet(g, P)
  BY <1>1, SumSame
<1>3. SumFunctionOnSet(g, P) \in Int
  BY <1>1, SumType
<1> QED BY <1>2, <1>3 DEF SumOf, f, g

(* Two parts that share nothing.                                           *)
LEMMA TwoParts ==
    ASSUME NEW A, NEW B, IsFiniteSet(A), IsFiniteSet(B), A \intersect B = {},
           \A e \in A \union B : e.amount \in Int
    PROVE  SumOf(A \union B) = SumOf(A) + SumOf(B) /\ SumOf(A) \in Int /\ SumOf(B) \in Int
<1> DEFINE S == A \union B
<1>1. SumOf(A) = SumFunctionOnSet(AmountIn(S), A) /\ SumOf(A) \in Int
  BY PartOfWhole
<1>2. SumOf(B) = SumFunctionOnSet(AmountIn(S), B) /\ SumOf(B) \in Int
  BY PartOfWhole
<1>3. \A e \in A \union B : AmountIn(S)[e] \in Int
  BY DEF AmountIn
<1>4. SumFunctionOnSet(AmountIn(S), A \union B)
        = SumFunctionOnSet(AmountIn(S), A) + SumFunctionOnSet(AmountIn(S), B)
  <2> DEFINE f == AmountIn(S)
  <2>1. \A e \in A \union B : f[e] \in Int
    BY <1>3
  <2> HIDE DEF f
  <2> QED BY <2>1, SumApart DEF f
<1> QED BY <1>1, <1>2, <1>4 DEF SumOf

LEMMA OneAmount ==
    ASSUME NEW e, e.amount \in Int
    PROVE  IsFiniteSet({e}) /\ SumOf({e}) = e.amount
<1> DEFINE f == AmountIn({e})
<1>1. f[e] = e.amount /\ \A d \in {} \union {e} : f[d] \in Int
  BY DEF AmountIn
<1>2. IsFiniteSet({}) /\ IsFiniteSet({e}) /\ e \notin {}
  BY FS_EmptySet, FS_Singleton
<1> HIDE DEF f
<1>3. SumFunctionOnSet(f, {} \union {e}) = SumFunctionOnSet(f, {}) + f[e]
  BY <1>1, <1>2, SumWith
<1>4. SumFunctionOnSet(f, {}) = 0 /\ {} \union {e} = {e}
  BY SumNothing
<1> QED BY <1>1, <1>2, <1>3, <1>4 DEF SumOf, f

LEMMA SumOne ==
    ASSUME NEW g, NEW x, g[x] \in Int
    PROVE  IsFiniteSet({x}) /\ SumFunctionOnSet(g, {x}) = g[x]
<1>1. IsFiniteSet({}) /\ IsFiniteSet({x}) /\ x \notin {} /\ \A y \in {} \union {x} : g[y] \in Int
  BY FS_EmptySet, FS_Singleton
<1>2. SumFunctionOnSet(g, {} \union {x}) = SumFunctionOnSet(g, {}) + g[x]
  BY <1>1, SumWith
<1>3. SumFunctionOnSet(g, {}) = 0 /\ {} \union {x} = {x}
  BY SumNothing
<1> QED BY <1>1, <1>2, <1>3

LEMMA NoAmount == SumOf({}) = 0
BY SumNothing DEF SumOf

-----------------------------------------------------------------------------
(* The drawer.                                                             *)

USE TillAssumption

Row == SaleRow({"completed", "voided"})

(* The sales a copy holds, those of them tendered, and the cash of each.   *)
Held(copy) == { k \in Keys : copy[k] # NoSale }
TenderedIn(copy) == { k \in Held(copy) : Tendered(copy[k]) }
CashOf(copy) == [k \in Keys |-> IF copy[k] = NoSale THEN 0 ELSE CashIn(copy[k])]
Cash(copy, K) == SumFunctionOnSet(CashOf(copy), K)

CopyOK(copy) ==
    /\ copy \in [Keys -> Row \union {NoSale}]
    /\ IsFiniteSet(Held(copy))
    /\ \A k \in Held(copy) : copy[k].key = k

(* Movements, one to a key, and those some keys name; refunds.             *)
RowsOK(rows) ==
    /\ rows \subseteq MoveRow /\ IsFiniteSet(rows)
    /\ \A m, n \in rows : m.key = n.key => m = n
KeysIn(rows) == { m.key : m \in rows }
Keyed(rows, K) == { m \in rows : m.key \in K }
GivenOK(given) == IsFiniteSet(given) /\ given \subseteq RefundKinds
CashRefunds(given) == { r \in given : r.cash }

(* What a device with these rows should have in the drawer.                *)
BoxOf(copy, rows, given) ==
    Opening + Cash(copy, TenderedIn(copy)) + SumOf(rows) - SumOf(CashRefunds(given))

(* A figure is made of some of the rows, and its cash is theirs.           *)
FigureOn(f, copy, rows, given) ==
    /\ f.sales \subseteq Held(copy) /\ f.moves \subseteq KeysIn(rows) /\ f.refunds \subseteq given
    /\ f.cash = Opening + Cash(copy, f.sales) + SumOf(Keyed(rows, f.moves))
                  - SumOf(CashRefunds(f.refunds))

(* What it leaves out but for sales not in it.                             *)
Short(f, copy, rows, given) ==
    SumOf({ m \in rows : m.key \notin f.moves }) - SumOf(CashRefunds(given \ f.refunds))
      - Cash(copy, f.sales \ TenderedIn(copy))

(* A sale as it was sent, its void after it; the server's copy of a till's.*)
Sent(o) == [o EXCEPT !.status = "completed"]
Mirrors(copy, till) ==
    \A k \in Held(copy) : k \in Held(till) /\ copy[k] \in {till[k], Sent(till[k])}

(* It has the sales landed that are not voided, and only sales landed.     *)
Covers(f, till, copy) ==
    (TenderedIn(till) \intersect Held(copy)) \subseteq f.sales /\ f.sales \subseteq Held(copy)

LEMMA NoSaleIsNoRow == NoSale \notin Row
BY DEF Row, SaleRow, NoSale

LEMMA ImageFinite ==
    ASSUME NEW S, IsFiniteSet(S), NEW f
    PROVE  IsFiniteSet({ f[x] : x \in S })
<1> DEFINE h == [x \in S |-> f[x]]
           T == { f[x] : x \in S }
<1>1. h \in Surjection(S, T)
  BY DEF Surjection
<1> HIDE DEF h, T
<1>2. IsFiniteSet(T)
  BY <1>1, FS_Surjection
<1> QED BY <1>2 DEF T

LEMMA LegsAre ==
    ASSUME NEW o \in Row
    PROVE  /\ IsFiniteSet(DOMAIN o.legs) /\ o.tip \in Nat
           /\ \A k \in DOMAIN o.legs : o.legs[k] \in LegRow /\ o.legs[k].amount \in Nat
<1>1. o.legs \in Seq(LegRow) /\ o.tip \in Nat
  BY DEF Row, SaleRow
<1>2. DOMAIN o.legs = 1..Len(o.legs) /\ Len(o.legs) \in Nat
  BY <1>1
<1>3. IsFiniteSet(1..Len(o.legs))
  BY <1>2, FS_Interval
<1>4. \A k \in DOMAIN o.legs : o.legs[k] \in LegRow
  BY <1>1
<1> QED BY <1>1, <1>2, <1>3, <1>4 DEF LegRow

(* The cash of a row is its legs' and its tip's.                           *)
LEMMA CashSame ==
    ASSUME NEW o, NEW q, q.legs = o.legs, q.tip = o.tip, q.tipMethod = o.tipMethod,
           q.tipIsCash = o.tipIsCash, q.paymentMethod = o.paymentMethod
    PROVE  CashIn(q) = CashIn(o)
BY DEF CashIn, TipCash, TipMethod

LEMMA CashIsNat == ASSUME NEW o \in Row PROVE CashIn(o) \in Nat
<1> DEFINE K == { k \in DOMAIN o.legs : o.legs[k].cash }
           g == [k \in K |-> o.legs[k].amount]
<1>1. IsFiniteSet(K) /\ \A k \in K : g[k] \in Nat
  BY LegsAre, FS_Subset
<1>2. CashLegs(o.legs) = SumFunctionOnSet(g, K) /\ o.tip \in Nat
  BY LegsAre DEF CashLegs, LegSum
<1> HIDE DEF g, K
<1>3. SumFunctionOnSet(g, K) \in Nat
  BY <1>1, SumNat
<1> QED BY <1>2, <1>3 DEF CashIn

(* A row with another status, or key, has the same cash.                   *)
LEMMA OtherStatus ==
    ASSUME NEW o \in Row, NEW status \in {"completed", "voided"}
    PROVE  LET q == [o EXCEPT !.status = status]
           IN  q \in Row /\ q.status = status /\ q.key = o.key /\ CashIn(q) = CashIn(o)
<1> DEFINE q == [o EXCEPT !.status = status]
<1>1. /\ q \in Row /\ q.status = status /\ q.key = o.key /\ q.legs = o.legs /\ q.tip = o.tip
      /\ q.tipMethod = o.tipMethod /\ q.tipIsCash = o.tipIsCash
      /\ q.paymentMethod = o.paymentMethod
  BY DEF Row, SaleRow
<1> HIDE DEF q
<1>2. CashIn(q) = CashIn(o)
  BY <1>1, CashSame
<1> QED BY <1>1, <1>2 DEF q

(* The cash of some sales of a copy.                                       *)
LEMMA CashNat ==
    ASSUME NEW copy, CopyOK(copy), NEW K \in SUBSET Held(copy)
    PROVE  /\ IsFiniteSet(K) /\ Cash(copy, K) \in Nat
           /\ \A k \in K : CashOf(copy)[k] = CashIn(copy[k]) /\ CashOf(copy)[k] \in Nat
<1>1. IsFiniteSet(K)
  BY FS_Subset DEF CopyOK
<1>2. \A k \in K : k \in Keys /\ copy[k] \in Row /\ copy[k] # NoSale
  BY DEF Held, CopyOK
<1>3. \A k \in K : CashOf(copy)[k] = CashIn(copy[k]) /\ CashOf(copy)[k] \in Nat
  BY <1>2, CashIsNat DEF CashOf
<1> QED BY <1>1, <1>3, SumNat DEF Cash

LEMMA CashParts ==
    ASSUME NEW copy, CopyOK(copy), NEW A \in SUBSET Held(copy), NEW B \in SUBSET Held(copy),
           A \intersect B = {}
    PROVE  Cash(copy, A \union B) = Cash(copy, A) + Cash(copy, B)
<1> DEFINE f == CashOf(copy)
<1>1. /\ IsFiniteSet(A) /\ IsFiniteSet(B)
      /\ (\A k \in A : f[k] \in Nat) /\ \A k \in B : f[k] \in Nat
  BY CashNat
<1>2. \A k \in A \union B : f[k] \in Int
  BY <1>1
<1> HIDE DEF f
<1> QED BY <1>1, <1>2, SumApart DEF Cash, f

(* Copies that have the same cash for some sales.                          *)
LEMMA CashAgrees ==
    ASSUME NEW a, CopyOK(a), NEW b, CopyOK(b), NEW K \in SUBSET Held(a), K \subseteq Held(b),
           \A k \in K : CashIn(b[k]) = CashIn(a[k])
    PROVE  Cash(b, K) = Cash(a, K)
<1>1. IsFiniteSet(K) /\ \A k \in K : CashOf(b)[k] = CashOf(a)[k]
  BY CashNat
<1> QED BY <1>1, SumSame DEF Cash

(* A sum over the rows of some keys, one row each.                         *)
LEMMA RowsCash ==
    ASSUME NEW copy, CopyOK(copy), NEW row, NEW K \in SUBSET Held(copy),
           \A k \in K : row[k].key = k /\ CashIn(row[k]) = CashIn(copy[k]),
           NEW R, \A r : r \in R <=> \E k \in K : r = row[k]
    PROVE  Total(CashIn, R) = Cash(copy, K)
<1>0. R = { row[k] : k \in K }
  OBVIOUS
<1> DEFINE f == [r \in R |-> CashIn(r)]
           g == CashOf(copy)
<1>1. IsFiniteSet(K) /\ \A k \in K : g[k] = CashIn(copy[k]) /\ g[k] \in Nat
  BY CashNat
<1>2. \A k \in K : f[row[k]] = g[k] /\ g[k] \in Int
  BY <1>0, <1>1
<1>3. \A j, k \in K : row[j] = row[k] => j = k
  OBVIOUS
<1>4. Total(CashIn, R) = SumFunctionOnSet(f, R)
  BY DEF Total
<1> HIDE DEF f, g
<1>5. SumFunctionOnSet(f, { row[k] : k \in K }) = SumFunctionOnSet(g, K)
  BY <1>1, <1>2, <1>3, SumImage
<1> QED BY <1>0, <1>4, <1>5 DEF Cash, g

(* Movements and refunds have integer amounts, each sum an integer, and a  *)
(* part and the rest are the whole.                                        *)
LEMMA MovesParts ==
    ASSUME NEW rows, RowsOK(rows), NEW K
    PROVE  LET rest == { m \in rows : m.key \notin K }
           IN  /\ SumOf(rows) = SumOf(Keyed(rows, K)) + SumOf(rest)
               /\ SumOf(Keyed(rows, K)) \in Int /\ SumOf(rest) \in Int
               /\ \A m \in rows : m.amount \in Int
<1> DEFINE A == Keyed(rows, K)
           B == { m \in rows : m.key \notin K }
<1>1. A \union B = rows /\ A \intersect B = {} /\ IsFiniteSet(A) /\ IsFiniteSet(B)
  BY FS_Subset DEF RowsOK, Keyed
<1>2. \A m \in rows : m.amount \in Int
  BY DEF RowsOK, MoveRow
<1> HIDE DEF A, B
<1>3. SumOf(A \union B) = SumOf(A) + SumOf(B) /\ SumOf(A) \in Int /\ SumOf(B) \in Int
  BY <1>1, <1>2, TwoParts
<1> QED BY <1>1, <1>2, <1>3 DEF A, B

LEMMA RefundsParts ==
    ASSUME NEW given, GivenOK(given), NEW some \in SUBSET given
    PROVE  /\ SumOf(CashRefunds(given))
                = SumOf(CashRefunds(some)) + SumOf(CashRefunds(given \ some))
           /\ SumOf(CashRefunds(some)) \in Int /\ SumOf(CashRefunds(given \ some)) \in Int
           /\ GivenOK(some)
<1> DEFINE A == CashRefunds(some)
           B == CashRefunds(given \ some)
<1>1. /\ A \union B = CashRefunds(given) /\ A \intersect B = {}
      /\ IsFiniteSet(A) /\ IsFiniteSet(B) /\ GivenOK(some)
  BY FS_Subset DEF GivenOK, CashRefunds
<1>2. \A r \in A \union B : r.amount \in Int
  BY DEF GivenOK, CashRefunds
<1> HIDE DEF A, B
<1>3. SumOf(A \union B) = SumOf(A) + SumOf(B) /\ SumOf(A) \in Int /\ SumOf(B) \in Int
  BY <1>1, <1>2, TwoParts
<1> QED BY <1>1, <1>3 DEF A, B

(* What the folds of the report make of a copy and some rows.              *)
LEMMA SystemIs ==
    ASSUME NEW copy, CopyOK(copy), NEW rows, NEW given
    PROVE  SystemCash(Opening, Rows(copy), rows, given) = BoxOf(copy, rows, given)
<1> DEFINE K == TenderedIn(copy)
           R == { o \in Rows(copy) : Tendered(o) }
<1>1. \A r : r \in R <=> \E k \in K : r = copy[k]
  BY DEF Rows, TenderedIn, Held
<1>2. K \in SUBSET Held(copy) /\ \A k \in K : copy[k].key = k
  BY DEF TenderedIn, CopyOK
<1> HIDE DEF K, R
<1>3. Total(CashIn, R) = Cash(copy, K)
  BY <1>1, <1>2, RowsCash
<1> QED BY <1>3 DEF SystemCash, RefundsCash, BoxOf, SumOf, AmountIn, CashRefunds, Total, K, R

(* A figure is the box but for what it is short of and the sales that are  *)
(* not in it.                                                              *)
LEMMA Gap ==
    ASSUME NEW copy, CopyOK(copy), NEW rows, RowsOK(rows), NEW given, GivenOK(given),
           NEW f, FigureOn(f, copy, rows, given)
    PROVE  /\ BoxOf(copy, rows, given) - Short(f, copy, rows, given)
                = f.cash + Cash(copy, TenderedIn(copy) \ f.sales)
           /\ f.cash \in Int
<1> DEFINE T == TenderedIn(copy)
           S == f.sales
<1>1. /\ S \in SUBSET Held(copy) /\ T \in SUBSET Held(copy) /\ f.refunds \in SUBSET given
      /\ S \intersect T \in SUBSET Held(copy) /\ S \ T \in SUBSET Held(copy)
      /\ T \ S \in SUBSET Held(copy)
      /\ (S \intersect T) \union (S \ T) = S /\ (S \intersect T) \intersect (S \ T) = {}
      /\ (S \intersect T) \union (T \ S) = T /\ (S \intersect T) \intersect (T \ S) = {}
  BY DEF FigureOn, TenderedIn
<1> HIDE DEF T, S
<1>2. /\ Cash(copy, S) = Cash(copy, S \intersect T) + Cash(copy, S \ T)
      /\ Cash(copy, T) = Cash(copy, S \intersect T) + Cash(copy, T \ S)
  <2>1. Cash(copy, (S \intersect T) \union (S \ T))
          = Cash(copy, S \intersect T) + Cash(copy, S \ T)
    BY <1>1, CashParts
  <2>2. Cash(copy, (S \intersect T) \union (T \ S))
          = Cash(copy, S \intersect T) + Cash(copy, T \ S)
    BY <1>1, CashParts
  <2> QED BY <1>1, <2>1, <2>2
<1>3. Cash(copy, S \intersect T) \in Nat /\ Cash(copy, S \ T) \in Nat /\ Cash(copy, T \ S) \in Nat
  BY <1>1, CashNat
<1> DEFINE in == SumOf(Keyed(rows, f.moves))
           late == SumOf({ m \in rows : m.key \notin f.moves })
           back == SumOf(CashRefunds(f.refunds))
           lateBack == SumOf(CashRefunds(given \ f.refunds))
<1>4. SumOf(rows) = in + late /\ in \in Int /\ late \in Int
  BY MovesParts
<1>5. SumOf(CashRefunds(given)) = back + lateBack /\ back \in Int /\ lateBack \in Int
  BY <1>1, RefundsParts
<1>6. f.cash = Opening + Cash(copy, S) + in - back /\ Opening \in Int
  BY DEF FigureOn, S
<1>7. /\ BoxOf(copy, rows, given) = Opening + Cash(copy, T) + SumOf(rows) - SumOf(CashRefunds(given))
      /\ Short(f, copy, rows, given) = late - lateBack - Cash(copy, S \ T)
  BY DEF BoxOf, Short, T, S
<1> HIDE DEF in, late, back, lateBack
<1>8. BoxOf(copy, rows, given) - Short(f, copy, rows, given) = f.cash + Cash(copy, T \ S)
  BY <1>2, <1>3, <1>4, <1>5, <1>6, <1>7
<1>9. f.cash \in Int
  BY <1>2, <1>3, <1>4, <1>5, <1>6
<1> QED BY <1>8, <1>9 DEF T, S

(* What the till's fold makes of its rows: with a page's figure, the sales *)
(* it has not seen land on top of it.                                      *)
LEMMA TillExpectsIs ==
    ASSUME CopyOK(rung), acked \subseteq Keys, pulled # None => pulled.cash \in Int
    PROVE  TillExpects =
             IF pulled = None THEN BoxOf(rung, moves, refunds)
             ELSE pulled.cash + Cash(rung, TenderedIn(rung) \ acked)
<1> DEFINE mark == [k \in Keys |-> [rung[k] EXCEPT !.unsent = rung[k].key \notin acked]]
           T == TenderedIn(rung)
<1>1. \A k \in Held(rung) :
        /\ mark[k].key = k /\ mark[k].unsent = (k \notin acked) /\ mark[k].status = rung[k].status
        /\ mark[k].legs = rung[k].legs /\ mark[k].tip = rung[k].tip
        /\ mark[k].tipMethod = rung[k].tipMethod /\ mark[k].tipIsCash = rung[k].tipIsCash
        /\ mark[k].paymentMethod = rung[k].paymentMethod
  <2> TAKE k \in Held(rung)
  <2>1. rung[k] \in Row /\ rung[k].key = k /\ k \in Keys
    BY DEF CopyOK, Held
  <2> QED BY <2>1 DEF Row, SaleRow
<1>2. TillRows = { mark[k] : k \in Held(rung) }
  BY DEF TillRows, Rows, Held
<1> HIDE DEF mark
<1>3. \A k \in Held(rung) : CashIn(mark[k]) = CashIn(rung[k]) /\ (Tendered(mark[k]) <=> Tendered(rung[k]))
  BY <1>1, CashSame DEF Tendered
<1> DEFINE R == { o \in TillRows : Tendered(o) }
           U == { o \in TillRows : o.unsent /\ Tendered(o) }
           L == T \ acked
<1>4. (\A r : r \in R <=> \E k \in T : r = mark[k]) /\ (\A r : r \in U <=> \E k \in L : r = mark[k])
  <2>1. \A r : r \in TillRows <=> \E k \in Held(rung) : r = mark[k]
    BY <1>2
  <2>2. \A k \in Held(rung) : k \in T <=> Tendered(mark[k])
    BY <1>3 DEF TenderedIn
  <2>3. T \subseteq Held(rung)
    BY DEF TenderedIn
  <2>4. \A k \in Held(rung) : mark[k].unsent <=> k \notin acked
    BY <1>1
  <2> HIDE DEF T
  <2>5. \A r : r \in R <=> \E k \in T : r = mark[k]
    BY <2>1, <2>2, <2>3
  <2>6. \A r : r \in U <=> \E k \in L : r = mark[k]
    BY <2>1, <2>2, <2>3, <2>4
  <2> QED BY <2>5, <2>6
<1>5. T \in SUBSET Held(rung) /\ L \in SUBSET Held(rung)
  BY DEF TenderedIn
<1> HIDE DEF T, R, U, L
<1>6. (\A k \in T : mark[k].key = k /\ CashIn(mark[k]) = CashIn(rung[k]))
      /\ (\A k \in L : mark[k].key = k /\ CashIn(mark[k]) = CashIn(rung[k]))
  BY <1>1, <1>3, <1>5
<1>7. Total(CashIn, R) = Cash(rung, T) /\ Total(CashIn, U) = Cash(rung, L)
  BY <1>4, <1>5, <1>6, RowsCash
<1>8. CASE pulled = None
  <2>1. TillExpects = SystemCash(Opening, TillRows, moves, refunds)
    BY <1>8 DEF TillExpects, ExpectedCash
  <2>2. SystemCash(Opening, TillRows, moves, refunds) = BoxOf(rung, moves, refunds)
    BY <1>7 DEF SystemCash, RefundsCash, BoxOf, SumOf, AmountIn, CashRefunds, Total, R, T
  <2> QED BY <1>8, <2>1, <2>2
<1>9. CASE pulled # None
  <2>1. pulled.cash # None
    BY <1>9
  <2> QED BY <1>7, <1>9, <2>1 DEF TillExpects, ExpectedCash, U, L, T
<1> QED BY <1>8, <1>9

LEMMA MissedIs ==
    ASSUME CopyOK(rung), NEW f, f.sales \subseteq Held(rung)
    PROVE  Missed(f) = Short(f, rung, moves, refunds)
<1> DEFINE K == f.sales \ TenderedIn(rung)
           R == { o \in Rows(rung) : o.status = "voided" /\ o.key \in f.sales }
           row == rung
<1>1. K \in SUBSET Held(rung) /\ \A k \in K : row[k].key = k /\ CashIn(row[k]) = CashIn(rung[k])
  BY DEF CopyOK
<1>2. \A r : r \in R <=> \E k \in K : r = row[k]
  <2>1. \A k \in Held(rung) : rung[k].key = k /\ (k \in K <=> k \in f.sales /\ rung[k].status = "voided")
    BY DEF CopyOK, TenderedIn, Tendered
  <2>2. \A r : r \in Rows(rung) <=> \E k \in Held(rung) : r = rung[k]
    BY DEF Rows, Held
  <2> HIDE DEF K
  <2> QED BY <1>1, <2>1, <2>2
<1> HIDE DEF K, R, row
<1>3. Total(CashIn, R) = Cash(rung, K)
  BY <1>1, <1>2, RowsCash
<1> QED BY <1>3 DEF Missed, Short, RefundsCash, SumOf, AmountIn, CashRefunds, Total, R, K

(* What a sale really takes is what its row says: the cash of its legs,    *)
(* and its tip if the row has it in cash.                                  *)
CashAsRung == \A kind \in SaleKinds : kind.cashTaken = CashIn(kind.sale)

(* The rows both sides have: the server's are the device's, as sent.       *)
BooksOK ==
    /\ RowsOK(moves) /\ GivenOK(refunds)
    /\ CopyOK(rung) /\ CopyOK(landed) /\ Mirrors(landed, rung)
    /\ acked \subseteq Held(landed)
    /\ landedMoves \subseteq KeysIn(moves) /\ landedRefunds \subseteq refunds

(* The drawer: the box is the device's rows; a frozen figure is made of    *)
(* some of them, a page's of sales the device knows have landed.           *)
DrawerInv ==
    /\ BooksOK
    /\ box = BoxOf(rung, moves, refunds)
    /\ snapshot # None => FigureOn(snapshot, rung, moves, refunds) /\ Covers(snapshot, rung, landed)
    /\ pulled # None => FigureOn(pulled, rung, moves, refunds) /\ pulled.sales \subseteq acked

(* The invariant says the drawer is right.                                 *)
LEMMA InvIsRight == DrawerInv => DrawerIsRight
<1> SUFFICES ASSUME DrawerInv PROVE DrawerIsRight
  OBVIOUS
<1> DEFINE T == TenderedIn(rung)
<1>1. /\ CopyOK(rung) /\ RowsOK(moves) /\ GivenOK(refunds) /\ acked \subseteq Keys
      /\ acked \subseteq Held(landed) /\ T \subseteq Held(rung)
  BY DEF DrawerInv, BooksOK, Held, TenderedIn
<1>2. \A f : FigureOn(f, rung, moves, refunds) =>
                 /\ box - Missed(f) = f.cash + Cash(rung, T \ f.sales)
                 /\ f.cash \in Int
  <2> TAKE f
  <2> HAVE FigureOn(f, rung, moves, refunds)
  <2>1. f.sales \subseteq Held(rung)
    BY DEF FigureOn
  <2>2. Missed(f) = Short(f, rung, moves, refunds)
    BY <1>1, <2>1, MissedIs
  <2>3. /\ BoxOf(rung, moves, refunds) - Short(f, rung, moves, refunds)
             = f.cash + Cash(rung, T \ f.sales)
        /\ f.cash \in Int
    BY <1>1, Gap
  <2> QED BY <2>2, <2>3 DEF DrawerInv
<1>3. TillExpects = IF pulled = None THEN box ELSE pulled.cash + Cash(rung, T \ acked)
  <2>1. pulled # None => pulled.cash \in Int
    BY <1>2 DEF DrawerInv
  <2> QED BY <1>1, <2>1, TillExpectsIs DEF DrawerInv
<1> HIDE DEF T
<1>4. OpenDrawerIsRight
  BY <1>3 DEF OpenDrawerIsRight
<1>5. NeverCountedTwice
  <2> SUFFICES ASSUME pulled # None PROVE TillExpects <= box - Missed(pulled)
    BY DEF NeverCountedTwice
  <2>1. FigureOn(pulled, rung, moves, refunds) /\ pulled.sales \subseteq acked
    BY DEF DrawerInv
  <2> DEFINE P == T \ acked
             R == (T \ pulled.sales) \ P
  <2>2. /\ P \in SUBSET Held(rung) /\ R \in SUBSET Held(rung) /\ P \intersect R = {}
        /\ P \union R = T \ pulled.sales
    BY <1>1, <2>1
  <2> HIDE DEF P, R
  <2>3. Cash(rung, P \union R) = Cash(rung, P) + Cash(rung, R)
        /\ Cash(rung, P) \in Nat /\ Cash(rung, R) \in Nat
    BY <1>1, <2>2, CashParts, CashNat
  <2> DEFINE gap == box - Missed(pulled)
  <2>4. gap = pulled.cash + Cash(rung, T \ pulled.sales) /\ pulled.cash \in Int
    BY <1>2, <2>1
  <2>5. TillExpects = pulled.cash + Cash(rung, P)
    BY <1>3 DEF P
  <2> HIDE DEF gap
  <2> DEFINE c == pulled.cash
             p == Cash(rung, P)
             r == Cash(rung, R)
  <2>6. gap = c + (p + r)
    BY <2>2, <2>3, <2>4, Zenon
  <2>7. TillExpects = c + p /\ c \in Int /\ p \in Nat /\ r \in Nat
    BY <2>3, <2>4, <2>5
  <2> HIDE DEF c, p, r
  <2>8. TillExpects <= gap
    BY <2>6, <2>7
  <2> QED BY <2>8 DEF gap
<1>6. SettledDrawerIsRight
  <2> SUFFICES ASSUME snapshot # None, pulled = snapshot, \A k \in Keys : rung[k] # NoSale => k \in acked
               PROVE  TillExpects = snapshot.cash /\ TillExpects = box - Missed(snapshot)
    BY DEF SettledDrawerIsRight
  <2>1. FigureOn(snapshot, rung, moves, refunds) /\ Covers(snapshot, rung, landed)
    BY DEF DrawerInv
  <2>2. Held(rung) \subseteq acked
    BY DEF Held
  <2>3. T \ acked = {} /\ T \ snapshot.sales = {}
    BY <1>1, <2>1, <2>2 DEF Covers, T
  <2>4. Cash(rung, {}) = 0
    BY SumNothing DEF Cash
  <2>5. box - Missed(snapshot) = snapshot.cash + 0 /\ snapshot.cash \in Int
    BY <1>2, <2>1, <2>3, <2>4
  <2>6. TillExpects = snapshot.cash + 0
    BY <1>3, <2>3, <2>4
  <2> QED BY <2>5, <2>6
<1> QED BY <1>4, <1>5, <1>6 DEF DrawerIsRight

-----------------------------------------------------------------------------
(* What a figure is made of stays, whatever is written beside it.          *)

(* A copy that has the sales of another, each with its cash.               *)
Grown(a, b) ==
    /\ CopyOK(a) /\ CopyOK(b) /\ Held(a) \subseteq Held(b)
    /\ \A k \in Held(a) : CashIn(b[k]) = CashIn(a[k])

(* Rows that have the keys of others, each with its amount.                *)
SameSums(rows, new) ==
    /\ KeysIn(rows) \subseteq KeysIn(new)
    /\ \A K \in SUBSET KeysIn(rows) : SumOf(Keyed(new, K)) = SumOf(Keyed(rows, K))

LEMMA FigureStays ==
    ASSUME NEW f, NEW a, NEW b, Grown(a, b), NEW rows, NEW new, SameSums(rows, new),
           NEW given, NEW more, given \subseteq more, FigureOn(f, a, rows, given)
    PROVE  FigureOn(f, b, new, more)
<1>1. f.sales \in SUBSET Held(a) /\ f.moves \in SUBSET KeysIn(rows)
  BY DEF FigureOn
<1>2. Cash(b, f.sales) = Cash(a, f.sales)
  BY <1>1, CashAgrees DEF Grown
<1>3. SumOf(Keyed(new, f.moves)) = SumOf(Keyed(rows, f.moves))
  BY <1>1 DEF SameSums
<1> QED BY <1>2, <1>3 DEF FigureOn, Grown, SameSums

LEMMA GrowsToItself == \A copy : CopyOK(copy) => Grown(copy, copy)
BY DEF Grown

LEMMA SumsAsItself == \A rows : SameSums(rows, rows)
BY DEF SameSums

(* A row for a sale, on a copy that may have one already.                  *)
PutIn(a, b, k, row) ==
    /\ CopyOK(b) /\ Held(b) = Held(a) \union {k}
    /\ b[k] = row /\ \A j \in Keys \ {k} : b[j] = a[j]

LEMMA CopyTakes ==
    ASSUME NEW a, NEW b, NEW k \in Keys, NEW row \in Row, CopyOK(a),
           row.key = k, b = [a EXCEPT ![k] = row]
    PROVE  PutIn(a, b, k, row)
<1>1. b[k] = row /\ row # NoSale /\ \A j \in Keys \ {k} : b[j] = a[j]
  BY NoSaleIsNoRow DEF CopyOK
<1>2. Held(b) = Held(a) \union {k}
  BY <1>1 DEF Held
<1>3. b \in [Keys -> Row \union {NoSale}] /\ IsFiniteSet(Held(b))
  <2>1. IsFiniteSet(Held(a)) /\ a \in [Keys -> Row \union {NoSale}]
    BY DEF CopyOK
  <2>2. IsFiniteSet(Held(a) \union {k})
    BY <2>1, FS_AddElement
  <2> QED BY <1>2, <2>1, <2>2
<1>4. \A j \in Held(b) : b[j].key = j
  BY <1>1, <1>2 DEF CopyOK, Held
<1> QED BY <1>1, <1>2, <1>3, <1>4 DEF CopyOK, PutIn

(* The movements once some have their ids: the same but for those.         *)
IdsGiven(rows, some) ==
    { IF m.key \in some THEN [m EXCEPT !.serverId = m.id] ELSE m : m \in rows }

LEMMA IdsKeepSums ==
    ASSUME NEW rows, RowsOK(rows), NEW some
    PROVE  LET new == IdsGiven(rows, some)
           IN  /\ RowsOK(new) /\ KeysIn(new) = KeysIn(rows) /\ SameSums(rows, new)
               /\ SumOf(new) = SumOf(rows)
<1> DEFINE row == [m \in rows |-> IF m.key \in some THEN [m EXCEPT !.serverId = m.id] ELSE m]
           new == IdsGiven(rows, some)
<1>1. \A m \in rows : /\ row[m] \in MoveRow /\ row[m].key = m.key /\ row[m].amount = m.amount
                      /\ m.amount \in Int
  <2> TAKE m \in rows
  <2>1. m \in MoveRow
    BY DEF RowsOK
  <2> QED BY <2>1 DEF MoveRow, Optional
<1>2. new = { row[m] : m \in rows }
  BY DEF IdsGiven
<1>3. IsFiniteSet(rows) /\ \A m, n \in rows : m.key = n.key => m = n
  BY DEF RowsOK
<1> HIDE DEF row, new
<1>4. \A m, n \in rows : row[m] = row[n] => m = n
  BY <1>1, <1>3
<1>5. IsFiniteSet(new)
  BY <1>2, <1>3, ImageFinite
<1>6. RowsOK(new)
  BY <1>1, <1>2, <1>3, <1>5 DEF RowsOK
<1>7. KeysIn(new) = KeysIn(rows)
  BY <1>1, <1>2 DEF KeysIn
<1>8. \A K : SumOf(Keyed(new, K)) = SumOf(Keyed(rows, K))
  <2> TAKE K
  <2> DEFINE A == Keyed(rows, K)
             B == Keyed(new, K)
             f == AmountIn(B)
             g == AmountIn(A)
  <2>1. A \in SUBSET rows /\ IsFiniteSet(A)
    BY <1>3, FS_Subset DEF Keyed
  <2>2. B = { row[m] : m \in A }
    BY <1>1, <1>2 DEF Keyed
  <2>3. \A m \in A : f[row[m]] = g[m] /\ g[m] \in Int
    BY <1>1, <2>1, <2>2 DEF AmountIn
  <2>4. \A m, n \in A : row[m] = row[n] => m = n
    BY <1>4, <2>1
  <2> HIDE DEF A, B, f, g
  <2>5. SumFunctionOnSet(f, { row[m] : m \in A }) = SumFunctionOnSet(g, A)
    BY <2>1, <2>3, <2>4, SumImage
  <2> QED BY <2>2, <2>5 DEF SumOf, f, g, A, B
<1>9. Keyed(rows, KeysIn(rows)) = rows /\ Keyed(new, KeysIn(rows)) = new
  BY <1>7 DEF Keyed, KeysIn
<1>10. SumOf(new) = SumOf(rows)
  BY <1>8, <1>9
<1> QED BY <1>6, <1>7, <1>8, <1>10 DEF SameSums, new

(* The figure the server makes of a copy it may have.                      *)
LEMMA FigureIs ==
    ASSUME BooksOK, NEW copy, CopyOK(copy), Mirrors(copy, rung)
    PROVE  /\ FigureOn(Figure(copy), rung, moves, refunds)
           /\ Covers(Figure(copy), rung, copy)
<1> DEFINE f == Figure(copy)
           S == TenderedIn(copy)
<1>1. f.sales = S /\ f.moves = landedMoves /\ f.refunds = landedRefunds
      /\ f.cash = SystemCash(Opening, Rows(copy), ServerMoves, landedRefunds)
  BY DEF Figure, TenderedIn, Held
<1>2. ServerMoves = Keyed(moves, landedMoves)
  BY DEF ServerMoves, Keyed
<1>3. S \in SUBSET Held(copy) /\ S \subseteq Held(rung) /\ CopyOK(rung)
  BY DEF TenderedIn, Mirrors, BooksOK
<1>4. \A k \in Held(copy) : CashIn(copy[k]) = CashIn(rung[k]) /\ (Tendered(rung[k]) => Tendered(copy[k]))
  <2> TAKE k \in Held(copy)
  <2>1. rung[k] \in Row /\ copy[k] \in {rung[k], Sent(rung[k])}
    BY <1>3 DEF Mirrors, CopyOK, Held
  <2>2. Sent(rung[k]).status = "completed" /\ CashIn(Sent(rung[k])) = CashIn(rung[k])
    BY <2>1, OtherStatus DEF Sent
  <2> QED BY <2>1, <2>2 DEF Tendered
<1> HIDE DEF S
<1>5. Cash(rung, S) = Cash(copy, S)
  BY <1>3, <1>4, CashAgrees
<1>6. SystemCash(Opening, Rows(copy), ServerMoves, landedRefunds)
        = BoxOf(copy, Keyed(moves, landedMoves), landedRefunds)
  BY <1>2, SystemIs
<1> HIDE DEF f
<1>7. FigureOn(f, rung, moves, refunds)
  BY <1>1, <1>3, <1>5, <1>6 DEF FigureOn, BoxOf, BooksOK, S
<1>8. Covers(f, rung, copy)
  BY <1>1, <1>3, <1>4 DEF Covers, TenderedIn, S
<1> QED BY <1>7, <1>8 DEF f

-----------------------------------------------------------------------------
(* What each step makes of the rows.                                       *)

LEMMA SentAgain ==
    ASSUME NEW o \in Row
    PROVE  /\ o.status = "completed" => Sent(o) = o /\ Sent([o EXCEPT !.status = "voided"]) = o
           /\ o.status = "voided" => [Sent(o) EXCEPT !.status = "voided"] = o
           /\ o.status \in {"completed", "voided"}
           /\ Sent(o) \in Row /\ Sent(o).status = "completed" /\ Sent(o).key = o.key
<1>1. o \in SaleRow({"completed", "voided"})
  BY DEF Row
<1>2. o.status \in {"completed", "voided"}
  BY <1>1 DEF SaleRow
<1>3. Sent(o) \in Row /\ Sent(o).status = "completed" /\ Sent(o).key = o.key
  BY OtherStatus DEF Sent
<1>4. ASSUME o.status = "completed" PROVE Sent(o) = o /\ Sent([o EXCEPT !.status = "voided"]) = o
  BY <1>1, <1>4 DEF SaleRow, Sent
<1>5. ASSUME o.status = "voided" PROVE [Sent(o) EXCEPT !.status = "voided"] = o
  BY <1>1, <1>5 DEF SaleRow, Sent
<1> QED BY <1>2, <1>3, <1>4, <1>5

LEMMA InitBooks == Init => BooksOK
<1> SUFFICES ASSUME Init PROVE BooksOK
  OBVIOUS
<1>1. Held(rung) = {} /\ Held(landed) = {}
  BY DEF Init, Held
<1>2. CopyOK(rung) /\ CopyOK(landed) /\ Mirrors(landed, rung)
  BY <1>1, FS_EmptySet DEF Init, CopyOK, Mirrors
<1> QED BY <1>2, FS_EmptySet DEF Init, BooksOK, RowsOK, GivenOK

LEMMA RingBooks ==
    ASSUME BooksOK, NEW k \in Keys, NEW kind \in SaleKinds, Ring(k, kind)
    PROVE  /\ BooksOK' /\ Grown(rung, rung')
           /\ k \notin Held(rung) /\ k \in Held(rung') /\ CashIn(rung'[k]) = CashIn(kind.sale)
           /\ TenderedIn(rung') = TenderedIn(rung) \union {k}
<1> DEFINE row == [kind.sale EXCEPT !.key = k]
<1>1. kind.sale \in SaleRow({"completed"})
  OBVIOUS
<1>2. /\ row \in Row /\ row.key = k /\ row.status = "completed"
      /\ row.legs = kind.sale.legs /\ row.tip = kind.sale.tip
      /\ row.tipMethod = kind.sale.tipMethod /\ row.tipIsCash = kind.sale.tipIsCash
      /\ row.paymentMethod = kind.sale.paymentMethod
  BY <1>1 DEF SaleRow, Row, Optional
<1>3. /\ rung' = [rung EXCEPT ![k] = row] /\ rung[k] = NoSale
      /\ UNCHANGED <<landed, acked, moves, landedMoves, refunds, landedRefunds>>
  BY DEF Ring, server
<1> HIDE DEF row
<1>4. CashIn(row) = CashIn(kind.sale)
  BY <1>2, CashSame
<1>5. CopyOK(rung) /\ CopyOK(landed) /\ Mirrors(landed, rung)
  BY DEF BooksOK
<1>6. /\ CopyOK(rung') /\ Held(rung') = Held(rung) \union {k} /\ k \notin Held(rung)
      /\ rung'[k] = row /\ \A j \in Keys \ {k} : rung'[j] = rung[j]
  <2>1. k \notin Held(rung)
    BY <1>3 DEF Held
  <2>2. PutIn(rung, rung', k, row)
    BY <1>2, <1>3, <1>5, CopyTakes
  <2> QED BY <2>1, <2>2 DEF PutIn
<1>7. \A j \in Held(rung) : rung'[j] = rung[j]
  BY <1>6 DEF Held
<1>8. Mirrors(landed, rung')
  BY <1>5, <1>6, <1>7 DEF Mirrors
<1>9. Grown(rung, rung')
  BY <1>5, <1>6, <1>7 DEF Grown
<1>10. BooksOK'
  BY <1>3, <1>5, <1>6, <1>8 DEF BooksOK
<1>11. TenderedIn(rung') = TenderedIn(rung) \union {k}
  BY <1>2, <1>6, <1>7 DEF TenderedIn, Tendered
<1> QED BY <1>4, <1>6, <1>9, <1>10, <1>11

LEMMA VoidBooks ==
    ASSUME BooksOK, NEW k \in Keys, Void(k)
    PROVE  /\ BooksOK' /\ Grown(rung, rung')
           /\ k \in TenderedIn(rung) /\ TenderedIn(rung') = TenderedIn(rung) \ {k}
<1> DEFINE row == [rung[k] EXCEPT !.status = "voided"]
<1>1. CopyOK(rung) /\ CopyOK(landed) /\ Mirrors(landed, rung)
  BY DEF BooksOK
<1>2. k \in Held(rung) /\ rung[k] \in Row /\ rung[k].status = "completed" /\ rung[k].key = k
  BY <1>1 DEF Void, Held, CopyOK
<1>3. /\ rung' = [rung EXCEPT ![k] = row]
      /\ UNCHANGED <<landed, acked, moves, landedMoves, refunds, landedRefunds>>
  BY DEF Void, server
<1>4. row \in Row /\ row.status = "voided" /\ row.key = k /\ CashIn(row) = CashIn(rung[k])
  BY <1>2, OtherStatus
<1>5. Sent(row) = rung[k] /\ Sent(rung[k]) = rung[k]
  BY <1>2, SentAgain
<1> HIDE DEF row
<1>6. /\ CopyOK(rung') /\ Held(rung') = Held(rung) /\ rung'[k] = row
      /\ \A j \in Keys \ {k} : rung'[j] = rung[j]
  <2>1. CopyOK(rung) /\ row \in Row /\ row.key = k /\ rung' = [rung EXCEPT ![k] = row]
    BY <1>1, <1>3, <1>4
  <2>2. PutIn(rung, rung', k, row)
    BY <2>1, CopyTakes
  <2> QED BY <1>2, <2>2 DEF PutIn
<1>7. Mirrors(landed, rung')
  <2> SUFFICES ASSUME NEW j \in Held(landed)
               PROVE  j \in Held(rung') /\ landed[j] \in {rung'[j], Sent(rung'[j])}
    BY DEF Mirrors
  <2>1. j \in Held(rung) /\ landed[j] \in {rung[j], Sent(rung[j])} /\ j \in Keys
    BY <1>1 DEF Mirrors, Held
  <2>2. CASE j = k
    BY <1>5, <1>6, <2>1, <2>2
  <2>3. CASE j # k
    BY <1>6, <2>1, <2>3
  <2> QED BY <2>2, <2>3
<1>8. Grown(rung, rung')
  BY <1>1, <1>4, <1>6 DEF Grown, Held
<1>9. BooksOK'
  BY <1>1, <1>3, <1>6, <1>7 DEF BooksOK
<1>10. k \in TenderedIn(rung) /\ TenderedIn(rung') = TenderedIn(rung) \ {k}
  <2>1. \A j \in Held(rung) : j # k => (Tendered(rung'[j]) <=> Tendered(rung[j]))
    BY <1>6 DEF Held
  <2>2. Tendered(rung[k]) /\ ~Tendered(rung'[k])
    BY <1>2, <1>4, <1>6 DEF Tendered
  <2> QED BY <1>2, <1>6, <2>1, <2>2 DEF TenderedIn
<1> QED BY <1>8, <1>9, <1>10

LEMMA LandBooks ==
    ASSUME BooksOK, NEW k \in Keys, NEW lost \in BOOLEAN, Land(k, lost)
    PROVE  /\ BooksOK' /\ CopyOK(landed') /\ Mirrors(landed', rung)
           /\ Held(landed) \subseteq Held(landed') /\ acked \subseteq acked'
<1>1. /\ landed' = IF landed[k] = NoSale THEN [landed EXCEPT ![k] = Sent(rung[k])] ELSE landed
      /\ acked' \in {acked, acked \union {k}} /\ k \in Held(rung)
      /\ UNCHANGED <<rung, moves, landedMoves, refunds, landedRefunds>>
  BY DEF Land, Held, Sent
<1>2. CopyOK(rung) /\ CopyOK(landed) /\ Mirrors(landed, rung) /\ acked \subseteq Held(landed)
  BY DEF BooksOK
<1>3. Sent(rung[k]) \in Row /\ Sent(rung[k]).key = k
  <2>1. rung[k] \in Row /\ rung[k].key = k
    BY <1>1, <1>2 DEF CopyOK, Held
  <2> QED BY <2>1, SentAgain
<1>4. CopyOK(landed') /\ Held(landed') = Held(landed) \union {k} /\ Mirrors(landed', rung)
  <2>1. CASE landed[k] = NoSale
    <3> DEFINE row == Sent(rung[k])
    <3>1. landed' = [landed EXCEPT ![k] = row] /\ row \in Row /\ row.key = k
      BY <1>1, <1>3, <2>1
    <3>2. row \in {rung[k], Sent(rung[k])}
      OBVIOUS
    <3> HIDE DEF row
    <3>3. /\ CopyOK(landed') /\ Held(landed') = Held(landed) \union {k} /\ landed'[k] = row
          /\ \A j \in Keys \ {k} : landed'[j] = landed[j]
      <4>1. PutIn(landed, landed', k, row)
        BY <1>2, <3>1, CopyTakes
      <4> QED BY <4>1 DEF PutIn
    <3>4. Mirrors(landed', rung)
      <4> SUFFICES ASSUME NEW j \in Held(landed')
                   PROVE  j \in Held(rung) /\ landed'[j] \in {rung[j], Sent(rung[j])}
        BY DEF Mirrors
      <4>1. CASE j = k
        BY <1>1, <3>2, <3>3, <4>1
      <4>2. CASE j # k
        <5>1. j \in Held(landed) /\ landed'[j] = landed[j]
          BY <3>3, <4>2 DEF Held
        <5> QED BY <1>2, <5>1 DEF Mirrors
      <4> QED BY <4>1, <4>2
    <3> QED BY <3>3, <3>4
  <2>2. CASE landed[k] # NoSale
    <3>1. landed' = landed /\ k \in Held(landed)
      BY <1>1, <2>2 DEF Held
    <3> QED BY <1>2, <3>1
  <2> QED BY <2>1, <2>2
<1>5. BooksOK'
  BY <1>1, <1>2, <1>4 DEF BooksOK
<1> QED BY <1>1, <1>4, <1>5

LEMMA VoidLandsBooks ==
    ASSUME BooksOK, NEW k \in Keys, VoidLands(k)
    PROVE  BooksOK' /\ Held(landed') = Held(landed)
<1> DEFINE row == [landed[k] EXCEPT !.status = "voided"]
<1>1. /\ landed' = [landed EXCEPT ![k] = row] /\ k \in Held(landed)
      /\ rung[k].status = "voided" /\ landed[k].status = "completed"
      /\ UNCHANGED <<rung, acked, moves, landedMoves, refunds, landedRefunds>>
  BY DEF VoidLands, Held, device
<1>2. CopyOK(rung) /\ CopyOK(landed) /\ Mirrors(landed, rung)
  BY DEF BooksOK
<1>3. rung[k] \in Row /\ rung[k].key = k /\ landed[k] \in {rung[k], Sent(rung[k])}
      /\ k \in Held(rung)
  BY <1>1, <1>2 DEF Mirrors, CopyOK, Held
<1>4. row = rung[k]
  <2>1. landed[k] = Sent(rung[k])
    <3>1. landed[k] # rung[k]
      BY <1>1
    <3> QED BY <1>3, <3>1
  <2>2. [Sent(rung[k]) EXCEPT !.status = "voided"] = rung[k]
    <3> DEFINE o == rung[k]
    <3>1. o \in Row /\ o.status = "voided"
      BY <1>1, <1>3
    <3> HIDE DEF o
    <3>2. [Sent(o) EXCEPT !.status = "voided"] = o
      BY <3>1, SentAgain
    <3> QED BY <3>2 DEF o
  <2> QED BY <2>1, <2>2
<1> HIDE DEF row
<1>5. /\ CopyOK(landed') /\ Held(landed') = Held(landed) /\ landed'[k] = rung[k]
      /\ \A j \in Keys \ {k} : landed'[j] = landed[j]
  <2>1. CopyOK(landed) /\ row \in Row /\ row.key = k /\ landed' = [landed EXCEPT ![k] = row]
    BY <1>1, <1>2, <1>3, <1>4
  <2>2. PutIn(landed, landed', k, row)
    BY <2>1, CopyTakes
  <2> QED BY <1>1, <1>4, <2>2 DEF PutIn
<1>6. Mirrors(landed', rung)
  BY <1>2, <1>3, <1>5 DEF Mirrors, Held
<1> QED BY <1>1, <1>2, <1>5, <1>6 DEF BooksOK

LEMMA WriteMoveBooks ==
    ASSUME BooksOK, NEW m \in MoveKinds, WriteMove(m)
    PROVE  BooksOK' /\ SameSums(moves, moves') /\ SumOf(moves') = SumOf(moves) + m.amount
<1>1. /\ moves' = moves \union {m} /\ (\A n \in moves : n.key # m.key)
      /\ UNCHANGED <<rung, landed, acked, landedMoves, refunds, landedRefunds>>
  BY DEF WriteMove, server
<1>2. RowsOK(moves) /\ m \in MoveRow /\ m.amount \in Int /\ m \notin moves
  BY <1>1 DEF BooksOK, MoveRow
<1>3. RowsOK(moves')
  <2>1. IsFiniteSet(moves')
    BY <1>1, <1>2, FS_AddElement DEF RowsOK
  <2> QED BY <1>1, <1>2, <2>1 DEF RowsOK
<1>4. SumOf(moves') = SumOf(moves) + m.amount
  <2>1. IsFiniteSet({m}) /\ SumOf({m}) = m.amount
    BY <1>2, OneAmount
  <2>2. /\ IsFiniteSet(moves) /\ moves \intersect {m} = {}
        /\ \A n \in moves \union {m} : n.amount \in Int
    BY <1>2 DEF RowsOK, MoveRow
  <2>3. SumOf(moves \union {m}) = SumOf(moves) + SumOf({m})
    BY <2>1, <2>2, TwoParts
  <2> QED BY <1>1, <2>1, <2>3
<1>5. SameSums(moves, moves')
  <2>1. \A K \in SUBSET KeysIn(moves) : Keyed(moves', K) = Keyed(moves, K)
    BY <1>1 DEF KeysIn, Keyed
  <2>2. KeysIn(moves) \subseteq KeysIn(moves')
    BY <1>1 DEF KeysIn
  <2> QED BY <2>1, <2>2 DEF SameSums
<1>6. BooksOK'
  BY <1>1, <1>3, <1>5 DEF BooksOK, SameSums
<1> QED BY <1>4, <1>5, <1>6

LEMMA IssueRefundBooks ==
    ASSUME BooksOK, NEW r \in RefundKinds, IssueRefund(r)
    PROVE  /\ BooksOK' /\ refunds \subseteq refunds'
           /\ SumOf(CashRefunds(refunds'))
                = SumOf(CashRefunds(refunds)) + (IF r.cash THEN r.amount ELSE 0)
<1>1. /\ refunds' = refunds \union {r} /\ (\A q \in refunds : q.key # r.key)
      /\ UNCHANGED <<rung, landed, acked, moves, landedMoves, landedRefunds>>
  BY DEF IssueRefund, server
<1>2. GivenOK(refunds) /\ r.amount \in Int /\ r.cash \in BOOLEAN /\ r \notin refunds
  BY <1>1 DEF BooksOK
<1>3. GivenOK(refunds')
  <2>1. IsFiniteSet(refunds')
    BY <1>1, <1>2, FS_AddElement DEF GivenOK
  <2> QED BY <1>1, <1>2, <2>1 DEF GivenOK
<1>4. BooksOK'
  BY <1>1, <1>3 DEF BooksOK
<1>5. SumOf(CashRefunds(refunds'))
        = SumOf(CashRefunds(refunds)) + (IF r.cash THEN r.amount ELSE 0)
  <2> DEFINE old == CashRefunds(refunds)
  <2>1. IsFiniteSet(old) /\ \A q \in old : q.amount \in Int
    BY <1>2, FS_Subset DEF GivenOK, CashRefunds
  <2>2. IsFiniteSet({r}) /\ SumOf({r}) = r.amount
    BY <1>2, OneAmount
  <2>3. CashRefunds(refunds') = IF r.cash THEN old \union {r} ELSE old
    BY <1>1 DEF CashRefunds
  <2>4. old \intersect {r} = {} /\ \A q \in old \union {r} : q.amount \in Int
    BY <1>2, <2>1 DEF CashRefunds
  <2> HIDE DEF old
  <2>5. SumOf(old \union {r}) = SumOf(old) + SumOf({r}) /\ SumOf(old) \in Int
    BY <2>1, <2>2, <2>4, TwoParts
  <2>6. SumOf(CashRefunds(refunds')) = SumOf(old) + (IF r.cash THEN r.amount ELSE 0)
    BY <1>2, <2>2, <2>3, <2>5
  <2> QED BY <2>6 DEF old
<1> QED BY <1>1, <1>4, <1>5

(* Ids given to some: the books stay, and so do the sums.                  *)
LEMMA IdsBooks ==
    ASSUME BooksOK, NEW some, moves' = WithIds(some),
           landedMoves' \subseteq KeysIn(moves), acked' \subseteq Held(landed),
           UNCHANGED <<rung, landed, refunds, landedRefunds>>
    PROVE  BooksOK' /\ SameSums(moves, moves') /\ SumOf(moves') = SumOf(moves)
<1>1. RowsOK(moves) /\ moves' = IdsGiven(moves, some)
  BY DEF BooksOK, WithIds, IdsGiven
<1>2. RowsOK(moves') /\ KeysIn(moves') = KeysIn(moves) /\ SameSums(moves, moves')
      /\ SumOf(moves') = SumOf(moves)
  BY <1>1, IdsKeepSums
<1> QED BY <1>2 DEF BooksOK

LEMMA MoveLandsBooks ==
    ASSUME BooksOK, NEW m \in moves, NEW lost \in BOOLEAN, MoveLands(m, lost)
    PROVE  BooksOK' /\ SameSums(moves, moves') /\ SumOf(moves') = SumOf(moves)
<1>1. /\ landedMoves' = landedMoves \union {m.key} /\ m.key \in KeysIn(moves)
      /\ acked' = acked /\ moves' = IF lost THEN moves ELSE WithIds({m.key})
      /\ UNCHANGED <<rung, landed, refunds, landedRefunds>>
  BY DEF MoveLands, KeysIn
<1>2. landedMoves' \subseteq KeysIn(moves) /\ acked' \subseteq Held(landed)
  BY <1>1 DEF BooksOK
<1>3. CASE lost
  BY <1>1, <1>2, <1>3, SumsAsItself DEF BooksOK
<1>4. CASE ~lost
  BY <1>1, <1>2, <1>4, IdsBooks
<1> QED BY <1>3, <1>4

LEMMA PullBooks ==
    ASSUME BooksOK, PullPage
    PROVE  /\ BooksOK' /\ SameSums(moves, moves') /\ SumOf(moves') = SumOf(moves)
           /\ acked' = Held(landed)
<1>1. /\ acked' = Held(landed) /\ moves' = WithIds(landedMoves)
      /\ UNCHANGED <<rung, landed, landedMoves, refunds, landedRefunds>>
  BY DEF PullPage, server, Held
<1>2. landedMoves' \subseteq KeysIn(moves) /\ acked' \subseteq Held(landed)
  BY <1>1 DEF BooksOK
<1> QED BY <1>1, <1>2, IdsBooks

(* The rest leaves the rows alone, but for a refund that lands.            *)
LEMMA OtherBooks ==
    ASSUME BooksOK,
           \/ \E r \in refunds : RefundLands(r)
           \/ CloseAtTill \/ ForceClose \/ UNCHANGED vars
           \/ \E declared, inputs, replay : ServerClose(declared, inputs, replay)
    PROVE  BooksOK'
<1>1. /\ UNCHANGED <<rung, landed, acked, moves, landedMoves, refunds>>
      /\ landedRefunds' \subseteq refunds
  <2>1. CASE \E r \in refunds : RefundLands(r)
    BY <2>1 DEF RefundLands, device, BooksOK
  <2>2. CASE CloseAtTill
    BY <2>2 DEF CloseAtTill, server, BooksOK
  <2>3. CASE ForceClose
    BY <2>3 DEF ForceClose, device, BooksOK
  <2>4. CASE UNCHANGED vars
    BY <2>4 DEF vars, device, server, BooksOK
  <2>5. CASE \E declared, inputs, replay : ServerClose(declared, inputs, replay)
    BY <2>5 DEF ServerClose, device, BooksOK
  <2> QED BY <2>1, <2>2, <2>3, <2>4, <2>5
<1> QED BY <1>1 DEF BooksOK

LEMMA NextBooks == BooksOK /\ [Next]_vars => BooksOK'
<1> SUFFICES ASSUME BooksOK, [Next]_vars PROVE BooksOK'
  OBVIOUS
<1>1. ASSUME NEW k \in Keys, NEW kind \in SaleKinds, Ring(k, kind) PROVE BooksOK'
  BY <1>1, RingBooks
<1>2. ASSUME NEW k \in Keys, Void(k) PROVE BooksOK'
  BY <1>2, VoidBooks
<1>3. ASSUME NEW m \in MoveKinds, WriteMove(m) PROVE BooksOK'
  BY <1>3, WriteMoveBooks
<1>4. ASSUME NEW m \in moves, NEW lost \in BOOLEAN, MoveLands(m, lost) PROVE BooksOK'
  BY <1>4, MoveLandsBooks
<1>5. ASSUME NEW r \in RefundKinds, IssueRefund(r) PROVE BooksOK'
  BY <1>5, IssueRefundBooks
<1>6. ASSUME NEW k \in Keys, NEW lost \in BOOLEAN, Land(k, lost) PROVE BooksOK'
  BY <1>6, LandBooks
<1>7. ASSUME NEW k \in Keys, VoidLands(k) PROVE BooksOK'
  BY <1>7, VoidLandsBooks
<1>8. ASSUME PullPage PROVE BooksOK'
  BY <1>8, PullBooks
<1>9. ASSUME \/ \E r \in refunds : RefundLands(r)
             \/ CloseAtTill \/ ForceClose \/ UNCHANGED vars
             \/ \E declared, inputs, replay : ServerClose(declared, inputs, replay)
      PROVE  BooksOK'
  BY <1>9, OtherBooks
<1> QED BY <1>1, <1>2, <1>3, <1>4, <1>5, <1>6, <1>7, <1>8, <1>9 DEF Next

-----------------------------------------------------------------------------
(* What each step makes of the drawer.                                     *)

LEMMA BoxInts ==
    ASSUME BooksOK
    PROVE  /\ Opening \in Int /\ Cash(rung, TenderedIn(rung)) \in Nat
           /\ SumOf(moves) \in Int /\ SumOf(CashRefunds(refunds)) \in Int
           /\ BoxOf(rung, moves, refunds) \in Int
<1>1. CopyOK(rung) /\ RowsOK(moves) /\ GivenOK(refunds) /\ TenderedIn(rung) \in SUBSET Held(rung)
  BY DEF BooksOK, TenderedIn
<1>2. Cash(rung, TenderedIn(rung)) \in Nat
  BY <1>1, CashNat
<1>3. SumOf(moves) \in Int
  <2>1. LET rest == { m \in moves : m.key \notin {} }
        IN  /\ SumOf(moves) = SumOf(Keyed(moves, {})) + SumOf(rest)
            /\ SumOf(Keyed(moves, {})) \in Int /\ SumOf(rest) \in Int
    BY <1>1, MovesParts
  <2> QED BY <2>1
<1>4. SumOf(CashRefunds(refunds)) \in Int
  <2>1. refunds \in SUBSET refunds
    OBVIOUS
  <2> QED BY <1>1, <2>1, RefundsParts
<1> QED BY <1>2, <1>3, <1>4 DEF BoxOf

(* Nothing is rung yet.                                                    *)
LEMMA InitDrawer == Init => DrawerInv
<1> SUFFICES ASSUME Init PROVE DrawerInv
  OBVIOUS
<1>1. BooksOK
  BY InitBooks
<1>2. TenderedIn(rung) = {} /\ moves = {} /\ CashRefunds(refunds) = {}
  BY DEF Init, Held, TenderedIn, CashRefunds
<1>3. Cash(rung, {}) = 0
  BY SumNothing DEF Cash
<1>4. box = BoxOf(rung, moves, refunds)
  <2>1. /\ Cash(rung, TenderedIn(rung)) = 0 /\ SumOf(moves) = 0
        /\ SumOf(CashRefunds(refunds)) = 0
    BY <1>2, <1>3, NoAmount
  <2>2. BoxOf(rung, moves, refunds) = Opening + 0 + 0 - 0
    BY <2>1 DEF BoxOf
  <2> QED BY <2>2 DEF Init
<1> QED BY <1>1, <1>4 DEF DrawerInv, Init

(* The figures there were stay figures of the rows there are.              *)
LEMMA FiguresStay ==
    ASSUME DrawerInv, Grown(rung, rung'), SameSums(moves, moves'), refunds \subseteq refunds'
    PROVE  /\ snapshot # None => FigureOn(snapshot, rung', moves', refunds')
           /\ pulled # None => FigureOn(pulled, rung', moves', refunds')
<1> DEFINE b == rung'
           new == moves'
           more == refunds'
<1>1. \A f : FigureOn(f, rung, moves, refunds) => FigureOn(f, b, new, more)
  <2>1. Grown(rung, b) /\ SameSums(moves, new) /\ refunds \subseteq more
    OBVIOUS
  <2> HIDE DEF b, new, more
  <2> QED BY <2>1, FigureStays
<1> QED BY <1>1 DEF DrawerInv

(* A sale rung: its cash goes into the box with it.                        *)
LEMMA RingKeeps ==
    ASSUME CashAsRung, DrawerInv, NEW k \in Keys, NEW kind \in SaleKinds, Ring(k, kind)
    PROVE  DrawerInv'
<1> DEFINE T == TenderedIn(rung)
<1>1. /\ BooksOK' /\ Grown(rung, rung')
      /\ k \notin Held(rung) /\ k \in Held(rung') /\ CashIn(rung'[k]) = CashIn(kind.sale)
      /\ TenderedIn(rung') = T \union {k}
  BY RingBooks DEF DrawerInv
<1>2. /\ box' = box + kind.cashTaken
      /\ UNCHANGED <<landed, acked, moves, refunds, snapshot, pulled>>
  BY DEF Ring, server
<1>3. kind.cashTaken = CashIn(kind.sale) /\ kind.cashTaken \in Nat
  BY DEF CashAsRung
<1>4. /\ T \in SUBSET Held(rung) /\ T \in SUBSET Held(rung') /\ {k} \in SUBSET Held(rung')
      /\ T \intersect {k} = {}
  BY <1>1 DEF Grown, TenderedIn
<1>5. Cash(rung', T \union {k}) = Cash(rung', T) + Cash(rung', {k})
  BY <1>1, <1>4, CashParts DEF Grown
<1>6. Cash(rung', {k}) = kind.cashTaken
  <2> DEFINE f == CashOf(rung')
  <2>1. f[k] = kind.cashTaken /\ f[k] \in Int
    <3>1. \A j \in {k} : CashOf(rung')[j] = CashIn(rung'[j])
      BY <1>1, <1>4, CashNat DEF Grown
    <3> QED BY <1>1, <1>3, <3>1
  <2> HIDE DEF f
  <2>2. SumFunctionOnSet(f, {k}) = f[k]
    BY <2>1, SumOne
  <2> QED BY <2>1, <2>2 DEF Cash, f
<1>7. Cash(rung', T) = Cash(rung, T)
  BY <1>1, <1>4, CashAgrees DEF Grown
<1>8. box' = BoxOf(rung', moves', refunds')
  <2> DEFINE c == Cash(rung, T)
             c2 == Cash(rung', TenderedIn(rung'))
             m == SumOf(moves)
             r == SumOf(CashRefunds(refunds))
  <2>1. c2 = c + kind.cashTaken
    BY <1>1, <1>5, <1>6, <1>7
  <2>2. Opening \in Int /\ c \in Nat /\ m \in Int /\ r \in Int
    BY BoxInts DEF DrawerInv
  <2>3. box = Opening + c + m - r /\ BoxOf(rung', moves', refunds') = Opening + c2 + m - r
    BY <1>2 DEF DrawerInv, BoxOf
  <2> HIDE DEF c, c2, m, r
  <2> QED BY <1>2, <1>3, <2>1, <2>2, <2>3
<1>9. /\ snapshot # None => FigureOn(snapshot, rung', moves', refunds')
      /\ pulled # None => FigureOn(pulled, rung', moves', refunds')
  BY <1>1, <1>2, SumsAsItself, FiguresStay
<1>10. snapshot # None => Covers(snapshot, rung', landed)
  <2>1. k \notin Held(landed)
    BY <1>1 DEF DrawerInv, BooksOK, Mirrors
  <2> QED BY <1>1, <2>1 DEF DrawerInv, Covers
<1> QED BY <1>1, <1>2, <1>8, <1>9, <1>10 DEF DrawerInv

(* A sale voided: its cash goes back, and a figure that has it keeps it.   *)
LEMMA VoidKeeps ==
    ASSUME DrawerInv, NEW k \in Keys, Void(k)
    PROVE  DrawerInv'
<1> DEFINE T == TenderedIn(rung)
<1>1. BooksOK' /\ Grown(rung, rung') /\ k \in T /\ TenderedIn(rung') = T \ {k}
  BY VoidBooks DEF DrawerInv
<1>2. /\ box' = box - CashIn(rung[k])
      /\ UNCHANGED <<landed, acked, moves, refunds, snapshot, pulled>>
  BY DEF Void, server
<1>3. /\ T \ {k} \in SUBSET Held(rung) /\ {k} \in SUBSET Held(rung)
      /\ T \ {k} \in SUBSET Held(rung')
      /\ (T \ {k}) \union {k} = T /\ (T \ {k}) \intersect {k} = {}
  BY <1>1 DEF Grown, TenderedIn
<1>4. Cash(rung, T) = Cash(rung, T \ {k}) + Cash(rung, {k})
  <2> DEFINE A == T \ {k}
  <2> HIDE DEF A
  <2>1. Cash(rung, A \union {k}) = Cash(rung, A) + Cash(rung, {k})
    BY <1>1, <1>3, CashParts DEF Grown, A
  <2> QED BY <1>3, <2>1 DEF A
<1>5. Cash(rung, {k}) = CashIn(rung[k]) /\ CashIn(rung[k]) \in Nat
  <2> DEFINE f == CashOf(rung)
  <2>1. f[k] = CashIn(rung[k]) /\ f[k] \in Nat
    BY <1>1, <1>3, CashNat DEF Grown
  <2> HIDE DEF f
  <2>2. f[k] \in Int
    BY <2>1
  <2>3. SumFunctionOnSet(f, {k}) = f[k]
    BY <2>2, SumOne
  <2> QED BY <2>1, <2>3 DEF Cash, f
<1>6. Cash(rung', T \ {k}) = Cash(rung, T \ {k}) /\ Cash(rung, T \ {k}) \in Nat
  BY <1>1, <1>3, CashAgrees, CashNat DEF Grown
<1>7. box' = BoxOf(rung', moves', refunds')
  <2> DEFINE c == Cash(rung, T)
             c2 == Cash(rung', TenderedIn(rung'))
             out == CashIn(rung[k])
             m == SumOf(moves)
             r == SumOf(CashRefunds(refunds))
  <2>1. c = c2 + out /\ c2 \in Nat /\ out \in Nat
    BY <1>1, <1>4, <1>5, <1>6
  <2>2. Opening \in Int /\ m \in Int /\ r \in Int
    BY BoxInts DEF DrawerInv
  <2>3. box = Opening + c + m - r /\ BoxOf(rung', moves', refunds') = Opening + c2 + m - r
    BY <1>2 DEF DrawerInv, BoxOf
  <2>4. box' = box - out
    BY <1>2
  <2> HIDE DEF c, c2, m, r, out
  <2> QED BY <2>1, <2>2, <2>3, <2>4
<1>8. /\ snapshot # None => FigureOn(snapshot, rung', moves', refunds')
      /\ pulled # None => FigureOn(pulled, rung', moves', refunds')
  BY <1>1, <1>2, SumsAsItself, FiguresStay
<1>9. snapshot # None => Covers(snapshot, rung', landed)
  BY <1>1 DEF DrawerInv, Covers
<1> QED BY <1>1, <1>2, <1>7, <1>8, <1>9 DEF DrawerInv

(* A movement written: its cash goes in or out, and no figure has it.      *)
LEMMA WriteMoveKeeps ==
    ASSUME DrawerInv, NEW m \in MoveKinds, WriteMove(m)
    PROVE  DrawerInv'
<1>1. BooksOK' /\ SameSums(moves, moves') /\ SumOf(moves') = SumOf(moves) + m.amount
  BY WriteMoveBooks DEF DrawerInv
<1>2. /\ box' = box + m.amount /\ m.amount \in Int
      /\ UNCHANGED <<rung, landed, acked, refunds, snapshot, pulled>>
  BY DEF WriteMove, server, MoveRow
<1>3. box' = BoxOf(rung', moves', refunds')
  <2> DEFINE c == Cash(rung, TenderedIn(rung))
             s == SumOf(moves)
             r == SumOf(CashRefunds(refunds))
  <2>1. Opening \in Int /\ c \in Nat /\ s \in Int /\ r \in Int
    BY BoxInts DEF DrawerInv
  <2>2. box = Opening + c + s - r /\ BoxOf(rung', moves', refunds') = Opening + c + (s + m.amount) - r
    BY <1>1, <1>2 DEF DrawerInv, BoxOf
  <2> HIDE DEF c, s, r
  <2> QED BY <1>2, <2>1, <2>2
<1>4. /\ snapshot # None => FigureOn(snapshot, rung', moves', refunds')
      /\ pulled # None => FigureOn(pulled, rung', moves', refunds')
  <2>1. Grown(rung, rung')
    BY <1>2, GrowsToItself DEF DrawerInv, BooksOK
  <2> QED BY <1>1, <1>2, <2>1, FiguresStay
<1> QED BY <1>1, <1>2, <1>3, <1>4 DEF DrawerInv

(* A refund issued: the cash it gives back leaves, and no figure has it.   *)
LEMMA IssueRefundKeeps ==
    ASSUME DrawerInv, NEW q \in RefundKinds, IssueRefund(q)
    PROVE  DrawerInv'
<1> DEFINE out == IF q.cash THEN q.amount ELSE 0
<1>1. /\ BooksOK' /\ refunds \subseteq refunds'
      /\ SumOf(CashRefunds(refunds')) = SumOf(CashRefunds(refunds)) + out
  BY IssueRefundBooks DEF DrawerInv
<1>2. /\ box' = box - out /\ out \in Int
      /\ UNCHANGED <<rung, landed, acked, moves, snapshot, pulled>>
  BY DEF IssueRefund, server
<1> HIDE DEF out
<1>3. box' = BoxOf(rung', moves', refunds')
  <2> DEFINE c == Cash(rung, TenderedIn(rung))
             s == SumOf(moves)
             r == SumOf(CashRefunds(refunds))
  <2>1. Opening \in Int /\ c \in Nat /\ s \in Int /\ r \in Int
    BY BoxInts DEF DrawerInv
  <2>2. box = Opening + c + s - r /\ BoxOf(rung', moves', refunds') = Opening + c + s - (r + out)
    BY <1>1, <1>2 DEF DrawerInv, BoxOf
  <2> HIDE DEF c, s, r
  <2> QED BY <1>2, <2>1, <2>2
<1>4. /\ snapshot # None => FigureOn(snapshot, rung', moves', refunds')
      /\ pulled # None => FigureOn(pulled, rung', moves', refunds')
  <2>1. Grown(rung, rung') /\ SameSums(moves, moves')
    BY <1>2, GrowsToItself, SumsAsItself DEF DrawerInv, BooksOK
  <2> QED BY <1>1, <2>1, FiguresStay
<1> QED BY <1>1, <1>2, <1>3, <1>4 DEF DrawerInv

(* A step that changes what has landed or who knows, but nothing the till  *)
(* wrote and no figure.                                                    *)
LEMMA SyncKeeps ==
    ASSUME DrawerInv, BooksOK', SameSums(moves, moves'), SumOf(moves') = SumOf(moves),
           Held(landed') = Held(landed), acked \subseteq acked',
           UNCHANGED <<rung, refunds, box, snapshot>>,
           pulled' = pulled \/ (pulled' = snapshot /\ acked' = Held(landed))
    PROVE  DrawerInv'
<1>1. box' = BoxOf(rung', moves', refunds')
  BY DEF DrawerInv, BoxOf
<1>2. /\ snapshot # None => FigureOn(snapshot, rung', moves', refunds')
      /\ pulled # None => FigureOn(pulled, rung', moves', refunds')
  <2>1. Grown(rung, rung') /\ refunds \subseteq refunds'
    BY GrowsToItself DEF DrawerInv, BooksOK
  <2> QED BY <2>1, FiguresStay
<1>3. snapshot # None => Covers(snapshot, rung', landed')
  BY DEF DrawerInv, Covers
<1>4. pulled' # None => FigureOn(pulled', rung', moves', refunds') /\ pulled'.sales \subseteq acked'
  <2>1. CASE pulled' = pulled
    BY <1>2, <2>1 DEF DrawerInv
  <2>2. CASE pulled' = snapshot /\ acked' = Held(landed)
    BY <1>2, <2>2 DEF DrawerInv, Covers
  <2> QED BY <2>1, <2>2
<1> QED BY <1>1, <1>2, <1>3, <1>4 DEF DrawerInv

(* A sale landing: a figure frozen before it is made again with it.        *)
LEMMA LandKeeps ==
    ASSUME DrawerInv, NEW k \in Keys, NEW lost \in BOOLEAN, Land(k, lost)
    PROVE  DrawerInv'
<1>1. /\ BooksOK' /\ CopyOK(landed') /\ Mirrors(landed', rung)
      /\ Held(landed) \subseteq Held(landed') /\ acked \subseteq acked'
  BY LandBooks DEF DrawerInv
<1>2. /\ landed[k] # NoSale => landed' = landed
      /\ snapshot' = IF snapshot # None /\ landed[k] = NoSale THEN Figure(landed') ELSE snapshot
      /\ UNCHANGED <<rung, moves, refunds, box, pulled>>
  BY DEF Land
<1>3. BooksOK
  BY DEF DrawerInv
<1>4. CASE snapshot # None /\ landed[k] = NoSale
  <2>1. FigureOn(Figure(landed'), rung, moves, refunds) /\ Covers(Figure(landed'), rung, landed')
    BY <1>1, <1>3, FigureIs
  <2> QED BY <1>1, <1>2, <1>4, <2>1 DEF DrawerInv
<1>5. CASE snapshot = None \/ landed[k] # NoSale
  BY <1>1, <1>2, <1>5 DEF DrawerInv
<1> QED BY <1>4, <1>5

(* A close freezes the server's figure of what has landed.                 *)
LEMMA FreezeKeeps ==
    ASSUME DrawerInv, snapshot' = Figure(landed),
           UNCHANGED <<rung, landed, acked, moves, landedMoves, refunds, landedRefunds, box, pulled>>
    PROVE  DrawerInv'
<1>1. BooksOK /\ BooksOK' /\ CopyOK(landed) /\ Mirrors(landed, rung)
  BY DEF DrawerInv, BooksOK
<1>2. FigureOn(Figure(landed), rung, moves, refunds) /\ Covers(Figure(landed), rung, landed)
  BY <1>1, FigureIs
<1> QED BY <1>1, <1>2 DEF DrawerInv

LEMMA NextKeeps == CashAsRung /\ DrawerInv /\ [Next]_vars => DrawerInv'
<1> SUFFICES ASSUME CashAsRung, DrawerInv, [Next]_vars PROVE DrawerInv'
  OBVIOUS
<1>0. BooksOK /\ BooksOK'
  BY NextBooks DEF DrawerInv
<1>1. ASSUME NEW k \in Keys, NEW kind \in SaleKinds, Ring(k, kind) PROVE DrawerInv'
  BY <1>1, RingKeeps
<1>2. ASSUME NEW k \in Keys, Void(k) PROVE DrawerInv'
  BY <1>2, VoidKeeps
<1>3. ASSUME NEW m \in MoveKinds, WriteMove(m) PROVE DrawerInv'
  BY <1>3, WriteMoveKeeps
<1>4. ASSUME NEW m \in moves, NEW lost \in BOOLEAN, MoveLands(m, lost) PROVE DrawerInv'
  <2>1. SameSums(moves, moves') /\ SumOf(moves') = SumOf(moves)
    BY <1>0, <1>4, MoveLandsBooks
  <2>2. UNCHANGED <<rung, landed, acked, refunds, box, snapshot, pulled>>
    BY <1>4 DEF MoveLands
  <2> QED BY <1>0, <2>1, <2>2, SyncKeeps
<1>5. ASSUME NEW r \in RefundKinds, IssueRefund(r) PROVE DrawerInv'
  BY <1>5, IssueRefundKeeps
<1>6. ASSUME NEW k \in Keys, NEW lost \in BOOLEAN, Land(k, lost) PROVE DrawerInv'
  BY <1>6, LandKeeps
<1>7. ASSUME NEW k \in Keys, VoidLands(k) PROVE DrawerInv'
  <2>1. Held(landed') = Held(landed)
    BY <1>0, <1>7, VoidLandsBooks
  <2>2. UNCHANGED <<rung, acked, moves, refunds, box, snapshot, pulled>>
    BY <1>7 DEF VoidLands, device
  <2> QED BY <1>0, <2>1, <2>2, SumsAsItself, SyncKeeps
<1>8. ASSUME PullPage PROVE DrawerInv'
  <2>1. SameSums(moves, moves') /\ SumOf(moves') = SumOf(moves) /\ acked' = Held(landed)
    BY <1>0, <1>8, PullBooks
  <2>2. UNCHANGED <<rung, landed, refunds, box, snapshot>> /\ pulled' = snapshot
    BY <1>8 DEF PullPage, server
  <2>3. acked \subseteq acked'
    BY <1>0, <2>1 DEF BooksOK
  <2> QED BY <1>0, <2>1, <2>2, <2>3, SyncKeeps
<1>9. ASSUME (\E r \in refunds : RefundLands(r)) \/ CloseAtTill \/ UNCHANGED vars
      PROVE  DrawerInv'
  <2>1. UNCHANGED <<rung, landed, acked, moves, refunds, box, snapshot, pulled>>
    BY <1>9 DEF RefundLands, CloseAtTill, vars, device, server
  <2> QED BY <1>0, <2>1, SumsAsItself, SyncKeeps
<1>10. ASSUME NEW declared, NEW inputs, NEW replay, ServerClose(declared, inputs, replay)
       PROVE  DrawerInv'
  <2>1. /\ snapshot' = Figure(landed)
        /\ UNCHANGED <<rung, landed, acked, moves, landedMoves, refunds, landedRefunds, box, pulled>>
    BY <1>10 DEF ServerClose, device
  <2> QED BY <2>1, FreezeKeeps
<1>11. ASSUME ForceClose PROVE DrawerInv'
  <2>1. /\ snapshot' = Figure(landed)
        /\ UNCHANGED <<rung, landed, acked, moves, landedMoves, refunds, landedRefunds, box, pulled>>
    BY <1>11 DEF ForceClose, device
  <2> QED BY <2>1, FreezeKeeps
<1> QED BY <1>1, <1>2, <1>3, <1>4, <1>5, <1>6, <1>7, <1>8, <1>9, <1>10, <1>11 DEF Next

(* However sales, voids, movements and refunds are written, queue, land    *)
(* and are pulled, whoever closes the till and when, the device's drawer   *)
(* is right, but for what a closed till leaves out (report.rs:342-420).    *)
THEOREM DrawerAlwaysRight == ASSUME CashAsRung PROVE Spec => []DrawerIsRight
<1>1. Init => DrawerInv
  BY InitDrawer
<1>2. DrawerInv /\ [Next]_vars => DrawerInv'
  BY NextKeeps
<1>3. DrawerInv => DrawerIsRight
  BY InvIsRight
<1> QED BY <1>1, <1>2, <1>3, PTL DEF Spec

-----------------------------------------------------------------------------
(* The report's lists.                                                     *)

(* A total over labelled lines is the sum of what the labels stand for.    *)
LEMMA LinesTotal ==
    ASSUME NEW W, IsFiniteSet(W), NEW line, \A v, w \in W : line[v] = line[w] => v = w,
           NEW g, NEW h, \A w \in W : /\ line[w].total = g[w] /\ g[w] \in Int
    PROVE  Total(LAMBDA p : p.total, { line[w] : w \in W }) = SumFunctionOnSet(g, W)
<1> DEFINE R == { line[w] : w \in W }
           f == [p \in R |-> p.total]
<1>1. \A w \in W : f[line[w]] = g[w] /\ g[w] \in Int
  OBVIOUS
<1>2. Total(LAMBDA p : p.total, R) = SumFunctionOnSet(f, R)
  BY DEF Total
<1> HIDE DEF f
<1>3. SumFunctionOnSet(f, { line[w] : w \in W }) = SumFunctionOnSet(g, W)
  BY <1>1, SumImage
<1> QED BY <1>2, <1>3

LEMMA LinesTips ==
    ASSUME NEW W, IsFiniteSet(W), NEW line, \A v, w \in W : line[v] = line[w] => v = w,
           NEW g, \A w \in W : /\ line[w].tips = g[w] /\ g[w] \in Int
    PROVE  Total(LAMBDA p : p.tips, { line[w] : w \in W }) = SumFunctionOnSet(g, W)
<1> DEFINE R == { line[w] : w \in W }
           f == [p \in R |-> p.tips]
<1>1. \A w \in W : f[line[w]] = g[w] /\ g[w] \in Int
  OBVIOUS
<1>2. Total(LAMBDA p : p.tips, R) = SumFunctionOnSet(f, R)
  BY DEF Total
<1> HIDE DEF f
<1>3. SumFunctionOnSet(f, { line[w] : w \in W }) = SumFunctionOnSet(g, W)
  BY <1>1, SumImage
<1> QED BY <1>2, <1>3

SalesOK(sales) == IsFiniteSet(sales) /\ sales \subseteq Row

(* The legs of some sales, each by its place, and what each is worth.      *)
Places(o, some) == { <<o, k>> : k \in some }
LegsOf(sales) == UNION { Places(o, DOMAIN o.legs) : o \in sales }
Worth(S) == [q \in S |-> q[1].legs[q[2]].amount]

LEMMA PlacesSum ==
    ASSUME NEW S, NEW o \in Row, NEW some \in SUBSET (DOMAIN o.legs), Places(o, some) \subseteq S
    PROVE  /\ SumFunctionOnSet(Worth(S), Places(o, some)) = LegSum(o.legs, some)
           /\ LegSum(o.legs, some) \in Nat /\ IsFiniteSet(Places(o, some))
<1> DEFINE f == Worth(S)
           g == [k \in some |-> o.legs[k].amount]
           row == [k \in some |-> <<o, k>>]
<1>1. IsFiniteSet(some) /\ \A k \in some : g[k] \in Nat
  BY LegsAre, FS_Subset
<1>2. \A k \in some : f[row[k]] = g[k]
  <2> TAKE k \in some
  <2>1. <<o, k>> \in S
    BY DEF Places
  <2> QED BY <2>1 DEF Worth
<1>3. \A j, k \in some : row[j] = row[k] => j = k
  OBVIOUS
<1>4. Places(o, some) = { row[k] : k \in some }
  BY DEF Places
<1> HIDE DEF f, g, row
<1>5. SumFunctionOnSet(f, { row[k] : k \in some }) = SumFunctionOnSet(g, some)
  BY <1>1, <1>2, <1>3, SumImage
<1>6. SumFunctionOnSet(g, some) \in Nat
  BY <1>1, SumNat
<1>7. IsFiniteSet({ row[k] : k \in some })
  BY <1>1, ImageFinite
<1> QED BY <1>4, <1>5, <1>6, <1>7 DEF LegSum, f, g

(* By sale, the legs add up to what each sale's do.                        *)
LEMMA LegsBySale ==
    ASSUME NEW sales, SalesOK(sales)
    PROVE  /\ IsFiniteSet(LegsOf(sales)) /\ \A q \in LegsOf(sales) : Worth(LegsOf(sales))[q] \in Nat
           /\ Total(LAMBDA o : LegTotal(o.legs), sales)
                = SumFunctionOnSet(Worth(LegsOf(sales)), LegsOf(sales))
<1> DEFINE S == LegsOf(sales)
           f == Worth(S)
           g == [o \in sales |-> LegTotal(o.legs)]
           part == [o \in sales |-> Places(o, DOMAIN o.legs)]
<1>1. \A o \in sales : /\ part[o] \subseteq S /\ IsFiniteSet(part[o])
                       /\ g[o] = SumFunctionOnSet(f, part[o])
  <2> TAKE o \in sales
  <2>1. o \in Row /\ Places(o, DOMAIN o.legs) \subseteq S
    BY DEF SalesOK, LegsOf
  <2>2. SumFunctionOnSet(Worth(S), Places(o, DOMAIN o.legs)) = LegSum(o.legs, DOMAIN o.legs)
        /\ IsFiniteSet(Places(o, DOMAIN o.legs))
    BY <2>1, PlacesSum
  <2> QED BY <2>1, <2>2 DEF LegTotal
<1>2. \A q \in S : \E o \in sales : q \in part[o] /\ q[1] = o /\ q[2] \in DOMAIN o.legs
  BY DEF LegsOf, Places
<1>3. \A o, p \in sales : o # p => part[o] \intersect part[p] = {}
  BY DEF Places
<1>4. \A q \in S : f[q] \in Nat
  <2> TAKE q \in S
  <2>1. PICK o \in sales : q[1] = o /\ q[2] \in DOMAIN o.legs
    BY <1>2
  <2>2. o \in Row
    BY DEF SalesOK
  <2>3. o.legs[q[2]].amount \in Nat
    BY <2>1, <2>2, LegsAre
  <2> QED BY <2>1, <2>3 DEF Worth
<1>5. IsFiniteSet(S)
  <2>1. S = UNION { part[o] : o \in sales }
    BY DEF LegsOf
  <2>2. IsFiniteSet({ part[o] : o \in sales })
    <3> HIDE DEF part
    <3> QED BY ImageFinite DEF SalesOK
  <2>3. \A T \in { part[o] : o \in sales } : IsFiniteSet(T)
    BY <1>1
  <2> HIDE DEF S, part
  <2> QED BY <2>1, <2>2, <2>3, FS_UNION
<1>6. Total(LAMBDA o : LegTotal(o.legs), sales) = SumFunctionOnSet(g, sales)
  BY DEF Total
<1> HIDE DEF S, f, g, part
<1>7. (\A q \in S : f[q] \in Int) /\ \A q \in S : \E o \in sales : q \in part[o]
  BY <1>2, <1>4
<1>8. SumFunctionOnSet(g, sales) = SumFunctionOnSet(f, S)
  BY <1>1, <1>3, <1>5, <1>7, SumParts DEF SalesOK
<1> QED BY <1>4, <1>5, <1>6, <1>8 DEF S, f

SoldOf(sales) == { o \in sales : Sold(o) }
Uses(sales, m) == { o \in SoldOf(sales) : m \in MethodsOf(o) }
MethodsIn(sales) == UNION { MethodsOf(o) : o \in SoldOf(sales) }

(* By method, a method's legs over the sales that use it.                  *)
LEMMA LegsOfMethod ==
    ASSUME NEW sales, SalesOK(sales), NEW m
    PROVE  LET S == LegsOf(SoldOf(sales))
           IN  Total(LAMBDA o : LegSum(o.legs, MethodLegs(o, m)), Uses(sales, m))
                 = SumFunctionOnSet(Worth(S), { q \in S : q[1].legs[q[2]].method = m })
<1> DEFINE S == LegsOf(SoldOf(sales))
           f == Worth(S)
           W == Uses(sales, m)
           Q == { q \in S : q[1].legs[q[2]].method = m }
           g == [o \in W |-> LegSum(o.legs, MethodLegs(o, m))]
           part == [o \in W |-> Places(o, MethodLegs(o, m))]
<1>1. SalesOK(SoldOf(sales)) /\ IsFiniteSet(W)
  BY FS_Subset DEF SalesOK, SoldOf, Uses
<1>2. IsFiniteSet(S) /\ \A q \in S : f[q] \in Nat
  BY <1>1, LegsBySale
<1>3. IsFiniteSet(Q) /\ \A q \in Q : f[q] \in Int
  BY <1>2, FS_Subset
<1>4. \A o \in W : part[o] \subseteq Q /\ g[o] = SumFunctionOnSet(f, part[o])
  <2> TAKE o \in W
  <2>1. o \in Row /\ o \in SoldOf(sales) /\ MethodLegs(o, m) \in SUBSET (DOMAIN o.legs)
    BY <1>1 DEF SalesOK, Uses, MethodLegs
  <2>2. Places(o, MethodLegs(o, m)) \subseteq S
    BY <2>1 DEF LegsOf, Places
  <2>3. Places(o, MethodLegs(o, m)) \subseteq Q
    BY <2>2 DEF Places, MethodLegs
  <2>4. SumFunctionOnSet(Worth(S), Places(o, MethodLegs(o, m))) = LegSum(o.legs, MethodLegs(o, m))
    BY <2>1, <2>2, PlacesSum
  <2> QED BY <2>3, <2>4
<1>5. \A q \in Q : \E o \in W : q \in part[o]
  <2> TAKE q \in Q
  <2>1. PICK o \in SoldOf(sales) : q \in Places(o, DOMAIN o.legs)
    BY DEF LegsOf
  <2>2. PICK k \in DOMAIN o.legs : q = <<o, k>>
    BY <2>1 DEF Places
  <2>3. o.legs[k].method = m
    BY <2>2
  <2>4. k \in MethodLegs(o, m) /\ o \in W
    BY <2>3 DEF MethodLegs, Uses, MethodsOf
  <2> QED BY <2>2, <2>4 DEF Places
<1>6. \A o, p \in W : o # p => part[o] \intersect part[p] = {}
  BY DEF Places
<1>7. Total(LAMBDA o : LegSum(o.legs, MethodLegs(o, m)), W) = SumFunctionOnSet(g, W)
  BY DEF Total
<1> HIDE DEF S, f, g, part, W, Q
<1>8. SumFunctionOnSet(g, W) = SumFunctionOnSet(f, Q)
  BY <1>1, <1>3, <1>4, <1>5, <1>6, SumParts
<1> QED BY <1>7, <1>8 DEF S, f, W, Q

(* The payments add up to the legs of the sold sales.                      *)
LEMMA PaymentsTotal ==
    ASSUME NEW sales, SalesOK(sales)
    PROVE  TotalPayments(sales) = Total(LAMBDA o : LegTotal(o.legs), SoldOf(sales))
<1> DEFINE S == LegsOf(SoldOf(sales))
           f == Worth(S)
           M == MethodsIn(sales)
           part == [m \in M |-> { q \in S : q[1].legs[q[2]].method = m }]
           g == [m \in M |-> Total(LAMBDA o : LegSum(o.legs, MethodLegs(o, m)), Uses(sales, m))]
           line == [m \in M |->
                      [method |-> m,
                       cash |-> \E o \in Uses(sales, m) : \E k \in DOMAIN o.legs :
                                    o.legs[k].method = m /\ o.legs[k].cash,
                       total |-> Total(LAMBDA o : LegSum(o.legs, MethodLegs(o, m)), Uses(sales, m)),
                       orders |-> Cardinality(Uses(sales, m))]]
<1>1. SalesOK(SoldOf(sales))
  BY FS_Subset DEF SalesOK, SoldOf
<1>2. IsFiniteSet(S) /\ \A q \in S : f[q] \in Nat
  BY <1>1, LegsBySale
<1>3. IsFiniteSet(M)
  <2>1. \A o \in SoldOf(sales) : IsFiniteSet(MethodsOf(o))
    <3> TAKE o \in SoldOf(sales)
    <3> DEFINE D == DOMAIN o.legs
               name == [k \in D |-> o.legs[k].method]
    <3>1. IsFiniteSet(D)
      BY <1>1, LegsAre DEF SalesOK
    <3>2. MethodsOf(o) = { name[k] : k \in D }
      BY DEF MethodsOf
    <3> HIDE DEF name, D
    <3> QED BY <3>1, <3>2, ImageFinite
  <2> DEFINE h == [o \in SoldOf(sales) |-> MethodsOf(o)]
             H == { h[o] : o \in SoldOf(sales) }
  <2>2. IsFiniteSet(H)
    <3> HIDE DEF h
    <3> QED BY <1>1, ImageFinite DEF SalesOK
  <2>3. (\A T \in H : IsFiniteSet(T)) /\ M = UNION H
    BY <2>1 DEF MethodsIn
  <2> HIDE DEF H, M
  <2> QED BY <2>2, <2>3, FS_UNION
<1>4. \A m \in M : part[m] \subseteq S /\ g[m] = SumFunctionOnSet(f, part[m])
  <2> TAKE m \in M
  <2>1. Total(LAMBDA o : LegSum(o.legs, MethodLegs(o, m)), Uses(sales, m))
          = SumFunctionOnSet(f, { q \in S : q[1].legs[q[2]].method = m })
    BY LegsOfMethod
  <2> HIDE DEF S, f
  <2> QED BY <2>1
<1>5. \A q \in S : \E m \in M : q \in part[m]
  <2> TAKE q \in S
  <2>1. PICK o \in SoldOf(sales) : q \in Places(o, DOMAIN o.legs)
    BY DEF LegsOf
  <2>2. PICK k \in DOMAIN o.legs : q = <<o, k>>
    BY <2>1 DEF Places
  <2>3. o.legs[k].method \in M
    BY DEF MethodsIn, MethodsOf
  <2> QED BY <2>2, <2>3
<1>6. \A m, n \in M : m # n => part[m] \intersect part[n] = {}
  OBVIOUS
<1>7. \A m \in M : g[m] \in Int
  <2> TAKE m \in M
  <2>1. part[m] \subseteq S /\ g[m] = SumFunctionOnSet(f, part[m])
    BY <1>4
  <2> HIDE DEF part, g, f, S
  <2>2. IsFiniteSet(part[m]) /\ \A q \in part[m] : f[q] \in Int
    BY <1>2, <2>1, FS_Subset
  <2> QED BY <2>1, <2>2, SumType
<1>8. \A m \in M : line[m].total = g[m] /\ line[m].method = m
  OBVIOUS
<1>9. PaymentSummary(sales) = { line[m] : m \in M }
  BY DEF PaymentSummary, Uses, SoldOf, MethodsIn
<1> HIDE DEF S, f, M, part, g, line
<1>10. Total(LAMBDA p : p.total, { line[m] : m \in M }) = SumFunctionOnSet(g, M)
  BY <1>3, <1>7, <1>8, LinesTotal
<1>11. SumFunctionOnSet(g, M) = SumFunctionOnSet(f, S)
  <2>1. \A q \in S : f[q] \in Int
    BY <1>2
  <2> QED BY <1>2, <1>3, <1>4, <1>5, <1>6, <2>1, SumParts
<1>12. Total(LAMBDA o : LegTotal(o.legs), SoldOf(sales)) = SumFunctionOnSet(f, S)
  BY <1>1, LegsBySale DEF S, f
<1> QED BY <1>9, <1>10, <1>11, <1>12 DEF TotalPayments

(* The people's lines add up to the same, and to the tips.                 *)
LEMMA PeopleTotal ==
    ASSUME NEW sales, SalesOK(sales), ByPerson(sales) # {}
    PROVE  /\ Total(LAMBDA p : p.total, ByPerson(sales)) = Total(LAMBDA o : LegTotal(o.legs), SoldOf(sales))
           /\ Total(LAMBDA p : p.tips, ByPerson(sales)) = TotalTips(sales)
           /\ \A p \in ByPerson(sales) : p.person = None => \E o \in sales : o.soldBy = None /\ o.teller = None
<1> DEFINE S == SoldOf(sales)
           W == { Person(o) : o \in S }
           f == [o \in S |-> LegTotal(o.legs)]
           t == [o \in S |-> o.tip]
           part == [w \in W |-> { o \in S : Person(o) = w }]
           g == [w \in W |-> Total(LAMBDA o : LegTotal(o.legs), part[w])]
           h == [w \in W |-> Total(LAMBDA o : o.tip, part[w])]
           line == [w \in W |->
                      [person |-> w, orders |-> Cardinality(part[w]),
                       total |-> Total(LAMBDA o : LegTotal(o.legs), part[w]),
                       tips |-> Total(LAMBDA o : o.tip, part[w])]]
<1>1. IsFiniteSet(S) /\ S \subseteq Row
  BY FS_Subset DEF SalesOK, SoldOf
<1>2. \A o \in S : f[o] \in Int /\ t[o] \in Int
  <2> TAKE o \in S
  <2>1. o \in Row /\ Places(o, DOMAIN o.legs) \subseteq Places(o, DOMAIN o.legs)
    BY <1>1
  <2>2. LegSum(o.legs, DOMAIN o.legs) \in Nat /\ o.tip \in Nat
    BY <2>1, PlacesSum, LegsAre
  <2> QED BY <2>2 DEF LegTotal
<1>3. IsFiniteSet(W)
  <2> DEFINE who == [o \in S |-> Person(o)]
  <2>1. W = { who[o] : o \in S }
    OBVIOUS
  <2> HIDE DEF who, W, S
  <2> QED BY <1>1, <2>1, ImageFinite
<1>4. \A w \in W : part[w] \subseteq S
  OBVIOUS
<1>5. \A w \in W : /\ g[w] = SumFunctionOnSet(f, part[w]) /\ h[w] = SumFunctionOnSet(t, part[w])
                   /\ g[w] \in Int /\ h[w] \in Int
  <2> TAKE w \in W
  <2> DEFINE P == part[w]
             a == [o \in P |-> LegTotal(o.legs)]
             b == [o \in P |-> o.tip]
  <2>1. g[w] = SumFunctionOnSet(a, P) /\ h[w] = SumFunctionOnSet(b, P)
    BY DEF Total
  <2>2. IsFiniteSet(P) /\ (\A o \in P : a[o] = f[o] /\ b[o] = t[o] /\ f[o] \in Int /\ t[o] \in Int)
    BY <1>1, <1>2, <1>4, FS_Subset
  <2> HIDE DEF P, a, b, f, t, g, h
  <2>3. SumFunctionOnSet(a, P) = SumFunctionOnSet(f, P) /\ SumFunctionOnSet(b, P) = SumFunctionOnSet(t, P)
    BY <2>2, SumSame
  <2>4. SumFunctionOnSet(f, P) \in Int /\ SumFunctionOnSet(t, P) \in Int
    BY <2>2, SumType
  <2> QED BY <2>1, <2>3, <2>4 DEF P
<1>6. \A o \in S : \E w \in W : o \in part[w]
  OBVIOUS
<1>7. \A v, w \in W : v # w => part[v] \intersect part[w] = {}
  OBVIOUS
<1>8. ByPerson(sales) = { line[w] : w \in W }
  BY DEF ByPerson, SoldOf
<1>9. \A w \in W : line[w].total = g[w] /\ line[w].tips = h[w] /\ line[w].person = w
  OBVIOUS
<1>10. \A p \in ByPerson(sales) : p.person = None => \E o \in sales : o.soldBy = None /\ o.teller = None
  <2> TAKE p \in ByPerson(sales)
  <2> HAVE p.person = None
  <2>1. PICK w \in W : p = line[w]
    BY <1>8
  <2>2. w = None
    BY <1>9, <2>1
  <2>3. PICK o \in S : Person(o) = None
    BY <2>2
  <2> QED BY <2>3 DEF Person, OrElse, SoldOf
<1>11. Total(LAMBDA o : LegTotal(o.legs), S) = SumFunctionOnSet(f, S) /\ TotalTips(sales) = SumFunctionOnSet(t, S)
  BY DEF Total, TotalTips, SoldOf
<1> HIDE DEF S, W, f, t, part, g, h, line
<1>12. \A v, w \in W : line[v] = line[w] => v = w
  BY <1>9
<1>13. Total(LAMBDA p : p.total, { line[w] : w \in W }) = SumFunctionOnSet(g, W)
  BY <1>3, <1>5, <1>9, <1>12, LinesTotal
<1>14. Total(LAMBDA p : p.tips, { line[w] : w \in W }) = SumFunctionOnSet(h, W)
  BY <1>3, <1>5, <1>9, <1>12, LinesTips
<1>15. SumFunctionOnSet(g, W) = SumFunctionOnSet(f, S)
  BY <1>1, <1>2, <1>3, <1>4, <1>5, <1>6, <1>7, SumParts
<1>16. SumFunctionOnSet(h, W) = SumFunctionOnSet(t, S)
  BY <1>1, <1>2, <1>3, <1>4, <1>5, <1>6, <1>7, SumParts
<1> QED BY <1>8, <1>10, <1>11, <1>13, <1>14, <1>15, <1>16 DEF S

-----------------------------------------------------------------------------
(* What was written as n, before or after it got its id.                   *)
Written(m, n) == m = n \/ m = [n EXCEPT !.serverId = n.id]

ListsInv ==
    /\ rung \in [Keys -> Row \union {NoSale}] /\ IsFiniteSet(Held(rung))
    /\ \A m \in moves : \E n \in MoveKinds : Written(m, n)
    /\ \A m \in moves : m.corrects # None => \E n \in moves : m.corrects \in Names(n)

(* A correction's bucket is the kind it reverses; any other movement's its *)
(* own.                                                                    *)
LEMMA BucketIs ==
    ASSUME ListsInv, NEW m \in moves
    PROVE  /\ m.kind \in STRING
           /\ \A kind \in STRING \ {"correction"} :
                  Bucket(moves, m) = kind <=> kind \in {m.kind, m.reverses}
<1>1. PICK n \in MoveKinds : Written(m, n)
  BY DEF ListsInv
<1>2. n \in MoveRow /\ ReversesWhatItCorrects(n) /\ None \notin STRING
  OBVIOUS
<1>3. m.kind = n.kind /\ m.corrects = n.corrects /\ m.reverses = n.reverses
      /\ n.kind \in STRING /\ n.reverses \in Optional(STRING)
  BY <1>1, <1>2 DEF Written, MoveRow
<1>4. CASE m.kind # "correction" \/ m.corrects = None
  <2>1. m.reverses = None
    BY <1>2, <1>3, <1>4 DEF ReversesWhatItCorrects
  <2>2. Bucket(moves, m) = m.kind
    BY <1>4 DEF Bucket, CorrectsKind, OrElse
  <2> QED BY <1>2, <1>3, <2>1, <2>2
<1>5. CASE m.kind = "correction" /\ m.corrects # None
  <2> DEFINE corrected == { r \in moves : m.corrects \in Names(r) }
  <2>1. corrected # {}
    BY <1>5 DEF ListsInv
  <2>2. \A r \in corrected : r.kind = m.reverses /\ r.kind \in STRING
    <3> TAKE r \in corrected
    <3>1. PICK q \in MoveKinds : Written(r, q)
      BY DEF ListsInv
    <3>2. q \in MoveRow /\ q.serverId = None
      OBVIOUS
    <3>3. r.key = q.key /\ r.kind = q.kind /\ q.kind \in STRING /\ r.serverId \in {None, q.id}
      BY <3>1, <3>2 DEF Written, MoveRow
    <3>4. m.corrects \in {q.key, q.id}
      BY <3>3 DEF Names
    <3>5. n.reverses = q.kind
      BY <1>2, <1>3, <1>5, <3>4 DEF ReversesWhatItCorrects
    <3> QED BY <1>3, <3>3, <3>5
  <2>3. CorrectsKind(moves, m) = m.reverses /\ m.reverses \in STRING
    <3> DEFINE c == CHOOSE r \in corrected : TRUE
    <3>1. c \in corrected
      BY <2>1
    <3>2. CorrectsKind(moves, m) = c.kind
      BY <1>5, <2>1 DEF CorrectsKind
    <3> HIDE DEF c, corrected
    <3> QED BY <2>2, <3>1, <3>2
  <2>4. Bucket(moves, m) = m.reverses
    BY <1>2, <1>5, <2>3 DEF Bucket, OrElse
  <2> QED BY <1>3, <1>5, <2>3, <2>4
<1> QED BY <1>3, <1>4, <1>5

LEMMA InvLists == ListsInv => ListsAddUp
<1> SUFFICES ASSUME ListsInv PROVE ListsAddUp
  OBVIOUS
<1>1. SalesOK(Rows(rung))
  <2> DEFINE K == Held(rung)
  <2>1. Rows(rung) = { rung[k] : k \in K }
    BY DEF Rows, Held
  <2>2. IsFiniteSet(K) /\ \A k \in K : rung[k] \in Row
    BY DEF ListsInv, Held
  <2> HIDE DEF K
  <2>3. IsFiniteSet({ rung[k] : k \in K })
    BY <2>2, ImageFinite
  <2> QED BY <2>1, <2>2, <2>3 DEF SalesOK
<1>2. PeopleAddUp
  BY <1>1, PaymentsTotal, PeopleTotal DEF PeopleAddUp
<1>3. CorrectionsFindTheirMovement
  <2> SUFFICES ASSUME NEW kind \in { m.kind : m \in moves } \ {"correction"}
               PROVE  BucketTotal(moves, kind) =
                        Total(LAMBDA m : m.amount, { m \in moves : kind \in {m.kind, m.reverses} })
    BY DEF CorrectionsFindTheirMovement
  <2>1. kind \in STRING \ {"correction"}
    BY BucketIs
  <2>2. { r \in moves : Bucket(moves, r) = kind } = { m \in moves : kind \in {m.kind, m.reverses} }
    BY <2>1, BucketIs
  <2> QED BY <2>2 DEF BucketTotal
<1> QED BY <1>2, <1>3 DEF ListsAddUp

(* A movement that gets its id stays what it was written as, under the     *)
(* names it had.                                                           *)
LEMMA IdKeepsNames ==
    ASSUME NEW m, NEW q \in MoveKinds, Written(m, q), NEW some
    PROVE  LET n == IF m.key \in some THEN [m EXCEPT !.serverId = m.id] ELSE m
           IN  Written(n, q) /\ n.corrects = m.corrects /\ Names(m) \subseteq Names(n)
<1> DEFINE n == IF m.key \in some THEN [m EXCEPT !.serverId = m.id] ELSE m
<1>1. q \in MoveRow /\ q.serverId = None
  OBVIOUS
<1>2. n \in {q, [q EXCEPT !.serverId = q.id]} /\ (m = q \/ n = m)
  BY <1>1 DEF Written, MoveRow
<1>3. /\ [q EXCEPT !.serverId = q.id].corrects = q.corrects
      /\ [q EXCEPT !.serverId = q.id].key = q.key
  BY <1>1 DEF MoveRow
<1> HIDE DEF n
<1>4. Written(n, q)
  BY <1>2 DEF Written
<1>5. n.corrects = m.corrects /\ Names(m) \subseteq Names(n)
  BY <1>1, <1>2, <1>3 DEF Names
<1> QED BY <1>4, <1>5 DEF n

LEMMA IdsKeepLists ==
    ASSUME ListsInv, NEW some, rung' = rung, moves' = WithIds(some)
    PROVE  ListsInv'
<1> DEFINE row == [m \in moves |-> IF m.key \in some THEN [m EXCEPT !.serverId = m.id] ELSE m]
<1>1. \A m \in moves : /\ \E q \in MoveKinds : Written(row[m], q)
                       /\ row[m].corrects = m.corrects /\ Names(m) \subseteq Names(row[m])
  <2> TAKE m \in moves
  <2>1. PICK q \in MoveKinds : Written(m, q)
    BY DEF ListsInv
  <2>2. /\ Written(row[m], q)
        /\ row[m].corrects = m.corrects /\ Names(m) \subseteq Names(row[m])
    BY <2>1, IdKeepsNames
  <2> QED BY <2>2
<1>2. moves' = { row[m] : m \in moves }
  BY DEF WithIds
<1> HIDE DEF row
<1>3. \A n \in moves' : \E q \in MoveKinds : Written(n, q)
  BY <1>1, <1>2
<1>4. \A n \in moves' : n.corrects # None => \E p \in moves' : n.corrects \in Names(p)
  <2> SUFFICES ASSUME NEW m \in moves, row[m].corrects # None
               PROVE  \E p \in moves' : row[m].corrects \in Names(p)
    BY <1>2
  <2>1. PICK p \in moves : m.corrects \in Names(p)
    BY <1>1 DEF ListsInv
  <2>2. row[p] \in moves' /\ row[m].corrects \in Names(row[p])
    BY <1>1, <1>2, <2>1
  <2> QED BY <2>2
<1> QED BY <1>3, <1>4 DEF ListsInv

LEMMA NextLists == ListsInv /\ [Next]_vars => ListsInv'
<1> SUFFICES ASSUME ListsInv, [Next]_vars PROVE ListsInv'
  OBVIOUS
<1>1. ASSUME rung' = rung, moves' = moves PROVE ListsInv'
  BY <1>1 DEF ListsInv
<1>2. ASSUME NEW k \in Keys, NEW row \in Row, rung' = [rung EXCEPT ![k] = row], moves' = moves
      PROVE  ListsInv'
  <2>1. rung \in [Keys -> Row \union {NoSale}] /\ IsFiniteSet(Held(rung))
    BY DEF ListsInv
  <2>2. rung' \in [Keys -> Row \union {NoSale}]
    BY <1>2, <2>1
  <2>3. Held(rung') \subseteq Held(rung) \union {k}
    BY <1>2, <2>1 DEF Held
  <2>4. IsFiniteSet(Held(rung) \union {k})
    BY <2>1, FS_AddElement
  <2>5. IsFiniteSet(Held(rung'))
    BY <2>3, <2>4, FS_Subset
  <2> QED BY <1>2, <2>2, <2>5 DEF ListsInv
<1>3. ASSUME NEW k \in Keys, NEW kind \in SaleKinds, Ring(k, kind) PROVE ListsInv'
  <2>1. kind.sale \in SaleRow({"completed"})
    OBVIOUS
  <2>2. [kind.sale EXCEPT !.key = k] \in Row
    BY <2>1 DEF Row, SaleRow, Optional
  <2> QED BY <1>2, <1>3, <2>2 DEF Ring
<1>4. ASSUME NEW k \in Keys, Void(k) PROVE ListsInv'
  <2>1. rung[k] \in Row
    BY <1>4 DEF Void, ListsInv
  <2>2. [rung[k] EXCEPT !.status = "voided"] \in Row
    BY <2>1 DEF Row, SaleRow
  <2> QED BY <1>2, <1>4, <2>2 DEF Void
<1>5. ASSUME NEW m \in MoveKinds, WriteMove(m) PROVE ListsInv'
  <2>1. m.corrects = None \/ \E n \in moves : m.corrects \in Names(n)
    BY <1>5 DEF WriteMove, Names
  <2>2. moves' = moves \union {m} /\ rung' = rung
    BY <1>5 DEF WriteMove
  <2>3. \A n \in moves' : n.corrects # None => \E q \in moves' : n.corrects \in Names(q)
    BY <2>1, <2>2 DEF ListsInv
  <2>4. \A n \in moves' : \E q \in MoveKinds : Written(n, q)
    BY <2>2 DEF ListsInv, Written
  <2> QED BY <2>2, <2>3, <2>4 DEF ListsInv
<1>6. ASSUME NEW m \in moves, NEW lost \in BOOLEAN, MoveLands(m, lost) PROVE ListsInv'
  <2>1. rung' = rung /\ moves' = IF lost THEN moves ELSE WithIds({m.key})
    BY <1>6 DEF MoveLands
  <2> QED BY <1>1, <2>1, IdsKeepLists
<1>7. ASSUME NEW r \in RefundKinds, IssueRefund(r) PROVE ListsInv'
  BY <1>1, <1>7 DEF IssueRefund
<1>8. ASSUME NEW k \in Keys, NEW lost \in BOOLEAN, Land(k, lost) PROVE ListsInv'
  BY <1>1, <1>8 DEF Land
<1>9. ASSUME \/ (\E k \in Keys : VoidLands(k)) \/ (\E r \in refunds : RefundLands(r))
             \/ CloseAtTill \/ ForceClose \/ UNCHANGED vars
      PROVE  ListsInv'
  BY <1>1, <1>9 DEF VoidLands, RefundLands, CloseAtTill, ForceClose, vars, device
<1>10. ASSUME NEW declared, NEW inputs, NEW replay, ServerClose(declared, inputs, replay)
       PROVE  ListsInv'
  BY <1>1, <1>10 DEF ServerClose, device
<1>11. ASSUME PullPage PROVE ListsInv'
  <2>1. rung' = rung /\ moves' = WithIds(landedMoves)
    BY <1>11 DEF PullPage
  <2> QED BY <2>1, IdsKeepLists
<1> QED BY <1>3, <1>4, <1>5, <1>6, <1>7, <1>8, <1>9, <1>10, <1>11 DEF Next

(* Whatever is rung, voided, moved and corrected, the people's lines add   *)
(* up to the payments and tips, and a bucket is its movements and their    *)
(* corrections (report.rs:122-126, 283-298).                               *)
THEOREM ListsAlwaysAddUp == Spec => []ListsAddUp
<1>1. Init => ListsInv
  <2>1. Init => Held(rung) = {}
    BY DEF Init, Held
  <2> QED BY <2>1, FS_EmptySet DEF Init, ListsInv
<1> QED BY <1>1, NextLists, InvLists, PTL DEF Spec

-----------------------------------------------------------------------------
(* The close.                                                              *)

HIDE TillAssumption

(* What a sale adds that is not cash is what it takes but for its cash.    *)
LegEntry(o, k) == Entry(o.legs[k].method, o.legs[k].cash, o.legs[k].amount, o.key, k)
LegEntries(o, some) == { LegEntry(o, k) : k \in some }
TipEntries(o) == IF o.tip = 0 THEN {} ELSE {Entry(TipMethod(o), TipCash(o), o.tip, o.key, 0)}
OtherLegs(o) == { k \in DOMAIN o.legs : ~o.legs[k].cash }

LEMMA LegEntriesSum ==
    ASSUME NEW o \in Row, NEW some \in SUBSET (DOMAIN o.legs)
    PROVE  /\ IsFiniteSet(LegEntries(o, some)) /\ SumOf(LegEntries(o, some)) = LegSum(o.legs, some)
           /\ LegSum(o.legs, some) \in Nat
           /\ \A e \in LegEntries(o, some) : e.amount \in Nat /\ e.part \in Nat \ {0}
<1> DEFINE row == [k \in some |-> LegEntry(o, k)]
           g == [k \in some |-> o.legs[k].amount]
           f == AmountIn(LegEntries(o, some))
<1>1. IsFiniteSet(some) /\ \A k \in some : g[k] \in Nat
  BY LegsAre, FS_Subset
<1>2. \A k \in some : row[k].amount = g[k] /\ row[k].part = k
  BY DEF LegEntry, Entry
<1>3. \A k \in some : k \in Nat \ {0}
  <2>1. o.legs \in Seq(LegRow)
    BY DEF Row, SaleRow
  <2> QED BY <2>1
<1>4. LegEntries(o, some) = { row[k] : k \in some }
  BY DEF LegEntries
<1>5. \A k \in some : f[row[k]] = g[k] /\ g[k] \in Int
  BY <1>1, <1>2, <1>4 DEF AmountIn
<1>6. LegSum(o.legs, some) = SumFunctionOnSet(g, some)
  BY DEF LegSum
<1>7. SumOf(LegEntries(o, some)) = SumFunctionOnSet(f, LegEntries(o, some))
  BY DEF SumOf
<1> HIDE DEF row, g, f
<1>8. \A j, k \in some : row[j] = row[k] => j = k
  BY <1>2
<1>9. SumFunctionOnSet(f, { row[k] : k \in some }) = SumFunctionOnSet(g, some)
  BY <1>1, <1>5, <1>8, SumImage
<1>10. SumFunctionOnSet(g, some) \in Nat
  BY <1>1, SumNat
<1>11. IsFiniteSet({ row[k] : k \in some })
  BY <1>1, ImageFinite
<1>12. \A e \in { row[k] : k \in some } : e.amount \in Nat /\ e.part \in Nat \ {0}
  BY <1>1, <1>2, <1>3
<1> QED BY <1>4, <1>6, <1>7, <1>9, <1>10, <1>11, <1>12

LEMMA LegsTwoWays ==
    ASSUME NEW o \in Row
    PROVE  LegTotal(o.legs) = CashLegs(o.legs) + LegSum(o.legs, OtherLegs(o))
           /\ LegTotal(o.legs) \in Nat /\ CashLegs(o.legs) \in Nat
           /\ LegSum(o.legs, OtherLegs(o)) \in Nat
<1> DEFINE D == DOMAIN o.legs
           A == { k \in D : o.legs[k].cash }
           B == OtherLegs(o)
<1>1. /\ A \in SUBSET D /\ B \in SUBSET D /\ A \intersect B = {} /\ A \union B = D
      /\ D \in SUBSET D
  BY DEF OtherLegs
<1>2. CashLegs(o.legs) = LegSum(o.legs, A) /\ LegTotal(o.legs) = LegSum(o.legs, D)
  BY DEF CashLegs, LegTotal
<1> HIDE DEF A, B
<1>3. /\ IsFiniteSet(LegEntries(o, A)) /\ IsFiniteSet(LegEntries(o, B))
      /\ SumOf(LegEntries(o, A)) = LegSum(o.legs, A) /\ LegSum(o.legs, A) \in Nat
      /\ SumOf(LegEntries(o, B)) = LegSum(o.legs, B) /\ LegSum(o.legs, B) \in Nat
      /\ SumOf(LegEntries(o, D)) = LegSum(o.legs, D) /\ LegSum(o.legs, D) \in Nat
      /\ \A e \in LegEntries(o, A) \union LegEntries(o, B) : e.amount \in Int
  BY <1>1, LegEntriesSum
<1>4. LegEntries(o, D) = LegEntries(o, A) \union LegEntries(o, B)
  BY <1>1 DEF LegEntries
<1>5. LegEntries(o, A) \intersect LegEntries(o, B) = {}
  <2>1. \A k \in D : LegEntry(o, k).part = k
    BY DEF LegEntry, Entry
  <2> QED BY <1>1, <2>1 DEF LegEntries
<1>6. SumOf(LegEntries(o, A) \union LegEntries(o, B)) = SumOf(LegEntries(o, A)) + SumOf(LegEntries(o, B))
  BY <1>3, <1>5, TwoParts
<1> QED BY <1>2, <1>3, <1>4, <1>6 DEF B

LEMMA SaleSplits ==
    ASSUME NEW o \in Row
    PROVE  /\ IsFiniteSet(SaleEntries(o)) /\ IsFiniteSet(NotCash(SaleEntries(o)))
           /\ SumOf(NotCash(SaleEntries(o))) = LegTotal(o.legs) + o.tip - CashIn(o)
           /\ LegTotal(o.legs) \in Nat /\ CashIn(o) \in Nat /\ o.tip \in Nat
           /\ \A e \in SaleEntries(o) : /\ e.amount \in Nat /\ e.row = o.key
                                        /\ e.part = 0 => e.amount > 0
<1> DEFINE A == LegEntries(o, OtherLegs(o))
           B == NotCash(TipEntries(o))
           D == DOMAIN o.legs
<1>1. SaleEntries(o) = LegEntries(o, D) \union TipEntries(o)
  BY DEF SaleEntries, LegEntries, LegEntry, TipEntries
<1>2. o.tip \in Nat
  BY LegsAre
<1>3. /\ \A e \in TipEntries(o) : e.amount = o.tip /\ o.tip > 0 /\ e.part = 0 /\ e.row = o.key
      /\ IsFiniteSet(TipEntries(o)) /\ IsFiniteSet(B)
      /\ SumOf(B) = IF TipCash(o) THEN 0 ELSE o.tip
  <2> DEFINE t == Entry(TipMethod(o), TipCash(o), o.tip, o.key, 0)
  <2>1. t.amount = o.tip /\ t.part = 0 /\ t.row = o.key /\ (t.cash <=> TipCash(o))
    BY DEF Entry
  <2> HIDE DEF t
  <2>2. IsFiniteSet({t}) /\ SumOf({t}) = o.tip
    BY <1>2, <2>1, OneAmount
  <2>3. CASE o.tip = 0
    <3>1. TipEntries(o) = {} /\ B = {}
      BY <2>3 DEF TipEntries, NotCash
    <3> QED BY <2>3, <3>1, FS_EmptySet, NoAmount
  <2>4. CASE o.tip # 0
    <3>1. TipEntries(o) = {t} /\ B = IF TipCash(o) THEN {} ELSE {t}
      BY <2>1, <2>4 DEF TipEntries, NotCash, t
    <3> QED BY <1>2, <2>1, <2>2, <2>4, <3>1, FS_EmptySet, NoAmount
  <2> QED BY <2>3, <2>4
<1>4. /\ IsFiniteSet(LegEntries(o, D)) /\ \A e \in LegEntries(o, D) : e.amount \in Nat /\ e.part \in Nat \ {0}
      /\ IsFiniteSet(A) /\ SumOf(A) = LegSum(o.legs, OtherLegs(o))
      /\ \A e \in A : e.amount \in Nat /\ e.part \in Nat \ {0}
  <2>1. D \in SUBSET D /\ OtherLegs(o) \in SUBSET D
    BY DEF OtherLegs
  <2> QED BY <2>1, LegEntriesSum
<1>5. IsFiniteSet(SaleEntries(o))
  BY <1>1, <1>3, <1>4, FS_Union
<1>6. NotCash(SaleEntries(o)) = A \union B
  <2>1. \A k \in D : LegEntry(o, k).cash <=> o.legs[k].cash
    BY DEF LegEntry, Entry
  <2>2. NotCash(LegEntries(o, D)) = A
    BY <2>1 DEF NotCash, LegEntries, OtherLegs
  <2> QED BY <1>1, <2>2 DEF NotCash
<1>7. A \intersect B = {} /\ \A e \in A \union B : e.amount \in Int
  BY <1>2, <1>3, <1>4 DEF NotCash
<1> HIDE DEF A, B
<1>8. SumOf(A \union B) = SumOf(A) + SumOf(B) /\ IsFiniteSet(A \union B)
  BY <1>3, <1>4, <1>7, TwoParts, FS_Union
<1>9. LegTotal(o.legs) = CashLegs(o.legs) + LegSum(o.legs, OtherLegs(o))
      /\ LegTotal(o.legs) \in Nat /\ CashLegs(o.legs) \in Nat
      /\ LegSum(o.legs, OtherLegs(o)) \in Nat
  BY LegsTwoWays
<1>10. CashIn(o) = CashLegs(o.legs) + (IF TipCash(o) THEN o.tip ELSE 0)
  BY DEF CashIn
<1>11. \A e \in LegEntries(o, D) : e.row = o.key
  BY DEF LegEntries, LegEntry, Entry
<1>12. CashIn(o) \in Nat /\ SumOf(A) + SumOf(B) = LegTotal(o.legs) + o.tip - CashIn(o)
  BY <1>2, <1>3, <1>4, <1>9, <1>10
<1> QED BY <1>1, <1>2, <1>3, <1>4, <1>5, <1>6, <1>8, <1>9, <1>11, <1>12
-----------------------------------------------------------------------------
(* What some sales add, and some refunds.                                  *)
SalesEntries(T) == UNION { SaleEntries(o) : o \in T }
RefundEntries(rows) == { RefundEntry(r) : r \in rows }
TakenAll(o) == LegTotal(o.legs) + o.tip

LEMMA SalesNotCash ==
    ASSUME NEW T \in SUBSET Row, IsFiniteSet(T), \A o, p \in T : o.key = p.key => o = p
    PROVE  /\ IsFiniteSet(SalesEntries(T))
           /\ \A e \in SalesEntries(T) : e.amount \in Nat /\ (e.part = 0 => e.amount > 0)
           /\ SumOf(NotCash(SalesEntries(T))) = Total(TakenAll, T) - Total(CashIn, T)
           /\ Total(TakenAll, T) \in Int /\ Total(CashIn, T) \in Int
<1> DEFINE A == SalesEntries(T)
           S == NotCash(A)
           f == AmountIn(S)
           part == [o \in T |-> NotCash(SaleEntries(o))]
           all == [o \in T |-> SaleEntries(o)]
           g == [o \in T |-> SumOf(NotCash(SaleEntries(o)))]
           h == [o \in T |-> TakenAll(o)]
           c == [o \in T |-> CashIn(o)]
<1>1. \A o \in T :
        /\ IsFiniteSet(SaleEntries(o)) /\ IsFiniteSet(part[o])
        /\ g[o] = LegTotal(o.legs) + o.tip - CashIn(o)
        /\ LegTotal(o.legs) \in Nat /\ CashIn(o) \in Nat /\ o.tip \in Nat
        /\ \A e \in SaleEntries(o) : /\ e.amount \in Nat /\ e.row = o.key
                                     /\ e.part = 0 => e.amount > 0
  BY SaleSplits
<1>2. IsFiniteSet(A)
  <2> DEFINE H == { all[o] : o \in T }
  <2>1. \A o \in T : IsFiniteSet(all[o])
    BY <1>1
  <2>2. A = UNION H
    BY DEF SalesEntries
  <2> HIDE DEF all
  <2>3. IsFiniteSet(H)
    BY ImageFinite
  <2>4. \A B \in H : IsFiniteSet(B)
    BY <2>1
  <2> HIDE DEF H, A
  <2> QED BY <2>2, <2>3, <2>4, FS_UNION
<1>3. \A e \in A : \E o \in T : e \in SaleEntries(o)
  BY DEF SalesEntries
<1>4. \A e \in A : e.amount \in Nat /\ (e.part = 0 => e.amount > 0)
  BY <1>1, <1>3
<1>5. \A o \in T : part[o] \subseteq S
  BY DEF SalesEntries, NotCash
<1>6. \A e \in S : \E o \in T : e \in part[o]
  BY <1>3 DEF NotCash
<1>7. \A o, p \in T : o # p => part[o] \intersect part[p] = {}
  BY <1>1 DEF NotCash
<1>8. IsFiniteSet(S) /\ \A e \in S : f[e] \in Int /\ e.amount \in Int
  BY <1>2, <1>4, FS_Subset DEF NotCash, AmountIn
<1>9. \A o \in T : g[o] = SumFunctionOnSet(f, part[o]) /\ g[o] \in Int
  <2> TAKE o \in T
  <2>1. part[o] \in SUBSET S /\ IsFiniteSet(part[o]) /\ \A e \in part[o] : e.amount \in Int
    BY <1>1, <1>5, <1>8
  <2>2. g[o] = SumOf(part[o])
    OBVIOUS
  <2> HIDE DEF part, S, g, f
  <2>3. SumOf(part[o]) = SumFunctionOnSet(AmountIn(S), part[o]) /\ SumOf(part[o]) \in Int
    BY <2>1, PartOfWhole
  <2> QED BY <2>2, <2>3 DEF f
<1>10. \A o \in T : c[o] \in Int /\ g[o] \in Int /\ h[o] = g[o] + c[o]
  <2> TAKE o \in T
  <2>1. c[o] = CashIn(o) /\ h[o] = LegTotal(o.legs) + o.tip
    BY DEF TakenAll
  <2> HIDE DEF c, h, g
  <2> QED BY <1>1, <2>1
<1>11. Total(TakenAll, T) = SumFunctionOnSet(h, T) /\ Total(CashIn, T) = SumFunctionOnSet(c, T)
  BY DEF Total
<1>12. SumOf(S) = SumFunctionOnSet(f, S)
  BY DEF SumOf
<1> HIDE DEF A, S, f, part, all, g, h, c
<1>13. SumFunctionOnSet(g, T) = SumFunctionOnSet(f, S)
  BY <1>5, <1>6, <1>7, <1>8, <1>9, SumParts
<1>14. SumFunctionOnSet(h, T) = SumFunctionOnSet(g, T) + SumFunctionOnSet(c, T)
  BY <1>10, SumPlus
<1>15. SumFunctionOnSet(g, T) \in Int /\ SumFunctionOnSet(c, T) \in Int
  BY <1>10, SumType
<1> QED BY <1>2, <1>4, <1>11, <1>12, <1>13, <1>14, <1>15 DEF A, S

LEMMA RefundsNotCash ==
    ASSUME NEW rows \in SUBSET RefundKinds, IsFiniteSet(rows)
    PROVE  /\ IsFiniteSet(RefundEntries(rows))
           /\ \A e \in RefundEntries(rows) : e.amount \in Int /\ e.amount <= 0 /\ e.part = 0
           /\ SumOf(NotCash(RefundEntries(rows)))
                = RefundsCash(rows) - Total(LAMBDA r : r.amount, rows)
           /\ RefundsCash(rows) \in Int /\ Total(LAMBDA r : r.amount, rows) \in Int
<1> DEFINE A == { r \in rows : r.cash }
           B == { r \in rows : ~r.cash }
           entry == [r \in rows |-> RefundEntry(r)]
           S == { entry[r] : r \in B }
           f == AmountIn(S)
           a == AmountIn(B)
           g == [r \in B |-> -r.amount]
           given == Total(LAMBDA r : r.amount, rows)
<1>1. \A r \in rows : /\ entry[r].amount = -r.amount /\ r.amount \in Nat /\ entry[r].part = 0
                      /\ entry[r].cash = r.cash /\ entry[r].method = r.method /\ entry[r].row = r.key
                      /\ r \in [key : STRING, method : STRING, cash : BOOLEAN, amount : Nat]
  <2> TAKE r \in rows
  <2>1. r \in [key : STRING, method : STRING, cash : BOOLEAN, amount : Nat]
    BY TillAssumption
  <2>2. r.amount \in Nat
    BY <2>1
  <2>3. /\ entry[r].amount = -r.amount /\ entry[r].part = 0 /\ entry[r].cash = r.cash
        /\ entry[r].method = r.method /\ entry[r].row = r.key
    BY DEF RefundEntry, Entry
  <2> QED BY <2>1, <2>2, <2>3
<1>2. \A q, r \in rows : entry[q] = entry[r] => q = r
  <2> TAKE q, r \in rows
  <2> HAVE entry[q] = entry[r]
  <2>1. q.key = r.key /\ q.method = r.method /\ q.cash = r.cash /\ -q.amount = -r.amount
    BY <1>1
  <2>2. q.amount = r.amount
    BY <1>1, <2>1
  <2> HIDE DEF entry
  <2> QED BY <1>1, <2>1, <2>2
<1>3. RefundEntries(rows) = { entry[r] : r \in rows }
  BY DEF RefundEntries
<1>4. NotCash(RefundEntries(rows)) = S
  BY <1>1, <1>3 DEF NotCash
<1>5. IsFiniteSet(A) /\ IsFiniteSet(B) /\ A \intersect B = {} /\ A \union B = rows
      /\ \A r \in A \union B : r.amount \in Int
  BY <1>1, FS_Subset
<1>6. \A r \in B : a[r] \in Int /\ g[r] = (-1) * a[r] /\ g[r] \in Int
  BY <1>1 DEF AmountIn
<1>7. \A r \in B : f[entry[r]] = g[r]
  BY <1>1 DEF AmountIn
<1>8. IsFiniteSet(RefundEntries(rows))
  <2> HIDE DEF entry
  <2> QED BY <1>3, ImageFinite
<1>9. \A e \in RefundEntries(rows) : e.amount \in Int /\ e.amount <= 0 /\ e.part = 0
  BY <1>1, <1>3
<1>10. RefundsCash(rows) = SumOf(A) /\ given = SumOf(rows)
  BY DEF RefundsCash, Total, SumOf, AmountIn
<1>11. SumOf(S) = SumFunctionOnSet(f, S) /\ SumOf(B) = SumFunctionOnSet(a, B)
  BY DEF SumOf
<1>12. \A q, r \in B : entry[q] = entry[r] => q = r
  BY <1>2
<1> HIDE DEF entry, f, a, g, A, B, given
<1>13. SumFunctionOnSet(f, { entry[r] : r \in B }) = SumFunctionOnSet(g, B)
  BY <1>5, <1>6, <1>7, <1>12, SumImage
<1>14. SumFunctionOnSet(g, B) = (-1) * SumFunctionOnSet(a, B)
  <2> DEFINE u == -1
  <2>1. u \in Int /\ \A r \in B : a[r] \in Int /\ g[r] = u * a[r]
    BY <1>6
  <2> HIDE DEF u
  <2>2. SumFunctionOnSet(g, B) = u * SumFunctionOnSet(a, B)
    BY <1>5, <2>1, SumTimes
  <2> QED BY <2>2 DEF u
<1>15. SumOf(A \union B) = SumOf(A) + SumOf(B) /\ SumOf(A) \in Int /\ SumOf(B) \in Int
  BY <1>5, TwoParts
<1>16. SumOf(S) = RefundsCash(rows) - given /\ RefundsCash(rows) \in Int /\ given \in Int
  <2>1. SumOf(S) = (-1) * SumOf(B)
    BY <1>11, <1>13, <1>14
  <2>2. given = SumOf(A) + SumOf(B) /\ RefundsCash(rows) = SumOf(A)
    BY <1>5, <1>10, <1>15
  <2> HIDE DEF S
  <2> QED BY <1>15, <2>1, <2>2
<1> QED BY <1>4, <1>8, <1>9, <1>16 DEF given

(* Together, all that is not cash: a tip is more than nothing, a refund    *)
(* less, so no entry is both.                                              *)
LEMMA EntriesNotCash ==
    ASSUME NEW T \in SUBSET Row, IsFiniteSet(T), \A o, p \in T : o.key = p.key => o = p,
           NEW rows \in SUBSET RefundKinds, IsFiniteSet(rows)
    PROVE  LET N == NotCash(SalesEntries(T) \union RefundEntries(rows))
           IN  /\ IsFiniteSet(N) /\ \A e \in N : e.amount \in Int
               /\ SumOf(N) = Total(TakenAll, T) - Total(CashIn, T)
                               + RefundsCash(rows) - Total(LAMBDA r : r.amount, rows)
<1> DEFINE A == SalesEntries(T)
           B == RefundEntries(rows)
           given == Total(LAMBDA r : r.amount, rows)
<1>1. /\ IsFiniteSet(A) /\ \A e \in A : e.amount \in Nat /\ (e.part = 0 => e.amount > 0)
      /\ SumOf(NotCash(A)) = Total(TakenAll, T) - Total(CashIn, T)
      /\ Total(TakenAll, T) \in Int /\ Total(CashIn, T) \in Int
  BY SalesNotCash
<1>2. /\ IsFiniteSet(B) /\ \A e \in B : e.amount \in Int /\ e.amount <= 0 /\ e.part = 0
      /\ SumOf(NotCash(B)) = RefundsCash(rows) - given
      /\ RefundsCash(rows) \in Int /\ given \in Int
  BY RefundsNotCash
<1> HIDE DEF A, B, given
<1>3. NotCash(A \union B) = NotCash(A) \union NotCash(B)
  BY DEF NotCash
<1>4. IsFiniteSet(NotCash(A)) /\ IsFiniteSet(NotCash(B))
  BY <1>1, <1>2, FS_Subset DEF NotCash
<1>5. NotCash(A) \intersect NotCash(B) = {} /\ \A e \in NotCash(A) \union NotCash(B) : e.amount \in Int
  BY <1>1, <1>2 DEF NotCash
<1>6. /\ SumOf(NotCash(A) \union NotCash(B)) = SumOf(NotCash(A)) + SumOf(NotCash(B))
      /\ SumOf(NotCash(A)) \in Int /\ SumOf(NotCash(B)) \in Int
  BY <1>4, <1>5, TwoParts
<1>7. IsFiniteSet(NotCash(A \union B))
  <2>1. IsFiniteSet(NotCash(A) \union NotCash(B))
    BY <1>4, FS_Union
  <2> QED BY <1>3, <2>1
<1>8. SumOf(NotCash(A \union B)) = Total(TakenAll, T) - Total(CashIn, T) + RefundsCash(rows) - given
  BY <1>1, <1>2, <1>3, <1>6
<1> QED BY <1>3, <1>5, <1>7, <1>8 DEF A, B, given

-----------------------------------------------------------------------------
(* The methods of the entries: the cash ones are one line.                 *)
OfMethod(E, m) == { e \in E : e.method = m }
UsedIn(E) == { e.method : e \in E }
CashUsed(E) == { m \in UsedIn(E) : \E e \in OfMethod(E, m) : e.cash }
OrdersOf(E, m) == { e.row : e \in { e \in OfMethod(E, m) : e.part > 0 } }
CashName(E) == IF CashUsed(E) = {} THEN FallbackCashMethod(Methods)
               ELSE IF "cash" \in CashUsed(E) THEN "cash"
               ELSE CHOOSE m \in CashUsed(E) : \A n \in CashUsed(E) : Rank[m] <= Rank[n]

CashMethod(E, expected) ==
    [method |-> CashName(E), cash |-> TRUE, total |-> expected,
     orders |-> Total(LAMBDA m : Cardinality(OrdersOf(E, m)), CashUsed(E))]
MethodTotal(E, m) ==
    [method |-> m, cash |-> FALSE, total |-> SumOf(OfMethod(E, m)),
     orders |-> Cardinality(OrdersOf(E, m))]
OtherMethods(E) == UsedIn(E) \ CashUsed(E)

LEMMA TotalsAre ==
    ASSUME NEW sales, NEW rows, NEW expected
    PROVE  CloseMethods(sales, rows, expected, Methods)
             = {CashMethod(Entries(sales, rows), expected)}
               \union { MethodTotal(Entries(sales, rows), m) : m \in OtherMethods(Entries(sales, rows)) }
BY DEF CloseMethods, CashMethod, MethodTotal, OtherMethods, CashName, CashUsed, UsedIn, OfMethod,
       OrdersOf, SumOf, AmountIn, Total

(* The methods but cash are those of the entries that are not cash and     *)
(* whose name no cash entry has; each has its entries whole.               *)
Listed(A) ==
    { e \in NotCash(A) : e.method \notin Blank \union CashUsed({ d \in A : d.method \notin Blank }) }

LEMMA MethodsAre ==
    ASSUME NEW A
    PROVE  LET E == { e \in A : e.method \notin Blank }
           IN  /\ OtherMethods(E) = { e.method : e \in Listed(A) }
               /\ \A m \in OtherMethods(E) : OfMethod(E, m) = OfMethod(Listed(A), m)
<1> DEFINE E == { e \in A : e.method \notin Blank }
<1>1. \A e \in E : e.method \in CashUsed(E) <=> \E d \in E : d.method = e.method /\ d.cash
  BY DEF CashUsed, UsedIn, OfMethod
<1>2. \A e : e \in Listed(A) <=> e \in E /\ e.method \notin CashUsed(E)
  <2> TAKE e
  <2>1. e \in Listed(A) <=> e \in E /\ ~e.cash /\ e.method \notin CashUsed(E)
    BY DEF Listed, NotCash
  <2>2. e \in E /\ e.cash => e.method \in CashUsed(E)
    BY <1>1
  <2> HIDE DEF E
  <2> QED BY <2>1, <2>2
<1> HIDE DEF E
<1>3. OtherMethods(E) = { e.method : e \in Listed(A) }
  BY <1>2 DEF OtherMethods, UsedIn
<1>4. \A m \in OtherMethods(E) : OfMethod(E, m) = OfMethod(Listed(A), m)
  BY <1>2 DEF OtherMethods, OfMethod
<1> QED BY <1>3, <1>4 DEF E

(* The entries that are not cash, listed or not.                           *)
LEMMA ListedOrNot ==
    ASSUME NEW sales, NEW given, NEW A,
           A = SalesEntries({ o \in sales : Tendered(o) }) \union RefundEntries(given),
           IsFiniteSet(NotCash(A)), \A e \in NotCash(A) : e.amount \in Int
    PROVE  /\ IsFiniteSet(Listed(A)) /\ \A e \in Listed(A) : e.amount \in Int
           /\ SumOf(NotCash(A)) = SumOf(Listed(A)) + Unlisted(sales, given)
           /\ SumOf(Listed(A)) \in Int /\ Unlisted(sales, given) \in Int
<1> DEFINE E == { e \in A : e.method \notin Blank }
           names == { e.method : e \in { e \in A : e.cash } } \ Blank
           L == Listed(A)
           R == { e \in A : ~e.cash /\ e.method \in names \union Blank }
<1>1. A = (UNION { SaleEntries(o) : o \in { o \in sales : Tendered(o) } })
             \union { RefundEntry(r) : r \in given }
  BY DEF SalesEntries, RefundEntries
<1>2. Unlisted(sales, given) = SumOf(R)
  BY <1>1 DEF Unlisted, Total, SumOf, AmountIn
<1>3. names = CashUsed(E)
  BY DEF CashUsed, UsedIn, OfMethod
<1>4. L \union R = NotCash(A) /\ L \intersect R = {}
  BY <1>3 DEF Listed, NotCash
<1> HIDE DEF L, R
<1>5. IsFiniteSet(L) /\ IsFiniteSet(R) /\ \A e \in L \union R : e.amount \in Int
  <2>1. L \in SUBSET NotCash(A) /\ R \in SUBSET NotCash(A)
    BY <1>4
  <2> QED BY <1>4, <2>1, FS_Subset
<1>6. SumOf(L \union R) = SumOf(L) + SumOf(R) /\ SumOf(L) \in Int /\ SumOf(R) \in Int
  BY <1>4, <1>5, TwoParts
<1> QED BY <1>2, <1>4, <1>5, <1>6 DEF L

(* By method, the entries that are not cash add up to what they are.       *)
LEMMA ByMethod ==
    ASSUME NEW N, IsFiniteSet(N), \A e \in N : e.amount \in Int
    PROVE  LET U == { e.method : e \in N }
           IN  /\ IsFiniteSet(U)
               /\ \A m \in U : SumOf(OfMethod(N, m)) \in Int
               /\ SumFunctionOnSet([m \in U |-> SumOf(OfMethod(N, m))], U) = SumOf(N)
<1> DEFINE U == { e.method : e \in N }
           g == [m \in U |-> SumOf(OfMethod(N, m))]
           f == AmountIn(N)
           part == [m \in U |-> OfMethod(N, m)]
           name == [e \in N |-> e.method]
<1>1. IsFiniteSet(U)
  <2>1. U = { name[e] : e \in N }
    OBVIOUS
  <2> HIDE DEF U, name
  <2> QED BY <2>1, ImageFinite
<1>2. \A m \in U : part[m] \in SUBSET N
  BY DEF OfMethod
<1>3. (\A e \in N : \E m \in U : e \in part[m]) /\ \A m, n \in U : m # n => part[m] \intersect part[n] = {}
  BY DEF OfMethod
<1>4. \A m \in U : g[m] = SumFunctionOnSet(f, part[m]) /\ g[m] \in Int
  <2> TAKE m \in U
  <2>1. g[m] = SumOf(part[m])
    OBVIOUS
  <2>2. part[m] \in SUBSET N /\ IsFiniteSet(part[m]) /\ \A e \in part[m] : e.amount \in Int
    BY <1>2, FS_Subset
  <2> HIDE DEF part, g, f
  <2>3. SumOf(part[m]) = SumFunctionOnSet(AmountIn(N), part[m]) /\ SumOf(part[m]) \in Int
    BY <2>2, PartOfWhole
  <2> QED BY <2>1, <2>3 DEF f
<1>5. \A e \in N : f[e] \in Int
  BY DEF AmountIn
<1>6. \A m \in U : g[m] = SumOf(OfMethod(N, m))
  OBVIOUS
<1>7. SumOf(N) = SumFunctionOnSet(f, N)
  BY DEF SumOf
<1> HIDE DEF U, f, part
<1>8. SumFunctionOnSet(g, U) = SumFunctionOnSet(f, N)
  <2> HIDE DEF g
  <2> QED BY <1>1, <1>2, <1>3, <1>4, <1>5, SumParts
<1>9. \A m \in U : SumOf(OfMethod(N, m)) \in Int
  BY <1>4, <1>6
<1> QED BY <1>1, <1>7, <1>8, <1>9 DEF U

-----------------------------------------------------------------------------
(* A line the close stores for a method, cash or not, with an amount: a    *)
(* disagreement that is not about cash comes with what the teller counted  *)
(* and why.                                                                *)
IsLineOf(l, w, amount) ==
    /\ \E total, status, declared, note : l = PlanLine(total, status, declared, note)
    /\ w = <<l.method, l.cash>> /\ l.system = amount /\ amount \in Int
    /\ l.status = "disagreed" /\ ~l.cash => l.declared # None /\ l.note # None

LEMMA PlanLineIs ==
    ASSUME NEW t, t.total \in Int, NEW status, NEW declared, NEW note,
           status = "disagreed" /\ ~t.cash => declared # None /\ note # None
    PROVE  IsLineOf(PlanLine(t, status, declared, note), <<t.method, t.cash>>, t.total)
<1> DEFINE l == PlanLine(t, status, declared, note)
<1>1. /\ l.method = t.method /\ l.system = t.total /\ l.status = status
      /\ l.cash = t.cash /\ l.declared = declared /\ l.note = note
  BY DEF PlanLine
<1>2. \E x, s, d, n : l = PlanLine(x, s, d, n)
  OBVIOUS
<1> HIDE DEF l
<1>3. IsLineOf(l, <<t.method, t.cash>>, t.total)
  BY <1>1, <1>2 DEF IsLineOf
<1> QED BY <1>3 DEF l

LEMMA MethodLineIs ==
    ASSUME NEW t, t.total \in Int, NEW input
    PROVE  IsLineOf(MethodLine(t, input), <<t.method, t.cash>>, t.total)
<1>0. None # "(no note)" /\ None \notin Int
  BY TillAssumption, CloseAssumption
<1>1. CASE input = None \/ input.status \notin {"checked", "disagreed"}
  <2>1. MethodLine(t, input) = PlanLine(t, "unreviewed", None, None)
    BY <1>1 DEF MethodLine
  <2> QED BY <2>1, PlanLineIs
<1>2. CASE input # None /\ input.status = "checked"
  <2>1. MethodLine(t, input) = PlanLine(t, "checked", None, input.note)
    BY <1>2 DEF MethodLine
  <2> QED BY <2>1, PlanLineIs
<1>3. CASE input # None /\ input.status = "disagreed"
  <2> DEFINE d == OrElse(input.declared, t.total)
             n == OrElse(input.note, "(no note)")
  <2>1. MethodLine(t, input) = PlanLine(t, "disagreed", d, n)
    BY <1>3 DEF MethodLine
  <2>2. d # None /\ n # None
    BY <1>0 DEF OrElse
  <2> HIDE DEF d, n
  <2> QED BY <2>1, <2>2, PlanLineIs
<1> QED BY <1>1, <1>2, <1>3

LEMMA SumOfNones ==
    ASSUME NEW g, NEW S, IsFiniteSet(S), \A x \in S : g[x] = 0
    PROVE  SumFunctionOnSet(g, S) = 0
<1>1. \A x \in S : g[x] \in Nat
  OBVIOUS
<1>2. SumFunctionOnSet(g, S) \in Nat
  BY <1>1, SumNat
<1> DEFINE u == 0
<1>3. u \in Int /\ \A x \in S : g[x] \in Int /\ g[x] = u * g[x]
  OBVIOUS
<1> HIDE DEF u
<1>4. SumFunctionOnSet(g, S) = u * SumFunctionOnSet(g, S)
  BY <1>3, SumTimes
<1> QED BY <1>2, <1>4 DEF u

(* A line each for the cash, the other methods used and those only the     *)
(* teller named: the cash line takes the figure, the others what their     *)
(* entries add up to, or nothing.                                          *)
Named(inputs) == { inputs[k].method : k \in DOMAIN inputs }
NothingOf(m) == [method |-> m, cash |-> FALSE, total |-> 0, orders |-> 0]

StoredAs(stored, W, line, g) ==
    /\ IsFiniteSet(W) /\ stored = { line[w] : w \in W }
    /\ \A w \in W : IsLineOf(line[w], w, g[w])

Summed(stored, total) ==
    \E W, line, g : StoredAs(stored, W, line, g) /\ SumFunctionOnSet(g, W) = total
TotalIn(tot, U) == SumFunctionOnSet([m \in U |-> tot[m].total], U)

(* The lines of methods that are not cash, under some names.               *)
Others(S) == { <<m, FALSE>> : m \in S }

LEMMA OthersSum ==
    ASSUME NEW S, IsFiniteSet(S), NEW g, NEW u, \A m \in S : g[<<m, FALSE>>] = u[m] /\ u[m] \in Int
    PROVE  IsFiniteSet(Others(S)) /\ SumFunctionOnSet(g, Others(S)) = SumFunctionOnSet(u, S)
<1> DEFINE row == [m \in S |-> <<m, FALSE>>]
<1>1. Others(S) = { row[m] : m \in S } /\ \A m \in S : row[m] = <<m, FALSE>>
  BY DEF Others
<1>2. \A m, n \in S : row[m] = row[n] => m = n
  OBVIOUS
<1> HIDE DEF row
<1>3. \A m \in S : g[row[m]] = u[m] /\ u[m] \in Int
  BY <1>1
<1>4. SumFunctionOnSet(g, { row[m] : m \in S }) = SumFunctionOnSet(u, S)
  BY <1>2, <1>3, SumImage
<1>5. IsFiniteSet({ row[m] : m \in S })
  BY ImageFinite
<1> QED BY <1>1, <1>4, <1>5

LEMMA PlanIs ==
    ASSUME NEW c, c.total \in Int, NEW U, IsFiniteSet(U),
           NEW tot, \A m \in U : tot[m].method = m /\ tot[m].cash = FALSE /\ tot[m].total \in Int,
           c = [method |-> c.method, cash |-> TRUE, total |-> c.total, orders |-> c.orders],
           NEW declared, NEW note, NEW inputs, IsFiniteSet(DOMAIN inputs), NEW replay
    PROVE  Summed(PlanLines({c} \union { tot[m] : m \in U }, declared, c.total, note,
                            inputs, replay).lines,
                  c.total + TotalIn(tot, U))
<1> DEFINE T == {c} \union { tot[m] : m \in U }
           X == Named(inputs) \ ({ t.method : t \in T } \union {c.method} \union Blank)
           cw == <<c.method, TRUE>>
           W == {cw} \union (Others(U) \union Others(X))
           O == { tot[m] : m \in U } \union { NothingOf(m) : m \in X }
           status == IF declared = c.total THEN "checked" ELSE "disagreed"
           of == [m \in U \union X |-> IF m \in U THEN tot[m] ELSE NothingOf(m)]
           line == [w \in W |-> IF w[2] THEN PlanLine(c, status, declared, note)
                                ELSE MethodLine(of[w[1]], InputFor(inputs, w[1]))]
           g == [w \in W |-> IF w[2] THEN c.total ELSE of[w[1]].total]
           u == [m \in U |-> tot[m].total]
           none == [m \in X |-> 0]
<1>0. c.cash = TRUE
  OBVIOUS
<1>1. CashTotal(T) = c
  <2>1. c \in T /\ c.cash /\ \A t \in T : t.cash => t = c
    BY <1>0
  <2> HIDE DEF T
  <2> QED BY <2>1 DEF CashTotal
<1>2. [c EXCEPT !.total = c.total] = c
  OBVIOUS
<1>3. ExtraTotals(T, inputs) = { NothingOf(m) : m \in X }
  BY <1>1 DEF ExtraTotals, NothingOf, Named
<1>4. { t \in T : ~t.cash } = { tot[m] : m \in U }
  BY <1>0
<1>5. PlanLines(T, declared, c.total, note, inputs, replay).lines
        = {PlanLine(c, status, declared, note)}
          \union { MethodLine(t, InputFor(inputs, t.method)) : t \in O }
  <2> HIDE DEF T, X
  <2> QED BY <1>1, <1>2, <1>3, <1>4 DEF PlanLines
<1>6. X \intersect U = {}
  <2>1. \A m \in U : tot[m] \in T /\ tot[m].method = m
    OBVIOUS
  <2> HIDE DEF T
  <2> QED BY <2>1
<1>7. \A m : NothingOf(m).method = m /\ NothingOf(m).total = 0 /\ NothingOf(m).cash = FALSE
  BY DEF NothingOf
<1> HIDE DEF T, X
<1>8. /\ \A m \in U \union X : of[m].method = m /\ of[m].cash = FALSE /\ of[m].total \in Int
      /\ O = { of[m] : m \in U \union X }
      /\ (\A m \in U : of[m].total = u[m] /\ u[m] \in Int)
      /\ (\A m \in X : of[m].total = none[m] /\ none[m] \in Int /\ none[m] = 0)
  <2>1. /\ \A m \in U : of[m] = tot[m] /\ u[m] = tot[m].total
        /\ \A m \in X : of[m] = NothingOf(m) /\ none[m] = 0
    BY <1>6
  <2> HIDE DEF of, u, none
  <2>2. O = { of[m] : m \in U \union X }
    BY <2>1
  <2> QED BY <1>7, <2>1, <2>2
<1> HIDE DEF of, O
<1>9. /\ line[cw] = PlanLine(c, status, declared, note) /\ g[cw] = c.total /\ cw \in W
      /\ \A m \in U \union X : /\ <<m, FALSE>> \in W
                              /\ line[<<m, FALSE>>] = MethodLine(of[m], InputFor(inputs, m))
                              /\ g[<<m, FALSE>>] = of[m].total
      /\ \A w \in W : w = cw \/ \E m \in U \union X : w = <<m, FALSE>>
  <2>1. \A w : w \in W <=> w = cw \/ \E m \in U \union X : w = <<m, FALSE>>
    BY DEF Others
  <2>2. cw[2] = TRUE /\ \A m : <<m, FALSE>>[2] = FALSE /\ <<m, FALSE>>[1] = m
    OBVIOUS
  <2> HIDE DEF W, cw
  <2>3. cw \in W /\ \A m \in U \union X : <<m, FALSE>> \in W
    BY <2>1
  <2> QED BY <2>1, <2>2, <2>3
<1> HIDE DEF line, g, status
<1>10. {PlanLine(c, status, declared, note)}
         \union { MethodLine(t, InputFor(inputs, t.method)) : t \in O } = { line[w] : w \in W }
  <2>1. { MethodLine(t, InputFor(inputs, t.method)) : t \in O }
          = { MethodLine(of[m], InputFor(inputs, m)) : m \in U \union X }
    BY <1>8
  <2> DEFINE L == {PlanLine(c, status, declared, note)}
                    \union { MethodLine(of[m], InputFor(inputs, m)) : m \in U \union X }
             R == { line[w] : w \in W }
  <2> HIDE DEF W, cw
  <2>2. \A l : l \in R <=> l = line[cw] \/ \E m \in U \union X : l = line[<<m, FALSE>>]
    BY <1>9
  <2>3. \A l : l \in L <=> l = line[cw] \/ \E m \in U \union X : l = line[<<m, FALSE>>]
    BY <1>9
  <2> HIDE DEF L, R
  <2>4. L = R
    BY <2>2, <2>3
  <2> QED BY <2>1, <2>4 DEF L, R
<1>11. IsFiniteSet(X)
  <2> DEFINE D == DOMAIN inputs
             f == [k \in D |-> inputs[k].method]
  <2>1. Named(inputs) = { f[k] : k \in D }
    BY DEF Named
  <2> HIDE DEF f, D
  <2>2. IsFiniteSet({ f[k] : k \in D })
    BY ImageFinite DEF D
  <2>3. X \subseteq Named(inputs)
    BY DEF X
  <2> QED BY <2>1, <2>2, <2>3, FS_Subset
<1>12. \A w \in W : IsLineOf(line[w], w, g[w])
  <2> SUFFICES ASSUME NEW w \in W PROVE IsLineOf(line[w], w, g[w])
    OBVIOUS
  <2>1. CASE w = cw
    <3>1. IsLineOf(PlanLine(c, status, declared, note), <<c.method, c.cash>>, c.total)
      BY <1>0, PlanLineIs
    <3> QED BY <1>0, <1>9, <2>1, <3>1
  <2>2. ASSUME NEW m \in U \union X, w = <<m, FALSE>> PROVE IsLineOf(line[w], w, g[w])
    <3> DEFINE t == of[m]
    <3>1. t.total \in Int /\ t.method = m /\ t.cash = FALSE
      BY <1>8
    <3> HIDE DEF t
    <3>2. IsLineOf(MethodLine(t, InputFor(inputs, m)), <<t.method, t.cash>>, t.total)
      BY <3>1, MethodLineIs
    <3> QED BY <1>9, <2>2, <3>1, <3>2 DEF t
  <2> HIDE DEF W, cw
  <2> QED BY <1>9, <2>1, <2>2
<1>13. /\ IsFiniteSet(Others(U)) /\ SumFunctionOnSet(g, Others(U)) = SumFunctionOnSet(u, U)
       /\ IsFiniteSet(Others(X)) /\ SumFunctionOnSet(g, Others(X)) = 0
  <2>1. \A m \in U : g[<<m, FALSE>>] = u[m] /\ u[m] \in Int
    BY <1>8, <1>9
  <2>2. \A m \in X : g[<<m, FALSE>>] = none[m] /\ none[m] \in Int /\ none[m] = 0
    BY <1>8, <1>9
  <2> HIDE DEF u, none
  <2>3. IsFiniteSet(Others(U)) /\ SumFunctionOnSet(g, Others(U)) = SumFunctionOnSet(u, U)
    BY <2>1, OthersSum
  <2>4. IsFiniteSet(Others(X)) /\ SumFunctionOnSet(g, Others(X)) = SumFunctionOnSet(none, X)
    BY <1>11, <2>2, OthersSum
  <2>5. SumFunctionOnSet(none, X) = 0
    BY <1>11, <2>2, SumOfNones
  <2> QED BY <2>3, <2>4, <2>5
<1>14. IsFiniteSet({cw}) /\ SumFunctionOnSet(g, {cw}) = c.total
  <2>1. g[cw] = c.total /\ g[cw] \in Int
    BY <1>9
  <2> HIDE DEF cw
  <2> QED BY <2>1, SumOne
<1>15. \A w \in W : g[w] \in Int
  BY <1>12 DEF IsLineOf
<1>16. Others(U) \intersect Others(X) = {} /\ {cw} \intersect (Others(U) \union Others(X)) = {}
  <2>1. cw[2] = TRUE
    OBVIOUS
  <2> HIDE DEF cw
  <2>2. ASSUME NEW S, NEW w \in Others(S) PROVE w[2] = FALSE /\ w[1] \in S
    <3>1. PICK m \in S : w = <<m, FALSE>>
      BY DEF Others
    <3> QED BY <3>1
  <2>3. Others(U) \intersect Others(X) = {}
    BY <1>6, <2>2
  <2>4. cw \notin Others(U) /\ cw \notin Others(X)
    BY <2>1, <2>2
  <2> QED BY <2>3, <2>4
<1>17. SumFunctionOnSet(g, Others(U)) \in Int
  BY <1>13, <1>15, SumType
<1>18. IsFiniteSet(W) /\ SumFunctionOnSet(g, W) = c.total + SumFunctionOnSet(u, U)
  <2> DEFINE A == Others(U)
             B == Others(X)
  <2>1. \A w \in {cw} \union (A \union B) : g[w] \in Int
    BY <1>15
  <2>2. /\ IsFiniteSet(A) /\ IsFiniteSet(B) /\ A \intersect B = {}
        /\ {cw} \intersect (A \union B) = {} /\ W = {cw} \union (A \union B)
    BY <1>13, <1>16
  <2> HIDE DEF A, B, W, cw, u
  <2>3. IsFiniteSet(A \union B)
    BY <2>2, FS_Union
  <2>4. SumFunctionOnSet(g, A \union B) = SumFunctionOnSet(g, A) + SumFunctionOnSet(g, B)
    BY <2>1, <2>2, SumApart
  <2>5. SumFunctionOnSet(g, {cw} \union (A \union B))
          = SumFunctionOnSet(g, {cw}) + SumFunctionOnSet(g, A \union B)
    BY <1>14, <2>1, <2>2, <2>3, SumApart
  <2>6. IsFiniteSet({cw} \union (A \union B))
    BY <1>14, <2>3, FS_Union
  <2> QED BY <1>13, <1>14, <1>17, <2>2, <2>4, <2>5, <2>6 DEF A, B
<1>19. StoredAs(PlanLines(T, declared, c.total, note, inputs, replay).lines, W, line, g)
  BY <1>5, <1>10, <1>12, <1>18 DEF StoredAs
<1> HIDE DEF W
<1>20. SumFunctionOnSet(g, W) = c.total + TotalIn(tot, U)
  BY <1>18 DEF TotalIn
<1> QED BY <1>19, <1>20 DEF T, Summed

(* What is stored that way adds up, explains itself, and has one line of   *)
(* cash, and one that is not, to a method.                                 *)
Explained(stored) ==
    /\ \A l \in stored : l.status = "disagreed" /\ ~l.cash => l.declared # None /\ l.note # None
    /\ \A l, m \in stored : l.method = m.method /\ l.cash = m.cash => l = m

LEMMA StoredWhole ==
    ASSUME NEW stored, NEW W, NEW line, NEW g, StoredAs(stored, W, line, g)
    PROVE  Total(LAMBDA l : l.system, stored) = SumFunctionOnSet(g, W) /\ Explained(stored)
<1> DEFINE f == [l \in stored |-> l.system]
<1>1. IsFiniteSet(W) /\ stored = { line[w] : w \in W }
  BY DEF StoredAs
<1>2. \A w \in W : /\ w = <<line[w].method, line[w].cash>> /\ line[w].system = g[w] /\ g[w] \in Int
                   /\ line[w].status = "disagreed" /\ ~line[w].cash =>
                          line[w].declared # None /\ line[w].note # None
  BY DEF StoredAs, IsLineOf
<1>3. \A v, w \in W : line[v] = line[w] => v = w
  BY <1>2
<1>4. \A w \in W : f[line[w]] = g[w] /\ g[w] \in Int
  BY <1>1, <1>2
<1>5. Total(LAMBDA l : l.system, stored) = SumFunctionOnSet(f, stored)
  BY DEF Total
<1> HIDE DEF f
<1>6. SumFunctionOnSet(f, { line[w] : w \in W }) = SumFunctionOnSet(g, W)
  BY <1>1, <1>3, <1>4, SumImage
<1>7. Explained(stored)
  BY <1>1, <1>2 DEF Explained
<1> QED BY <1>1, <1>5, <1>6, <1>7

(* A forced close stores the same, unreviewed.                             *)
LEMMA ForcedAs ==
    ASSUME NEW stored, NEW W, NEW line, NEW g, StoredAs(stored, W, line, g)
    PROVE  \E forced : StoredAs(ForceCloseLines(stored), W, forced, g)
<1> DEFINE f == [w \in W |-> [line[w] EXCEPT !.status = "unreviewed", !.declared = None, !.note = None]]
<1>1. IsFiniteSet(W) /\ stored = { line[w] : w \in W }
  BY DEF StoredAs
<1>2. \A w \in W : IsLineOf(f[w], w, g[w])
  <2> TAKE w \in W
  <2>1. IsLineOf(line[w], w, g[w])
    BY DEF StoredAs
  <2>2. PICK total, status, declared, note : line[w] = PlanLine(total, status, declared, note)
    BY <2>1 DEF IsLineOf
  <2>3. f[w] = PlanLine(total, "unreviewed", None, None)
    <3> DEFINE r == PlanLine(total, status, declared, note)
               a == [r EXCEPT !.status = "unreviewed"]
               b == [a EXCEPT !.declared = None]
    <3>1. a = PlanLine(total, "unreviewed", declared, note)
      BY DEF PlanLine
    <3>2. b = PlanLine(total, "unreviewed", None, note)
      <4> HIDE DEF a
      <4> QED BY <3>1 DEF PlanLine
    <3>3. [b EXCEPT !.note = None] = PlanLine(total, "unreviewed", None, None)
      <4> HIDE DEF b
      <4> QED BY <3>2 DEF PlanLine
    <3>4. f[w] = [b EXCEPT !.note = None]
      BY <2>2
    <3> QED BY <3>3, <3>4
  <2>4. /\ w = <<f[w].method, f[w].cash>> /\ f[w].system = g[w] /\ g[w] \in Int
        /\ f[w].status = "unreviewed"
    BY <2>1, <2>2, <2>3 DEF IsLineOf, PlanLine
  <2> HIDE DEF f
  <2> QED BY <2>3, <2>4 DEF IsLineOf
<1>3. ForceCloseLines(stored) = { f[w] : w \in W }
  BY <1>1 DEF ForceCloseLines
<1> HIDE DEF f
<1>4. StoredAs(ForceCloseLines(stored), W, f, g)
  BY <1>1, <1>2, <1>3 DEF StoredAs
<1> QED BY <1>4

-----------------------------------------------------------------------------
(* The rows a close finds are the server's, one to a sale.                 *)
CloseInv == BooksOK /\ Explained(lines)

LEMMA LandedRows ==
    ASSUME BooksOK
    PROVE  /\ Rows(landed) \subseteq Row /\ IsFiniteSet(Rows(landed))
           /\ \A o, p \in Rows(landed) : o.key = p.key => o = p
<1> DEFINE K == Held(landed)
<1>1. Rows(landed) = { landed[k] : k \in K }
  BY DEF Rows, Held
<1>2. IsFiniteSet(K) /\ \A k \in K : landed[k] \in Row /\ landed[k].key = k
  <2>1. CopyOK(landed)
    BY DEF BooksOK
  <2> QED BY <2>1 DEF CopyOK, Held
<1> HIDE DEF K
<1>3. IsFiniteSet({ landed[k] : k \in K })
  BY <1>2, ImageFinite
<1> QED BY <1>1, <1>2, <1>3

(* What the server's movements come to, and its refunds.                   *)
Moved == Total(LAMBDA m : m.amount, ServerMoves)

LEMMA ServerRows ==
    ASSUME BooksOK
    PROVE  /\ Moved \in Int
           /\ landedRefunds \in SUBSET RefundKinds /\ IsFiniteSet(landedRefunds)
<1>1. RowsOK(moves) /\ GivenOK(refunds) /\ landedRefunds \subseteq refunds
  BY DEF BooksOK
<1>2. SumOf(Keyed(moves, landedMoves)) \in Int
  BY <1>1, MovesParts
<1>3. Moved = SumOf(Keyed(moves, landedMoves))
  BY DEF Moved, ServerMoves, Keyed, SumOf, AmountIn, Total
<1> QED BY <1>1, <1>2, <1>3, FS_Subset DEF GivenOK

(* All the money the server has, but for what no line has.                 *)
ToList == Money(Rows(landed), ServerMoves, landedRefunds) - Unlisted(Rows(landed), landedRefunds)

(* A close stores the money of what it saw, a line to a method.            *)
LEMMA CloseStores ==
    ASSUME BooksOK, NEW figure, figure = Figure(landed).cash,
           NEW declared, NEW note, NEW inputs, IsFiniteSet(DOMAIN inputs), NEW replay
    PROVE  Summed(PlanLines(CloseMethods(Rows(landed), landedRefunds, figure, Methods), declared,
                            figure, note, inputs, replay).lines, ToList)
<1> DEFINE rows == Rows(landed)
           T == { o \in rows : Tendered(o) }
           A == SalesEntries(T) \union RefundEntries(landedRefunds)
           E == Entries(rows, landedRefunds)
           N == NotCash(A)
           L == Listed(A)
           U == OtherMethods(E)
           c == CashMethod(E, figure)
           tot == [m \in U |-> MethodTotal(E, m)]
           given == Total(LAMBDA r : r.amount, landedRefunds)
           rest == Unlisted(rows, landedRefunds)
<1>1. T \in SUBSET Row /\ IsFiniteSet(T) /\ \A o, p \in T : o.key = p.key => o = p
  BY LandedRows, FS_Subset
<1>2. /\ landedRefunds \in SUBSET RefundKinds /\ IsFiniteSet(landedRefunds) /\ Moved \in Int
      /\ Opening \in Int
  BY ServerRows, TillAssumption
<1>3. E = { e \in A : e.method \notin Blank }
  <2>1. A = (UNION { SaleEntries(o) : o \in { o \in rows : Tendered(o) } })
              \union { RefundEntry(r) : r \in landedRefunds }
    BY DEF SalesEntries, RefundEntries
  <2> HIDE DEF A
  <2> QED BY <2>1 DEF Entries
<1>4. Total(TakenAll, T) \in Int /\ Total(CashIn, T) \in Int
  <2> HIDE DEF T
  <2> QED BY <1>1, SalesNotCash
<1>5. RefundsCash(landedRefunds) \in Int /\ given \in Int
  BY <1>2, RefundsNotCash
<1>6. figure = Opening + Total(CashIn, T) + Moved - RefundsCash(landedRefunds)
  <2>1. figure = SystemCash(Opening, rows, ServerMoves, landedRefunds)
    BY DEF Figure
  <2> QED BY <2>1 DEF SystemCash, Moved
<1>7. Money(rows, ServerMoves, landedRefunds) = Opening + Total(TakenAll, T) + Moved - given
  BY DEF Money, TakenAll, Total, Moved
<1>8. /\ IsFiniteSet(N) /\ \A e \in N : e.amount \in Int
      /\ SumOf(N) = Total(TakenAll, T) - Total(CashIn, T) + RefundsCash(landedRefunds) - given
  <2> HIDE DEF T, given
  <2> QED BY <1>1, <1>2, EntriesNotCash DEF given
<1>9. /\ IsFiniteSet(L) /\ (\A e \in L : e.amount \in Int) /\ SumOf(N) = SumOf(L) + rest
      /\ SumOf(L) \in Int /\ rest \in Int
  <2>1. A = SalesEntries({ o \in rows : Tendered(o) }) \union RefundEntries(landedRefunds)
    OBVIOUS
  <2> HIDE DEF A, rows
  <2> QED BY <1>8, <2>1, ListedOrNot
<1> HIDE DEF T, A, given
<1>10. /\ U = { e.method : e \in L }
       /\ \A m \in U : OfMethod(E, m) = OfMethod(L, m)
  <2> HIDE DEF E
  <2> QED BY <1>3, MethodsAre
<1>11. figure \in Int
  BY <1>2, <1>4, <1>5, <1>6
<1> HIDE DEF E, N, L
<1>12. /\ IsFiniteSet(U) /\ \A m \in U : SumOf(OfMethod(L, m)) \in Int
       /\ SumFunctionOnSet([m \in U |-> SumOf(OfMethod(L, m))], U) = SumOf(L)
  <2> HIDE DEF U
  <2> QED BY <1>9, <1>10, ByMethod
<1>13. c.total = figure
       /\ c = [method |-> c.method, cash |-> TRUE, total |-> c.total, orders |-> c.orders]
  BY DEF CashMethod
<1>14. \A m \in U : tot[m].method = m /\ tot[m].cash = FALSE /\ tot[m].total = SumOf(OfMethod(L, m))
  BY <1>10 DEF MethodTotal
<1>15. CloseMethods(rows, landedRefunds, figure, Methods) = {c} \union { tot[m] : m \in U }
  BY TotalsAre DEF E
<1>16. [m \in U |-> tot[m].total] = [m \in U |-> SumOf(OfMethod(L, m))]
  BY <1>14
<1>17. TotalIn(tot, U) = SumOf(L)
  BY <1>12, <1>16 DEF TotalIn
<1> HIDE DEF U, c, tot
<1>18. Summed(PlanLines({c} \union { tot[m] : m \in U }, declared, c.total, note,
                        inputs, replay).lines,
              c.total + TotalIn(tot, U))
  <2>1. c.total \in Int /\ IsFiniteSet(U)
    BY <1>11, <1>12, <1>13
  <2>2. \A m \in U : tot[m].method = m /\ tot[m].cash = FALSE /\ tot[m].total \in Int
    BY <1>12, <1>14
  <2>3. c = [method |-> c.method, cash |-> TRUE, total |-> c.total, orders |-> c.orders]
    BY <1>13
  <2> QED BY <2>1, <2>2, <2>3, PlanIs
<1> HIDE DEF rows, rest
<1>19. c.total + TotalIn(tot, U) = Money(rows, ServerMoves, landedRefunds) - rest
  BY <1>2, <1>4, <1>5, <1>6, <1>7, <1>8, <1>9, <1>13, <1>17
<1> QED BY <1>13, <1>15, <1>18, <1>19 DEF rows, rest, ToList

-----------------------------------------------------------------------------
(* A close is the only step that stores lines, and all it stores is whole. *)
StoresWhole == snapshot = None /\ snapshot' # None => Total(LAMBDA l : l.system, lines') = ToList

LEMMA CloseSteps ==
    ASSUME CloseInv, [Next]_vars
    PROVE  Explained(lines') /\ StoresWhole
<1>0. BooksOK
  BY DEF CloseInv
<1>1. CASE lines' = lines /\ (snapshot' = snapshot \/ snapshot # None)
  BY <1>1 DEF CloseInv, StoresWhole
<1>2. ASSUME NEW stored, Summed(stored, ToList), lines' = stored
      PROVE  Explained(lines') /\ StoresWhole
  <2>1. PICK W, line, g : StoredAs(stored, W, line, g) /\ SumFunctionOnSet(g, W) = ToList
    BY <1>2 DEF Summed
  <2>2. Total(LAMBDA l : l.system, stored) = SumFunctionOnSet(g, W) /\ Explained(stored)
    BY <2>1, StoredWhole
  <2> QED BY <1>2, <2>1, <2>2 DEF StoresWhole
<1>3. ASSUME NEW inputs \in InputKinds, NEW replay, NEW declared, ServerClose(declared, inputs, replay)
      PROVE  Explained(lines') /\ StoresWhole
  <2> DEFINE figure == Figure(landed).cash
             planned == PlanLines(CloseMethods(Rows(landed), landedRefunds, figure, Methods), declared,
                                  figure, None, inputs, replay).lines
  <2>1. IsFiniteSet(DOMAIN inputs)
    <3>1. inputs \in Seq([method : STRING, status : STRING,
                          declared : Optional(Int), note : Optional(STRING)])
      BY CloseAssumption
    <3>2. DOMAIN inputs = 1..Len(inputs) /\ Len(inputs) \in Nat
      BY <3>1
    <3>3. IsFiniteSet(1..Len(inputs))
      BY <3>2, FS_Interval
    <3> QED BY <3>2, <3>3
  <2>2. lines' = planned
    BY <1>3 DEF ServerClose
  <2>3. Summed(planned, ToList)
    <3> HIDE DEF figure
    <3>1. figure = Figure(landed).cash
      BY DEF figure
    <3> QED BY <1>0, <2>1, <3>1, CloseStores
  <2> HIDE DEF planned
  <2> QED BY <1>2, <2>2, <2>3
<1>4. ASSUME ForceClose PROVE Explained(lines') /\ StoresWhole
  <2> DEFINE figure == Figure(landed).cash
             planned == PlanLines(CloseMethods(Rows(landed), landedRefunds, figure, Methods), figure,
                                  figure, None, <<>>, TRUE).lines
  <2>1. IsFiniteSet(DOMAIN <<>>)
    BY FS_EmptySet
  <2>2. lines' = ForceCloseLines(planned)
    BY <1>4 DEF ForceClose
  <2>3. Summed(planned, ToList)
    <3> HIDE DEF figure
    <3>1. figure = Figure(landed).cash
      BY DEF figure
    <3> QED BY <1>0, <2>1, <3>1, CloseStores
  <2> HIDE DEF planned
  <2>4. Summed(ForceCloseLines(planned), ToList)
    <3>1. PICK W, line, g : StoredAs(planned, W, line, g) /\ SumFunctionOnSet(g, W) = ToList
      BY <2>3 DEF Summed
    <3>2. \E forced : StoredAs(ForceCloseLines(planned), W, forced, g)
      BY <3>1, ForcedAs
    <3> QED BY <3>1, <3>2 DEF Summed
  <2> QED BY <1>2, <2>2, <2>4
<1>5. ASSUME NEW k \in Keys, NEW lost \in BOOLEAN, Land(k, lost)
      PROVE  lines' = lines /\ (snapshot' = snapshot \/ snapshot # None)
  BY <1>5 DEF Land
<1>6. ASSUME UNCHANGED server PROVE lines' = lines /\ snapshot' = snapshot
  BY <1>6 DEF server
<1> QED BY <1>1, <1>3, <1>4, <1>5, <1>6
        DEF Next, vars, Void, VoidLands, Ring, WriteMove, MoveLands, IssueRefund, RefundLands,
            PullPage, CloseAtTill

(* Whenever a till is closed, live, replayed or by force, and whatever has *)
(* landed, the lines stored are all its money, a line to a method, but for *)
(* exactly what a name shared with cash, or no name, keeps off every line; *)
(* and a disagreement has an amount and a note (report.rs:482-540,         *)
(* reconcile.rs:8-11).                                                     *)
THEOREM AlwaysClosedWhole == Spec => ClosedWhole
<1>1. Init => CloseInv
  <2> SUFFICES ASSUME Init PROVE CloseInv
    OBVIOUS
  <2>1. BooksOK
    BY InitBooks
  <2>2. Explained(lines)
    BY DEF Init, Explained
  <2> QED BY <2>1, <2>2 DEF CloseInv
<1>2. CloseInv /\ [Next]_vars => CloseInv'
  <2> SUFFICES ASSUME CloseInv, [Next]_vars PROVE CloseInv'
    OBVIOUS
  <2>1. BooksOK'
    BY NextBooks DEF CloseInv
  <2> QED BY <2>1, CloseSteps DEF CloseInv
<1>3. CloseInv /\ [Next]_vars => StoresWhole
  BY CloseSteps
<1>4. CloseInv => DisagreementsExplained
  BY DEF CloseInv, Explained, DisagreementsExplained
<1>5. Spec => [][StoresWhole]_vars /\ []DisagreementsExplained
  BY <1>1, <1>2, <1>3, <1>4, PTL DEF Spec
<1> QED BY <1>5 DEF ClosedWhole, EveryTenderListed, StoresWhole, ToList
=============================================================================
