----------------------------- MODULE TillReport ------------------------------
(***************************************************************************)
(* A till's drawer and Z report as a fold over its rows (madar-till        *)
(* report.rs), and the lines its close stores (reconcile.rs).              *)
(*                                                                         *)
(* Rows are sets of records: the sums do not depend on their order.  A     *)
(* sale's legs are a sequence, for two legs may be equal.  Method names    *)
(* are strings; Rank is the order the code's maps list them in, and Blank  *)
(* the names that are empty but for spaces.                                *)
(***************************************************************************)
EXTENDS Rounding, FiniteSetsExt

CONSTANTS
    Rank,        \* Rank[m]: where the name m sorts
    Blank        \* the names that are blank of spaces

(* Sum of F over a set of rows, and of a sale's legs, or some by index.    *)
Total(F(_), rows) == SumFunctionOnSet([r \in rows |-> F(r)], rows)
LegSum(legs, some) == SumFunctionOnSet([k \in some |-> legs[k].amount], some)
LegTotal(legs) == LegSum(legs, DOMAIN legs)

OrElse(option, default) == IF option = None THEN default ELSE option

-----------------------------------------------------------------------------
(* One sale.                                                               *)

Tendered(o) == o.status # "voided"
Sold(o) == o.status \notin {"voided", "refunded"}

TipMethod(o) == OrElse(o.tipMethod, o.paymentMethod)

TipCash(o) == OrElse(o.tipIsCash, TipMethod(o) = "cash")

CashLegs(legs) == LegSum(legs, { k \in DOMAIN legs : legs[k].cash })

(* Mutant: a cash tip is not in the drawer.                                *)
CashInNoTip(o) == CashLegs(o.legs)

(* Cash the sale put in the drawer: its cash legs and a cash tip.          *)
CashIn(o) == CashLegs(o.legs) + (IF TipCash(o) THEN o.tip ELSE 0)

-----------------------------------------------------------------------------
(* Drawer movements.  A correction names what it reverses by server id or, *)
(* queued before that synced, by its key.                                  *)

Names(row) == {row.key} \union (IF row.serverId = None THEN {} ELSE {row.serverId})

CorrectsKind(rows, row) ==
    LET corrected == { r \in rows : row.corrects \in Names(r) }
    IN  IF row.corrects = None \/ corrected = {} THEN None
        ELSE (CHOOSE r \in corrected : TRUE).kind

(* A correction counts in the bucket of the movement it corrects.          *)
Bucket(rows, row) ==
    IF row.kind = "correction" THEN OrElse(CorrectsKind(rows, row), row.kind)
    ELSE row.kind

BucketTotal(rows, bucket) ==
    Total(LAMBDA r : r.amount, { r \in rows : Bucket(rows, r) = bucket })

-----------------------------------------------------------------------------
(* The drawer.                                                             *)

RefundsCash(refunds) == Total(LAMBDA r : r.amount, { r \in refunds : r.cash })

SystemCash(opening, sales, moves, refunds) ==
    opening + Total(CashIn, { o \in sales : Tendered(o) })
            + Total(LAMBDA m : m.amount, moves) - RefundsCash(refunds)

(* Mutant: a closed till adds every sale to its snapshot, landed or not.   *)
ExpectedCashAllSales(opening, snapshot, sales, moves, refunds) ==
    IF snapshot = None THEN SystemCash(opening, sales, moves, refunds)
    ELSE snapshot + Total(CashIn, { o \in sales : Tendered(o) })

(* An open till's drawer; a closed one's snapshot plus the sales still on  *)
(* their way, and nothing else.                                            *)
ExpectedCash(opening, snapshot, sales, moves, refunds) ==
    IF snapshot = None THEN SystemCash(opening, sales, moves, refunds)
    ELSE snapshot + Total(CashIn, { o \in sales : o.unsent /\ Tendered(o) })

-----------------------------------------------------------------------------
(* The sold sales by method and by person.                                 *)

MethodsOf(o) == { o.legs[k].method : k \in DOMAIN o.legs }

MethodLegs(o, m) == { k \in DOMAIN o.legs : o.legs[k].method = m }

PaymentSummary(sales) ==
    LET sold == { o \in sales : Sold(o) }
        uses(m) == { o \in sold : m \in MethodsOf(o) }
    IN  { [method |-> m,
           cash |-> \E o \in uses(m) : \E k \in DOMAIN o.legs :
                        o.legs[k].method = m /\ o.legs[k].cash,
           total |-> Total(LAMBDA o : LegSum(o.legs, MethodLegs(o, m)), uses(m)),
           orders |-> Cardinality(uses(m))] : m \in UNION { MethodsOf(o) : o \in sold } }

TotalPayments(sales) == Total(LAMBDA p : p.total, PaymentSummary(sales))

TotalTips(sales) == Total(LAMBDA o : o.tip, { o \in sales : Sold(o) })

(* Mutant: only who was picked at checkout counts.                         *)
PersonPicked(o) == o.soldBy

(* Whoever was picked at checkout, else whoever was signed in.             *)
Person(o) == OrElse(o.soldBy, o.teller)

(* Nothing when nobody was ever picked.                                    *)
ByPerson(sales) ==
    LET sold == { o \in sales : Sold(o) }
        by(who) == { o \in sold : Person(o) = who }
    IN  IF \A o \in sales : o.soldBy = None THEN {}
        ELSE { [person |-> who, orders |-> Cardinality(by(who)),
                total |-> Total(LAMBDA o : LegTotal(o.legs), by(who)),
                tips |-> Total(LAMBDA o : o.tip, by(who))] :
               who \in { Person(o) : o \in sold } }

-----------------------------------------------------------------------------
(* The close: every method used on the till with the system's total.       *)

(* What a tendered sale adds: each leg, and a tip that is not zero; a      *)
(* refund takes its amount off.  Only legs count as an order.              *)
Entry(method, cash, amount, row, part) ==
    [method |-> method, cash |-> cash, amount |-> amount, row |-> row, part |-> part]

SaleEntries(o) ==
    { Entry(o.legs[k].method, o.legs[k].cash, o.legs[k].amount, o.key, k) :
          k \in DOMAIN o.legs }
    \union (IF o.tip = 0 THEN {} ELSE {Entry(TipMethod(o), TipCash(o), o.tip, o.key, 0)})

RefundEntry(r) == Entry(r.method, r.cash, -r.amount, r.key, 0)

(* Mutant: refunds are left out of their method's total.                   *)
EntriesNoRefunds(sales, refunds) ==
    { e \in UNION { SaleEntries(o) : o \in { o \in sales : Tendered(o) } } :
          e.method \notin Blank }

Entries(sales, refunds) ==
    { e \in (UNION { SaleEntries(o) : o \in { o \in sales : Tendered(o) } })
                \union { RefundEntry(r) : r \in refunds } : e.method \notin Blank }

(* The org's fallback cash method: named cash, then active, then oldest,   *)
(* a method with no date last.                                             *)
FallbackCashMethod(methods) ==
    LET cash == { m \in methods : m.cash }
        before(a, b) ==
            \/ a.name = "cash" /\ b.name # "cash"
            \/ /\ (a.name = "cash") = (b.name = "cash")
               /\ \/ a.active /\ ~b.active
                  \/ /\ a.active = b.active
                     /\ \/ b.createdAt = None
                        \/ a.createdAt # None /\ a.createdAt <= b.createdAt
    IN  IF cash = {} THEN "cash"
        ELSE (CHOOSE m \in cash : \A n \in cash : before(m, n)).name

(* Cash is one line, named after the cash method used (cash preferred),    *)
(* and its total is the expected cash; a method any entry marks as cash is *)
(* that line's.                                                            *)
CloseMethods(sales, refunds, expected, methods) ==
    LET entries == Entries(sales, refunds)
        of(m) == { e \in entries : e.method = m }
        orders(m) == { e.row : e \in { e \in of(m) : e.part > 0 } }
        used == { e.method : e \in entries }
        cashUsed == { m \in used : \E e \in of(m) : e.cash }
        cashName == IF cashUsed = {} THEN FallbackCashMethod(methods)
                    ELSE IF "cash" \in cashUsed THEN "cash"
                    ELSE CHOOSE m \in cashUsed : \A n \in cashUsed : Rank[m] <= Rank[n]
    IN  { [method |-> cashName, cash |-> TRUE, total |-> expected,
           orders |-> Total(LAMBDA m : Cardinality(orders(m)), cashUsed)] }
        \union
        { [method |-> m, cash |-> FALSE, total |-> Total(LAMBDA e : e.amount, of(m)),
           orders |-> Cardinality(orders(m))] : m \in used \ cashUsed }

-----------------------------------------------------------------------------
(* Reconciliation: one line per method, from what the teller said.         *)

PlanLine(total, status, declared, note) ==
    [method |-> total.method, cash |-> total.cash, system |-> total.total,
     status |-> status, declared |-> declared, note |-> note]

InputFor(inputs, method) ==
    LET named == SelectSeq(inputs, LAMBDA i : i.method = method)
    IN  IF named = <<>> THEN None ELSE Head(named)

(* A live close refuses a disagreement without an amount or a note.        *)
LineRefusal(input, replay) ==
    IF input = None \/ replay THEN None
    ELSE IF input.status = "disagreed" /\ input.declared = None THEN "amount_required"
    ELSE IF input.status = "disagreed" /\ input.note = None THEN "note_required"
    ELSE IF input.status \notin {"checked", "disagreed"} THEN "invalid_status"
    ELSE None

MethodLine(total, input) ==
    IF input = None \/ input.status \notin {"checked", "disagreed"}
    THEN PlanLine(total, "unreviewed", None, None)
    ELSE IF input.status = "checked" THEN PlanLine(total, "checked", None, input.note)
    ELSE PlanLine(total, "disagreed", OrElse(input.declared, total.total),
                  OrElse(input.note, "(no note)"))

(* The cash line of the methods used, and methods only the teller named.   *)
CashTotal(totals) ==
    IF \E t \in totals : t.cash THEN CHOOSE t \in totals : t.cash
    ELSE [method |-> "cash", cash |-> TRUE, total |-> 0, orders |-> 0]

ExtraTotals(totals, inputs) ==
    { [method |-> m, cash |-> FALSE, total |-> 0, orders |-> 0] :
        m \in { inputs[k].method : k \in DOMAIN inputs }
                \ ({ t.method : t \in totals } \union {CashTotal(totals).method} \union Blank) }

(* The planned lines, or the refusals of a live close.                     *)
PlanLines(totals, declared, system, cashNote, inputs, replay) ==
    LET cash == [CashTotal(totals) EXCEPT !.total = system]
        others == { t \in totals : ~t.cash } \union ExtraTotals(totals, inputs)
        input(t) == InputFor(inputs, t.method)
    IN  [refusals |-> { LineRefusal(input(t), replay) : t \in others } \ {None},
         lines |-> { PlanLine(cash, IF declared = system THEN "checked" ELSE "disagreed",
                              declared, cashNote) }
                   \union { MethodLine(t, input(t)) : t \in others }]

ForceCloseLines(lines) ==
    { [l EXCEPT !.status = "unreviewed", !.declared = None, !.note = None] : l \in lines }
=============================================================================
