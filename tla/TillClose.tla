------------------------------ MODULE TillClose ------------------------------
(***************************************************************************)
(* One till over its day: a device that may be offline, the server, and    *)
(* the cash box.  Both sides read the drawer with the same fold            *)
(* (TillReport) over the rows they hold.                                   *)
(*                                                                         *)
(* Sales, voids, movements and refunds are written on the device and       *)
(* queued (replay.rs:26-36); each lands on its own, in any order but a     *)
(* void after its sale, and a reply may be lost.  A pulled page brings the *)
(* server's rows and its frozen drawer figure together.  The server may    *)
(* close the till (a live or a replayed close, or a manager's force-close) *)
(* before everything has landed; a sale landing late makes it recompute    *)
(* the frozen figure, and nothing else does (report.rs:342-347).  Outbox,  *)
(* pages and tables are the apps' (external).                              *)
(***************************************************************************)
EXTENDS TillReport

CONSTANTS
    Keys,        \* sale keys
    SaleKinds,   \* the sales a till may ring, and the cash each really takes
    MoveKinds,   \* movement rows a till may write: key, kind, amount, corrects
    RefundKinds, \* refunds a till may issue
    InputKinds,  \* what a teller may say of the methods at close
    Miscounts,   \* how far off the box a teller may count
    Methods,     \* the org's payment methods
    MaxRows,     \* bound: the sales, movements and refunds the till writes
    Opening      \* the float

LegRow == [method : STRING, amount : Nat, cash : BOOLEAN]

Optional(values) == values \union {None}

SaleRow(status) ==
    [key : Optional(Keys), status : status, paymentMethod : STRING, legs : Seq(LegRow), tip : Nat,
     tipMethod : Optional(STRING), tipIsCash : Optional(BOOLEAN), soldBy : Optional(STRING),
     teller : Optional(STRING), unsent : BOOLEAN]

MoveRow == [key : STRING, id : STRING, serverId : Optional(STRING), kind : STRING,
            amount : Int, corrects : Optional(STRING), reverses : Optional(STRING)]

(* What a correction of a movement is written to reverse is its kind.      *)
ReversesWhatItCorrects(m) ==
    IF m.kind = "correction" /\ m.corrects # None
    THEN \A n \in MoveKinds : m.corrects \in {n.key, n.id} => m.reverses = n.kind
    ELSE m.reverses = None

(* A movement is written without the id the server will give it.           *)
ASSUME TillAssumption ==
    /\ Opening \in Int /\ None \notin Int /\ None \notin STRING
    /\ \A m \in MoveKinds : m.serverId = None /\ ReversesWhatItCorrects(m)
    /\ SaleKinds \subseteq [sale : SaleRow({"completed"}), cashTaken : Nat]
    /\ MoveKinds \subseteq MoveRow
    /\ RefundKinds \subseteq [key : STRING, method : STRING, cash : BOOLEAN, amount : Nat]

(* What a close may be given; a note is never mistaken for none.           *)
ASSUME CloseAssumption ==
    /\ None # "(no note)"
    /\ InputKinds \subseteq Seq([method : STRING, status : STRING,
                              declared : Optional(Int), note : Optional(STRING)])

VARIABLES
    rung,          \* rung[k]: the device's row of sale k
    landed,        \* landed[k]: the server's row of it
    acked,         \* the sales the device knows have landed
    moves,         \* the device's movements
    landedMoves,   \* the keys of those the server has
    refunds,       \* the device's refunds
    landedRefunds, \* those the server has
    box,           \* cash really in the drawer
    atTill,        \* "open" or "closed", as the device has it
    snapshot,      \* the server's frozen drawer figure
    pulled,        \* the device's copy of it
    lines          \* the reconciliation lines stored at close

device == <<rung, acked, moves, refunds, box, atTill, pulled>>
server == <<landed, landedMoves, landedRefunds, snapshot, lines>>
vars == <<device, server>>

NoSale == [status |-> "absent"]

Init ==
    /\ rung = [k \in Keys |-> NoSale]
    /\ landed = [k \in Keys |-> NoSale]
    /\ acked = {} /\ moves = {} /\ landedMoves = {} /\ refunds = {} /\ landedRefunds = {}
    /\ box = Opening
    /\ atTill = "open" /\ snapshot = None /\ pulled = None /\ lines = {}

Rows(copy) == { copy[k] : k \in { k \in Keys : copy[k] # NoSale } }

(* The device's rows, each marked unsent until it knows it has landed.     *)
TillRows == { [o EXCEPT !.unsent = o.key \notin acked] : o \in Rows(rung) }

(* The server's movements: the device's, and its sums read no ids.         *)
ServerMoves == { m \in moves : m.key \in landedMoves }

(* The drawer figure over what the server has, sales as in copy, with what *)
(* it was made of: the code keeps the cash only, the properties the rest.  *)
Figure(copy) ==
    [cash |-> SystemCash(Opening, Rows(copy), ServerMoves, landedRefunds),
     sales |-> { k \in Keys : copy[k] # NoSale /\ Tendered(copy[k]) },
     moves |-> landedMoves, refunds |-> landedRefunds]

-----------------------------------------------------------------------------
(* Bound: the till writes MaxRows rows and no more.                        *)
HasRoom == Cardinality({ k \in Keys : rung[k] # NoSale }) + Cardinality(moves)
               + Cardinality(refunds) < MaxRows

(* What the till does while the device has it open: each is written there  *)
(* and queued, whatever the server did meanwhile.                          *)
Ring(k, kind) ==
    /\ atTill = "open" /\ HasRoom /\ rung[k] = NoSale
    /\ rung' = [rung EXCEPT ![k] = [kind.sale EXCEPT !.key = k]]
    /\ box' = box + kind.cashTaken
    /\ UNCHANGED <<server, acked, moves, refunds, atTill, pulled>>

(* A voided sale's cash goes back.                                         *)
Void(k) ==
    /\ atTill = "open"
    /\ rung[k] # NoSale /\ rung[k].status = "completed"
    /\ rung' = [rung EXCEPT ![k].status = "voided"]
    /\ box' = box - CashIn(rung[k])
    /\ UNCHANGED <<server, acked, moves, refunds, atTill, pulled>>

WriteMove(m) ==
    /\ atTill = "open" /\ HasRoom
    /\ \A n \in moves : n.key # m.key
    /\ m.corrects = None \/ \E n \in moves : m.corrects \in {n.key, n.serverId}
    /\ moves' = moves \union {m} /\ box' = box + m.amount
    /\ UNCHANGED <<server, rung, acked, refunds, atTill, pulled>>

IssueRefund(r) ==
    /\ atTill = "open" /\ HasRoom
    /\ \A q \in refunds : q.key # r.key
    /\ refunds' = refunds \union {r} /\ box' = box - (IF r.cash THEN r.amount ELSE 0)
    /\ UNCHANGED <<server, rung, acked, moves, atTill, pulled>>

(* The teller closes on the device; the close is queued.                   *)
CloseAtTill ==
    /\ atTill = "open"
    /\ atTill' = "closed"
    /\ UNCHANGED <<server, rung, acked, moves, refunds, box, pulled>>

-----------------------------------------------------------------------------
(* A queued sale reaches the server, as it was rung, once; the answer may  *)
(* be lost.  Landing on a closed till, it has the figure made again.       *)
Land(k, lost) ==
    /\ rung[k] # NoSale /\ k \notin acked
    /\ landed' = IF landed[k] = NoSale
                 THEN [landed EXCEPT ![k] = [rung[k] EXCEPT !.status = "completed"]]
                 ELSE landed
    /\ snapshot' = IF snapshot # None /\ landed[k] = NoSale THEN Figure(landed') ELSE snapshot
    /\ acked' = IF lost THEN acked ELSE acked \union {k}
    /\ UNCHANGED <<rung, moves, landedMoves, refunds, landedRefunds, box, atTill, pulled, lines>>

(* A queued void reaches the server, its sale being there.                 *)
VoidLands(k) ==
    /\ landed[k] # NoSale /\ landed[k].status = "completed"
    /\ rung[k].status = "voided"
    /\ landed' = [landed EXCEPT ![k].status = "voided"]
    /\ UNCHANGED <<device, landedMoves, landedRefunds, snapshot, lines>>

(* The device's movements, those keyed in some having their server ids.    *)
WithIds(some) == { IF m.key \in some THEN [m EXCEPT !.serverId = m.id] ELSE m : m \in moves }

(* A queued movement reaches the server, which answers with its id.        *)
MoveLands(m, lost) ==
    /\ m.serverId = None
    /\ landedMoves' = landedMoves \union {m.key}
    /\ moves' = IF lost THEN moves ELSE WithIds({m.key})
    /\ UNCHANGED <<rung, landed, acked, refunds, landedRefunds, box, atTill, snapshot, pulled, lines>>

RefundLands(r) ==
    /\ landedRefunds' = landedRefunds \union {r}
    /\ UNCHANGED <<device, landed, landedMoves, snapshot, lines>>

(* A page of the changefeed: the rows the server has and its figure.       *)
PullPage ==
    /\ acked' = { k \in Keys : landed[k] # NoSale }
    /\ moves' = WithIds(landedMoves)
    /\ pulled' = snapshot
    /\ atTill' = IF snapshot # None THEN "closed" ELSE atTill
    /\ UNCHANGED <<server, rung, refunds, box>>

-----------------------------------------------------------------------------
(* The close reaches the server: the figure is frozen over what has        *)
(* landed, and a line is stored per method.  A live close may be refused;  *)
(* a replayed one never is.                                                *)
ServerClose(declared, inputs, replay) ==
    LET figure == Figure(landed)
        totals == CloseMethods(Rows(landed), landedRefunds, figure.cash, Methods)
        plan == PlanLines(totals, declared, figure.cash, None, inputs, replay)
    IN  /\ atTill = "closed" /\ snapshot = None
        /\ plan.refusals = {}
        /\ snapshot' = figure /\ lines' = plan.lines
        /\ UNCHANGED <<device, landed, landedMoves, landedRefunds>>

(* A manager closes it from the server, the device perhaps still ringing.  *)
ForceClose ==
    LET figure == Figure(landed)
        totals == CloseMethods(Rows(landed), landedRefunds, figure.cash, Methods)
        plan == PlanLines(totals, figure.cash, figure.cash, None, <<>>, TRUE)
    IN  /\ snapshot = None
        /\ snapshot' = figure /\ lines' = ForceCloseLines(plan.lines)
        /\ UNCHANGED <<device, landed, landedMoves, landedRefunds>>

Next ==
    \/ \E k \in Keys : Void(k) \/ VoidLands(k) \/ (\E kind \in SaleKinds : Ring(k, kind))
    \/ \E m \in MoveKinds : WriteMove(m)
    \/ \E m \in moves, lost \in BOOLEAN : MoveLands(m, lost)
    \/ \E r \in RefundKinds : IssueRefund(r)
    \/ \E r \in refunds : RefundLands(r)
    \/ \E k \in Keys, lost \in BOOLEAN : Land(k, lost)
    \/ PullPage
    \/ CloseAtTill
    \/ \E inputs \in InputKinds, replay \in BOOLEAN :
           \E off \in Miscounts : ServerClose(box + off, inputs, replay)
    \/ ForceClose

Spec == Init /\ [][Next]_vars

(* The device keeps sending and pulling, and some sends are answered.      *)
FairSpec ==
    /\ Spec
    /\ \A k \in Keys : WF_vars(Land(k, FALSE))
    /\ WF_vars(PullPage)

-----------------------------------------------------------------------------
TillExpects ==
    ExpectedCash(Opening, IF pulled = None THEN None ELSE pulled.cash, TillRows, moves, refunds)

(* What a frozen figure leaves out for good: the movements and refunds     *)
(* that had not landed when it was made, and the voids of sales it counts. *)
Missed(figure) ==
    Total(LAMBDA m : m.amount, { m \in moves : m.key \notin figure.moves })
      - RefundsCash(refunds \ figure.refunds)
      - Total(CashIn, { o \in Rows(rung) : o.status = "voided" /\ o.key \in figure.sales })

(* While no close has reached the device, what it says should be in the    *)
(* drawer is what is in it, sales sent or not (report.rs:20-21).           *)
OpenDrawerIsRight == pulled = None => TillExpects = box

(* A closed till's late sales are never counted twice: in the figure the   *)
(* server froze and again as still on their way (report.rs:342-347).       *)
NeverCountedTwice == pulled # None => TillExpects <= box - Missed(pulled)

(* Once every sale the till rang has landed and been pulled, the device's  *)
(* figure is the server's, and both are the cash in the box but for what   *)
(* was still queued, sales aside, when the server last made its figure:    *)
(* neither side ever adds that to a closed till (report.rs:344-347).       *)
SettledDrawerIsRight ==
    /\ snapshot # None /\ pulled = snapshot
    /\ \A k \in Keys : rung[k] # NoSale => k \in acked
    => TillExpects = snapshot.cash /\ TillExpects = box - Missed(snapshot)

(* What the device says should be in the drawer is right while it has seen *)
(* no close; after one it counts nothing twice on the way, and once all    *)
(* its sales have landed and been pulled it is off by exactly what a       *)
(* closed till leaves out (report.rs:342-420).                             *)
DrawerIsRight == OpenDrawerIsRight /\ NeverCountedTwice /\ SettledDrawerIsRight

(* What was taken and given by any method, float and movements with it.    *)
Money(sales, moved, refunded) ==
    Opening + Total(LAMBDA o : LegTotal(o.legs) + o.tip, { o \in sales : Tendered(o) })
            + Total(LAMBDA m : m.amount, moved) - Total(LAMBDA r : r.amount, refunded)

(* What no line has: a leg, tip or refund that is not cash, under a blank  *)
(* name or a name that is cash in another row.                             *)
Unlisted(sales, refunded) ==
    LET all == (UNION { SaleEntries(o) : o \in { o \in sales : Tendered(o) } })
                   \union { RefundEntry(r) : r \in refunded }
        cashNames == { e.method : e \in { e \in all : e.cash } } \ Blank
    IN  Total(LAMBDA e : e.amount,
              { e \in all : ~e.cash /\ e.method \in cashNames \union Blank })

(* The stored lines name every method's money once: they add up to the     *)
(* float, the tenders, the tips, the movements and the refunds of what the *)
(* close saw, less exactly what a name shared with cash, or no name, keeps *)
(* off every line (report.rs:482-485, 516-532).                            *)
EveryTenderListed ==
    [][snapshot = None /\ snapshot' # None =>
           Total(LAMBDA l : l.system, lines') =
               Money(Rows(landed), ServerMoves, landedRefunds)
                 - Unlisted(Rows(landed), landedRefunds)]_vars

(* Whatever a close was sent with, each disagreement it stores has an      *)
(* amount and a note, and one line is stored per method, but that a method *)
(* of the cash line's name may have a line beside it (reconcile.rs:8-11).  *)
DisagreementsExplained ==
    /\ \A l \in lines : l.status = "disagreed" /\ ~l.cash =>
           l.declared # None /\ l.note # None
    /\ \A l, m \in lines : l.method = m.method /\ l.cash = m.cash => l = m

(* The people's lines add up to the till's payments and tips, and a sale   *)
(* is nobody's only when nobody was on it (report.rs:283-298).             *)
PeopleAddUp ==
    LET rows == Rows(rung)
        people == ByPerson(rows)
    IN  people # {} =>
            /\ Total(LAMBDA p : p.total, people) = TotalPayments(rows)
            /\ Total(LAMBDA p : p.tips, people) = TotalTips(rows)
            /\ \A p \in people : p.person = None =>
                   \E o \in rows : o.soldBy = None /\ o.teller = None

(* A bucket's total is its own movements and every correction of them,     *)
(* whether written before or after the movement had its server id          *)
(* (report.rs:122-126).                                                    *)
CorrectionsFindTheirMovement ==
    \A kind \in { m.kind : m \in moves } \ {"correction"} :
        BucketTotal(moves, kind) =
            Total(LAMBDA m : m.amount, { m \in moves : kind \in {m.kind, m.reverses} })

(* Once the server has closed the till, late sales or not, the device's    *)
(* figure comes to the cash in the box, but for what a closed till leaves  *)
(* out, and stays there, if the device keeps sending its sales and pulling *)
(* (report.rs:342-347).                                                    *)
EventuallySettled ==
    snapshot # None ~> [](pulled # None /\ TillExpects = box - Missed(pulled))

(* The movement buckets and the people's lines add up to what they list.   *)
ListsAddUp == PeopleAddUp /\ CorrectionsFindTheirMovement

(* What a close stores is whole: every method's money once, and every      *)
(* disagreement with its amount and note.                                  *)
ClosedWhole == EveryTenderListed /\ []DisagreementsExplained
=============================================================================
