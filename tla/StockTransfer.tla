---------------------------- MODULE StockTransfer ----------------------------
(***************************************************************************)
(* The stock-transfer lifecycle of madar-inventory (transfer.rs), with the *)
(* stock it moves.                                                         *)
(*                                                                         *)
(* The library decides one call at a time: `step` says whether an action   *)
(* is open in the transfer's status, for which side, with which            *)
(* capability, and what follows; `check_receive_line` judges each arrived  *)
(* line.  The handlers that call it, the stock on hand and the stamps are  *)
(* the backend's (external).  Any person may send any call at any time, as *)
(* often as they like: a stale screen, a retry and a lost race are all     *)
(* just a call that finds the transfer in another status.                  *)
(***************************************************************************)
EXTENDS Integers, FiniteSets

CONSTANTS
    Transfers,   \* transfer ids
    Locations,   \* branches and warehouses
    Items,       \* ingredients
    Persons,     \* the people who call the handlers
    WorksAt,     \* WorksAt[p]: the locations person p acts for
    CapsOf,      \* CapsOf[p]: the transfer capabilities p holds
    Opening,     \* Opening[l][i]: stock on hand before any transfer
    MaxQty,      \* bound: thousandths one line may name
    Grain,       \* a typed quantity is in 1/Grain of a thousandth
    Nobody       \* the stamp of a step nobody has taken

Caps == {"create", "edit", "delete"}

ASSUME TransferAssumption ==
    /\ MaxQty \in Nat \ {0}
    /\ Grain \in Nat \ {0}
    /\ WorksAt \in [Persons -> SUBSET Locations]
    /\ CapsOf \in [Persons -> SUBSET Caps]
    /\ Opening \in [Locations -> [Items -> Int]]
    /\ Nobody \notin Persons

VARIABLES
    transfer,    \* transfer[t]: status, the two locations, thousandths per item
    onHand,      \* onHand[l][i]: thousandths of i at l
    moved,       \* moved[t]: what t took out, gave back and landed, and the gap
    stamp        \* stamp[t]: who dispatched, received and cancelled t

vars == <<transfer, onHand, moved, stamp>>

-----------------------------------------------------------------------------
(* The lifecycle table.                                                    *)

Statuses == {"requested", "draft", "dispatched", "received", "cancelled"}

Step == [status : Statuses, action : STRING, side : {"source", "destination"},
         cap : Caps, next : Statuses]

Row(status, action, side, cap, next) ==
    [status |-> status, action |-> action, side |-> side, cap |-> cap, next |-> next]

RequestRows ==
    { Row("requested",  "edit",     "destination", "create", "requested"),
      Row("requested",  "cancel",   "destination", "create", "cancelled"),
      Row("requested",  "accept",   "source",      "create", "draft"),
      Row("requested",  "decline",  "source",      "create", "cancelled") }

(* Mutant: dispatching leaves the transfer in draft.                       *)
DraftRowsNotAdvanced ==
    { Row("draft",      "dispatch", "source",      "create", "draft") }

DraftRows ==
    { Row("draft",      "edit",     "source",      "create", "draft"),
      Row("draft",      "dispatch", "source",      "create", "dispatched"),
      Row("draft",      "cancel",   "source",      "create", "cancelled") }

(* Mutants: the create capability stops stock in transit; lines in transit *)
(* may be edited.                                                          *)
TransitRowsAnyManager ==
    { Row("dispatched", "receive",  "destination", "edit",   "received"),
      Row("dispatched", "cancel",   "source",      "create", "cancelled") }
TransitRowsEditable ==
    { Row("dispatched", "edit",     "source",      "create", "dispatched"),
      Row("dispatched", "receive",  "destination", "edit",   "received") }

TransitRows ==
    { Row("dispatched", "receive",  "destination", "edit",   "received"),
      Row("dispatched", "cancel",   "source",      "delete", "cancelled") }

StepTable == RequestRows \union DraftRows \union TransitRows

(* A quantity in whole thousandths: nearest, half away from zero.          *)
Milli(typed) ==
    IF typed >= 0 THEN (2 * typed + Grain) \div (2 * Grain)
                  ELSE -((2 * (-typed) + Grain) \div (2 * Grain))

(* Mutant: a quantity below zero is let through.                           *)
LineAcceptedNegative(sent, typed, noted) == Milli(typed) > sent => noted

(* One arrived line.  More than sent needs a note; below zero is refused.  *)
LineAccepted(sent, typed, noted) ==
    /\ Milli(typed) >= 0
    /\ Milli(typed) > sent => noted

(* Mutant: the gap with its sign swapped.                                  *)
DifferenceSwapped(sent, typed) == sent - Milli(typed)

(* Received less sent: negative is a transit loss.                         *)
Difference(sent, typed) == Milli(typed) - sent

-----------------------------------------------------------------------------
NoLines == [i \in Items |-> 0]

(* A transfer names each item at most once (0: not on it), at least one.   *)
Lines == { q \in [Items -> 0..MaxQty] : \E i \in Items : q[i] > 0 }

Typed == -1..(Grain * (MaxQty + 1))

Absent == [status |-> "absent"]

Transfer == [status : Statuses, source : Locations, destination : Locations,
             lines : Lines]

NoMoves == [left |-> NoLines, back |-> NoLines, landed |-> NoLines,
            difference |-> NoLines]

NoStamps == [dispatched |-> Nobody, received |-> Nobody, cancelled |-> Nobody]

Init ==
    /\ transfer = [t \in Transfers |-> Absent]
    /\ onHand = Opening
    /\ moved = [t \in Transfers |-> NoMoves]
    /\ stamp = [t \in Transfers |-> NoStamps]

Status(t) == transfer[t].status

SideOf(t, side) ==
    IF side = "source" THEN transfer[t].source ELSE transfer[t].destination

(* p may take this row's action on t: the status, the side and the         *)
(* capability are all the row's.  Anything else is a 409 or a 403.         *)
MayTake(p, t, row) ==
    /\ row \in StepTable
    /\ row.status = Status(t)
    /\ SideOf(t, row.side) \in WorksAt[p]
    /\ row.cap \in CapsOf[p]

Add(a, b) == [i \in Items |-> a[i] + b[i]]
Sub(a, b) == [i \in Items |-> a[i] - b[i]]

(* Stock leaving and reaching a location's shelf.                          *)
TakeNothing(l, lines) == UNCHANGED onHand
TakeFrom(l, lines) == onHand' = [onHand EXCEPT ![l] = Sub(@, lines)]
PutTo(l, lines) == onHand' = [onHand EXCEPT ![l] = Add(@, lines)]

-----------------------------------------------------------------------------
(* Opening a transfer: the destination asks, or the source starts a draft. *)

Open(t, status, source, destination, lines) ==
    /\ Status(t) = "absent"
    /\ source # destination
    /\ transfer' = [transfer EXCEPT ![t] =
           [status |-> status, source |-> source, destination |-> destination,
            lines |-> lines]]
    /\ UNCHANGED <<onHand, moved, stamp>>

Request(p, t, source, destination, lines) ==
    /\ destination \in WorksAt[p] /\ "create" \in CapsOf[p]
    /\ Open(t, "requested", source, destination, lines)

StartDraft(p, t, source, destination, lines) ==
    /\ source \in WorksAt[p] /\ "create" \in CapsOf[p]
    /\ Open(t, "draft", source, destination, lines)

(* Changing lines and answering a request move no stock.                   *)
Edit(p, t, lines) ==
    \E row \in StepTable :
        /\ row.action = "edit" /\ MayTake(p, t, row)
        /\ transfer' = [transfer EXCEPT ![t].status = row.next, ![t].lines = lines]
        /\ UNCHANGED <<onHand, moved, stamp>>

Accept(p, t, lines) ==
    \E row \in StepTable :
        /\ row.action = "accept" /\ MayTake(p, t, row)
        /\ transfer' = [transfer EXCEPT ![t].status = row.next, ![t].lines = lines]
        /\ UNCHANGED <<onHand, moved, stamp>>

Decline(p, t) ==
    \E row \in StepTable :
        /\ row.action = "decline" /\ MayTake(p, t, row)
        /\ transfer' = [transfer EXCEPT ![t].status = row.next]
        /\ stamp' = [stamp EXCEPT ![t].cancelled = p]
        /\ UNCHANGED <<onHand, moved>>

(* Stock leaves the source.                                                *)
Dispatch(p, t) ==
    \E row \in StepTable :
        /\ row.action = "dispatch" /\ MayTake(p, t, row)
        /\ transfer' = [transfer EXCEPT ![t].status = row.next]
        /\ TakeFrom(transfer[t].source, transfer[t].lines)
        /\ moved' = [moved EXCEPT ![t].left = Add(@, transfer[t].lines)]
        /\ stamp' = [stamp EXCEPT ![t].dispatched = p]

(* Stock lands at the destination.  Every line is judged before any lands: *)
(* one refused line refuses the whole call.                                *)
Receive(p, t, typed, noted) ==
    \E row \in StepTable :
        LET sent == transfer[t].lines
            got  == [i \in Items |-> Milli(typed[i])]
        IN  /\ row.action = "receive" /\ MayTake(p, t, row)
            /\ \A i \in Items : LineAccepted(sent[i], typed[i], noted[i])
            /\ \A i \in Items : sent[i] = 0 => typed[i] = 0
            /\ transfer' = [transfer EXCEPT ![t].status = row.next]
            /\ PutTo(transfer[t].destination, got)
            /\ moved' = [moved EXCEPT ![t].landed = Add(@, got),
                   ![t].difference = [i \in Items |-> Difference(sent[i], typed[i])]]
            /\ stamp' = [stamp EXCEPT ![t].received = p]

(* Stopping it.  After dispatch the stock goes back to the source.         *)
Cancel(p, t) ==
    \E row \in StepTable :
        LET back == IF Status(t) = "dispatched" THEN transfer[t].lines ELSE NoLines
        IN  /\ row.action = "cancel" /\ MayTake(p, t, row)
            /\ transfer' = [transfer EXCEPT ![t].status = row.next]
            /\ PutTo(transfer[t].source, back)
            /\ moved' = [moved EXCEPT ![t].back = Add(@, back)]
            /\ stamp' = [stamp EXCEPT ![t].cancelled = p]

Next ==
    \E p \in Persons, t \in Transfers :
        \/ \E s, d \in Locations, lines \in Lines :
               Request(p, t, s, d, lines) \/ StartDraft(p, t, s, d, lines)
        \/ \E lines \in Lines : Edit(p, t, lines) \/ Accept(p, t, lines)
        \/ Decline(p, t)
        \/ Dispatch(p, t)
        \/ \E typed \in [Items -> Typed], noted \in [Items -> BOOLEAN] :
               Receive(p, t, typed, noted)
        \/ Cancel(p, t)

Spec == Init /\ [][Next]_vars

-----------------------------------------------------------------------------
(* Every variable has its type: an open transfer names two different       *)
(* locations and at least one line, and what lands is never negative.      *)
TypeOK ==
    /\ transfer \in [Transfers -> Transfer \union {Absent}]
    /\ onHand \in [Locations -> [Items -> Int]]
    /\ moved \in [Transfers ->
           [left : [Items -> Int], back : [Items -> Int],
            landed : [Items -> Nat], difference : [Items -> Int]]]
    /\ stamp \in [Transfers -> [dispatched : Persons \union {Nobody},
                                received : Persons \union {Nobody},
                                cancelled : Persons \union {Nobody}]]

InTransit(t) == IF Status(t) = "dispatched" THEN transfer[t].lines ELSE NoLines

(* What left the source is in transit, back at the source, landed, or the  *)
(* recorded difference, for every transfer whatever calls raced on it: a   *)
(* cancel and a receive of one dispatched transfer never both move it.     *)
StockAccounted ==
    \A t \in Transfers, i \in Items :
        moved[t].left[i] = InTransit(t)[i] + moved[t].back[i]
                             + moved[t].landed[i] - moved[t].difference[i]

(* Nothing comes back or lands that did not leave, and what left was the   *)
(* transfer's lines, once.                                                 *)
MovesOnce ==
    \A t \in Transfers :
        /\ moved[t].left \in
               {NoLines} \union (IF Status(t) = "absent" THEN {} ELSE {transfer[t].lines})
        /\ moved[t].back \in {NoLines, moved[t].left}
        /\ moved[t].back # NoLines => moved[t].landed = NoLines
        /\ moved[t].left = NoLines => moved[t].landed = NoLines

(* Stock moves only by the hand of the side it moves at, holding the       *)
(* capability for that move: taking it out, landing it, and cancelling it  *)
(* while it is in transit (transfer.rs:67-70).                             *)
MovedByTheRightHand ==
    \A t \in Transfers :
        /\ moved[t].left # NoLines =>
               /\ stamp[t].dispatched \in Persons
               /\ transfer[t].source \in WorksAt[stamp[t].dispatched]
               /\ "create" \in CapsOf[stamp[t].dispatched]
        /\ Status(t) = "received" =>
               /\ stamp[t].received \in Persons
               /\ transfer[t].destination \in WorksAt[stamp[t].received]
               /\ "edit" \in CapsOf[stamp[t].received]
        /\ moved[t].back # NoLines =>
               /\ stamp[t].cancelled \in Persons
               /\ transfer[t].source \in WorksAt[stamp[t].cancelled]
               /\ "delete" \in CapsOf[stamp[t].cancelled]

(* Once stock has left, the lines it left with are never edited, and a     *)
(* received or cancelled transfer never changes again (transfer.rs:10-12). *)
SentIsFrozen ==
    [][\A t \in Transfers :
          /\ Status(t) \in {"dispatched", "received", "cancelled"} =>
                 transfer'[t].lines = transfer[t].lines
          /\ Status(t) \in {"received", "cancelled"} =>
                 transfer'[t] = transfer[t] /\ moved'[t] = moved[t]]_vars

(* Where a transfer's goods are, its statuses and its lines while they may *)
(* still change forgotten.                                                 *)
Whereabouts(t) ==
    LET sent == transfer[t]
    IN  IF Status(t) = "dispatched" THEN
            [at |-> "road", from |-> sent.source, to |-> sent.destination, sent |-> sent.lines]
        ELSE IF moved[t].left = NoLines THEN [at |-> "waiting"]
        ELSE IF Status(t) = "received" THEN
            [at |-> "ended", place |-> sent.destination, difference |-> moved[t].difference]
        ELSE [at |-> "ended", place |-> sent.source, difference |-> NoLines]

Road == [t \in Transfers |-> Whereabouts(t)]

Promise == INSTANCE GoodsInTransit WITH
    Parcels <- Transfers, Places <- Locations, Goods <- Items, Stocked <- Opening,
    Sendable <- Lines, shelf <- onHand, road <- Road

(* Whatever calls race, the shelves see parcels: goods leave one, once,    *)
(* and end on the other or where they came from, and nothing else touches  *)
(* a shelf (transfer.rs:1-25).                                             *)
ImplementsGoods == Promise!GoodsSpec
=============================================================================
