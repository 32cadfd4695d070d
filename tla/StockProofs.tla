----------------------------- MODULE StockProofs -----------------------------
(***************************************************************************)
(* Proofs about the stock.                                                 *)
(*                                                                         *)
(* StockTransfer, for every set of transfers, locations, items and         *)
(* persons: the inductive invariant adds to TypeOK what each status says   *)
(* of the stock a transfer has moved and of who moved it.                  *)
(*                                                                         *)
(* Replenishment, whose steps are transfer steps and sales, for any finite *)
(* set of transfers, any levels and any warehouses.                        *)
(*                                                                         *)
(* StockRoom, for any ingredients, units, costs, yields and quantities:    *)
(* the inductive invariant says of each thing written down that it was     *)
(* written as the code writes it; the rest is what rounding keeps.         *)
(***************************************************************************)
EXTENDS Replenishment, StockRoom, FoldFacts, TLAPS

(* What a transfer in each status has moved.                               *)
NothingMoved(t) ==
    /\ moved[t].left = NoLines
    /\ moved[t].back = NoLines
    /\ moved[t].landed = NoLines
    /\ moved[t].difference = NoLines

DispatchedByTheSource(t) ==
    /\ moved[t].left = transfer[t].lines
    /\ stamp[t].dispatched \in Persons
    /\ transfer[t].source \in WorksAt[stamp[t].dispatched]
    /\ "create" \in CapsOf[stamp[t].dispatched]

OnTheRoad(t) ==
    /\ DispatchedByTheSource(t)
    /\ moved[t].back = NoLines
    /\ moved[t].landed = NoLines
    /\ moved[t].difference = NoLines

Landed(t) ==
    /\ DispatchedByTheSource(t)
    /\ moved[t].back = NoLines
    /\ \A i \in Items : moved[t].left[i] = moved[t].landed[i] - moved[t].difference[i]
    /\ stamp[t].received \in Persons
    /\ transfer[t].destination \in WorksAt[stamp[t].received]
    /\ "edit" \in CapsOf[stamp[t].received]

Returned(t) ==
    /\ DispatchedByTheSource(t)
    /\ moved[t].back = moved[t].left
    /\ moved[t].landed = NoLines
    /\ moved[t].difference = NoLines
    /\ stamp[t].cancelled \in Persons
    /\ transfer[t].source \in WorksAt[stamp[t].cancelled]
    /\ "delete" \in CapsOf[stamp[t].cancelled]

Phase(t) ==
    /\ Status(t) \in {"absent", "requested", "draft"} => NothingMoved(t)
    /\ Status(t) = "dispatched" => OnTheRoad(t)
    /\ Status(t) = "received" => Landed(t)
    /\ Status(t) = "cancelled" => NothingMoved(t) \/ Returned(t)

IInv == TypeOK /\ \A t \in Transfers : Phase(t)

-----------------------------------------------------------------------------
(* What the table says of each action's rows.                              *)
LEMMA TableFacts ==
    ASSUME NEW row \in StepTable
    PROVE  /\ row.next \in Statuses
           /\ row.action \in {"edit", "accept", "decline"} =>
                  /\ row.status \in {"requested", "draft"}
                  /\ row.next \in {"requested", "draft", "cancelled"}
           /\ row.action \in {"edit", "accept"} => row.next \in {"requested", "draft"}
           /\ row.action = "dispatch" =>
                  /\ row.status = "draft" /\ row.next = "dispatched"
                  /\ row.side = "source" /\ row.cap = "create"
           /\ row.action = "receive" =>
                  /\ row.status = "dispatched" /\ row.next = "received"
                  /\ row.side = "destination" /\ row.cap = "edit"
           /\ row.action = "cancel" =>
                  /\ row.status \in {"requested", "draft", "dispatched"}
                  /\ row.next = "cancelled"
                  /\ row.status = "dispatched" =>
                         row.side = "source" /\ row.cap = "delete"
  BY DEF StepTable, RequestRows, DraftRows, TransitRows, Row, Statuses

(* A typed quantity, on the grain, is an integer.                          *)
LEMMA MilliType == ASSUME NEW q \in Int PROVE Milli(q) \in Int
  <1>1. Grain \in Nat \ {0}
    BY TransferAssumption
  <1>2. 2 * Grain \in Nat \ {0} /\ 2 * q + Grain \in Int /\ 2 * (-q) + Grain \in Int
    BY <1>1
  <1>3. \A a \in Int, b \in Nat \ {0} : a \div b \in Int
    OBVIOUS
  <1> QED BY <1>2, <1>3 DEF Milli

(* Adding and subtracting lines gives lines, and adding to nothing what    *)
(* was there.                                                              *)
LEMMA LineSums ==
    ASSUME NEW a \in [Items -> Int], NEW b \in [Items -> Int]
    PROVE  /\ Add(a, b) \in [Items -> Int]
           /\ Sub(a, b) \in [Items -> Int]
           /\ a = NoLines => Add(a, b) = b
           /\ b = NoLines => Add(a, b) = a
  BY DEF Add, Sub, NoLines

LEMMA LinesType == Lines \subseteq [Items -> Int] /\ NoLines \in [Items -> Int]
  <1>1. \A q \in [Items -> 0..MaxQty] : q \in [Items -> Int]
    BY TransferAssumption
  <1> QED BY <1>1 DEF Lines, NoLines

(* A transfer a row can be taken on exists.                                *)
LEMMA TakenIsOpen ==
    ASSUME TypeOK, NEW t \in Transfers, NEW p \in Persons, NEW row \in StepTable,
           MayTake(p, t, row)
    PROVE  transfer[t] \in Transfer
  <1>1. transfer[t] \in Transfer \union {Absent}
    BY DEF TypeOK
  <1>2. row.status # "absent"
    BY DEF StepTable, RequestRows, DraftRows, TransitRows, Row
  <1> QED BY <1>1, <1>2 DEF MayTake, Status, Absent

-----------------------------------------------------------------------------
(* A step that changes only t keeps the phases of the others.              *)
OnlyTouches(t) ==
    \A u \in Transfers \ {t} :
        /\ transfer'[u] = transfer[u]
        /\ moved'[u] = moved[u]
        /\ stamp'[u] = stamp[u]

LEMMA OthersKeepTheirPhase ==
    ASSUME IInv, NEW t \in Transfers, OnlyTouches(t), Phase(t)'
    PROVE  \A u \in Transfers : Phase(u)'
  <1> SUFFICES ASSUME NEW u \in Transfers, u # t PROVE Phase(u)'
    OBVIOUS
  <1>1. transfer'[u] = transfer[u] /\ moved'[u] = moved[u] /\ stamp'[u] = stamp[u]
    BY DEF OnlyTouches
  <1>2. Phase(u)
    BY DEF IInv
  <1> QED
    BY <1>1, <1>2 DEF Phase, NothingMoved, OnTheRoad, Landed, Returned,
                      DispatchedByTheSource, Status

(* Opening a transfer.                                                     *)
LEMMA OpenKeeps ==
    ASSUME IInv, NEW t \in Transfers, NEW st \in {"requested", "draft"},
           NEW s \in Locations, NEW d \in Locations, NEW lines \in Lines,
           Open(t, st, s, d, lines)
    PROVE  IInv'
  <1>1. TypeOK'
    BY DEF IInv, TypeOK, Open, Transfer, Statuses
  <1>2. OnlyTouches(t)
    BY DEF OnlyTouches, IInv, TypeOK, Open
  <1>3. Phase(t)'
    <2>1. transfer'[t].status = st
      BY DEF Open, IInv, TypeOK
    <2>2. NothingMoved(t)'
      BY DEF IInv, Phase, Open, NothingMoved, Status
    <2> QED BY <2>1, <2>2 DEF Phase, Status
  <1> QED BY <1>1, <1>2, <1>3, OthersKeepTheirPhase DEF IInv

(* Editing and accepting.                                                  *)
LEMMA RewriteKeeps ==
    ASSUME IInv, NEW t \in Transfers, NEW p \in Persons, NEW row \in StepTable,
           row.action \in {"edit", "accept"}, MayTake(p, t, row), NEW lines \in Lines,
           transfer' = [transfer EXCEPT ![t].status = row.next, ![t].lines = lines],
           UNCHANGED <<onHand, moved, stamp>>
    PROVE  IInv'
  <1>1. transfer[t] \in Transfer
    BY TakenIsOpen DEF IInv
  <1>2. /\ row.status \in {"requested", "draft"}
        /\ row.next \in {"requested", "draft"}
    BY TableFacts
  <1>3. transfer'[t].status = row.next
    BY <1>1 DEF IInv, TypeOK, Transfer
  <1>4. TypeOK'
    <2>1. transfer'[t] \in Transfer
      BY <1>1, <1>2 DEF IInv, TypeOK, Transfer, Statuses
    <2> QED BY <2>1 DEF IInv, TypeOK
  <1>5. OnlyTouches(t)
    BY DEF OnlyTouches, IInv, TypeOK
  <1>6. Phase(t)'
    <2>1. NothingMoved(t)
      BY <1>2 DEF IInv, Phase, MayTake
    <2> QED BY <2>1, <1>2, <1>3 DEF Phase, Status, NothingMoved
  <1> QED BY <1>4, <1>5, <1>6, OthersKeepTheirPhase DEF IInv

LEMMA DeclineKeeps ==
    ASSUME IInv, NEW t \in Transfers, NEW p \in Persons, Decline(p, t)
    PROVE  IInv'
  <1>1. PICK row \in StepTable :
           /\ row.action = "decline" /\ MayTake(p, t, row)
           /\ transfer' = [transfer EXCEPT ![t].status = row.next]
           /\ stamp' = [stamp EXCEPT ![t].cancelled = p]
           /\ UNCHANGED <<onHand, moved>>
    BY DEF Decline
  <1>2. transfer[t] \in Transfer
    BY <1>1, TakenIsOpen DEF IInv
  <1>3. /\ row.status \in {"requested", "draft"}
        /\ row.next \in {"requested", "draft", "cancelled"}
    BY <1>1, TableFacts
  <1>4. transfer'[t].status = row.next
    BY <1>1, <1>2 DEF IInv, TypeOK, Transfer
  <1>5. TypeOK'
    <2>1. transfer'[t] \in Transfer
      BY <1>1, <1>2, <1>3 DEF IInv, TypeOK, Transfer, Statuses
    <2>2. stamp' \in [Transfers -> [dispatched : Persons \union {Nobody},
                                    received : Persons \union {Nobody},
                                    cancelled : Persons \union {Nobody}]]
      BY <1>1 DEF IInv, TypeOK
    <2> QED BY <1>1, <2>1, <2>2 DEF IInv, TypeOK
  <1>6. OnlyTouches(t)
    BY <1>1 DEF OnlyTouches, IInv, TypeOK
  <1>7. Phase(t)'
    <2>1. NothingMoved(t)
      BY <1>1, <1>3 DEF IInv, Phase, MayTake
    <2> QED BY <1>1, <2>1, <1>3, <1>4 DEF Phase, Status, NothingMoved
  <1> QED BY <1>5, <1>6, <1>7, OthersKeepTheirPhase DEF IInv

-----------------------------------------------------------------------------
(* The three steps that move stock.                                        *)
LEMMA DispatchKeeps ==
    ASSUME IInv, NEW t \in Transfers, NEW p \in Persons, Dispatch(p, t)
    PROVE  IInv'
  <1> DEFINE lines == transfer[t].lines
  <1>1. PICK row \in StepTable :
           /\ row.action = "dispatch" /\ MayTake(p, t, row)
           /\ transfer' = [transfer EXCEPT ![t].status = row.next]
           /\ TakeFrom(transfer[t].source, lines)
           /\ moved' = [moved EXCEPT ![t].left = Add(@, lines)]
           /\ stamp' = [stamp EXCEPT ![t].dispatched = p]
    BY DEF Dispatch
  <1>2. transfer[t] \in Transfer
    BY <1>1, TakenIsOpen DEF IInv
  <1>3. /\ row.status = "draft" /\ row.next = "dispatched"
        /\ row.side = "source" /\ row.cap = "create"
    BY <1>1, TableFacts
  <1>4. lines \in [Items -> Int]
    BY <1>2, LinesType DEF Transfer
  <1>5. NothingMoved(t)
    BY <1>1, <1>3 DEF IInv, Phase, MayTake
  <1>6. /\ moved[t].left \in [Items -> Int]
        /\ Add(moved[t].left, lines) = lines
    BY <1>4, <1>5, LineSums, LinesType DEF NothingMoved
  <1>7. onHand[transfer[t].source] \in [Items -> Int]
    BY <1>2 DEF IInv, TypeOK, Transfer
  <1>8. TypeOK'
    <2>1. transfer'[t] \in Transfer
      BY <1>1, <1>2, <1>3 DEF IInv, TypeOK, Transfer, Statuses
    <2>2. transfer' \in [Transfers -> Transfer \union {Absent}]
      BY <1>1, <2>1 DEF IInv, TypeOK
    <2>3. onHand' \in [Locations -> [Items -> Int]]
      <3>1. Sub(onHand[transfer[t].source], lines) \in [Items -> Int]
        BY <1>4, <1>7, LineSums
      <3> HIDE DEF lines
      <3> QED BY <1>1, <3>1 DEF IInv, TypeOK, TakeFrom, PutTo
    <2>4. moved' \in [Transfers -> [left : [Items -> Int], back : [Items -> Int],
                        landed : [Items -> Nat], difference : [Items -> Int]]]
      <3> HIDE DEF lines
      <3> QED BY <1>1, <1>4, <1>6 DEF IInv, TypeOK
    <2>5. stamp' \in [Transfers -> [dispatched : Persons \union {Nobody},
                                    received : Persons \union {Nobody},
                                    cancelled : Persons \union {Nobody}]]
      BY <1>1 DEF IInv, TypeOK
    <2> QED BY <2>2, <2>3, <2>4, <2>5 DEF TypeOK
  <1>9. OnlyTouches(t)
    BY <1>1 DEF OnlyTouches, IInv, TypeOK
  <1>10. Phase(t)'
    <2>1. /\ transfer'[t].status = "dispatched"
          /\ transfer'[t].lines = lines
          /\ transfer'[t].source = transfer[t].source
      BY <1>1, <1>2, <1>3 DEF IInv, TypeOK, Transfer
    <2>2. /\ moved'[t].left = lines
          /\ moved'[t].back = NoLines
          /\ moved'[t].landed = NoLines
          /\ moved'[t].difference = NoLines
      <3> HIDE DEF lines
      <3> QED BY <1>1, <1>5, <1>6 DEF IInv, TypeOK, NothingMoved
    <2>3. stamp'[t].dispatched = p
      BY <1>1 DEF IInv, TypeOK
    <2>4. transfer[t].source \in WorksAt[p] /\ "create" \in CapsOf[p]
      BY <1>1, <1>3 DEF MayTake, SideOf
    <2>5. OnTheRoad(t)'
      BY <2>1, <2>2, <2>3, <2>4 DEF OnTheRoad, DispatchedByTheSource
    <2> QED BY <2>1, <2>5 DEF Phase, Status
  <1> QED BY <1>8, <1>9, <1>10, OthersKeepTheirPhase DEF IInv

LEMMA ReceiveKeeps ==
    ASSUME IInv, NEW t \in Transfers, NEW p \in Persons,
           NEW typed \in [Items -> Typed], NEW noted \in [Items -> BOOLEAN],
           Receive(p, t, typed, noted)
    PROVE  IInv'
  <1> DEFINE sent == transfer[t].lines
             got  == [i \in Items |-> Milli(typed[i])]
             gap  == [i \in Items |-> Difference(sent[i], typed[i])]
  <1>1. PICK row \in StepTable :
           /\ row.action = "receive" /\ MayTake(p, t, row)
           /\ \A i \in Items : LineAccepted(sent[i], typed[i], noted[i])
           /\ transfer' = [transfer EXCEPT ![t].status = row.next]
           /\ PutTo(transfer[t].destination, got)
           /\ moved' = [moved EXCEPT ![t].landed = Add(@, got), ![t].difference = gap]
           /\ stamp' = [stamp EXCEPT ![t].received = p]
    BY DEF Receive
  <1>2. transfer[t] \in Transfer
    BY <1>1, TakenIsOpen DEF IInv
  <1>3. /\ row.status = "dispatched" /\ row.next = "received"
        /\ row.side = "destination" /\ row.cap = "edit"
    BY <1>1, TableFacts
  <1>4. OnTheRoad(t)
    BY <1>1, <1>3 DEF IInv, Phase, MayTake
  <1>5. sent \in [Items -> Int]
    BY <1>2, LinesType DEF Transfer
  <1>6. got \in [Items -> Nat] /\ got \in [Items -> Int] /\ gap \in [Items -> Int]
    <2>1. \A i \in Items : Milli(typed[i]) \in Int
      <3> TAKE i \in Items
      <3>1. typed[i] \in Int
        BY TransferAssumption DEF Typed
      <3> QED BY <3>1, MilliType
    <2>2. \A i \in Items : sent[i] \in Int
      BY <1>5
    <2>3. \A i \in Items : Milli(typed[i]) >= 0
      BY <1>1 DEF LineAccepted
    <2> QED BY <2>1, <2>2, <2>3 DEF Difference
  <1>7. \A i \in Items : sent[i] = got[i] - gap[i]
    <2> TAKE i \in Items
    <2>1. got[i] \in Int /\ sent[i] \in Int /\ gap[i] = got[i] - sent[i]
      BY <1>5, <1>6 DEF Difference
    <2> HIDE DEF sent, got, gap
    <2> QED BY <2>1
  <1>8. Add(moved[t].landed, got) = got
    <2> HIDE DEF got
    <2> QED BY <1>4, <1>6, LinesType, LineSums DEF OnTheRoad
  <1>9. onHand[transfer[t].destination] \in [Items -> Int]
    BY <1>2 DEF IInv, TypeOK, Transfer
  <1>10. /\ moved'[t].left = moved[t].left
         /\ moved'[t].back = moved[t].back
         /\ moved'[t].landed = got
         /\ moved'[t].difference = gap
    <2> HIDE DEF sent, got, gap
    <2> QED BY <1>1, <1>8 DEF IInv, TypeOK
  <1>11. TypeOK'
    <2>1. transfer'[t] \in Transfer
      BY <1>1, <1>2, <1>3 DEF IInv, TypeOK, Transfer, Statuses
    <2>2. transfer' \in [Transfers -> Transfer \union {Absent}]
      BY <1>1, <2>1 DEF IInv, TypeOK
    <2>3. onHand' \in [Locations -> [Items -> Int]]
      <3> HIDE DEF got
      <3>1. Add(onHand[transfer[t].destination], got) \in [Items -> Int]
        BY <1>6, <1>9, LineSums
      <3> QED BY <1>1, <3>1 DEF IInv, TypeOK, TakeFrom, PutTo
    <2>4. moved' \in [Transfers -> [left : [Items -> Int], back : [Items -> Int],
                        landed : [Items -> Nat], difference : [Items -> Int]]]
      <3> HIDE DEF sent, got, gap
      <3> DEFINE M == [left : [Items -> Int], back : [Items -> Int],
                       landed : [Items -> Nat], difference : [Items -> Int]]
                 now == [moved[t] EXCEPT !.landed = got, !.difference = gap]
      <3>1. moved \in [Transfers -> M]
        BY DEF IInv, TypeOK
      <3>2. now \in M
        BY <1>6, <3>1
      <3>3. moved' = [moved EXCEPT ![t] = now]
        BY <1>1, <1>8, <3>1
      <3> HIDE DEF now, M
      <3> QED BY <3>1, <3>2, <3>3 DEF M
    <2>5. stamp' \in [Transfers -> [dispatched : Persons \union {Nobody},
                                    received : Persons \union {Nobody},
                                    cancelled : Persons \union {Nobody}]]
      BY <1>1 DEF IInv, TypeOK
    <2> QED BY <2>2, <2>3, <2>4, <2>5 DEF TypeOK
  <1>12. OnlyTouches(t)
    <2> HIDE DEF sent, got, gap
    <2> QED BY <1>1 DEF OnlyTouches, IInv, TypeOK
  <1>13. Phase(t)'
    <2>1. /\ transfer'[t].status = "received"
          /\ transfer'[t].lines = sent
          /\ transfer'[t].source = transfer[t].source
          /\ transfer'[t].destination = transfer[t].destination
      BY <1>1, <1>2, <1>3 DEF IInv, TypeOK, Transfer
    <2>2. /\ stamp'[t].received = p
          /\ stamp'[t].dispatched = stamp[t].dispatched
      BY <1>1 DEF IInv, TypeOK
    <2>3. transfer[t].destination \in WorksAt[p] /\ "edit" \in CapsOf[p]
      BY <1>1, <1>3 DEF MayTake, SideOf
    <2>4. /\ moved[t].left = sent /\ moved[t].back = NoLines
          /\ stamp[t].dispatched \in Persons
          /\ transfer[t].source \in WorksAt[stamp[t].dispatched]
          /\ "create" \in CapsOf[stamp[t].dispatched]
      BY <1>4 DEF OnTheRoad, DispatchedByTheSource
    <2> HIDE DEF sent, got, gap
    <2>5. Landed(t)'
      BY <1>7, <1>10, <2>1, <2>2, <2>3, <2>4 DEF Landed, DispatchedByTheSource
    <2> QED BY <2>1, <2>5 DEF Phase, Status
  <1> QED BY <1>11, <1>12, <1>13, OthersKeepTheirPhase DEF IInv

LEMMA CancelKeeps ==
    ASSUME IInv, NEW t \in Transfers, NEW p \in Persons, Cancel(p, t)
    PROVE  IInv'
  <1> DEFINE back == IF Status(t) = "dispatched" THEN transfer[t].lines ELSE NoLines
  <1>1. PICK row \in StepTable :
           /\ row.action = "cancel" /\ MayTake(p, t, row)
           /\ transfer' = [transfer EXCEPT ![t].status = row.next]
           /\ PutTo(transfer[t].source, back)
           /\ moved' = [moved EXCEPT ![t].back = Add(@, back)]
           /\ stamp' = [stamp EXCEPT ![t].cancelled = p]
    BY DEF Cancel
  <1>2. transfer[t] \in Transfer
    BY <1>1, TakenIsOpen DEF IInv
  <1>3. /\ Status(t) \in {"requested", "draft", "dispatched"}
        /\ row.next = "cancelled"
        /\ Status(t) = "dispatched" =>
               transfer[t].source \in WorksAt[p] /\ "delete" \in CapsOf[p]
    BY <1>1, TableFacts DEF MayTake, SideOf
  <1>4. back \in [Items -> Int]
    BY <1>2, LinesType DEF Transfer
  <1>5. moved[t].back = NoLines
    BY <1>3 DEF IInv, Phase, NothingMoved, OnTheRoad
  <1>6. Add(moved[t].back, back) = back
    <2> HIDE DEF back
    <2> QED BY <1>4, <1>5, LineSums, LinesType
  <1>7. onHand[transfer[t].source] \in [Items -> Int]
    BY <1>2 DEF IInv, TypeOK, Transfer
  <1>8. /\ moved'[t].left = moved[t].left
        /\ moved'[t].back = back
        /\ moved'[t].landed = moved[t].landed
        /\ moved'[t].difference = moved[t].difference
    <2> HIDE DEF back
    <2> QED BY <1>1, <1>6 DEF IInv, TypeOK
  <1>9. TypeOK'
    <2>1. transfer'[t] \in Transfer
      BY <1>1, <1>2, <1>3 DEF IInv, TypeOK, Transfer, Statuses
    <2>2. transfer' \in [Transfers -> Transfer \union {Absent}]
      BY <1>1, <2>1 DEF IInv, TypeOK
    <2> HIDE DEF back
    <2>3. onHand' \in [Locations -> [Items -> Int]]
      <3>1. Add(onHand[transfer[t].source], back) \in [Items -> Int]
        BY <1>4, <1>7, LineSums
      <3> QED BY <1>1, <3>1 DEF IInv, TypeOK, TakeFrom, PutTo
    <2>4. moved' \in [Transfers -> [left : [Items -> Int], back : [Items -> Int],
                        landed : [Items -> Nat], difference : [Items -> Int]]]
      BY <1>1, <1>4, <1>6 DEF IInv, TypeOK
    <2>5. stamp' \in [Transfers -> [dispatched : Persons \union {Nobody},
                                    received : Persons \union {Nobody},
                                    cancelled : Persons \union {Nobody}]]
      BY <1>1 DEF IInv, TypeOK
    <2> QED BY <2>2, <2>3, <2>4, <2>5 DEF TypeOK
  <1>10. OnlyTouches(t)
    <2> HIDE DEF back
    <2> QED BY <1>1 DEF OnlyTouches, IInv, TypeOK
  <1>11. /\ transfer'[t].status = "cancelled"
         /\ transfer'[t].lines = transfer[t].lines
         /\ transfer'[t].source = transfer[t].source
         /\ stamp'[t].cancelled = p
         /\ stamp'[t].dispatched = stamp[t].dispatched
    BY <1>1, <1>2, <1>3 DEF IInv, TypeOK, Transfer
  <1>12. NothingMoved(t)' \/ Returned(t)'
    <2>1. CASE Status(t) = "dispatched"
      <3>1. OnTheRoad(t)
        BY <2>1 DEF IInv, Phase
      <3> QED BY <2>1, <3>1, <1>3, <1>8, <1>11
              DEF OnTheRoad, DispatchedByTheSource, Returned
    <2>2. CASE Status(t) # "dispatched"
      <3>1. NothingMoved(t)
        BY <2>2, <1>3 DEF IInv, Phase
      <3> QED BY <2>2, <3>1, <1>8 DEF NothingMoved
    <2> QED BY <2>1, <2>2
  <1>13. Phase(t)'
    BY <1>11, <1>12 DEF Phase, Status
  <1> QED BY <1>9, <1>10, <1>13, OthersKeepTheirPhase DEF IInv

-----------------------------------------------------------------------------
LEMMA InitIInv == Init => IInv
  <1> SUFFICES ASSUME Init PROVE IInv
    OBVIOUS
  <1>1. TypeOK
    <2>1. NoLines \in [Items -> Nat] /\ NoLines \in [Items -> Int]
      BY DEF NoLines
    <2> QED BY <2>1, TransferAssumption DEF Init, TypeOK, NoMoves, NoStamps
  <1>2. ASSUME NEW t \in Transfers PROVE Phase(t)
    BY DEF Init, Phase, Status, Absent, NothingMoved, NoMoves
  <1> QED BY <1>1, <1>2 DEF IInv

LEMMA StepIInv == IInv /\ [Next]_vars => IInv'
  <1> SUFFICES ASSUME IInv, [Next]_vars PROVE IInv'
    OBVIOUS
  <1>1. CASE UNCHANGED vars
    BY <1>1 DEF IInv, TypeOK, Phase, NothingMoved, OnTheRoad, Landed, Returned,
                DispatchedByTheSource, Status, vars
  <1>2. CASE Next
    <2>1. PICK p \in Persons, t \in Transfers :
             \/ \E s, d \in Locations, lines \in Lines :
                    Request(p, t, s, d, lines) \/ StartDraft(p, t, s, d, lines)
             \/ \E lines \in Lines : Edit(p, t, lines) \/ Accept(p, t, lines)
             \/ Decline(p, t)
             \/ Dispatch(p, t)
             \/ \E typed \in [Items -> Typed], noted \in [Items -> BOOLEAN] :
                    Receive(p, t, typed, noted)
             \/ Cancel(p, t)
      BY <1>2 DEF Next
    <2>2. CASE \E s, d \in Locations, lines \in Lines :
                   Request(p, t, s, d, lines) \/ StartDraft(p, t, s, d, lines)
      BY <2>2, OpenKeeps DEF Request, StartDraft
    <2>3. CASE \E lines \in Lines : Edit(p, t, lines) \/ Accept(p, t, lines)
      BY <2>3, RewriteKeeps DEF Edit, Accept
    <2>4. CASE Decline(p, t)
      BY <2>4, DeclineKeeps
    <2>5. CASE Dispatch(p, t)
      BY <2>5, DispatchKeeps
    <2>6. CASE \E typed \in [Items -> Typed], noted \in [Items -> BOOLEAN] :
                   Receive(p, t, typed, noted)
      BY <2>6, ReceiveKeeps
    <2>7. CASE Cancel(p, t)
      BY <2>7, CancelKeeps
    <2> QED BY <2>1, <2>2, <2>3, <2>4, <2>5, <2>6, <2>7
  <1> QED BY <1>1, <1>2

LEMMA Invariance == Spec => []IInv
  BY InitIInv, StepIInv, PTL DEF Spec

(* Every variable keeps its type.                                          *)
THEOREM TypeCorrect == Spec => []TypeOK
  <1>1. IInv => TypeOK
    BY DEF IInv
  <1> QED BY <1>1, Invariance, PTL

(* No stock is made or lost by a transfer, whatever calls race on it.      *)
THEOREM Accounted == Spec => []StockAccounted
  <1>1. IInv => StockAccounted
    <2> SUFFICES ASSUME IInv, NEW t \in Transfers, NEW i \in Items
                 PROVE  moved[t].left[i] = InTransit(t)[i] + moved[t].back[i]
                                     + moved[t].landed[i] - moved[t].difference[i]
      BY DEF StockAccounted
    <2>1. /\ moved[t].left[i] \in Int /\ moved[t].back[i] \in Int
          /\ moved[t].landed[i] \in Int /\ moved[t].difference[i] \in Int
          /\ NoLines[i] = 0
      BY DEF IInv, TypeOK, NoLines
    <2>2. Phase(t)
      BY DEF IInv
    <2>3. Status(t) \in Statuses \union {"absent"}
      BY DEF IInv, TypeOK, Transfer, Absent, Status
    <2>4. CASE NothingMoved(t) /\ Status(t) # "dispatched"
      BY <2>4, <2>1 DEF NothingMoved, InTransit
    <2>5. CASE OnTheRoad(t) /\ Status(t) = "dispatched"
      BY <2>5, <2>1 DEF OnTheRoad, DispatchedByTheSource, InTransit
    <2>6. CASE Landed(t) /\ Status(t) = "received"
      BY <2>6, <2>1 DEF Landed, InTransit
    <2>7. CASE Returned(t) /\ Status(t) = "cancelled"
      BY <2>7, <2>1 DEF Returned, InTransit
    <2> QED BY <2>2, <2>3, <2>4, <2>5, <2>6, <2>7 DEF Phase, Statuses
  <1> QED BY <1>1, Invariance, PTL

(* What left comes back or lands at most once.                             *)
THEOREM Once == Spec => []MovesOnce
  <1>1. IInv => MovesOnce
    <2> SUFFICES ASSUME IInv, NEW t \in Transfers
                 PROVE  /\ moved[t].left \in {NoLines} \union
                               (IF Status(t) = "absent" THEN {} ELSE {transfer[t].lines})
                        /\ moved[t].back \in {NoLines, moved[t].left}
                        /\ moved[t].back # NoLines => moved[t].landed = NoLines
                        /\ moved[t].left = NoLines => moved[t].landed = NoLines
      BY DEF MovesOnce
    <2>1. Phase(t)
      BY DEF IInv
    <2>2. Status(t) \in Statuses \union {"absent"}
      BY DEF IInv, TypeOK, Transfer, Absent, Status
    <2>3. Status(t) # "absent" => transfer[t].lines # NoLines
      <3>1. Status(t) # "absent" => transfer[t].lines \in Lines
        BY DEF IInv, TypeOK, Transfer, Absent, Status
      <3>2. \A q \in Lines : q # NoLines
        BY DEF Lines, NoLines
      <3> QED BY <3>1, <3>2
    <2>4. CASE NothingMoved(t)
      BY <2>4 DEF NothingMoved
    <2>5. CASE (OnTheRoad(t) \/ Landed(t) \/ Returned(t)) /\ Status(t) # "absent"
      BY <2>5, <2>3 DEF OnTheRoad, Landed, Returned, DispatchedByTheSource
    <2> QED BY <2>1, <2>2, <2>4, <2>5 DEF Phase, Statuses
  <1> QED BY <1>1, Invariance, PTL

(* Stock is moved only by the side it moves at, holding the capability.    *)
THEOREM RightHand == Spec => []MovedByTheRightHand
  <1>1. IInv => MovedByTheRightHand
    BY DEF IInv, TypeOK, Transfer, Absent, Status, Statuses, MovedByTheRightHand, Phase,
           NothingMoved, OnTheRoad, Landed, Returned, DispatchedByTheSource
  <1> QED BY <1>1, Invariance, PTL

(* Sent lines are frozen and a final transfer is final.                    *)
THEOREM Frozen == Spec => SentIsFrozen
  <1> DEFINE Kept(t) ==
        /\ Status(t) \in {"dispatched", "received", "cancelled"} =>
               transfer'[t].lines = transfer[t].lines
        /\ Status(t) \in {"received", "cancelled"} =>
               transfer'[t] = transfer[t] /\ moved'[t] = moved[t]
  <1>1. IInv /\ [Next]_vars => [\A t \in Transfers : Kept(t)]_vars
    <2> SUFFICES ASSUME IInv, Next, NEW u \in Transfers PROVE Kept(u)
      OBVIOUS
    <2>1. PICK p \in Persons, t \in Transfers :
             \/ \E s, d \in Locations, lines \in Lines :
                    Request(p, t, s, d, lines) \/ StartDraft(p, t, s, d, lines)
             \/ \E lines \in Lines : Edit(p, t, lines) \/ Accept(p, t, lines)
             \/ Decline(p, t)
             \/ Dispatch(p, t)
             \/ \E typed \in [Items -> Typed], noted \in [Items -> BOOLEAN] :
                    Receive(p, t, typed, noted)
             \/ Cancel(p, t)
      BY DEF Next
    <2>2. CASE u # t
      <3>1. transfer'[u] = transfer[u] /\ moved'[u] = moved[u]
        BY <2>1, <2>2 DEF IInv, TypeOK, Request, StartDraft, Open, Edit, Accept,
                          Decline, Dispatch, Receive, Cancel
      <3> QED BY <3>1
    <2>3. CASE u = t
      <3>1. ASSUME Status(t) \in {"received", "cancelled"} PROVE FALSE
        <4>1. \A row \in StepTable : row.status \in {"requested", "draft", "dispatched"}
          BY DEF StepTable, RequestRows, DraftRows, TransitRows, Row
        <4> QED BY <2>1, <3>1, <4>1 DEF Request, StartDraft, Open, Edit, Accept,
                       Decline, Dispatch, Receive, Cancel, MayTake
      <3>2. ASSUME Status(t) = "dispatched" PROVE transfer'[t].lines = transfer[t].lines
        <4>1. \A row \in StepTable :
                 row.action \in {"edit", "accept", "dispatch", "decline"} =>
                     row.status # "dispatched"
          BY DEF StepTable, RequestRows, DraftRows, TransitRows, Row
        <4>2. \/ \E typed \in [Items -> Typed], noted \in [Items -> BOOLEAN] :
                     Receive(p, t, typed, noted)
              \/ Cancel(p, t)
          BY <2>1, <3>2, <4>1 DEF Request, StartDraft, Open, Edit, Accept, Decline,
                                  Dispatch, MayTake
        <4>3. PICK row \in StepTable :
                 MayTake(p, t, row) /\ transfer' = [transfer EXCEPT ![t].status = row.next]
          BY <4>2 DEF Receive, Cancel
        <4>4. transfer[t] \in Transfer
          BY <4>3, TakenIsOpen DEF IInv
        <4> QED BY <4>3, <4>4 DEF IInv, TypeOK, Transfer
      <3> QED BY <2>3, <3>1, <3>2
    <2> QED BY <2>2, <2>3
  <1> QED BY <1>1, Invariance, PTL DEF Spec, SentIsFrozen

-----------------------------------------------------------------------------
(* The two locations of a transfer are two, which Leave asks.              *)
Apart == \A t \in Transfers :
             Status(t) # "absent" => transfer[t].source # transfer[t].destination

LEMMA StepApart == IInv /\ Apart /\ [Next]_vars => Apart'
  <1> SUFFICES ASSUME IInv, Apart, [Next]_vars, NEW u \in Transfers, Status(u)' # "absent"
               PROVE  transfer'[u].source # transfer'[u].destination
    BY DEF Apart, Status
  <1>1. CASE UNCHANGED vars
    BY <1>1 DEF Apart, Status, vars
  <1>2. CASE Next
    <2>1. PICK p \in Persons, t \in Transfers :
             \/ \E s, d \in Locations, lines \in Lines :
                    Request(p, t, s, d, lines) \/ StartDraft(p, t, s, d, lines)
             \/ \E lines \in Lines : Edit(p, t, lines) \/ Accept(p, t, lines)
             \/ Decline(p, t)
             \/ Dispatch(p, t)
             \/ \E typed \in [Items -> Typed], noted \in [Items -> BOOLEAN] :
                    Receive(p, t, typed, noted)
             \/ Cancel(p, t)
      BY <1>2 DEF Next
    <2>2. CASE u # t
      <3>1. transfer'[u] = transfer[u]
        BY <2>1, <2>2 DEF IInv, TypeOK, Request, StartDraft, Open, Edit, Accept,
                          Decline, Dispatch, Receive, Cancel
      <3> QED BY <3>1 DEF Apart, Status
    <2>3. CASE u = t
      <3>1. CASE \E s, d \in Locations, lines \in Lines :
                     Request(p, t, s, d, lines) \/ StartDraft(p, t, s, d, lines)
        BY <2>3, <3>1 DEF IInv, TypeOK, Request, StartDraft, Open
      <3>2. ASSUME NEW row \in StepTable, MayTake(p, t, row),
                   \/ transfer' = [transfer EXCEPT ![t].status = row.next]
                   \/ \E lines \in Lines : transfer' =
                          [transfer EXCEPT ![t].status = row.next, ![t].lines = lines]
            PROVE  transfer'[u].source # transfer'[u].destination
        <4>1. transfer[t] \in Transfer /\ Status(t) # "absent"
          BY <3>2, TakenIsOpen DEF IInv, Transfer, Status, Statuses
        <4>2. /\ transfer'[t].source = transfer[t].source
              /\ transfer'[t].destination = transfer[t].destination
          BY <3>2, <4>1 DEF IInv, TypeOK, Transfer
        <4> QED BY <2>3, <4>1, <4>2 DEF Apart
      <3> QED BY <2>1, <2>3, <3>1, <3>2 DEF Edit, Accept, Decline, Dispatch, Receive, Cancel
    <2> QED BY <2>2, <2>3
  <1> QED BY <1>1, <1>2

-----------------------------------------------------------------------------
(* A step on t changes no other transfer's whereabouts.                    *)
LEMMA OthersStay ==
    ASSUME NEW t \in Transfers, OnlyTouches(t)
    PROVE  Road' = [Road EXCEPT ![t] = Whereabouts(t)']
  BY DEF OnlyTouches, Road, Whereabouts, Status

(* A step that leaves the shelves and t's movements alone, of a transfer   *)
(* that has moved nothing and sends nothing, is no step of a parcel.       *)
LEMMA PaperIsStutter ==
    ASSUME NEW t \in Transfers, OnlyTouches(t), NothingMoved(t),
           Status(t) # "dispatched", Status(t)' # "dispatched",
           moved'[t] = moved[t], onHand' = onHand
    PROVE  UNCHANGED <<onHand, Road>>
  <1>1. Whereabouts(t) = [at |-> "waiting"] /\ Whereabouts(t)' = [at |-> "waiting"]
    BY DEF Whereabouts, NothingMoved
  <1> QED BY <1>1, OthersStay DEF Road

LEMMA DispatchLeaves ==
    ASSUME IInv, Apart, NEW t \in Transfers, NEW p \in Persons, Dispatch(p, t)
    PROVE  Promise!Leave(t, transfer[t].source, transfer[t].destination, transfer[t].lines)
  <1> DEFINE lines == transfer[t].lines
             from  == transfer[t].source
             to    == transfer[t].destination
  <1>1. PICK row \in StepTable :
           /\ row.action = "dispatch" /\ MayTake(p, t, row)
           /\ transfer' = [transfer EXCEPT ![t].status = row.next]
           /\ TakeFrom(transfer[t].source, lines)
           /\ moved' = [moved EXCEPT ![t].left = Add(@, lines)]
           /\ stamp' = [stamp EXCEPT ![t].dispatched = p]
    BY DEF Dispatch
  <1>2. /\ transfer[t] \in Transfer
        /\ row.status = "draft" /\ row.next = "dispatched"
    BY <1>1, TakenIsOpen, TableFacts DEF IInv
  <1>3. OnlyTouches(t)
    BY <1>1 DEF OnlyTouches, IInv, TypeOK
  <1>4. Whereabouts(t) = [at |-> "waiting"] /\ from # to
    BY <1>1, <1>2 DEF IInv, Phase, NothingMoved, Whereabouts, MayTake, Apart
  <1>5. Whereabouts(t)' = [at |-> "road", from |-> from, to |-> to, sent |-> lines]
    <2>1. /\ transfer'[t].status = "dispatched" /\ transfer'[t].lines = lines
          /\ transfer'[t].source = from /\ transfer'[t].destination = to
      BY <1>1, <1>2 DEF IInv, TypeOK, Transfer
    <2> HIDE DEF lines, from, to
    <2> QED BY <2>1 DEF Whereabouts, Status
  <1>6. onHand' = [onHand EXCEPT ![from] = [i \in Items |-> @[i] - lines[i]]]
    BY <1>1 DEF TakeFrom, Sub
  <1>7. Road[t] = Whereabouts(t)
    BY DEF Road
  <1> HIDE DEF lines, from, to
  <1>8. Promise!Leave(t, from, to, lines)
    BY <1>3, <1>4, <1>5, <1>6, <1>7, OthersStay
       DEF Promise!Leave, Promise!Waiting, Promise!OnRoad
  <1> QED BY <1>8 DEF lines, from, to

LEMMA ReceiveLands ==
    ASSUME IInv, NEW t \in Transfers, NEW p \in Persons,
           NEW typed \in [Items -> Typed], NEW noted \in [Items -> BOOLEAN],
           Receive(p, t, typed, noted)
    PROVE  Promise!Land(t)
  <1> DEFINE sent == transfer[t].lines
             from == transfer[t].source
             to   == transfer[t].destination
             got  == [i \in Items |-> Milli(typed[i])]
             gap  == [i \in Items |-> Difference(sent[i], typed[i])]
  <1>1. PICK row \in StepTable :
           /\ row.action = "receive" /\ MayTake(p, t, row)
           /\ \A i \in Items : LineAccepted(sent[i], typed[i], noted[i])
           /\ transfer' = [transfer EXCEPT ![t].status = row.next]
           /\ PutTo(transfer[t].destination, got)
           /\ moved' = [moved EXCEPT ![t].landed = Add(@, got), ![t].difference = gap]
           /\ stamp' = [stamp EXCEPT ![t].received = p]
    BY DEF Receive
  <1>2. /\ transfer[t] \in Transfer
        /\ row.status = "dispatched" /\ row.next = "received"
    BY <1>1, TakenIsOpen, TableFacts DEF IInv
  <1>3. OnlyTouches(t)
    <2> HIDE DEF sent, got, gap
    <2> QED BY <1>1 DEF OnlyTouches, IInv, TypeOK
  <1>4. Whereabouts(t) = [at |-> "road", from |-> from, to |-> to, sent |-> sent]
    BY <1>1, <1>2 DEF Whereabouts, MayTake
  <1>5. moved[t].left # NoLines
    <2>1. moved[t].left = sent /\ sent \in Lines
      BY <1>1, <1>2 DEF IInv, Phase, OnTheRoad, DispatchedByTheSource, MayTake, Transfer
    <2>2. \A q \in Lines : q # NoLines
      BY DEF Lines, NoLines
    <2> QED BY <2>1, <2>2
  <1>6. /\ transfer'[t].status = "received" /\ transfer'[t].destination = to
        /\ moved'[t].left = moved[t].left /\ moved'[t].difference = gap
    <2>1. transfer'[t].status = "received" /\ transfer'[t].destination = to
      BY <1>1, <1>2 DEF IInv, TypeOK, Transfer
    <2> HIDE DEF sent, got, gap, to
    <2> QED BY <1>1, <2>1 DEF IInv, TypeOK
  <1>7. Whereabouts(t)' = [at |-> "ended", place |-> to, difference |-> gap]
    <2> HIDE DEF sent, got, gap, to
    <2> QED BY <1>5, <1>6 DEF Whereabouts, Status
  <1>8. \A i \in Items : sent[i] \in Int /\ Milli(typed[i]) \in Int /\ Milli(typed[i]) >= 0
    <2> TAKE i \in Items
    <2>1. sent[i] \in Int
      BY <1>2, LinesType DEF Transfer
    <2>2. typed[i] \in Int
      BY TransferAssumption DEF Typed
    <2>3. Milli(typed[i]) >= 0
      BY <1>1 DEF LineAccepted
    <2> QED BY <2>1, <2>2, <2>3, MilliType
  <1>9. \A i \in Items : sent[i] + gap[i] = got[i] /\ got[i] >= 0
    BY <1>8 DEF Difference
  <1>10. onHand' = [onHand EXCEPT ![to] = [i \in Items |-> @[i] + sent[i] + gap[i]]]
    <2>1. onHand[to] \in [Items -> Int]
      BY <1>2 DEF IInv, TypeOK, Transfer
    <2>2. \A i \in Items : onHand[to][i] + sent[i] + gap[i] = onHand[to][i] + got[i]
      <3> TAKE i \in Items
      <3>1. onHand[to][i] \in Int /\ sent[i] \in Int /\ gap[i] \in Int
        BY <1>8, <2>1 DEF Difference
      <3>2. sent[i] + gap[i] = got[i]
        BY <1>9
      <3> HIDE DEF sent, got, gap, to
      <3> QED BY <3>1, <3>2
    <2>3. onHand' = [onHand EXCEPT ![to] = Add(onHand[to], got)]
      BY <1>1 DEF PutTo
    <2> HIDE DEF sent, got, gap, to
    <2> QED BY <2>2, <2>3 DEF Add
  <1>11. Road[t] = Whereabouts(t) /\ Road'[t] = Whereabouts(t)'
    BY DEF Road
  <1> HIDE DEF sent, from, to, got, gap
  <1> QED
    BY <1>3, <1>4, <1>7, <1>9, <1>10, <1>11, OthersStay DEF Promise!Land, Promise!Ended

(* A cancel in transit brings the parcel back; one before it is paper.     *)
LEMMA CancelReturns ==
    ASSUME IInv, NEW t \in Transfers, NEW p \in Persons, Cancel(p, t)
    PROVE  Promise!ComeBack(t) \/ UNCHANGED <<onHand, Road>>
  <1> DEFINE back == IF Status(t) = "dispatched" THEN transfer[t].lines ELSE NoLines
             from == transfer[t].source
             to   == transfer[t].destination
  <1>1. PICK row \in StepTable :
           /\ row.action = "cancel" /\ MayTake(p, t, row)
           /\ transfer' = [transfer EXCEPT ![t].status = row.next]
           /\ PutTo(transfer[t].source, back)
           /\ moved' = [moved EXCEPT ![t].back = Add(@, back)]
           /\ stamp' = [stamp EXCEPT ![t].cancelled = p]
    BY DEF Cancel
  <1>2. /\ transfer[t] \in Transfer
        /\ Status(t) \in {"requested", "draft", "dispatched"} /\ row.next = "cancelled"
    BY <1>1, TakenIsOpen, TableFacts DEF IInv, MayTake
  <1>3. OnlyTouches(t)
    <2> HIDE DEF back
    <2> QED BY <1>1 DEF OnlyTouches, IInv, TypeOK
  <1>4. /\ transfer'[t].status = "cancelled" /\ transfer'[t].source = from
        /\ moved'[t].left = moved[t].left /\ moved'[t].difference = moved[t].difference
    <2>1. transfer'[t].status = "cancelled" /\ transfer'[t].source = from
      BY <1>1, <1>2 DEF IInv, TypeOK, Transfer
    <2> HIDE DEF back, from
    <2> QED BY <1>1, <2>1 DEF IInv, TypeOK
  <1>5. onHand[from] \in [Items -> Int] /\ back \in [Items -> Int]
    BY <1>2, LinesType DEF IInv, TypeOK, Transfer
  <1>6. Road[t] = Whereabouts(t) /\ Road'[t] = Whereabouts(t)'
    BY DEF Road
  <1>7. CASE Status(t) = "dispatched"
    <2>1. Whereabouts(t) = [at |-> "road", from |-> from, to |-> to, sent |-> back]
      BY <1>7 DEF Whereabouts
    <2>2. moved[t].left # NoLines
      <3>1. moved[t].left = transfer[t].lines /\ transfer[t].lines \in Lines
        BY <1>2, <1>7 DEF IInv, Phase, OnTheRoad, DispatchedByTheSource, Transfer
      <3>2. \A q \in Lines : q # NoLines
        BY DEF Lines, NoLines
      <3> QED BY <3>1, <3>2
    <2>3. Whereabouts(t)' = [at |-> "ended", place |-> from, difference |-> NoLines]
      <3> HIDE DEF from
      <3> QED BY <1>4, <2>2 DEF Whereabouts, Status
    <2>4. onHand' = [onHand EXCEPT ![from] = [i \in Items |-> @[i] + back[i]]]
      BY <1>1 DEF PutTo, Add
    <2> HIDE DEF back, from, to
    <2>5. Promise!ComeBack(t)
      BY <1>3, <1>6, <2>1, <2>3, <2>4, OthersStay
         DEF Promise!ComeBack, Promise!Ended, Promise!None, NoLines
    <2> QED BY <2>5
  <1>8. CASE Status(t) # "dispatched"
    <2>1. NothingMoved(t)
      BY <1>2, <1>8 DEF IInv, Phase
    <2>2. onHand' = onHand
      <3>1. back = NoLines
        BY <1>8
      <3>2. Add(onHand[from], back) = onHand[from]
        BY <1>5, <3>1, LineSums, LinesType
      <3> HIDE DEF back
      <3> QED BY <1>1, <3>2 DEF PutTo, IInv, TypeOK
    <2>3. Status(t)' # "dispatched" /\ moved'[t].left = NoLines
      BY <1>4, <2>1 DEF Status, NothingMoved
    <2>4. Whereabouts(t) = [at |-> "waiting"] /\ Whereabouts(t)' = [at |-> "waiting"]
      BY <1>8, <2>1, <2>3 DEF Whereabouts, NothingMoved
    <2> QED BY <1>3, <2>2, <2>4, OthersStay DEF Road
  <1> QED BY <1>7, <1>8

(* The whole lifecycle keeps the promise made of parcels: initial states   *)
(* map to initial states, and every step to a step or a stutter.           *)
THEOREM Implements == Spec => ImplementsGoods
  <1>1. Init => Promise!GoodsInit
    BY DEF Init, Road, Whereabouts, Status, Absent, NoMoves,
           Promise!GoodsInit, Promise!Waiting
  <1>2. IInv /\ Apart /\ [Next]_vars => [Promise!GoodsNext]_(Promise!goodsVars)
    <2> SUFFICES ASSUME IInv, Apart, [Next]_vars
                 PROVE  Promise!GoodsNext \/ UNCHANGED <<onHand, Road>>
      BY DEF Promise!goodsVars
    <2>1. CASE UNCHANGED vars
      BY <2>1 DEF vars, Road, Whereabouts, Status
    <2>2. CASE Next
      <3>1. PICK p \in Persons, t \in Transfers :
               \/ \E s, d \in Locations, lines \in Lines :
                      Request(p, t, s, d, lines) \/ StartDraft(p, t, s, d, lines)
               \/ \E lines \in Lines : Edit(p, t, lines) \/ Accept(p, t, lines)
               \/ Decline(p, t)
               \/ Dispatch(p, t)
               \/ \E typed \in [Items -> Typed], noted \in [Items -> BOOLEAN] :
                      Receive(p, t, typed, noted)
               \/ Cancel(p, t)
        BY <2>2 DEF Next
      <3>2. CASE \E s, d \in Locations, lines \in Lines :
                     Request(p, t, s, d, lines) \/ StartDraft(p, t, s, d, lines)
        <4>1. OnlyTouches(t) /\ moved'[t] = moved[t] /\ onHand' = onHand
          BY <3>2 DEF Request, StartDraft, Open, OnlyTouches, IInv, TypeOK
        <4>2. Status(t) = "absent" /\ Status(t)' \in {"requested", "draft"}
          BY <3>2 DEF Request, StartDraft, Open, IInv, TypeOK, Status
        <4>3. NothingMoved(t)
          BY <4>2 DEF IInv, Phase
        <4> QED BY <4>1, <4>2, <4>3, PaperIsStutter
      <3>3. ASSUME NEW row \in StepTable, MayTake(p, t, row),
                   row.action \in {"edit", "accept", "decline"},
                   \/ transfer' = [transfer EXCEPT ![t].status = row.next]
                   \/ \E lines \in Lines : transfer' =
                          [transfer EXCEPT ![t].status = row.next, ![t].lines = lines],
                   moved' = moved, onHand' = onHand,
                   \A u \in Transfers \ {t} : stamp'[u] = stamp[u]
            PROVE  UNCHANGED <<onHand, Road>>
        <4>1. /\ transfer[t] \in Transfer
              /\ Status(t) \in {"requested", "draft"}
              /\ row.next \in {"requested", "draft", "cancelled"}
          BY <3>3, TakenIsOpen, TableFacts DEF IInv, MayTake
        <4>2. transfer'[t].status = row.next
          BY <3>3, <4>1 DEF IInv, TypeOK, Transfer
        <4>3. OnlyTouches(t)
          BY <3>3 DEF OnlyTouches, IInv, TypeOK
        <4>4. NothingMoved(t)
          BY <4>1 DEF IInv, Phase
        <4> QED BY <3>3, <4>1, <4>2, <4>3, <4>4, PaperIsStutter DEF Status
      <3>4. CASE (\E lines \in Lines : Edit(p, t, lines) \/ Accept(p, t, lines)) \/ Decline(p, t)
        <4>1. \A u \in Transfers \ {t} : stamp'[u] = stamp[u]
          BY <3>4 DEF Edit, Accept, Decline, IInv, TypeOK
        <4> QED BY <3>3, <3>4, <4>1 DEF Edit, Accept, Decline
      <3>5. CASE Dispatch(p, t)
        <4>1. /\ transfer[t].source \in Locations /\ transfer[t].destination \in Locations
              /\ transfer[t].lines \in Lines
          BY <3>5, TakenIsOpen DEF Dispatch, IInv, Transfer
        <4>2. Promise!Leave(t, transfer[t].source, transfer[t].destination, transfer[t].lines)
          BY <3>5, DispatchLeaves
        <4> QED BY <4>1, <4>2 DEF Promise!GoodsNext
      <3>6. CASE \E typed \in [Items -> Typed], noted \in [Items -> BOOLEAN] :
                     Receive(p, t, typed, noted)
        BY <3>6, ReceiveLands DEF Promise!GoodsNext
      <3>7. CASE Cancel(p, t)
        BY <3>7, CancelReturns DEF Promise!GoodsNext
      <3> QED BY <3>1, <3>2, <3>4, <3>5, <3>6, <3>7
    <2> QED BY <2>1, <2>2
  <1>3. Init => Apart
    BY DEF Init, Apart, Status, Absent
  <1>4. Spec => []Apart
    BY <1>3, Invariance, StepApart, PTL DEF Spec
  <1> QED BY <1>1, <1>2, <1>4, Invariance, PTL DEF Spec, ImplementsGoods, Promise!GoodsSpec

-----------------------------------------------------------------------------
(* Replenishment. Its steps are transfer steps and sales, so what holds of *)
(* transfers holds of it; its own invariant adds that transfers go from    *)
(* warehouses to branches, and that no branch is filled past its level.    *)
(* What is coming is a sum over the open transfers, and a step moves one.  *)

(* A quantity that is whole thousandths is read as it was typed.           *)
LEMMA MilliExact ==
    ASSUME NEW n \in Nat
    PROVE  Milli(Grain * n) = n
  <1>1. Grain \in Nat \ {0}
    BY TransferAssumption
  <1>2. Grain * n \in Nat
    BY <1>1
  <1>3. 2 * (Grain * n) + Grain = (2 * Grain) * n + Grain
    BY <1>1
  <1>4. \A d \in Nat \ {0}, r \in Nat : r < d => (d * n + r) \div d = n
    OBVIOUS
  <1>5. ((2 * Grain) * n + Grain) \div (2 * Grain) = n
    BY <1>1, <1>4
  <1> QED BY <1>2, <1>3, <1>5 DEF Milli

(* What one transfer still brings a location, and what all of them do.     *)
Brings(t, l, i) ==
    IF t \in Due("destination", l, {"requested", "draft", "dispatched"})
    THEN transfer[t].lines[i] ELSE 0

Coming(l, i) == InTransitTo(l, i) + OpenInbound(l, i)

Alone(t) == \A u \in Transfers \ {t} : transfer'[u] = transfer[u]

(* A sum over open transfers is an integer, and changes by what t's part   *)
(* in it does.                                                             *)
LEMMA DueChange ==
    ASSUME TypeOK, TypeOK', NEW i \in Items, NEW t \in Transfers, Alone(t),
           NEW side, NEW l, NEW statuses \in SUBSET Statuses
    PROVE  LET S == Due(side, l, statuses)
           IN  /\ Total(i, S) \in Int
               /\ Total(i, S)' = Total(i, S)
                      - (IF t \in S THEN transfer[t].lines[i] ELSE 0)
                      + (IF t \in S' THEN transfer'[t].lines[i] ELSE 0)
  <1> DEFINE S == Due(side, l, statuses)
             R == Due(side, l, statuses)'
             f == [u \in S |-> transfer[u].lines[i]]
             g == [u \in R |-> transfer'[u].lines[i]]
  <1>1. IsFiniteSet(S) /\ IsFiniteSet(R)
    <2>1. S \subseteq Transfers /\ R \subseteq Transfers
      BY DEF Due
    <2> QED BY <2>1, ReplenishmentAssumption, FS_Subset
  <1>2. \A u \in S : u \in Transfers /\ transfer[u].status # "absent"
    BY DEF Due, Status, Statuses
  <1>3. \A u \in R : u \in Transfers /\ transfer'[u].status # "absent"
    BY DEF Due, Status, Statuses
  <1>4. \A u \in S : f[u] \in Int
    <2>1. \A u \in S : transfer[u] \in Transfer
      BY <1>2 DEF TypeOK, Absent
    <2> QED BY <2>1, LinesType DEF Transfer
  <1>5. \A u \in R : g[u] \in Int
    <2>1. \A u \in R : transfer'[u] \in Transfer
      BY <1>3 DEF TypeOK, Absent
    <2> QED BY <2>1, LinesType DEF Transfer
  <1>6. S \ {t} = R \ {t}
    BY DEF Due, Alone, Status, SideOf
  <1>7. \A u \in S \ {t} : f[u] = g[u]
    BY <1>2, <1>6 DEF Alone
  <1>8. Total(i, S) = SumFunctionOnSet(f, S) /\ Total(i, S)' = SumFunctionOnSet(g, R)
    BY DEF Total, SumFunction
  <1>9. /\ t \in S => f[t] = transfer[t].lines[i]
        /\ t \in R => g[t] = transfer'[t].lines[i]
    OBVIOUS
  <1>10. SumFunctionOnSet(f, S) \in Int
    <2> HIDE DEF f, S
    <2> QED BY <1>1, <1>4, SumType
  <1>11. SumFunctionOnSet(g, R) =
            SumFunctionOnSet(f, S) - (IF t \in S THEN f[t] ELSE 0)
                                   + (IF t \in R THEN g[t] ELSE 0)
    <2> HIDE DEF f, g, S, R
    <2>1. DifferAt(f, g, S, R, t)
      BY <1>1, <1>4, <1>5, <1>6, <1>7 DEF DifferAt
    <2> QED BY <2>1, SumChange
  <1> HIDE DEF f, g
  <1> QED BY <1>8, <1>9, <1>10, <1>11

(* What is coming changes by what t brings.                                *)
LEMMA ComingChange ==
    ASSUME TypeOK, TypeOK', NEW i \in Items, NEW t \in Transfers, Alone(t), NEW l
    PROVE  /\ InTransitTo(l, i) \in Int /\ OpenInbound(l, i) \in Int
           /\ InTransitTo(l, i)' \in Int /\ OpenInbound(l, i)' \in Int
           /\ Brings(t, l, i) \in Int /\ Brings(t, l, i)' \in Int
           /\ Coming(l, i)' = Coming(l, i) - Brings(t, l, i) + Brings(t, l, i)'
  <1> DEFINE A == Due("destination", l, {"dispatched"})
             B == Due("destination", l, {"requested", "draft"})
             n == transfer[t].lines[i]
             m == transfer'[t].lines[i]
  <1>1. {"dispatched"} \in SUBSET Statuses /\ {"requested", "draft"} \in SUBSET Statuses
    BY DEF Statuses
  <1>2. /\ Total(i, A) \in Int
        /\ Total(i, A)' = Total(i, A) - (IF t \in A THEN n ELSE 0) + (IF t \in A' THEN m ELSE 0)
    BY <1>1, DueChange
  <1>3. /\ Total(i, B) \in Int
        /\ Total(i, B)' = Total(i, B) - (IF t \in B THEN n ELSE 0) + (IF t \in B' THEN m ELSE 0)
    BY <1>1, DueChange
  <1>4. t \in A => t \notin B
    BY DEF Due
  <1>5. t \in A' => t \notin B'
    BY DEF Due
  <1>6. Brings(t, l, i) = IF t \in A \/ t \in B THEN n ELSE 0
    BY DEF Brings, Due
  <1>7. Brings(t, l, i)' = IF t \in A' \/ t \in B' THEN m ELSE 0
    BY DEF Brings, Due
  <1>8. t \in A \/ t \in B => n \in Int
    <2>1. t \in A \/ t \in B => transfer[t].status # "absent"
      BY DEF Due, Status
    <2>2. transfer[t].status # "absent" => transfer[t] \in Transfer
      BY DEF TypeOK, Absent
    <2>3. transfer[t] \in Transfer => n \in Int
      BY LinesType DEF Transfer
    <2> QED BY <2>1, <2>2, <2>3
  <1>9. t \in A' \/ t \in B' => m \in Int
    <2>1. t \in A' \/ t \in B' => transfer'[t].status # "absent"
      BY DEF Due, Status
    <2>2. transfer'[t].status # "absent" => transfer'[t] \in Transfer
      BY DEF TypeOK, Absent
    <2>3. transfer'[t] \in Transfer => m \in Int
      BY LinesType DEF Transfer
    <2> QED BY <2>1, <2>2, <2>3
  <1>10. /\ InTransitTo(l, i) = Total(i, A) /\ OpenInbound(l, i) = Total(i, B)
         /\ InTransitTo(l, i)' = Total(i, A)' /\ OpenInbound(l, i)' = Total(i, B)'
    BY DEF InTransitTo, OpenInbound
  <1> HIDE DEF A, B, n, m
  <1> QED BY <1>2, <1>3, <1>4, <1>5, <1>6, <1>7, <1>8, <1>9, <1>10 DEF Coming

(* The sums of a state are integers.                                       *)
LEMMA DueTypes ==
    ASSUME TypeOK, NEW i \in Items, NEW side, NEW l, NEW statuses \in SUBSET Statuses
    PROVE  Total(i, Due(side, l, statuses)) \in Int
  <1> DEFINE S == Due(side, l, statuses)
             f == [u \in S |-> transfer[u].lines[i]]
  <1>1. S \subseteq Transfers /\ IsFiniteSet(S)
    <2>1. S \subseteq Transfers
      BY DEF Due
    <2> QED BY <2>1, ReplenishmentAssumption, FS_Subset
  <1>2. \A u \in S : transfer[u] \in Transfer
    <2>1. \A u \in S : u \in Transfers /\ transfer[u].status # "absent"
      BY DEF Due, Status, Statuses
    <2> QED BY <2>1 DEF TypeOK, Absent
  <1>3. \A u \in S : f[u] \in Int
    BY <1>2, LinesType DEF Transfer
  <1>4. SumFunctionOnSet(f, S) \in Int
    <2> HIDE DEF f, S
    <2> QED BY <1>1, <1>3, SumType
  <1> HIDE DEF S
  <1> QED BY <1>4 DEF Total, SumFunction, S

(* What a suggestion reads is integers.                                    *)
LEMMA FiguresType ==
    ASSUME TypeOK, NEW l, NEW i \in Items
    PROVE  /\ InTransitTo(l, i) \in Int /\ OpenInbound(l, i) \in Int
           /\ DraftedOut(l, i) \in Int
  <1>1. /\ {"dispatched"} \in SUBSET Statuses /\ {"draft"} \in SUBSET Statuses
        /\ {"requested", "draft"} \in SUBSET Statuses
    BY DEF Statuses
  <1> QED BY <1>1, DueTypes DEF InTransitTo, OpenInbound, DraftedOut

(* Every transfer goes from a warehouse to a branch.                       *)
Routes ==
    \A t \in Transfers :
        Status(t) # "absent" =>
            transfer[t].source \in Warehouses /\ transfer[t].destination \in Branches

(* The level NeverOverfilled holds a branch to.                            *)
Filled(l, i) == Max({Target(ParMin[l][i], ParMax[l][i]), Opening[l][i]})

(* The inductive invariant of a replenishment.                             *)
RInv == IInv /\ Routes /\ NeverOverfilled

(* The level a branch fills to is an integer, no lower than its target and *)
(* its opening stock.                                                      *)
LEMMA LevelTypes ==
    ASSUME NEW l \in Locations, NEW i \in Items
    PROVE  /\ Target(ParMin[l][i], ParMax[l][i]) \in Int
           /\ Filled(l, i) \in Int
           /\ Target(ParMin[l][i], ParMax[l][i]) <= Filled(l, i)
           /\ Opening[l][i] <= Filled(l, i)
  <1>1. ParMin[l][i] \in Int /\ Opening[l][i] \in Int
    BY ReplenishmentAssumption, TransferAssumption
  <1>2. (IF ParMax[l][i] = NoMax THEN ParMin[l][i] ELSE ParMax[l][i]) \in Int
    BY ReplenishmentAssumption
  <1>3. Target(ParMin[l][i], ParMax[l][i]) \in Int
    BY <1>1, <1>2, MaxOfTwo DEF Target
  <1> QED BY <1>1, <1>3, MaxOfTwo DEF Filled

(* Each step of a replenishment that is not a sale is a transfer step.     *)
LEMMA StepsAreTransferSteps ==
    ASSUME IInv, NEW p \in Persons, NEW t \in Transfers
    PROVE  /\ \A w \in Warehouses, l \in Branches :
                  DraftSuggestion(p, t, w, l) \/ RequestNeed(p, t, w, l) => Next
           /\ AcceptAsAsked(p, t) => Next
           /\ ReceiveExact(p, t) => Next
           /\ Decline(p, t) \/ Dispatch(p, t) \/ Cancel(p, t) => Next
  <1>1. Warehouses \subseteq Locations /\ Branches \subseteq Locations
    BY ReplenishmentAssumption DEF Branches
  <1>2. ASSUME NEW w \in Warehouses, NEW l \in Branches,
               DraftSuggestion(p, t, w, l) \/ RequestNeed(p, t, w, l)
        PROVE  Next
    <2>1. \E lines \in Lines : Request(p, t, w, l, lines) \/ StartDraft(p, t, w, l, lines)
      BY <1>2 DEF DraftSuggestion, RequestNeed
    <2> QED BY <1>1, <2>1 DEF Next
  <1>3. ASSUME AcceptAsAsked(p, t) PROVE Next
    <2>1. transfer[t] \in Transfer
      BY <1>3 DEF AcceptAsAsked, IInv, TypeOK, Status, Absent
    <2>2. transfer[t].lines \in Lines
      BY <2>1 DEF Transfer
    <2> QED BY <1>3, <2>2 DEF AcceptAsAsked, Next
  <1>4. ASSUME ReceiveExact(p, t) PROVE Next
    <2> DEFINE typed == [i \in Items |-> Grain * transfer[t].lines[i]]
               noted == [i \in Items |-> FALSE]
    <2>1. transfer[t] \in Transfer
      BY <1>4 DEF ReceiveExact, IInv, TypeOK, Status, Absent
    <2>2. \A i \in Items : transfer[t].lines[i] \in 0..MaxQty
      BY <2>1 DEF Transfer, Lines
    <2>3. \A n \in 0..MaxQty : Grain * n \in Typed
      <3>1. Grain \in Nat \ {0} /\ MaxQty \in Nat \ {0}
        BY TransferAssumption
      <3>2. \A n \in 0..MaxQty : Grain * n \in Nat /\ Grain * n <= Grain * (MaxQty + 1)
        <4> TAKE n \in 0..MaxQty
        <4>1. Grain * (MaxQty + 1) = Grain * n + Grain * (MaxQty + 1 - n)
          BY <3>1
        <4>2. Grain * n \in Nat /\ Grain * (MaxQty + 1 - n) \in Nat
          BY <3>1
        <4> QED BY <4>1, <4>2
      <3> QED BY <3>1, <3>2 DEF Typed
    <2>4. typed \in [Items -> Typed] /\ noted \in [Items -> BOOLEAN]
      BY <2>2, <2>3
    <2>5. Receive(p, t, typed, noted)
      BY <1>4 DEF ReceiveExact
    <2> HIDE DEF typed, noted
    <2> QED BY <2>4, <2>5 DEF Next
  <1>5. Decline(p, t) \/ Dispatch(p, t) \/ Cancel(p, t) => Next
    BY DEF Next
  <1> QED BY <1>2, <1>3, <1>4, <1>5

(* Selling moves no transfer.                                              *)
LEMMA SellKeeps ==
    ASSUME IInv, NEW l \in Branches, NEW i \in Items, Sell(l, i)
    PROVE  IInv'
  <1>1. l \in Locations /\ onHand \in [Locations -> [Items -> Int]]
    BY DEF Branches, IInv, TypeOK
  <1>2. onHand' \in [Locations -> [Items -> Int]]
    <2>1. [onHand[l] EXCEPT ![i] = @ - 1] \in [Items -> Int]
      BY <1>1
    <2>2. onHand' = [onHand EXCEPT ![l] = [onHand[l] EXCEPT ![i] = @ - 1]]
      BY DEF Sell
    <2> QED BY <1>1, <2>1, <2>2
  <1>3. TypeOK'
    BY <1>2 DEF IInv, TypeOK, Sell
  <1>4. \A t \in Transfers : Phase(t)'
    BY DEF IInv, Sell, Phase, NothingMoved, OnTheRoad, Landed, Returned,
           DispatchedByTheSource, Status
  <1> QED BY <1>3, <1>4 DEF IInv

(* What a transfer has moved stays right while branches are replenished    *)
(* and sell.                                                               *)
LEMMA ReplenishKeepsIInv ==
    IInv /\ [Replenish]_vars => IInv'
  <1> SUFFICES ASSUME IInv, [Replenish]_vars PROVE IInv'
    OBVIOUS
  <1>1. CASE UNCHANGED vars
    BY <1>1, StepIInv
  <1>2. CASE Replenish
    <2>1. CASE \E l \in Branches, i \in Items : Sell(l, i)
      BY <2>1, SellKeeps
    <2>2. CASE ~ \E l \in Branches, i \in Items : Sell(l, i)
      <3>1. Next
        BY <1>2, <2>2, StepsAreTransferSteps DEF Replenish
      <3> QED BY <3>1, StepIInv
    <2> QED BY <2>1, <2>2
  <1> QED BY <1>1, <1>2

(* A step of one transfer that brings a branch no more than it gives up    *)
(* leaves the branch within its level.                                     *)
LEMMA StaysFilled ==
    ASSUME RInv, TypeOK', NEW t \in Transfers, Alone(t),
           NEW l \in Branches, NEW i \in Items,
           onHand'[l][i] + Brings(t, l, i)' <= onHand[l][i] + Brings(t, l, i)
    PROVE  onHand'[l][i] + InTransitTo(l, i)' + OpenInbound(l, i)' <= Filled(l, i)
  <1>1. l \in Locations
    BY DEF Branches
  <1>2. TypeOK /\ onHand[l][i] + InTransitTo(l, i) + OpenInbound(l, i) <= Filled(l, i)
    BY DEF RInv, IInv, NeverOverfilled, Filled
  <1>3. /\ InTransitTo(l, i) \in Int /\ OpenInbound(l, i) \in Int
        /\ InTransitTo(l, i)' \in Int /\ OpenInbound(l, i)' \in Int
        /\ Brings(t, l, i) \in Int /\ Brings(t, l, i)' \in Int
        /\ Coming(l, i)' = Coming(l, i) - Brings(t, l, i) + Brings(t, l, i)'
    BY <1>2, ComingChange
  <1>4. /\ onHand[l][i] \in Int /\ onHand'[l][i] \in Int /\ Filled(l, i) \in Int
    BY <1>1, <1>2, LevelTypes DEF TypeOK
  <1> QED BY <1>2, <1>3, <1>4 DEF Coming

(* What is drafted or asked for is at most the need, and the need tops the *)
(* branch up to its target at most.                                        *)
LEMMA NeedFits ==
    ASSUME NEW l \in Locations, NEW i \in Items, NEW n \in Int,
           onHand[l][i] \in Int, InTransitTo(l, i) \in Int, OpenInbound(l, i) \in Int,
           n <= BranchNeed(l, i),
           onHand[l][i] + InTransitTo(l, i) + OpenInbound(l, i) <= Filled(l, i)
    PROVE  onHand[l][i] + InTransitTo(l, i) + OpenInbound(l, i) + n <= Filled(l, i)
  <1> DEFINE target == Target(ParMin[l][i], ParMax[l][i])
             short  == target - onHand[l][i] - InTransitTo(l, i) - OpenInbound(l, i)
  <1>1. target \in Int /\ target <= Filled(l, i) /\ Filled(l, i) \in Int
    BY LevelTypes
  <1>2. short \in Int
    BY <1>1
  <1>3. AtLeast0(short) = IF short >= 0 THEN short ELSE 0
    <2> HIDE DEF short
    <2> QED BY <1>2, MaxOfTwo DEF AtLeast0
  <1>4. BranchNeed(l, i) \in {0, AtLeast0(short)}
    BY DEF BranchNeed, Need
  <1> HIDE DEF target
  <1> QED BY <1>1, <1>2, <1>3, <1>4

(* What is suggested is at most the need, and leaves the warehouse with    *)
(* what it has promised.                                                   *)
LEMMA AvailableFits ==
    ASSUME NEW held \in Int, NEW drafted \in Int, NEW need \in Int
    PROVE  /\ Suggested(need, Available(held, drafted)) \in Int
           /\ Suggested(need, Available(held, drafted)) <= need
           /\ Suggested(need, Available(held, drafted)) > 0 =>
                  drafted + Suggested(need, Available(held, drafted)) <= held
  <1>1. Available(held, drafted) = IF held - drafted >= 0 THEN held - drafted ELSE 0
    BY MaxOfTwo DEF Available, AtLeast0
  <1>2. Suggested(need, Available(held, drafted)) =
            IF need <= Available(held, drafted) THEN need ELSE Available(held, drafted)
    BY <1>1, MinOfTwo DEF Suggested
  <1> QED BY <1>1, <1>2

(* A newly opened transfer brings its destination its lines.               *)
LEMMA OpenFits ==
    ASSUME RInv, IInv', NEW t \in Transfers, NEW st \in {"requested", "draft"},
           NEW w \in Warehouses, NEW b \in Branches, NEW lines \in Lines,
           Open(t, st, w, b, lines),
           \A i \in Items : lines[i] <= BranchNeed(b, i)
    PROVE  RInv'
  <1> USE DEF IInv
  <1>1. /\ transfer'[t] = [status |-> st, source |-> w, destination |-> b, lines |-> lines]
        /\ Alone(t) /\ onHand' = onHand /\ transfer[t].status = "absent"
    BY DEF Open, RInv, IInv, TypeOK, Alone, Status
  <1>2. Routes'
    BY <1>1 DEF RInv, Routes, Alone, Status
  <1>3. ASSUME NEW l \in Branches, NEW i \in Items
        PROVE  onHand'[l][i] + InTransitTo(l, i)' + OpenInbound(l, i)' <= Filled(l, i)
    <2>1. Brings(t, l, i) = 0
      BY <1>1 DEF Brings, Due, Status
    <2>2. Brings(t, l, i)' = IF l = b THEN lines[i] ELSE 0
      BY <1>1 DEF Brings, Due, Status, SideOf
    <2>3. l \in Locations /\ onHand[l][i] \in Int
      BY DEF Branches, RInv, IInv, TypeOK
    <2>4. CASE l # b
      BY <1>1, <2>1, <2>2, <2>3, <2>4, StaysFilled
    <2>5. CASE l = b
      <3>1. /\ InTransitTo(l, i) \in Int /\ OpenInbound(l, i) \in Int
            /\ InTransitTo(l, i)' \in Int /\ OpenInbound(l, i)' \in Int
            /\ Coming(l, i)' = Coming(l, i) + lines[i]
            /\ lines[i] \in Int
        BY <1>1, <2>1, <2>2, <2>5, ComingChange, LinesType DEF RInv, IInv, Coming
      <3>2. onHand[l][i] + InTransitTo(l, i) + OpenInbound(l, i) + lines[i] <= Filled(l, i)
        BY <2>3, <2>5, <3>1, NeedFits DEF RInv, NeverOverfilled, Filled
      <3> QED BY <1>1, <2>3, <3>1, <3>2 DEF Coming
    <2> QED BY <2>4, <2>5
  <1> QED BY <1>2, <1>3 DEF RInv, NeverOverfilled, Filled

(* What one transfer's step must not do, for a branch to stay within its   *)
(* level: bring more than it gives up.                                     *)
LEMMA MoveFits ==
    ASSUME RInv, IInv', NEW t \in Transfers, Alone(t),
           transfer[t].status # "absent",
           transfer'[t].source = transfer[t].source,
           transfer'[t].destination = transfer[t].destination,
           \A l \in Branches, i \in Items :
               onHand'[l][i] + Brings(t, l, i)' <= onHand[l][i] + Brings(t, l, i)
    PROVE  RInv'
  <1>1. Routes'
    BY DEF RInv, Routes, Alone, Status
  <1>2. TypeOK'
    BY DEF IInv
  <1>3. \A l \in Branches, i \in Items :
            onHand'[l][i] + InTransitTo(l, i)' + OpenInbound(l, i)' <= Filled(l, i)
    BY <1>2, StaysFilled
  <1> QED BY <1>1, <1>3 DEF RInv, NeverOverfilled, Filled

(* A row's step on t that keeps its two places and its lines.              *)
Moves(t, row) ==
    /\ transfer[t] \in Transfer /\ Alone(t)
    /\ transfer[t].status = row.status /\ transfer'[t].status = row.next
    /\ transfer'[t].source = transfer[t].source
    /\ transfer'[t].destination = transfer[t].destination
    /\ transfer'[t].lines = transfer[t].lines
    /\ \A i \in Items : transfer[t].lines[i] \in Nat

(* A step by a row that writes a status, or the lines as they were, is     *)
(* such a step.                                                            *)
LEMMA KeptTransfer ==
    ASSUME TypeOK, NEW t \in Transfers, NEW p \in Persons, NEW row \in StepTable,
           MayTake(p, t, row),
           \/ transfer' = [transfer EXCEPT ![t].status = row.next]
           \/ transfer' = [transfer EXCEPT ![t].status = row.next, ![t].lines = transfer[t].lines]
    PROVE  Moves(t, row)
  <1>1. transfer[t] \in Transfer
    BY TakenIsOpen
  <1>2. transfer[t].lines \in [Items -> 0..MaxQty]
    BY <1>1 DEF Transfer, Lines
  <1> QED BY <1>1, <1>2, TransferAssumption DEF Moves, Transfer, TypeOK, Alone, MayTake, Status

(* What t brings a branch, by its status.                                  *)
LEMMA BringsBy ==
    ASSUME NEW t \in Transfers, NEW l, NEW i
    PROVE  Brings(t, l, i) =
             IF /\ transfer[t].status \in {"requested", "draft", "dispatched"}
                /\ transfer[t].destination = l
             THEN transfer[t].lines[i] ELSE 0
  BY DEF Brings, Due, Status, SideOf

(* The same after a step.                                                  *)
LEMMA BringsByNext ==
    ASSUME NEW t \in Transfers, NEW l, NEW i
    PROVE  Brings(t, l, i)' =
             IF /\ transfer'[t].status \in {"requested", "draft", "dispatched"}
                /\ transfer'[t].destination = l
             THEN transfer'[t].lines[i] ELSE 0
  BY DEF Brings, Due, Status, SideOf

(* Taking stock from a warehouse, or putting it there, touches no branch.  *)
LEMMA AtAWarehouse ==
    ASSUME TypeOK, NEW w \in Warehouses, NEW q,
           onHand' = [onHand EXCEPT ![w] = q], NEW l \in Branches
    PROVE  onHand'[l] = onHand[l]
  BY ReplenishmentAssumption DEF Branches, TypeOK

(* A need is an integer.                                                   *)
LEMMA NeedType ==
    ASSUME TypeOK, NEW l \in Locations, NEW i \in Items
    PROVE  BranchNeed(l, i) \in Int
  <1>1. /\ onHand[l][i] \in Int /\ InTransitTo(l, i) \in Int /\ OpenInbound(l, i) \in Int
        /\ Target(ParMin[l][i], ParMax[l][i]) \in Int
    BY FiguresType, LevelTypes DEF TypeOK
  <1> QED BY <1>1, MaxOfTwo DEF BranchNeed, Need, AtLeast0

(* What is suggested is at most the need, and within what the warehouse    *)
(* has left.                                                               *)
LEMMA SuggestionFits ==
    ASSUME TypeOK, NEW w \in Warehouses, NEW b \in Branches, NEW i \in Items
    PROVE  LET n == Suggestion(w, b)[i]
           IN  /\ n \in Int /\ n <= BranchNeed(b, i)
               /\ n > 0 => DraftedOut(w, i) + n <= onHand[w][i]
  <1>1. w \in Locations /\ b \in Locations
    BY ReplenishmentAssumption DEF Branches
  <1>2. onHand[w][i] \in Int /\ DraftedOut(w, i) \in Int
    BY <1>1, FiguresType DEF TypeOK
  <1>3. BranchNeed(b, i) \in Int
    BY <1>1, NeedType
  <1>4. Suggestion(w, b)[i]
          = Suggested(BranchNeed(b, i), Available(onHand[w][i], DraftedOut(w, i)))
    BY DEF Suggestion
  <1> QED BY <1>2, <1>3, <1>4, AvailableFits

(* Every step of a replenishment keeps the routes and the level: opening a *)
(* transfer adds at most the need, a transfer that lands moves what was    *)
(* coming onto the shelf, and the others take away.                        *)
LEMMA StepRInv == RInv /\ [Replenish]_vars => RInv'
  <1> SUFFICES ASSUME RInv, [Replenish]_vars PROVE RInv'
    OBVIOUS
  <1> USE DEF RInv
  <1>0. IInv'
    BY ReplenishKeepsIInv
  <1>t. TypeOK /\ TypeOK'
    BY <1>0 DEF IInv
  <1>h. \A l \in Branches, i \in Items : l \in Locations /\ onHand[l][i] \in Int
    BY <1>t DEF TypeOK, Branches
  <1>r. ASSUME NEW t \in Transfers, transfer[t] \in Transfer
        PROVE  transfer[t].status # "absent" /\ transfer[t].source \in Warehouses
    BY <1>r DEF Transfer, Statuses, Routes, Status
  <1>1. CASE UNCHANGED vars
    BY <1>0, <1>1 DEF vars, Routes, Status, NeverOverfilled, InTransitTo, OpenInbound,
                      Total, Due, SideOf
  <1>2. ASSUME NEW p \in Persons, NEW t \in Transfers, NEW w \in Warehouses, NEW b \in Branches,
               DraftSuggestion(p, t, w, b) \/ RequestNeed(p, t, w, b)
        PROVE  RInv'
    <2> DEFINE asked == [i \in Items |-> BranchNeed(b, i)]
    <2>1. ASSUME DraftSuggestion(p, t, w, b) PROVE RInv'
      <3> DEFINE lines == Suggestion(w, b)
      <3>1. lines \in Lines /\ Open(t, "draft", w, b, lines)
        BY <2>1 DEF DraftSuggestion, StartDraft
      <3>2. \A i \in Items : lines[i] <= BranchNeed(b, i)
        BY <1>t, SuggestionFits DEF Suggestion
      <3> HIDE DEF lines
      <3> QED BY <1>0, <3>1, <3>2, OpenFits
    <2>2. ASSUME RequestNeed(p, t, w, b) PROVE RInv'
      <3>1. asked \in Lines /\ Open(t, "requested", w, b, asked)
        BY <2>2 DEF RequestNeed, Request
      <3>2. \A i \in Items : asked[i] \in Int /\ asked[i] <= BranchNeed(b, i)
        BY <3>1, LinesType
      <3> HIDE DEF asked
      <3> QED BY <1>0, <3>1, <3>2, OpenFits
    <2> QED BY <1>2, <2>1, <2>2
  <1>3. ASSUME NEW p \in Persons, NEW t \in Transfers, AcceptAsAsked(p, t) PROVE RInv'
    <2>1. PICK row \in StepTable :
             /\ row.action = "accept" /\ MayTake(p, t, row)
             /\ transfer' = [transfer EXCEPT ![t].status = row.next, ![t].lines = transfer[t].lines]
             /\ onHand' = onHand
      BY <1>3 DEF AcceptAsAsked, Accept
    <2>k. Moves(t, row)
      BY <1>t, <2>1, KeptTransfer
    <2>2. row.status = "requested" /\ row.next = "draft"
      BY <2>1 DEF StepTable, RequestRows, DraftRows, TransitRows, Row
    <2>3. \A l \in Branches, i \in Items :
              Brings(t, l, i)' = Brings(t, l, i) /\ Brings(t, l, i) \in Nat
      BY <2>2, <2>k, BringsBy, BringsByNext DEF Moves
    <2>4. \A l \in Branches, i \in Items :
              onHand'[l][i] + Brings(t, l, i)' <= onHand[l][i] + Brings(t, l, i)
      BY <1>h, <2>1, <2>3
    <2> QED BY <1>0, <1>r, <2>4, <2>k, MoveFits DEF Moves
  <1>4. ASSUME NEW p \in Persons, NEW t \in Transfers, Decline(p, t) PROVE RInv'
    <2>1. PICK row \in StepTable :
             /\ row.action = "decline" /\ MayTake(p, t, row)
             /\ transfer' = [transfer EXCEPT ![t].status = row.next]
             /\ onHand' = onHand
      BY <1>4 DEF Decline
    <2>k. Moves(t, row)
      BY <1>t, <2>1, KeptTransfer
    <2>3. row.next \in {"cancelled"} /\ row.status \in {"requested"}
      BY <2>1 DEF StepTable, RequestRows, DraftRows, TransitRows, Row
    <2>4. \A l \in Branches, i \in Items : Brings(t, l, i)' = 0 /\ Brings(t, l, i) \in Nat
      BY <2>3, <2>k, BringsBy, BringsByNext DEF Moves
    <2> QED BY <1>0, <1>t, <1>h, <1>r, <2>1, <2>4, <2>k, MoveFits DEF Moves
  <1>5. ASSUME NEW p \in Persons, NEW t \in Transfers, Dispatch(p, t) PROVE RInv'
    <2>1. PICK row \in StepTable :
             /\ row.action = "dispatch" /\ MayTake(p, t, row)
             /\ transfer' = [transfer EXCEPT ![t].status = row.next]
             /\ onHand' = [onHand EXCEPT ![transfer[t].source] = Sub(@, transfer[t].lines)]
      BY <1>5 DEF Dispatch, TakeFrom
    <2>k. Moves(t, row)
      BY <1>t, <2>1, KeptTransfer
    <2>2. row.status = "draft" /\ row.next = "dispatched"
      BY <2>1, TableFacts
    <2>3. \A l \in Branches, i \in Items : Brings(t, l, i)' = Brings(t, l, i) /\ Brings(t, l, i) \in Nat
      BY <2>2, <2>k, BringsBy, BringsByNext DEF Moves
    <2>4. \A l \in Branches : onHand'[l] = onHand[l]
      BY <1>t, <1>r, <2>1, <2>k, AtAWarehouse DEF Moves
    <2> QED BY <1>0, <1>t, <1>h, <1>r, <2>1, <2>3, <2>4, <2>k, MoveFits DEF Moves
  <1>6. ASSUME NEW p \in Persons, NEW t \in Transfers, ReceiveExact(p, t) PROVE RInv'
    <2> DEFINE sent == transfer[t].lines
               to   == transfer[t].destination
    <2>1. PICK row \in StepTable :
             /\ row.action = "receive" /\ MayTake(p, t, row)
             /\ transfer' = [transfer EXCEPT ![t].status = row.next]
             /\ onHand' = [onHand EXCEPT ![to] =
                    Add(@, [i \in Items |-> Milli([k \in Items |-> Grain * sent[k]][i])])]
      BY <1>6 DEF ReceiveExact, Receive, PutTo
    <2>k. Moves(t, row)
      BY <1>t, <2>1, KeptTransfer
    <2>2. row.status = "dispatched" /\ row.next = "received"
      BY <2>1, TableFacts
    <2>3. \A i \in Items : Milli([k \in Items |-> Grain * sent[k]][i]) = sent[i] /\ sent[i] \in Nat
      BY <1>t, <2>k, MilliExact DEF Moves
    <2>4. \A l \in Branches, i \in Items :
              onHand'[l][i] = IF l = to THEN onHand[l][i] + sent[i] ELSE onHand[l][i]
      BY <1>t, <2>1, <2>3 DEF Add, Branches, TypeOK
    <2>5. \A l \in Branches, i \in Items :
              Brings(t, l, i)' = 0 /\ Brings(t, l, i) = IF l = to THEN sent[i] ELSE 0
      BY <2>2, <2>k, BringsBy, BringsByNext DEF Moves
    <2>6. \A l \in Branches, i \in Items :
              onHand'[l][i] + Brings(t, l, i)' <= onHand[l][i] + Brings(t, l, i)
      BY <1>h, <2>3, <2>4, <2>5
    <2> HIDE DEF sent, to
    <2> QED BY <1>0, <1>t, <1>r, <2>1, <2>6, <2>k, MoveFits DEF Moves
  <1>7. ASSUME NEW p \in Persons, NEW t \in Transfers, Cancel(p, t) PROVE RInv'
    <2>1. PICK row \in StepTable :
             /\ row.action = "cancel" /\ MayTake(p, t, row)
             /\ transfer' = [transfer EXCEPT ![t].status = row.next]
             /\ \E back : onHand' = [onHand EXCEPT ![transfer[t].source] = back]
      BY <1>7 DEF Cancel, PutTo
    <2>k. Moves(t, row)
      BY <1>t, <2>1, KeptTransfer
    <2>2. row.next = "cancelled"
      BY <2>1, TableFacts
    <2>3. \A l \in Branches, i \in Items : Brings(t, l, i)' = 0 /\ Brings(t, l, i) \in Nat
      BY <2>2, <2>k, BringsBy, BringsByNext DEF Moves
    <2>4. \A l \in Branches : onHand'[l] = onHand[l]
      BY <1>t, <1>r, <2>1, <2>k, AtAWarehouse DEF Moves
    <2> QED BY <1>0, <1>t, <1>h, <1>r, <2>1, <2>3, <2>4, <2>k, MoveFits DEF Moves
  <1>8. ASSUME NEW b \in Branches, NEW k \in Items, Sell(b, k) PROVE RInv'
    <2>1. transfer' = transfer /\ onHand' = [onHand EXCEPT ![b][k] = @ - 1]
      BY <1>8 DEF Sell
    <2>2. Routes'
      BY <2>1 DEF Routes, Status
    <2>3. \A l \in Branches, i \in Items : onHand'[l][i] <= onHand[l][i] /\ onHand'[l][i] \in Int
      BY <1>t, <1>h, <2>1 DEF TypeOK
    <2>4. \A l \in Branches, i \in Items :
             /\ InTransitTo(l, i)' = InTransitTo(l, i) /\ OpenInbound(l, i)' = OpenInbound(l, i)
             /\ InTransitTo(l, i) \in Int /\ OpenInbound(l, i) \in Int
      BY <1>t, <2>1, FiguresType DEF InTransitTo, OpenInbound, Total, Due, SideOf, Status
    <2>5. \A l \in Branches, i \in Items : Filled(l, i) \in Int
      BY <1>h, LevelTypes
    <2>6. NeverOverfilled'
      BY <1>h, <2>3, <2>4, <2>5 DEF NeverOverfilled, Filled
    <2> QED BY <1>0, <2>2, <2>6
  <1> QED BY <1>1, <1>2, <1>3, <1>4, <1>5, <1>6, <1>7, <1>8 DEF Replenish

(* Nothing is coming at the start.                                         *)
LEMMA InitRInv == Init => RInv
  <1> SUFFICES ASSUME Init PROVE RInv
    OBVIOUS
  <1>1. IInv /\ TypeOK
    BY InitIInv DEF IInv
  <1>2. \A t \in Transfers : Status(t) = "absent"
    BY DEF Init, Status, Absent
  <1>3. \A l \in Branches, i \in Items : InTransitTo(l, i) = 0 /\ OpenInbound(l, i) = 0
    <2>1. \A l : Due("destination", l, {"dispatched"}) = {} /\ Due("destination", l, {"requested", "draft"}) = {}
      BY <1>2 DEF Due
    <2>2. \A i : Total(i, {}) = 0
      BY SumNothing DEF Total, SumFunction
    <2> QED BY <2>1, <2>2 DEF InTransitTo, OpenInbound
  <1>4. \A l \in Branches, i \in Items :
            Opening[l][i] <= Filled(l, i) /\ onHand[l][i] = Opening[l][i] /\ Opening[l][i] \in Int
    BY LevelTypes, TransferAssumption DEF Branches, Init
  <1>5. NeverOverfilled
    BY <1>3, <1>4 DEF NeverOverfilled, Filled
  <1> QED BY <1>1, <1>2, <1>5 DEF RInv, Routes

(* With everything that is coming landed, no branch holds more than its    *)
(* target, or than it opened with (replenish.rs:3-9).                      *)
THEOREM BranchesNeverOverfilled == ReplenishSpec => []NeverOverfilled
  <1> QED BY InitRInv, StepRInv, PTL DEF ReplenishSpec, RInv

(* Drafting a suggestion never takes what a warehouse has promised past    *)
(* what it holds (replenish.rs:7-8).                                       *)
THEOREM WarehousesNeverOverpromise == ReplenishSpec => NeverOverpromised
  <1> DEFINE Kept(t, w) ==
        /\ Status(t) = "absent" /\ transfer'[t].status = "draft"
        /\ transfer'[t].source = w
        => \A i \in Items :
               transfer'[t].lines[i] > 0 => DraftedOut(w, i)' <= onHand[w][i]
  <1>1. RInv /\ [Replenish]_vars
          => [\A t \in Transfers, w \in Warehouses : Kept(t, w)]_vars
    <2> SUFFICES ASSUME RInv, Replenish, NEW u \in Transfers, NEW v \in Warehouses,
                        Status(u) = "absent", transfer'[u].status = "draft",
                        transfer'[u].source = v
                 PROVE  \A i \in Items :
                            transfer'[u].lines[i] > 0 => DraftedOut(v, i)' <= onHand[v][i]
      OBVIOUS
    <2>1. TypeOK /\ TypeOK'
      BY ReplenishKeepsIInv DEF RInv, IInv
    <2>2. PICK p \in Persons, t \in Transfers, w \in Warehouses, b \in Branches :
             DraftSuggestion(p, t, w, b)
      <3>1. ASSUME NEW p \in Persons, NEW t \in Transfers, NEW w \in Warehouses,
                   NEW b \in Branches, RequestNeed(p, t, w, b)
            PROVE  FALSE
        BY <2>1, <3>1 DEF RequestNeed, Request, Open, TypeOK, Status
      <3>2. ASSUME NEW t \in Transfers, NEW row, Moves(t, row) PROVE FALSE
        BY <3>2 DEF Moves, Alone, Transfer, Statuses, Status
      <3>3. ASSUME NEW p \in Persons, NEW t \in Transfers,
                   \/ AcceptAsAsked(p, t) \/ Decline(p, t) \/ Dispatch(p, t)
                   \/ ReceiveExact(p, t) \/ Cancel(p, t)
            PROVE  FALSE
        <4>1. PICK row \in StepTable :
                 /\ MayTake(p, t, row)
                 /\ \/ transfer' = [transfer EXCEPT ![t].status = row.next]
                    \/ transfer' = [transfer EXCEPT ![t].status = row.next,
                                                   ![t].lines = transfer[t].lines]
          BY <3>3 DEF AcceptAsAsked, Accept, Decline, Dispatch, ReceiveExact, Receive, Cancel
        <4> QED BY <2>1, <3>2, <4>1, KeptTransfer
      <3>4. ASSUME NEW l \in Branches, NEW i \in Items, Sell(l, i) PROVE FALSE
        BY <3>4 DEF Sell, Status
      <3> QED BY <3>1, <3>3, <3>4 DEF Replenish
    <2>3. /\ transfer'[t] = [status |-> "draft", source |-> w, destination |-> b,
                             lines |-> Suggestion(w, b)]
          /\ Alone(t) /\ t = u /\ w = v
      BY <2>1, <2>2 DEF DraftSuggestion, StartDraft, Open, TypeOK, Alone, Status
    <2>4. ASSUME NEW i \in Items, transfer'[u].lines[i] > 0
          PROVE  DraftedOut(v, i)' <= onHand[v][i]
      <3> DEFINE n == Suggestion(w, b)[i]
                 S == Due("source", w, {"draft"})
      <3>1. n > 0 /\ n \in Int /\ DraftedOut(w, i) + n <= onHand[w][i]
        BY <2>1, <2>3, <2>4, SuggestionFits
      <3>2. t \notin S /\ t \in S'
        BY <2>3 DEF Due, Status, SideOf
      <3>3. {"draft"} \in SUBSET Statuses
        BY DEF Statuses
      <3>4. Total(i, S) \in Int /\ Total(i, S)' = Total(i, S) - 0 + transfer'[t].lines[i]
        <4> HIDE DEF S
        <4> QED BY <2>1, <2>3, <3>2, <3>3, DueChange DEF S
      <3>5. DraftedOut(w, i)' = DraftedOut(w, i) + n
        BY <2>3, <3>1, <3>4 DEF DraftedOut
      <3> QED BY <2>3, <3>1, <3>5
    <2> QED BY <2>4
  <1> QED BY <1>1, InitRInv, StepRInv, PTL DEF ReplenishSpec, NeverOverpromised

-----------------------------------------------------------------------------
(***************************************************************************)
(* The stock room.                                                         *)
(***************************************************************************)

(* Rounding.                                                               *)

(* A rounded quotient is the natural within half of it.                    *)
LEMMA RoundNear ==
    ASSUME NEW n \in Nat, NEW d \in Nat \ {0}
    PROVE  /\ RoundHalfAway(n, d) \in Nat
           /\ 2 * (d * RoundHalfAway(n, d)) <= 2 * n + d
           /\ 2 * n < 2 * (d * RoundHalfAway(n, d)) + d
<1> DEFINE q == (2 * n + d) \div (2 * d)
<1>1. q \in Int /\ (2 * d) * q <= 2 * n + d /\ 2 * n + d < (2 * d) * q + 2 * d
  OBVIOUS
<1>2. RoundHalfAway(n, d) = q
  BY DEF RoundHalfAway, NonNegative
<1> HIDE DEF q
<1>3. ~(q + 1 <= 0)
  <2> SUFFICES ASSUME q + 1 <= 0 PROVE FALSE
    OBVIOUS
  <2>1. (2 * d) * (q + 1) <= 0
    BY <1>1
  <2> QED BY <2>1, <1>1
<1>4. q \in Nat
  BY <1>1, <1>3
<1> QED BY <1>1, <1>2, <1>4

(* Only one integer is.                                                    *)
LEMMA RoundOnly ==
    ASSUME NEW n \in Nat, NEW d \in Nat \ {0}, NEW r \in Int,
           2 * (d * r) <= 2 * n + d, 2 * n < 2 * (d * r) + d
    PROVE  RoundHalfAway(n, d) = r
<1> DEFINE q == RoundHalfAway(n, d)
<1>1. q \in Nat /\ 2 * (d * q) <= 2 * n + d /\ 2 * n < 2 * (d * q) + d
  BY RoundNear
<1> HIDE DEF q
<1>2. ~(q + 1 <= r)
  <2> SUFFICES ASSUME q + 1 <= r PROVE FALSE
    OBVIOUS
  <2>1. d * (q + 1) <= d * r
    BY <1>1
  <2> QED BY <2>1, <1>1
<1>3. ~(r + 1 <= q)
  <2> SUFFICES ASSUME r + 1 <= q PROVE FALSE
    OBVIOUS
  <2>1. d * (r + 1) <= d * q
    BY <1>1
  <2> QED BY <2>1, <1>1
<1>4. q = r
  BY <1>1, <1>2, <1>3
<1> QED BY <1>4 DEF q

(* A rounded figure is a natural whatever is rounded.                      *)
LEMMA RoundType ==
    ASSUME NEW n \in Int, NEW d \in Int
    PROVE  RoundHalfAway(n, d) \in Nat
<1>1. NonNegative(n) \in Nat
  BY DEF NonNegative
<1>2. CASE d <= 0
  BY <1>2 DEF RoundHalfAway
<1>3. CASE d > 0
  <2>1. RoundHalfAway(NonNegative(n), d) \in Nat
    BY <1>1, <1>3, RoundNear
  <2>2. RoundHalfAway(NonNegative(n), d) = RoundHalfAway(n, d)
    BY <1>1 DEF RoundHalfAway, NonNegative
  <2> QED BY <2>1, <2>2
<1> QED BY <1>2, <1>3

(* A whole number of the denominator is itself.                            *)
LEMMA RoundWhole ==
    ASSUME NEW q \in Nat, NEW d \in Nat \ {0}
    PROVE  RoundHalfAway(q * d, d) = q
<1>1. q * d \in Nat /\ q * d = d * q
  OBVIOUS
<1> DEFINE n == q * d
<1>2. n \in Nat /\ 2 * (d * q) <= 2 * n + d /\ 2 * n < 2 * (d * q) + d
  BY <1>1
<1> HIDE DEF n
<1>3. RoundHalfAway(n, d) = q
  BY <1>2, RoundOnly
<1> QED BY <1>3 DEF n

(* Grossed up by a loss and brought back, a quantity is itself.            *)
LEMMA GrossedAndBack ==
    ASSUME NEW q \in Nat, NEW y \in 1..100
    PROVE  RoundHalfAway(RoundHalfAway(q * 100, y) * y, 100) = q
<1> DEFINE n == q * 100
           stored == RoundHalfAway(n, y)
           p == stored * y
<1>1. n \in Nat /\ n = 100 * q
  OBVIOUS
<1> HIDE DEF n
<1>2. stored \in Nat /\ 2 * (y * stored) <= 2 * n + y /\ 2 * n < 2 * (y * stored) + y
  <2>1. y \in Nat \ {0}
    OBVIOUS
  <2> QED BY <1>1, <2>1, RoundNear
<1>3. CASE y = 100
  <2>1. RoundHalfAway(q * 100, 100) = q
    BY RoundWhole
  <2> QED BY <1>3, <2>1 DEF n
<1>4. CASE y # 100
  <2> HIDE DEF stored
  <2>1. p \in Nat /\ y * stored = p
    BY <1>2
  <2> HIDE DEF p
  <2>2. 2 * (100 * q) <= 2 * p + 100 /\ 2 * p < 2 * (100 * q) + 100
    BY <1>1, <1>2, <1>4, <2>1
  <2>3. RoundHalfAway(p, 100) = q
    BY <2>1, <2>2, RoundOnly
  <2> QED BY <2>3 DEF p, stored, n
<1> QED BY <1>3, <1>4

(* A figure scaled up with its denominator rounds the same.                *)
LEMMA RoundScaled ==
    ASSUME NEW n \in Nat, NEW d \in Nat \ {0}, NEW g \in Nat \ {0}
    PROVE  RoundHalfAway(n * g, d * g) = RoundHalfAway(n, d)
<1> DEFINE r == RoundHalfAway(n, d)
           a == d * r
           m == n * g
           e == d * g
<1>1. r \in Nat /\ 2 * a <= 2 * n + d /\ 2 * n < 2 * a + d /\ a \in Nat
  BY RoundNear
<1>2. m \in Nat /\ e \in Nat \ {0}
  OBVIOUS
<1>3. e * r = g * a
  BY <1>1
<1> HIDE DEF a, r
<1>4. g * (2 * a) <= g * (2 * n + d) /\ g * (2 * n) < g * (2 * a + d)
  BY <1>1
<1>5. 2 * (e * r) <= 2 * m + e /\ 2 * m < 2 * (e * r) + e
  BY <1>1, <1>3, <1>4
<1> HIDE DEF m, e
<1>6. RoundHalfAway(m, e) = r
  BY <1>1, <1>2, <1>5, RoundOnly
<1> QED BY <1>6 DEF m, e, r

(* However its half comes out, a rounded quotient is within a half of it.  *)
LEMMA FloatNear ==
    ASSUME NEW n \in Nat, NEW d \in Nat \ {0}, NEW a \in FloatRounded(n, d)
    PROVE  a \in Int /\ 2 * (d * a) <= 2 * n + d /\ 2 * n <= 2 * (d * a) + d
<1> DEFINE r == RoundHalfAway(n, d)
           q == n \div d
           m == n % d
<1>1. r \in Nat /\ 2 * (d * r) <= 2 * n + d /\ 2 * n < 2 * (d * r) + d
  BY RoundNear
<1>2. a = r \/ (a = r - 1 /\ 2 * m = d)
  BY DEF FloatRounded
<1>3. q \in Int /\ m \in Int /\ n = d * q + m
  OBVIOUS
<1> HIDE DEF r, q, m
<1>4. CASE a = r - 1 /\ 2 * m = d
  <2>1. 2 * n = 2 * (d * q) + d /\ d * q \in Int /\ d * r \in Int
    BY <1>1, <1>3, <1>4
  <2>2. d * (q + 1) = d * q + d /\ d * (r - 1) = d * r - d
    BY <1>1, <1>3
  <2>3. ~(r <= q)
    <3> SUFFICES ASSUME r <= q PROVE FALSE
      OBVIOUS
    <3>1. d * r <= d * q
      BY <1>1, <1>3
    <3> QED BY <1>1, <2>1, <3>1
  <2>4. d * (q + 1) <= d * r
    BY <1>1, <1>3, <2>3
  <2> QED BY <1>1, <1>4, <2>1, <2>2, <2>4
<1> QED BY <1>1, <1>2, <1>4

(* Rounding n times a figure, and n times the figure rounded, are at most  *)
(* (n + 1) / 2 apart.                                                      *)
LEMMA RoundedTimes ==
    ASSUME NEW n \in Nat, NEW s \in Nat, NEW d \in Nat \ {0}, NEW a \in FloatRounded(n * s, d)
    PROVE  2 * Distance(a, n * RoundHalfAway(s, d)) <= n + 1
<1> DEFINE b == RoundHalfAway(s, d)
           v == n * b
           w == n * s
           x == a - v
<1>1. w \in Nat
  OBVIOUS
<1>2. a \in Int /\ 2 * (d * a) <= 2 * w + d /\ 2 * w <= 2 * (d * a) + d
  BY <1>1, FloatNear
<1>3. b \in Nat /\ 2 * (d * b) <= 2 * s + d /\ 2 * s < 2 * (d * b) + d
  BY RoundNear
<1> HIDE DEF b
<1>4. v \in Nat /\ n * (d * b) = d * v
  BY <1>3
<1>5. n * (2 * (d * b)) <= n * (2 * s + d) /\ n * (2 * s) <= n * (2 * (d * b) + d)
  BY <1>3
<1>6. 2 * (d * v) <= 2 * w + n * d /\ 2 * w <= 2 * (d * v) + n * d
  BY <1>3, <1>4, <1>5
<1> HIDE DEF v, w
<1>7. x \in Int /\ d * x = d * a - d * v
  BY <1>2, <1>4
<1>8. 2 * (d * x) <= d * (n + 1) /\ 0 - d * (n + 1) <= 2 * (d * x)
  BY <1>1, <1>2, <1>4, <1>6, <1>7
<1> HIDE DEF x
<1>9. ~(n + 1 < 2 * x)
  <2> SUFFICES ASSUME n + 2 <= 2 * x PROVE FALSE
    BY <1>7
  <2>1. d * (n + 2) <= d * (2 * x)
    BY <1>7
  <2> QED BY <2>1, <1>7, <1>8
<1>10. ~(2 * x < 0 - (n + 1))
  <2> SUFFICES ASSUME 2 * x + (n + 2) <= 0 PROVE FALSE
    BY <1>7
  <2>1. d * (2 * x + (n + 2)) <= 0
    BY <1>7
  <2> QED BY <2>1, <1>7, <1>8
<1>11. 2 * Distance(a, v) <= n + 1
  BY <1>2, <1>4, <1>7, <1>9, <1>10 DEF Distance, x
<1> QED BY <1>11 DEF v, b

(* A total's unit cost, rounded half to even, gives the total back when    *)
(* the quantity is less than the grain of the unit cost.                   *)
LEMMA TotalFromUnit ==
    ASSUME NEW line \in Nat, NEW q \in Nat \ {0}, NEW grain \in Nat \ {0}, q < grain
    PROVE  RoundHalfAway(RoundHalfEven(line * grain, q) * q, grain) = line
<1> DEFINE n == line * grain
           floor == n \div q
           rem == n % q
           unit == RoundHalfEven(n, q)
           p == unit * q
<1>1. n \in Nat /\ n = grain * line
  OBVIOUS
<1>2. floor \in Int /\ rem \in Int /\ n = q * floor + rem /\ 0 <= rem /\ rem < q
  <2> HIDE DEF n
  <2> QED BY <1>1
<1>3. floor \in Nat
  <2> HIDE DEF floor, rem, n
  <2> SUFFICES ASSUME floor + 1 <= 0 PROVE FALSE
    BY <1>2
  <2>1. q * (floor + 1) <= 0
    BY <1>2
  <2> QED BY <2>1, <1>1, <1>2
<1>4. \/ unit = floor /\ 2 * rem <= q
      \/ unit = floor + 1 /\ 2 * rem >= q
  <2> HIDE DEF n
  <2> QED BY <1>1, <1>2 DEF RoundHalfEven
<1> HIDE DEF floor, rem, unit, n
<1>5. q * (floor + 1) = q * floor + q
  BY <1>3
<1>6. p \in Nat /\ (p = q * floor \/ p = q * floor + q) /\ 2 * p <= 2 * n + q /\ 2 * n <= 2 * p + q
  BY <1>1, <1>2, <1>3, <1>4, <1>5
<1> HIDE DEF p
<1>7. 2 * (grain * line) <= 2 * p + grain /\ 2 * p < 2 * (grain * line) + grain
  BY <1>1, <1>6
<1>8. RoundHalfAway(p, grain) = line
  BY <1>6, <1>7, RoundOnly
<1> QED BY <1>8 DEF p, unit, n

-----------------------------------------------------------------------------
(* Units.                                                                  *)

(* Nothing is neither a number nor a reason.                               *)
LEMMA NoneIs == None \notin Int /\ \A why \in Reasons : None # why
BY RoomAssumption

LEMMA UnitFactor ==
    ASSUME NEW u \in DOMAIN UnitSpec
    PROVE  UnitSpec[u].factor \in Nat \ {0}
<1>1. u \in {"g", "kg", "ml", "l", "pcs"}
  BY DEF UnitSpec
<1> QED BY <1>1 DEF UnitSpec

(* A conversion that does not fail is between units of a family, and is    *)
(* the quantity within half of the smallest it can tell.                   *)
LEMMA Converted ==
    ASSUME NEW q \in Nat, NEW from, NEW to
    PROVE  LET c == Convert(q, from, to)
           IN  /\ c.q \in Nat
               /\ c.error = None =>
                     /\ from \in DOMAIN UnitSpec /\ to \in DOMAIN UnitSpec
                     /\ c.q = RoundHalfAway(q * UnitSpec[from].factor, UnitSpec[to].factor)
               /\ c.error = "incompatible" => from \in DOMAIN UnitSpec /\ to \in DOMAIN UnitSpec
<1>1. CASE {from, to} \subseteq DOMAIN UnitSpec /\ UnitSpec[from].family = UnitSpec[to].family
  <2> DEFINE r == RoundHalfAway(q * UnitSpec[from].factor, UnitSpec[to].factor)
  <2>1. UnitSpec[from].factor \in Nat /\ UnitSpec[to].factor \in Nat \ {0}
    BY <1>1, UnitFactor
  <2>2. q * UnitSpec[from].factor \in Nat
    BY <2>1
  <2>3. r \in Nat
    BY <2>1, <2>2, RoundNear
  <2>4. Convert(q, from, to) = [error |-> None, q |-> r]
    BY <1>1 DEF Convert, Quantity
  <2> HIDE DEF r
  <2>5. Convert(q, from, to).error = None /\ Convert(q, from, to).q = r
    BY <2>4
  <2> QED BY <1>1, <2>3, <2>5, NoneIs DEF r
<1>2. CASE {from, to} \subseteq DOMAIN UnitSpec /\ UnitSpec[from].family # UnitSpec[to].family
  <2>1. Convert(q, from, to) = [error |-> "incompatible", q |-> 0]
    BY <1>2 DEF Convert, Failed
  <2>2. Convert(q, from, to).error = "incompatible" /\ Convert(q, from, to).q = 0
    BY <2>1
  <2> QED BY <1>2, <2>2, NoneIs DEF Reasons
<1>3. CASE ~({from, to} \subseteq DOMAIN UnitSpec)
  <2>1. Convert(q, from, to) = [error |-> "unknown", q |-> 0]
    BY <1>3 DEF Convert, Failed
  <2>2. Convert(q, from, to).error = "unknown" /\ Convert(q, from, to).q = 0
    BY <2>1
  <2> QED BY <2>2, NoneIs DEF Reasons
<1> QED BY <1>1, <1>2, <1>3

(* Within a unit, a quantity is itself.                                    *)
LEMMA ConvertedToItself ==
    ASSUME NEW q \in Nat, NEW u \in DOMAIN UnitSpec
    PROVE  Convert(q, u, u) = [error |-> None, q |-> q]
<1> DEFINE f == UnitSpec[u].factor
<1>1. f \in Nat \ {0}
  BY UnitFactor
<1>2. RoundHalfAway(q * f, f) = q
  <2> HIDE DEF f
  <2> QED BY <1>1, RoundWhole
<1> QED BY <1>2 DEF Convert, Quantity

(* With a density: a natural; of a quantity above zero only between known  *)
(* units; and within a unit itself.                                        *)
LEMMA Bridged ==
    ASSUME NEW q \in Nat, NEW from, NEW to, NEW density \in Int \union {None}
    PROVE  LET c == ConvertWithDensity(q, from, to, density)
           IN  /\ c.q \in Nat
               /\ c.error = None => from \in DOMAIN UnitSpec /\ to \in DOMAIN UnitSpec
<1> DEFINE f == UnitSpec[from]
           t == UnitSpec[to]
           c == Convert(q, from, to)
           b == ConvertWithDensity(q, from, to, density)
<1>1. /\ c.q \in Nat
      /\ c.error = None => from \in DOMAIN UnitSpec /\ to \in DOMAIN UnitSpec
      /\ c.error = "incompatible" => from \in DOMAIN UnitSpec /\ to \in DOMAIN UnitSpec
  BY Converted
<1>2. CASE c.error # "incompatible"
  <2>1. b = c
    BY <1>2 DEF ConvertWithDensity
  <2> QED BY <1>1, <2>1
<1>3. CASE c.error = "incompatible"
  <2>1. f.factor \in Nat /\ t.factor \in Nat
    BY <1>1, <1>3, UnitFactor
  <2> HIDE DEF c, f, t
  <2>2. CASE density = None \/ density <= 0
    <3>1. b = Failed("needs_density")
      BY <1>3, <2>2 DEF ConvertWithDensity, c, f, t
    <3> QED BY <1>1, <1>3, <3>1 DEF Failed
  <2>3. CASE density # None /\ ~(density <= 0)
    <3>1. density \in Nat
      BY <2>3
    <3>2. /\ q * f.factor * 1000 \in Int /\ density * t.factor \in Int
          /\ q * f.factor * density \in Int /\ 1000 * t.factor \in Int
      <4>1. q * f.factor \in Nat
        BY <2>1
      <4> DEFINE w == q * f.factor
      <4>2. w * 1000 \in Nat /\ w * density \in Nat /\ density * t.factor \in Nat /\ 1000 * t.factor \in Nat
        <5> HIDE DEF w
        <5>1. w \in Nat
          BY <4>1 DEF w
        <5> QED BY <2>1, <3>1, <5>1
      <4> QED BY <4>2
    <3>3. \/ b = Quantity(q * f.factor * 1000, density * t.factor)
          \/ b = Quantity(q * f.factor * density, 1000 * t.factor)
          \/ b = Failed("not_bridged")
      BY <1>3, <2>3 DEF ConvertWithDensity, c, f, t
    <3>4. b.q \in Nat
      <4>1. \A n, d \in Int : Quantity(n, d).q \in Nat
        <5> TAKE n, d \in Int
        <5>1. Quantity(n, d).q = RoundHalfAway(n, d)
          BY DEF Quantity
        <5> QED BY <5>1, RoundType
      <4>2. CASE b = Quantity(q * f.factor * 1000, density * t.factor)
                   \/ b = Quantity(q * f.factor * density, 1000 * t.factor)
        BY <3>2, <4>1, <4>2
      <4>3. CASE b = Failed("not_bridged")
        BY <4>3 DEF Failed
      <4> QED BY <3>3, <4>1, <4>2, <4>3
    <3> QED BY <1>1, <1>3, <3>4
  <2> QED BY <2>2, <2>3
<1> QED BY <1>2, <1>3

-----------------------------------------------------------------------------
(* A recipe line as some editor saved it.                                  *)
Saved(row) ==
    LET i == row.ingredient
    IN  /\ i \in Ingredients /\ row.yield \in Int \union {None}
        /\ \E q \in Nat : \E unit :
              /\ RecipeBaseQty(q, unit, i, row.yield).error = None
              /\ RecipeBaseQty(q, unit, i, row.yield).q > 0
              /\ row.stored = RecipeBaseQty(q, unit, i, row.yield).q
              /\ row.usable = ConvertWithDensity(q, unit, Unit[i], Density[i]).q

LEMMA YieldIs ==
    ASSUME NEW y \in Int \union {None}
    PROVE  YieldFactor(y) \in Nat \ {0}
BY NoneIs DEF YieldFactor

(* What was saved: the stock of the usable amount in a known unit.         *)
LEMMA SavedIs ==
    ASSUME NEW row, Saved(row)
    PROVE  /\ row.ingredient \in Ingredients
           /\ Unit[row.ingredient] \in DOMAIN UnitSpec
           /\ row.usable \in Nat /\ row.stored \in Nat
           /\ row.stored = RoundHalfAway(row.usable * 100, YieldFactor(row.yield))
<1> DEFINE i == row.ingredient
           y == YieldFactor(row.yield)
<1>0. PICK q \in Nat : \E unit :
          /\ RecipeBaseQty(q, unit, i, row.yield).error = None
          /\ row.stored = RecipeBaseQty(q, unit, i, row.yield).q
          /\ row.usable = ConvertWithDensity(q, unit, Unit[i], Density[i]).q
  BY DEF Saved
<1>1. PICK unit :
          /\ RecipeBaseQty(q, unit, i, row.yield).error = None
          /\ row.stored = RecipeBaseQty(q, unit, i, row.yield).q
          /\ row.usable = ConvertWithDensity(q, unit, Unit[i], Density[i]).q
  BY <1>0
<1> DEFINE base == ConvertWithDensity(q, unit, Unit[i], Density[i])
<1>2. i \in Ingredients /\ Density[i] \in Int \union {None}
      /\ y \in Nat \ {0}
  BY RoomAssumption, YieldIs DEF Saved
<1>3. base.q \in Nat /\ (base.error = None => Unit[i] \in DOMAIN UnitSpec)
  BY <1>2, Bridged
<1> HIDE DEF y
<1>4. RecipeBaseQty(q, unit, i, row.yield)
        = IF base.error # None THEN base ELSE Quantity(base.q * 100, y)
  BY DEF RecipeBaseQty, y
<1> HIDE DEF base
<1>5. base.error = None
  BY <1>1, <1>4
<1>6. row.stored = RoundHalfAway(base.q * 100, y)
  BY <1>1, <1>4, <1>5 DEF Quantity
<1>7. row.stored \in Nat
  <2>1. base.q * 100 \in Int /\ y \in Int
    BY <1>2, <1>3
  <2> QED BY <1>6, <2>1, RoundType
<1> QED BY <1>1, <1>2, <1>3, <1>5, <1>6, <1>7 DEF base, y

LEMMA SavedStays ==
    ASSUME NEW row, Saved(row), YieldFactor(row.yield) <= 100
    PROVE  /\ UsableQty(row.stored, row.yield) = row.usable
           /\ RecipeBaseQty(row.usable, Unit[row.ingredient], row.ingredient, row.yield).q = row.stored
<1> DEFINE i == row.ingredient
           y == YieldFactor(row.yield)
           n == row.usable
<1>1. /\ i \in Ingredients /\ Unit[i] \in DOMAIN UnitSpec
      /\ n \in Nat /\ row.stored = RoundHalfAway(n * 100, y)
  BY SavedIs
<1>2. y \in 1..100
  <2>1. row.yield \in Int \union {None}
    BY DEF Saved
  <2>2. y \in Nat \ {0}
    BY <2>1, YieldIs
  <2> QED BY <2>2
<1>3. UsableQty(row.stored, row.yield) = n
  <2>1. UsableQty(row.stored, row.yield) = RoundHalfAway(row.stored * y, 100)
    BY DEF UsableQty
  <2> HIDE DEF y, n
  <2> QED BY <1>1, <1>2, <2>1, GrossedAndBack
<1>4. ConvertWithDensity(n, Unit[i], Unit[i], Density[i]) = [error |-> None, q |-> n]
  <2> HIDE DEF n, i
  <2>1. Convert(n, Unit[i], Unit[i]) = [error |-> None, q |-> n]
    BY <1>1, ConvertedToItself
  <2>2. Convert(n, Unit[i], Unit[i]).error # "incompatible"
    BY <2>1, NoneIs DEF Reasons
  <2> QED BY <2>1, <2>2 DEF ConvertWithDensity
<1>5. RecipeBaseQty(n, Unit[i], i, row.yield) = Quantity(n * 100, y)
  BY <1>4 DEF RecipeBaseQty
<1> QED BY <1>1, <1>3, <1>5 DEF Quantity

-----------------------------------------------------------------------------
(* The pass over the extras.                                               *)
Naming == INSTANCE FoldFacts WITH
    FoldStep <- LAMBDA no, none, nil, done, family : AddFamily(done, family)
Following == INSTANCE FoldFacts WITH
    FoldStep <- LAMBDA no, none, nil, made, family : FollowFamily(made, family)

LEMMA NamingFold ==
    ASSUME NEW picked
    PROVE  FamiliesOf(picked) = Naming!Folded(None, None, None, Always, picked)
BY DEF FamiliesOf, FoldLeft, MapThenFoldSet, Max, Naming!Folded, Naming!IsFolder, Naming!Max

LEMMA FollowingFold ==
    ASSUME NEW lines, NEW families
    PROVE  FollowTheDrink(lines, families)
             = Following!Folded(None, None, None, [lines |-> lines, stuck |-> {}], families)
BY DEF FollowTheDrink, FoldLeft, MapThenFoldSet, Max, Following!Folded, Following!IsFolder, Following!Max

(* The families are a sequence, which is all the pass asks of them.        *)
LEMMA FamiliesAre ==
    ASSUME NEW picked \in Seq(STRING)
    PROVE  \E A : FamiliesOf(picked) \in Seq(A)
<1> DEFINE A == STRING \union {"milk", "coffee_bean"}
           n == Len(picked)
<1>1. PICK run : /\ Naming!IsRun(None, None, None, Always, picked, run)
                 /\ FamiliesOf(picked) = run[n]
  BY NamingFold, Naming!FoldIsRun
<1>2. run[0] = Always /\ \A k \in 1..n : run[k] = AddFamily(run[k - 1], picked[k])
  BY <1>1 DEF Naming!IsRun
<1> DEFINE T == { k \in 0..n : run[k] \in Seq(A) }
<1>3. n \in Nat /\ 0 \in T
  <2>1. <<"milk", "coffee_bean">> \in Seq({"milk", "coffee_bean"})
    OBVIOUS
  <2>2. <<"milk", "coffee_bean">> \in Seq(A)
    BY <2>1
  <2>3. n \in Nat /\ 0 \in 0..n
    OBVIOUS
  <2> HIDE DEF A, n
  <2> QED BY <1>2, <2>2, <2>3 DEF Always
<1>4. \A k \in 1..n : k - 1 \in T => k \in T
  <2> TAKE k \in 1..n
  <2> HAVE k - 1 \in T
  <2>1. picked[k] \in A /\ run[k - 1] \in Seq(A) /\ k \in 0..n
    BY <1>3
  <2> HIDE DEF A
  <2>2. run[k] = run[k - 1] \/ run[k] = Append(run[k - 1], picked[k])
    BY <1>2 DEF AddFamily
  <2>3. Append(run[k - 1], picked[k]) \in Seq(A)
    BY <2>1
  <2>4. run[k] \in Seq(A)
    BY <2>1, <2>2, <2>3
  <2> QED BY <2>1, <2>4
<1> HIDE DEF T
<1>5. n \in T
  BY <1>3, <1>4, Upward
<1> QED BY <1>1, <1>5 DEF T

IsDrinkLine(l) ==
    /\ l = [ingredient |-> l.ingredient, unit |-> l.unit, quantity |-> l.quantity, additive |-> l.additive]
    /\ l.additive \in BOOLEAN

IsDrink(lines) ==
    /\ DOMAIN lines \subseteq Nat /\ lines = [k \in DOMAIN lines |-> lines[k]]
    /\ \A k \in DOMAIN lines : IsDrinkLine(lines[k])

(* What the pass makes of a line of a following family, from the lines     *)
(* before it.                                                              *)
FamilyAt(lines, k) == Category[lines[k].ingredient]
ChoiceFor(lines, k) == lines[Min(OwnLines(lines, FamilyAt(lines, k)))]
Told(lines, k) ==
    /\ lines[k].additive /\ OwnLines(lines, FamilyAt(lines, k)) # {}
    /\ lines[k].ingredient # ChoiceFor(lines, k).ingredient
Amount(lines, k) == Convert(lines[k].quantity, lines[k].unit, ChoiceFor(lines, k).unit)
After(lines, k) == IF Told(lines, k) THEN Follow(lines[k], ChoiceFor(lines, k)) ELSE lines[k]

Passed(lines, families, made) ==
    /\ made.lines = [k \in DOMAIN lines |->
                        IF FamilyAt(lines, k) \in families THEN After(lines, k) ELSE lines[k]]
    /\ made.stuck = { k \in DOMAIN lines :
                        /\ FamilyAt(lines, k) \in families /\ Told(lines, k)
                        /\ Amount(lines, k).error # None }

(* The first line of a family is one of it, and no extra's.                *)
LEMMA ChoiceIs ==
    ASSUME NEW lines, IsDrink(lines), NEW family, OwnLines(lines, family) # {}
    PROVE  /\ Min(OwnLines(lines, family)) \in DOMAIN lines
           /\ Min(OwnLines(lines, family)) # 0 \/ 0 \in DOMAIN lines
           /\ Category[lines[Min(OwnLines(lines, family))].ingredient] = family
           /\ ~lines[Min(OwnLines(lines, family))].additive
<1> DEFINE C == OwnLines(lines, family)
<1>1. C \in SUBSET Nat /\ C # {}
  BY DEF OwnLines, IsDrink
<1> HIDE DEF C
<1>2. \E x \in C : \A y \in C : x <= y
  BY <1>1, LeastNat
<1>3. Min(C) \in C
  BY <1>2 DEF Min
<1> QED BY <1>3 DEF C, OwnLines

(* A line told to follow takes the choice's ingredient, or is as authored. *)
LEMMA AfterIs ==
    ASSUME NEW lines, IsDrink(lines), NEW k \in DOMAIN lines
    PROVE  /\ IsDrinkLine(After(lines, k))
           /\ After(lines, k).additive = lines[k].additive
           /\ Category[After(lines, k).ingredient] = FamilyAt(lines, k)
           /\ ~Told(lines, k) => After(lines, k) = lines[k]
           /\ Told(lines, k) /\ Amount(lines, k).error # None => After(lines, k) = lines[k]
           /\ Told(lines, k) /\ Amount(lines, k).error = None =>
                 /\ After(lines, k).ingredient = ChoiceFor(lines, k).ingredient
                 /\ After(lines, k).unit = ChoiceFor(lines, k).unit
                 /\ After(lines, k).quantity = Amount(lines, k).q
<1> DEFINE l == lines[k]
           c == ChoiceFor(lines, k)
<1>1. IsDrinkLine(l)
  BY DEF IsDrink
<1>2. CASE ~Told(lines, k)
  BY <1>1, <1>2 DEF After, FamilyAt
<1>3. CASE Told(lines, k) /\ Amount(lines, k).error # None
  <2>1. After(lines, k) = l
    BY <1>3 DEF After, Follow, Amount
  <2> QED BY <1>1, <1>3, <2>1 DEF FamilyAt
<1>4. CASE Told(lines, k) /\ Amount(lines, k).error = None
  <2>1. After(lines, k) = [l EXCEPT !.ingredient = c.ingredient, !.unit = c.unit,
                                    !.quantity = Amount(lines, k).q]
    BY <1>4 DEF After, Follow, Amount
  <2>2. After(lines, k) = [ingredient |-> c.ingredient, unit |-> c.unit,
                           quantity |-> Amount(lines, k).q, additive |-> l.additive]
    <3> HIDE DEF l, c
    <3> QED BY <1>1, <2>1 DEF IsDrinkLine
  <2>3. Category[c.ingredient] = FamilyAt(lines, k)
    BY <1>4, ChoiceIs DEF Told, ChoiceFor
  <2> HIDE DEF l, c
  <2>4. l.additive \in BOOLEAN
    BY <1>1 DEF IsDrinkLine
  <2>5. IsDrinkLine(After(lines, k))
    BY <2>2, <2>4 DEF IsDrinkLine
  <2>6. /\ After(lines, k).additive = l.additive /\ After(lines, k).ingredient = c.ingredient
        /\ After(lines, k).unit = c.unit /\ After(lines, k).quantity = Amount(lines, k).q
    BY <2>2
  <2> QED BY <1>4, <2>3, <2>5, <2>6 DEF l, c
<1> QED BY <1>2, <1>3, <1>4

(* What passes keep: whose extras there are, the families, the choices.    *)
LEMMA PassKeeps ==
    ASSUME NEW lines, IsDrink(lines), NEW families, NEW made, Passed(lines, families, made)
    PROVE  /\ IsDrink(made.lines) /\ DOMAIN made.lines = DOMAIN lines
           /\ \A k \in DOMAIN lines :
                 /\ made.lines[k] \in {lines[k], After(lines, k)}
                 /\ made.lines[k].additive = lines[k].additive
                 /\ FamilyAt(made.lines, k) = FamilyAt(lines, k)
                 /\ ~lines[k].additive => made.lines[k] = lines[k]
           /\ \A family : OwnLines(made.lines, family) = OwnLines(lines, family)
<1>1. DOMAIN made.lines = DOMAIN lines
  BY DEF Passed
<1>2. ASSUME NEW k \in DOMAIN lines
      PROVE  /\ made.lines[k] \in {lines[k], After(lines, k)}
             /\ IsDrinkLine(made.lines[k])
             /\ made.lines[k].additive = lines[k].additive
             /\ FamilyAt(made.lines, k) = FamilyAt(lines, k)
             /\ ~lines[k].additive => made.lines[k] = lines[k]
  <2>1. made.lines[k] = After(lines, k) \/ made.lines[k] = lines[k]
    BY DEF Passed
  <2>2. CASE made.lines[k] = lines[k]
    BY <2>2 DEF FamilyAt, IsDrink
  <2>3. CASE made.lines[k] = After(lines, k)
    <3>1. ~lines[k].additive => ~Told(lines, k)
      BY DEF Told
    <3> QED BY <2>3, <3>1, AfterIs DEF FamilyAt
  <2> QED BY <2>1, <2>2, <2>3
<1>3. IsDrink(made.lines)
  <2>1. made.lines = [k \in DOMAIN made.lines |-> made.lines[k]]
    BY DEF Passed
  <2> QED BY <1>1, <1>2, <2>1 DEF IsDrink
<1>4. ASSUME NEW family PROVE OwnLines(made.lines, family) = OwnLines(lines, family)
  BY <1>1, <1>2 DEF OwnLines, FamilyAt
<1> QED BY <1>1, <1>2, <1>3, <1>4

(* In lines made by a pass, what a pass makes of a line is that line: it   *)
(* names the choice already, or cannot.                                    *)
LEMMA AfterStays ==
    ASSUME NEW lines, IsDrink(lines), NEW families, NEW made, Passed(lines, families, made),
           NEW k \in DOMAIN lines, FamilyAt(lines, k) \in families
    PROVE  /\ ChoiceFor(made.lines, k) = ChoiceFor(lines, k) \/ OwnLines(lines, FamilyAt(lines, k)) = {}
           /\ Told(made.lines, k) =>
                 /\ Told(lines, k) /\ Amount(lines, k).error # None
                 /\ Amount(made.lines, k).error # None
                 /\ made.lines[k] = lines[k]
           /\ After(made.lines, k) = made.lines[k]
<1>1. /\ FamilyAt(made.lines, k) = FamilyAt(lines, k)
      /\ made.lines[k].additive = lines[k].additive
      /\ OwnLines(made.lines, FamilyAt(lines, k)) = OwnLines(lines, FamilyAt(lines, k))
  BY PassKeeps
<1>2. made.lines[k] = After(lines, k)
  BY DEF Passed
<1>3. ASSUME OwnLines(lines, FamilyAt(lines, k)) # {} PROVE ChoiceFor(made.lines, k) = ChoiceFor(lines, k)
  <2> DEFINE c == Min(OwnLines(lines, FamilyAt(lines, k)))
  <2>1. c \in DOMAIN lines /\ ~lines[c].additive
    BY <1>3, ChoiceIs
  <2> HIDE DEF c
  <2>2. made.lines[c] = lines[c]
    BY <2>1, PassKeeps
  <2> QED BY <1>1, <2>2 DEF ChoiceFor, c
<1>4. ASSUME Told(made.lines, k)
      PROVE  /\ Told(lines, k) /\ Amount(lines, k).error # None
             /\ Amount(made.lines, k).error # None
             /\ made.lines[k] = lines[k]
  <2>1. /\ lines[k].additive /\ OwnLines(lines, FamilyAt(lines, k)) # {}
        /\ made.lines[k].ingredient # ChoiceFor(lines, k).ingredient
    BY <1>1, <1>3, <1>4 DEF Told
  <2>2. Told(lines, k)
    <3> SUFFICES ASSUME ~Told(lines, k) PROVE FALSE
      OBVIOUS
    <3>1. made.lines[k] = lines[k]
      BY <1>2 DEF After
    <3> QED BY <2>1, <3>1 DEF Told
  <2>3. Amount(lines, k).error # None
    BY <1>2, <2>1, <2>2, AfterIs
  <2>4. made.lines[k] = lines[k]
    BY <1>2, <2>2, <2>3, AfterIs
  <2>5. Amount(made.lines, k) = Amount(lines, k)
    BY <1>3, <2>1, <2>4 DEF Amount
  <2> QED BY <2>2, <2>3, <2>4, <2>5
<1>5. After(made.lines, k) = made.lines[k]
  <2>1. CASE ~Told(made.lines, k)
    BY <2>1 DEF After
  <2>2. CASE Told(made.lines, k)
    <3>1. IsDrink(made.lines) /\ k \in DOMAIN made.lines
      BY PassKeeps
    <3> QED BY <1>4, <2>2, <3>1, AfterIs
  <2> QED BY <2>1, <2>2
<1> QED BY <1>3, <1>4, <1>5

(* One family of the pass.                                                 *)
LEMMA FamilyPasses ==
    ASSUME NEW lines, IsDrink(lines), 0 \notin DOMAIN lines,
           NEW families, NEW made, Passed(lines, families, made),
           NEW stuck, made = [lines |-> made.lines, stuck |-> stuck], NEW family
    PROVE  /\ Passed(lines, families \union {family}, FollowFamily(made, family))
           /\ \E s : FollowFamily(made, family)
                         = [lines |-> FollowFamily(made, family).lines, stuck |-> s]
<1> DEFINE at == ChoiceOf(made.lines, family)
           choice == made.lines[at]
           asked == { k \in DOMAIN made.lines : Follows(made.lines[k], family, choice) }
           told == [k \in DOMAIN made.lines |->
                      IF k \in asked THEN Follow(made.lines[k], choice) ELSE made.lines[k]]
           more == { k \in asked : Convert(made.lines[k].quantity, made.lines[k].unit,
                                          choice.unit).error # None }
           new == FollowFamily(made, family)
<1>1. /\ IsDrink(made.lines) /\ DOMAIN made.lines = DOMAIN lines
      /\ OwnLines(made.lines, family) = OwnLines(lines, family)
      /\ \A k \in DOMAIN lines : /\ made.lines[k].additive = lines[k].additive
                                 /\ FamilyAt(made.lines, k) = FamilyAt(lines, k)
  BY PassKeeps
<1>2. CASE OwnLines(lines, family) = {}
  <2>1. new = made
    BY <1>1, <1>2 DEF FollowFamily, ChoiceOf
  <2>2. \A k \in DOMAIN lines : FamilyAt(lines, k) = family => ~Told(lines, k)
    BY <1>2 DEF Told
  <2>3. Passed(lines, families \union {family}, made)
    BY <2>2 DEF Passed, After
  <2> QED BY <2>1, <2>3
<1>3. CASE OwnLines(lines, family) # {}
  <2>1. at = Min(OwnLines(lines, family)) /\ at \in DOMAIN lines /\ at # 0
        /\ ~lines[at].additive
    BY <1>1, <1>3, ChoiceIs DEF ChoiceOf
  <2>2. new = [lines |-> told, stuck |-> made.stuck \union more]
    BY <2>1 DEF FollowFamily
  <2>3. choice = lines[at]
    BY <2>1, PassKeeps
  <2>4. \A k \in DOMAIN lines : FamilyAt(lines, k) = family => choice = ChoiceFor(lines, k)
    BY <2>1, <2>3 DEF ChoiceFor
  <2>5. \A k \in DOMAIN lines :
           FamilyAt(lines, k) = family =>
               choice = ChoiceFor(made.lines, k) /\ (k \in asked <=> Told(made.lines, k))
    <3> TAKE k \in DOMAIN lines
    <3> HAVE FamilyAt(lines, k) = family
    <3>1. choice = ChoiceFor(made.lines, k)
      BY <1>1, <2>1 DEF ChoiceFor
    <3>2. k \in asked <=> Follows(made.lines[k], family, choice)
      BY <1>1
    <3> HIDE DEF choice, asked
    <3> QED BY <1>1, <1>3, <3>1, <3>2 DEF Follows, Told, FamilyAt
  <2>6. \A k \in DOMAIN lines : FamilyAt(lines, k) # family => k \notin asked
    BY <1>1 DEF Follows, FamilyAt
  <2>7. \A k \in asked : k \in DOMAIN lines
    BY <1>1
  <2>8. ASSUME NEW k \in DOMAIN lines
        PROVE  /\ told[k] = IF FamilyAt(lines, k) \in families \union {family}
                            THEN After(lines, k) ELSE lines[k]
               /\ (k \in made.stuck \/ k \in more) <=>
                     /\ FamilyAt(lines, k) \in families \union {family} /\ Told(lines, k)
                     /\ Amount(lines, k).error # None
    <3>0. told[k] = IF k \in asked THEN Follow(made.lines[k], choice) ELSE made.lines[k]
      BY <1>1
    <3>1. /\ made.lines[k] = IF FamilyAt(lines, k) \in families THEN After(lines, k) ELSE lines[k]
          /\ k \in made.stuck <=> /\ FamilyAt(lines, k) \in families /\ Told(lines, k)
                                 /\ Amount(lines, k).error # None
      BY DEF Passed
    <3>2. k \in more <=> k \in asked /\ Convert(made.lines[k].quantity, made.lines[k].unit,
                                                choice.unit).error # None
      OBVIOUS
    <3> HIDE DEF told, asked, more, choice
    <3>3. CASE FamilyAt(lines, k) # family
      BY <2>6, <3>0, <3>1, <3>2, <3>3
    <3>4. CASE FamilyAt(lines, k) = family
      <4>1. /\ k \in asked <=> Told(made.lines, k)
            /\ choice = ChoiceFor(made.lines, k) /\ choice = ChoiceFor(lines, k)
        BY <2>4, <2>5, <3>4
      <4>2. told[k] = After(made.lines, k)
        BY <3>0, <4>1 DEF After
      <4>3. k \in more <=> Told(made.lines, k) /\ Amount(made.lines, k).error # None
        BY <3>2, <4>1 DEF Amount
      <4>4. CASE FamilyAt(lines, k) \in families
        <5>1. told[k] = made.lines[k]
          BY <4>2, <4>4, AfterStays
        <5>2. k \in more => k \in made.stuck
          BY <3>1, <4>3, <4>4, AfterStays
        <5> QED BY <3>1, <4>4, <5>1, <5>2
      <4>5. CASE FamilyAt(lines, k) \notin families
        <5>1. made.lines[k] = lines[k]
          BY <3>1, <4>5
        <5>2. /\ Told(made.lines, k) <=> Told(lines, k)
              /\ Amount(made.lines, k) = Amount(lines, k)
              /\ After(made.lines, k) = After(lines, k)
          BY <1>1, <3>4, <4>1, <5>1 DEF Told, Amount, After, FamilyAt
        <5> QED BY <3>1, <3>4, <4>2, <4>3, <4>5, <5>2
      <4> QED BY <4>4, <4>5
    <3> QED BY <3>3, <3>4
  <2>9. told = [k \in DOMAIN lines |->
                  IF FamilyAt(lines, k) \in families \union {family} THEN After(lines, k) ELSE lines[k]]
    <3>1. told = [k \in DOMAIN lines |-> told[k]]
      BY <1>1
    <3> HIDE DEF told
    <3> QED BY <2>8, <3>1
  <2>10. made.stuck \union more
           = { k \in DOMAIN lines : /\ FamilyAt(lines, k) \in families \union {family}
                                    /\ Told(lines, k) /\ Amount(lines, k).error # None }
    <3>1. made.stuck \subseteq DOMAIN lines
      BY DEF Passed
    <3>2. more \subseteq DOMAIN lines
      BY <2>7
    <3> HIDE DEF more
    <3> QED BY <2>8, <3>1, <3>2
  <2> HIDE DEF told, more, asked, choice, at
  <2>11. new.lines = told /\ new.stuck = made.stuck \union more
    BY <2>2
  <2> HIDE DEF new
  <2>12. Passed(lines, families \union {family}, new)
    BY <2>9, <2>10, <2>11 DEF Passed
  <2> QED BY <2>2, <2>11, <2>12 DEF new
<1> QED BY <1>2, <1>3

(* The pass makes of every line of a following family what it is told.     *)
LEMMA DrinkPasses ==
    ASSUME NEW lines, IsDrink(lines), 0 \notin DOMAIN lines, NEW A, NEW families \in Seq(A)
    PROVE  Passed(lines, ToSet(families), FollowTheDrink(lines, families))
<1> DEFINE n == Len(families)
           base == [lines |-> lines, stuck |-> {}]
           seen(k) == { families[j] : j \in 1..k }
<1>1. PICK run : /\ Following!IsRun(None, None, None, base, families, run)
                 /\ FollowTheDrink(lines, families) = run[n]
  BY FollowingFold, Following!FoldIsRun
<1>2. run[0] = base /\ \A k \in 1..n : run[k] = FollowFamily(run[k - 1], families[k])
  BY <1>1 DEF Following!IsRun
<1> DEFINE Good(k) == /\ Passed(lines, seen(k), run[k])
                      /\ \E s : run[k] = [lines |-> run[k].lines, stuck |-> s]
           T == { k \in 0..n : Good(k) }
<1>3. n \in Nat /\ 0 \in T
  <2>1. seen(0) = {}
    OBVIOUS
  <2>2. lines = [k \in DOMAIN lines |-> lines[k]]
    BY DEF IsDrink
  <2>3. Passed(lines, {}, base)
    BY <2>2 DEF Passed
  <2>4. base.lines = lines /\ base = [lines |-> lines, stuck |-> {}]
    OBVIOUS
  <2> HIDE DEF base, seen
  <2>5. Good(0)
    BY <1>2, <2>1, <2>3, <2>4
  <2>6. n \in Nat /\ 0 \in 0..n
    OBVIOUS
  <2> HIDE DEF Good
  <2> QED BY <2>5, <2>6
<1>4. \A k \in 1..n : k - 1 \in T => k \in T
  <2> TAKE k \in 1..n
  <2> HAVE k - 1 \in T
  <2>1. Good(k - 1) /\ k \in 0..n
    <3>1. Good(k - 1)
      OBVIOUS
    <3>2. k \in 0..n
      <4> HIDE DEF n
      <4> QED BY <1>3
    <3> QED BY <3>1, <3>2
  <2>0. PICK s : run[k - 1] = [lines |-> run[k - 1].lines, stuck |-> s]
    BY <2>1
  <2>2. seen(k) = seen(k - 1) \union {families[k]}
    <3>1. \A j : j \in 1..k <=> (j \in 1..(k - 1) \/ j = k)
      BY <1>3
    <3> QED BY <3>1
  <2> DEFINE made == run[k - 1]
  <2>3. run[k] = FollowFamily(made, families[k])
    BY <1>2
  <2> HIDE DEF seen
  <2>4. Passed(lines, seen(k - 1), made)
    BY <2>1
  <2> HIDE DEF made
  <2>5. made = [lines |-> made.lines, stuck |-> s]
    BY <2>0 DEF made
  <2>6. /\ Passed(lines, seen(k - 1) \union {families[k]}, FollowFamily(made, families[k]))
        /\ \E r : FollowFamily(made, families[k])
                      = [lines |-> FollowFamily(made, families[k]).lines, stuck |-> r]
    BY <2>4, <2>5, FamilyPasses
  <2>7. Good(k)
    BY <2>2, <2>3, <2>6
  <2> HIDE DEF Good
  <2> QED BY <2>1, <2>7
<1> HIDE DEF T
<1>5. n \in T
  <2> HIDE DEF n
  <2>1. \A k \in 0..n : k \in T
    BY <1>3, <1>4, Upward
  <2> QED BY <1>3, <2>1
<1>6. seen(n) = ToSet(families)
  BY DEF ToSet
<1> QED BY <1>1, <1>5, <1>6 DEF T

(* The pass run again changes no line.                                     *)
LEMMA PassStands ==
    ASSUME NEW lines, IsDrink(lines), 0 \notin DOMAIN lines, NEW A, NEW families \in Seq(A)
    PROVE  LET made == FollowTheDrink(lines, families)
           IN  FollowTheDrink(made.lines, families).lines = made.lines
<1> DEFINE F == ToSet(families)
           made == FollowTheDrink(lines, families)
           again == FollowTheDrink(made.lines, families)
<1>1. Passed(lines, F, made)
  BY DrinkPasses
<1> HIDE DEF made
<1>2. IsDrink(made.lines) /\ DOMAIN made.lines = DOMAIN lines
      /\ \A k \in DOMAIN lines : FamilyAt(made.lines, k) = FamilyAt(lines, k)
  BY <1>1, PassKeeps
<1>3. Passed(made.lines, F, again)
  BY <1>2, DrinkPasses
<1> HIDE DEF F, again
<1>4. \A k \in DOMAIN lines : FamilyAt(lines, k) \in F => After(made.lines, k) = made.lines[k]
  BY <1>1, AfterStays
<1>5. again.lines = [k \in DOMAIN lines |-> made.lines[k]]
  BY <1>2, <1>3, <1>4 DEF Passed
<1>6. made.lines = [k \in DOMAIN lines |-> made.lines[k]]
  BY <1>2 DEF IsDrink
<1> QED BY <1>5, <1>6 DEF made, again

-----------------------------------------------------------------------------
(* The bar.                                                                *)
Rows == { row \in [ingredient : Ingredients, stored : Nat, yield : Int \union {None}, usable : Nat] : Saved(row) }
Extras == { e \in [ingredient : Ingredients, quantity : Nat, unit : Units] : e.unit \in UnitsOf(Unit[e.ingredient]) }

BarInv ==
    /\ recipe \in Seq(Rows) /\ extras \in Seq(Extras)
    /\ yields \in [Ingredients -> Int \union {None}]
    /\ picks \in Seq(STRING)

(* A line of the drink: its own, in the unit its ingredient is stocked in, *)
(* or an extra's, in a unit its ingredient may be typed in.                *)
Poured(l) ==
    /\ IsDrinkLine(l) /\ l.quantity \in Nat
    /\ ~l.additive => l.unit = Unit[l.ingredient] /\ l.unit \in DOMAIN UnitSpec
    /\ l.additive => l.unit \in UnitsOf(Unit[l.ingredient])

LEMMA DrinkIs ==
    ASSUME BarInv
    PROVE  /\ IsDrink(DrinkLines) /\ 0 \notin DOMAIN DrinkLines
           /\ \A k \in DOMAIN DrinkLines : Poured(DrinkLines[k])
<1> DEFINE f == [k \in DOMAIN recipe |-> [ingredient |-> recipe[k].ingredient, unit |-> Unit[recipe[k].ingredient],
                              quantity |-> recipe[k].stored, additive |-> FALSE]]
           g == [k \in DOMAIN extras |-> [ingredient |-> extras[k].ingredient, unit |-> extras[k].unit,
                                     quantity |-> extras[k].quantity, additive |-> TRUE]]
           L == { f[k] : k \in DOMAIN recipe } \union { g[k] : k \in DOMAIN extras }
<1>1. recipe \in Seq(Rows) /\ extras \in Seq(Extras)
  BY DEF BarInv
<1>2. \A k \in DOMAIN recipe : Poured(f[k])
  <2> TAKE k \in DOMAIN recipe
  <2> DEFINE row == recipe[k]
  <2>1. row \in Rows
    BY <1>1
  <2>2. Unit[row.ingredient] \in DOMAIN UnitSpec /\ row.stored \in Nat
    BY <2>1, SavedIs DEF Rows
  <2>3. f[k] = [ingredient |-> row.ingredient, unit |-> Unit[row.ingredient],
                quantity |-> row.stored, additive |-> FALSE]
    OBVIOUS
  <2> HIDE DEF f, row
  <2> QED BY <2>2, <2>3 DEF Poured, IsDrinkLine
<1>3. \A k \in DOMAIN extras : Poured(g[k])
  <2> TAKE k \in DOMAIN extras
  <2> DEFINE e == extras[k]
  <2>1. e \in Extras
    BY <1>1
  <2>2. e.quantity \in Nat /\ e.unit \in UnitsOf(Unit[e.ingredient])
    BY <2>1 DEF Extras
  <2>3. g[k] = [ingredient |-> e.ingredient, unit |-> e.unit, quantity |-> e.quantity, additive |-> TRUE]
    OBVIOUS
  <2> HIDE DEF g, e
  <2> QED BY <2>2, <2>3 DEF Poured, IsDrinkLine
<1>4. DOMAIN recipe = 1..Len(recipe) /\ DOMAIN extras = 1..Len(extras)
      /\ Len(recipe) \in Nat /\ Len(extras) \in Nat
  BY <1>1
<1>5. f \in Seq(L) /\ g \in Seq(L) /\ DrinkLines = f \o g
  <2>1. f \in [1..Len(recipe) -> L] /\ g \in [1..Len(extras) -> L]
    BY <1>4
  <2>2. DrinkLines = f \o g
    BY DEF DrinkLines
  <2> HIDE DEF f, g, L
  <2>3. f \in Seq(L)
    BY <1>4, <2>1
  <2>4. g \in Seq(L)
    BY <1>4, <2>1
  <2> QED BY <2>2, <2>3, <2>4
<1>6. \A l \in L : Poured(l)
  BY <1>2, <1>3
<1> HIDE DEF f, g, L
<1>7. DrinkLines \in Seq(L)
  BY <1>5
<1>8. /\ DOMAIN DrinkLines = 1..Len(DrinkLines) /\ Len(DrinkLines) \in Nat
      /\ DrinkLines = [k \in DOMAIN DrinkLines |-> DrinkLines[k]]
      /\ \A k \in DOMAIN DrinkLines : DrinkLines[k] \in L
  BY <1>7
<1> QED BY <1>6, <1>8 DEF IsDrink, Poured

(* The line a told extra follows is the drink's own.                       *)
LEMMA Followed ==
    ASSUME NEW lines, IsDrink(lines), \A k \in DOMAIN lines : Poured(lines[k]),
           NEW k \in DOMAIN lines, OwnLines(lines, FamilyAt(lines, k)) # {}
    PROVE  /\ ChoiceFor(lines, k).unit = Unit[ChoiceFor(lines, k).ingredient]
           /\ ChoiceFor(lines, k).unit \in DOMAIN UnitSpec
<1> DEFINE c == Min(OwnLines(lines, FamilyAt(lines, k)))
<1>1. c \in DOMAIN lines /\ ~lines[c].additive
  BY ChoiceIs
<1> QED BY <1>1 DEF ChoiceFor, Poured

LEMMA CupHolds ==
    ASSUME BarInv
    PROVE  CupIsItsRecipe
<1>1. EditorIsStable
  <2> SUFFICES ASSUME NEW k \in DOMAIN recipe, YieldFactor(recipe[k].yield) <= 100
               PROVE  /\ UsableQty(recipe[k].stored, recipe[k].yield) = recipe[k].usable
                      /\ RecipeBaseQty(UsableQty(recipe[k].stored, recipe[k].yield),
                                       Unit[recipe[k].ingredient], recipe[k].ingredient,
                                       recipe[k].yield).q = recipe[k].stored
    BY DEF EditorIsStable
  <2>1. Saved(recipe[k])
    BY DEF BarInv, Rows
  <2> QED BY <2>1, SavedStays
<1>2. ExtrasFollowTheCup
  <2> DEFINE lines == DrinkLines
             families == FamiliesOf(picks)
             F == ToSet(families)
             made == FollowTheDrink(lines, families)
             canonical(line) == line.quantity * UnitSpec[line.unit].factor
  <2>1. PICK A : families \in Seq(A)
    BY FamiliesAre DEF BarInv
  <2>2. IsDrink(lines) /\ 0 \notin DOMAIN lines /\ \A k \in DOMAIN lines : Poured(lines[k])
    BY DrinkIs
  <2> HIDE DEF lines, families
  <2>3. Passed(lines, F, made) /\ FollowTheDrink(made.lines, families).lines = made.lines
    BY <2>1, <2>2, DrinkPasses, PassStands
  <2> HIDE DEF F, made
  <2>4. DOMAIN made.lines = DOMAIN lines
    BY <2>3 DEF Passed
  <2>5. ASSUME NEW k \in DOMAIN made.lines
        PROVE  LET before == lines[k]
                   after == made.lines[k]
                   choices == OwnLines(lines, Category[before.ingredient])
               IN  IF ~(before.additive /\ Category[before.ingredient] \in F /\ choices # {})
                   THEN after = before
                   ELSE \/ after = before /\ k \in made.stuck
                        \/ /\ after.ingredient = lines[Min(choices)].ingredient
                           /\ after.ingredient # before.ingredient => after.unit = Unit[after.ingredient]
                           /\ 2 * Distance(canonical(after), canonical(before))
                                   <= UnitSpec[after.unit].factor
    <3> DEFINE before == lines[k]
               after == made.lines[k]
               choices == OwnLines(lines, Category[before.ingredient])
               c == ChoiceFor(lines, k)
    <3>1. /\ k \in DOMAIN lines /\ Poured(before)
          /\ FamilyAt(lines, k) = Category[before.ingredient]
          /\ c = lines[Min(choices)]
      BY <2>2, <2>4 DEF FamilyAt, ChoiceFor
    <3>2. after = IF Category[before.ingredient] \in F THEN After(lines, k) ELSE before
      BY <2>3, <3>1 DEF Passed
    <3>3. CASE ~(before.additive /\ Category[before.ingredient] \in F /\ choices # {})
      <4>1. Category[before.ingredient] \in F => After(lines, k) = before
        BY <3>1, <3>3 DEF After, Told
      <4> QED BY <3>2, <3>3, <4>1
    <3>4. CASE before.additive /\ Category[before.ingredient] \in F /\ choices # {}
      <4>1. c.unit = Unit[c.ingredient] /\ c.unit \in DOMAIN UnitSpec
        BY <2>2, <3>1, <3>4, Followed
      <4>2. CASE ~Told(lines, k)
        <5>1. after = before /\ before.ingredient = c.ingredient
          BY <3>1, <3>2, <3>4, <4>2, <2>2, AfterIs DEF Told
        <5>2. before.unit \in DOMAIN UnitSpec /\ before.quantity \in Nat
          <6>1. before.unit \in UnitsOf(Unit[before.ingredient]) /\ before.quantity \in Nat
            BY <3>1, <3>4 DEF Poured
          <6> HIDE DEF before, c
          <6> QED BY <4>1, <5>1, <6>1 DEF UnitsOf
        <5>3. UnitSpec[before.unit].factor \in Nat
          BY <5>2, UnitFactor
        <5> HIDE DEF before, after
        <5>4. canonical(after) = canonical(before) /\ canonical(after) \in Nat
          BY <5>1, <5>2, <5>3
        <5> HIDE DEF canonical
        <5>5. Distance(canonical(after), canonical(before)) = 0
          BY <5>4 DEF Distance
        <5> QED BY <3>1, <3>4, <5>1, <5>3, <5>5 DEF before, after
      <4>3. CASE Told(lines, k) /\ Amount(lines, k).error # None
        <5>1. after = before
          BY <2>2, <3>1, <3>2, <3>4, <4>3, AfterIs
        <5>2. k \in made.stuck
          BY <2>3, <3>1, <3>4, <4>3 DEF Passed
        <5> QED BY <3>4, <5>1, <5>2
      <4>4. CASE Told(lines, k) /\ Amount(lines, k).error = None
        <5> DEFINE q == Amount(lines, k).q
                   from == UnitSpec[before.unit].factor
                   to == UnitSpec[c.unit].factor
                   n == before.quantity * from
        <5>1. after.ingredient = c.ingredient /\ after.unit = c.unit /\ after.quantity = q
          BY <2>2, <3>1, <3>2, <3>4, <4>4, AfterIs
        <5>2. before.quantity \in Nat
          BY <3>1 DEF Poured
        <5>3. before.unit \in DOMAIN UnitSpec /\ q = RoundHalfAway(n, to)
          BY <4>4, <5>2, Converted DEF Amount
        <5>4. from \in Nat \ {0} /\ to \in Nat \ {0}
          BY <4>1, <5>3, UnitFactor
        <5> HIDE DEF from, to
        <5>5. n \in Nat
          BY <5>2, <5>4
        <5> HIDE DEF n
        <5>6. q \in Nat /\ 2 * (to * q) <= 2 * n + to /\ 2 * n < 2 * (to * q) + to
          BY <5>3, <5>4, <5>5, RoundNear
        <5> HIDE DEF q
        <5>7. canonical(after) = q * to /\ canonical(before) = n
          BY <5>1 DEF to, n, from
        <5>8. q * to \in Nat /\ to * q = q * to
          BY <5>4, <5>6
        <5> DEFINE w == q * to
        <5> HIDE DEF w, canonical
        <5>9. 2 * Distance(w, n) <= to
          BY <5>4, <5>5, <5>6, <5>8 DEF Distance, w
        <5>10. UnitSpec[after.unit].factor = to
          BY <5>1 DEF to
        <5> QED BY <3>1, <3>4, <4>1, <5>1, <5>7, <5>9, <5>10 DEF w
      <4> QED BY <4>2, <4>3, <4>4
    <3> QED BY <3>3, <3>4
  <2>6. \A k \in DOMAIN made.lines :
           LET before == lines[k]
               after == made.lines[k]
               choices == OwnLines(lines, Category[before.ingredient])
           IN  IF ~(before.additive /\ Category[before.ingredient] \in F /\ choices # {})
               THEN after = before
               ELSE \/ after = before /\ k \in made.stuck
                    \/ /\ after.ingredient = lines[Min(choices)].ingredient
                       /\ after.ingredient # before.ingredient => after.unit = Unit[after.ingredient]
                       /\ 2 * Distance(canonical(after), canonical(before))
                               <= UnitSpec[after.unit].factor
    BY <2>5
  <2> QED BY <2>3, <2>6 DEF ExtrasFollowTheCup, lines, families, F, made
<1> QED BY <1>1, <1>2 DEF CupIsItsRecipe

-----------------------------------------------------------------------------
(* The store.                                                              *)

(* Lines whose cost, where there is one, and quantity are naturals.        *)
Priced(lines) ==
    /\ \E S : lines \in Seq(S)
    /\ \A k \in DOMAIN lines : lines[k].q \in Nat /\ lines[k].cost \in Nat \union {None}

LEMMA KnownIs ==
    ASSUME NEW lines, Priced(lines)
    PROVE  /\ IsFiniteSet(Known(lines)) /\ Known(lines) \subseteq DOMAIN lines
           /\ Cardinality(Known(lines)) < Len(lines) <=> Known(lines) # DOMAIN lines
           /\ ExactCost(lines) \in Nat
<1> DEFINE K == Known(lines)
           n == Len(lines)
<1>1. n \in Nat /\ DOMAIN lines = 1..n
  BY DEF Priced
<1>2. K \in SUBSET (1..n)
  BY <1>1 DEF Known
<1> HIDE DEF K, n
<1>3. IsFiniteSet(1..n) /\ Cardinality(1..n) = n
  BY <1>1, FS_Interval
<1>4. /\ IsFiniteSet(K) /\ Cardinality(K) <= n
      /\ n = Cardinality(K) => 1..n = K
  BY <1>2, <1>3, FS_Subset
<1>5. Cardinality(K) \in Nat
  BY <1>4, FS_CardinalityType
<1>6. Cardinality(K) < n <=> K # 1..n
  BY <1>1, <1>3, <1>4, <1>5
<1>7. ExactCost(lines) \in Nat
  <2> DEFINE f == [k \in K |-> lines[k].q * lines[k].cost]
  <2>1. \A k \in K : f[k] \in Nat
    BY <1>1, <1>2 DEF Priced, Known, K
  <2>2. ExactCost(lines) = SumFunctionOnSet(f, K)
    BY DEF ExactCost, K
  <2> HIDE DEF f
  <2> QED BY <1>4, <2>1, <2>2, SumNat
<1> QED BY <1>1, <1>2, <1>4, <1>6, <1>7 DEF K, n

LEMMA PiastresAre ==
    ASSUME NEW lines, Priced(lines)
    PROVE  RecipeCost(lines).piastres \in Nat
<1>1. ExactCost(lines) \in Nat
  BY KnownIs
<1> QED BY <1>1, RoundNear DEF RecipeCost

(* What some lines are worth against what as many of them cost.            *)
LEMMA WorthIsCost ==
    ASSUME NEW lines, Priced(lines), NEW units \in Nat \ {0}, NEW scaled, Priced(scaled),
           DOMAIN scaled = DOMAIN lines, Len(scaled) = Len(lines),
           \A k \in DOMAIN lines : scaled[k].cost = lines[k].cost /\ scaled[k].q = lines[k].q * units,
           NEW worth \in ValueOf(scaled), ~worth.bad
    PROVE  LET cost == RecipeCost(lines)
           IN  /\ worth.partial <=> ~cost.complete
               /\ worth.value # None =>
                     IF units = 1 THEN OneCosts(lines, worth.value)
                     ELSE 2 * Distance(worth.value, units * cost.piastres) <= units + 1
<1> DEFINE K == Known(lines)
           s == ExactCost(lines)
<1>1. Known(scaled) = K
  BY DEF Known
<1>2. /\ worth.partial = (Cardinality(Known(scaled)) < Len(scaled))
      /\ worth.value # None => worth.value \in FloatRounded(ExactCost(scaled), 100000)
  <2> DEFINE few == Cardinality(Known(scaled)) < Len(scaled)
             values == IF Known(scaled) = {} THEN {None} ELSE FloatRounded(ExactCost(scaled), 100000)
  <2>1. \/ worth = [bad |-> TRUE, value |-> None, partial |-> FALSE]
        \/ worth \in { [bad |-> FALSE, partial |-> few, value |-> v] : v \in values }
    BY DEF ValueOf
  <2> HIDE DEF few, values
  <2>2. worth.partial = few /\ worth.value \in values
    BY <2>1
  <2>3. values = {None} \/ values = FloatRounded(ExactCost(scaled), 100000)
    BY DEF values
  <2> QED BY <2>2, <2>3 DEF few
<1>3. worth.partial <=> ~RecipeCost(lines).complete
  <2>1. Cardinality(K) < Len(lines) <=> K # DOMAIN lines
    BY KnownIs
  <2>2. worth.partial <=> Cardinality(K) < Len(lines)
    <3> DEFINE few == Cardinality(Known(scaled)) < Len(scaled)
    <3>1. few <=> Cardinality(K) < Len(lines)
      BY <1>1
    <3> HIDE DEF few, K
    <3>2. few \in BOOLEAN
      BY DEF few
    <3>3. worth.partial = few
      BY <1>2 DEF few
    <3> QED BY <3>1, <3>2, <3>3
  <2>3. RecipeCost(lines).complete <=> K = DOMAIN lines
    <3> DEFINE all == Known(lines) = DOMAIN lines
    <3>1. RecipeCost(lines) = [piastres |-> RoundHalfAway(ExactCost(lines), 100000), complete |-> all]
      BY DEF RecipeCost
    <3>2. all \in BOOLEAN
      OBVIOUS
    <3> HIDE DEF all
    <3>3. RecipeCost(lines).complete = all
      BY <3>1
    <3> QED BY <3>2, <3>3 DEF all
  <2> HIDE DEF K
  <2> QED BY <2>1, <2>2, <2>3
<1>4. s \in Nat /\ IsFiniteSet(K) /\ K \subseteq DOMAIN lines
  BY KnownIs
<1>5. ExactCost(scaled) = units * s
  <2> DEFINE f == [k \in K |-> lines[k].q * lines[k].cost]
             g == [k \in K |-> scaled[k].q * scaled[k].cost]
  <2>1. \A k \in K : f[k] \in Int /\ g[k] = units * f[k]
    <3> TAKE k \in K
    <3> DEFINE q == lines[k].q
               cost == lines[k].cost
    <3>1. q \in Nat /\ cost \in Nat
      BY <1>4 DEF Priced, Known
    <3>2. f[k] = q * cost /\ g[k] = (q * units) * cost
      BY <1>4
    <3> HIDE DEF q, cost, f, g
    <3>3. q * cost \in Nat /\ (q * units) * cost = units * (q * cost)
      BY <3>1
    <3> QED BY <3>2, <3>3
  <2>2. s = SumFunctionOnSet(f, K) /\ ExactCost(scaled) = SumFunctionOnSet(g, K)
    BY <1>1 DEF ExactCost
  <2> HIDE DEF f, g, s, K
  <2>3. units \in Int
    OBVIOUS
  <2>4. SumFunctionOnSet(g, K) = units * SumFunctionOnSet(f, K)
    BY <1>4, <2>1, <2>3, SumTimes
  <2> QED BY <2>2, <2>4
<1>6. RecipeCost(lines).piastres = RoundHalfAway(s, 100000)
  BY DEF RecipeCost
<1> HIDE DEF s
<1>7. worth.value # None => worth.value \in FloatRounded(units * s, 100000)
  BY <1>2, <1>5
<1>8. ASSUME worth.value # None
      PROVE  IF units = 1 THEN OneCosts(lines, worth.value)
             ELSE 2 * Distance(worth.value, units * RecipeCost(lines).piastres) <= units + 1
  <2>1. CASE units = 1
    <3>1. worth.value \in FloatRounded(s, 100000)
      <4>1. units * s = s
        BY <1>4, <2>1
      <4> QED BY <1>7, <1>8, <4>1
    <3> QED BY <1>6, <2>1, <3>1 DEF OneCosts, FloatRounded, s
  <2>2. CASE units # 1
    <3> DEFINE d == 100000
    <3>1. d \in Nat \ {0}
      OBVIOUS
    <3>2. worth.value \in FloatRounded(units * s, d) /\ RecipeCost(lines).piastres = RoundHalfAway(s, d)
      BY <1>6, <1>7, <1>8
    <3> HIDE DEF d
    <3>3. 2 * Distance(worth.value, units * RoundHalfAway(s, d)) <= units + 1
      BY <1>4, <3>1, <3>2, RoundedTimes
    <3> QED BY <2>2, <3>2, <3>3
  <2> QED BY <2>1, <2>2
<1> QED BY <1>3, <1>8

(* A recipe's own lines are priced.                                        *)
LEMMA RecipePriced ==
    ASSUME BarInv
    PROVE  /\ Priced(CostLines) /\ DOMAIN CostLines = DOMAIN recipe
           /\ \A k \in DOMAIN recipe :
                 CostLines[k] = [q |-> recipe[k].stored, cost |-> Cost[recipe[k].ingredient]]
<1> DEFINE S == { CostLines[k] : k \in DOMAIN recipe }
           n == Len(recipe)
<1>1. n \in Nat /\ DOMAIN recipe = 1..n /\ \A k \in DOMAIN recipe : recipe[k] \in Rows
  BY DEF BarInv
<1>2. CostLines = [k \in DOMAIN recipe |-> [q |-> recipe[k].stored, cost |-> Cost[recipe[k].ingredient]]]
  BY DEF CostLines
<1>3. CostLines \in Seq(S)
  <2>1. CostLines \in [1..n -> S]
    BY <1>1, <1>2
  <2> HIDE DEF S, n
  <2> QED BY <1>1, <2>1
<1>4. \A k \in DOMAIN recipe : recipe[k].stored \in Nat /\ Cost[recipe[k].ingredient] \in Nat \union {None}
  BY <1>1, RoomAssumption DEF Rows
<1> QED BY <1>2, <1>3, <1>4 DEF Priced

LEMMA BadgesHold ==
    ASSUME BarInv
    PROVE  BadgesAgree
<1> DEFINE cost == RecipeCost(CostLines).piastres
           margin == Margin(Price, cost)
           band == FoodCostBand(cost, Price)
<1>1. Priced(CostLines)
  BY RecipePriced
<1>2. cost \in Nat
  BY <1>1, PiastresAre
<1>3. Price \in Int
  BY RoomAssumption
<1> HIDE DEF cost
<1>4. ASSUME Price > 0
      PROVE  /\ band = "good" <=> 10 * margin[1] > 7 * margin[2]
             /\ band = "poor" <=> 10 * margin[1] < 6 * margin[2]
  <2>1. margin[1] = Price - cost /\ margin[2] = Price
    BY <1>2, <1>3, <1>4 DEF Margin
  <2>2. band = IF cost * 100 < 30 * Price THEN "good"
               ELSE IF cost * 100 <= 40 * Price THEN "fair" ELSE "poor"
    BY <1>2, <1>3, <1>4 DEF FoodCostBand
  <2>3. band = "good" <=> cost * 100 < 30 * Price
    BY <2>2
  <2>4. band = "poor" <=> ~(cost * 100 < 30 * Price) /\ ~(cost * 100 <= 40 * Price)
    BY <2>2
  <2> HIDE DEF band, margin
  <2> QED BY <1>2, <1>3, <1>4, <2>1, <2>3, <2>4
<1> QED BY <1>4 DEF BadgesAgree, cost

(* A purchase line that was taken.                                         *)
Placed(o) ==
    \E typed \in OrderAmounts : \E line, unit \in Invoices :
        o = LineCosts(typed, line, unit) /\ o.error = None

(* A quantity as the column stores it.                                     *)
LEMMA TypedIs ==
    ASSUME NEW typed \in OrderAmounts
    PROVE  QuantityDec(typed) \in Nat
<1>1. typed \in Nat /\ 10 \in Nat \ {0}
  BY RoomAssumption
<1> QED BY <1>1, RoundNear DEF QuantityDec

LEMMA PlacedIs ==
    ASSUME NEW o, Placed(o)
    PROVE  /\ o.quantity \in Nat /\ o.line \in Nat
           /\ o.quantity < 1000 * CostGrain
                 => RoundHalfAway(o.unit * o.quantity, 1000 * CostGrain) = o.line
<1>1. PICK typed \in OrderAmounts, line \in Invoices, unit \in Invoices :
          o = LineCosts(typed, line, unit) /\ o.error = None
  BY DEF Placed
<1> DEFINE q == QuantityDec(typed)
           grain == 1000 * CostGrain
<1>2. typed \in Nat /\ line \in Int \union {None} /\ unit \in Int \union {None}
      /\ CostGrain \in Nat \ {0}
  BY RoomAssumption
<1>3. q \in Nat /\ grain \in Nat \ {0}
  BY <1>2, TypedIs
<1> HIDE DEF q
<1>4. PurchaseError(line, unit) = None
  <2> SUFFICES ASSUME PurchaseError(line, unit) # None PROVE FALSE
    OBVIOUS
  <2>1. o.error = PurchaseError(line, unit)
    BY <1>1 DEF LineCosts
  <2> QED BY <1>1, <2>1
<1>5. CASE line # None
  <2>1. line \in Nat
    <3>1. "negative_line_cost" # None
      BY NoneIs DEF Reasons
    <3> QED BY <1>2, <1>4, <1>5, <3>1 DEF PurchaseError
  <2>2. ~(q <= 0)
    <3> SUFFICES ASSUME q <= 0 PROVE FALSE
      OBVIOUS
    <3>1. o = [error |-> "quantity_not_positive"]
      BY <1>1, <1>4, <1>5 DEF LineCosts, q
    <3>2. o.error = "quantity_not_positive"
      BY <3>1
    <3> QED BY <1>1, <3>2, NoneIs DEF Reasons
  <2> DEFINE per == RoundHalfEven(line * 1000 * CostGrain, q)
  <2>3. o = [error |-> None, quantity |-> q, line |-> line, unit |-> per]
    BY <1>1, <1>4, <1>5, <2>2 DEF LineCosts, q
  <2>4. per = RoundHalfEven(line * grain, q)
    <3>1. line * 1000 * CostGrain = line * grain
      BY <1>2, <2>1
    <3> QED BY <3>1
  <2> HIDE DEF per
  <2>5. o.quantity = q /\ o.line = line /\ o.unit = per
    BY <2>3
  <2>6. q < grain => RoundHalfAway(per * q, grain) = line
    <3> HIDE DEF grain
    <3> QED BY <1>3, <2>1, <2>2, <2>4, TotalFromUnit
  <2> QED BY <1>3, <2>1, <2>5, <2>6
<1>6. CASE line = None
  <2>1. unit \in Nat
    <3>1. "negative_unit_cost" # None /\ "no_cost" # None
      BY NoneIs DEF Reasons
    <3> QED BY <1>2, <1>4, <1>6, <3>1 DEF PurchaseError
  <2> DEFINE n == unit * q
             total == RoundHalfAway(n, 1000)
  <2>2. o = [error |-> None, quantity |-> q, line |-> total, unit |-> unit * CostGrain]
    BY <1>1, <1>4, <1>6 DEF LineCosts, q
  <2>3. n \in Nat
    BY <1>3, <2>1
  <2>4. (unit * CostGrain) * q = n * CostGrain
    BY <1>2, <1>3, <2>1
  <2>5. o.quantity = q /\ o.line = total /\ o.unit = unit * CostGrain
    BY <2>2
  <2> HIDE DEF n
  <2>6. total \in Nat
    BY <2>3, RoundNear
  <2>7. RoundHalfAway(n * CostGrain, 1000 * CostGrain) = total
    BY <1>2, <2>3, RoundScaled
  <2> HIDE DEF total
  <2> QED BY <1>3, <2>4, <2>5, <2>6, <2>7
<1> QED BY <1>5, <1>6

(* A delivery: with no invoice of its own, its part of the ordered line.   *)
Received(r, o) ==
    /\ r.q \in Nat
    /\ ~r.invoiced /\ o.quantity > 0 => r.cost = <<o.line * r.q, o.quantity>>

Explained(count) ==
    \/ count.reason \/ count.counted = count.book
    \/ /\ count.book # 0
       /\ Distance(count.counted, count.book) * 100000 < Distance(count.book, 0) * Threshold

StoreInv ==
    /\ order # None => Placed(order)
    /\ order = None => received = <<>>
    /\ \E R : received \in Seq(R) /\ \A r \in R : order # None /\ Received(r, order)
    /\ shelf \in Int
    /\ \E C : counts \in Seq(C) /\ \A count \in C : Explained(count)
    /\ \E W : wastes \in Seq(W) /\ \A waste \in W : WorthItsCost(waste)

LEMMA OrdersHold ==
    ASSUME StoreInv
    PROVE  OrderedCostIsKept
<1> DEFINE came == DOMAIN received
           f == [d \in came |-> received[d].q]
           g == [d \in came |-> (received[d].cost[1] * order.quantity) \div received[d].cost[2]]
           all == SumFunctionOnSet(f, came)
           paid == SumFunctionOnSet(g, came)
<1> SUFFICES ASSUME order # None
             PROVE  /\ order.quantity < 1000 * CostGrain =>
                           RoundHalfAway(order.unit * order.quantity, 1000 * CostGrain) = order.line
                    /\ order.quantity > 0 /\ all = order.quantity
                           /\ (\A d \in came : ~received[d].invoiced)
                           => paid = order.line * order.quantity
  BY DEF OrderedCostIsKept
<1>1. /\ order.quantity \in Nat /\ order.line \in Nat
      /\ order.quantity < 1000 * CostGrain
             => RoundHalfAway(order.unit * order.quantity, 1000 * CostGrain) = order.line
  BY PlacedIs DEF StoreInv
<1>2. ASSUME order.quantity > 0, all = order.quantity, \A d \in came : ~received[d].invoiced
      PROVE  paid = order.line * order.quantity
  <2> DEFINE n == Len(received)
  <2>1. PICK R : received \in Seq(R) /\ \A r \in R : Received(r, order)
    BY DEF StoreInv
  <2>2. came = 1..n /\ n \in Nat
    BY <2>1
  <2>3. IsFiniteSet(came)
    BY <2>2, FS_Interval
  <2>4. \A d \in came : f[d] \in Int /\ g[d] = order.line * f[d]
    <3> TAKE d \in came
    <3>1. received[d].q \in Nat /\ received[d].cost = <<order.line * received[d].q, order.quantity>>
      BY <1>2, <2>1 DEF Received
    <3> DEFINE a == order.line * received[d].q
    <3>2. g[d] = (a * order.quantity) \div order.quantity /\ f[d] = received[d].q
      BY <3>1
    <3>3. a \in Nat
      BY <1>1, <3>1
    <3> HIDE DEF a, f, g
    <3>4. (a * order.quantity) \div order.quantity = a
      BY <1>1, <1>2, <3>3
    <3> QED BY <3>1, <3>2, <3>4 DEF a
  <2> HIDE DEF f, g, came
  <2>5. SumFunctionOnSet(g, came) = order.line * SumFunctionOnSet(f, came)
    BY <1>1, <2>3, <2>4, SumTimes
  <2> QED BY <1>2, <2>5
<1> QED BY <1>1, <1>2

LEMMA StoreHolds ==
    ASSUME BarInv, StoreInv
    PROVE  StoreIsAccounted
<1>1. WasteIsWorthItsCost
  BY DEF StoreInv, WasteIsWorthItsCost
<1>2. BadgesAgree
  BY BadgesHold
<1>3. OrderedCostIsKept
  BY OrdersHold
<1>4. CountsExplained
  BY DEF StoreInv, CountsExplained, Explained
<1> QED BY <1>1, <1>2, <1>3, <1>4 DEF StoreIsAccounted

-----------------------------------------------------------------------------
(* The steps.                                                              *)
RoomInv == BarInv /\ StoreInv

LEMMA StoreUntouched ==
    ASSUME StoreInv, UNCHANGED <<storeVars, wastes>>
    PROVE  StoreInv'
BY DEF StoreInv, storeVars

LEMMA RoomStarts == RoomInit => RoomInv
<1> SUFFICES ASSUME RoomInit PROVE RoomInv
  OBVIOUS
<1>1. BarInv
  BY RoomAssumption DEF RoomInit, BarInv
<1>2. StoreInv
  <2>1. <<>> \in Seq({})
    OBVIOUS
  <2>2. received \in Seq({}) /\ counts \in Seq({}) /\ wastes \in Seq({})
    BY <2>1 DEF RoomInit
  <2>3. \E R : received \in Seq(R) /\ \A r \in R : order # None /\ Received(r, order)
    BY <2>2
  <2>4. \E C : counts \in Seq(C) /\ \A count \in C : Explained(count)
    BY <2>2
  <2>5. \E W : wastes \in Seq(W) /\ \A waste \in W : WorthItsCost(waste)
    BY <2>2
  <2>6. order = None /\ received = <<>> /\ shelf \in Int
    BY DEF RoomInit
  <2> QED BY <2>3, <2>4, <2>5, <2>6 DEF StoreInv
<1> QED BY <1>1, <1>2 DEF RoomInv

(* What the editor saves is saved.                                         *)
LEMMA LineSaved ==
    ASSUME BarInv, NEW i \in Ingredients, NEW q \in Nat, NEW unit, Saves(i, q, unit)
    PROVE  Line(i, q, unit) \in Rows
<1> DEFINE row == Line(i, q, unit)
<1>1. /\ row.ingredient = i /\ row.yield = yields[i]
      /\ row.stored = RecipeBaseQty(q, unit, i, yields[i]).q
      /\ row.usable = ConvertWithDensity(q, unit, Unit[i], Density[i]).q
      /\ row = [ingredient |-> row.ingredient, stored |-> row.stored, yield |-> row.yield,
                usable |-> row.usable]
  BY DEF Line
<1>2. yields[i] \in Int \union {None}
  BY DEF BarInv
<1>3. RecipeBaseQty(q, unit, i, yields[i]).error = None /\ RecipeBaseQty(q, unit, i, yields[i]).q > 0
  BY DEF Saves
<1> HIDE DEF row
<1>4. Saved(row)
  BY <1>1, <1>2, <1>3 DEF Saved
<1>5. row.stored \in Nat /\ row.usable \in Nat
  BY <1>4, SavedIs
<1> QED BY <1>1, <1>2, <1>4, <1>5 DEF Rows, row

LEMMA WriteLineKeeps ==
    ASSUME RoomInv, NEW i \in Ingredients, NEW q \in Amounts, NEW unit \in Units, WriteLine(i, q, unit)
    PROVE  RoomInv'
<1>1. BarInv'
  <2>1. q \in Nat
    BY RoomAssumption
  <2>2. Line(i, q, unit) \in Rows
    BY <2>1, LineSaved DEF RoomInv, WriteLine
  <2> QED BY <2>2 DEF RoomInv, BarInv, WriteLine
<1>2. StoreInv'
  BY StoreUntouched DEF RoomInv, WriteLine
<1> QED BY <1>1, <1>2 DEF RoomInv

LEMMA CopyLineKeeps ==
    ASSUME RoomInv, NEW k \in DOMAIN recipe, NEW factor \in Factors, CopyLine(k, factor)
    PROVE  RoomInv'
<1> DEFINE i == recipe[k].ingredient
           usable == UsableQty(recipe[k].stored, yields[i])
           shown == ScaleQty(usable, factor)
<1>1. BarInv'
  <2>1. recipe[k] \in Rows
    BY DEF RoomInv, BarInv
  <2>2. recipe[k].stored \in Nat /\ i \in Ingredients
    BY <2>1 DEF Rows
  <2>3. yields[i] \in Int \union {None}
    BY <2>2 DEF RoomInv, BarInv
  <2>4. usable \in Nat
    <3>1. YieldFactor(yields[i]) \in Nat
      BY <2>3, YieldIs
    <3>2. recipe[k].stored * YieldFactor(yields[i]) \in Int /\ 100 \in Int
      BY <2>2, <3>1
    <3> QED BY <3>2, RoundType DEF UsableQty
  <2> HIDE DEF usable
  <2>5. shown \in Nat
    <3>1. usable * factor[1] \in Int /\ factor[2] \in Int
      BY <2>4, RoomAssumption
    <3> QED BY <3>1, RoundType DEF ScaleQty
  <2>6. Saves(i, shown, Unit[i]) /\ recipe' = [recipe EXCEPT ![k] = Line(i, shown, Unit[i])]
    BY DEF CopyLine, usable
  <2> HIDE DEF shown, i
  <2>7. Line(i, shown, Unit[i]) \in Rows
    BY <2>2, <2>5, <2>6, LineSaved DEF RoomInv
  <2> QED BY <2>6, <2>7 DEF RoomInv, BarInv, CopyLine
<1>2. StoreInv'
  BY StoreUntouched DEF RoomInv, CopyLine
<1> QED BY <1>1, <1>2 DEF RoomInv

LEMMA SetYieldKeeps ==
    ASSUME RoomInv, NEW i \in Ingredients, NEW yield \in Yields, SetYield(i, yield)
    PROVE  RoomInv'
<1>1. BarInv'
  BY RoomAssumption DEF RoomInv, BarInv, SetYield
<1>2. StoreInv'
  BY StoreUntouched DEF RoomInv, SetYield
<1> QED BY <1>1, <1>2 DEF RoomInv

LEMMA AddExtraKeeps ==
    ASSUME RoomInv, NEW i \in Ingredients, NEW q \in Amounts, NEW unit \in Units, AddExtra(i, q, unit)
    PROVE  RoomInv'
<1>1. BarInv'
  <2> DEFINE e == [ingredient |-> i, quantity |-> q, unit |-> unit]
  <2>1. e \in Extras
    BY RoomAssumption DEF Extras, AddExtra
  <2>2. extras' = Append(extras, e)
    BY DEF AddExtra
  <2> HIDE DEF e
  <2> QED BY <2>1, <2>2 DEF RoomInv, BarInv, AddExtra
<1>2. StoreInv'
  BY StoreUntouched DEF RoomInv, AddExtra
<1> QED BY <1>1, <1>2 DEF RoomInv

(* A waste worth its cost is one more of them.                             *)
LEMMA WastesKeep ==
    ASSUME StoreInv, NEW waste, WorthItsCost(waste)
    PROVE  \E W : Append(wastes, waste) \in Seq(W) /\ \A w \in W : WorthItsCost(w)
<1>1. PICK W : wastes \in Seq(W) /\ \A w \in W : WorthItsCost(w)
  BY DEF StoreInv
<1> DEFINE V == W \union {waste}
<1>2. Append(wastes, waste) \in Seq(V)
  <2>1. wastes \in Seq(V) /\ waste \in V
    BY <1>1
  <2> HIDE DEF V
  <2> QED BY <2>1
<1>3. \A w \in V : WorthItsCost(w)
  BY <1>1
<1> QED BY <1>2, <1>3

LEMMA WasteDrinkKeeps ==
    ASSUME RoomInv, NEW q \in Amounts, NEW unit, WasteDrink(q, unit)
    PROVE  RoomInv'
<1> DEFINE n == q \div 1000
           lines == [k \in DOMAIN CostLines |-> [CostLines[k] EXCEPT !.q = @ * n]]
<1>1. BarInv'
  BY DEF RoomInv, BarInv, WasteDrink, barVars
<1>2. n \in Nat \ {0}
  BY RoomAssumption DEF WasteDrink, CheckQuantity, CheckMenuItem
<1>3. /\ Priced(CostLines)
      /\ \A k \in DOMAIN CostLines :
            CostLines[k] = [q |-> recipe[k].stored, cost |-> Cost[recipe[k].ingredient]]
  BY RecipePriced DEF RoomInv
<1> HIDE DEF n
<1>4. /\ DOMAIN lines = DOMAIN CostLines
      /\ \A k \in DOMAIN CostLines :
            lines[k].cost = CostLines[k].cost /\ lines[k].q = CostLines[k].q * n
  BY <1>3
<1>5. Priced(lines) /\ Len(lines) = Len(CostLines)
  <2> DEFINE S == { lines[k] : k \in DOMAIN lines }
             m == Len(CostLines)
  <2>1. m \in Nat /\ DOMAIN CostLines = 1..m
    BY <1>3 DEF Priced
  <2>2. lines \in [1..m -> S]
    BY <2>1
  <2>3. \A k \in DOMAIN lines : lines[k].q \in Nat /\ lines[k].cost \in Nat \union {None}
    <3> TAKE k \in DOMAIN lines
    <3>1. CostLines[k].q \in Nat /\ CostLines[k].cost \in Nat \union {None}
      BY <1>3, <1>4 DEF Priced
    <3> HIDE DEF lines
    <3>2. CostLines[k].q * n \in Nat
      BY <1>2, <3>1
    <3> QED BY <1>4, <3>1, <3>2
  <2> HIDE DEF lines, S, m
  <2>4. lines \in Seq(S) /\ Len(lines) = m
    BY <2>1, <2>2
  <2> QED BY <2>3, <2>4 DEF Priced, m
<1>6. PICK worth \in ValueOf(lines) :
          /\ ~worth.bad
          /\ wastes' = Append(wastes, [of |-> "drink", units |-> n, lines |-> CostLines, worth |-> worth])
  BY DEF WasteDrink, n
<1> DEFINE waste == [of |-> "drink", units |-> n, lines |-> CostLines, worth |-> worth]
<1> HIDE DEF lines
<1>7. WorthItsCost(waste)
  <2>1. LET cost == RecipeCost(CostLines)
        IN  /\ worth.partial <=> ~cost.complete
            /\ worth.value # None =>
                  IF n = 1 THEN OneCosts(CostLines, worth.value)
                  ELSE 2 * Distance(worth.value, n * cost.piastres) <= n + 1
    BY <1>2, <1>3, <1>4, <1>5, <1>6, WorthIsCost
  <2>2. waste.of = "drink" /\ waste.units = n /\ waste.lines = CostLines /\ waste.worth = worth
    OBVIOUS
  <2> HIDE DEF waste
  <2> QED BY <2>1, <2>2 DEF WorthItsCost
<1>9. wastes' = Append(wastes, waste)
  BY <1>6
<1> HIDE DEF waste
<1>8. StoreInv'
  <2>1. \E W : wastes' \in Seq(W) /\ \A w \in W : WorthItsCost(w)
    BY <1>9, <1>7, WastesKeep DEF RoomInv
  <2> QED BY <2>1 DEF RoomInv, StoreInv, WasteDrink, storeVars
<1> QED BY <1>1, <1>8 DEF RoomInv

LEMMA PlaceOrderKeeps ==
    ASSUME RoomInv, NEW typed \in OrderAmounts, NEW line \in Invoices, NEW unit \in Invoices,
           PlaceOrder(typed, line, unit)
    PROVE  RoomInv'
<1>1. BarInv'
  BY DEF RoomInv, BarInv, PlaceOrder, barVars
<1>2. Placed(order')
  BY DEF Placed, PlaceOrder
<1>3. received' = <<>> /\ received' \in Seq({})
  BY DEF RoomInv, StoreInv, PlaceOrder
<1>4. StoreInv'
  BY <1>2, <1>3 DEF RoomInv, StoreInv, PlaceOrder
<1> QED BY <1>1, <1>4 DEF RoomInv

LEMMA DeliverKeeps ==
    ASSUME RoomInv, NEW typed \in OrderAmounts, NEW line \in Invoices, NEW unit \in Invoices,
           Deliver(typed, line, unit)
    PROVE  RoomInv'
<1> DEFINE q == QuantityDec(typed)
           r == [q |-> q, cost |-> DeliveryCost(q, line, unit), invoiced |-> <<line, unit>> # <<None, None>>]
<1>1. BarInv'
  BY DEF RoomInv, BarInv, Deliver, barVars
<1>2. q \in Nat
  BY TypedIs
<1>3. order # None /\ received' = Append(received, r) /\ shelf' = shelf + q
      /\ order' = order /\ counts' = counts /\ wastes' = wastes
  BY DEF Deliver
<1>4. Received(r, order)
  <2>1. r.q = q /\ r.cost = DeliveryCost(q, line, unit)
    OBVIOUS
  <2>2. ~r.invoiced => line = None /\ unit = None
    OBVIOUS
  <2> HIDE DEF r, q
  <2> QED BY <1>2, <2>1, <2>2 DEF Received, DeliveryCost
<1>5. PICK R : received \in Seq(R) /\ \A s \in R : order # None /\ Received(s, order)
  BY DEF RoomInv, StoreInv
<1> HIDE DEF r, q
<1> DEFINE T == R \union {r}
<1>6. received' \in Seq(T)
  <2>1. received \in Seq(T) /\ r \in T
    BY <1>5
  <2> HIDE DEF T
  <2> QED BY <1>3, <2>1
<1>7. \A s \in T : order # None /\ Received(s, order)
  BY <1>3, <1>4, <1>5
<1>8. shelf' \in Int
  BY <1>2, <1>3 DEF RoomInv, StoreInv
<1> HIDE DEF T
<1>9. StoreInv'
  BY <1>3, <1>6, <1>7, <1>8 DEF RoomInv, StoreInv
<1> QED BY <1>1, <1>9 DEF RoomInv

LEMMA WasteIngredientKeeps ==
    ASSUME RoomInv, NEW q \in Amounts, NEW unit \in Units, WasteIngredient(q, unit)
    PROVE  RoomInv'
<1> DEFINE base == ConvertWithDensity(q, unit, Unit[Ordered], Density[Ordered])
           line == [q |-> base.q, cost |-> Cost[Ordered]]
           lines == <<line>>
<1>1. BarInv'
  BY DEF RoomInv, BarInv, WasteIngredient, barVars
<1>2. /\ base.q > 0 /\ shelf' = shelf - base.q
      /\ order' = order /\ received' = received /\ counts' = counts
      /\ \E worth \in ValueOf(lines) :
             /\ ~worth.bad
             /\ wastes' = Append(wastes, [of |-> "ingredient", units |-> 1, lines |-> lines, worth |-> worth])
  BY DEF WasteIngredient, CheckConverted
<1>0. PICK worth \in ValueOf(lines) :
          /\ ~worth.bad
          /\ wastes' = Append(wastes, [of |-> "ingredient", units |-> 1, lines |-> lines, worth |-> worth])
  BY <1>2
<1> DEFINE waste == [of |-> "ingredient", units |-> 1, lines |-> lines, worth |-> worth]
<1>3. base.q \in Nat /\ Cost[Ordered] \in Nat \union {None}
  <2>1. q \in Nat /\ Density[Ordered] \in Int \union {None} /\ Cost[Ordered] \in Nat \union {None}
    BY RoomAssumption
  <2> QED BY <2>1, Bridged
<1> HIDE DEF base
<1>4. line.q = base.q /\ line.cost = Cost[Ordered]
  OBVIOUS
<1> HIDE DEF line
<1>5. /\ lines \in Seq({line}) /\ DOMAIN lines = 1..1 /\ Len(lines) = 1
      /\ lines[1] = line
  OBVIOUS
<1>6. Priced(lines)
  <2>1. \A k \in DOMAIN lines : lines[k] = line
    BY <1>5
  <2> HIDE DEF lines
  <2>2. \E S : lines \in Seq(S)
    BY <1>5
  <2> QED BY <1>3, <1>4, <2>1, <2>2 DEF Priced
<1> HIDE DEF lines
<1>7. WorthItsCost(waste)
  <2>1. \A k \in DOMAIN lines : lines[k].q = lines[k].q * 1
    BY <1>6 DEF Priced
  <2>2. 1 \in Nat \ {0}
    OBVIOUS
  <2>3. LET cost == RecipeCost(lines)
        IN  /\ worth.partial <=> ~cost.complete
            /\ worth.value # None =>
                  IF 1 = 1 THEN OneCosts(lines, worth.value)
                  ELSE 2 * Distance(worth.value, 1 * cost.piastres) <= 1 + 1
    BY <1>0, <1>6, <2>1, <2>2, WorthIsCost
  <2>4. waste.of = "ingredient" /\ waste.units = 1 /\ waste.lines = lines /\ waste.worth = worth
    OBVIOUS
  <2> HIDE DEF waste
  <2> QED BY <1>2, <1>4, <1>5, <2>3, <2>4 DEF WorthItsCost
<1>9. wastes' = Append(wastes, waste)
  BY <1>0
<1> HIDE DEF waste
<1>8. StoreInv'
  <2>1. \E W : wastes' \in Seq(W) /\ \A w \in W : WorthItsCost(w)
    BY <1>9, <1>7, WastesKeep DEF RoomInv
  <2>2. shelf' \in Int
    BY <1>2, <1>3 DEF RoomInv, StoreInv
  <2> QED BY <1>2, <2>1, <2>2 DEF RoomInv, StoreInv
<1> QED BY <1>1, <1>8 DEF RoomInv

LEMMA FinaliseCountKeeps ==
    ASSUME RoomInv, NEW counted \in Nat, NEW reason \in BOOLEAN, FinaliseCount(counted, reason)
    PROVE  RoomInv'
<1> DEFINE count == [book |-> shelf, counted |-> counted, reason |-> reason]
<1>1. BarInv'
  BY DEF RoomInv, BarInv, FinaliseCount, barVars
<1>2. /\ IsVarianceFlagged(shelf, counted) => reason
      /\ counts' = Append(counts, count) /\ shelf' = counted
      /\ order' = order /\ received' = received /\ wastes' = wastes
  BY DEF FinaliseCount
<1>3. Explained(count)
  <2>1. count.book = shelf /\ count.counted = counted /\ count.reason = reason
    OBVIOUS
  <2> HIDE DEF count
  <2>2. shelf \in Int /\ Threshold \in Nat
    BY RoomAssumption DEF RoomInv, StoreInv
  <2>3. CASE reason
    BY <2>1, <2>3 DEF Explained
  <2>4. CASE ~reason /\ shelf = 0
    <3>1. counted = 0
      BY <1>2, <2>4 DEF IsVarianceFlagged
    <3> QED BY <2>1, <2>4, <3>1 DEF Explained
  <2>5. CASE ~reason /\ shelf # 0
    <3> DEFINE off == Distance(counted, shelf)
               of == Distance(shelf, 0)
    <3>1. ~(off * 100000 >= of * Threshold)
      BY <1>2, <2>5 DEF IsVarianceFlagged
    <3>2. off \in Int /\ of \in Int
      BY <2>2 DEF Distance
    <3> HIDE DEF off, of
    <3>3. off * 100000 < of * Threshold
      BY <2>2, <3>1, <3>2
    <3> QED BY <2>1, <2>5, <3>3 DEF Explained, off, of
  <2> QED BY <2>3, <2>4, <2>5
<1> HIDE DEF count
<1>4. PICK C : counts \in Seq(C) /\ \A c \in C : Explained(c)
  BY DEF RoomInv, StoreInv
<1> DEFINE D == C \union {count}
<1>5. counts' \in Seq(D)
  <2>1. counts \in Seq(D) /\ count \in D
    BY <1>4
  <2> HIDE DEF D
  <2> QED BY <1>2, <2>1
<1>6. \A c \in D : Explained(c)
  BY <1>3, <1>4
<1> HIDE DEF D
<1>7. StoreInv'
  BY <1>2, <1>5, <1>6 DEF RoomInv, StoreInv
<1> QED BY <1>1, <1>7 DEF RoomInv

LEMMA RoomStep == RoomInv /\ [BarNext \/ StoreNext]_roomVars => RoomInv'
<1> SUFFICES ASSUME RoomInv, [BarNext \/ StoreNext]_roomVars PROVE RoomInv'
  OBVIOUS
<1>1. CASE BarNext
  <2>1. ASSUME NEW i \in Ingredients, NEW q \in Amounts, NEW unit \in Units,
               WriteLine(i, q, unit) \/ AddExtra(i, q, unit)
        PROVE  RoomInv'
    BY <2>1, WriteLineKeeps, AddExtraKeeps
  <2>2. ASSUME NEW k \in DOMAIN recipe, NEW factor \in Factors, CopyLine(k, factor) PROVE RoomInv'
    BY <2>2, CopyLineKeeps
  <2>3. ASSUME NEW i \in Ingredients, NEW yield \in Yields, SetYield(i, yield) PROVE RoomInv'
    BY <2>3, SetYieldKeeps
  <2>4. ASSUME NEW q \in Amounts, NEW unit \in Units \union {None}, WasteDrink(q, unit) PROVE RoomInv'
    BY <2>4, WasteDrinkKeeps
  <2> QED BY <1>1, <2>1, <2>2, <2>3, <2>4 DEF BarNext
<1>2. CASE StoreNext
  <2>1. ASSUME NEW typed \in OrderAmounts, NEW line \in Invoices, NEW unit \in Invoices,
               PlaceOrder(typed, line, unit) \/ Deliver(typed, line, unit)
        PROVE  RoomInv'
    BY <2>1, PlaceOrderKeeps, DeliverKeeps
  <2>2. ASSUME NEW q \in Amounts, NEW unit \in Units, WasteIngredient(q, unit) PROVE RoomInv'
    BY <2>2, WasteIngredientKeeps
  <2>3. ASSUME NEW typed \in OrderAmounts, NEW reason \in BOOLEAN,
               FinaliseCount(QuantityDec(typed), reason)
        PROVE  RoomInv'
    <3>1. QuantityDec(typed) \in Nat
      BY <2>3, TypedIs
    <3> QED BY <2>3, <3>1, FinaliseCountKeeps
  <2> QED BY <1>2, <2>1, <2>2, <2>3 DEF StoreNext
<1>3. CASE UNCHANGED roomVars
  <2>1. BarInv'
    BY <1>3 DEF RoomInv, BarInv, roomVars, barVars
  <2>2. StoreInv'
    BY <1>3, StoreUntouched DEF RoomInv, roomVars
  <2> QED BY <2>1, <2>2 DEF RoomInv
<1> QED BY <1>1, <1>2, <1>3

THEOREM RoomStands == RoomSpec => []RoomInv
<1>1. RoomInv /\ [BarNext \/ StoreNext]_roomVars => RoomInv'
  BY RoomStep
<1> QED BY RoomStarts, <1>1, PTL DEF RoomSpec

(* A cup is made of its recipe, in every drink and whatever its extras     *)
(* (recipe.rs, follow.rs).                                                 *)
THEOREM CupAlwaysItsRecipe == RoomSpec => []CupIsItsRecipe
<1>1. RoomInv => CupIsItsRecipe
  BY CupHolds DEF RoomInv
<1> QED BY RoomStands, <1>1, PTL

(* What the store writes down is what it had, bought and threw away,       *)
(* whatever is ordered, received, wasted and counted (purchase.rs,         *)
(* waste.rs, cost.rs, count.rs).                                           *)
THEOREM StoreAlwaysAccounted == RoomSpec => []StoreIsAccounted
<1>1. RoomInv => StoreIsAccounted
  BY StoreHolds DEF RoomInv
<1> QED BY RoomStands, <1>1, PTL
=============================================================================
