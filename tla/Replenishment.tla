---------------------------- MODULE Replenishment ----------------------------
(***************************************************************************)
(* Warehouses replenishing branches (madar-inventory replenish.rs) over    *)
(* the transfer lifecycle.  A manager reads the suggestion for a branch    *)
(* and turns it into a draft; a branch may also ask for its need; the      *)
(* branch sells.  Drafts are dispatched whole and arrive exactly, so any   *)
(* over-filled shelf or over-promised warehouse is the suggestion's doing. *)
(***************************************************************************)
EXTENDS StockTransfer, FiniteSetsExt

CONSTANTS
    Warehouses,  \* locations that hold stock and never sell
    ParMin,      \* ParMin[l][i]: the low-stock level, 0 for none
    ParMax,      \* ParMax[l][i]: the level to fill to, or NoMax
    NoMax,
    Oversold     \* bound: how far below zero a branch may sell

Branches == Locations \ Warehouses

ASSUME ReplenishmentAssumption ==
    /\ IsFiniteSet(Transfers)
    /\ Warehouses \subseteq Locations
    /\ ParMin \in [Locations -> [Items -> Int]]
    /\ ParMax \in [Locations -> [Items -> Int \union {NoMax}]]
    /\ NoMax \notin Int
    /\ Oversold \in Nat

(* The transfers in one of these statuses with l on that side.             *)
Due(side, l, statuses) ==
    { t \in Transfers : Status(t) \in statuses /\ SideOf(t, side) = l }

(* Thousandths of i on the transfers of S.                                 *)
Total(i, S) == SumFunction([t \in S |-> transfer[t].lines[i]])

InTransitTo(l, i) == Total(i, Due("destination", l, {"dispatched"}))
OpenInbound(l, i) == Total(i, Due("destination", l, {"requested", "draft"}))
DraftedOut(w, i) == Total(i, Due("source", w, {"draft"}))

-----------------------------------------------------------------------------
(* The suggestion, from the figures the handler reads.                     *)

AtLeast0(n) == Max({n, 0})

Target(parMin, parMax) == Max({IF parMax = NoMax THEN parMin ELSE parMax, parMin})

(* Mutant: requests and drafts already open are forgotten.                 *)
NeedForgetsOpen(held, parMin, parMax, inTransit, openInbound) ==
    IF parMin > 0 /\ held <= parMin
    THEN AtLeast0(Target(parMin, parMax) - held - inTransit)
    ELSE 0

(* What a branch at or under its low-stock level needs to reach its target,*)
(* less what is already coming.                                            *)
Need(held, parMin, parMax, inTransit, openInbound) ==
    IF parMin > 0 /\ held <= parMin
    THEN AtLeast0(Target(parMin, parMax) - held - inTransit - openInbound)
    ELSE 0

(* Mutant: what other drafts have claimed is offered again.                *)
AvailableForgetsDrafts(warehouseOnHand, draftedOut) == AtLeast0(warehouseOnHand)

(* What the warehouse has that no open draft has claimed.                  *)
Available(warehouseOnHand, draftedOut) == AtLeast0(warehouseOnHand - draftedOut)

Suggested(need, available) == Min({need, available})

BranchNeed(l, i) ==
    Need(onHand[l][i], ParMin[l][i], ParMax[l][i], InTransitTo(l, i), OpenInbound(l, i))

Suggestion(w, l) ==
    [i \in Items |-> Suggested(BranchNeed(l, i),
                               Available(onHand[w][i], DraftedOut(w, i)))]

-----------------------------------------------------------------------------
(* A manager of the warehouse drafts what the page suggests now.           *)
DraftSuggestion(p, t, w, l) ==
    /\ Suggestion(w, l) \in Lines
    /\ StartDraft(p, t, w, l, Suggestion(w, l))

(* A branch asks a warehouse for all it needs.                             *)
RequestNeed(p, t, w, l) ==
    /\ [i \in Items |-> BranchNeed(l, i)] \in Lines
    /\ Request(p, t, w, l, [i \in Items |-> BranchNeed(l, i)])

AcceptAsAsked(p, t) == Status(t) = "requested" /\ Accept(p, t, transfer[t].lines)

ReceiveExact(p, t) ==
    /\ Status(t) = "dispatched"
    /\ Receive(p, t, [i \in Items |-> Grain * transfer[t].lines[i]],
               [i \in Items |-> FALSE])

(* The branch sells; on hand may go below zero, down to -Oversold.          *)
Sell(l, i) ==
    /\ onHand[l][i] > -Oversold
    /\ onHand' = [onHand EXCEPT ![l][i] = @ - 1]
    /\ UNCHANGED <<transfer, moved, stamp>>

(* The warehouse decides what to send; the branches may ask as well, and a *)
(* request is accepted as asked.                                           *)
Replenish ==
    \/ \E p \in Persons, t \in Transfers :
           \/ \E w \in Warehouses, l \in Branches :
                  DraftSuggestion(p, t, w, l) \/ RequestNeed(p, t, w, l)
           \/ AcceptAsAsked(p, t)
           \/ Decline(p, t)
           \/ Dispatch(p, t)
           \/ ReceiveExact(p, t)
           \/ Cancel(p, t)
    \/ \E l \in Branches, i \in Items : Sell(l, i)

ReplenishSpec == Init /\ [][Replenish]_vars

-----------------------------------------------------------------------------
(* With everything that is coming landed, no branch holds more than its    *)
(* target, or than it opened with: two warehouses, a request beside a      *)
(* draft, and stock in transit are all counted once (replenish.rs:3-9).    *)
NeverOverfilled ==
    \A l \in Branches, i \in Items :
        onHand[l][i] + InTransitTo(l, i) + OpenInbound(l, i)
            <= Max({Target(ParMin[l][i], ParMax[l][i]), Opening[l][i]})

(* Drafting a suggestion never takes what a warehouse has promised past    *)
(* what it holds, whichever branches the drafts are for and however many   *)
(* requests it has accepted (replenish.rs:7-8).                            *)
NeverOverpromised ==
    [][\A t \in Transfers, w \in Warehouses :
          /\ Status(t) = "absent" /\ transfer'[t].status = "draft"
          /\ transfer'[t].source = w
          => \A i \in Items :
                 transfer'[t].lines[i] > 0 => DraftedOut(w, i)' <= onHand[w][i]]_vars
=============================================================================
