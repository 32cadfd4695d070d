------------------------------ MODULE StaffPool ------------------------------
(***************************************************************************)
(* The staff drinks pool of a branch (madar-money staff_pool.rs).  A till  *)
(* decides a drink on its own count of the day; the server decides again   *)
(* at replay, on the count it holds, and its answer is the record.  A      *)
(* drink that happened is never rejected: one the server would refuse      *)
(* lands marked overspent (staff_pool.rs:36-41).                           *)
(*                                                                         *)
(* A drink belongs to the business day it was rung on, whatever day it     *)
(* lands.  Tills learn of each other's drinks from the changefeed, from    *)
(* snapshot pages (madar-sync lib.rs) and from peers; those, the outboxes  *)
(* and the drinks table are the apps' (external).                          *)
(***************************************************************************)
EXTENDS Integers, Sequences, FiniteSets

CONSTANTS
    Tills, Drinks,
    Items,       \* menu items
    Policies,    \* settings the owner may choose
    None,
    MaxDay,      \* bound: business days
    MaxChanges   \* bound: times the owner changes the settings

(* The policies, why a drink is refused, and a drink as its till and as    *)
(* the server records it.                                                  *)
Settings == [enabled : BOOLEAN, allowance : Int, eligible : SUBSET Items]

Refusals == {"pool_off", "no_eligible_items", "item_not_eligible", "note_required"}

Pools == [remaining : Nat, over : Nat]

RungRecords ==
    [till : Tills, item : Items, date : 1..MaxDay, overspent : BOOLEAN, pool : Pools, by : Policies]

LandedRecords ==
    [overspent : BOOLEAN, refusal : Refusals \union {None}, pool : Pools, by : Policies]

ASSUME PoolAssumption ==
    /\ IsFiniteSet(Drinks)
    /\ Policies \subseteq Settings
    /\ None \notin Refusals \union RungRecords \union LandedRecords
    /\ MaxDay \in Nat \ {0} /\ MaxChanges \in Nat

VARIABLES
    settings,    \* the server's: enabled, allowance, eligible items
    cached,      \* cached[till]: the settings the till last pulled
    changes, day,
    known,       \* known[till]: drinks the till has rung, pulled or heard of
    outbox,      \* outbox[till]: drinks not known to have landed, in order
    rung,        \* rung[d]: the drink as the till recorded it
    landed       \* landed[d]: the server's record

vars == <<settings, cached, changes, day, known, outbox, rung, landed>>

NonNegative(n) == IF n < 0 THEN 0 ELSE n

Init ==
    /\ settings \in Policies
    /\ cached = [till \in Tills |-> settings]
    /\ changes = 0 /\ day = 1
    /\ known = [till \in Tills |-> {}]
    /\ outbox = [till \in Tills |-> <<>>]
    /\ rung = [d \in Drinks |-> None]
    /\ landed = [d \in Drinks |-> None]

-----------------------------------------------------------------------------
(* The rule.                                                               *)

Refusal(policy, item, noted) ==
    IF ~policy.enabled THEN "pool_off"
    ELSE IF policy.eligible = {} THEN "no_eligible_items"
    ELSE IF item \notin policy.eligible THEN "item_not_eligible"
    ELSE IF ~noted THEN "note_required"
    ELSE None

PoolState(allowance, used) ==
    [remaining |-> NonNegative(NonNegative(allowance) - NonNegative(used)),
     over |-> NonNegative(NonNegative(used) - NonNegative(allowance))]

(* The (used + 1)th drink of the day is over when that is past the         *)
(* allowance; it is allowed all the same.                                  *)
Decide(policy, item, noted, used) ==
    LET why == Refusal(policy, item, noted)
        after == NonNegative(used) + 1
    IN  [refusal |-> why,
         overspent |-> why = None /\ after > NonNegative(policy.allowance),
         pool |-> PoolState(policy.allowance, IF why = None THEN after ELSE used)]

-----------------------------------------------------------------------------
Landed == { d \in Drinks : landed[d] # None }

(* What the till counts as used on a day, and what the server does.        *)
TillUsed(till, date) == Cardinality({ d \in known[till] : rung[d].date = date })
ServerUsed(date) == Cardinality({ d \in Landed : rung[d].date = date })

(* A drink is rung on the till's own day, note and item being the teller's.*)
Ring(till, d, item, noted) ==
    LET verdict == Decide(cached[till], item, noted, TillUsed(till, day))
    IN  /\ rung[d] = None
        /\ verdict.refusal = None
        /\ rung' = [rung EXCEPT ![d] = [till |-> till, item |-> item, date |-> day,
                                        overspent |-> verdict.overspent,
                                        pool |-> verdict.pool, by |-> cached[till]]]
        /\ known' = [known EXCEPT ![till] = @ \union {d}]
        /\ outbox' = [outbox EXCEPT ![till] = Append(@, d)]
        /\ UNCHANGED <<settings, cached, changes, day, landed>>

(* The server's record of a drink, decided when it lands.                  *)
Replayed(d) ==
    LET verdict == Decide(settings, rung[d].item, TRUE, ServerUsed(rung[d].date))
    IN  [overspent |-> verdict.overspent \/ verdict.refusal # None,
         refusal |-> verdict.refusal, pool |-> verdict.pool, by |-> settings]

(* The till sends its oldest drink; the server records it once, and its    *)
(* answer may be lost.                                                     *)
Send(till, lost) ==
    LET d == Head(outbox[till])
    IN  /\ outbox[till] # <<>>
        /\ landed' = IF landed[d] # None THEN landed ELSE [landed EXCEPT ![d] = Replayed(d)]
        /\ outbox' = IF lost THEN outbox ELSE [outbox EXCEPT ![till] = Tail(@)]
        /\ UNCHANGED <<settings, cached, changes, day, known, rung>>

(* The wire types that are dated and grow forever, and how far back a      *)
(* snapshot reaches into them: today and yesterday.                        *)
LEDGER_TYPES == {"till", "cash_movement", "order", "refund", "staff_drink"}
LedgerWindow == 2

(* Mutant: the drinks, a ledger, are taken for a state type.               *)
IsLedgerNoDrinks(type) == type \in LEDGER_TYPES \ {"staff_drink"}

IsLedger(type) == type \in LEDGER_TYPES

(* What a device holds of a type after a snapshot page: a page that lacks  *)
(* a row deletes it, unless the type is a ledger's.                        *)
AfterPage(type, held, page) == IF IsLedger(type) THEN held \union page ELSE page

(* The till takes a snapshot page: the settings, and whichever of the      *)
(* drinks inside the window the page had room for.                         *)
Snapshot(till, page) ==
    /\ cached' = [cached EXCEPT ![till] = settings]
    /\ known' = [known EXCEPT ![till] = AfterPage("staff_drink", @, page)]
    /\ UNCHANGED <<settings, changes, day, outbox, rung, landed>>

InWindow == { d \in Landed : rung[d].date > day - LedgerWindow }

(* The till pulls the settings and the drinks the server has.              *)
Pull(till) ==
    /\ cached' = [cached EXCEPT ![till] = settings]
    /\ known' = [known EXCEPT ![till] = @ \union Landed]
    /\ UNCHANGED <<settings, changes, day, outbox, rung, landed>>

(* A till hears a peer's drinks on the shop's network, landed or not.      *)
Hear(till, peer) ==
    /\ known' = [known EXCEPT ![till] = @ \union known[peer]]
    /\ UNCHANGED <<settings, cached, changes, day, outbox, rung, landed>>

Change(policy) ==
    /\ changes < MaxChanges /\ policy # settings
    /\ settings' = policy /\ changes' = changes + 1
    /\ UNCHANGED <<cached, day, known, outbox, rung, landed>>

NextDay ==
    /\ day < MaxDay /\ day' = day + 1
    /\ UNCHANGED <<settings, cached, changes, known, outbox, rung, landed>>

Next ==
    \/ \E till \in Tills, d \in Drinks, item \in Items, noted \in BOOLEAN :
           Ring(till, d, item, noted)
    \/ \E till \in Tills, lost \in BOOLEAN : Send(till, lost)
    \/ \E till \in Tills : \/ Pull(till)
                          \/ \E page \in SUBSET InWindow : Snapshot(till, page)
                          \/ \E peer \in Tills : Hear(till, peer)
    \/ \E policy \in Policies : Change(policy)
    \/ NextDay

Spec == Init /\ [][Next]_vars

-----------------------------------------------------------------------------
(* While the owner leaves the settings alone, the drinks a day records as  *)
(* overspent are exactly those past its allowance, however many tills rang *)
(* them offline and whatever day they landed on; and on either side the    *)
(* mark on a drink and the pool shown beside it agree, one decided from    *)
(* the drink's ordinal and the other from the count after it               *)
(* (staff_pool.rs:22-27, 137-151, 188-198).                                *)
OverspendsCounted ==
    /\ changes = 0 =>
        \A date \in 1..MaxDay :
            Cardinality({ d \in Landed : rung[d].date = date /\ landed[d].overspent })
                = NonNegative(ServerUsed(date) - NonNegative(settings.allowance))
    /\ \A d \in Landed : landed[d].refusal = None =>
           (landed[d].overspent <=> landed[d].pool.over > 0)
    /\ \A d \in Drinks : rung[d] # None =>
           (rung[d].overspent <=> rung[d].pool.over > 0)

(* No overspend the tills saw is forgotten: once a day's drinks have all   *)
(* landed, the server marks at least as many as the tills did, though not  *)
(* always the same ones (staff_pool.rs:36-41).                             *)
OverspendsNotForgotten ==
    changes = 0 =>
        \A date \in 1..MaxDay :
            LET ofDay == { d \in Drinks : rung[d] # None /\ rung[d].date = date }
            IN  ofDay \subseteq Landed =>
                    Cardinality({ d \in ofDay : rung[d].overspent })
                        <= Cardinality({ d \in ofDay : landed[d].overspent })

(* No till by itself goes past a day's allowance without marking it,       *)
(* whatever snapshot pages it took between two drinks: a page that does    *)
(* not carry a drink does not make the till forget it                      *)
(* (madar-sync lib.rs:8-10, 88-95).                                        *)
TillMarksItsOwn ==
    changes = 0 =>
        \A till \in Tills, date \in 1..MaxDay :
            Cardinality({ d \in Drinks : /\ rung[d] # None /\ ~rung[d].overspent
                                        /\ rung[d].till = till /\ rung[d].date = date })
                <= NonNegative(settings.allowance)

(* Overspends are counted exactly, none a till saw is forgotten, and none  *)
(* of a till's own goes unseen.                                            *)
EveryOverspendMarked == OverspendsCounted /\ OverspendsNotForgotten /\ TillMarksItsOwn
=============================================================================
