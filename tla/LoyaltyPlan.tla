----------------------------- MODULE LoyaltyPlan -----------------------------
(***************************************************************************)
(* The redemption planner of madar-loyalty (plan.rs, tracks.rs, gift.rs,   *)
(* card.rs): which rewards a sale takes.  The server plans strictly and    *)
(* refuses; the till trims and names the first thing it took off; a        *)
(* replayed sale the strict plan refused keeps its cover and costs nothing.*)
(*                                                                         *)
(* A programme is a function from track to record: plan.rs is the planner  *)
(* of a programme whose only track is 1, and tracks.rs the same rules per  *)
(* track under one shared ceiling.  A plan's lines are kept flat, each     *)
(* with its track.  Lines are numbered from 1.  Costs stay far inside an   *)
(* i64 here, so the saturating arithmetic is plain arithmetic.             *)
(***************************************************************************)
EXTENDS Integers, SequencesExt

CONSTANT None   \* an Option's None

(* Why the till took something off, and why the server refuses.            *)
Trim == {"line_gone", "not_on_offer", "in_combo", "line_shrank", "over_cap", "balance_short"}
Refusal ==
    {"track_unknown", "no_line_named", "no_such_line", "twice_on_one_line", "below_one_unit",
     "more_units_than_line", "in_combo", "no_menu_item", "not_on_offer", "no_price", "over_cap",
     "balance_short"}

ASSUME NoneAssumption == None \notin Int \union Trim \union Refusal

(* A line of the sale, a reward asked for, a track's programme.            *)
IsLine(line) == line.quantity \in Int /\ line.staff \in BOOLEAN /\ line.combo \in BOOLEAN

IsAsk(a) == {a.line, a.units, a.track} \subseteq Int \union {None}

IsProgramme(programme) ==
    /\ DOMAIN programme.rewards \subseteq Nat
    /\ \A k \in DOMAIN programme.rewards :
           programme.rewards[k].item # None /\ programme.rewards[k].cost \in Int
    /\ programme.anyItem \in BOOLEAN
    /\ programme.anyItemCost \in Int /\ programme.balance \in Int

EmptyPlan == [lines |-> <<>>, cost |-> 0, units |-> 0, trimmed |-> None, refusal |-> None]

Covers(plan, line) == \E k \in DOMAIN plan.lines : plan.lines[k].line = line

SpentOn(plan, track) ==
    FoldLeft(LAMBDA sum, p : IF p.track = track THEN sum + p.cost ELSE sum, 0, plan.lines)

(* An absent unit count reads as one, an absent track as track 1.          *)
UnitsAsked(a) == IF a.units = None THEN 1 ELSE a.units
TrackOf(a) == IF a.track = None THEN 1 ELSE a.track

LineExists(lines, a) == a.line # None /\ a.line \in DOMAIN lines

-----------------------------------------------------------------------------
(* The unit cost: the first catalogue entry for the item, else the         *)
(* any-item cost, else not a reward.                                       *)
ListedCost(item, programme) ==
    LET at == { k \in DOMAIN programme.rewards : programme.rewards[k].item = item }
    IN  IF at # {} THEN programme.rewards[Min(at)].cost
        ELSE IF programme.anyItem THEN programme.anyItemCost ELSE None

(* What the till may offer the line for.                                   *)
UnitCost(line, programme) ==
    LET listed == ListedCost(line.item, programme)
    IN  IF line.staff \/ line.combo \/ line.item = None \/ listed = None THEN None
        ELSE IF listed > 0 THEN listed ELSE None

(* A ceiling of zero or less is no ceiling.                                *)
WithinCap(cap, units) == cap # None /\ cap > 0 => units <= cap

-----------------------------------------------------------------------------
(* The server: the first refusal, each ask in turn, then the ceiling, then *)
(* each track's balance.                                                   *)

AskRefusal(lines, programmes, plan, a) ==
    LET line  == lines[a.line]
        units == UnitsAsked(a)
        unit  == ListedCost(line.item, programmes[TrackOf(a)])
    IN  IF TrackOf(a) \notin DOMAIN programmes THEN "track_unknown"
        ELSE IF a.line = None                  THEN "no_line_named"
        ELSE IF a.line \notin DOMAIN lines     THEN "no_such_line"
        ELSE IF Covers(plan, a.line)           THEN "twice_on_one_line"
        ELSE IF units < 1                      THEN "below_one_unit"
        ELSE IF units > line.quantity          THEN "more_units_than_line"
        ELSE IF line.combo                     THEN "in_combo"
        ELSE IF line.item = None               THEN "no_menu_item"
        ELSE IF unit = None                    THEN "not_on_offer"
        ELSE IF unit <= 0                      THEN "no_price"
        ELSE None

Take(plan, lines, a, unit, units) ==
    [plan EXCEPT
        !.lines = Append(@, [track |-> TrackOf(a), line |-> a.line,
                             item |-> lines[a.line].item, units |-> units,
                             unitCost |-> unit, cost |-> unit * units]),
        !.cost = @ + unit * units,
        !.units = @ + units]

StrictStep(lines, programmes, plan, a) ==
    LET why == AskRefusal(lines, programmes, plan, a)
    IN  IF plan.refusal # None THEN plan
        ELSE IF why # None THEN [plan EXCEPT !.refusal = why]
        ELSE Take(plan, lines, a,
                  ListedCost(lines[a.line].item, programmes[TrackOf(a)]), UnitsAsked(a))

(* The asks in turn, up to the first that is refused.                      *)
AllAsked(lines, programmes, asks) ==
    FoldLeft(LAMBDA p, a : StrictStep(lines, programmes, p, a), EmptyPlan, asks)

(* Mutant: each reward is weighed against the balance alone.               *)
PlanStrictPerLine(lines, programmes, cap, asks) ==
    LET plan == AllAsked(lines, programmes, asks)
    IN  IF plan.refusal = None /\ \E k \in DOMAIN plan.lines :
               plan.lines[k].cost > programmes[plan.lines[k].track].balance
        THEN [plan EXCEPT !.refusal = "balance_short"] ELSE plan

PlanStrict(lines, programmes, cap, asks) ==
    LET plan == AllAsked(lines, programmes, asks)
    IN  IF plan.refusal # None THEN plan
        ELSE IF ~WithinCap(cap, plan.units) THEN [plan EXCEPT !.refusal = "over_cap"]
        ELSE IF \E k \in DOMAIN plan.lines :
                    SpentOn(plan, plan.lines[k].track)
                        > programmes[plan.lines[k].track].balance
             THEN [plan EXCEPT !.refusal = "balance_short"]
        ELSE plan

-----------------------------------------------------------------------------
(* The till: asks in order, each trimmed to its line, the ceiling's room   *)
(* and what its track's balance still affords.                             *)

FirstTrim(plan, why) == IF plan.trimmed = None THEN [plan EXCEPT !.trimmed = why] ELSE plan

Trims(plan, asked, onLine, roomed, taken) ==
    LET a == IF onLine < asked THEN FirstTrim(plan, "line_shrank") ELSE plan
        b == IF roomed < onLine THEN FirstTrim(a, "over_cap") ELSE a
    IN  IF taken < roomed THEN FirstTrim(b, "balance_short") ELSE b

AtMost(n, limit) == Min({n, limit})
AtLeast(n, limit) == Max({n, limit})

(* Units the rest of the track's balance affords.                          *)
Affordable(plan, programme, track, unit) ==
    (AtLeast(programme.balance, 0) - SpentOn(plan, track)) \div unit

TrimUnits(plan, lines, programme, cap, a, unit) ==
    LET asked  == UnitsAsked(a)
        onLine == AtMost(AtLeast(asked, 0), AtLeast(lines[a.line].quantity, 0))
        roomed == IF cap # None /\ cap > 0
                  THEN AtMost(onLine, AtLeast(cap - plan.units, 0)) ELSE onLine
        taken  == AtMost(roomed, Affordable(plan, programme, TrackOf(a), unit))
        noted  == Trims(plan, asked, onLine, roomed, taken)
    IN  IF taken <= 0 THEN noted ELSE Take(noted, lines, a, unit, taken)

TrimStep(lines, programmes, cap, plan, a) ==
    LET line == lines[a.line]
        programme == programmes[TrackOf(a)]
    IN  IF ~LineExists(lines, a) THEN FirstTrim(plan, "line_gone")
        ELSE IF Covers(plan, a.line) THEN plan
        ELSE IF line.combo THEN FirstTrim(plan, "in_combo")
        ELSE IF TrackOf(a) \notin DOMAIN programmes THEN FirstTrim(plan, "not_on_offer")
        ELSE IF UnitCost(line, programme) = None THEN FirstTrim(plan, "not_on_offer")
        ELSE TrimUnits(plan, lines, programme, cap, a, UnitCost(line, programme))

(* The asks in turn, each trimmed.                                         *)
AllTrimmed(lines, programmes, cap, asks) ==
    FoldLeft(LAMBDA p, a : TrimStep(lines, programmes, cap, p, a), EmptyPlan, asks)

(* A card without the track every ask is on offers nothing.                *)
PlanTrimmed(lines, programmes, cap, asks) ==
    IF asks # <<>> /\ 1 \notin DOMAIN programmes /\ \A k \in DOMAIN asks : TrackOf(asks[k]) = 1
    THEN [EmptyPlan EXCEPT !.trimmed = "not_on_offer"]
    ELSE AllTrimmed(lines, programmes, cap, asks)

-----------------------------------------------------------------------------
(* A replayed sale the strict plan refused: the cover stands as far as it  *)
(* can be priced at all, and no points move.                               *)

ReplayStep(lines, plan, a) ==
    LET line  == lines[a.line]
        units == AtMost(UnitsAsked(a), AtLeast(line.quantity, 0))
    IN  IF \/ ~LineExists(lines, a)
           \/ line.item = None \/ line.combo
           \/ Covers(plan, a.line)
           \/ units < 1
        THEN plan
        ELSE Take(plan, lines, a, 0, units)

(* Mutant: a replayed cover is dropped.                                    *)
ReplayDrops(lines, asks) == EmptyPlan

ReplayLines(lines, asks) ==
    FoldLeft(LAMBDA p, a : ReplayStep(lines, p, a), EmptyPlan, asks)

-----------------------------------------------------------------------------
(* The birthday gift: one unit of one line, no balance.                    *)

(* Mutant: a line a reward covers may take the gift too.                   *)
GiftEligibleAnyway(line, rewarded, gift) ==
    /\ line.item # None
    /\ line.quantity >= 1 /\ ~line.staff /\ ~line.combo
    /\ gift.anyItem \/ line.item \in gift.rewardItems

GiftEligible(line, rewarded, gift) ==
    /\ line.item # None
    /\ line.quantity >= 1 /\ ~line.staff /\ ~line.combo /\ ~rewarded
    /\ gift.anyItem \/ line.item \in gift.rewardItems

(* The chosen line takes the gift; the server's claim check.               *)
GiftTaken(lines, gift, chosen, rewarded) ==
    /\ chosen # None /\ chosen \in DOMAIN lines
    /\ GiftEligible(lines[chosen], chosen \in rewarded, gift)
    /\ gift.open

-----------------------------------------------------------------------------
(* The member's card for a balance against the next reward's cost.         *)

EarnedAndProgress(balance, cost) ==
    IF cost <= 0 \/ balance <= 0 THEN <<0, AtLeast(balance, 0)>>
    ELSE <<balance \div cost, balance % cost>>

Card(balance, cost) ==
    LET earned == EarnedAndProgress(balance, cost)
    IN  [ready |-> earned[1], progress |-> earned[2],
         toNext |-> AtLeast(cost - earned[2], 0), canRedeem |-> earned[1] > 0]
=============================================================================
