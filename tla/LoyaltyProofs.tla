---------------------------- MODULE LoyaltyProofs ----------------------------
(***************************************************************************)
(* Proofs about LoyaltySync, and the planner of LoyaltyPlan under it: for  *)
(* any lines, requests, programmes, ceilings and gifts on the board, and   *)
(* any tills, sales, costs and points.                                     *)
(*                                                                         *)
(* The planners fold their step along the requests; FoldFacts gives each   *)
(* fold a run, and what is said of a planner is an induction along its     *)
(* run.  The trimming planner keeps TrimGood: within the ceiling and every *)
(* balance, no line covered beyond its quantity, and what it has taken is  *)
(* what the strict planner makes of its lines sent as asks.  Along two     *)
(* runs of the same requests the planners then agree step by step.  Of the *)
(* board the invariant is only that it holds lines, requests and offers;   *)
(* of the points, that each receipt is of a sale fair on what its till     *)
(* saw, and each landed sale is as its receipt says.                       *)
(***************************************************************************)
EXTENDS LoyaltySync, SequenceTheorems, FiniteSetTheorems, TLAPS

Asking == INSTANCE FoldFacts WITH
    FoldStep <- LAMBDA lines, programmes, none, p, a : StrictStep(lines, programmes, p, a)
Trimming == INSTANCE FoldFacts WITH
    FoldStep <- LAMBDA lines, programmes, cap, p, a : TrimStep(lines, programmes, cap, p, a)
Replaying == INSTANCE FoldFacts WITH
    FoldStep <- LAMBDA lines, no, none, p, a : ReplayStep(lines, p, a)
Spending == INSTANCE FoldFacts WITH
    FoldStep <- LAMBDA track, no, none, sum, p :
                    IF p.track = track THEN sum + p.cost ELSE sum
Covering == INSTANCE FoldFacts WITH
    FoldStep <- LAMBDA line, no, none, n, p : IF p.line = line THEN n + p.units ELSE n

-----------------------------------------------------------------------------
(* The models' folds are the facts' folds.                                 *)
LEMMA AskedFold ==
    ASSUME NEW lines, NEW programmes, NEW asked
    PROVE  AllAsked(lines, programmes, asked)
             = Asking!Folded(lines, programmes, None, EmptyPlan, asked)
BY DEF AllAsked, FoldLeft, MapThenFoldSet, Max, Asking!Folded, Asking!IsFolder, Asking!Max

(* The trimming planner, the same.                                         *)
LEMMA TrimmedFold ==
    ASSUME NEW lines, NEW programmes, NEW cap, NEW asked
    PROVE  AllTrimmed(lines, programmes, cap, asked)
             = Trimming!Folded(lines, programmes, cap, EmptyPlan, asked)
BY DEF AllTrimmed, FoldLeft, MapThenFoldSet, Max,
       Trimming!Folded, Trimming!IsFolder, Trimming!Max

(* The replay, the same.                                                   *)
LEMMA ReplayFold ==
    ASSUME NEW lines, NEW asked
    PROVE  ReplayLines(lines, asked)
             = Replaying!Folded(lines, None, None, EmptyPlan, asked)
BY DEF ReplayLines, FoldLeft, MapThenFoldSet, Max,
       Replaying!Folded, Replaying!IsFolder, Replaying!Max

(* What a plan spends on a track, the same.                                *)
LEMMA SpentFold ==
    ASSUME NEW plan, NEW track
    PROVE  SpentOn(plan, track) = Spending!Folded(track, None, None, 0, plan.lines)
BY DEF SpentOn, FoldLeft, MapThenFoldSet, Max,
       Spending!Folded, Spending!IsFolder, Spending!Max

(* The units of a line covered, the same.                                  *)
LEMMA UnitsFold ==
    ASSUME NEW plan, NEW line
    PROVE  UnitsOn(plan, line) = Covering!Folded(line, None, None, 0, plan.lines)
BY DEF UnitsOn, FoldLeft, MapThenFoldSet, Max,
       Covering!Folded, Covering!IsFolder, Covering!Max

(* The strict plan and the trimmed one, ask by ask.                        *)
StrictRun(lines, programmes, asked, run) ==
    /\ run[0] = EmptyPlan
    /\ \A k \in 1..Len(asked) : run[k] = StrictStep(lines, programmes, run[k - 1], asked[k])

TrimRun(lines, programmes, cap, asked, run) ==
    /\ run[0] = EmptyPlan
    /\ \A k \in 1..Len(asked) : run[k] = TrimStep(lines, programmes, cap, run[k - 1], asked[k])

(* What is asked is where some run of the strict steps ends.               *)
LEMMA StrictRuns ==
    ASSUME NEW lines, NEW programmes, NEW A, NEW asked \in Seq(A)
    PROVE  \E run : /\ StrictRun(lines, programmes, asked, run)
                    /\ AllAsked(lines, programmes, asked) = run[Len(asked)]
BY AskedFold, Asking!FoldIsRun DEF Asking!IsRun, StrictRun

(* What is trimmed is where some run of the trimming steps ends.           *)
LEMMA TrimRuns ==
    ASSUME NEW lines, NEW programmes, NEW cap, NEW A, NEW asked \in Seq(A)
    PROVE  \E run : /\ TrimRun(lines, programmes, cap, asked, run)
                    /\ AllTrimmed(lines, programmes, cap, asked) = run[Len(asked)]
BY TrimmedFold, Trimming!FoldIsRun DEF Trimming!IsRun, TrimRun

(* One ask more, one line more.                                            *)
LEMMA AskedAppend ==
    ASSUME NEW lines, NEW programmes, NEW A, NEW asked \in Seq(A), NEW a \in A
    PROVE  AllAsked(lines, programmes, Append(asked, a))
             = StrictStep(lines, programmes, AllAsked(lines, programmes, asked), a)
BY AskedFold, Asking!FoldAppend

(* Nothing asked is the empty plan.                                        *)
LEMMA AskedNothing ==
    ASSUME NEW lines, NEW programmes
    PROVE  AllAsked(lines, programmes, <<>>) = EmptyPlan
BY AskedFold, Asking!FoldNothing

(* One ask is one strict step.                                             *)
LEMMA AskedOne ==
    ASSUME NEW lines, NEW programmes, NEW a
    PROVE  AllAsked(lines, programmes, <<a>>) = StrictStep(lines, programmes, EmptyPlan, a)
BY AskedFold, Asking!FoldOne

(* One ask is one trimming step.                                           *)
LEMMA TrimmedOne ==
    ASSUME NEW lines, NEW programmes, NEW cap, NEW a
    PROVE  AllTrimmed(lines, programmes, cap, <<a>>)
             = TrimStep(lines, programmes, cap, EmptyPlan, a)
BY TrimmedFold, Trimming!FoldOne

(* Nothing asked takes nothing.                                            *)
LEMMA TrimmedNothing ==
    ASSUME NEW lines, NEW programmes, NEW cap
    PROVE  AllTrimmed(lines, programmes, cap, <<>>) = EmptyPlan
BY TrimmedFold, Trimming!FoldNothing

(* One cover replayed is one step.                                         *)
LEMMA ReplayOne ==
    ASSUME NEW lines, NEW a
    PROVE  ReplayLines(lines, <<a>>) = ReplayStep(lines, EmptyPlan, a)
BY ReplayFold, Replaying!FoldOne

(* Nothing replayed covers nothing.                                        *)
LEMMA ReplayNothing == ASSUME NEW lines PROVE ReplayLines(lines, <<>>) = EmptyPlan
BY ReplayFold, Replaying!FoldNothing

OneLineMore(S, p, q, e) ==
    e \in S /\ p.lines \in Seq(S) /\ q.lines = Append(p.lines, e)

(* One line more spends its cost on its track.                             *)
LEMMA SpentMore ==
    ASSUME NEW S, NEW p, NEW q, NEW e, OneLineMore(S, p, q, e), NEW track
    PROVE  SpentOn(q, track) = IF e.track = track THEN SpentOn(p, track) + e.cost
                               ELSE SpentOn(p, track)
<1> DEFINE F(seq) == Spending!Folded(track, None, None, 0, seq)
<1>1. F(Append(p.lines, e)) = IF e.track = track THEN F(p.lines) + e.cost ELSE F(p.lines)
  BY Spending!FoldAppend DEF OneLineMore
<1>2. SpentOn(q, track) = F(Append(p.lines, e)) /\ SpentOn(p, track) = F(p.lines)
  BY SpentFold DEF OneLineMore
<1> HIDE DEF F
<1> QED BY <1>1, <1>2

(* The empty plan spends nothing.                                          *)
LEMMA SpentNothing == ASSUME NEW track PROVE SpentOn(EmptyPlan, track) = 0
BY SpentFold, Spending!FoldNothing DEF EmptyPlan

(* One line more covers its units.                                         *)
LEMMA UnitsMore ==
    ASSUME NEW S, NEW p, NEW q, NEW e, OneLineMore(S, p, q, e), NEW line
    PROVE  UnitsOn(q, line) = IF e.line = line THEN UnitsOn(p, line) + e.units
                              ELSE UnitsOn(p, line)
<1> DEFINE F(seq) == Covering!Folded(line, None, None, 0, seq)
<1>1. F(Append(p.lines, e)) = IF e.line = line THEN F(p.lines) + e.units ELSE F(p.lines)
  BY Covering!FoldAppend DEF OneLineMore
<1>2. UnitsOn(q, line) = F(Append(p.lines, e)) /\ UnitsOn(p, line) = F(p.lines)
  BY UnitsFold DEF OneLineMore
<1> HIDE DEF F
<1> QED BY <1>1, <1>2

(* The empty plan covers nothing.                                          *)
LEMMA UnitsNothing == ASSUME NEW line PROVE UnitsOn(EmptyPlan, line) = 0
BY UnitsFold, Covering!FoldNothing DEF EmptyPlan

(* Nothing of these sums is about what a plan notes beside its lines.      *)
LEMMA SameLines ==
    ASSUME NEW p, NEW q, p.lines = q.lines
    PROVE  /\ \A track : SpentOn(p, track) = SpentOn(q, track)
           /\ \A line : UnitsOn(p, line) = UnitsOn(q, line)
           /\ \A line : Covers(p, line) <=> Covers(q, line)
BY SpentFold, UnitsFold DEF Covers

(* What a planner is given.                                                *)
Given(lines, programmes, cap) ==
    /\ Len(lines) \in Nat /\ DOMAIN lines = 1..Len(lines)
    /\ \A i \in DOMAIN lines : IsLine(lines[i])
    /\ \A track \in DOMAIN programmes : IsProgramme(programmes[track])
    /\ cap \in Int \union {None}

(* A reward taken, and a plan.                                             *)
Planned(lines) ==
    [track : Int, line : DOMAIN lines, item : { lines[i].item : i \in DOMAIN lines },
     units : Nat, unitCost : Int, cost : Int]

PlanSet(lines) ==
    [lines : Seq(Planned(lines)), cost : Int, units : Nat,
     trimmed : Trim \union {None}, refusal : Refusal \union {None}]

Entry(lines, a, unit, n) ==
    [track |-> TrackOf(a), line |-> a.line, item |-> lines[a.line].item, units |-> n,
     unitCost |-> unit, cost |-> unit * n]

(* The empty plan is a plan.                                               *)
LEMMA EmptyIsPlan == ASSUME NEW lines PROVE EmptyPlan \in PlanSet(lines)
<1>1. <<>> \in Seq(Planned(lines))
  OBVIOUS
<1> QED BY <1>1 DEF EmptyPlan, PlanSet

(* What an ask may hold.                                                   *)
LEMMA AskTypes ==
    ASSUME NEW a, IsAsk(a)
    PROVE  TrackOf(a) \in Int /\ UnitsAsked(a) \in Int
BY DEF IsAsk, TrackOf, UnitsAsked

(* One reward taken is one line more, and what it costs.                   *)
Takes(lines, p, a, unit, n) ==
    /\ p \in PlanSet(lines) /\ a.line \in DOMAIN lines
    /\ TrackOf(a) \in Int /\ unit \in Int /\ n \in Nat

With(p, e) ==
    [lines |-> Append(p.lines, e), cost |-> p.cost + e.cost, units |-> p.units + e.units,
     trimmed |-> p.trimmed, refusal |-> p.refusal]

(* The line of a reward taken.                                             *)
LEMMA EntryIs ==
    ASSUME NEW lines, NEW p, NEW a, NEW unit, NEW n, Takes(lines, p, a, unit, n),
           NEW e, e = Entry(lines, a, unit, n)
    PROVE  /\ e \in Planned(lines)
           /\ e.track = TrackOf(a) /\ e.line = a.line /\ e.units = n /\ e.cost = unit * n
           /\ e.cost \in Int
<1>1. unit * n \in Int
  BY DEF Takes
<1> QED BY <1>1 DEF Takes, Entry, Planned

(* To take is to add that line to the plan.                                *)
LEMMA TakeIs ==
    ASSUME NEW lines, NEW p, NEW a, NEW unit, NEW n, Takes(lines, p, a, unit, n),
           NEW q, q = Take(p, lines, a, unit, n)
    PROVE  q \in PlanSet(lines) /\ q = With(p, Entry(lines, a, unit, n))
<1> DEFINE e == Entry(lines, a, unit, n)
<1>1. e \in Planned(lines) /\ e.units = n /\ e.cost = unit * n /\ e.cost \in Int /\ n \in Nat
  BY EntryIs DEF Takes
<1>2. p.lines \in Seq(Planned(lines)) /\ p.cost \in Int /\ p.units \in Nat
      /\ p.trimmed \in Trim \union {None} /\ p.refusal \in Refusal \union {None}
      /\ p = [lines |-> p.lines, cost |-> p.cost, units |-> p.units,
              trimmed |-> p.trimmed, refusal |-> p.refusal]
  BY DEF PlanSet, Takes
<1>3. q = [p EXCEPT !.lines = Append(@, e), !.cost = @ + unit * n, !.units = @ + n]
  BY DEF Take, Entry
<1> HIDE DEF e
<1>4. Append(p.lines, e) \in Seq(Planned(lines))
  BY <1>1, <1>2
<1>5. q = With(p, e)
  <2> DEFINE c == unit * n
  <2>1. e.cost = c /\ q = [p EXCEPT !.lines = Append(@, e), !.cost = @ + c, !.units = @ + n]
    BY <1>1, <1>3
  <2> HIDE DEF c
  <2> QED BY <1>1, <1>2, <2>1 DEF With
<1>6. p.cost + e.cost \in Int /\ p.units + e.units \in Nat
  BY <1>1, <1>2
<1>7. q \in PlanSet(lines)
  BY <1>2, <1>4, <1>5, <1>6 DEF PlanSet, With
<1> QED BY <1>5, <1>7 DEF e

(* What it adds to the sums, and covers.                                   *)
LEMMA TakeSums ==
    ASSUME NEW lines, NEW p, NEW a, NEW unit, NEW n, Takes(lines, p, a, unit, n),
           NEW q, q = Take(p, lines, a, unit, n)
    PROVE  /\ \A track : SpentOn(q, track) =
                  IF TrackOf(a) = track THEN SpentOn(p, track) + unit * n ELSE SpentOn(p, track)
           /\ \A line : UnitsOn(q, line) =
                  IF a.line = line THEN UnitsOn(p, line) + n ELSE UnitsOn(p, line)
           /\ \A line : Covers(q, line) <=> (a.line = line \/ Covers(p, line))
<1> DEFINE e == Entry(lines, a, unit, n)
<1>0. q = With(p, e)
  BY TakeIs
<1>1. e \in Planned(lines) /\ q.lines = Append(p.lines, e)
  BY <1>0, EntryIs DEF With
<1>2. p.lines \in Seq(Planned(lines)) /\ OneLineMore(Planned(lines), p, q, e)
  BY <1>1 DEF PlanSet, OneLineMore, Takes
<1>3. e.track = TrackOf(a) /\ e.line = a.line /\ e.units = n /\ e.cost = unit * n
  BY EntryIs
<1> HIDE DEF e
<1>4. ASSUME NEW track
      PROVE  SpentOn(q, track) =
                 IF TrackOf(a) = track THEN SpentOn(p, track) + unit * n ELSE SpentOn(p, track)
  BY <1>2, <1>3, SpentMore
<1>5. ASSUME NEW line
      PROVE  UnitsOn(q, line) =
                 IF a.line = line THEN UnitsOn(p, line) + n ELSE UnitsOn(p, line)
  BY <1>2, <1>3, UnitsMore
<1>6. ASSUME NEW line PROVE Covers(q, line) <=> (a.line = line \/ Covers(p, line))
  <2>1. /\ DOMAIN q.lines = 1..(Len(p.lines) + 1) /\ DOMAIN p.lines = 1..Len(p.lines)
        /\ Len(p.lines) \in Nat
        /\ q.lines[Len(p.lines) + 1] = e
        /\ \A k \in 1..Len(p.lines) : q.lines[k] = p.lines[k]
    BY <1>1, <1>2
  <2>2. ASSUME Covers(q, line) PROVE a.line = line \/ Covers(p, line)
    <3>1. PICK k \in DOMAIN q.lines : q.lines[k].line = line
      BY <2>2 DEF Covers
    <3>2. CASE k = Len(p.lines) + 1
      BY <3>1, <3>2, <2>1, <1>3
    <3>3. CASE k # Len(p.lines) + 1
      <4>1. k \in DOMAIN p.lines /\ p.lines[k].line = line
        BY <3>1, <3>3, <2>1
      <4> QED BY <4>1 DEF Covers
    <3> QED BY <3>2, <3>3
  <2>3. ASSUME Covers(p, line) PROVE Covers(q, line)
    <3>1. PICK k \in DOMAIN p.lines : p.lines[k].line = line
      BY <2>3 DEF Covers
    <3>2. k \in DOMAIN q.lines /\ q.lines[k].line = line
      BY <3>1, <2>1
    <3> QED BY <3>2 DEF Covers
  <2>4. ASSUME a.line = line PROVE Covers(q, line)
    <3>1. Len(p.lines) + 1 \in DOMAIN q.lines /\ q.lines[Len(p.lines) + 1].line = line
      BY <2>4, <2>1, <1>3
    <3> QED BY <3>1 DEF Covers
  <2> QED BY <2>2, <2>3, <2>4
<1> QED BY <1>4, <1>5, <1>6

(* The cost of an item is a number or None.                                *)
LEMMA ListedType ==
    ASSUME NEW programme, IsProgramme(programme), NEW item
    PROVE  ListedCost(item, programme) \in Int \union {None}
<1> DEFINE at == { k \in DOMAIN programme.rewards : programme.rewards[k].item = item }
<1>1. CASE at # {}
  <2>1. at \in SUBSET Nat
    BY DEF IsProgramme
  <2>2. \E x \in at : \A y \in at : x <= y
    <3> HIDE DEF at
    <3> QED BY <1>1, <2>1, Asking!LeastNat
  <2>3. Min(at) \in at
    <3> HIDE DEF at
    <3> QED BY <2>2 DEF Min
  <2>4. ListedCost(item, programme) = programme.rewards[Min(at)].cost
    BY <1>1 DEF ListedCost
  <2> HIDE DEF at
  <2>5. Min(at) \in DOMAIN programme.rewards
    BY <2>3 DEF at
  <2> QED BY <2>4, <2>5 DEF IsProgramme
<1>2. CASE at = {}
  BY <1>2 DEF ListedCost, IsProgramme
<1> QED BY <1>1, <1>2

(* A quotient is the most units a sum affords.                             *)
LEMMA Affords ==
    ASSUME NEW sum \in Int, sum >= 0, NEW unit \in Int, unit > 0, NEW n \in Int
    PROVE  n <= sum \div unit <=> unit * n <= sum
<1> DEFINE d == sum \div unit
           r == sum % unit
<1>1. d \in Int /\ r \in Int /\ 0 <= r /\ r < unit /\ sum = unit * d + r
  OBVIOUS
<1> HIDE DEF d, r
<1>2. CASE n <= d
  <2>1. unit * (d - n) >= 0
    BY <1>1, <1>2
  <2>2. unit * (d - n) = unit * d - unit * n
    BY <1>1
  <2> QED BY <1>1, <1>2, <2>1, <2>2 DEF d
<1>3. CASE n >= d + 1
  <2>1. unit * (n - d - 1) >= 0
    BY <1>1, <1>3
  <2>2. unit * (n - d - 1) = unit * n - unit * d - unit
    BY <1>1
  <2> QED BY <1>1, <1>3, <2>1, <2>2 DEF d
<1> QED BY <1>1, <1>2, <1>3

(* The lesser of two.                                                      *)
LEMMA AtMostIs ==
    ASSUME NEW n \in Int, NEW limit \in Int
    PROVE  AtMost(n, limit) = IF n <= limit THEN n ELSE limit
BY Asking!MinOfTwo DEF AtMost, Min, Asking!Min

(* The greater of two.                                                     *)
LEMMA AtLeastIs ==
    ASSUME NEW n \in Int, NEW limit \in Int
    PROVE  AtLeast(n, limit) = IF n >= limit THEN n ELSE limit
BY Asking!MaxOfTwo DEF AtLeast, Max, Asking!Max

(* q is p, or p with a first trim noted.                                   *)
Noted(lines, p, q) ==
    /\ q \in PlanSet(lines)
    /\ q.lines = p.lines /\ q.cost = p.cost /\ q.units = p.units /\ q.refusal = p.refusal
    /\ q.trimmed = None => q = p

(* Noting a trim changes nothing else, and leaves one noted.               *)
LEMMA FirstTrimNotes ==
    ASSUME NEW lines, NEW p \in PlanSet(lines), NEW why \in Trim
    PROVE  /\ Noted(lines, p, FirstTrim(p, why))
           /\ FirstTrim(p, why).trimmed # None
BY NoneAssumption DEF PlanSet, Noted, FirstTrim

(* Notes upon notes are notes.                                             *)
LEMMA NotedOnce ==
    ASSUME NEW lines, NEW p, NEW q, NEW r, Noted(lines, p, q), Noted(lines, q, r)
    PROVE  Noted(lines, p, r)
BY DEF Noted

TrimmedIf(p, m, n, why) == IF m < n THEN FirstTrim(p, why) ELSE p

(* A note where m is less than n.                                          *)
LEMMA TrimIf ==
    ASSUME NEW lines, NEW p \in PlanSet(lines), NEW why \in Trim,
           NEW m \in Int, NEW n \in Int, NEW q, q = TrimmedIf(p, m, n, why)
    PROVE  Noted(lines, p, q) /\ (q.trimmed = None => n <= m) /\ (n <= m => q = p)
<1>1. CASE m < n
  BY <1>1, FirstTrimNotes DEF TrimmedIf
<1>2. CASE ~(m < n)
  BY <1>2 DEF Noted, TrimmedIf
<1> QED BY <1>1, <1>2

(* The notes of one ask: none when all the units asked are taken.          *)
LEMMA TrimsNotes ==
    ASSUME NEW lines, NEW p \in PlanSet(lines),
           NEW asked \in Int, NEW onLine \in Int, NEW roomed \in Int, NEW taken \in Int
    PROVE  /\ Noted(lines, p, Trims(p, asked, onLine, roomed, taken))
           /\ Trims(p, asked, onLine, roomed, taken).trimmed = None
                => asked <= onLine /\ onLine <= roomed /\ roomed <= taken
           /\ (asked <= onLine /\ onLine <= roomed /\ roomed <= taken)
                => Trims(p, asked, onLine, roomed, taken) = p
<1> DEFINE a == TrimmedIf(p, onLine, asked, "line_shrank")
           b == TrimmedIf(a, roomed, onLine, "over_cap")
           c == TrimmedIf(b, taken, roomed, "balance_short")
<1>0. c = Trims(p, asked, onLine, roomed, taken)
  BY DEF Trims, TrimmedIf
<1>a. "line_shrank" \in Trim /\ "over_cap" \in Trim /\ "balance_short" \in Trim
  BY DEF Trim
<1>1. Noted(lines, p, a) /\ (a.trimmed = None => asked <= onLine) /\ (asked <= onLine => a = p)
  BY <1>a, TrimIf
<1> HIDE DEF a
<1>2. a \in PlanSet(lines)
  BY <1>1 DEF Noted
<1>3. Noted(lines, a, b) /\ (b.trimmed = None => onLine <= roomed) /\ (onLine <= roomed => b = a)
  BY <1>a, <1>2, TrimIf
<1> HIDE DEF b
<1>4. b \in PlanSet(lines)
  BY <1>3 DEF Noted
<1>5. Noted(lines, b, c) /\ (c.trimmed = None => roomed <= taken) /\ (roomed <= taken => c = b)
  BY <1>a, <1>4, TrimIf
<1> HIDE DEF c
<1>6. Noted(lines, p, c)
  BY <1>1, <1>3, <1>5, NotedOnce
<1>7. c.trimmed = None => asked <= onLine /\ onLine <= roomed /\ roomed <= taken
  BY <1>1, <1>3, <1>5 DEF Noted
<1> QED BY <1>0, <1>1, <1>3, <1>5, <1>6, <1>7

-----------------------------------------------------------------------------
UnitOf(lines, programmes, a) == ListedCost(lines[a.line].item, programmes[TrackOf(a)])

(* What both planners ask of a request, whatever its units.                *)
MayTake(lines, programmes, p, a) ==
    /\ a.line \in DOMAIN lines
    /\ ~Covers(p, a.line) /\ ~lines[a.line].combo /\ lines[a.line].item # None
    /\ TrackOf(a) \in DOMAIN programmes
    /\ UnitOf(lines, programmes, a) \in Int /\ UnitOf(lines, programmes, a) > 0

MayTakeAll(lines, programmes, p, a) ==
    /\ MayTake(lines, programmes, p, a)
    /\ UnitsAsked(a) \in 1..lines[a.line].quantity

(* The unit cost of an ask is a number or None.                            *)
LEMMA UnitType ==
    ASSUME NEW lines, NEW programmes, NEW cap, Given(lines, programmes, cap), NEW a,
           TrackOf(a) \in DOMAIN programmes
    PROVE  UnitOf(lines, programmes, a) \in Int \union {None}
BY ListedType DEF Given, UnitOf

(* The strict planner takes what may be taken as asked and refuses the     *)
(* rest.                                                                   *)
LEMMA StrictTakes ==
    ASSUME NEW lines, NEW programmes, NEW cap, Given(lines, programmes, cap),
           NEW p \in PlanSet(lines), NEW a, IsAsk(a), p.refusal = None,
           NEW q, q = StrictStep(lines, programmes, p, a)
    PROVE  /\ MayTakeAll(lines, programmes, p, a) =>
                  q = Take(p, lines, a, UnitOf(lines, programmes, a), UnitsAsked(a))
           /\ ~MayTakeAll(lines, programmes, p, a) =>
                  /\ q \in PlanSet(lines) /\ q.refusal # None
                  /\ q.lines = p.lines /\ q.units = p.units
<1> DEFINE why == AskRefusal(lines, programmes, p, a)
<1>1. UnitsAsked(a) \in Int
  BY AskTypes
<1>2. a.line \in DOMAIN lines => lines[a.line].quantity \in Int /\ lines[a.line].combo \in BOOLEAN
  BY DEF Given, IsLine
<1>3. a.line \in DOMAIN lines => a.line # None
  BY NoneAssumption DEF Given
<1>4. TrackOf(a) \in DOMAIN programmes => UnitOf(lines, programmes, a) \in Int \union {None}
  BY UnitType
<1>5. why = None <=> MayTakeAll(lines, programmes, p, a)
  BY <1>1, <1>2, <1>3, <1>4, NoneAssumption
     DEF AskRefusal, MayTakeAll, MayTake, UnitOf, Refusal
<1>6. why \in Refusal \union {None}
  BY DEF AskRefusal, Refusal
<1>7. why = None => q = Take(p, lines, a, UnitOf(lines, programmes, a), UnitsAsked(a))
  BY DEF StrictStep, UnitOf
<1>8. why # None => q = [p EXCEPT !.refusal = why]
  BY DEF StrictStep
<1> HIDE DEF why
<1>9. ASSUME why # None
      PROVE  /\ q \in PlanSet(lines) /\ q.refusal # None
             /\ q.lines = p.lines /\ q.units = p.units
  BY <1>6, <1>8, <1>9 DEF PlanSet
<1> QED BY <1>5, <1>7, <1>9

(* Once refused, the plan stands still.                                    *)
LEMMA StrictRefused ==
    ASSUME NEW lines, NEW programmes, NEW p, NEW a, p.refusal # None
    PROVE  StrictStep(lines, programmes, p, a) = p
BY DEF StrictStep

RoomFor(cap, units) == (cap # None /\ cap > 0) => units <= cap

(* A plan within the ceiling and every track's balance.                    *)
Within(lines, programmes, cap, p) ==
    /\ p \in PlanSet(lines) /\ RoomFor(cap, p.units)
    /\ \A track \in DOMAIN programmes :
           /\ SpentOn(p, track) \in Nat
           /\ SpentOn(p, track) <= AtLeast(programmes[track].balance, 0)

(* The till takes n units for the ask a, having noted a trim in m.         *)
TrimTaken(lines, programmes, cap, p, a, m, n, q) ==
    /\ MayTake(lines, programmes, p, a) /\ ~lines[a.line].staff
    /\ n \in Nat /\ n >= 1 /\ n <= lines[a.line].quantity /\ n <= UnitsAsked(a)
    /\ RoomFor(cap, p.units + n)
    /\ SpentOn(p, TrackOf(a)) + UnitOf(lines, programmes, a) * n
           <= AtLeast(programmes[TrackOf(a)].balance, 0)
    /\ Noted(lines, p, m)
    /\ m.trimmed = None => n = UnitsAsked(a)
    /\ q = Take(m, lines, a, UnitOf(lines, programmes, a), n)

(* The till takes nothing for the ask a.                                   *)
TrimPassed(lines, p, a, q) ==
    /\ Noted(lines, p, q)
    /\ q.trimmed = None => Covers(p, a.line) \/ UnitsAsked(a) < 1

(* There is room for all the units a asks for.                             *)
RoomForAll(lines, programmes, cap, p, a) ==
    /\ MayTakeAll(lines, programmes, p, a) /\ ~lines[a.line].staff
    /\ RoomFor(cap, p.units + UnitsAsked(a))
    /\ SpentOn(p, TrackOf(a)) + UnitOf(lines, programmes, a) * UnitsAsked(a)
           <= programmes[TrackOf(a)].balance

(* Units trimmed to what may be taken.                                     *)
LEMMA UnitsTrimmed ==
    ASSUME NEW lines, NEW programmes, NEW cap, Given(lines, programmes, cap),
           NEW p, Within(lines, programmes, cap, p), NEW a, IsAsk(a),
           MayTake(lines, programmes, p, a), ~lines[a.line].staff,
           NEW q, q = TrimUnits(p, lines, programmes[TrackOf(a)], cap, a,
                                UnitOf(lines, programmes, a))
    PROVE  /\ \/ \E m, n : TrimTaken(lines, programmes, cap, p, a, m, n, q)
              \/ TrimPassed(lines, p, a, q)
           /\ RoomForAll(lines, programmes, cap, p, a)
                => q = Take(p, lines, a, UnitOf(lines, programmes, a), UnitsAsked(a))
<1> DEFINE unit == UnitOf(lines, programmes, a)
           programme == programmes[TrackOf(a)]
           track == TrackOf(a)
           quantity == lines[a.line].quantity
           asked == UnitsAsked(a)
           onLine == AtMost(AtLeast(asked, 0), AtLeast(quantity, 0))
           room == AtLeast(cap - p.units, 0)
           roomed == IF cap # None /\ cap > 0 THEN AtMost(onLine, room) ELSE onLine
           points == AtLeast(programme.balance, 0)
           spent == SpentOn(p, track)
           affords == (points - spent) \div unit
           taken == AtMost(roomed, affords)
           noted == Trims(p, asked, onLine, roomed, taken)
<1>1. asked \in Int /\ quantity \in Int /\ unit \in Int /\ unit > 0 /\ p \in PlanSet(lines)
      /\ p.units \in Nat /\ cap \in Int \union {None} /\ programme.balance \in Int
  BY AskTypes DEF Given, IsLine, IsProgramme, MayTake, Within, PlanSet
<1>2. points \in Nat /\ (points = IF programme.balance >= 0 THEN programme.balance ELSE 0)
      /\ spent \in Nat /\ spent <= points
  BY <1>1, AtLeastIs DEF Within, MayTake
<1>3. q = IF taken <= 0 THEN noted ELSE Take(noted, lines, a, unit, taken)
  BY DEF TrimUnits, Affordable
<1>4. MayTake(lines, programmes, p, a) /\ ~lines[a.line].staff
  OBVIOUS
<1>5. RoomForAll(lines, programmes, cap, p, a) <=>
        /\ asked \in 1..quantity /\ RoomFor(cap, p.units + asked)
        /\ spent + unit * asked <= programme.balance
  BY DEF RoomForAll, MayTakeAll
<1>6. \A m, n : TrimTaken(lines, programmes, cap, p, a, m, n, q) <=>
        /\ n \in Nat /\ n >= 1 /\ n <= quantity /\ n <= asked /\ RoomFor(cap, p.units + n)
        /\ spent + unit * n <= points
        /\ Noted(lines, p, m) /\ (m.trimmed = None => n = asked)
        /\ q = Take(m, lines, a, unit, n)
  BY DEF TrimTaken
<1>7. TrimPassed(lines, p, a, q) <=>
        Noted(lines, p, q) /\ (q.trimmed = None => Covers(p, a.line) \/ asked < 1)
  BY DEF TrimPassed
<1>8. /\ AtLeast(asked, 0) = (IF asked >= 0 THEN asked ELSE 0)
      /\ AtLeast(quantity, 0) = (IF quantity >= 0 THEN quantity ELSE 0)
  BY <1>1, AtLeastIs
<1>9. cap # None => cap \in Int /\ room = (IF cap - p.units >= 0 THEN cap - p.units ELSE 0)
  BY <1>1, AtLeastIs
<1>10. RoomFor(cap, p.units)
  BY DEF Within
<1>11. affords \in Int /\ affords >= 0 /\ \A n \in Int : n <= affords <=> unit * n <= points - spent
  <2> HIDE DEF points, spent, unit
  <2>1. points - spent \in Int /\ points - spent >= 0
    BY <1>2
  <2>2. affords \in Int
    BY <1>1, <2>1
  <2>3. \A n \in Int : n <= affords <=> unit * n <= points - spent
    BY <1>1, <2>1, Affords
  <2>4. 0 <= affords
    BY <1>1, <2>1, <2>2
  <2> QED BY <2>2, <2>3, <2>4
<1> HIDE DEF unit, asked, quantity, points, spent, affords, room, track, programme
<1>12. onLine \in Int /\ onLine >= 0 /\ onLine <= AtLeast(asked, 0) /\ onLine <= AtLeast(quantity, 0)
       /\ (asked \in 1..quantity => onLine = asked)
  BY <1>1, <1>8, AtMostIs
<1> HIDE DEF onLine
<1>13. /\ roomed \in Int /\ roomed >= 0 /\ roomed <= onLine
       /\ RoomFor(cap, p.units + roomed)
       /\ RoomFor(cap, p.units + onLine) => roomed = onLine
  <2>1. CASE cap # None /\ cap > 0
    <3>1. cap \in Int /\ room \in Int /\ room >= 0 /\ p.units <= cap /\ room = cap - p.units
      BY <2>1, <1>1, <1>9, <1>10 DEF RoomFor
    <3>2. roomed = IF onLine <= room THEN onLine ELSE room
      BY <2>1, <3>1, <1>12, AtMostIs
    <3> QED BY <2>1, <3>1, <3>2, <1>1, <1>12 DEF RoomFor
  <2>2. CASE ~(cap # None /\ cap > 0)
    BY <2>2, <1>12 DEF RoomFor
  <2> QED BY <2>1, <2>2
<1> HIDE DEF roomed
<1>14. taken \in Int /\ taken >= 0 /\ taken <= roomed /\ taken <= affords
       /\ (roomed <= affords => taken = roomed)
  BY <1>11, <1>13, AtMostIs
<1> HIDE DEF taken
<1>15. /\ Noted(lines, p, noted)
       /\ noted.trimmed = None => asked <= onLine /\ onLine <= roomed /\ roomed <= taken
       /\ (asked <= onLine /\ onLine <= roomed /\ roomed <= taken) => noted = p
  BY <1>1, <1>12, <1>13, <1>14, TrimsNotes
<1> HIDE DEF noted
<1>16. CASE taken <= 0
  <2>1. q = noted
    BY <1>3, <1>16
  <2>2. noted.trimmed = None => asked < 1
    BY <1>15, <1>16, <1>12, <1>13, <1>14, <1>1
  <2>3. TrimPassed(lines, p, a, q)
    BY <1>7, <1>15, <2>1, <2>2
  <2>4. ~RoomForAll(lines, programmes, cap, p, a)
    <3> SUFFICES ASSUME RoomForAll(lines, programmes, cap, p, a) PROVE FALSE
      OBVIOUS
    <3>1. asked \in 1..quantity /\ onLine = asked /\ roomed = asked
      BY <1>5, <1>12, <1>13
    <3>2. spent + unit * asked <= points
      BY <1>1, <1>2, <1>5
    <3>3. asked <= affords
      <4>1. unit * asked \in Int /\ unit * asked <= points - spent
        BY <1>1, <1>2, <3>2
      <4> QED BY <1>1, <1>11, <4>1
    <3> QED BY <3>1, <3>3, <1>14, <1>16
  <2> QED BY <2>3, <2>4
<1>17. CASE taken > 0
  <2>1. q = Take(noted, lines, a, unit, taken)
    BY <1>3, <1>14, <1>17
  <2>2. taken \in Nat /\ taken >= 1 /\ taken <= quantity /\ taken <= asked
    BY <1>1, <1>8, <1>12, <1>13, <1>14, <1>17
  <2>3. RoomFor(cap, p.units + taken)
    BY <1>1, <1>13, <1>14 DEF RoomFor
  <2>4. spent + unit * taken <= points
    <3>1. unit * taken \in Int
      BY <1>1, <1>14
    <3>2. unit * taken <= points - spent
      <4>1. taken \in Int /\ taken <= affords
        BY <1>14
      <4> QED BY <1>11, <4>1
    <3> QED BY <1>2, <3>1, <3>2
  <2>5. noted.trimmed = None => taken = asked
    BY <1>15, <2>2, <1>1, <1>12, <1>13, <1>14
  <2>6. TrimTaken(lines, programmes, cap, p, a, noted, taken, q)
    BY <1>6, <1>15, <2>1, <2>2, <2>3, <2>4, <2>5
  <2>7. ASSUME RoomForAll(lines, programmes, cap, p, a)
        PROVE  q = Take(p, lines, a, unit, asked)
    <3>1. asked \in 1..quantity /\ onLine = asked /\ roomed = asked
      BY <1>5, <1>12, <1>13, <2>7
    <3>2. spent + unit * asked <= points
      BY <1>1, <1>2, <1>5, <2>7
    <3>3. asked <= affords
      <4>1. unit * asked \in Int /\ unit * asked <= points - spent
        BY <1>1, <1>2, <3>2
      <4> QED BY <1>1, <1>11, <4>1
    <3>4. taken = asked
      BY <3>1, <3>3, <1>14
    <3>5. noted = p
      BY <1>15, <3>1, <3>4, <1>1
    <3> QED BY <2>1, <3>4, <3>5
  <2> QED BY <2>6, <2>7 DEF unit, asked
<1> QED BY <1>14, <1>16, <1>17

(* Each step of the trimming planner takes or passes.                      *)
LEMMA TrimSteps ==
    ASSUME NEW lines, NEW programmes, NEW cap, Given(lines, programmes, cap),
           NEW p, Within(lines, programmes, cap, p), NEW a, IsAsk(a),
           NEW q, q = TrimStep(lines, programmes, cap, p, a)
    PROVE  /\ \/ \E m, n : TrimTaken(lines, programmes, cap, p, a, m, n, q)
              \/ TrimPassed(lines, p, a, q)
           /\ RoomForAll(lines, programmes, cap, p, a)
                => q = Take(p, lines, a, UnitOf(lines, programmes, a), UnitsAsked(a))
<1> DEFINE line == lines[a.line]
           unit == UnitCost(line, programmes[TrackOf(a)])
<1>1. p \in PlanSet(lines) /\ Noted(lines, p, p)
  BY DEF Within, Noted
<1>2. \A why \in Trim : TrimPassed(lines, p, a, FirstTrim(p, why))
  BY <1>1, FirstTrimNotes DEF TrimPassed
<1>3. "line_gone" \in Trim /\ "in_combo" \in Trim /\ "not_on_offer" \in Trim
  BY DEF Trim
<1>4. a.line \in DOMAIN lines => LineExists(lines, a)
  BY NoneAssumption DEF LineExists, Given
<1>5. CASE ~LineExists(lines, a)
  <2>1. q = FirstTrim(p, "line_gone")
    BY <1>5 DEF TrimStep
  <2> QED BY <1>2, <1>3, <1>4, <1>5, <2>1 DEF RoomForAll, MayTakeAll, MayTake
<1>6. CASE LineExists(lines, a) /\ Covers(p, a.line)
  <2>1. q = p
    BY <1>6 DEF TrimStep
  <2> QED BY <1>1, <1>6, <2>1 DEF RoomForAll, MayTakeAll, MayTake, TrimPassed
<1>7. CASE LineExists(lines, a) /\ ~Covers(p, a.line) /\ line.combo
  <2>1. q = FirstTrim(p, "in_combo")
    BY <1>7 DEF TrimStep
  <2> QED BY <1>2, <1>3, <1>7, <2>1 DEF RoomForAll, MayTakeAll, MayTake
<1>8. CASE LineExists(lines, a) /\ ~Covers(p, a.line) /\ ~line.combo
           /\ (TrackOf(a) \notin DOMAIN programmes \/ unit = None)
  <2>1. q = FirstTrim(p, "not_on_offer")
    BY <1>8 DEF TrimStep
  <2>2. ~RoomForAll(lines, programmes, cap, p, a)
    BY <1>8, NoneAssumption DEF RoomForAll, MayTakeAll, MayTake, UnitCost, UnitOf
  <2> QED BY <1>2, <1>3, <2>1, <2>2
<1>9. CASE LineExists(lines, a) /\ ~Covers(p, a.line) /\ ~line.combo
           /\ TrackOf(a) \in DOMAIN programmes /\ unit # None
  <2>1. /\ ~line.staff /\ line.item # None
        /\ unit = UnitOf(lines, programmes, a)
        /\ UnitOf(lines, programmes, a) # None /\ UnitOf(lines, programmes, a) > 0
    BY <1>9 DEF UnitCost, UnitOf
  <2>2. UnitOf(lines, programmes, a) \in Int
    BY <1>9, <2>1, UnitType
  <2>3. MayTake(lines, programmes, p, a)
    BY <1>9, <2>1, <2>2 DEF MayTake, LineExists
  <2>4. q = TrimUnits(p, lines, programmes[TrackOf(a)], cap, a, unit)
    BY <1>9 DEF TrimStep
  <2>5. q = TrimUnits(p, lines, programmes[TrackOf(a)], cap, a, UnitOf(lines, programmes, a))
    BY <2>1, <2>4
  <2> QED BY <2>1, <2>3, <2>5, UnitsTrimmed
<1> QED BY <1>5, <1>6, <1>7, <1>8, <1>9

-----------------------------------------------------------------------------
(* The plan without the note of what was trimmed.                          *)
Plain(p) == [p EXCEPT !.trimmed = None]

(* What a plan of the till's keeps: within its bounds; every line covered  *)
(* within its quantity; every track spent from has points; and what it     *)
(* takes, asked of the server, is the plan the server makes.               *)
TrimGood(lines, programmes, cap, p) ==
    /\ Within(lines, programmes, cap, p) /\ p.refusal = None
    /\ \A i \in DOMAIN lines :
           /\ UnitsOn(p, i) \in Nat /\ UnitsOn(p, i) <= AtLeast(lines[i].quantity, 0)
           /\ ~Covers(p, i) => UnitsOn(p, i) = 0
    /\ \A k \in DOMAIN p.lines :
           /\ p.lines[k].track \in DOMAIN programmes
           /\ programmes[p.lines[k].track].balance > 0
    /\ AllAsked(lines, programmes, AsksOf(p)) = Plain(p)

(* The empty plan is good.                                                 *)
LEMMA NothingIsGood ==
    ASSUME NEW lines, NEW programmes, NEW cap, Given(lines, programmes, cap)
    PROVE  TrimGood(lines, programmes, cap, EmptyPlan)
<1>1. EmptyPlan \in PlanSet(lines)
  BY EmptyIsPlan
<1>2. EmptyPlan.lines = <<>> /\ EmptyPlan.units = 0 /\ EmptyPlan.refusal = None
      /\ Plain(EmptyPlan) = EmptyPlan
  BY DEF EmptyPlan, Plain
<1>3. \A track : SpentOn(EmptyPlan, track) = 0
  BY SpentNothing
<1>4. \A line : UnitsOn(EmptyPlan, line) = 0
  BY UnitsNothing
<1>5. RoomFor(cap, 0)
  BY DEF Given, RoomFor
<1>6. \A track \in DOMAIN programmes : AtLeast(programmes[track].balance, 0) >= 0
  BY AtLeastIs DEF Given, IsProgramme
<1>7. \A i \in DOMAIN lines : AtLeast(lines[i].quantity, 0) >= 0
  BY AtLeastIs DEF Given, IsLine
<1>8. AsksOf(EmptyPlan) = <<>>
  BY <1>2 DEF AsksOf
<1>9. AllAsked(lines, programmes, AsksOf(EmptyPlan)) = Plain(EmptyPlan)
  BY <1>2, <1>8, AskedNothing
<1>10. Within(lines, programmes, cap, EmptyPlan)
  BY <1>1, <1>2, <1>3, <1>5, <1>6 DEF Within
<1>11. DOMAIN EmptyPlan.lines = {}
  BY <1>2
<1> QED BY <1>2, <1>4, <1>7, <1>9, <1>10, <1>11 DEF TrimGood

(* A good plan with a trim noted is good.                                  *)
LEMMA NotedIsGood ==
    ASSUME NEW lines, NEW programmes, NEW cap, NEW p, NEW q,
           TrimGood(lines, programmes, cap, p), Noted(lines, p, q)
    PROVE  TrimGood(lines, programmes, cap, q)
<1>1. p.lines = q.lines /\ p.units = q.units /\ p.refusal = q.refusal /\ q \in PlanSet(lines)
  BY DEF Noted
<1>2. Within(lines, programmes, cap, q)
  BY <1>1, SameLines DEF TrimGood, Within
<1>3. \A i \in DOMAIN lines :
          /\ UnitsOn(q, i) \in Nat /\ UnitsOn(q, i) <= AtLeast(lines[i].quantity, 0)
          /\ ~Covers(q, i) => UnitsOn(q, i) = 0
  BY <1>1, SameLines DEF TrimGood
<1>4. AsksOf(p) = AsksOf(q)
  BY <1>1 DEF AsksOf
<1>5. Plain(p) = Plain(q)
  BY DEF Plain, Noted, TrimGood, Within, PlanSet
<1> QED BY <1>1, <1>2, <1>3, <1>4, <1>5 DEF TrimGood

(* The plan without its note is otherwise the same.                        *)
LEMMA PlainIsPlan ==
    ASSUME NEW lines, NEW p \in PlanSet(lines)
    PROVE  /\ Plain(p) \in PlanSet(lines)
           /\ Plain(p).lines = p.lines /\ Plain(p).cost = p.cost /\ Plain(p).units = p.units
           /\ Plain(p).refusal = p.refusal /\ Plain(p).trimmed = None
           /\ p.trimmed = None => Plain(p) = p
BY DEF Plain, PlanSet

AskFor(a, n) == [line |-> a.line, units |-> n, track |-> TrackOf(a)]

(* The ask a line taken makes.                                             *)
LEMMA AskForIs ==
    ASSUME NEW a, TrackOf(a) \in Int, NEW n \in Int
    PROVE  TrackOf(AskFor(a, n)) = TrackOf(a) /\ UnitsAsked(AskFor(a, n)) = n
           /\ AskFor(a, n).line = a.line
BY NoneAssumption DEF AskFor, TrackOf, UnitsAsked

(* Asks a plan's lines make.                                               *)
SentSet(lines) == [line : DOMAIN lines, units : Nat, track : Int]

(* What the plan takes, asked of the server, one line more.                *)
LEMMA AsksGrow ==
    ASSUME NEW lines, NEW m, NEW a, NEW unit, NEW n, Takes(lines, m, a, unit, n),
           NEW q, q = Take(m, lines, a, unit, n)
    PROVE  /\ AsksOf(m) \in Seq(SentSet(lines))
           /\ AsksOf(q) = Append(AsksOf(m), AskFor(a, n))
<1> DEFINE e == Entry(lines, a, unit, n)
<1>0. m.lines \in Seq(Planned(lines)) /\ n \in Nat /\ a.line \in DOMAIN lines
      /\ TrackOf(a) \in Int
  BY DEF PlanSet, Takes
<1>1. q = With(m, e)
  BY TakeIs
<1>2. e.line = a.line /\ e.units = n /\ e.track = TrackOf(a) /\ e \in Planned(lines)
      /\ q.lines = Append(m.lines, e)
  BY <1>1, EntryIs DEF With
<1> HIDE DEF e
<1>3. /\ DOMAIN m.lines = 1..Len(m.lines) /\ Len(m.lines) \in Nat
      /\ DOMAIN q.lines = 1..(Len(m.lines) + 1)
      /\ \A k \in 1..Len(m.lines) : q.lines[k] = m.lines[k] /\ m.lines[k] \in Planned(lines)
      /\ q.lines[Len(m.lines) + 1] = e
  BY <1>0, <1>2
<1>4. \A k \in 1..Len(m.lines) : m.lines[k].line \in DOMAIN lines /\ m.lines[k].units \in Nat
                                   /\ m.lines[k].track \in Int
  BY <1>3 DEF Planned
<1> DEFINE A == [line : DOMAIN lines, units : Nat, track : Int]
           n1 == Len(m.lines)
           longer == Append(AsksOf(m), AskFor(a, n))
<1>5. AsksOf(m) = [k \in 1..n1 |-> [line |-> m.lines[k].line,
                       units |-> m.lines[k].units, track |-> m.lines[k].track]]
  BY <1>3 DEF AsksOf
<1>6. AsksOf(m) \in Seq(A) /\ Len(AsksOf(m)) = n1
  BY <1>3, <1>4, <1>5
<1>7. AsksOf(q) = [k \in 1..(n1 + 1) |-> [line |-> q.lines[k].line,
                       units |-> q.lines[k].units, track |-> q.lines[k].track]]
  BY <1>3 DEF AsksOf
<1>8. AskFor(a, n) \in A
  BY <1>0 DEF AskFor
<1>9. longer \in Seq(A) /\ Len(longer) = n1 + 1
      /\ longer[n1 + 1] = AskFor(a, n) /\ \A k \in 1..n1 : longer[k] = AsksOf(m)[k]
  <2> HIDE DEF A
  <2> QED BY <1>3, <1>6, <1>8
<1>10. ASSUME NEW k \in 1..(n1 + 1)
       PROVE  AsksOf(q)[k] = longer[k] /\ AsksOf(q)[k] \in A
  <2>1. AsksOf(q)[k] = [line |-> q.lines[k].line, units |-> q.lines[k].units,
                        track |-> q.lines[k].track]
    BY <1>7
  <2>2. CASE k = n1 + 1
    <3> HIDE DEF A, longer
    <3>1. AsksOf(q)[k] = AskFor(a, n)
      BY <1>2, <1>3, <2>1, <2>2 DEF AskFor
    <3> QED BY <1>8, <1>9, <2>2, <3>1
  <2>3. CASE k # n1 + 1
    <3> HIDE DEF A, longer
    <3>1. k \in 1..n1 /\ q.lines[k] = m.lines[k]
      BY <1>3, <2>3
    <3>2. AsksOf(q)[k] = AsksOf(m)[k]
      BY <1>5, <2>1, <3>1
    <3> QED BY <1>6, <1>9, <3>1, <3>2
  <2> QED BY <2>2, <2>3
<1>11. AsksOf(q) \in Seq(A) /\ Len(AsksOf(q)) = n1 + 1
  <2>1. DOMAIN AsksOf(q) = 1..(n1 + 1) /\ n1 + 1 \in Nat
    BY <1>3, <1>7
  <2>2. AsksOf(q) = [k \in 1..(n1 + 1) |-> AsksOf(q)[k]]
    BY <1>7
  <2> HIDE DEF A
  <2> QED BY <1>10, <2>1, <2>2
<1>12. AsksOf(q) = longer
  <2> HIDE DEF A, longer
  <2> QED BY <1>9, <1>10, <1>11, SeqEqual
<1> QED BY <1>6, <1>12 DEF SentSet

(* A good plan that takes what there is room for is good.                  *)
LEMMA TakenIsGood ==
    ASSUME NEW lines, NEW programmes, NEW cap, Given(lines, programmes, cap),
           NEW p, TrimGood(lines, programmes, cap, p), NEW a, IsAsk(a), NEW m, NEW n, NEW q,
           TrimTaken(lines, programmes, cap, p, a, m, n, q)
    PROVE  TrimGood(lines, programmes, cap, q)
<1> DEFINE unit == UnitOf(lines, programmes, a)
           e == Entry(lines, a, unit, n)
           ask == AskFor(a, n)
<1>1. TrimGood(lines, programmes, cap, m) /\ m \in PlanSet(lines)
  BY NotedIsGood DEF TrimTaken, Noted
<1>2. /\ a.line \in DOMAIN lines /\ TrackOf(a) \in Int /\ UnitsAsked(a) \in Int
      /\ unit \in Int /\ unit > 0 /\ n \in Nat /\ n >= 1
      /\ q = Take(m, lines, a, unit, n) /\ TrackOf(a) \in DOMAIN programmes
      /\ m.lines = p.lines /\ m.units = p.units
  BY AskTypes DEF TrimTaken, MayTake, Noted
<1>a. Takes(lines, m, a, unit, n)
  BY <1>1, <1>2 DEF Takes
<1>3. /\ e \in Planned(lines) /\ q \in PlanSet(lines) /\ q = With(m, e)
      /\ e.units = n /\ e.track = TrackOf(a)
  <2> HIDE DEF unit
  <2> QED BY <1>a, <1>2, TakeIs, EntryIs
<1>4. /\ \A track : SpentOn(q, track) =
             IF TrackOf(a) = track THEN SpentOn(p, track) + unit * n ELSE SpentOn(p, track)
      /\ \A line : UnitsOn(q, line) =
             IF a.line = line THEN UnitsOn(p, line) + n ELSE UnitsOn(p, line)
      /\ \A line : Covers(q, line) <=> (a.line = line \/ Covers(p, line))
  <2> HIDE DEF unit
  <2>1. /\ \A track : SpentOn(q, track) =
             IF TrackOf(a) = track THEN SpentOn(m, track) + unit * n ELSE SpentOn(m, track)
        /\ \A line : UnitsOn(q, line) =
             IF a.line = line THEN UnitsOn(m, line) + n ELSE UnitsOn(m, line)
        /\ \A line : Covers(q, line) <=> (a.line = line \/ Covers(m, line))
    BY <1>a, <1>2, TakeSums
  <2>2. /\ \A track : SpentOn(p, track) = SpentOn(m, track)
        /\ \A line : UnitsOn(p, line) = UnitsOn(m, line)
        /\ \A line : Covers(p, line) <=> Covers(m, line)
    BY <1>2, SameLines
  <2> QED BY <2>1, <2>2
<1>5. unit * n \in Int /\ unit * n >= 1
  <2> HIDE DEF unit
  <2>1. (unit - 1) * n >= 0
    BY <1>2
  <2>2. (unit - 1) * n = unit * n - n
    BY <1>2
  <2> QED BY <1>2, <2>1, <2>2
<1>6. SpentOn(p, TrackOf(a)) + unit * n <= AtLeast(programmes[TrackOf(a)].balance, 0)
      /\ RoomFor(cap, p.units + n) /\ n <= lines[a.line].quantity
  BY DEF TrimTaken
<1>7. Within(lines, programmes, cap, q) /\ q.refusal = None
  <2>1. q.refusal = None /\ q.units = p.units + n
    <3> HIDE DEF e
    <3> QED BY <1>1, <1>2, <1>3 DEF TrimGood, With
  <2>2. ASSUME NEW track \in DOMAIN programmes
        PROVE  SpentOn(q, track) \in Nat
               /\ SpentOn(q, track) <= AtLeast(programmes[track].balance, 0)
    <3>1. SpentOn(p, track) \in Nat
          /\ SpentOn(p, track) <= AtLeast(programmes[track].balance, 0)
      BY DEF TrimGood, Within
    <3> HIDE DEF unit
    <3> QED BY <1>4, <1>5, <1>6, <3>1
  <2> QED BY <1>3, <1>6, <2>1, <2>2 DEF Within
<1>8. ASSUME NEW i \in DOMAIN lines
      PROVE  /\ UnitsOn(q, i) \in Nat /\ UnitsOn(q, i) <= AtLeast(lines[i].quantity, 0)
             /\ ~Covers(q, i) => UnitsOn(q, i) = 0
  <2>1. /\ UnitsOn(p, i) \in Nat /\ UnitsOn(p, i) <= AtLeast(lines[i].quantity, 0)
        /\ ~Covers(p, i) => UnitsOn(p, i) = 0
    BY DEF TrimGood
  <2>2. ~Covers(p, a.line)
    BY DEF TrimTaken, MayTake
  <2>3. lines[i].quantity \in Int
        /\ AtLeast(lines[i].quantity, 0) =
              IF lines[i].quantity >= 0 THEN lines[i].quantity ELSE 0
    BY AtLeastIs DEF Given, IsLine
  <2> HIDE DEF unit
  <2> QED BY <1>2, <1>4, <1>6, <2>1, <2>2, <2>3
<1>9. programmes[TrackOf(a)].balance > 0
  <2>1. SpentOn(p, TrackOf(a)) \in Nat /\ programmes[TrackOf(a)].balance \in Int
    BY <1>2 DEF TrimGood, Within, Given, IsProgramme
  <2>2. AtLeast(programmes[TrackOf(a)].balance, 0) =
          IF programmes[TrackOf(a)].balance >= 0 THEN programmes[TrackOf(a)].balance ELSE 0
    BY <2>1, AtLeastIs
  <2> HIDE DEF unit
  <2> QED BY <1>5, <1>6, <2>1, <2>2
<1>10. ASSUME NEW k \in DOMAIN q.lines
       PROVE  /\ q.lines[k].track \in DOMAIN programmes
              /\ programmes[q.lines[k].track].balance > 0
  <2>1. m.lines \in Seq(Planned(lines))
    BY <1>1 DEF PlanSet
  <2> HIDE DEF e
  <2>2. q.lines = Append(m.lines, e)
    BY <1>3 DEF With
  <2>3. CASE k = Len(m.lines) + 1
    BY <1>2, <1>3, <1>9, <2>1, <2>2, <2>3
  <2>4. CASE k # Len(m.lines) + 1
    <3>1. k \in DOMAIN p.lines /\ q.lines[k] = p.lines[k]
      BY <1>2, <1>3, <2>1, <2>2, <2>4
    <3> QED BY <3>1 DEF TrimGood
  <2> QED BY <2>3, <2>4
<1>11. AllAsked(lines, programmes, AsksOf(q)) = Plain(q)
  <2>1. AsksOf(m) \in Seq(SentSet(lines)) /\ AsksOf(q) = Append(AsksOf(m), ask)
    <3>1. q = Take(m, lines, a, unit, n)
      BY <1>2
    <3> HIDE DEF unit
    <3> QED BY <1>a, <3>1, AsksGrow
  <2>2. ask \in SentSet(lines) /\ IsAsk(ask) /\ TrackOf(ask) = TrackOf(a) /\ UnitsAsked(ask) = n
        /\ ask.line = a.line
    <3>1. a.line \in Int
      BY <1>2 DEF Given
    <3> QED BY <1>2, <3>1, AskForIs DEF AskFor, IsAsk, SentSet
  <2>3. AllAsked(lines, programmes, AsksOf(q))
          = StrictStep(lines, programmes, Plain(m), ask)
    <3> HIDE DEF ask
    <3>1. AllAsked(lines, programmes, AsksOf(m)) = Plain(m)
      BY <1>1 DEF TrimGood
    <3> QED BY <2>1, <2>2, <3>1, AskedAppend
  <2>4. Plain(m) \in PlanSet(lines) /\ Plain(m).lines = m.lines /\ Plain(m).refusal = None
        /\ Plain(m).units = m.units /\ Plain(m).cost = m.cost /\ Plain(m).trimmed = None
    BY <1>1, PlainIsPlan DEF TrimGood
  <2>5. MayTakeAll(lines, programmes, Plain(m), ask)
    <3>1. ~Covers(Plain(m), a.line)
      <4>1. ~Covers(p, a.line)
        BY DEF TrimTaken, MayTake
      <4> QED BY <1>2, <2>4, <4>1, SameLines
    <3>2. UnitOf(lines, programmes, ask) = unit
      BY <2>2 DEF UnitOf
    <3>3. MayTake(lines, programmes, Plain(m), ask)
      <4> HIDE DEF ask
      <4> QED BY <1>2, <2>2, <3>1, <3>2 DEF TrimTaken, MayTake
    <3>4. n \in 1..lines[a.line].quantity
      BY <1>2, <1>6 DEF Given, IsLine
    <3> QED BY <2>2, <3>3, <3>4 DEF MayTakeAll
  <2>6. StrictStep(lines, programmes, Plain(m), ask) = Take(Plain(m), lines, ask, unit, n)
    <3>1. UnitOf(lines, programmes, ask) = unit
      BY <2>2 DEF UnitOf
    <3> HIDE DEF unit, ask
    <3> QED BY <2>2, <2>4, <2>5, <3>1, StrictTakes
  <2>7. Entry(lines, ask, unit, n) = e
    BY <2>2 DEF Entry
  <2>8. Take(Plain(m), lines, ask, unit, n) = With(Plain(m), e)
    <3>1. Takes(lines, Plain(m), ask, unit, n)
      BY <1>2, <2>2, <2>4 DEF Takes
    <3> HIDE DEF unit, ask
    <3> QED BY <2>7, <3>1, TakeIs
  <2>9. With(Plain(m), e) = Plain(With(m, e))
    <3> HIDE DEF e
    <3>1. m.refusal = None
      BY <1>1 DEF TrimGood
    <3>2. With(m, e) = [lines |-> Append(m.lines, e), cost |-> m.cost + e.cost,
                        units |-> m.units + e.units,
                        trimmed |-> m.trimmed, refusal |-> m.refusal]
      BY DEF With
    <3>3. Plain(With(m, e)) = [With(m, e) EXCEPT !.trimmed = None]
      BY DEF Plain
    <3> QED BY <2>4, <3>1, <3>2, <3>3 DEF With
  <2> QED BY <1>3, <2>3, <2>6, <2>8, <2>9
<1> QED BY <1>7, <1>8, <1>10, <1>11 DEF TrimGood

(* Requests a planner may be sent.                                         *)
Requests(asked) == asked \in Seq(Range(asked)) /\ \A k \in DOMAIN asked : IsAsk(asked[k])

(* Along its run the trimming planner's plan stays good.                   *)
LEMMA TrimRunGood ==
    ASSUME NEW lines, NEW programmes, NEW cap, Given(lines, programmes, cap),
           NEW asked, Requests(asked), NEW run, TrimRun(lines, programmes, cap, asked, run)
    PROVE  \A k \in 0..Len(asked) : TrimGood(lines, programmes, cap, run[k])
<1> DEFINE T == { k \in 0..Len(asked) : TrimGood(lines, programmes, cap, run[k]) }
<1>1. Len(asked) \in Nat /\ \A k \in 1..Len(asked) : IsAsk(asked[k])
  BY DEF Requests
<1>2. 0 \in T
  BY <1>1, NothingIsGood DEF TrimRun
<1>3. ASSUME NEW k \in 1..Len(asked), k - 1 \in T
      PROVE  k \in T
  <2>1. TrimGood(lines, programmes, cap, run[k - 1])
        /\ Within(lines, programmes, cap, run[k - 1])
        /\ run[k] = TrimStep(lines, programmes, cap, run[k - 1], asked[k]) /\ IsAsk(asked[k])
    BY <1>1, <1>3 DEF TrimGood, TrimRun
  <2>2. \/ \E m, n : TrimTaken(lines, programmes, cap, run[k - 1], asked[k], m, n, run[k])
        \/ TrimPassed(lines, run[k - 1], asked[k], run[k])
    BY <2>1, TrimSteps
  <2>3. TrimGood(lines, programmes, cap, run[k])
    <3>1. CASE TrimPassed(lines, run[k - 1], asked[k], run[k])
      BY <2>1, <3>1, NotedIsGood DEF TrimPassed
    <3>2. ASSUME NEW m, NEW n,
                 TrimTaken(lines, programmes, cap, run[k - 1], asked[k], m, n, run[k])
          PROVE  TrimGood(lines, programmes, cap, run[k])
      BY <2>1, <3>2, TakenIsGood
    <3> QED BY <2>2, <3>1, <3>2
  <2> QED BY <1>1, <2>3
<1> HIDE DEF T
<1>4. \A k \in 0..Len(asked) : k \in T
  BY <1>1, <1>2, <1>3, Asking!Upward
<1> QED BY <1>4 DEF T

(* So is the plan the till charges.                                        *)
LEMMA TrimmedIsGood ==
    ASSUME NEW lines, NEW programmes, NEW cap, Given(lines, programmes, cap),
           NEW asked, Requests(asked)
    PROVE  TrimGood(lines, programmes, cap, PlanTrimmed(lines, programmes, cap, asked))
<1>1. TrimGood(lines, programmes, cap, AllTrimmed(lines, programmes, cap, asked))
  <2>1. PICK run : TrimRun(lines, programmes, cap, asked, run)
                   /\ AllTrimmed(lines, programmes, cap, asked) = run[Len(asked)]
    BY TrimRuns DEF Requests
  <2>2. Len(asked) \in Nat
    BY DEF Requests
  <2> QED BY <2>1, <2>2, TrimRunGood
<1>2. TrimGood(lines, programmes, cap, [EmptyPlan EXCEPT !.trimmed = "not_on_offer"])
  <2>1. Noted(lines, EmptyPlan, [EmptyPlan EXCEPT !.trimmed = "not_on_offer"])
    <3>1. EmptyPlan \in PlanSet(lines)
      BY EmptyIsPlan
    <3>2. EmptyPlan.trimmed = None /\ "not_on_offer" \in Trim
      BY DEF EmptyPlan, Trim
    <3>3. FirstTrim(EmptyPlan, "not_on_offer") = [EmptyPlan EXCEPT !.trimmed = "not_on_offer"]
      BY <3>2 DEF FirstTrim
    <3> QED BY <3>1, <3>2, <3>3, FirstTrimNotes
  <2> QED BY <2>1, NothingIsGood, NotedIsGood
<1> QED BY <1>1, <1>2 DEF PlanTrimmed

(* A good plan the server makes of what it is asked is not refused.        *)
LEMMA GoodStands ==
    ASSUME NEW lines, NEW programmes, NEW cap, Given(lines, programmes, cap),
           NEW p, TrimGood(lines, programmes, cap, p), NEW asked,
           NEW r, r = AllAsked(lines, programmes, asked),
           r.lines = p.lines, r.units = p.units, r.refusal = None
    PROVE  PlanStrict(lines, programmes, cap, asked) = r
<1>1. RoomFor(cap, p.units)
  BY DEF TrimGood, Within
<1>2. WithinCap(cap, r.units)
  BY <1>1 DEF WithinCap, RoomFor
<1>3. ASSUME NEW k \in DOMAIN r.lines
      PROVE  ~(SpentOn(r, r.lines[k].track) > programmes[r.lines[k].track].balance)
  <2> DEFINE track == p.lines[k].track
  <2>1. track \in DOMAIN programmes /\ programmes[track].balance > 0
    BY <1>3 DEF TrimGood
  <2>2. SpentOn(p, track) \in Nat /\ SpentOn(p, track) <= AtLeast(programmes[track].balance, 0)
    BY <2>1 DEF TrimGood, Within
  <2>3. programmes[track].balance \in Int
    BY <2>1 DEF Given, IsProgramme
  <2>4. AtLeast(programmes[track].balance, 0) = programmes[track].balance
    BY <2>1, <2>3, AtLeastIs
  <2>5. SpentOn(r, track) = SpentOn(p, track)
    BY SameLines
  <2>6. SpentOn(p, track) <= programmes[track].balance
    BY <2>2, <2>4
  <2> HIDE DEF track
  <2>7. ~(SpentOn(r, track) > programmes[track].balance)
    BY <2>2, <2>3, <2>5, <2>6
  <2> QED BY <2>7 DEF track
<1> QED BY <1>2, <1>3 DEF PlanStrict

(* A good plan, asked of the server, is not refused and is the same plan.  *)
LEMMA GoodIsNotRefused ==
    ASSUME NEW lines, NEW programmes, NEW cap, Given(lines, programmes, cap),
           NEW p, TrimGood(lines, programmes, cap, p),
           NEW q, q = PlanStrict(lines, programmes, cap, AsksOf(p))
    PROVE  q.refusal = None /\ q.lines = p.lines /\ q.cost = p.cost /\ q.units = p.units
<1>1. p \in PlanSet(lines) /\ p.refusal = None
  BY DEF TrimGood, Within
<1>2. /\ Plain(p).lines = p.lines /\ Plain(p).cost = p.cost /\ Plain(p).units = p.units
      /\ Plain(p).refusal = None
  BY <1>1, PlainIsPlan
<1>3. AllAsked(lines, programmes, AsksOf(p)) = Plain(p)
  BY DEF TrimGood
<1>4. q = Plain(p)
  BY <1>2, <1>3, GoodStands
<1> QED BY <1>2, <1>4

(* Some reward is taken from the track.                                    *)
OnTrack(p, track) == \E k \in DOMAIN p.lines : p.lines[k].track = track

(* A track a reward is taken from stays one.                               *)
LEMMA TakeTracks ==
    ASSUME NEW lines, NEW p, NEW a, NEW unit, NEW n, Takes(lines, p, a, unit, n),
           NEW q, q = Take(p, lines, a, unit, n), NEW track
    PROVE  TrackOf(a) = track \/ OnTrack(p, track) => OnTrack(q, track)
<1> DEFINE e == Entry(lines, a, unit, n)
<1>1. q = With(p, e) /\ e.track = TrackOf(a) /\ e \in Planned(lines)
  BY TakeIs, EntryIs
<1>2. p.lines \in Seq(Planned(lines))
  BY DEF Takes, PlanSet
<1> HIDE DEF e
<1>3. q.lines = Append(p.lines, e)
  BY <1>1 DEF With
<1>4. /\ DOMAIN q.lines = 1..(Len(p.lines) + 1) /\ DOMAIN p.lines = 1..Len(p.lines)
      /\ Len(p.lines) \in Nat /\ q.lines[Len(p.lines) + 1] = e
      /\ \A k \in 1..Len(p.lines) : q.lines[k] = p.lines[k]
  BY <1>1, <1>2, <1>3
<1>5. CASE TrackOf(a) = track
  <2>1. Len(p.lines) + 1 \in DOMAIN q.lines /\ q.lines[Len(p.lines) + 1].track = track
    BY <1>1, <1>4, <1>5
  <2> QED BY <2>1 DEF OnTrack
<1>6. ASSUME NEW k \in DOMAIN p.lines, p.lines[k].track = track
      PROVE  OnTrack(q, track)
  <2>1. k \in DOMAIN q.lines /\ q.lines[k] = p.lines[k]
    BY <1>4, <1>6
  <2> QED BY <1>6, <2>1 DEF OnTrack
<1> QED BY <1>5, <1>6 DEF OnTrack

(* The strict planner's plan stays a plan.                                 *)
LEMMA StrictRunPlans ==
    ASSUME NEW lines, NEW programmes, NEW cap, Given(lines, programmes, cap),
           NEW asked, Requests(asked), NEW run, StrictRun(lines, programmes, asked, run)
    PROVE  \A k \in 0..Len(asked) :
               run[k] \in PlanSet(lines) /\ \A track : SpentOn(run[k], track) \in Int
<1> DEFINE Fits(k) == run[k] \in PlanSet(lines) /\ \A track : SpentOn(run[k], track) \in Int
           T == { k \in 0..Len(asked) : Fits(k) }
<1>1. Len(asked) \in Nat /\ \A k \in 1..Len(asked) : IsAsk(asked[k])
  BY DEF Requests
<1>2. 0 \in T
  BY <1>1, EmptyIsPlan, SpentNothing DEF StrictRun
<1>3. ASSUME NEW k \in 1..Len(asked), k - 1 \in T
      PROVE  k \in T
  <2> DEFINE p == run[k - 1]
             a == asked[k]
             unit == UnitOf(lines, programmes, a)
  <2>1. p \in PlanSet(lines) /\ (\A track : SpentOn(p, track) \in Int)
        /\ run[k] = StrictStep(lines, programmes, p, a) /\ IsAsk(a)
    BY <1>1, <1>3 DEF StrictRun
  <2>2. CASE p.refusal # None
    BY <1>1, <2>1, <2>2, StrictRefused
  <2>3. CASE p.refusal = None /\ MayTakeAll(lines, programmes, p, a)
    <3>1. run[k] = Take(p, lines, a, unit, UnitsAsked(a))
      BY <2>1, <2>3, StrictTakes
    <3>2. Takes(lines, p, a, unit, UnitsAsked(a))
      <4>1. TrackOf(a) \in Int /\ UnitsAsked(a) \in Nat
        BY <2>1, <2>3, AskTypes DEF MayTakeAll, MayTake, Given, IsLine
      <4> QED BY <2>1, <2>3, <4>1 DEF Takes, MayTakeAll, MayTake
    <3>3. unit * UnitsAsked(a) \in Int
      BY <3>2 DEF Takes
    <3> HIDE DEF unit, p, a
    <3>4. run[k] \in PlanSet(lines)
      BY <3>1, <3>2, TakeIs
    <3>5. \A track : SpentOn(run[k], track) =
             IF TrackOf(a) = track THEN SpentOn(p, track) + unit * UnitsAsked(a)
             ELSE SpentOn(p, track)
      BY <3>1, <3>2, TakeSums
    <3>6. \A track : SpentOn(run[k], track) \in Int
      BY <2>1, <3>3, <3>5
    <3> QED BY <1>1, <3>4, <3>6
  <2>4. CASE p.refusal = None /\ ~MayTakeAll(lines, programmes, p, a)
    <3>1. run[k] \in PlanSet(lines) /\ run[k].lines = p.lines
      BY <2>1, <2>4, StrictTakes
    <3>2. \A track : SpentOn(run[k], track) = SpentOn(p, track)
      BY <3>1, SameLines
    <3> QED BY <1>1, <2>1, <3>1, <3>2
  <2> QED BY <2>2, <2>3, <2>4
<1> HIDE DEF T
<1>4. \A k \in 0..Len(asked) : k \in T
  BY <1>1, <1>2, <1>3, Asking!Upward
<1> QED BY <1>4 DEF T

(* One ask taken whole, on the way to a plan the server does not refuse.   *)
Taken(lines, programmes, p, a, q, last) ==
    /\ p.refusal = None /\ q.refusal = None
    /\ MayTakeAll(lines, programmes, p, a)
    /\ q = Take(p, lines, a, UnitOf(lines, programmes, a), UnitsAsked(a))
    /\ p.units + UnitsAsked(a) <= last.units
    /\ OnTrack(last, TrackOf(a))
    /\ SpentOn(p, TrackOf(a)) + UnitOf(lines, programmes, a) * UnitsAsked(a)
           <= SpentOn(last, TrackOf(a))

(* What an ask taken adds.                                                 *)
LEMMA WholeAdds ==
    ASSUME NEW lines, NEW programmes, NEW cap, Given(lines, programmes, cap),
           NEW p \in PlanSet(lines), \A track : SpentOn(p, track) \in Int,
           NEW a, IsAsk(a), MayTakeAll(lines, programmes, p, a),
           NEW unit, unit = UnitOf(lines, programmes, a),
           NEW q, q = Take(p, lines, a, unit, UnitsAsked(a))
    PROVE  /\ Takes(lines, p, a, unit, UnitsAsked(a))
           /\ q.units = p.units + UnitsAsked(a) /\ UnitsAsked(a) \in Nat
           /\ q.trimmed = p.trimmed /\ q.refusal = p.refusal
           /\ SpentOn(q, TrackOf(a)) = SpentOn(p, TrackOf(a)) + unit * UnitsAsked(a)
           /\ \A track : SpentOn(p, track) <= SpentOn(q, track)
           /\ \A line : Covers(q, line) <=> (a.line = line \/ Covers(p, line))
<1>1. Takes(lines, p, a, unit, UnitsAsked(a)) /\ UnitsAsked(a) \in Nat /\ unit > 0
  <2>1. TrackOf(a) \in Int /\ UnitsAsked(a) \in Nat
    BY AskTypes DEF MayTakeAll, MayTake, Given, IsLine
  <2> QED BY <2>1 DEF Takes, MayTakeAll, MayTake
<1>2. unit \in Int /\ unit * UnitsAsked(a) >= 0 /\ unit * UnitsAsked(a) \in Int
  BY <1>1 DEF Takes
<1>3. q = With(p, Entry(lines, a, unit, UnitsAsked(a)))
      /\ Entry(lines, a, unit, UnitsAsked(a)).units = UnitsAsked(a)
  BY <1>1, TakeIs, EntryIs
<1>4. q.units = p.units + UnitsAsked(a) /\ q.trimmed = p.trimmed /\ q.refusal = p.refusal
  BY <1>3 DEF With
<1>5. /\ \A track : SpentOn(q, track) =
             IF TrackOf(a) = track THEN SpentOn(p, track) + unit * UnitsAsked(a)
             ELSE SpentOn(p, track)
      /\ \A line : Covers(q, line) <=> (a.line = line \/ Covers(p, line))
  BY <1>1, TakeSums
<1> QED BY <1>1, <1>2, <1>4, <1>5

(* Where the strict run ends unrefused, it took every ask whole.           *)
LEMMA StrictRunTakes ==
    ASSUME NEW lines, NEW programmes, NEW cap, Given(lines, programmes, cap),
           NEW asked, Requests(asked), NEW run, StrictRun(lines, programmes, asked, run),
           run[Len(asked)].refusal = None
    PROVE  \A k \in 1..Len(asked) :
               Taken(lines, programmes, run[k - 1], asked[k], run[k], run[Len(asked)])
<1> DEFINE last == run[Len(asked)]
           Below(k) ==
               /\ run[k].refusal = None /\ run[k].units <= last.units
               /\ \A track : SpentOn(run[k], track) <= SpentOn(last, track)
               /\ \A track : OnTrack(run[k], track) => OnTrack(last, track)
           T == { k \in 0..Len(asked) : Below(k) }
<1>1. Len(asked) \in Nat /\ \A k \in 1..Len(asked) : IsAsk(asked[k])
  BY DEF Requests
<1>2. \A k \in 0..Len(asked) :
          run[k] \in PlanSet(lines) /\ \A track : SpentOn(run[k], track) \in Int
  BY StrictRunPlans
<1>3. Len(asked) \in T
  <2>1. last.units \in Nat /\ \A track : SpentOn(last, track) \in Int
    BY <1>1, <1>2 DEF PlanSet
  <2>2. Below(Len(asked))
    BY <2>1
  <2> QED BY <1>1, <2>2
<1>4. ASSUME NEW k \in 1..Len(asked), k \in T
      PROVE  k - 1 \in T /\ Taken(lines, programmes, run[k - 1], asked[k], run[k], last)
  <2> DEFINE p == run[k - 1]
             q == run[k]
             a == asked[k]
             unit == UnitOf(lines, programmes, a)
  <2>1. /\ p \in PlanSet(lines) /\ (\A track : SpentOn(p, track) \in Int) /\ IsAsk(a)
        /\ q \in PlanSet(lines) /\ (\A track : SpentOn(q, track) \in Int)
        /\ q = StrictStep(lines, programmes, p, a) /\ k - 1 \in 0..Len(asked)
        /\ last \in PlanSet(lines) /\ \A track : SpentOn(last, track) \in Int
    <3>1. k - 1 \in 0..Len(asked) /\ k \in 0..Len(asked) /\ Len(asked) \in 0..Len(asked)
      BY <1>1
    <3>2. q = StrictStep(lines, programmes, p, a) /\ IsAsk(a)
      BY <1>1 DEF StrictRun
    <3> QED BY <1>2, <3>1, <3>2
  <2>2. Below(k)
    BY <1>4
  <2> HIDE DEF T, p, q, a, last
  <2>3. q.refusal = None /\ q.units <= last.units
        /\ (\A track : SpentOn(q, track) <= SpentOn(last, track))
        /\ \A track : OnTrack(q, track) => OnTrack(last, track)
    BY <2>2 DEF q
  <2> HIDE DEF Below
  <2>4. p.refusal = None
    BY <2>1, <2>3, StrictRefused
  <2>5. MayTakeAll(lines, programmes, p, a)
    BY <2>1, <2>3, <2>4, StrictTakes
  <2>6. q = Take(p, lines, a, unit, UnitsAsked(a))
    BY <2>1, <2>4, <2>5, StrictTakes
  <2> HIDE DEF unit
  <2>7. /\ Takes(lines, p, a, unit, UnitsAsked(a))
        /\ q.units = p.units + UnitsAsked(a) /\ UnitsAsked(a) \in Nat
        /\ SpentOn(q, TrackOf(a)) = SpentOn(p, TrackOf(a)) + unit * UnitsAsked(a)
        /\ \A track : SpentOn(p, track) <= SpentOn(q, track)
    BY <2>1, <2>5, <2>6, WholeAdds DEF unit
  <2>8. \A track : TrackOf(a) = track \/ OnTrack(p, track) => OnTrack(q, track)
    BY <2>6, <2>7, TakeTracks
  <2>9. p.units \in Nat /\ q.units \in Nat /\ last.units \in Nat
    BY <2>1 DEF PlanSet
  <2>10. Taken(lines, programmes, p, a, q, last)
    <3>1. OnTrack(last, TrackOf(a))
      BY <2>3, <2>8
    <3>2. p.units + UnitsAsked(a) <= last.units
      BY <2>3, <2>7
    <3>3. SpentOn(p, TrackOf(a)) + unit * UnitsAsked(a) <= SpentOn(last, TrackOf(a))
      BY <2>3, <2>7
    <3> QED BY <2>3, <2>4, <2>5, <2>6, <3>1, <3>2, <3>3 DEF Taken, unit
  <2>11. /\ p.refusal = None /\ p.units <= last.units
         /\ (\A track : SpentOn(p, track) <= SpentOn(last, track))
         /\ \A track : OnTrack(p, track) => OnTrack(last, track)
    <3>1. p.units <= last.units
      BY <2>3, <2>7, <2>9
    <3>2. ASSUME NEW track PROVE SpentOn(p, track) <= SpentOn(last, track)
      <4>1. SpentOn(p, track) \in Int /\ SpentOn(q, track) \in Int
            /\ SpentOn(last, track) \in Int
        BY <2>1
      <4>2. SpentOn(p, track) <= SpentOn(q, track) /\ SpentOn(q, track) <= SpentOn(last, track)
        BY <2>3, <2>7
      <4> QED BY <4>1, <4>2
    <3> QED BY <2>3, <2>4, <2>8, <3>1, <3>2
  <2>12. k - 1 \in T
    BY <2>1, <2>11 DEF T, Below, p
  <2> QED BY <2>10, <2>12 DEF p, q, a
<1> HIDE DEF T
<1>5. \A k \in 0..Len(asked) : k \in T
  BY <1>1, <1>3, <1>4, Asking!Downward
<1> QED BY <1>1, <1>4, <1>5

(* What is asked makes a plan.                                             *)
LEMMA AskedIsPlan ==
    ASSUME NEW lines, NEW programmes, NEW cap, Given(lines, programmes, cap),
           NEW asked, Requests(asked)
    PROVE  AllAsked(lines, programmes, asked) \in PlanSet(lines)
<1>1. PICK run : StrictRun(lines, programmes, asked, run)
                 /\ AllAsked(lines, programmes, asked) = run[Len(asked)]
  BY StrictRuns DEF Requests
<1>2. Len(asked) \in 0..Len(asked)
  BY DEF Requests
<1> QED BY <1>1, <1>2, StrictRunPlans

(* What the strict planner's last word needs of the asks before it.        *)
LEMMA StrictStands ==
    ASSUME NEW lines, NEW programmes, NEW cap, Given(lines, programmes, cap),
           NEW asked, Requests(asked),
           NEW r, r = AllAsked(lines, programmes, asked),
           PlanStrict(lines, programmes, cap, asked).refusal = None
    PROVE  /\ PlanStrict(lines, programmes, cap, asked) = r
           /\ r.refusal = None /\ RoomFor(cap, r.units)
           /\ \A track : OnTrack(r, track) =>
                  ~(SpentOn(r, track) > programmes[track].balance)
<1>1. "over_cap" # None /\ "balance_short" # None
  BY NoneAssumption DEF Refusal
<1>2. r \in PlanSet(lines)
  BY AskedIsPlan
<1>3. [r EXCEPT !.refusal = "over_cap"].refusal # None
      /\ [r EXCEPT !.refusal = "balance_short"].refusal # None
  BY <1>1, <1>2 DEF PlanSet
<1> QED BY <1>3 DEF PlanStrict, WithinCap, RoomFor, OnTrack

(* What the server takes as asked, and is no staff drink, the till takes   *)
(* as asked.                                                               *)
LEMMA NothingTrimmed ==
    ASSUME NEW lines, NEW programmes, NEW cap, Given(lines, programmes, cap),
           NEW asked, Requests(asked), \A i \in DOMAIN lines : ~lines[i].staff,
           PlanStrict(lines, programmes, cap, asked).refusal = None
    PROVE  PlanTrimmed(lines, programmes, cap, asked) = PlanStrict(lines, programmes, cap, asked)
<1> DEFINE n == Len(asked)
           last == AllAsked(lines, programmes, asked)
<1>1. n \in Nat /\ DOMAIN asked = 1..n /\ \A k \in 1..n : IsAsk(asked[k])
  BY DEF Requests
<1>2. PICK s : StrictRun(lines, programmes, asked, s) /\ last = s[n]
  BY StrictRuns DEF Requests
<1>3. PICK t : TrimRun(lines, programmes, cap, asked, t)
               /\ AllTrimmed(lines, programmes, cap, asked) = t[n]
  BY TrimRuns DEF Requests
<1>4. /\ PlanStrict(lines, programmes, cap, asked) = last
      /\ last.refusal = None /\ RoomFor(cap, last.units)
      /\ \A track : OnTrack(last, track) => ~(SpentOn(last, track) > programmes[track].balance)
  BY StrictStands
<1>5. \A k \in 1..n : Taken(lines, programmes, s[k - 1], asked[k], s[k], last)
  BY <1>2, <1>4, StrictRunTakes
<1>6. \A k \in 0..n : s[k] \in PlanSet(lines) /\ \A track : SpentOn(s[k], track) \in Int
  BY <1>2, StrictRunPlans
<1>7. \A k \in 0..n : TrimGood(lines, programmes, cap, t[k])
  BY <1>3, TrimRunGood
<1>8. last \in PlanSet(lines) /\ (\A track : SpentOn(last, track) \in Int)
  <2>1. n \in 0..n
    BY <1>1
  <2> QED BY <1>2, <1>6, <2>1
<1> DEFINE T == { k \in 0..n : s[k] = t[k] }
<1>9. 0 \in T
  BY <1>1, <1>2, <1>3 DEF StrictRun, TrimRun
<1>10. ASSUME NEW k \in 1..n, k - 1 \in T
       PROVE  k \in T
  <2> DEFINE p == s[k - 1]
             a == asked[k]
             unit == UnitOf(lines, programmes, a)
  <2>1. k - 1 \in 0..n /\ k \in 0..n /\ t[k - 1] = p
    BY <1>1, <1>10
  <2>2. /\ Taken(lines, programmes, p, a, s[k], last) /\ IsAsk(a)
        /\ p \in PlanSet(lines) /\ SpentOn(p, TrackOf(a)) \in Int
        /\ Within(lines, programmes, cap, p)
        /\ t[k] = TrimStep(lines, programmes, cap, p, a)
    BY <1>1, <1>3, <1>5, <1>6, <1>7, <2>1 DEF TrimGood, TrimRun
  <2> HIDE DEF p, a, last, n, T
  <2>3. /\ MayTakeAll(lines, programmes, p, a) /\ a.line \in DOMAIN lines
        /\ TrackOf(a) \in DOMAIN programmes
        /\ unit \in Int /\ UnitsAsked(a) \in Int
        /\ s[k] = Take(p, lines, a, unit, UnitsAsked(a))
        /\ p.units + UnitsAsked(a) <= last.units /\ OnTrack(last, TrackOf(a))
        /\ SpentOn(p, TrackOf(a)) + unit * UnitsAsked(a) <= SpentOn(last, TrackOf(a))
    BY <2>2, AskTypes DEF Taken, MayTakeAll, MayTake
  <2> HIDE DEF unit
  <2>4. RoomFor(cap, p.units + UnitsAsked(a))
    <3>1. p.units \in Nat /\ last.units \in Nat
      BY <1>8, <2>2 DEF PlanSet
    <3> QED BY <1>4, <2>3, <3>1 DEF RoomFor, Given
  <2>5. SpentOn(p, TrackOf(a)) + unit * UnitsAsked(a) <= programmes[TrackOf(a)].balance
    <3>1. programmes[TrackOf(a)].balance \in Int
      BY <2>3 DEF Given, IsProgramme
    <3>2. unit * UnitsAsked(a) \in Int /\ SpentOn(last, TrackOf(a)) \in Int
      BY <1>8, <2>3
    <3>3. SpentOn(last, TrackOf(a)) <= programmes[TrackOf(a)].balance
      BY <1>4, <2>3, <3>1, <3>2
    <3> QED BY <2>2, <2>3, <3>1, <3>2, <3>3
  <2>6. RoomForAll(lines, programmes, cap, p, a)
    BY <2>3, <2>4, <2>5 DEF RoomForAll, unit
  <2>7. t[k] = Take(p, lines, a, unit, UnitsAsked(a))
    BY <2>2, <2>6, TrimSteps DEF unit
  <2> QED BY <2>1, <2>3, <2>7 DEF T
<1> HIDE DEF T
<1>11. \A k \in 0..n : k \in T
  BY <1>1, <1>9, <1>10, Asking!Upward
<1>12. AllTrimmed(lines, programmes, cap, asked) = last
  <2>1. n \in T
    BY <1>1, <1>11
  <2> QED BY <1>2, <1>3, <2>1 DEF T
<1>13. ~(asked # <<>> /\ 1 \notin DOMAIN programmes
           /\ \A k \in DOMAIN asked : TrackOf(asked[k]) = 1)
  <2> SUFFICES ASSUME asked # <<>>, 1 \notin DOMAIN programmes,
                      \A k \in DOMAIN asked : TrackOf(asked[k]) = 1
               PROVE  FALSE
    OBVIOUS
  <2>1. 1 \in 1..n
    BY <1>1 DEF Requests
  <2>2. TrackOf(asked[1]) \in DOMAIN programmes
    BY <1>5, <2>1 DEF Taken, MayTakeAll, MayTake
  <2> QED BY <1>1, <2>1, <2>2
<1> QED BY <1>4, <1>12, <1>13 DEF PlanTrimmed

(* What the till takes untrimmed, each line asked for once and for at      *)
(* least a unit, the server takes.                                         *)
LEMMA UntrimmedStands ==
    ASSUME NEW lines, NEW programmes, NEW cap, Given(lines, programmes, cap),
           NEW asked, Requests(asked),
           PlanTrimmed(lines, programmes, cap, asked).trimmed = None,
           \A k \in DOMAIN asked : UnitsAsked(asked[k]) >= 1,
           \A j, k \in DOMAIN asked : asked[j].line = asked[k].line => j = k
    PROVE  PlanStrict(lines, programmes, cap, asked).refusal = None
<1> DEFINE n == Len(asked)
<1>1. n \in Nat /\ DOMAIN asked = 1..n /\ \A k \in 1..n : IsAsk(asked[k])
  BY DEF Requests
<1>2. PICK s : StrictRun(lines, programmes, asked, s)
               /\ AllAsked(lines, programmes, asked) = s[n]
  BY StrictRuns DEF Requests
<1>3. PICK t : TrimRun(lines, programmes, cap, asked, t)
               /\ AllTrimmed(lines, programmes, cap, asked) = t[n]
  BY TrimRuns DEF Requests
<1>4. \A k \in 0..n : TrimGood(lines, programmes, cap, t[k])
  BY <1>3, TrimRunGood
<1>5. t[n].trimmed = None
  <2>1. [EmptyPlan EXCEPT !.trimmed = "not_on_offer"].trimmed # None
    BY NoneAssumption DEF EmptyPlan, Trim
  <2> QED BY <1>3, <2>1 DEF PlanTrimmed
(* Each step takes the ask whole, or passes a line already covered.        *)
<1> DEFINE Step(k) ==
               \/ /\ MayTakeAll(lines, programmes, t[k - 1], asked[k])
                  /\ t[k] = Take(t[k - 1], lines, asked[k],
                                 UnitOf(lines, programmes, asked[k]), UnitsAsked(asked[k]))
               \/ t[k] = t[k - 1] /\ Covers(t[k - 1], asked[k].line)
           U == { k \in 0..n : t[k].trimmed = None }
<1>6. ASSUME NEW k \in 1..n, k \in U
      PROVE  k - 1 \in U /\ Step(k)
  <2> DEFINE p == t[k - 1]
             a == asked[k]
             q == t[k]
  <2>1. /\ k - 1 \in 0..n /\ k \in 0..n /\ IsAsk(a) /\ q.trimmed = None
        /\ TrimGood(lines, programmes, cap, p) /\ Within(lines, programmes, cap, p)
        /\ UnitsAsked(a) >= 1 /\ UnitsAsked(a) \in Int
        /\ q = TrimStep(lines, programmes, cap, p, a)
    <3>1. k - 1 \in 0..n /\ k \in 0..n
      BY <1>1
    <3>2. IsAsk(a) /\ UnitsAsked(a) >= 1 /\ UnitsAsked(a) \in Int
      BY <1>1, AskTypes
    <3>3. TrimGood(lines, programmes, cap, p) /\ Within(lines, programmes, cap, p)
      BY <1>4, <3>1 DEF TrimGood
    <3> QED BY <1>3, <1>6, <3>1, <3>2, <3>3 DEF TrimRun
  <2>2. q.trimmed = None /\ k - 1 \in 0..n
    BY <2>1
  <2> HIDE DEF p, a, q, U, n
  <2>3. \/ \E m, i : TrimTaken(lines, programmes, cap, p, a, m, i, q)
        \/ TrimPassed(lines, p, a, q)
    BY <2>1, TrimSteps
  <2>4. CASE TrimPassed(lines, p, a, q)
    <3>1. q = p /\ Covers(p, a.line)
      BY <2>1, <2>4 DEF TrimPassed, Noted
    <3> QED BY <2>2, <3>1 DEF U, p, q, a
  <2>5. ASSUME NEW m, NEW i, TrimTaken(lines, programmes, cap, p, a, m, i, q)
        PROVE  p.trimmed = None /\ MayTakeAll(lines, programmes, p, a)
               /\ q = Take(p, lines, a, UnitOf(lines, programmes, a), UnitsAsked(a))
    <3> DEFINE unit == UnitOf(lines, programmes, a)
    <3>1. /\ Noted(lines, p, m) /\ (m.trimmed = None => i = UnitsAsked(a))
          /\ MayTake(lines, programmes, p, a) /\ i \in Nat /\ i <= lines[a.line].quantity
          /\ q = Take(m, lines, a, unit, i)
      BY <2>5 DEF TrimTaken
    <3>2. Takes(lines, m, a, unit, i)
      BY <2>1, <3>1, AskTypes DEF Takes, Noted, MayTake
    <3> HIDE DEF unit
    <3>3. q = With(m, Entry(lines, a, unit, i))
      BY <3>1, <3>2, TakeIs
    <3>4. m.trimmed = None
      BY <2>1, <3>3 DEF With
    <3>5. m = p /\ i = UnitsAsked(a)
      BY <3>1, <3>4 DEF Noted
    <3>6. UnitsAsked(a) \in 1..lines[a.line].quantity
      BY <2>1, <3>1, <3>5 DEF Given, IsLine, MayTake
    <3> QED BY <3>1, <3>4, <3>5, <3>6 DEF unit, MayTakeAll
  <2>6. CASE \E m, i : TrimTaken(lines, programmes, cap, p, a, m, i, q)
    BY <2>2, <2>5, <2>6 DEF U, p, q, a
  <2> QED BY <2>3, <2>4, <2>6
<1> DEFINE Whole(k) ==
               /\ s[k] = t[k]
               /\ \A line : Covers(t[k], line) => \E j \in 1..k : asked[j].line = line
           T == { k \in 0..n : Whole(k) }
<1>7. \A k \in 0..n : k \in U
  <2>1. n \in U
    BY <1>1, <1>5
  <2> HIDE DEF U, Step
  <2> QED BY <1>1, <1>6, <2>1, Asking!Downward
<1>8. \A k \in 1..n : Step(k)
  <2> HIDE DEF U, Step
  <2> QED BY <1>1, <1>6, <1>7
<1>9. 0 \in T
  BY <1>1, <1>2, <1>3 DEF StrictRun, TrimRun, EmptyPlan, Covers
<1>10. ASSUME NEW k \in 1..n, k - 1 \in T
       PROVE  k \in T
  <2> DEFINE p == t[k - 1]
             a == asked[k]
             q == t[k]
             unit == UnitOf(lines, programmes, a)
  <2>1. /\ k - 1 \in 0..n /\ k \in 0..n /\ k - 1 \in Nat
        /\ s[k - 1] = p /\ s[k] = StrictStep(lines, programmes, p, a)
        /\ \A line : Covers(p, line) => \E j \in 1..(k - 1) : asked[j].line = line
    BY <1>1, <1>2, <1>10 DEF StrictRun
  <2>2. p \in PlanSet(lines) /\ p.refusal = None /\ IsAsk(a)
    BY <1>1, <1>4, <2>1 DEF TrimGood, Within
  <2>3. /\ MayTakeAll(lines, programmes, p, a)
        /\ q = Take(p, lines, a, unit, UnitsAsked(a))
    <3>1. ~Covers(p, a.line)
      <4> SUFFICES ASSUME Covers(p, a.line) PROVE FALSE
        OBVIOUS
      <4>1. PICK j \in 1..(k - 1) : asked[j].line = a.line
        BY <2>1
      <4>2. j \in DOMAIN asked /\ k \in DOMAIN asked /\ j # k
        BY <1>1, <2>1
      <4> QED BY <4>1, <4>2
    <3> QED BY <1>8, <3>1
  <2>4. s[k] = q
    <3> HIDE DEF p, a, q
    <3> QED BY <2>1, <2>2, <2>3, StrictTakes
  <2>5. Takes(lines, p, a, unit, UnitsAsked(a))
    <3>1. TrackOf(a) \in Int /\ UnitsAsked(a) \in Nat
      BY <2>2, <2>3, AskTypes DEF MayTakeAll, MayTake, Given, IsLine
    <3> QED BY <2>2, <2>3, <3>1 DEF Takes, MayTakeAll, MayTake
  <2>6. \A line : Covers(q, line) <=> (a.line = line \/ Covers(p, line))
    <3> HIDE DEF p, a, q, unit
    <3> QED BY <2>3, <2>5, TakeSums
  <2>7. ASSUME NEW line, Covers(q, line)
        PROVE  \E j \in 1..k : asked[j].line = line
    <3>1. CASE a.line = line
      BY <1>1, <3>1
    <3>2. CASE Covers(p, line)
      <4>1. PICK j \in 1..(k - 1) : asked[j].line = line
        BY <2>1, <3>2
      <4> QED BY <2>1, <4>1
    <3> QED BY <2>6, <2>7, <3>1, <3>2
  <2> QED BY <2>1, <2>4, <2>7
<1>11. s[n] = t[n]
  <2>1. \A k \in 0..n : k \in T
    <3> HIDE DEF T
    <3> QED BY <1>1, <1>9, <1>10, Asking!Upward
  <2> QED BY <1>1, <2>1
<1>12. TrimGood(lines, programmes, cap, t[n])
  BY <1>1, <1>4
<1>13. t[n].refusal = None
  BY <1>12 DEF TrimGood
<1> QED BY <1>2, <1>11, <1>12, <1>13, GoodStands

(* A programme of one track.                                               *)
LEMMA OneTrackIs ==
    ASSUME NEW programme
    PROVE  DOMAIN OneTrack(programme) = {1} /\ OneTrack(programme)[1] = programme
BY DEF OneTrack

(* A quotient and its remainder make the sum.                              *)
LEMMA Quotient ==
    ASSUME NEW sum \in Int, sum >= 0, NEW unit \in Int, unit > 0
    PROVE  /\ sum \div unit \in Nat /\ sum \div unit <= sum
           /\ (sum \div unit) * unit + (sum % unit) = sum
<1>1. sum \div unit \in Int /\ sum % unit \in Int /\ sum % unit >= 0
      /\ sum = unit * (sum \div unit) + (sum % unit)
  OBVIOUS
<1>2. 0 <= sum \div unit
  BY Affords
<1>3. sum \div unit <= unit * (sum \div unit)
  <2>1. (unit - 1) * (sum \div unit) >= 0
    BY <1>1, <1>2
  <2>2. (unit - 1) * (sum \div unit) = unit * (sum \div unit) - sum \div unit
    BY <1>1
  <2> QED BY <1>1, <2>1, <2>2
<1>4. (sum \div unit) * unit = unit * (sum \div unit)
  BY <1>1
<1> QED BY <1>1, <1>2, <1>3, <1>4

(* The units the planner takes of one line as long as the balance.         *)
LEMMA PlannerTakes ==
    ASSUME NEW programme, IsProgramme(programme), NEW item, item # None,
           NEW unit, unit = ListedCost(item, programme), unit \in Int, unit > 0,
           NEW many, many = [item |-> item, quantity |-> AtLeast(programme.balance, 1),
                             staff |-> FALSE, combo |-> FALSE],
           NEW a, a = [line |-> 1, units |-> many.quantity, track |-> 1]
    PROVE  PlanTrimmed(<<many>>, OneTrack(programme), None, <<a>>).units
             = AtLeast(programme.balance, 0) \div unit
<1> DEFINE held == programme.balance
           points == AtLeast(held, 0)
           affords == points \div unit
           lines == <<many>>
           q == many.quantity
<1>1. held \in Int /\ points = (IF held >= 0 THEN held ELSE 0)
      /\ q = (IF held >= 1 THEN held ELSE 1)
  BY AtLeastIs DEF IsProgramme
<1>2. /\ q \in Int /\ q >= 1 /\ points \in Nat /\ points <= q
      /\ affords \in Nat /\ affords <= points
  <2>1. q \in Int /\ q >= 1 /\ points \in Nat /\ points <= q
    BY <1>1
  <2> HIDE DEF points
  <2> QED BY <2>1, Quotient
<1>3. UnitsAsked(a) = q /\ TrackOf(a) = 1 /\ a.line = 1
  BY <1>2, NoneAssumption DEF UnitsAsked, TrackOf
<1>4. lines[1] = many /\ DOMAIN lines = {1} /\ LineExists(lines, a)
  BY <1>3, NoneAssumption DEF LineExists
<1>5. UnitCost(many, programme) = unit
  BY NoneAssumption DEF UnitCost
<1>6. ~Covers(EmptyPlan, 1) /\ EmptyPlan.units = 0 /\ EmptyPlan \in PlanSet(lines)
  BY EmptyIsPlan DEF Covers, EmptyPlan
<1>7. PlanTrimmed(lines, OneTrack(programme), None, <<a>>)
        = TrimStep(lines, OneTrack(programme), None, EmptyPlan, a)
  BY OneTrackIs, TrimmedOne DEF PlanTrimmed
<1>8. TrimStep(lines, OneTrack(programme), None, EmptyPlan, a)
        = TrimUnits(EmptyPlan, lines, programme, None, a, unit)
  BY <1>3, <1>4, <1>5, <1>6, OneTrackIs, NoneAssumption DEF TrimStep
<1> DEFINE noted == Trims(EmptyPlan, q, q, q, affords)
<1>9. TrimUnits(EmptyPlan, lines, programme, None, a, unit)
        = IF affords <= 0 THEN noted ELSE Take(noted, lines, a, unit, affords)
  <2>1. AtLeast(q, 0) = q /\ AtMost(q, q) = q
    BY <1>2, AtLeastIs, AtMostIs
  <2>2. Affordable(EmptyPlan, programme, 1, unit) = affords
    <3>1. points - 0 = points
      BY <1>2
    <3> QED BY <3>1, SpentNothing DEF Affordable
  <2>3. AtMost(q, affords) = affords
    <3> HIDE DEF points, q
    <3> QED BY <1>2, AtMostIs
  <2> HIDE DEF affords
  <2> QED BY <1>3, <1>4, <2>1, <2>2, <2>3 DEF TrimUnits
<1>10. noted \in PlanSet(lines) /\ noted.units = 0
  <2> HIDE DEF affords, q
  <2>1. Noted(lines, EmptyPlan, noted)
    BY <1>2, <1>6, TrimsNotes
  <2> QED BY <1>6, <2>1 DEF Noted
<1> DEFINE p == PlanTrimmed(lines, OneTrack(programme), None, <<a>>)
<1>11. CASE affords <= 0
  <2> HIDE DEF affords
  <2>1. p.units = affords
    BY <1>2, <1>7, <1>8, <1>9, <1>10, <1>11
  <2> QED BY <2>1 DEF affords
<1>12. CASE affords > 0
  <2> HIDE DEF noted
  <2>1. Takes(lines, noted, a, unit, affords)
    BY <1>2, <1>3, <1>4, <1>10 DEF Takes
  <2> HIDE DEF affords
  <2>2. Take(noted, lines, a, unit, affords).units = 0 + affords
    <3>1. /\ Take(noted, lines, a, unit, affords) = With(noted, Entry(lines, a, unit, affords))
          /\ Entry(lines, a, unit, affords).units = affords
      BY <2>1, TakeIs, EntryIs
    <3> QED BY <1>10, <3>1 DEF With
  <2>3. p.units = affords
    BY <1>2, <1>7, <1>8, <1>9, <1>12, <2>2
  <2> QED BY <2>3 DEF affords
<1> QED BY <1>2, <1>11, <1>12

(* The card shows as many rewards as the balance affords.                  *)
LEMMA CardShows ==
    ASSUME NEW held \in Int, NEW each \in Int, each > 0,
           NEW card, card = Card(held, each)
    PROVE  /\ card.ready = AtLeast(held, 0) \div each
           /\ card.canRedeem <=> card.ready > 0
           /\ card.ready * each + card.progress = AtLeast(held, 0)
<1> DEFINE points == AtLeast(held, 0)
<1>1. points = (IF held >= 0 THEN held ELSE 0)
  BY AtLeastIs
<1>2. /\ points \in Int /\ points >= 0
      /\ (points \div each) * each + (points % each) = points
  <2>1. points \in Int /\ points >= 0
    BY <1>1
  <2> HIDE DEF points
  <2> QED BY <2>1, Quotient
<1>3. card.ready = EarnedAndProgress(held, each)[1]
      /\ card.progress = EarnedAndProgress(held, each)[2]
      /\ card.canRedeem = (EarnedAndProgress(held, each)[1] > 0)
  BY DEF Card
<1>4. card.ready = points \div each /\ card.progress = points % each
  <2>1. CASE held <= 0
    <3>1. points = 0
      BY <1>1, <2>1
    <3>2. EarnedAndProgress(held, each) = <<0, points>>
      BY <2>1 DEF EarnedAndProgress
    <3>3. 0 \div each = 0 /\ 0 % each = 0
      OBVIOUS
    <3>4. card.ready = 0 /\ card.progress = points
      BY <1>3, <3>2
    <3> HIDE DEF points
    <3> QED BY <3>1, <3>3, <3>4
  <2>2. CASE held > 0
    <3>1. points = held
      BY <1>1, <2>2
    <3>2. EarnedAndProgress(held, each) = <<held \div each, held % each>>
      BY <2>2 DEF EarnedAndProgress
    <3>3. card.ready = held \div each /\ card.progress = held % each
      BY <1>3, <3>2
    <3> HIDE DEF points
    <3> QED BY <3>1, <3>3
  <2> QED BY <2>1, <2>2
<1>5. card.ready * each + card.progress = points
  <2> HIDE DEF points
  <2> QED BY <1>2, <1>4
<1>6. card.canRedeem = (card.ready > 0)
  BY <1>3
<1> QED BY <1>4, <1>5, <1>6

-----------------------------------------------------------------------------
(* The board.                                                              *)
BoardInv ==
    /\ basket \in Seq(LineKinds) /\ asks \in Seq(AskKinds)
    /\ offer \in Offers \union {NoOffer}

(* What the board gives a planner.                                         *)
LEMMA BoardGiven ==
    ASSUME BoardInv
    PROVE  Given(basket, offer.tracks, offer.cap) /\ Requests(asks)
<1>1. offer.cap \in Int \union {None}
      /\ \A track \in DOMAIN offer.tracks : IsProgramme(offer.tracks[track])
  <2>1. CASE offer \in Offers
    BY <2>1, LoyaltyAssumption DEF IsOffer
  <2>2. CASE offer = NoOffer
    BY <2>2 DEF NoOffer
  <2> QED BY <2>1, <2>2 DEF BoardInv
<1>2. Len(basket) \in Nat /\ DOMAIN basket = 1..Len(basket)
      /\ \A i \in DOMAIN basket : basket[i] \in LineKinds
  BY DEF BoardInv
<1>3. /\ Len(asks) \in Nat /\ DOMAIN asks = 1..Len(asks)
      /\ \A k \in DOMAIN asks : asks[k] \in AskKinds
      /\ asks = [k \in 1..Len(asks) |-> asks[k]]
  BY DEF BoardInv
<1>4. asks \in Seq(Range(asks))
  <2>1. \A k \in 1..Len(asks) : asks[k] \in Range(asks)
    BY <1>3 DEF Range
  <2> QED BY <1>3, <2>1
<1> QED BY <1>1, <1>2, <1>3, <1>4, LoyaltyAssumption DEF Given, Requests

(* Whatever is on the board, the planners agree on it.                     *)
LEMMA AgreeOnTheBoard ==
    ASSUME BoardInv
    PROVE  PlannersAgree
<1>1. Given(basket, offer.tracks, offer.cap) /\ Requests(asks)
  BY BoardGiven
<1>2. TrimGood(basket, offer.tracks, offer.cap, Charged)
  BY <1>1, TrimmedIsGood DEF Charged
<1>3. TrimmedIsNotRefused
  BY <1>1, <1>2, GoodIsNotRefused DEF TrimmedIsNotRefused, Answer
<1>4. ASSUME Answer(asks).refusal = None, \A i \in DOMAIN basket : ~basket[i].staff
      PROVE  Charged = Answer(asks)
  BY <1>1, <1>4, NothingTrimmed DEF Charged, Answer
<1>5. ASSUME Charged.trimmed = None,
             \A k \in DOMAIN asks : UnitsAsked(asks[k]) >= 1,
             \A j, k \in DOMAIN asks : asks[j].line = asks[k].line => j = k
      PROVE  Answer(asks).refusal = None
  BY <1>1, <1>5, UntrimmedStands DEF Charged, Answer
<1> QED BY <1>3, <1>4, <1>5 DEF PlannersAgree, TrimsOnlyWhatIsRefused

(* And no unit of it is given twice, nor a reward the card does not show.  *)
LEMMA GivenOnceOnTheBoard ==
    ASSUME BoardInv
    PROVE  GivenOnceAndAsShown
<1>1. Given(basket, offer.tracks, offer.cap) /\ Requests(asks)
  BY BoardGiven
<1>2. TrimGood(basket, offer.tracks, offer.cap, Charged)
  BY <1>1, TrimmedIsGood DEF Charged
<1>3. CoversFitTheLine
  <2> DEFINE rewarded == { Charged.lines[k].line : k \in DOMAIN Charged.lines }
  <2> SUFFICES ASSUME NEW gift \in Gifts, NEW i \in DOMAIN basket
               PROVE  UnitsOn(Charged, i) + (IF GiftTaken(basket, gift, i, rewarded) THEN 1 ELSE 0)
                          <= AtLeast(basket[i].quantity, 0)
    BY DEF CoversFitTheLine
  <2>1. /\ UnitsOn(Charged, i) \in Nat
        /\ UnitsOn(Charged, i) <= AtLeast(basket[i].quantity, 0)
        /\ ~Covers(Charged, i) => UnitsOn(Charged, i) = 0
    BY <1>2 DEF TrimGood
  <2>2. basket[i].quantity \in Int
    BY <1>1 DEF Given, IsLine
  <2>3. AtLeast(basket[i].quantity, 0) =
          IF basket[i].quantity >= 0 THEN basket[i].quantity ELSE 0
    BY <2>2, AtLeastIs
  <2>4. ASSUME GiftTaken(basket, gift, i, rewarded)
        PROVE  basket[i].quantity >= 1 /\ ~Covers(Charged, i)
    <3>1. basket[i].quantity >= 1 /\ i \notin rewarded
      BY <2>4 DEF GiftTaken, GiftEligible
    <3> QED BY <3>1 DEF Covers
  <2> QED BY <2>1, <2>2, <2>3, <2>4
<1>4. CardAgreesWithPlanner
  <2> SUFFICES ASSUME NEW track \in DOMAIN offer.tracks,
                      NEW programme, programme = offer.tracks[track],
                      NEW k \in DOMAIN programme.rewards,
                      NEW r, r = programme.rewards[k],
                      r.cost > 0, ListedCost(r.item, programme) = r.cost,
                      NEW many, many = [item |-> r.item,
                                        quantity |-> AtLeast(programme.balance, 1),
                                        staff |-> FALSE, combo |-> FALSE],
                      NEW plan, plan = PlanTrimmed(<<many>>, OneTrack(programme), None,
                          <<[line |-> 1, units |-> many.quantity, track |-> 1]>>),
                      NEW card, card = Card(programme.balance, r.cost)
               PROVE  /\ card.ready = plan.units
                      /\ card.canRedeem <=> plan.units > 0
                      /\ card.ready * r.cost + card.progress = AtLeast(programme.balance, 0)
    BY DEF CardAgreesWithPlanner
  <2>1. IsProgramme(programme)
    BY <1>1 DEF Given
  <2>2. r.item # None /\ r.cost \in Int /\ programme.balance \in Int
    BY <2>1 DEF IsProgramme
  <2>3. plan.units = AtLeast(programme.balance, 0) \div r.cost
    BY <2>1, <2>2, PlannerTakes
  <2>4. /\ card.ready = AtLeast(programme.balance, 0) \div r.cost
        /\ card.canRedeem <=> card.ready > 0
        /\ card.ready * r.cost + card.progress = AtLeast(programme.balance, 0)
    BY <2>2, CardShows
  <2> QED BY <2>3, <2>4
<1> QED BY <1>3, <1>4 DEF GivenOnceAndAsShown

(* A sequence less one element.                                            *)
LEMMA RemovedIsSeq ==
    ASSUME NEW S, NEW s \in Seq(S), NEW i \in DOMAIN s
    PROVE  RemoveAt(s, i) \in Seq(S)
<1>1. i \in 1..Len(s) /\ Len(s) \in Nat
  OBVIOUS
<1>2. SubSeq(s, 1, i - 1) \in Seq(S) /\ SubSeq(s, i + 1, Len(s)) \in Seq(S)
  BY <1>1, SubSeqProperties
<1> QED BY <1>2, ConcatProperties DEF RemoveAt

(* The board starts empty.                                                 *)
LEMMA BoardStart == ASSUME Init PROVE BoardInv
BY DEF Init, BoardInit, BoardInv

(* Every step keeps the board.                                             *)
LEMMA BoardStep ==
    ASSUME BoardInv, [Next]_vars
    PROVE  BoardInv'
<1>1. CASE WorkBoard
  <2>1. BoardNext
    BY <1>1 DEF WorkBoard
  <2>2. ASSUME NEW line \in LineKinds, AddLine(line) PROVE BoardInv'
    BY <2>2 DEF BoardInv, AddLine
  <2>3. ASSUME NEW i \in DOMAIN basket, RemoveLine(i) PROVE BoardInv'
    BY <2>3, RemovedIsSeq DEF BoardInv, RemoveLine
  <2>4. ASSUME NEW a \in AskKinds, AskReward(a) PROVE BoardInv'
    BY <2>4 DEF BoardInv, AskReward
  <2>5. ASSUME NEW k \in DOMAIN asks, DropAsk(k) PROVE BoardInv'
    BY <2>5, RemovedIsSeq DEF BoardInv, DropAsk
  <2>6. ASSUME NEW o \in Offers, Refresh(o) PROVE BoardInv'
    BY <2>6 DEF BoardInv, Refresh
  <2> QED BY <2>1, <2>2, <2>3, <2>4, <2>5, <2>6 DEF BoardNext
<1>2. CASE PutAway
  BY <1>2 DEF BoardInv, PutAway
<1>3. CASE TakeSales
  BY <1>3 DEF BoardInv, TakeSales, boardVars
<1>4. CASE UNCHANGED vars
  BY <1>4 DEF BoardInv, vars, boardVars
<1> QED BY <1>1, <1>2, <1>3, <1>4 DEF Next

(* Whatever the teller adds, removes, asks and drops, and whatever a sync  *)
(* brings while the basket is open, the till charges what the server takes *)
(* unrefused, and trims nothing the server would take.                     *)
THEOREM PlannersAlwaysAgree == Spec => []PlannersAgree
<1>1. Spec => []BoardInv
  BY BoardStart, BoardStep, PTL DEF Spec
<1>2. BoardInv => PlannersAgree
  BY AgreeOnTheBoard
<1> QED BY <1>1, <1>2, PTL

(* No unit of a line is ever covered by a reward and taken as the gift as  *)
(* well, and the member's card shows what the planner would give.          *)
THEOREM GivenOnceAlways == Spec => []GivenOnceAndAsShown
<1>1. Spec => []BoardInv
  BY BoardStart, BoardStep, PTL DEF Spec
<1>2. BoardInv => GivenOnceAndAsShown
  BY GivenOnceOnTheBoard
<1> QED BY <1>1, <1>2, PTL

-----------------------------------------------------------------------------
(* One reward at the tills.                                                *)
IsView(view) == view.balance \in Int /\ view.cost \in Int

(* The sale of q that asks for u is one the server takes on what it sees.  *)
Fair(view, q, u) ==
    u = 0 \/ (u <= q /\ view.cost > 0 /\ view.cost * u <= view.balance)

OneAsk(u) == [line |-> 1, units |-> u, track |-> 1]

(* The sale of one kind of line and the programme of one reward.           *)
LEMMA SaleGiven ==
    ASSUME NEW view, IsView(view), NEW q \in Nat, NEW u \in Nat
    PROVE  /\ Given(Basket(q), Programme(view), None)
           /\ Basket(q)[1].quantity = q /\ ~Basket(q)[1].combo
           /\ Basket(q)[1].item = "latte" /\ DOMAIN Basket(q) = {1}
           /\ DOMAIN Programme(view) = {1} /\ Programme(view)[1].balance = view.balance
           /\ IsAsk(OneAsk(u)) /\ TrackOf(OneAsk(u)) = 1 /\ UnitsAsked(OneAsk(u)) = u
           /\ OneAsk(u).line = 1
           /\ UnitOf(Basket(q), Programme(view), OneAsk(u)) = view.cost
<1>1. /\ Basket(q)[1].quantity = q /\ ~Basket(q)[1].combo /\ ~Basket(q)[1].staff
      /\ Basket(q)[1].item = "latte" /\ DOMAIN Basket(q) = {1} /\ Len(Basket(q)) = 1
      /\ IsLine(Basket(q)[1])
  <2> DEFINE line == [item |-> "latte", quantity |-> q, staff |-> FALSE, combo |-> FALSE]
  <2>1. /\ line.quantity = q /\ line.combo = FALSE /\ line.staff = FALSE
        /\ line.item = "latte" /\ IsLine(line)
    BY DEF IsLine
  <2>2. Basket(q) = <<line>>
    BY DEF Basket
  <2> HIDE DEF line
  <2>3. Basket(q)[1] = line /\ DOMAIN Basket(q) = {1} /\ Len(Basket(q)) = 1
    BY <2>2
  <2> QED BY <2>1, <2>3
<1>2. DOMAIN Programme(view) = {1} /\ Programme(view)[1].balance = view.balance
      /\ Programme(view)[1].rewards = <<[item |-> "latte", cost |-> view.cost]>>
      /\ Programme(view)[1].anyItem = FALSE /\ Programme(view)[1].anyItemCost = 0
  BY DEF Programme, OneTrack
<1>3. IsProgramme(Programme(view)[1])
  <2> DEFINE programme == Programme(view)[1]
             r == [item |-> "latte", cost |-> view.cost]
  <2>1. r.item # None /\ r.cost \in Int
    BY LoyaltyAssumption DEF IsView
  <2>2. programme.rewards = <<r>> /\ programme.anyItem = FALSE
        /\ programme.anyItemCost = 0 /\ programme.balance \in Int
    BY <1>2 DEF IsView
  <2> HIDE DEF programme, r
  <2>3. DOMAIN programme.rewards = {1} /\ programme.rewards[1] = r
    BY <2>2
  <2>4. IsProgramme(programme)
    <3>1. DOMAIN programme.rewards \subseteq Nat
      BY <2>3
    <3>2. \A k \in DOMAIN programme.rewards :
              programme.rewards[k].item # None /\ programme.rewards[k].cost \in Int
      BY <2>1, <2>3
    <3>3. programme.anyItem \in BOOLEAN
      BY <2>2, Zenon
    <3>4. programme.anyItemCost \in Int /\ programme.balance \in Int
      BY <2>2
    <3> QED BY <3>1, <3>2, <3>3, <3>4 DEF IsProgramme
  <2> QED BY <2>4 DEF programme
<1>4. IsAsk(OneAsk(u)) /\ TrackOf(OneAsk(u)) = 1 /\ UnitsAsked(OneAsk(u)) = u
      /\ OneAsk(u).line = 1
  BY NoneAssumption DEF IsAsk, OneAsk, TrackOf, UnitsAsked
<1>5. ListedCost("latte", Programme(view)[1]) = view.cost
  <2> DEFINE rewards == Programme(view)[1].rewards
             at == { k \in DOMAIN rewards : rewards[k].item = "latte" }
  <2>1. at = {1} /\ rewards[1].cost = view.cost
    BY <1>2
  <2>2. AtMost(1, 1) = 1
    BY AtMostIs
  <2>3. Min({1}) = 1
    <3>1. {1, 1} = {1}
      OBVIOUS
    <3> QED BY <2>2, <3>1 DEF AtMost
  <2> QED BY <2>1, <2>3 DEF ListedCost
<1>6. UnitOf(Basket(q), Programme(view), OneAsk(u)) = view.cost
  BY <1>1, <1>4, <1>5 DEF UnitOf
<1>7. Given(Basket(q), Programme(view), None)
  BY <1>1, <1>2, <1>3 DEF Given
<1> QED BY <1>1, <1>2, <1>4, <1>6, <1>7

(* Nothing asked is nothing taken.                                         *)
LEMMA NothingAsked ==
    ASSUME NEW lines, NEW programmes
    PROVE  /\ PlanStrict(lines, programmes, None, <<>>) = EmptyPlan
           /\ PlanTrimmed(lines, programmes, None, <<>>) = EmptyPlan
           /\ ReplayLines(lines, <<>>) = EmptyPlan
<1>1. EmptyPlan.refusal = None /\ DOMAIN EmptyPlan.lines = {}
  BY DEF EmptyPlan
<1> QED BY <1>1, AskedNothing, TrimmedNothing, ReplayNothing
        DEF PlanStrict, PlanTrimmed, WithinCap

(* The reward taken whole from an empty plan.                              *)
LEMMA FirstTaken ==
    ASSUME NEW view, IsView(view), NEW q \in Nat, NEW u \in Nat, u >= 1, NEW unit \in Int,
           NEW p, p = Take(EmptyPlan, Basket(q), OneAsk(u), unit, u)
    PROVE  /\ p.units = u /\ p.cost = unit * u /\ p.refusal = None
           /\ DOMAIN p.lines = {1} /\ p.lines[1].track = 1
           /\ SpentOn(p, 1) = unit * u /\ p \in PlanSet(Basket(q))
<1> DEFINE lines == Basket(q)
           e == Entry(lines, OneAsk(u), unit, u)
<1>1. Takes(lines, EmptyPlan, OneAsk(u), unit, u)
  BY SaleGiven, EmptyIsPlan DEF Takes
<1>2. p = With(EmptyPlan, e) /\ e.units = u /\ e.cost = unit * u /\ e.track = 1
      /\ unit * u \in Int /\ p \in PlanSet(lines)
  BY <1>1, TakeIs, EntryIs, SaleGiven
<1>3. SpentOn(p, 1) = SpentOn(EmptyPlan, 1) + unit * u
  BY <1>1, TakeSums, SaleGiven
<1> HIDE DEF e
<1>4. p.lines = <<e>> /\ p.units = 0 + u /\ p.cost = 0 + e.cost /\ p.refusal = None
  BY <1>2 DEF With, EmptyPlan
<1>5. DOMAIN p.lines = {1} /\ p.lines[1].track = 1
  BY <1>2, <1>4
<1> QED BY <1>2, <1>3, <1>4, <1>5, SpentNothing

(* The server takes the sales that are fair.                               *)
LEMMA StrictDeal ==
    ASSUME NEW view, IsView(view), NEW q \in Nat, NEW u \in Nat,
           NEW p, p = PlanStrict(Basket(q), Programme(view), None, Asked(u))
    PROVE  /\ p.refusal = None <=> Fair(view, q, u)
           /\ p.refusal = None => /\ p.units = u /\ p.cost = view.cost * u
                                  /\ p.cost \in Nat /\ (p.cost <= view.balance \/ p.cost = 0)
                                  /\ u > 0 => p.cost > 0
<1>1. CASE u = 0
  <2>1. p = EmptyPlan
    BY <1>1, NothingAsked DEF Asked
  <2>2. p.refusal = None /\ p.units = 0 /\ p.cost = 0 /\ view.cost * u = 0
    BY <1>1, <2>1 DEF EmptyPlan, IsView
  <2> QED BY <1>1, <2>2 DEF Fair
<1>2. CASE u # 0
  <2> DEFINE lines == Basket(q)
             programmes == Programme(view)
             a == OneAsk(u)
             r == StrictStep(lines, programmes, EmptyPlan, a)
  <2>1. u >= 1 /\ Asked(u) = <<a>> /\ AllAsked(lines, programmes, Asked(u)) = r
    BY <1>2, AskedOne DEF Asked, OneAsk
  <2>2. EmptyPlan.refusal = None /\ EmptyPlan \in PlanSet(lines) /\ ~Covers(EmptyPlan, 1)
    BY EmptyIsPlan DEF EmptyPlan, Covers
  <2>3. MayTakeAll(lines, programmes, EmptyPlan, a) <=> u <= q /\ view.cost > 0
    <3>1. "latte" # None
      BY LoyaltyAssumption
    <3> HIDE DEF lines, programmes, a
    <3>2. /\ lines[1].quantity = q /\ ~lines[1].combo /\ lines[1].item = "latte"
          /\ DOMAIN lines = {1} /\ DOMAIN programmes = {1} /\ TrackOf(a) = 1
          /\ UnitsAsked(a) = u /\ a.line = 1 /\ UnitOf(lines, programmes, a) = view.cost
      BY SaleGiven DEF lines, programmes, a
    <3> QED BY <2>1, <2>2, <3>1, <3>2 DEF MayTakeAll, MayTake, IsView
  <2>4. CASE ~MayTakeAll(lines, programmes, EmptyPlan, a)
    <3>1. r.refusal # None
      BY <2>2, <2>4, SaleGiven, StrictTakes
    <3>2. p = r
      BY <2>1, <3>1 DEF PlanStrict
    <3> QED BY <1>2, <2>3, <2>4, <3>1, <3>2 DEF Fair
  <2>5. CASE MayTakeAll(lines, programmes, EmptyPlan, a)
    <3>1. r = Take(EmptyPlan, lines, a, view.cost, u)
      BY <2>2, <2>5, SaleGiven, StrictTakes
    <3> HIDE DEF r, lines, a, programmes
    <3>2. /\ r.units = u /\ r.cost = view.cost * u /\ r.refusal = None
          /\ DOMAIN r.lines = {1} /\ r.lines[1].track = 1
          /\ SpentOn(r, 1) = view.cost * u /\ r \in PlanSet(lines)
      BY <2>1, <3>1, FirstTaken DEF lines, a, IsView
    <3>3. view.cost * u \in Int /\ view.cost * u >= 1
      <4>1. view.cost \in Int /\ view.cost >= 1
        BY <2>3, <2>5 DEF IsView
      <4>2. (view.cost - 1) * u >= 0 /\ (view.cost - 1) * u = view.cost * u - u
        BY <4>1
      <4> QED BY <2>1, <4>1, <4>2
    <3>4. programmes[1].balance = view.balance
      BY SaleGiven DEF programmes
    <3>5. CASE view.cost * u > view.balance
      <4>1. p = [r EXCEPT !.refusal = "balance_short"]
        BY <2>1, <3>2, <3>4, <3>5 DEF PlanStrict, WithinCap, lines, programmes
      <4>3. p.refusal # None
        BY <3>2, <4>1, NoneAssumption DEF Refusal, PlanSet
      <4>4. ~Fair(view, q, u)
        BY <1>2, <3>3, <3>5 DEF Fair, IsView
      <4> QED BY <4>3, <4>4
    <3>6. CASE ~(view.cost * u > view.balance)
      <4>1. p = r
        BY <2>1, <3>2, <3>4, <3>6 DEF PlanStrict, WithinCap, lines, programmes
      <4>2. view.cost * u <= view.balance
        BY <3>3, <3>6 DEF IsView
      <4> QED BY <2>3, <2>5, <3>2, <3>3, <4>1, <4>2 DEF Fair
    <3> QED BY <3>5, <3>6
  <2> QED BY <2>4, <2>5
<1> QED BY <1>1, <1>2

(* The till takes no more than what is fair on what it saw.                *)
LEMMA TrimDeal ==
    ASSUME NEW view, IsView(view), NEW q \in Nat, NEW u \in Nat,
           NEW p, p = PlanTrimmed(Basket(q), Programme(view), None, Asked(u))
    PROVE  p.units \in Nat /\ p.cost \in Int /\ Fair(view, q, p.units)
<1>1. CASE u = 0
  <2>1. p = EmptyPlan
    BY <1>1, NothingAsked DEF Asked
  <2> QED BY <2>1 DEF EmptyPlan, Fair
<1>2. CASE u # 0
  <2> DEFINE lines == Basket(q)
             programmes == Programme(view)
             a == OneAsk(u)
  <2>1. u >= 1 /\ Asked(u) = <<a>>
    BY <1>2 DEF Asked, OneAsk
  <2>2. p = TrimStep(lines, programmes, None, EmptyPlan, a)
    BY <2>1, TrimmedOne, SaleGiven DEF PlanTrimmed
  <2>3. Within(lines, programmes, None, EmptyPlan)
    BY NothingIsGood, SaleGiven DEF TrimGood
  <2>4. \/ \E m, n : TrimTaken(lines, programmes, None, EmptyPlan, a, m, n, p)
        \/ TrimPassed(lines, EmptyPlan, a, p)
    BY <2>2, <2>3, SaleGiven, TrimSteps
  <2>5. CASE TrimPassed(lines, EmptyPlan, a, p)
    BY <2>5 DEF TrimPassed, Noted, EmptyPlan, Fair
  <2>6. ASSUME NEW m, NEW n, TrimTaken(lines, programmes, None, EmptyPlan, a, m, n, p)
        PROVE  p.units \in Nat /\ p.cost \in Int /\ Fair(view, q, p.units)
    <3>1. /\ lines[1].quantity = q /\ TrackOf(a) = 1 /\ a.line = 1 /\ DOMAIN lines = {1}
          /\ UnitOf(lines, programmes, a) = view.cost
          /\ programmes[1].balance = view.balance
      BY SaleGiven
    <3> HIDE DEF lines, programmes, a
    <3>2. /\ n \in Nat /\ n >= 1 /\ n <= q /\ view.cost > 0
          /\ SpentOn(EmptyPlan, 1) + view.cost * n <= AtLeast(view.balance, 0)
          /\ Noted(lines, EmptyPlan, m) /\ p = Take(m, lines, a, view.cost, n)
      BY <2>6, <3>1 DEF TrimTaken, MayTake
    <3>3. view.cost * n \in Int /\ view.cost * n >= 1
      <4>1. view.cost \in Int /\ view.cost >= 1
        BY <3>2 DEF IsView
      <4>2. (view.cost - 1) * n >= 0 /\ (view.cost - 1) * n = view.cost * n - n
        BY <3>2, <4>1
      <4> QED BY <3>2, <4>1, <4>2
    <3>4. view.cost * n <= view.balance
      <4>1. 0 + view.cost * n <= AtLeast(view.balance, 0)
        BY <3>2, SpentNothing
      <4>2. AtLeast(view.balance, 0) = IF view.balance >= 0 THEN view.balance ELSE 0
        BY AtLeastIs DEF IsView
      <4> QED BY <3>3, <4>1, <4>2 DEF IsView
    <3>5. Takes(lines, m, a, view.cost, n)
      BY <3>1, <3>2 DEF Takes, Noted, IsView
    <3>6. /\ p \in PlanSet(lines) /\ p = With(m, Entry(lines, a, view.cost, n))
          /\ Entry(lines, a, view.cost, n).units = n
      BY <3>2, <3>5, TakeIs, EntryIs
    <3>7. p.units = m.units + n /\ m.units = 0
      BY <3>2, <3>6 DEF With, Noted, EmptyPlan
    <3>8. p.units = n /\ p.cost \in Int
      BY <3>2, <3>6, <3>7 DEF PlanSet
    <3> QED BY <3>2, <3>4, <3>8 DEF Fair
  <2> QED BY <2>4, <2>5, <2>6
<1> QED BY <1>1, <1>2

(* A cover that fits its line stands on replay and costs nothing.          *)
LEMMA ReplayDeal ==
    ASSUME NEW q \in Nat, NEW u \in Nat, u = 0 \/ u <= q,
           NEW p, p = ReplayLines(Basket(q), Asked(u))
    PROVE  p.units = u /\ p.cost = 0
<1>1. CASE u = 0
  BY <1>1, NothingAsked DEF Asked, EmptyPlan
<1>2. CASE u # 0
  <2> DEFINE lines == Basket(q)
             a == OneAsk(u)
             view == [balance |-> 0, cost |-> 0]
  <2>1. u >= 1 /\ Asked(u) = <<a>> /\ u <= q /\ IsView(view)
    BY <1>2 DEF Asked, OneAsk, IsView
  <2>2. p = ReplayStep(lines, EmptyPlan, a)
    BY <2>1, ReplayOne
  <2>3. /\ lines[1].quantity = q /\ ~lines[1].combo /\ lines[1].item = "latte"
        /\ DOMAIN lines = {1} /\ UnitsAsked(a) = u /\ a.line = 1
    BY <2>1, SaleGiven
  <2>4. AtMost(u, AtLeast(q, 0)) = u
    <3>1. AtLeast(q, 0) = q
      BY AtLeastIs
    <3> QED BY <2>1, <3>1, AtMostIs
  <2>5. ~Covers(EmptyPlan, 1) /\ "latte" # None /\ 1 # None
    BY NoneAssumption, LoyaltyAssumption DEF Covers, EmptyPlan
  <2>6. ReplayStep(lines, EmptyPlan, a) = Take(EmptyPlan, lines, a, 0, u)
    <3> HIDE DEF lines, a
    <3> QED BY <2>1, <2>3, <2>4, <2>5 DEF ReplayStep, LineExists
  <2>7. p.units = u /\ p.cost = 0 * u
    <3>1. p = Take(EmptyPlan, lines, a, 0, u)
      BY <2>2, <2>6
    <3> HIDE DEF view
    <3> QED BY <2>1, <3>1, FirstTaken
  <2> QED BY <2>7
<1> QED BY <1>1, <1>2

-----------------------------------------------------------------------------
(* What the landed sales cost.                                             *)
In(l) == { s \in Sales : l[s] # NoSale }
CostOf(l) == [s \in In(l) |-> l[s].cost]

(* The model's sum is the facts' sum.                                      *)
LEMMA TotalIs ==
    ASSUME NEW f
    PROVE  SumFunction(f) = Asking!SumFunctionOnSet(f, DOMAIN f)
BY DEF SumFunction, SumFunctionOnSet, FoldFunctionOnSet, MapThenFoldSet,
       Asking!SumFunctionOnSet, Asking!FoldFunctionOnSet, Asking!MapThenFoldSet

(* A finite set is one to the facts as well.                               *)
LEMMA FiniteIs == ASSUME NEW S, IsFiniteSet(S) PROVE Asking!IsFiniteSet(S)
BY DEF IsFiniteSet, Asking!IsFiniteSet

(* m is l with the sale s recorded.                                        *)
OneMore(l, m, s) ==
    /\ s \in Sales /\ l[s] = NoSale /\ m[s] # NoSale
    /\ \A x \in Sales \ {s} : m[x] = l[x]
    /\ \A x \in In(l) : l[x].cost \in Int
    /\ m[s].cost \in Int

(* It adds one sale, and what that sale cost.                              *)
LEMMA OneMoreSale ==
    ASSUME NEW l, NEW m, NEW s, OneMore(l, m, s)
    PROVE  /\ Cardinality(In(l)) \in Nat /\ Cardinality(In(m)) = Cardinality(In(l)) + 1
           /\ SumFunction(CostOf(l)) \in Int
           /\ SumFunction(CostOf(m)) = SumFunction(CostOf(l)) + m[s].cost
<1> DEFINE R == In(l)
           f == CostOf(l)
           g == CostOf(m)
<1>1. In(m) = R \union {s} /\ s \notin R /\ R \subseteq Sales
  BY DEF OneMore, In
<1>2. IsFiniteSet(R) /\ Asking!IsFiniteSet(R)
  BY <1>1, LoyaltyAssumption, FS_Subset, FiniteIs
<1>3. Cardinality(R) \in Nat /\ Cardinality(In(m)) = Cardinality(R) + 1
  BY <1>1, <1>2, FS_CardinalityType, FS_AddElement
<1>4. /\ DOMAIN f = R /\ DOMAIN g = R \union {s} /\ g[s] = m[s].cost
      /\ \A x \in R : f[x] \in Int /\ f[x] = g[x]
  <2>1. \A x \in R : x \in Sales \ {s} /\ l[x].cost \in Int /\ m[x] = l[x]
    BY <1>1 DEF OneMore, In
  <2> QED BY <1>1, <2>1 DEF CostOf
<1>5. \A x \in R \union {s} : g[x] \in Int
  BY <1>4 DEF OneMore
<1> HIDE DEF R, f, g
<1>6. Asking!SumFunctionOnSet(g, R \union {s}) = Asking!SumFunctionOnSet(g, R) + g[s]
  BY <1>1, <1>2, <1>5, Asking!SumWith
<1>7. Asking!SumFunctionOnSet(f, R) = Asking!SumFunctionOnSet(g, R)
  BY <1>2, <1>4, Asking!SumSame
<1>8. Asking!SumFunctionOnSet(f, R) \in Int
  BY <1>2, <1>4, Asking!SumType
<1>9. SumFunction(g) = Asking!SumFunctionOnSet(g, R \union {s})
      /\ SumFunction(f) = Asking!SumFunctionOnSet(f, R)
  BY <1>4, TotalIs
<1> QED BY <1>3, <1>4, <1>6, <1>7, <1>8, <1>9 DEF R, f, g

(* The receipts the tills wrote are of sales fair on what they saw.        *)
ReceiptFair(r) ==
    /\ r.units \in Nat /\ r.quantity \in Nat /\ IsView(r.seen)
    /\ Fair(r.seen, r.quantity, r.units)

LandedAsPromised(l, r) ==
    /\ l.cost \in Nat /\ l.units = r.units
    /\ l.units > 0 /\ l.cost = 0 => l.found # r.seen

Views == [balance : Int, cost : Int]

SyncTypes ==
    /\ balance \in Nat /\ cost \in Int
    /\ cached \in [Tills -> Views] /\ outbox \in [Tills -> Seq(Sales)]
    /\ receipt = [s \in Sales |-> receipt[s]] /\ landed = [s \in Sales |-> landed[s]]

SyncInv ==
    /\ SyncTypes
    /\ \A till \in Tills : \A k \in DOMAIN outbox[till] : receipt[outbox[till][k]] # NoSale
    /\ \A s \in Sales : receipt[s] # NoSale => ReceiptFair(receipt[s])
    /\ \A s \in Sales : landed[s] # NoSale =>
           receipt[s] # NoSale /\ LandedAsPromised(landed[s], receipt[s])
    /\ PointsAddUp

(* What one sale more earns.                                               *)
LEMMA OneEarnsMore ==
    ASSUME NEW n \in Nat, NEW earns \in Nat
    PROVE  (n + 1) * earns = n * earns + earns /\ n * earns \in Int
  OBVIOUS

(* Nothing sold, nothing moved.                                            *)
LEMMA SyncStart == ASSUME Init PROVE SyncInv
<1>1. /\ balance = Opening /\ cost = 0
      /\ cached = [till \in Tills |-> [balance |-> balance, cost |-> cost]]
      /\ outbox = [till \in Tills |-> <<>>]
      /\ receipt = [s \in Sales |-> NoSale] /\ landed = [s \in Sales |-> NoSale]
  BY DEF Init, SyncInit, ServerView, NoCost
<1>2. SyncTypes
  BY <1>1, LoyaltyAssumption DEF SyncTypes, Views
<1>3. PointsAddUp
  <2>1. Recorded = {} /\ Cardinality(Recorded) = 0
    BY <1>1, FS_EmptySet DEF Recorded
  <2>2. SumFunction([s \in Recorded |-> landed[s].cost]) = 0
    <3> DEFINE f == [s \in Recorded |-> landed[s].cost]
    <3>1. DOMAIN f = {}
      BY <2>1
    <3> HIDE DEF f
    <3>2. SumFunction(f) = 0
      BY <3>1, TotalIs, Asking!SumNothing
    <3> QED BY <3>2 DEF f
  <2>3. 0 * Earns = 0
    BY LoyaltyAssumption
  <2> QED BY <1>1, <2>1, <2>2, <2>3, LoyaltyAssumption DEF PointsAddUp
<1> QED BY <1>1, <1>2, <1>3 DEF SyncInv

(* The points a sale moves when it lands.                                  *)
LEMMA LandMoves ==
    ASSUME SyncInv, NEW s \in Sales, landed[s] = NoSale,
           NEW plan, plan.units \in Nat, plan.cost \in Nat, plan.cost <= balance, Land(s, plan)
    PROVE  /\ balance' \in Nat /\ PointsAddUp'
           /\ landed' = [x \in Sales |-> landed'[x]] /\ landed'[s] # NoSale
           /\ landed'[s] = [units |-> plan.units, cost |-> plan.cost, found |-> ServerView]
           /\ \A x \in Sales \ {s} : landed'[x] = landed[x]
<1> DEFINE r == [units |-> plan.units, cost |-> plan.cost, found |-> ServerView]
<1>1. balance' = balance - plan.cost + Earns /\ landed' = [landed EXCEPT ![s] = r]
      /\ balance \in Nat /\ Earns \in Nat /\ landed = [x \in Sales |-> landed[x]]
  BY LoyaltyAssumption DEF Land, SyncInv, SyncTypes
<1>2. r.units \in Nat /\ r.cost = plan.cost /\ r # NoSale
  <2>1. NoSale.units = -1 /\ r.units \in Nat /\ r.cost = plan.cost
    BY DEF NoSale
  <2> QED BY <2>1
<1> HIDE DEF r
<1>3. /\ landed' = [x \in Sales |-> landed'[x]] /\ landed'[s] = r
      /\ \A x \in Sales \ {s} : landed'[x] = landed[x]
  BY <1>1
<1>4. OneMore(landed, landed', s)
  <2>1. \A x \in In(landed) : landed[x].cost \in Int
    BY DEF In, SyncInv, LandedAsPromised
  <2> QED BY <1>2, <1>3, <2>1 DEF OneMore
<1>5. /\ Cardinality(In(landed)) \in Nat
      /\ Cardinality(In(landed')) = Cardinality(In(landed)) + 1
      /\ SumFunction(CostOf(landed)) \in Int
      /\ SumFunction(CostOf(landed')) = SumFunction(CostOf(landed)) + plan.cost
  BY <1>2, <1>3, <1>4, OneMoreSale
<1>6. balance = Opening + Cardinality(In(landed)) * Earns - SumFunction(CostOf(landed))
  BY DEF SyncInv, PointsAddUp, Recorded, In, CostOf
<1>7. balance' = Opening + Cardinality(In(landed')) * Earns - SumFunction(CostOf(landed'))
  <2> DEFINE n == Cardinality(In(landed))
  <2>1. n \in Nat /\ Cardinality(In(landed')) = n + 1
    BY <1>5
  <2> HIDE DEF n
  <2>2. (n + 1) * Earns = n * Earns + Earns /\ n * Earns \in Int
    BY <1>1, <2>1, OneEarnsMore
  <2>3. balance = Opening + n * Earns - SumFunction(CostOf(landed))
    BY <1>6 DEF n
  <2> QED BY <1>1, <1>5, <2>1, <2>2, <2>3, LoyaltyAssumption
<1>8. PointsAddUp'
  BY <1>7 DEF PointsAddUp, Recorded, In, CostOf
<1>9. balance' \in Nat
  BY <1>1
<1> QED BY <1>2, <1>3, <1>8, <1>9 DEF r

(* The steps that write no receipt and land no sale.                       *)
LEMMA SyncSame ==
    ASSUME SyncInv, UNCHANGED <<balance, outbox, receipt, landed>>,
           cost' \in Int, cached' \in [Tills -> Views]
    PROVE  SyncInv'
<1>1. SyncTypes'
  BY DEF SyncInv, SyncTypes
<1>2. PointsAddUp'
  BY DEF SyncInv, PointsAddUp, Recorded
<1> QED BY <1>1, <1>2 DEF SyncInv

(* What the server holds now.                                              *)
LEMMA ServerIsView == ASSUME SyncInv PROVE IsView(ServerView) /\ ServerView \in Views
BY DEF SyncInv, SyncTypes, IsView, ServerView, Views

(* What a replayed sale is charged stands as its receipt says.             *)
LEMMA ReplayedIs ==
    ASSUME SyncInv, NEW s \in Sales, receipt[s] # NoSale,
           NEW plan, plan = Replayed(s)
    PROVE  /\ plan.units = receipt[s].units /\ plan.units \in Nat
           /\ plan.cost \in Nat /\ plan.cost <= balance
           /\ plan.units > 0 /\ plan.cost = 0 => ServerView # receipt[s].seen
<1> DEFINE q == receipt[s].quantity
           u == receipt[s].units
           strict == PlanStrict(Basket(q), Programme(ServerView), None, Asked(u))
<1>1. u \in Nat /\ q \in Nat /\ Fair(receipt[s].seen, q, u)
  BY DEF SyncInv, ReceiptFair
<1>2. /\ strict.refusal = None <=> Fair(ServerView, q, u)
      /\ strict.refusal = None => /\ strict.units = u /\ strict.cost \in Nat
                                  /\ (strict.cost <= ServerView.balance \/ strict.cost = 0)
                                  /\ u > 0 => strict.cost > 0
  <2> HIDE DEF q, u
  <2> QED BY <1>1, ServerIsView, StrictDeal
<1>3. balance \in Nat /\ ServerView.balance = balance
  BY DEF SyncInv, SyncTypes, ServerView
<1>4. CASE strict.refusal = None
  <2>1. plan = strict
    BY <1>4 DEF Replayed
  <2> HIDE DEF q, u, strict
  <2>2. plan.units = u /\ plan.cost \in Nat /\ plan.cost <= balance /\ (u > 0 => plan.cost > 0)
    BY <1>2, <1>3, <1>4, <2>1
  <2> QED BY <1>1, <2>2 DEF u
<1>5. CASE strict.refusal # None
  <2>1. plan = ReplayLines(Basket(q), Asked(u))
    BY <1>5 DEF Replayed
  <2>2. u = 0 \/ u <= q
    BY <1>1 DEF Fair
  <2>3. plan.units = u /\ plan.cost = 0
    <3> HIDE DEF q, u
    <3> QED BY <1>1, <2>1, <2>2, ReplayDeal
  <2>4. ServerView # receipt[s].seen
    BY <1>1, <1>2, <1>5
  <2> QED BY <1>1, <1>3, <2>3, <2>4
<1> QED BY <1>4, <1>5

(* A sale online lands as it was planned.                                  *)
LEMMA OnlineStep ==
    ASSUME SyncInv, NEW till \in Tills, NEW s \in Sales,
           NEW q \in 1..MaxUnits, NEW u \in 0..MaxUnits, SellOnline(till, s, q, u)
    PROVE  SyncInv'
<1> DEFINE plan == PlanStrict(Basket(q), Programme(ServerView), None, Asked(u))
           r == [units |-> plan.units, quantity |-> q, seen |-> ServerView]
           l == [units |-> plan.units, cost |-> plan.cost, found |-> ServerView]
<1>1. /\ receipt[s] = NoSale /\ plan.refusal = None
      /\ receipt' = [receipt EXCEPT ![s] = r] /\ Land(s, plan)
      /\ UNCHANGED <<cost, cached, outbox>>
  BY DEF SellOnline
<1>2. q \in Nat /\ u \in Nat /\ IsView(ServerView)
  BY ServerIsView, LoyaltyAssumption
<1>3. /\ Fair(ServerView, q, u) /\ plan.units = u /\ plan.cost \in Nat
      /\ (plan.cost <= ServerView.balance \/ plan.cost = 0) /\ (u > 0 => plan.cost > 0)
  <2> HIDE DEF plan
  <2>1. plan = PlanStrict(Basket(q), Programme(ServerView), None, Asked(u))
    BY DEF plan
  <2> QED BY <1>1, <1>2, <2>1, StrictDeal
<1>4. balance \in Nat /\ ServerView.balance = balance /\ plan.cost <= balance
      /\ landed[s] = NoSale
  <2>1. balance \in Nat /\ ServerView.balance = balance /\ landed[s] = NoSale
    BY <1>1 DEF SyncInv, SyncTypes, ServerView
  <2> HIDE DEF plan
  <2> QED BY <1>3, <2>1
<1>5. /\ balance' \in Nat /\ PointsAddUp'
      /\ landed' = [x \in Sales |-> landed'[x]] /\ landed'[s] = l
      /\ \A x \in Sales \ {s} : landed'[x] = landed[x]
  <2> HIDE DEF plan
  <2> QED BY <1>1, <1>2, <1>3, <1>4, LandMoves
<1>6. ReceiptFair(r) /\ LandedAsPromised(l, r) /\ r # NoSale
  <2>1. r.units = u /\ r.quantity = q /\ r.seen = ServerView
        /\ l.units = u /\ l.cost = plan.cost /\ NoSale.units = -1
    BY <1>3 DEF NoSale
  <2> HIDE DEF plan, r, l
  <2> QED BY <1>2, <1>3, <2>1 DEF ReceiptFair, LandedAsPromised
<1> HIDE DEF r, l, plan
<1>7. /\ receipt' = [x \in Sales |-> receipt'[x]] /\ receipt'[s] = r
      /\ \A x \in Sales \ {s} : receipt'[x] = receipt[x]
  BY <1>1 DEF SyncInv, SyncTypes
<1>8. SyncTypes'
  BY <1>1, <1>5, <1>7 DEF SyncInv, SyncTypes
<1>9. \A t \in Tills : \A k \in DOMAIN outbox'[t] : receipt'[outbox'[t][k]] # NoSale
  <2> SUFFICES ASSUME NEW t \in Tills, NEW k \in DOMAIN outbox[t]
               PROVE  receipt'[outbox[t][k]] # NoSale
    BY <1>1
  <2>1. outbox[t] \in Seq(Sales) /\ receipt[outbox[t][k]] # NoSale
    BY DEF SyncInv, SyncTypes
  <2>2. outbox[t][k] \in Sales
    BY <2>1
  <2> QED BY <1>6, <1>7, <2>1, <2>2
<1>10. ASSUME NEW x \in Sales
       PROVE  /\ receipt'[x] # NoSale => ReceiptFair(receipt'[x])
              /\ landed'[x] # NoSale =>
                     receipt'[x] # NoSale /\ LandedAsPromised(landed'[x], receipt'[x])
  <2>1. CASE x = s
    BY <1>5, <1>6, <1>7, <2>1
  <2>2. CASE x # s
    BY <1>5, <1>7, <2>2 DEF SyncInv
  <2> QED BY <2>1, <2>2
<1> QED BY <1>5, <1>8, <1>9, <1>10 DEF SyncInv, ReceiptFair, LandedAsPromised, Fair, IsView

(* A sale offline leaves a receipt fair on what the till saw.              *)
LEMMA OfflineStep ==
    ASSUME SyncInv, NEW till \in Tills, NEW s \in Sales,
           NEW q \in 1..MaxUnits, NEW u \in 0..MaxUnits, SellOffline(till, s, q, u)
    PROVE  SyncInv'
<1> DEFINE view == cached[till]
           plan == PlanTrimmed(Basket(q), Programme(view), None, Asked(u))
           r == [units |-> plan.units, quantity |-> q, seen |-> view]
<1>1. /\ receipt[s] = NoSale
      /\ receipt' = [receipt EXCEPT ![s] = r]
      /\ outbox' = [outbox EXCEPT ![till] = Append(@, s)]
      /\ \/ UNCHANGED cached
         \/ cached' = [cached EXCEPT ![till].balance = @ - plan.cost]
      /\ UNCHANGED <<balance, cost, landed>>
  BY DEF SellOffline
<1>2. q \in Nat /\ u \in Nat /\ IsView(view) /\ view \in Views
  BY LoyaltyAssumption DEF SyncInv, SyncTypes, Views, IsView
<1>3. plan.units \in Nat /\ plan.cost \in Int /\ Fair(view, q, plan.units)
  <2> HIDE DEF plan, view
  <2>1. plan = PlanTrimmed(Basket(q), Programme(view), None, Asked(u))
    BY DEF plan
  <2> QED BY <1>2, <2>1, TrimDeal
<1>4. ReceiptFair(r) /\ r # NoSale
  <2>1. r.units = plan.units /\ r.quantity = q /\ r.seen = view /\ NoSale.units = -1
    BY DEF NoSale
  <2> HIDE DEF plan, r, view
  <2> QED BY <1>2, <1>3, <2>1 DEF ReceiptFair
<1>5. cached' \in [Tills -> Views]
  <2> HIDE DEF plan
  <2>1. cached \in [Tills -> Views]
    BY DEF SyncInv, SyncTypes
  <2> DEFINE less == [view EXCEPT !.balance = @ - plan.cost]
  <2>2. less \in Views
    BY <1>2, <1>3 DEF Views
  <2>3. cached' = cached \/ cached' = [cached EXCEPT ![till] = less]
    BY <1>1
  <2> HIDE DEF less
  <2> QED BY <2>1, <2>2, <2>3
<1> HIDE DEF r, plan, view
<1>6. /\ receipt' = [x \in Sales |-> receipt'[x]] /\ receipt'[s] = r
      /\ \A x \in Sales \ {s} : receipt'[x] = receipt[x]
  BY <1>1 DEF SyncInv, SyncTypes
<1>7. SyncTypes'
  <2>1. outbox' \in [Tills -> Seq(Sales)]
    BY <1>1 DEF SyncInv, SyncTypes
  <2> QED BY <1>1, <1>5, <1>6, <2>1 DEF SyncInv, SyncTypes
<1>8. \A t \in Tills : \A k \in DOMAIN outbox'[t] : receipt'[outbox'[t][k]] # NoSale
  <2> SUFFICES ASSUME NEW t \in Tills, NEW k \in DOMAIN outbox'[t]
               PROVE  receipt'[outbox'[t][k]] # NoSale
    OBVIOUS
  <2>1. outbox[t] \in Seq(Sales)
    BY DEF SyncInv, SyncTypes
  <2>2. \/ outbox'[t][k] = s
        \/ k \in DOMAIN outbox[t] /\ outbox'[t][k] = outbox[t][k]
    <3>1. CASE t = till
      <4>1. outbox'[t] = Append(outbox[t], s)
        BY <1>1, <3>1 DEF SyncInv, SyncTypes
      <4> QED BY <2>1, <4>1
    <3>2. CASE t # till
      <4>1. outbox'[t] = outbox[t]
        BY <1>1, <3>2 DEF SyncInv, SyncTypes
      <4> QED BY <4>1
    <3> QED BY <3>1, <3>2
  <2>3. CASE outbox'[t][k] = s
    BY <1>4, <1>6, <2>3
  <2>4. CASE k \in DOMAIN outbox[t] /\ outbox'[t][k] = outbox[t][k]
    <3>1. outbox[t][k] \in Sales /\ receipt[outbox[t][k]] # NoSale
      BY <2>1, <2>4 DEF SyncInv
    <3> QED BY <1>4, <1>6, <2>4, <3>1
  <2> QED BY <2>2, <2>3, <2>4
<1>9. ASSUME NEW x \in Sales
      PROVE  /\ receipt'[x] # NoSale => ReceiptFair(receipt'[x])
             /\ landed'[x] # NoSale =>
                    receipt'[x] # NoSale /\ LandedAsPromised(landed'[x], receipt'[x])
  <2>1. CASE x = s
    BY <1>1, <1>4, <1>6, <2>1 DEF SyncInv
  <2>2. CASE x # s
    BY <1>1, <1>6, <2>2 DEF SyncInv
  <2> QED BY <2>1, <2>2
<1>10. PointsAddUp'
  BY <1>1 DEF SyncInv, PointsAddUp, Recorded
<1> QED BY <1>7, <1>8, <1>9, <1>10 DEF SyncInv, ReceiptFair, LandedAsPromised, Fair, IsView

(* What is left of a queue.                                                *)
LEMMA TailIs ==
    ASSUME NEW S, NEW seq \in Seq(S), seq # <<>>, NEW k \in DOMAIN Tail(seq)
    PROVE  k + 1 \in DOMAIN seq /\ Tail(seq)[k] = seq[k + 1]
<1>1. Len(seq) \in Nat /\ Len(seq) >= 1 /\ Len(Tail(seq)) = Len(seq) - 1
      /\ Tail(seq) \in Seq(S)
  OBVIOUS
<1>2. k \in 1..Len(Tail(seq))
  BY <1>1
<1> QED BY <1>1, <1>2

(* A replayed sale lands once, as its receipt says.                        *)
LEMMA ReplayStands ==
    ASSUME SyncInv, NEW till \in Tills, NEW lost \in BOOLEAN, Replay(till, lost)
    PROVE  SyncInv'
<1> DEFINE s == Head(outbox[till])
<1>1. /\ outbox[till] # <<>> /\ LandOnce(s)
      /\ outbox' = IF lost THEN outbox ELSE [outbox EXCEPT ![till] = Tail(@)]
      /\ UNCHANGED <<cost, cached, receipt>>
  BY DEF Replay
<1>2. \A t \in Tills : outbox[t] \in Seq(Sales)
  BY DEF SyncInv, SyncTypes
<1>3. s \in Sales /\ receipt[s] # NoSale
  <2>1. 1 \in DOMAIN outbox[till] /\ s = outbox[till][1] /\ s \in Sales
    BY <1>1, <1>2
  <2> QED BY <2>1 DEF SyncInv
<1> HIDE DEF s
<1>4. outbox' \in [Tills -> Seq(Sales)]
  <2>1. Tail(outbox[till]) \in Seq(Sales)
    BY <1>1, <1>2
  <2> QED BY <1>1, <2>1 DEF SyncInv, SyncTypes
<1>5. \A t \in Tills : \A k \in DOMAIN outbox'[t] : receipt'[outbox'[t][k]] # NoSale
  <2> SUFFICES ASSUME NEW t \in Tills, NEW k \in DOMAIN outbox'[t]
               PROVE  receipt[outbox'[t][k]] # NoSale
    BY <1>1
  <2>1. CASE outbox'[t] = outbox[t]
    BY <2>1 DEF SyncInv
  <2>2. CASE t = till /\ outbox'[t] = Tail(outbox[t])
    <3>1. k + 1 \in DOMAIN outbox[t] /\ outbox'[t][k] = outbox[t][k + 1]
      BY <1>1, <1>2, <2>2, TailIs
    <3> QED BY <3>1 DEF SyncInv
  <2>3. outbox'[t] = outbox[t] \/ (t = till /\ outbox'[t] = Tail(outbox[t]))
    BY <1>1 DEF SyncInv, SyncTypes
  <2> QED BY <2>1, <2>2, <2>3
<1>6. CASE landed[s] # NoSale
  <2>1. UNCHANGED <<balance, landed>>
    BY <1>1, <1>6 DEF LandOnce
  <2>2. PointsAddUp'
    BY <2>1 DEF SyncInv, PointsAddUp, Recorded
  <2>3. SyncTypes'
    BY <1>1, <1>4, <2>1 DEF SyncInv, SyncTypes
  <2> QED BY <1>1, <1>5, <2>1, <2>2, <2>3 DEF SyncInv
<1>7. CASE landed[s] = NoSale
  <2> DEFINE plan == Replayed(s)
             l == [units |-> plan.units, cost |-> plan.cost, found |-> ServerView]
  <2>1. Land(s, plan)
    BY <1>1, <1>7 DEF LandOnce
  <2>2. /\ plan.units = receipt[s].units /\ plan.units \in Nat
        /\ plan.cost \in Nat /\ plan.cost <= balance
        /\ plan.units > 0 /\ plan.cost = 0 => ServerView # receipt[s].seen
    BY <1>3, ReplayedIs
  <2> HIDE DEF plan
  <2>3. /\ balance' \in Nat /\ PointsAddUp'
        /\ landed' = [x \in Sales |-> landed'[x]] /\ landed'[s] = l
        /\ \A x \in Sales \ {s} : landed'[x] = landed[x]
    BY <1>3, <1>7, <2>1, <2>2, LandMoves
  <2>4. LandedAsPromised(l, receipt[s])
    BY <2>2 DEF LandedAsPromised
  <2> HIDE DEF l
  <2>5. SyncTypes'
    BY <1>1, <1>4, <2>3 DEF SyncInv, SyncTypes
  <2>6. ASSUME NEW x \in Sales
        PROVE  /\ receipt'[x] # NoSale => ReceiptFair(receipt'[x])
               /\ landed'[x] # NoSale =>
                      receipt'[x] # NoSale /\ LandedAsPromised(landed'[x], receipt'[x])
    <3>1. CASE x = s
      BY <1>1, <1>3, <2>3, <2>4, <3>1 DEF SyncInv
    <3>2. CASE x # s
      BY <1>1, <2>3, <3>2 DEF SyncInv
    <3> QED BY <3>1, <3>2
  <2> QED BY <1>5, <2>3, <2>5, <2>6 DEF SyncInv, ReceiptFair, LandedAsPromised, Fair, IsView
<1> QED BY <1>6, <1>7

(* Every step keeps the invariant.                                         *)
LEMMA SyncStep ==
    ASSUME SyncInv, [Next]_vars
    PROVE  SyncInv'
<1>1. cached \in [Tills -> Views] /\ cost \in Int /\ ServerView \in Views /\ balance \in Int
  <2>1. cached \in [Tills -> Views] /\ cost \in Int /\ balance \in Nat
    BY DEF SyncInv, SyncTypes
  <2> QED BY <2>1, ServerIsView
<1>2. CASE WorkBoard \/ UNCHANGED vars
  <2>1. UNCHANGED syncVars
    BY <1>2 DEF WorkBoard, vars
  <2> QED BY <1>1, <2>1, SyncSame DEF syncVars
<1>3. CASE PutAway
  <2>1. cost' \in Int /\ cached' \in [Tills -> Views]
        /\ UNCHANGED <<balance, outbox, receipt, landed>>
    BY <1>1, <1>3, LoyaltyAssumption DEF PutAway, Views
  <2> QED BY <2>1, SyncSame
<1>4. CASE TakeSales
  <2>1. SyncNext
    BY <1>4 DEF TakeSales
  <2>2. ASSUME NEW till \in Tills, Sync(till) PROVE SyncInv'
    <3>1. cost' \in Int /\ cached' \in [Tills -> Views]
          /\ UNCHANGED <<balance, outbox, receipt, landed>>
      BY <1>1, <2>2 DEF Sync
    <3> QED BY <3>1, SyncSame
  <2>3. ASSUME NEW c \in Costs, Reprice(c) PROVE SyncInv'
    <3>1. cost' \in Int /\ cached' \in [Tills -> Views]
          /\ UNCHANGED <<balance, outbox, receipt, landed>>
      BY <1>1, <2>3, LoyaltyAssumption DEF Reprice
    <3> QED BY <3>1, SyncSame
  <2>4. ASSUME NEW till \in Tills, NEW s \in Sales, NEW q \in 1..MaxUnits, NEW u \in 0..MaxUnits,
               SellOnline(till, s, q, u) \/ SellOffline(till, s, q, u)
        PROVE  SyncInv'
    BY <2>4, OnlineStep, OfflineStep
  <2>5. ASSUME NEW till \in Tills, NEW lost \in BOOLEAN, Replay(till, lost) PROVE SyncInv'
    BY <2>5, ReplayStands
  <2> QED BY <2>1, <2>2, <2>3, <2>4, <2>5 DEF SyncNext
<1> QED BY <1>2, <1>3, <1>4 DEF Next

(* What the invariant says of the points and the receipts.                 *)
LEMMA SyncHolds ==
    ASSUME SyncInv
    PROVE  PointsMoveOnce /\ GivenAsPromised
<1>1. PointsMoveOnce
  BY DEF PointsMoveOnce, NeverOverdrawn, SyncInv, SyncTypes
<1>2. GivenAsPromised
  BY DEF GivenAsPromised, ReceiptStands, FreeOnlyWhenStale, Recorded, SyncInv, LandedAsPromised
<1> QED BY <1>1, <1>2

(* However often a queued sale is sent and its answer lost, it moves the   *)
(* member's points once, and no number of offline tills takes them below   *)
(* zero.                                                                   *)
THEOREM PointsAlwaysMoveOnce == Spec => []PointsMoveOnce
<1>1. Spec => []SyncInv
  BY SyncStart, SyncStep, PTL DEF Spec
<1>2. SyncInv => PointsMoveOnce
  BY SyncHolds
<1> QED BY <1>1, <1>2, PTL

(* Whatever synced or was repriced since, what lands covers the units on   *)
(* the customer's receipt, and costs nothing only when the till was stale. *)
THEOREM AlwaysGivenAsPromised == Spec => []GivenAsPromised
<1>1. Spec => []SyncInv
  BY SyncStart, SyncStep, PTL DEF Spec
<1>2. SyncInv => GivenAsPromised
  BY SyncHolds
<1> QED BY <1>1, <1>2, PTL
=============================================================================
