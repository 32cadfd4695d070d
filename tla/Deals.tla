-------------------------------- MODULE Deals --------------------------------
(***************************************************************************)
(* When a deal or a combo may be sold (madar-catalog sale_window.rs), and  *)
(* deals over the lines of an order (deal.rs): what one saves on given     *)
(* units, the best way to take one, and the automatic checkout.            *)
(*                                                                         *)
(* A moment is a day number and a tick of that day on the branch's wall    *)
(* clock; text that does not parse, which never matches, is left out.      *)
(* Lines are a function from line index to line; the units a deal is asked *)
(* on, a function from line index to how many.  Why an application is      *)
(* refused is left out.  A deal's id is a number, so that ties are broken. *)
(***************************************************************************)
EXTENDS Rounding

Weekday(day) == (day + 4) % 7

(* The day the window that covers the moment started on, if one does: half *)
(* open, across midnight when it ends before it starts.                    *)
StartDays(w, now) ==
    IF w.starts = None /\ w.ends = None THEN {now.date}
    ELSE { day \in {now.date, now.date - 1} :
             /\ None \notin {w.starts, w.ends}
             /\ IF w.starts < w.ends
                THEN day = now.date /\ now.time \in w.starts..(w.ends - 1)
                ELSE /\ w.ends < w.starts /\ now.time \notin w.ends..(w.starts - 1)
                     /\ day = now.date <=> now.time >= w.starts }

(* Weekday and dates are judged on that day.                               *)
Matches(w, now) ==
    \E day \in StartDays(w, now) :
        /\ Weekday(day) \in w.weekdays
        /\ w.from # None => day >= w.from
        /\ w.to # None => day <= w.to

(* No window for the branch: always open.                                  *)
Open(windows, branch, now) ==
    LET applicable == { w \in windows : w.branch \in {None, branch} }
    IN  applicable = {} \/ \E w \in applicable : Matches(w, now)

-----------------------------------------------------------------------------
NotEligible == [times |-> 0]

(* A pool entry names an item, or else a category; either of one size.     *)
EntryMatches(entry, line) ==
    /\ IF entry.item # None THEN entry.item = line.item
       ELSE entry.category # None /\ entry.category = line.category
    /\ entry.size # None => entry.size = line.size

InPool(pool, line) == \E entry \in pool : EntryMatches(entry, line)

ValidRule(deal) ==
    CASE deal.kind = "n_for_price" -> deal.price # None /\ deal.price >= 0 /\ deal.qty >= 2
      [] deal.kind = "buy_get"     -> /\ None \notin {deal.get, deal.percent}
                                      /\ deal.qty >= 1 /\ deal.get >= 1 /\ deal.percent \in 1..100
      [] OTHER                     -> FALSE

EligibleNow(deal, ctx) == deal.active /\ Open(deal.windows, ctx.branch, ctx.now)

(* Mutant: what is asked now is not counted.                               *)
WithinCapBefore(deal, times, ctx) ==
    deal.max # None => ctx.used[deal.id] < deal.max

WithinCap(deal, times, ctx) ==
    deal.max # None => ctx.used[deal.id] + times <= deal.max

HasRewardPool(deal) == deal.kind = "buy_get" /\ deal.rewardPool # {}

(* Units of one application of the deal.                                   *)
ChunkSize(deal) == IF deal.kind = "buy_get" THEN deal.qty + deal.get ELSE deal.qty

-----------------------------------------------------------------------------
(* A unit is its line's index and its number on the line.                  *)
UnitsOf(lines, indexes) ==
    UNION { {i} \X (1..NonNegative(lines[i].quantity)) : i \in indexes }

PoolUnits(pool, lines) ==
    UnitsOf(lines, { i \in DOMAIN lines : InPool(pool, lines[i]) })

(* Mutant: cheapest first.                                                 *)
CheapestFirst(lines, u, v) ==
    \/ lines[u[1]].price < lines[v[1]].price
    \/ lines[u[1]].price = lines[v[1]].price /\ (u[1] < v[1] \/ (u[1] = v[1] /\ u[2] < v[2]))

(* Dearest first, then by line.                                            *)
Dearer(lines, u, v) ==
    \/ lines[u[1]].price > lines[v[1]].price
    \/ lines[u[1]].price = lines[v[1]].price /\ (u[1] < v[1] \/ (u[1] = v[1] /\ u[2] < v[2]))

Sorted(lines, units) ==
    [n \in 1..Cardinality(units) |->
        CHOOSE u \in units : Cardinality({ v \in units : Dearer(lines, v, u) }) = n - 1]

Chunk(sorted, size, t) == SubSeq(sorted, (t - 1) * size + 1, t * size)

Value(lines, chunk) ==
    SumFunctionOnSet([k \in DOMAIN chunk |-> lines[chunk[k][1]].price], DOMAIN chunk)

PctOf(value, percent) == RoundHalfAway(NonNegative(value) * percent, 100)

(* What one chunk, dearest first, takes off.                               *)
ChunkSaving(deal, lines, chunk) ==
    IF deal.kind = "n_for_price" THEN NonNegative(Value(lines, chunk) - deal.price)
    ELSE PctOf(Value(lines, SubSeq(chunk, deal.qty + 1, Len(chunk))), deal.percent)

-----------------------------------------------------------------------------
(* Of the units asked, the cheapest a reward pool admits are the rewards,  *)
(* one outside the pool first, then the later line.                        *)
Cheaper(deal, lines, u, v) ==
    LET key(x) == <<lines[x[1]].price, IF InPool(deal.pool, lines[x[1]]) THEN 1 ELSE 0,
                    -x[1], -x[2]>>
    IN  \E n \in 1..4 : key(u)[n] < key(v)[n] /\ \A m \in 1..(n - 1) : key(u)[m] = key(v)[m]

Rewards(deal, lines, picked, want) ==
    LET fit == { u \in picked : InPool(deal.rewardPool, lines[u[1]]) }
    IN  { u \in fit : Cardinality({ v \in fit : Cheaper(deal, lines, v, u) }) < want }

(* The chunks the asked units make: dearest first, the rewards last.       *)
ChunksOf(deal, lines, buys, gets, times) ==
    [t \in 1..times |->
        IF HasRewardPool(deal) THEN Chunk(buys, deal.qty, t) \o Chunk(gets, deal.get, t)
        ELSE Chunk(buys, ChunkSize(deal), t)]

Chunks(deal, lines, picked, rewards, times) ==
    ChunksOf(deal, lines, Sorted(lines, picked \ rewards), Sorted(lines, rewards), times)

(* The units make whole chunks, each unit where it may be.                 *)
MakeChunks(deal, lines, picked, rewards, times) ==
    /\ times >= 1 /\ Cardinality(picked) = times * ChunkSize(deal)
    /\ HasRewardPool(deal) => Cardinality(rewards) = times * deal.get
    /\ \A u \in picked \ rewards : InPool(deal.pool, lines[u[1]])

UnitsAreFree(lines, asked) ==
    \A i \in DOMAIN asked : i \in DOMAIN lines /\ asked[i] \in 1..lines[i].quantity

(* What a chunk takes off line i.                                          *)
CutOf(deal, lines, chunk, i) ==
    LET cuts == Split(ChunkSaving(deal, lines, chunk),
                      [k \in DOMAIN chunk |-> lines[chunk[k][1]].price])
    IN  SumFunctionOnSet(cuts, { k \in DOMAIN chunk : chunk[k][1] = i })

Application(deal, lines, asked, chunks) ==
    [deal |-> deal.id, times |-> Len(chunks), asked |-> asked,
     discount |-> SumFunctionOnSet([t \in DOMAIN chunks |-> ChunkSaving(deal, lines, chunks[t])], DOMAIN chunks),
     cuts |-> [i \in DOMAIN asked |->
                  SumFunctionOnSet([t \in DOMAIN chunks |-> CutOf(deal, lines, chunks[t], i)],
                                   DOMAIN chunks)]]

PriceUnits(deal, lines, asked, picked, rewards, times, ctx) ==
    LET app == Application(deal, lines, asked, Chunks(deal, lines, picked, rewards, times))
    IN  IF /\ MakeChunks(deal, lines, picked, rewards, times)
           /\ WithinCap(deal, times, ctx)
           /\ app.discount > 0
        THEN app ELSE NotEligible

(* The deal priced over exactly the units asked, or refused.               *)
PriceApplication(deal, lines, asked, ctx) ==
    LET picked == UNION { {i} \X (1..asked[i]) : i \in DOMAIN asked }
        times == Cardinality(picked) \div ChunkSize(deal)
    IN  IF ValidRule(deal) /\ EligibleNow(deal, ctx) /\ UnitsAreFree(lines, asked)
        THEN PriceUnits(deal, lines, asked, picked,
                 IF HasRewardPool(deal) THEN Rewards(deal, lines, picked, times * deal.get)
                 ELSE {}, times, ctx)
        ELSE NotEligible

-----------------------------------------------------------------------------
(* From one pool: the most chunks of the sorted units that each save.      *)
BestOfPool(deal, lines, ctx) ==
    LET sorted == Sorted(lines, PoolUnits(deal.pool, lines))
        size == ChunkSize(deal)
        saves(t) == ChunkSaving(deal, lines, Chunk(sorted, size, t)) > 0
        most == Max({ t \in 0..(Len(sorted) \div size) :
                        t = 0 \/ (WithinCap(deal, t, ctx) /\ \A s \in 1..t : saves(s)) })
    IN  { sorted[k] : k \in 1..(most * size) }

(* From two pools, one more chunk: the dearest free units of the pool, and *)
(* the cheapest left that may be the reward.                               *)
OneMore(deal, lines, taken) ==
    LET buys == Sorted(lines, PoolUnits(deal.pool, lines) \ taken)
        bought == { buys[k] : k \in 1..AtMost(deal.qty, Len(buys)) }
        left == Sorted(lines, PoolUnits(deal.rewardPool, lines) \ (taken \union bought))
        got == { left[k] : k \in { n \in DOMAIN left : n > Len(left) - deal.get } }
    IN  IF /\ Len(buys) >= deal.qty /\ Len(left) >= deal.get
           /\ PctOf(SumFunctionOnSet([u \in got |-> lines[u[1]].price], got), deal.percent) > 0
        THEN bought \union got ELSE {}

Rounds(lines) == [n \in 1..Cardinality(UnitsOf(lines, DOMAIN lines)) |-> n]

BestOfTwoPools(deal, lines, ctx) ==
    FoldLeft(LAMBDA taken, t : taken \union
                 (IF WithinCap(deal, t, ctx) THEN OneMore(deal, lines, taken) ELSE {}),
             {}, Rounds(lines))

ByLine(units) ==
    [i \in { u[1] : u \in units } |-> Cardinality({ u \in units : u[1] = i })]

(* The best way to take the deal, priced.                                  *)
Best(deal, lines, ctx) ==
    IF ~(ValidRule(deal) /\ EligibleNow(deal, ctx)) THEN NotEligible
    ELSE PriceApplication(deal, lines,
             ByLine(IF HasRewardPool(deal) THEN BestOfTwoPools(deal, lines, ctx)
                                           ELSE BestOfPool(deal, lines, ctx)), ctx)

(* Best first: what it saves, then the deal's sort, then its id.           *)
Better(a, b, deals) ==
    \/ a.discount > b.discount
    \/ /\ a.discount = b.discount
       /\ \/ deals[a.deal].sort < deals[b.deal].sort
          \/ deals[a.deal].sort = deals[b.deal].sort /\ a.deal < b.deal

Suggest(deals, lines, ctx) ==
    { Best(deals[id], lines, ctx) : id \in DOMAIN deals } \ {NotEligible}

First(suggestions, deals) ==
    IF suggestions = {} THEN NotEligible
    ELSE CHOOSE a \in suggestions : \A b \in suggestions \ {a} : Better(a, b, deals)

Top(deals, lines, ctx) == First(Suggest(deals, lines, ctx), deals)

-----------------------------------------------------------------------------
(* The lines with an application's units consumed.                         *)
Consume(lines, app) ==
    [i \in DOMAIN lines |->
        IF i \in DOMAIN app.asked THEN [lines[i] EXCEPT !.quantity = @ - app.asked[i]]
        ELSE lines[i]]

Take(order, app) ==
    [order EXCEPT !.lines = Consume(@, app), !.apps = Append(@, app),
                  !.ctx.used[app.deal] = @ + app.times]

TakeIfAny(order, top) == IF top = NotEligible THEN order ELSE Take(order, top)

(* QR and online: the top suggestion, again and again, until none saves.   *)
AutoApply(deals, lines, ctx) ==
    FoldLeft(LAMBDA order, n : TakeIfAny(order, Top(deals, order.lines, order.ctx)),
             [lines |-> lines, ctx |-> ctx, apps |-> <<>>], Rounds(lines))
=============================================================================
