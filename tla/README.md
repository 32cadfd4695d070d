# Verification of madar-shared

`madar-shared` is a workspace of pure Rust crates: the rules that the backend
(MadarRust, Postgres) and the till core (madar-core, SQLite, often offline)
must answer the same way. The crates keep no state and do no I/O. What makes
them hard is where they run: the same rule is asked on a till that has not
heard from the server for hours, and again by the server when the till's queue
is replayed, after other tills, managers and owners have changed what the rule
reads. The specifications here put each rule back between its callers.

So each component has two layers: the rule, translated from the crate, and
around it the smallest machine of tills, server, people, outboxes and pages
that reaches the interesting orders of calls. The callers are not in this
repository; what is modelled of them is what the crates' docs and signatures
say they do, and it is marked external in `PROJECT.json`'s map.

## The system

| Part (crate) | State it is asked about | Operations | Who calls it, and what is hard |
|---|---|---|---|
| Stock transfers (madar-inventory `transfer`, `api`) | a transfer's status, lines, locations; stock on hand | request, draft, edit, accept, decline, dispatch, receive, cancel | handlers called by people on two sides with stale screens, retries and races |
| Replenishment (`replenish`) | levels, on hand, what is on the way, what is promised | suggest | several managers; requests beside drafts |
| Purchases, waste, counts (`purchase`, `count`; madar-money `waste`, `cost`; madar-units) | an order and its deliveries, a recipe, a book figure | convert, cost, deliver, waste, finalise a count | units and grains; rounding at each step |
| Loyalty (madar-loyalty) | a basket, the asked rewards, programmes, balances, the ceiling | plan strictly, trim, replay, gift, card | planned on a till's stale copy, replayed on the server; asks by line number |
| Till report and close (madar-till `report`, `reconcile`) | sales, legs, tips, movements, refunds, the frozen drawer figure | fold, close lines, plan lines, force-close | the same fold over two copies of the rows, sales landing after the close |
| Catalogue pricing (madar-catalog `price`, `combo`, `view`, `staff`, `feed`) | menu rows, options, combos | price a line, quote a combo, comp a staff drink | a till's rows of two ages beside the server's |
| Bill, tax, discount, tender (madar-money) | a sale's lines, discount, policy, legs | price, judge a discount, record a tender | rounding in turn; what is judged and what is taken |
| Refund splits (madar-money `tax`, madar-till `report`) | an order's figures and its refunds | split one refund, split a till's list | cumulative rounding, refunds from two tills |
| Deals and windows (madar-catalog `deal`, `sale_window`; madar-money `alloc`) | a cart, the deals applied to it, the rules, a wall clock | suggest, price an application, automatic checkout | overlapping deals, windows across midnight, deals judged again by the server |
| Staff pool (madar-money `staff_pool`) | settings, the day's count | decide | offline tills, peers, midnight, snapshot pages |
| Access (madar-authz) | roles, grants, overrides, limits, snapshots, approvals | resolve, decide, park, settle, guards | offline snapshots, sequences of administrative writes |
| Registry and plan table (authz-gen; madar-authz, madar-plan) | capabilities.toml, plans.toml, the generated copies | validate, generate, check | edits each right alone; copies that lag |
| Plans (madar-plan) | plan, counts, picks | ceilings, limits, downgrade | racing activations, sales landing after a downgrade |
| Time, attendance, pay (madar-time, madar-dawam) | wall clock, shifts, periods, salaries | business day, place, dock, prorate | clock changes, short months |
| Menu import (madar-menu) | the files of an export | detect, read, merge, validate | rows that refer to rows that were skipped |
| Sync (madar-sync) | pages, ledger types | classify, checksum | a snapshot page that does not carry old rows |
| Ids, card design, carryover, web | strings, drawings, closed tills | parse, draw, pick | formats, no protocol |

`PROJECT.json` lists every component with its status and every hazard at its
line with the properties that would catch it.

## Modules

Inventory. `StockTransfer` is the lifecycle table (`StepTable`, one row per arm
of `step`), `check_receive_line` (`LineAccepted`, `Difference`, over quantities
typed finer than a thousandth) and one action per handler. A call is enabled
when the table has its row for the transfer's status, the caller works at the
row's side and holds its capability; everything else is a refusal, which
changes nothing. `moved` and `stamp` record what each call moved and who made
it. `GoodsInTransit` is what this promises the two shelves, with no status and
no people: a parcel leaves once, is fixed on the road and ends once.
`StockTransfer` implements it (`Promise == INSTANCE GoodsInTransit WITH ...`,
mapping a transfer to its whereabouts by its status). `Replenishment` EXTENDS
`StockTransfer`: managers draft the current suggestion, branches ask for their
need, stock arrives exactly and branches sell below zero.

`StockRoom` is the bar and the store: units and densities, a recipe's lines
with yields written and shown again, the extras that follow a drink
(`FollowTheDrink`), its cost, an order placed and delivered in parts, waste and
counts, all in whole thousandths.

Loyalty. `LoyaltyPlan` is the planner: strict (`PlanStrict`), trimming
(`PlanTrimmed`), lenient (`ReplayLines`), the gift and the card; a programme is
a function from track to record, so plan.rs is the case of one track numbered
1. `LoyaltySync` runs it over a basket edited in any order, with asks that go
stale, then with one member's points spent at several tills, online, offline
and replayed, with lost replies and a repricing.

The till's day. `TillReport` is the fold (drawer, payments, people, movement
buckets, close lines) and the reconciliation plan. `TillClose` runs it on a
device and a server over a day, with the cash box beside them: sales, voids,
movements and refunds are written on the device and queued (replay.rs:26-36),
and each lands on its own, before or after the server has closed the till live,
by replay or by force. A frozen figure is made again when a sale lands late, and
for nothing else (report.rs:342-347).

One sale. `LinePrice` prices an item line (options, swaps over the recipe's own
choice, optionals) and refreshes rows from the feed; `Combos` quotes a combo
over its picks; `Bill` takes off what the staff pool and rewards cover, goes
from lines to figures, and holds the discount rules and the tender;
`Rounding` has the roundings, the allocator and the cumulative share; `Refunds`
the refunds of one order issued at several tills (`RefundSplit` is
`refund_split`, `TillSplit` is `refund_splits`). `Sale` composes them: a till
pulls rows of one revision and add-on prices of another, rings a cart, checks
out, and the server prices again what it must, books the sale, and its order is
refunded. The two sides share one definition each, asked with a side ("till" or
"server").

`Deals` is deal.rs and sale_window.rs: when a rule is on sale, `Best`,
`PriceApplication`, `Suggest` and `AutoApply`. Loops over sorted units become
chunks of one sorted sequence (`Sorted`). `Checkout` runs them
over one cart while the clock passes and a rule is edited; `Judged` is the
server going over the order's deals again. `StaffPool` is the drinks pool
decided at tills on their own count and again by the server at replay, with the
snapshot page of madar-sync between them.

Access. `Access` is the rules of madar-authz: `Resolve`, `Decide`,
`CanApprove`, `CanSettle`. `AccessAdmin` is guard.rs with the writes it guards.
`AccessTill` decides one void from a signed snapshot on an offline till, by its
teller, by a manager's PIN or parked for one, and again on the server whenever
the queue drains (acts.rs, snapshot.rs). `OrgPlan` holds the plan table, its
generator's checks and what it allows, and an organisation under it:
activations judged on counts read before, moves between plans, the till a free
branch sells on. Both use `Access`. `Registry` is the capability registry: what
the generator refuses, the copies it writes or checks, and what applications
read from a copy (core, templates, old tablets' cells).

The rest. `BusinessTime` is a branch's wall clock over a zone's changes and a
shift's placement; `Attendance` runs an employee's months over it and holds the
rules of pay: periods, salaries, the ladder and absence. `BulkMenu` is a whole menu
and the checks before it is written; `FoodicsImport` EXTENDS it and reads one
from an export while its rows are edited.

MC modules give the constants. `MCBackOffice` puts four desks that share no
state in one machine, worked one at a time: the import, the recipe, the store
and the registry. Their states add up and do not multiply.

The state of every machine is that of its callers, and one action is one call
of theirs. Figures the crates return (a plan, a split, a report, a bill) are
never stored unless the caller stores them; they are operators over the state.

Definitions commented "Mutant:" are faulty variants of the definition below
them. No specification uses them; `PROJECT.json` pairs each with the property
that breaks when it takes the definition's place.

## Runs

| Run | Distinct states | What it asks |
|---|---|---|
| `transfer` | 30,625 | Stock is conserved, moves once and by the right side, is frozen once sent, and the lifecycle implements `GoodsInTransit`, whichever calls of three people race on two transfers of two items. |
| `replenish` | 154,835 | Two warehouses suggest for two selling branches, which may ask as well: nobody is sent past their target (`NeverOverfilled`) and nothing is promised twice (`NeverOverpromised`). |
| `loyalty` | 2,433,228 | The till's trimming planner against the server's strict one over every basket of two lines and two asks, gone stale or not; then two tills spend one member's points, with lost answers and a repricing: points move once, the receipt stands and is free only when the till was stale. |
| `till_close` | 484,356 | A till's day to its close and after, whatever is still queued: the drawer while open, once settled (off by exactly what a frozen figure leaves out) and with late sales on their way, the stored lines, names shared with cash among them, the people, the corrections; and that the figure settles (liveness). |
| `sale` | 705,583 | A cart of up to two lines rung on rows of two ages: till and server charge the same; picks cost the same in any order and a combo's parts add up; the bill is its lines less what is taken, under five policies and eight discounts; a discount takes what it was judged on; three refunds from two tills take back exactly the tax, and a till that knew what landed forecast the split. |
| `checkout` | 26,515 | A cart of three lines under three overlapping deals, two applied at once, across midnight and an edit of a rule: no unit is in two deals and the cuts add up, the server agrees in whatever order it judges them, online checkout takes all that saves, `best` is the best, and a window is its interval. |
| `staff_pool` | 849,844 | Three drinks from two offline tills over three days, the owner changing the settings, tills pulling, taking windowed pages and hearing each other: overspends are counted, none a till saw is forgotten, and no page makes a till forget its own drinks. |
| `access_admin` | 36,531 | Three writes by two owners, a manager and a teller: nobody gains what the writer lacks, core stays, a full owner remains, another role never takes away. |
| `access_till` | 1,829,790 | One void over two branches and a clock of five ticks: the server agrees with the till however late, marks one only for a cause, nobody settles their own, and lost access works for less than a snapshot's life. |
| `plan` | 1,021,440 | Two people activate tills on counts read earlier, the organisation moves between plans of several tables, queued sales land late: a limit is passed only by a stale count, the tables nest, and a free branch sells on one till that later sales do not move. |
| `attendance` | 128,479 | Five zones' clock changes, shifts in gaps, over midnight and of whole days, periods that open on the 31st, a joiner, a raise: days tile time, shifts follow the wall, each day is paid once at its salary. |
| `back_office` | 367,078 | An export's rows edited and imported (every row of every file is in the menu or warned of, but for two silences the property names, and the menu may be written); a recipe edited and a drink changed (the editor is stable, extras follow the cup); stock bought, wasted and counted; the registry edited and generated (`RegistryHolds`). |

### Bounds

Bounds are CONSTANTS and stand in the guards. They were chosen by what a
property needs to be violated, and each mutant shows that the bound is large
enough for a bug of its kind.

* `transfer`: two transfers, so that a call on one meets the stock of another;
  two items, so that one line can be refused when another is good; `Grain = 2`
  types quantities in half thousandths, so `Milli` rounds.
* `replenish`: two warehouses and two branches are the smallest that promise
  one stock twice or fill one branch twice; three transfers put a request, a
  draft and stock in transit side by side; `Oversold = 1`.
* `loyalty`: two lines and two asks make an ask name the other line, a line
  that is gone, or one line twice; offers include a cost of zero, a negative
  balance, a ceiling of none, zero and two, and two tracks. Three sales over two
  tills and five points: the third sale finds a balance neither till knew.
* `till_close`: a day of `MaxRows` 3 among two sales, a movement, its correction
  and a refund, so that a sale lands beside a movement or a refund that does not;
  three kinds of sale (cash with a leg whose method is cash elsewhere, and a tip on
  the first leg's method; a second cash method with its tip on a card; a card sale
  with its tip in cash); a correction by key or by server id; `Miscounts` {0, 1},
  a count that is right and one that is not.
* `sale`: `MaxLines` 2 (an item beside a combo or a staff drink), `MaxEdits` 1
  (one change of revision or of an add-on price), a latte with swaps in one
  family, an extra and a choice two groups list, a combo with a slot of one or
  two; refunds only after one kind of sale (`Followed`, `MaxRefunded` 6), with
  three refunds, and of orders whose tax and service do not divide the total.
* `checkout`: three lines of up to two units, one line in two pools; a deal of
  at most two times; days of three ticks, Sunday and Monday, so that a window
  crosses midnight and weekdays and dates differ on either side; one edit.
* `staff_pool`: allowances below zero and of one, three drinks past them, three days
  so that a two-day window leaves one out.
* `access_admin`: two overrides at a time and three writes reach every pair of
  guards followed by a third. Longer sequences are covered by the proofs.
* `access_till`: `Life = 2` in a clock of 0..4 lets a snapshot expire, be
  fetched again and be used in its last tick; `TicksPerMinute = 2` makes an age
  round down.
* `plan`: two branches, one with two tills, two people, and a table with one
  thing at a time written otherwise, so that every check of the generator
  refuses one and what it passes is judged.
* `attendance`: February to May, so that a period that opens on the 31st meets
  months of 28, 30 and 31 days; half hours, the code's own step; zones that
  jump over midnight, back onto the evening before, by an hour or half of one.
* `back_office`: two edits of an export of up to four rows a file; three steps at
  the bar or the store over awkward amounts (a thousandth, 333, 10,995; one drink
  and two, some worth an exact half piastre) and units, `MaxQuantity` at the
  largest amount; two edits of
  a registry between runs that may stop half-way.

`CHECK_DEADLOCK FALSE` stands in the configurations because the bounded machines
do stop: when ids, writes or the clock run out, or a transfer is final.

Symmetry is used over values no definition tells apart (`replenish`, `loyalty`,
`staff_pool`, `access_admin`, the people of `plan`), never in the run with
liveness.

### Fairness

Only `till_close` has liveness. `FairSpec` assumes that a queued sale which is
resent is answered in the end (`WF` of `Land(k, FALSE)`, for each sale), and
that the device goes on pulling (`WF` of `PullPage`): the till's outbox retries
until it is answered and its pull loop runs as long as the app does. Nothing is
assumed of people: nobody must ring, close or refund. Under it
`EventuallySettled` says that once the server has closed the till, the device's
figure comes to the cash in the box, less what its frozen figure leaves out, and
stays there. Nothing need be assumed of voids, movements and refunds: whether
they ever land no longer matters to a closed till's figure.

### What the machines assume of the callers

These are the apps' parts, which the repository describes but does not hold:

* a till's outbox is sent in order, the server takes an operation once by its
  id, and an answer may be lost (`LoyaltySync`, `Refunds`, `StaffPool`); in
  `TillClose` everything lands in any order, but a void after its sale;
* `TillClose`: the device writes while it has the till open, whatever the server
  did meanwhile; a movement is written without a server id and has it from an
  answer or a page; a correction reverses the kind of what it corrects
  (`ReversesWhatItCorrects`); a sale takes the cash its row says (`CashAsRung`,
  the premise of one theorem); a close finds the server's copy as it is, with
  operations still queued behind it or stuck before it;
* `Replenishment`: the suggestion is computed when it is drafted, not when its
  page was read;
* `Refunds`: a till refunds no more than it believes is left and sends in the
  order it issued;
* `Sale`: the server prices a bill itself when it has a reward or a staff comp
  and otherwise books the till's; one policy for the sale;
* `Checkout`: a unit a deal has taken is not removed before the deal is taken
  off, and the server judges an order's deals over the lines it came with; window
  text that does not parse, the reason of a refusal and `MAX_UNITS` are left out;
* `StaffPool`: a till may hear of a peer's drinks, landed or not; a drink the
  server would refuse at replay is stored and marked overspent; a snapshot page
  carries any of the drinks inside its window;
* `AccessAdmin`: a write is judged and made in one transaction; assignments and
  overrides are for every branch without an end, one override a capability;
  taking a role away passes `may_touch` and needs the authority over users;
* `AccessTill`: one device; signatures are left out; the server judges a queued
  void by the facts of the moment it was done;
* `OrgPlan`: an activation reads its count, and is judged and made on it later;
* `Attendance`: a punch outside the fence is refused, lateness is counted from
  the shift's instant (a shift that has none, in a gap longer than three hours, is
  punched by nobody; no zone of the run has one), a payslip closes a period once;
* `StockRoom` and `FoodicsImport`: figures are exact thousandths, except that a
  waste's binary sum may round an exact half down (`FloatRounded`); text is
  tokens with a key by which names are compared.

### What modelling showed

No run expects a violation. These were met on the way; each is either named as
an exception by a property or outside what the properties promise.

* Till report: a frozen figure is made again when a sale lands late and for nothing
  else (report.rs:342-347), while pay-outs, refunds and voids are queued like sales
  (replay.rs:26-36). So a till closed by force while some of them are queued stays
  off by exactly what they moved, unless a later sale has the figure made again
  after they landed. `Missed` is that amount; `SettledDrawerIsRight` and
  `EventuallySettled` say that the drawer is off by it and by nothing else.
* Till close: rows carry a method's name and whether it is cash, and may disagree (a
  tip from before tips carried a flag, on a cash method not called `cash`; a method
  whose kind was changed). `close_methods` takes a name for cash when any of its
  entries is (report.rs:486-518) and drops blank names, so an entry that is not cash
  under such a name is in no line, the cash line being the expected cash.
  `Unlisted` is that amount, and `EveryTenderListed` says that nothing else is
  missing and nothing is listed twice. When cash goes by the fallback's name, a
  line that is not cash may have that name too.
* Waste: `value_of` multiplies and adds in binary (waste.rs:36, 43), so at an exact
  half it may come out a piastre below `recipe_cost` (cost.rs:190-192: 1.015 x 100
  is 101 in one and 102 in the other). `WasteIsWorthItsCost` allows that piastre,
  at a half and nowhere else.
* Refunds: `refund_splits` takes a booked refund's split from the server, which
  rounds in the order refunds landed, and a queued one's from the order they were
  issued in (report.rs:193-206). When another till's later refund was booked
  first, a till's own list may take back a piastre more than the order's tax.
  `ForecastHolds` is the part of the promise that does hold.
* Access: an override that allows and says nothing of limits is unlimited for
  a person whose roles do not grant the capability; give them a role that does,
  and that role's limits apply. `MoreRolesNeverLess` names the exception.
* Deals: a deal whose buy and reward pools overlap may save and still not be
  suggested. `best` picks its units, `price_application` re-counts the cheapest
  unit the reward pool admits as the reward, and when that was the buy the other
  is outside the buy pool and the application is refused. deal.rs (332-333) says
  `None` only when nothing is saved, the deal is off or no time is left;
  `BestIsBest` names the exception.
* Deals: an application made before its rule was edited may count for more times
  under the new rule than it did under the old one, and the server, which counts
  by the rule it holds, may then refuse an application of the same deal that
  nobody edited. `ServerAgreesInAnyOrder` promises agreement to deals whose rule
  was not edited since one of their applications.
* Catalogue: `with_fresh_candidates` refreshes `bases` and not the options of
  `groups`, so a staff comp uses the item row's add-on prices until the revision
  moves (feed.rs:37-43); `TillAndServerAgree` exempts it. A lone pick of a swap
  keeps its quantity, and beside another pick it is one.
* Discounts: a fixed 12.5 is judged as 12 and taken as 13 (documented at
  discount.rs:14-22); a percentage stored by an old client as 12 is judged
  12 %, though `rule_of` would take 1200 % before it is clamped. A percentage finer
  than a basis point is judged on the nearest basis point and taken as it is, so on
  a large bill the two differ by up to a twenty-thousandth of the subtotal;
  `JudgedIsTaken` asks no more than that of such a percentage, and equality of every
  other.
* Plans: a free shop's waiter handheld is refused with the message of a limit on
  POS devices.
* Time: `local_instant` keeps later times later except across the end of a gap; a
  shift that starts in a gap and is no longer than it may end before it starts.
  `ShiftsFollowTheWall` asks it of longer shifts.
* Menu import: lib.rs:12-14 promises a warning for every row skipped or changed. Two
  are lost in silence: a group read as sizes that no product links to, with its
  options (`Unused`), and a groups row whose reference an earlier row had
  (`Merged`). `RowsAnswered` asks an answer of every other row of all six files,
  categories and groups among them. A groups file that gains an `image` column is
  read as categories.
* Registry: a template may set limits on a capability its kind is not granted; two
  keys that differ only in `.` and `_` are told apart by the compiler alone; that
  an id is never used again is not checked against the file before; a run that
  stops half-way leaves later copies behind, which `vouched` takes into account.

## Proofs

The theorems hold for every value of the constants that meets the modules'
ASSUMEs (what each constant is: a set of people, a table from roles to kinds, an
amount in `Nat`), which TLC evaluates on every run. They are about safety; each
rests on an inductive invariant.

`StockProofs`. The invariant is `TypeOK` with a phase for each transfer
(`Phase`): absent or not yet sent, nothing has left and nobody has stamped it;
dispatched, exactly the lines have left and neither come back nor landed, by a
person of the source; received, what left is what landed less the difference;
cancelled, nothing had left or all of it came back. `StockAccounted`,
`MovesOnce` and `MovedByTheRightHand` do not carry themselves over a step,
since none of them says that a status and the movements agree; from the phase
each is a line. `TypeCorrect`, `Accounted`, `Once`, `RightHand` and `Frozen`
follow. `Implements` is the refinement: the initial states map to an empty road,
and each action maps to a parcel leaving, coming back or landing, or to a
stutter; the phase is what makes a parcel's contents the lines.

`TillProofs` is about the till's day. What both parts rest on is `BooksOK`: the
server's rows are the device's as sent, a voided one perhaps not voided yet, and
nothing has landed that the device did not write. For the drawer
(`DrawerInv`): the box is the float, the movements and refunds and the cash of the
sales rung; a frozen figure is over some of these rows, every landed sale among
them; and the figure a page brought is over sales the device knows have landed.
The last is what `DrawerIsRight` needs and does not say: sales are added to
that figure only while they are not known to have landed, so none is in both.
That the box less `Missed` is a figure with the cash of the sales it does not
count is one sum taken apart three ways (`Gap`); a figure's parts stay what they
were whatever is written beside it (`FigureStays`), since a movement keeps its
amount when it gets its id and a void keeps a sale's cash.
`DrawerAlwaysRight` assumes `CashAsRung`, which says what the constant `cashTaken`
means: a sale takes the cash of its legs and a cash tip. `ListsAlwaysAddUp` needs
no such premise: the legs of the sold sales are one set of places, and the payments,
the people and the sales each cut it into parts (`SumParts`); the invariant
(`ListsInv`) adds that what a correction names is there, under its key or its id.

And for the close (`AlwaysClosedWhole`), with no premise on what flag a row carries
under what name. Its invariant (`CloseInv`) adds to `BooksOK` that every line
stored has a reason (`Explained`). Then it is one sum taken apart and put together
again: the money that is not cash is a set of entries, each a leg's, a tip's or a
refund's (`SaleSplits`, `RefundsNotCash`, `EntriesNotCash`: no two share an
identity); an entry is on a line, or shares a name with cash or has none
(`ListedOrNot`); the report regroups the listed ones by method (`ByMethod`); the
plan makes one line of each name (`PlanIs`), the cash line beside them; and the cash
line is the figure, which is the float with the rest of the sum. A forced close
changes the lines' verdicts and no amount (`ForcedAs`).

`AccessProofs`. For the administrators the invariant is `TypeOK`, `Resolved` (each stored effective
set is the one the store gives, as a formula over grants, assignments and
overrides) and `FullOwnerRemains`. A write that narrows an owner has a writer
whose own set contains the target's; if the target was the full owner, the
writer is one too, and no override or assignment is about its own writer; a role
edit cannot narrow an owner, who holds everything but what is denied them.
`OwnersNeverLockedOut` is that, `NothingFromNowhere` goes over the four writes.
Role edits need `Resolved` most: they reach people the writer never named.
`CoreStaysOn` needs only that a write resolves a set anew or leaves it, since
each resolved set keeps its core. For `MoreIsNeverLess`, the most generous figure
over one more role exists, roles being finite, and is no smaller; a decision is
monotone in it (`MeetsMore`). For `GiversMayToo`, what an override opens is
decided by the limits it carries or, silent, by none, and the guard compared
exactly those with the giver's (`GivenUnderTheGiver`); both need that the set a
writer acts on is the one the store gives (`Fresh`).

And for the void at a till (`TillSpec`) it says what an old snapshot still shows: of
whoever was not changed since it was issued, the set the server would have
resolved then (`SnapshotShows`). A void is let through by its hands alone
(`OnlyTheHands`), so one made on the snapshot is one the server let through at the
snapshot's moment, unless a hand was changed. `Answered` carries that until the
queue drains, with the excuse (`Cause`) beside it: a later change is an excuse
itself, and nothing takes an excuse away. `AnswersAsTheTill` and `StaleEnds`
follow; the second takes the snapshot's moment for its witness.

`StaffPoolProofs`. Nothing about one drink adds up to a day, so the invariant
counts (`Counted`): by day, the drinks landed and those of them marked, those
rung and marked, and each till's unmarked ones. That a till's count never misses
its own drinks (`KnownIsRung`, which needs a page to delete nothing) keeps the
last within the allowance; that it never exceeds what was rung bounds the
second by what is past the allowance; and while the settings stand the server
decides every drink by the rule it was rung under (`OneRule`), which makes the
first exact. `OverspendsMarked` is the three.

`TablesProofs` is about the two generated tables. The registry's invariant says
that every copy is a file that was accepted, and that a place vouched for holds
the file. `AcceptedHolds` is what an accepted file keeps: from `Accepted` no two
capabilities share an id, a key or a cell, so that going from a cell to its
capability and back is the identity; an administrator's capability is in no floor
kind's core or defaults and no template adds it. `RegistryAlwaysHolds` is the two
together. The plans' invariant (`PlanInv`) types the organisation, ties a
screen's verdict to the count and plan it was read with, and keeps a clock ahead
of every use. `LimitsAlwaysHold` needs only the verdict for its first half: an
activation judged on the present count adds one to a count below the limit. Its
second half is about `Accepted` alone: what is behind a feature is never core, and
free's limits and features are within paid's, so that cutting the plan's
features off a person commutes with the order of verdicts. `OneTillStands`: the
order a downgrade picks by is total on a branch's tills, so exactly one is the
latest; a sale on it only makes it later still.

`StockProofs` also holds `Replenishment`, whose steps are steps of a
transfer under narrower guards, so the phases carry over (`ReplenishKeepsIInv`). The
invariant adds routes (who sends to whom) and that what a branch holds, what is
on its way and what is asked for fit under its level (`RInv`). Every step changes
the lines due at one place by one transfer (`DueChange`), and a sum over a finite
set changes by what that one gives (`SumChange`); a suggestion is at most the
branch's need, which is exactly what is left under the level, and at most what
the warehouse has not promised.

And it holds the store and the bar (`StockRoom`). The invariant (`RoomInv`) is
about provenance: a recipe line is what some editor saved of some typed amount
(`Saved`), an order is what `line_costs` made of some invoice (`Placed`), a
delivery with no invoice of its own is costed as its part of the line
(`Received`). `CupIsItsRecipe` needs that: a stored quantity that nobody saved need
not come back from the usable amount shown for it. The rest is what rounding
keeps, from one fact (`RoundNear`, with its converse `RoundOnly`: the rounded
quotient is the one integer within half of it). The binary sum of a waste is
within half of the exact one too, at a half below it (`FloatNear`). So grossed up by
a yield of at most 100 and brought back an amount is itself (`GrossedAndBack`); n times a rounded
cost is within (n + 1) / 2 of the rounded n times (`RoundedTimes`); a unit cost
gives the total back (`TotalFromUnit`). The last needs the quantity below the
grain: with 8 decimals, fewer than 10^8 units, where the column would hold up to
10^9; `OrderedCostIsKept` names that condition, and the delivered cost, which is
taken from the line and not from the unit cost, needs none. The pass over the
extras is a fold along the families; `DrinkPasses` says in closed form what it
makes of each line, by induction along the run, and `PassStands`, that a second
pass changes nothing, is that form applied twice: no pass moves a line of the
drink's own, so the choices stay (`PassKeeps`).

`LoyaltyProofs` is about a planner that folds along the requests. Each fold is a
run of its steps, and what is said of the planner is an induction along the run.
The trimming planner keeps `TrimGood`: within the ceiling and every track's
balance, no line covered past its quantity, and what it has taken, sent as asks,
is what the strict planner makes of them. `TrimmedIsNotRefused` is the last
part; it cannot stand alone, since a step needs the bounds to know that the
strict planner has room too. For the other way round two runs of the same asks
are compared: where the strict run ends unrefused it took every ask whole, no
prefix spent more than the end did, so the trimming run had room at each step
(`NothingTrimmed`); where the trimming run ends with nothing noted, each step took
its ask whole or met a line covered before, which distinct lines exclude
(`UntrimmedStands`). The card is one line as long as the balance: the units
trimmed are the quotient the card shows. On the machine's first part the
invariant is only what the board holds (`BoardInv`); on the second (`SyncInv`)
each receipt is of a sale fair on what its till saw, queued sales have receipts,
each landed sale is as its receipt says, and the points add up, which is a sum
over the landed sales with one more in it. `GivenAsPromised` needs the receipts:
a fair sale is one the strict planner does not refuse, so a refusal shows that
the server holds something else by then.

`SaleProofs` is about one sale. For refunds the invariant is
`RefundsTypeOK` with: what the books have taken back is
the share of the tax (and of the service) due on what has been refunded so far,
capped at the total. A refund's split is the share after it less the share
before it, so the sum telescopes whatever the order, and `BooksAddUp` is its two
ends: the share is at most the tax, and equal to it once everything is refunded.
The lemmas say that a rounded share is monotone, within its whole, and the whole
at the end. `SplitsNeverNegative` rests on the same monotonicity. `ForecastStands`
needs what ties the three copies together (`QueueInv`): the server's sum is that of
the refunds booked, a till knows only booked ones, and what a till issued and does
not know booked waits in its outbox, older before younger. So when a refund is
booked it heads its till's outbox, and of the refunds its till counts before it
none is still queued.

For deals the invariant (`CheckoutInv`) says that each application is what its
units make of the rule it was applied under (`Made`), that a line holds the units
taken from it, and that a rule's maximum was kept when it was applied.
`DealsAlwaysFit`: the units of an application fall into chunks that share none
(`ChunksAre`), a chunk saves at most what its units cost, and what it saves is
split over them without a remainder (`SharesFit`), so the savings on a line fit
its price. `ServerAlwaysAgrees`: what units make of a deal depends on nothing else
in the order (`PricedAlike`), so a pass of the server in any order is a fold that
can refuse only for the count of one deal (`AfterJudging`); the last unedited
application had counted all of them and was within the maximum.

For discounts, `TakenAsJudged` compares two roundings of one discount, for each of
its three kinds: what the bill takes, at five decimals, and what the till's judge
and both request bodies say of it, in basis points (`JudgedByHand`, `JudgedByPart`,
`JudgedByPreset`; `AskedByHand`, `AskedByPart`, `AskedByPreset`). Basis points are
within half a point of the percentage (`BasisPoints`), and each rounding is within
half of what it rounds (`RoundNear`, `EvenNear`). The theorem takes as its premise
that the lines' prices add up to a whole number (`WholeSubtotal`), as they do in
every state of `sale`: a line's price is a fold over chosen options, which the
provers do not type.

For the bill, `BillAlwaysAddsUp`. Each list the bill makes of its lines is shown to be
the list of what each line gives, and each total their sum (`RunLists`, `TotalIs`);
then a line's net, cover and comp make up its charge, so their totals make the
subtotal (`BillOfLines`). No net is below zero because the comp is at most the charge
(`CompTakes`, with `UnitIsNormal`: what the pool calls the normal price is what the
till charges a unit), and no figure is because service and tax are roundings of
naturals (`BillFigures`). `TaxComesBack` is the arithmetic of the inclusive tax: with
a rounded tax added, the contained tax rounds to the same one. `PaysOnce`: a pick is
of at most one group, so the column of what groups absorb of it has one entry that
is not zero, and the rows and the columns of that table sum to the same
(`RowsAndColumns`). The premise `WholeFigures` types what the provers do not, as
TLC evaluates it of every state of `sale`: a line's quantity and unit are naturals,
and a staff line is an item's, with choices and groups at whole prices. `SelectSeq`
has no meaning to the provers, so `GroupAllowance` and `CashLegs` pick from a list by
the set of its places.

`FoldFacts` is what those sums and the planners' folds rest on. The community
modules define a fold by `CHOOSE` of an iteration, and induction with an operator
parameter is out of the provers' reach; so each fact is proved first-order, from
the least counterexample: a minimal subset of a finite set for sums, a least
place for a fold along a sequence. A fold's step is the module's constant
operator, so that a module that folds takes the facts by `INSTANCE`.

Only model-checked:

* `EventuallySettled`: liveness under fairness.
* `TillAndServerAgree`, `PicksAddUp`: a price is a search by `SelectSeq` in the
  menu's rows, then folds that carry records from one option or part to the next,
  and its picks are put in every order; the provers know nothing of that search.
* `NothingThatSavesIsMissed`: `OnlineTakesAll` and `BestIsBest` are about a
  greedy search over choices of units, by recursion on what it took so far.
* `ClockIsFollowed`, `PaidOnceAtTheSalary`: a calendar computed by recursion over
  days and months.
* `MenuReadWhole`: a reader that folds over the rows of six files.

## Not modelled

* `madar-ids`, `madar-card`: parsers and drawings of strings; no state, no second
  actor. `madar-web` parses JSON and calls the crates.
* madar-sync's envelopes, checksum and kitchen ids: serde types and hashes. Its one
  rule with a consequence, which types a page may delete, is in `StaffPool`.
* madar-till `carryover`, madar-catalog `order`: one maximum and one sort.
* madar-money `metrics`, madar-units' f64 effects, madar-inventory's estimates of a
  purchase screen: binary floating point on a screen.
* Cryptography (a PIN's argon2, signatures), `generated.rs` (data, for which
  constants stand), the text of generated and refused things.
* Items' lists, wording and layout in the report; descriptions and images in a menu.
* Vectors and their generators pin the crates by example; they are tests.

## Plan

1. Proofs: a line's price, whoever computes it.
2. `Sale` with the deals of `Checkout` on its bill, and two edits of the catalogue.
3. A second device in `TillClose`.
