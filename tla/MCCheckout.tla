----------------------------- MODULE MCCheckout -----------------------------
(* Two coffees and a cookie; a price for two coffees, half off across      *)
(* midnight, and a cookie with a coffee, the reward being a coffee as well *)
(* in one form.                                                            *)
EXTENDS Checkout

Item(item, category, price) == [item |-> item, category |-> category, size |-> "M", price |-> price]

MCItems == <<Item("latte", "coffee", 5), Item("mocha", "coffee", 3), Item("cookie", "bite", 2)>>

Entry(item, category, size) == [item |-> item, category |-> category, size |-> size]
Coffee == Entry(None, "coffee", None)
Cookie == Entry("cookie", None, "M")
Mocha  == Entry("mocha", "bite", None)

Window(branch, weekdays, starts, ends, from, to) ==
    [branch |-> branch, weekdays |-> weekdays, starts |-> starts, ends |-> ends, from |-> from, to |-> to]

Deal(id, kind, qty, price, get, percent, max, pool, rewardPool, windows) ==
    [id |-> id, kind |-> kind, qty |-> qty, price |-> price, get |-> get, percent |-> percent,
     max |-> max, sort |-> id, active |-> TRUE, pool |-> pool, rewardPool |-> rewardPool,
     windows |-> windows]

(* Day 3 is a Sunday.                                                      *)
MCRules ==
    << LET two == Deal(1, "n_for_price", 2, 6, None, None, 1, {Coffee}, {}, {})
       IN  {two, [two EXCEPT !.price = 7, !.max = None, !.sort = 9], [two EXCEPT !.active = FALSE]},
       { Deal(2, "buy_get", 1, None, 1, 50, 2, {Coffee, Cookie}, {},
              {Window(None, {0}, 2, 1, None, 3), Window("other", 0..6, None, None, None, None)}) },
       LET with == Deal(3, "buy_get", 1, None, 1, 100, None, {Coffee}, {Cookie}, {})
       IN  { with, [with EXCEPT !.pool = {Mocha}, !.rewardPool = {Mocha, Cookie},
                                !.windows = {Window("main", {0, 1}, 1, 2, 3, None)}] } >>
=============================================================================
