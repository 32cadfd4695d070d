------------------------------- MODULE Rounding -------------------------------
(***************************************************************************)
(* Cumulative pro-rata in minor units (madar-money tax/mod.rs), an amount  *)
(* split over weights by it (alloc.rs); and what the modules share beside  *)
(* it: a value that is absent, and a list mapped.                          *)
(***************************************************************************)
EXTENDS Integers, SequencesExt

CONSTANT None   \* an Option that is empty

(* What an operation gives for each of a list.                             *)
Each(list, Op(_)) == FoldLeft(LAMBDA done, x : Append(done, Op(x)), <<>>, list)

NonNegative(n) == IF n < 0 THEN 0 ELSE n
AtMost(n, limit) == IF n > limit THEN limit ELSE n

(* num / den for num >= 0, half away from zero; no denominator gives 0.    *)
RoundHalfAway(num, den) ==
    IF den <= 0 THEN 0 ELSE (2 * NonNegative(num) + den) \div (2 * den)

(* What the first `upto` of a total of `whole` should take of `figure`.    *)
Share(figure, upto, whole) == RoundHalfAway(NonNegative(figure) * upto, whole)

(* A negative weight counts as none; when none counts, all count alike.    *)
Counted(weights) ==
    LET clamped == [k \in DOMAIN weights |-> NonNegative(weights[k])]
    IN  IF \A k \in DOMAIN clamped : clamped[k] = 0
        THEN [k \in DOMAIN clamped |-> 1] ELSE clamped

(* Running[k]: what the first k weights add up to.                         *)
Running(w) ==
    LET sum[k \in 0..Len(w)] == IF k = 0 THEN 0 ELSE sum[k - 1] + w[k] IN sum

(* Mutant: each share is rounded on its own.                               *)
SplitEach(total, weights) ==
    LET w == Counted(weights)
        sum == Running(w)
    IN  [k \in DOMAIN w |-> Share(total, w[k], sum[Len(w)])]

(* Each share is what the running weight should have taken so far, less    *)
(* what the shares before it took.                                         *)
Split(total, weights) ==
    LET w == Counted(weights)
        sum == Running(w)
        upto(k) == Share(total, sum[k], sum[Len(w)])
    IN  [k \in DOMAIN w |-> upto(k) - upto(k - 1)]
=============================================================================
