---------------------------- MODULE MCAccessAdmin ----------------------------
(* Two owners, a manager and a teller; a manager role and a teller role    *)
(* that limit voids differently.  Voids are core for tellers: one may be   *)
(* denied them and then become a teller.                                   *)
EXTENDS AccessAdmin, TLC

CONSTANTS staff, void, count, own1, own2, man, tel, manager, teller

MCCoreOf == [kind \in Kinds |-> IF kind = "teller" THEN {void} ELSE {}]
MCKeysOf == [c \in Cap |-> IF c = void THEN {"age", "own"} ELSE {}]
MCKindOf == [r \in Role |-> IF r = manager THEN "branch_manager" ELSE "teller"]

Upto(n, own) == [max |-> [k \in LimitKey |-> n], own |-> own]

MCLimitsIn ==
    [r \in Role |-> [c \in Cap |->
        IF c # void THEN UNLIMITED ELSE IF r = teller THEN Upto(1, TRUE) ELSE Upto(2, FALSE)]]

MCAskedLimits == {Upto(1, FALSE), Upto(2, TRUE)}

MCFirstGrants == [r \in Role |-> IF r = manager THEN {staff, void} ELSE {void, count}]
MCFirstAssigned == [p \in Person |-> IF p = man THEN {manager} ELSE {}]

Symmetry == Permutations({own1, own2})
=============================================================================
