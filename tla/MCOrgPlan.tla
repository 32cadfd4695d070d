------------------------------ MODULE MCOrgPlan ------------------------------
(* Two branches, one with two tills and a kitchen screen; a table as       *)
(* the repository's own, with one thing at a time written otherwise: what  *)
(* the generator refuses and what it lets pass.                            *)
EXTENDS OrgPlan, TLC

CONSTANTS sell, display, bump, ticket, points, redeem,
          kitchenGroup, floorGroup, salesGroup,
          kitchen, floor, loyalty, loyaltyPrefix, b1, b2

MCCoreOf == [kind \in Kinds |-> IF kind \in {"teller", "kitchen"} THEN {sell, display} ELSE {}]
MCKeysOf == [c \in Cap |-> {}]
MCGroupOf == [c \in Cap |-> CASE c \in {display, bump} -> kitchenGroup
                              [] c = ticket            -> floorGroup
                              [] OTHER                 -> salesGroup]
MCPrefixesOf == [c \in Cap |-> IF c \in {points} THEN {loyaltyPrefix} ELSE {}]
MCGateOf == [kind \in {"kds", "waiter"} |-> IF kind = "kds" THEN kitchen ELSE floor]

Names(groups, caps, prefixes) == [groups |-> groups, caps |-> caps, prefixes |-> prefixes]

Limited(branch, pos, kds) ==
    [k \in LimitKinds |-> CASE k = "branches" -> branch [] k = "pos" -> pos [] OTHER -> kds]
NoneLimited == [k \in LimitKinds |-> Unlimited]

Ours ==
    [features |-> [f \in Feature |->
        CASE f = kitchen -> Names({kitchenGroup}, {}, {})
          [] f = floor   -> Names({}, {ticket}, {})
          [] OTHER       -> Names({}, {}, {loyaltyPrefix})],
     free |-> [groups |-> {}, caps |-> {redeem}],
     plans |-> [plan \in Plans |->
        IF plan = "free"
        THEN [all |-> FALSE, features |-> {floor}, limits |-> Limited(1, 1, 0), realtime |-> FALSE]
        ELSE [all |-> TRUE, features |-> {}, limits |-> NoneLimited, realtime |-> TRUE]]]

WithFeature(f, s) == [Ours EXCEPT !.features[f] = s]
WithFree(p) == [Ours EXCEPT !.plans["free"] = p]

MCTables ==
    { Ours,
      WithFeature(kitchen, Names({}, {display, bump}, {})),
      WithFeature(floor, Names({kitchenGroup}, {ticket}, {})),
      WithFeature(loyalty, Names({}, {redeem}, {loyaltyPrefix})),
      WithFeature(kitchen, Names({}, {}, {})),
      [Ours EXCEPT !.free = Names({floorGroup}, {redeem}, {})],
      [Ours EXCEPT !.plans["paid"] =
          [all |-> FALSE, features |-> {kitchen, loyalty}, limits |-> NoneLimited, realtime |-> TRUE]],
      [Ours EXCEPT !.plans["paid"].limits["pos"] = 0],
      [Ours EXCEPT !.plans["free"].realtime = TRUE, !.plans["paid"].realtime = FALSE],
      WithFree([all |-> TRUE, features |-> {}, limits |-> Limited(1, 1, 0), realtime |-> FALSE]),
      WithFree([all |-> FALSE, features |-> {kitchen}, limits |-> Limited(2, 1, 1), realtime |-> TRUE]) }

(* Of these the generator accepts the first and the last.                  *)

Person1 == [caps |-> {sell, display, bump, ticket, points}, limits |-> [c \in Cap |-> UNLIMITED],
            kinds |-> {"teller"}, owner |-> FALSE, ask |-> {redeem, bump}]
Person2 == [Person1 EXCEPT !.caps = {sell, display, redeem}, !.ask = {points, ticket}]
MCPersonEff == {Person1, Person2}

MCRequestAsked == { [cap |-> c, asked |-> [k \in LimitKey |-> NoLimit], own |-> "mine"] : c \in Cap }

MCKindOfDevice == [d \in Device |-> IF d = 3 THEN "kds" ELSE "pos"]
MCBranchOf == [d \in Device |-> b1]

Symmetry == Permutations(Person)
=============================================================================
