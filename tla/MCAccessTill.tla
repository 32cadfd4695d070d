---------------------------- MODULE MCAccessTill ----------------------------
(* A teller, a manager and a second teller; a sale in one of two branches.  *)
(* Tellers void their own sales while fresh; what the dashboard may do is  *)
(* switch a teller off, lift the limit for a time, take voids away at a    *)
(* branch, or let the second teller manage one branch.                     *)
EXTENDS AccessTill, TLC

CONSTANTS void, age, main, other, ann, bob, mia, sale

Upto(n, own) == [max |-> age :> n, own |-> own]
RoleOf(kind, limits) == [kind |-> kind, grants |-> {void}, limits |-> void :> limits]
Held(role, branches, to) == [role |-> role, branches |-> branches, from |-> NoLimit, to |-> to]
Is(assignments, overrides) ==
    [active |-> TRUE, owner |-> FALSE, assignments |-> assignments, overrides |-> overrides]
Over(allow, at, limits, to) ==
    [cap |-> void, allow |-> allow, branch |-> at, limits |-> limits, to |-> to]

Teller == Held(RoleOf("teller", Upto(0, TRUE)), {Everywhere}, NoLimit)
Manager(at, to) == Held(RoleOf("branch_manager", UNLIMITED), {at}, to)

MCAccessOf ==
       ann :> { Is({Teller}, {}), [Is({Teller}, {}) EXCEPT !.active = FALSE],
                Is({Teller}, {Over(TRUE, main, UNLIMITED, 2)}), Is({}, {}) }
    @@ bob :> { Is({Teller}, {}), Is({Teller, Manager(other, NoLimit)}, {}),
                Is({Teller, Manager(main, 3)}, {}) }
    @@ mia :> { Is({Manager(Everywhere, NoLimit)}, {}),
                Is({Manager(Everywhere, NoLimit)}, {Over(FALSE, main, NoLimits, NoLimit)}) }

MCCoreOf == [kind \in Kinds |-> {}]
MCKeysOf == void :> {age, "own"}
MCTellerOf == sale :> ann
MCRungAt == sale :> 1
MCSoldIn == sale :> main
=============================================================================
