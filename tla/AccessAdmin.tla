----------------------------- MODULE AccessAdmin -----------------------------
(***************************************************************************)
(* Who may change who can do what (madar-authz guard.rs): people set       *)
(* overrides, assign roles and edit roles in any order, each write judged  *)
(* by the guards on the effective sets of the moment.                      *)
(*                                                                         *)
(* The store and the handlers are the backend's (external): assignments    *)
(* and overrides here are for every branch and have no end, and a person   *)
(* has at most one override of a capability.  A write is judged and made   *)
(* in one transaction.                                                     *)
(***************************************************************************)
EXTENDS Access

CONSTANTS
    Person,
    Owner,             \* the people who are owners
    Role,
    KindOf,            \* KindOf[role]
    LimitsIn,          \* LimitsIn[role]: what the role limits each capability to
    AskedLimits,       \* the limits an override may be given
    PermissionsEdit, UsersEdit, RolesManage,
    FirstGrants,       \* the roles' grants and
    FirstAssigned,     \* the people's roles at the start
    NoOverride,
    MaxOverrides,      \* bound: overrides stored at once
    MaxWrites          \* bound: writes made

ASSUME AdminAssumption ==
    /\ Owner \subseteq Person /\ IsFiniteSet(Role)
    /\ KindOf \in [Role -> Kinds]
    /\ LimitsIn \in [Role -> [Cap -> Limits]]
    /\ AskedLimits \subseteq Limits
    /\ {PermissionsEdit, UsersEdit, RolesManage} \subseteq Cap
    /\ FirstGrants \in [Role -> SUBSET Cap]
    /\ FirstAssigned \in [Person -> SUBSET Role]
    /\ MaxOverrides \in Nat /\ MaxWrites \in Nat

(* The capability, verdict, place, limits and end an override holds.       *)
OverrideOf(c, allow, limits) ==
    [cap |-> c, allow |-> allow, branch |-> Everywhere, limits |-> limits, to |-> NoLimit]

OverridesOf(c) ==
    { OverrideOf(c, allow, limits) : allow \in BOOLEAN, limits \in AskedLimits \union {NoLimits} }

ASSUME MarksAssumption == \A c \in Cap : NoOverride \notin OverridesOf(c)

VARIABLES
    grants,      \* grants[role]
    assigned,    \* assigned[person]: their roles
    override,    \* override[person][c]: the override stored, or NoOverride
    eff,         \* eff[person]: the effective set the handlers resolve
    by,          \* who made the last write
    writes       \* how many were made

vars == <<grants, assigned, override, eff, by, writes>>

RoleDef(r) == [kind |-> KindOf[r], grants |-> grants[r], limits |-> LimitsIn[r]]

PrincipalWith(p, roles) ==
    [active |-> TRUE, owner |-> p \in Owner,
     assignments |-> { [role |-> RoleDef(r), branches |-> {Everywhere},
                        from |-> NoLimit, to |-> NoLimit] : r \in roles },
     overrides |-> { override[p][c] : c \in Cap } \ {NoOverride}]

Principal(p) == PrincipalWith(p, assigned[p])

Eff(p) == Resolve(Principal(p), Everywhere, 0, {})

Init ==
    /\ grants = FirstGrants
    /\ assigned = FirstAssigned
    /\ override = [p \in Person |-> [c \in Cap |-> NoOverride]]
    /\ eff = [p \in Person |-> Eff(p)]
    /\ by \in Owner
    /\ writes = 0

-----------------------------------------------------------------------------
Holds(p) == eff[p].caps
HeldKinds(p) == eff[p].kinds

KindRank(kind) == CASE kind = "org_admin" -> 3 [] kind = "branch_manager" -> 2 [] OTHER -> 1

Rank(p) ==
    CASE p \in Owner        -> 4
      [] HeldKinds(p) = {}  -> 0
      [] OTHER -> CHOOSE n \in 1..3 :
                    /\ \E kind \in HeldKinds(p) : KindRank(kind) = n
                    /\ \A kind \in HeldKinds(p) : KindRank(kind) <= n

MayGiveKind(a, kind) ==
    a \in Owner \/ (kind # "org_admin" /\ Rank(a) > KindRank(kind))

(* Mutant: rank alone decides.                                             *)
MayTouchByRank(a, t) ==
    /\ a # t
    /\ t \in Owner => a \in Owner
    /\ a \in Owner \/ Rank(a) > Rank(t)

(* Never oneself, an owner only by an owner, a peer only by an owner, and  *)
(* nobody who holds what the actor does not.                               *)
MayTouch(a, t) ==
    /\ a # t
    /\ t \in Owner => a \in Owner
    /\ a \in Owner \/ Rank(a) > Rank(t)
    /\ Holds(t) \subseteq Holds(a)

(* Mutant: an override silent on limits is not compared with the giver's.  *)
MaySetOverrideSilent(a, t, c, allow, limits) ==
    /\ PermissionsEdit \in Holds(a)
    /\ MayTouch(a, t)
    /\ c \in Holds(a)
    /\ allow /\ limits # NoLimits => Within(limits, eff[a].limits[c])
    /\ ~allow => /\ ~(t \in Owner /\ c \in Protected)
                 /\ ~IsCoreFor(c, HeldKinds(t))

MaySetOverride(a, t, c, allow, limits) ==
    /\ PermissionsEdit \in Holds(a)
    /\ MayTouch(a, t)
    /\ c \in Holds(a)
    /\ allow => Within(IF limits = NoLimits THEN UNLIMITED ELSE limits, eff[a].limits[c])
    /\ ~allow => /\ ~(t \in Owner /\ c \in Protected)
                 /\ ~IsCoreFor(c, HeldKinds(t))

MayAssign(a, t, r) ==
    /\ UsersEdit \in Holds(a)
    /\ MayTouch(a, t)
    /\ Granted(RoleDef(r)) \subseteq Holds(a)

(* Mutant: only what is removed must be held.                              *)
MayEditRoleRemoved(a, r, after) ==
    /\ RolesManage \in Holds(a)
    /\ \A c \in grants[r] \ after : ~IsCoreFor(c, {KindOf[r]})
    /\ grants[r] \ after \subseteq Holds(a)

(* Only what is added must be held; core is never removed.                 *)
MayEditRole(a, r, after) ==
    /\ RolesManage \in Holds(a)
    /\ \A c \in grants[r] \ after : ~IsCoreFor(c, {KindOf[r]})
    /\ after \ grants[r] \subseteq Holds(a)

-----------------------------------------------------------------------------
(* A write by a about some people: their effective sets are resolved anew. *)
Written(a, people) ==
    /\ <<grants, assigned, override>>' # <<grants, assigned, override>>
    /\ eff' = [p \in Person |-> IF p \in people THEN Eff(p)' ELSE eff[p]]
    /\ by' = a
    /\ writes' = writes + 1

Stored == { s \in Person \X Cap : override[s[1]][s[2]] # NoOverride }

SetOverride(a, t, c, allow, limits) ==
    /\ MaySetOverride(a, t, c, allow, limits)
    /\ override' = [override EXCEPT ![t][c] = OverrideOf(c, allow, limits)]
    /\ Cardinality(Stored \union {<<t, c>>}) <= MaxOverrides
    /\ UNCHANGED <<grants, assigned>> /\ Written(a, {t})

Assign(a, t, r) ==
    /\ MayAssign(a, t, r) /\ MayGiveKind(a, KindOf[r])
    /\ assigned' = [assigned EXCEPT ![t] = @ \union {r}]
    /\ UNCHANGED <<grants, override>> /\ Written(a, {t})

(* Taking a role away is a write about the person: the guard every such    *)
(* write passes, and the authority over users.                             *)
Unassign(a, t, r) ==
    /\ UsersEdit \in Holds(a) /\ MayTouch(a, t)
    /\ assigned' = [assigned EXCEPT ![t] = @ \ {r}]
    /\ UNCHANGED <<grants, override>> /\ Written(a, {t})

EditRole(a, r, after) ==
    /\ MayEditRole(a, r, after)
    /\ grants' = [grants EXCEPT ![r] = after]
    /\ UNCHANGED <<assigned, override>> /\ Written(a, { p \in Person : r \in assigned[p] })

Next ==
    /\ writes < MaxWrites
    /\ \E a \in Person :
        \/ \E t \in Person, c \in Cap :
              \/ SetOverride(a, t, c, FALSE, NoLimits)
              \/ \E limits \in AskedLimits \union {NoLimits} : SetOverride(a, t, c, TRUE, limits)
        \/ \E t \in Person, r \in Role : Assign(a, t, r) \/ Unassign(a, t, r)
        \/ \E r \in Role, after \in SUBSET Cap : EditRole(a, r, after)

Spec == Init /\ [][Next]_vars

-----------------------------------------------------------------------------
TypeOK ==
    /\ grants \in [Role -> SUBSET Cap]
    /\ assigned \in [Person -> SUBSET Role]
    /\ override \in [Person -> [Cap -> {NoOverride} \union UNION { OverridesOf(c) : c \in Cap }]]
    /\ \A p \in Person, c \in Cap : override[p][c] \in OverridesOf(c) \union {NoOverride}
    /\ by \in Person /\ writes \in Nat

(* However owners narrow one another, one of them holds everything an      *)
(* owner can hold: nobody can be the last to lock the others out (guard.rs *)
(* may_touch: the target's set is within the actor's).                     *)
FullOwnerRemains == Owner # {} => \E p \in Owner : OwnerSet \subseteq Holds(p)

(* No write gives anybody a capability the writer does not hold, through   *)
(* an override, an assignment, a role edited under its holders, or a kind  *)
(* whose core outlives a deny (guard.rs G1, G2, G3).                       *)
NoNewCapability ==
    [][ \A p \in Person : Holds(p)' \ Holds(p) \subseteq eff[by'].caps ]_vars

(* Everyone keeps the core of every kind they hold, though a capability    *)
(* was denied before it became core for them (lib.rs resolve).             *)
CoreAlwaysOn ==
    \A p \in Person : \A kind \in HeldKinds(p) : CoreOf[kind] \subseteq Holds(p)

(* What a person can do that an override has just opened, its giver can    *)
(* do too, figures included (guard.rs G1, lib.rs within and restricted_to).*)
May(p, req) == Decide(eff[p], req) = "allow"

Requests ==
    [cap : Cap, asked : [LimitKey -> UNION { { l.max[k] : k \in LimitKey } : l \in AskedLimits }],
     own : {"mine", "another's"}]

NothingAboveTheGiver ==
    [][ \A t \in Person, c \in Cap :
          override[t][c]' # override[t][c] /\ override[t][c]'.allow =>
            \A req \in Requests : May(t, req)' /\ ~May(t, req) => Decide(eff[by'], req) = "allow" ]_vars

(* A role more never takes anything away, except where an allow silent on  *)
(* limits meets a role's limits (lib.rs most_generous).                    *)
MoreRolesNeverLess ==
    \A p \in Person, r \in Role :
        LET more == Resolve(PrincipalWith(p, assigned[p] \union {r}), Everywhere, 0, {})
        IN  \A req \in Requests :
              May(p, req) => \/ Decide(more, req) = "allow"
                             \/ override[p][req.cap] = OverrideOf(req.cap, TRUE, NoLimits)

(* A role only ever adds to what its holder can do.                        *)
RolesOnlyAdd == CoreAlwaysOn /\ MoreRolesNeverLess
===============================================================================
