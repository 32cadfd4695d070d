-------------------------------- MODULE Access --------------------------------
(***************************************************************************)
(* madar-authz: what a person may do (resolve), whether one act is allowed *)
(* (decide), and who may let it through (can_approve, can_settle).  The    *)
(* rules only; AccessAdmin and AccessTill run them.                        *)
(*                                                                         *)
(* A capability's metadata is given by constants.  The numeric limit keys  *)
(* are treated alike by the code, so they are a set; why an act is refused *)
(* is left out, the verdict is kept.                                       *)
(***************************************************************************)
EXTENDS Integers, FiniteSets

CONSTANTS
    Cap,         \* the capabilities
    LegacyCap,   \* those kept for old tablets' payload only
    CoreOf,      \* CoreOf[kind]: what a role of the kind can never lose
    Approvable,  \* those a manager may let through
    Protected,   \* those no owner is denied
    LimitKey,    \* the numeric limit keys
    KeysOf,      \* KeysOf[c]: the keys c accepts, "own" among them or not
    NoLimit,     \* an absent figure
    Everywhere,  \* every branch; as a scope: anywhere the person works
    NoLimits     \* an override that says nothing of limits

Kinds == {"org_admin", "branch_manager", "teller", "waiter", "kitchen"}

Limits == [max : [LimitKey -> Int \union {NoLimit}], own : BOOLEAN]

(* Core is never of the legacy tier.                                       *)
ASSUME AccessAssumption ==
    /\ LegacyCap \subseteq Cap /\ Approvable \subseteq Cap /\ Protected \subseteq Cap
    /\ CoreOf \in [Kinds -> SUBSET (Cap \ LegacyCap)]
    /\ KeysOf \in [Cap -> SUBSET (LimitKey \union {"own"})]
    /\ NoLimit \notin Int
    /\ NoLimits \notin Limits

UNLIMITED == [max |-> [k \in LimitKey |-> NoLimit], own |-> FALSE]

OwnerSet == Cap \ LegacyCap

IsCoreFor(c, kinds) == \E kind \in kinds : c \in CoreOf[kind]

(* A figure within a ceiling.                                              *)
Under(figure, limit) == limit # NoLimit => figure # NoLimit /\ figure <= limit

Within(a, b) ==
    /\ \A k \in LimitKey : Under(a.max[k], b.max[k])
    /\ a.own \/ ~b.own

RestrictedTo(l, keys) ==
    [max |-> [k \in LimitKey |-> IF k \in keys THEN l.max[k] ELSE NoLimit],
     own |-> l.own /\ "own" \in keys]

(* Mutant: the tightest role wins.                                         *)
LeastGenerous(ls) ==
    [max |-> [k \in LimitKey |-> (CHOOSE l \in ls : \A x \in ls : Under(l.max[k], x.max[k])).max[k]],
     own |-> \A l \in ls : l.own]

(* Roles combine key by key by the most generous value; own only when all  *)
(* say so.                                                                 *)
MostGenerous(ls) ==
    [max |-> [k \in LimitKey |-> (CHOOSE l \in ls : \A x \in ls : Under(x.max[k], l.max[k])).max[k]],
     own |-> \A l \in ls : l.own]

-----------------------------------------------------------------------------
(* A principal: whether active and owner, a set of assignments             *)
(*   [role : [kind, grants, limits], branches, from, to]                   *)
(* and a set of overrides [cap, allow, branch, limits, to], at most one    *)
(* stored for a capability at a branch.  Everywhere stands for all         *)
(* branches, NoLimit for an open end.                                      *)
LiveAt(a, now) ==
    /\ a.from = NoLimit \/ a.from <= now
    /\ a.to = NoLimit \/ now < a.to

Covering(p, scope, now) ==
    { a \in p.assignments :
        LiveAt(a, now) /\ (scope = Everywhere \/ {scope, Everywhere} \intersect a.branches # {}) }

KindsOf(p, scope, now) ==
    { a.role.kind : a \in Covering(p, scope, now) } \union (IF p.owner THEN {"org_admin"} ELSE {})

Granted(role) == role.grants \union CoreOf[role.kind]

FromRoles(p, scope, now) ==
    (UNION { Granted(a.role) : a \in Covering(p, scope, now) })
      \union (IF p.owner THEN OwnerSet ELSE {})

(* The overrides of c that speak at the scope: anywhere, a branch's allow  *)
(* counts and a branch's deny does not.                                    *)
Heard(p, c, scope, now) ==
    { o \in p.overrides :
        /\ o.cap = c
        /\ o.to = NoLimit \/ now < o.to
        /\ o.branch \in {Everywhere, scope} \/ (scope = Everywhere /\ o.allow) }

Specific(o, scope) == o.branch # Everywhere /\ o.branch = scope

Beats(o, x, scope) ==
    \/ Specific(o, scope) /\ ~Specific(x, scope)
    \/ Specific(o, scope) = Specific(x, scope) /\ ~o.allow /\ x.allow

(* The strongest of them; several only when several branches' allows are   *)
(* heard anywhere.                                                         *)
Strongest(p, c, scope, now) ==
    { o \in Heard(p, c, scope, now) : \A x \in Heard(p, c, scope, now) : ~Beats(x, o, scope) }

Allowed(p, c, scope, now) == \E o \in Strongest(p, c, scope, now) : o.allow
Denied(p, c, scope, now)  == \E o \in Strongest(p, c, scope, now) : ~o.allow

(* A deny never takes a core grant of a kind held, nor a protected         *)
(* capability of an owner.                                                 *)
Undeniable(p, c, scope, now) ==
    (p.owner /\ c \in Protected) \/ IsCoreFor(c, KindsOf(p, scope, now))

Caps(p, scope, now) ==
    { c \in Cap :
        /\ p.active
        /\ \/ Allowed(p, c, scope, now)
           \/ c \in FromRoles(p, scope, now)
              /\ (Denied(p, c, scope, now) => Undeniable(p, c, scope, now)) }

(* What the roles granting c limit it to: unlimited by one is unlimited.   *)
RoleLimits(p, c, scope, now) ==
    LET ls == { a.role.limits[c] : a \in { a \in Covering(p, scope, now) : c \in Granted(a.role) } }
    IN  IF p.owner \/ ls = {} \/ UNLIMITED \in ls THEN UNLIMITED
        ELSE RestrictedTo(MostGenerous(ls), KeysOf[c])

(* An allow's limits replace the roles'; an allow silent on limits leaves  *)
(* them.                                                                   *)
LimitsOf(p, c, scope, now) ==
    LET chosen == CHOOSE o \in Strongest(p, c, scope, now) : TRUE
    IN  IF Allowed(p, c, scope, now) /\ chosen.limits # NoLimits
        THEN RestrictedTo(chosen.limits, KeysOf[c])
        ELSE RoleLimits(p, c, scope, now)

(* The effective set of a person at a scope.                               *)
Resolve(p, scope, now, askManager) ==
    LET caps == Caps(p, scope, now)
    IN  [caps   |-> caps,
         limits |-> [c \in Cap |-> IF c \in caps THEN LimitsOf(p, c, scope, now) ELSE UNLIMITED],
         kinds  |-> IF p.active THEN KindsOf(p, scope, now) ELSE {},
         owner  |-> p.active /\ p.owner,
         ask    |-> IF p.active THEN askManager \intersect Approvable ELSE {}]

-----------------------------------------------------------------------------
(* A request names a capability, the figures it is judged by (NoLimit when *)
(* the caller gives none) and whose work it touches: "mine", "another's" or *)
(* "unsaid".                                                               *)
Decide(eff, req) ==
    LET escalate(asks) == IF req.cap \in Approvable /\ asks THEN "approval" ELSE "deny"
        over == \E k \in LimitKey : /\ req.asked[k] # NoLimit
                                    /\ ~Under(req.asked[k], eff.limits[req.cap].max[k])
    IN  CASE req.cap \notin Cap                               -> "deny"
          [] req.cap \in Cap \ eff.caps                       -> escalate(req.cap \in eff.ask)
          [] req.cap \in eff.caps /\
             (over \/ (eff.limits[req.cap].own /\ req.own # "mine")) -> escalate(TRUE)
          [] OTHER                                            -> "allow"

CanApprove(approverEff, approver, subject, req) ==
    approver # subject /\ Decide(approverEff, req) = "allow"

(* A pending request: request, subject, by.                                *)
CanSettle(approverEff, approver, pending) ==
    /\ approver # pending.by
    /\ CanApprove(approverEff, approver, pending.subject, pending.request)

===============================================================================
