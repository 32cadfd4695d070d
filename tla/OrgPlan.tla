------------------------------- MODULE OrgPlan -------------------------------
(***************************************************************************)
(* madar-plan.  First its tables and what is read from them: the features  *)
(* a plan switches on, the ceiling it puts on a person's effective set,    *)
(* its limits and its realtime topics; and the generator's checks          *)
(* (authz-gen) a table has to pass before it exists at all.                *)
(*                                                                         *)
(* A table, as plans.toml writes it:                                       *)
(*   features : [Feature -> [groups, caps, prefixes]]                      *)
(*   free     : [groups, caps]                                             *)
(*   plans    : ["free", "paid" -> [all, features, limits, realtime]]      *)
(* where all is the "*" of a plan that lists no names, a prefix stands for *)
(* a pattern "prefix.*", and limits is a number or Unlimited for each of   *)
(* LimitKinds.                                                             *)
(*                                                                         *)
(* Then an organisation under a plan: its branches and devices grow        *)
(* against the plan's limits, it moves between the plans, and on Free each *)
(* branch goes on selling on one till (lib.rs and downgrade.rs).  A limit  *)
(* is judged on counts read before the device is activated, and two people *)
(* may be doing that at once.  A sale made offline raises its till's last  *)
(* use when it lands.                                                      *)
(***************************************************************************)
EXTENDS Access, Sequences

CONSTANTS
    Feature,     \* the names of features
    Group,       \* the capability groups of the registry
    GroupOf,     \* GroupOf[c]: the group of c
    PrefixesOf,  \* PrefixesOf[c]: the prefixes its key has
    GateOf,      \* GateOf["kds"], GateOf["waiter"]: the feature the kind belongs to
    Unlimited    \* an absent limit

Plans == {"free", "paid"}

DeviceKinds == {"pos", "kds", "waiter"}

LimitKinds == {"branches"} \union DeviceKinds

Core == UNION { CoreOf[kind] : kind \in Kinds }

NonCore == Cap \ Core

ASSUME TableAssumption ==
    /\ Unlimited \notin Nat
    /\ GroupOf \in [Cap -> Group]
    /\ GateOf \in [{"kds", "waiter"} -> Feature]

-----------------------------------------------------------------------------
(* The generator.  Groups and patterns skip the core, an exact name may    *)
(* not name it.                                                            *)
InGroups(groups) == { c \in NonCore : GroupOf[c] \in groups }

Matching(prefix) == { c \in NonCore : prefix \in PrefixesOf[c] }

(* The capabilities behind a feature.                                      *)
Behind(t, f) ==
    LET s == t.features[f]
    IN  InGroups(s.groups) \union s.caps \union UNION { Matching(p) : p \in s.prefixes }

BehindAny(t) == UNION { Behind(t, f) : f \in Feature }

FeatureAccepted(s) ==
    /\ s.groups \subseteq Group
    /\ s.caps \subseteq NonCore
    /\ \A p \in s.prefixes : Matching(p) # {}

OneFeatureEach(t) ==
    \A f, g \in Feature : f # g => Behind(t, f) \intersect Behind(t, g) = {}

(* What is free is not also sold; a free group has something free in it;   *)
(* and nothing is left out of both lists.                                  *)
FreeAccepted(t) ==
    /\ t.free.groups \subseteq Group
    /\ t.free.caps \subseteq NonCore \ BehindAny(t)
    /\ NonCore \subseteq BehindAny(t) \union InGroups(t.free.groups) \union t.free.caps
    /\ \A g \in t.free.groups : ~(InGroups({g}) \subseteq BehindAny(t))

FeaturesOf(t, plan) ==
    IF t.plans[plan].all THEN Feature ELSE t.plans[plan].features

NoLooser(a, b) == b = Unlimited \/ (a # Unlimited /\ a <= b)

PaidHasAllOfFree(t) ==
    /\ FeaturesOf(t, "free") \subseteq FeaturesOf(t, "paid")
    /\ \A k \in LimitKinds : NoLooser(t.plans["free"].limits[k], t.plans["paid"].limits[k])
    /\ t.plans["free"].realtime => t.plans["paid"].realtime

Accepted(t) ==
    /\ \A f \in Feature : FeatureAccepted(t.features[f])
    /\ OneFeatureEach(t)
    /\ FreeAccepted(t)
    /\ \A plan \in Plans : t.plans[plan].features \subseteq Feature
    /\ \A plan \in Plans : t.plans[plan].all => t.plans[plan].features = {}
    /\ PaidHasAllOfFree(t)
    /\ t.plans["free"].limits["kds"] = 0 => GateOf["kds"] \notin FeaturesOf(t, "free")

-----------------------------------------------------------------------------
(* What the applications ask.  A plan is stored as a word; any word but    *)
(* "free" is the paid plan.                                                *)
PlanOf(word) == IF word = "free" THEN "free" ELSE "paid"

(* The features of a plan and of the organisation's add-ons; limits and    *)
(* realtime stay the plan's.                                               *)
Entitled(t, plan, addons) == FeaturesOf(t, plan) \union addons

CeilingWith(t, plan, addons) ==
    Cap \ UNION { Behind(t, f) : f \in Feature \ Entitled(t, plan, addons) }

(* A person's effective set, cut to the ceiling.                           *)
ApplyWith(t, plan, addons, eff) ==
    LET ceil == CeilingWith(t, plan, addons)
    IN  IF ceil = Cap THEN eff
        ELSE [eff EXCEPT !.caps = @ \intersect ceil,
                         !.ask = @ \intersect ceil,
                         !.limits = [c \in Cap |-> IF c \in ceil THEN @[c] ELSE UNLIMITED]]

(* A verdict on growth: "ok", or the refusal's code and the feature it     *)
(* names.                                                                  *)
NoFeature == "no feature"

Refusal(code, feature) == [code |-> code, feature |-> feature]

MayAddBranch(t, plan, live) ==
    LET max == t.plans[plan].limits["branches"]
    IN  IF max # Unlimited /\ live >= max THEN Refusal("branch_limit", NoFeature)
        ELSE Refusal("ok", NoFeature)

(* Mutant: one more than the limit.                                        *)
MayActivateOneMore(t, plan, kind, active) ==
    LET max == t.plans[plan].limits[kind]
    IN  IF max # Unlimited /\ active > max THEN Refusal("device_limit", NoFeature)
        ELSE Refusal("ok", NoFeature)

(* A kind limited to none is a feature the plan lacks, unless the plan has *)
(* the feature: then it is a limit like any other.                         *)
MayActivate(t, plan, kind, active) ==
    LET max == t.plans[plan].limits[kind]
        lacked == kind # "pos" /\ GateOf[kind] \notin FeaturesOf(t, plan)
        feature == IF lacked THEN GateOf[kind] ELSE NoFeature
    IN  CASE max = 0 /\ lacked                    -> Refusal("feature", feature)
          [] max # Unlimited /\ active >= max /\ ~(max = 0 /\ lacked)
                                                  -> Refusal("device_limit", feature)
          [] OTHER                                -> Refusal("ok", NoFeature)

(* The topics a role's one subscription carries.                           *)
Topics(t, plan, role) ==
    IF ~t.plans[plan].realtime THEN {}
    ELSE CASE role = "kitchen" -> {"kitchen", "sync"}
           [] role = "waiter"  -> {"tickets", "kitchen", "floor", "bookings", "sync"}
           [] OTHER -> {"delivery", "kitchen", "tickets", "orders", "floor", "bookings", "tills", "sync"}

-----------------------------------------------------------------------------
(* The organisation.                                                       *)
CONSTANTS
    Branch, Device,
    KindOf,      \* KindOf[d]: a device's kind
    BranchOf,    \* BranchOf[d]: where it stands
    Person,      \* who activates devices
    Home,        \* the organisation's first branch
    Words,       \* the plans a server may store, one this build does not know among them
    Tables,      \* the tables written, accepted or not
    PersonEff,   \* the effective sets people resolve to
    RequestAsked,\* the requests judged
    Never,       \* a till never used
    MaxTime, MaxPicks

(* What a table's file parses to, a person resolves to and a request asks.  *)
IsTable(t) ==
    /\ \A plan \in Plans : t.plans[plan].limits \in [LimitKinds -> Nat \union {Unlimited}]
    /\ \A plan \in Plans : t.plans[plan].realtime \in BOOLEAN

EffectiveSet ==
    [caps : SUBSET Cap, limits : [Cap -> Limits], kinds : SUBSET Kinds, owner : BOOLEAN,
     ask : SUBSET Cap]

ASSUME OrgPlanAssumption ==
    /\ Device \subseteq Nat /\ IsFiniteSet(Device)
    /\ KindOf \in [Device -> DeviceKinds]
    /\ BranchOf \in [Device -> Branch]
    /\ Home \in Branch /\ Never \notin Nat
    /\ \A t \in Tables : IsTable(t)
    /\ PersonEff \subseteq EffectiveSet
    /\ \A req \in RequestAsked : req.cap \in Cap

VARIABLES
    table,     \* the table this build was generated from
    word,      \* the plan as the organisation's row stores it
    branches,  \* the live branches
    active,    \* the devices activated
    asking,    \* asking[p]: the device p is activating and the verdict p was given
    lastUsed,  \* lastUsed[d]: when a till was last used
    offline,   \* sales still on their till: [till, at]
    picks,     \* the owner's choices, oldest first
    now

vars == <<table, word, branches, active, asking, lastUsed, offline, picks, now>>

Till == { d \in Device : KindOf[d] = "pos" }

Idle == [device |-> Never, verdict |-> Refusal("ok", NoFeature), seen |-> 0, plan |-> "paid"]

Plan == PlanOf(word)

Standing(devices, b, kind) == { d \in devices : BranchOf[d] = b /\ KindOf[d] = kind }

ActiveAt(b, kind) == Standing(active, b, kind)

TillsAt(b) == ActiveAt(b, "pos")

(* Never is the earliest use, and of two used at once the smaller id (the  *)
(* ids are numbers here) wins.                                             *)
UsedLater(d, e) ==
    LET rank(x) == IF lastUsed[x] = Never THEN -1 ELSE lastUsed[x]
    IN  rank(d) > rank(e) \/ (rank(d) = rank(e) /\ d < e)

MostRecent(b) == CHOOSE d \in TillsAt(b) : \A e \in TillsAt(b) : d = e \/ UsedLater(d, e)

(* The owner's latest pick that names one of the branch's tills, if any.   *)
Picked(b) ==
    LET valid == { i \in DOMAIN picks : picks[i].branch = b /\ picks[i].device \in TillsAt(b) }
    IN  IF valid = {} THEN {} ELSE { picks[CHOOSE i \in valid : \A j \in valid : j <= i].device }

(* Mutant: the till least recently used is kept.                           *)
KeepsOldest ==
    { IF Picked(b) # {} THEN CHOOSE d \in Picked(b) : TRUE
      ELSE CHOOSE d \in TillsAt(b) : \A e \in TillsAt(b) : d = e \/ UsedLater(e, d) :
        b \in { b \in Branch : TillsAt(b) # {} } }

(* Which till each branch keeps (downgrade_keeps).                         *)
Keeps ==
    { IF Picked(b) # {} THEN CHOOSE d \in Picked(b) : TRUE ELSE MostRecent(b) :
        b \in { b \in Branch : TillsAt(b) # {} } }

(* The tills that may sell.                                                *)
Selling == IF Plan = "free" THEN Keeps ELSE { d \in active : KindOf[d] = "pos" }

-----------------------------------------------------------------------------
Init ==
    /\ table \in { t \in Tables : Accepted(t) }
    /\ word \in Words
    /\ branches = {Home}
    /\ active = {}
    /\ asking = [p \in Person |-> Idle]
    /\ lastUsed = [d \in Till |-> Never]
    /\ offline = {}
    /\ picks = <<>>
    /\ now = 0

AddBranch(b) ==
    /\ b \in Branch \ branches
    /\ MayAddBranch(table, Plan, Cardinality(branches)).code = "ok"
    /\ branches' = branches \union {b}
    /\ UNCHANGED <<table, word, active, asking, lastUsed, offline, picks, now>>

(* A person asks to activate a device and reads the branch's counts.       *)
Ask(p, d) ==
    /\ asking[p] = Idle /\ d \in Device \ active /\ BranchOf[d] \in branches
    /\ LET count == Cardinality(ActiveAt(BranchOf[d], KindOf[d]))
       IN  asking' = [asking EXCEPT ![p] =
             [device |-> d, verdict |-> MayActivate(table, Plan, KindOf[d], count),
              seen |-> count, plan |-> Plan]]
    /\ UNCHANGED <<table, word, branches, active, lastUsed, offline, picks, now>>

Activate(p) ==
    /\ asking[p] # Idle
    /\ active' = IF asking[p].verdict.code = "ok" THEN active \union {asking[p].device} ELSE active
    /\ asking' = [asking EXCEPT ![p] = Idle]
    /\ UNCHANGED <<table, word, branches, lastUsed, offline, picks, now>>

Deactivate(d) ==
    /\ d \in active
    /\ active' = active \ {d}
    /\ UNCHANGED <<table, word, branches, asking, lastUsed, offline, picks, now>>

(* The organisation changes plan.                                          *)
Move(w) ==
    /\ w # word
    /\ word' = w
    /\ UNCHANGED <<table, branches, active, asking, lastUsed, offline, picks, now>>

(* The owner chooses among a branch's tills, active or not.                *)
Pick(d) ==
    /\ Len(picks) < MaxPicks
    /\ picks' = Append(picks, [branch |-> BranchOf[d], device |-> d])
    /\ UNCHANGED <<table, word, branches, active, asking, lastUsed, offline, now>>

(* A sale on a till that may sell, landing at once or kept on the till.    *)
Sell(d) ==
    /\ d \in Selling
    /\ lastUsed' = [lastUsed EXCEPT ![d] = now]
    /\ UNCHANGED <<table, word, branches, active, asking, offline, picks, now>>

SellOffline(d) ==
    /\ d \in Selling /\ offline = {}
    /\ offline' = {[till |-> d, at |-> now]}
    /\ UNCHANGED <<table, word, branches, active, asking, lastUsed, picks, now>>

LandOffline(s) ==
    /\ s \in offline
    /\ offline' = offline \ {s}
    /\ lastUsed' = IF lastUsed[s.till] = Never \/ lastUsed[s.till] < s.at
                   THEN [lastUsed EXCEPT ![s.till] = s.at] ELSE lastUsed
    /\ UNCHANGED <<table, word, branches, active, asking, picks, now>>

Tick ==
    /\ now < MaxTime
    /\ now' = now + 1
    /\ UNCHANGED <<table, word, branches, active, asking, lastUsed, offline, picks>>

Next ==
    \/ \E b \in Branch : AddBranch(b)
    \/ \E p \in Person, d \in Device : Ask(p, d)
    \/ \E p \in Person : Activate(p)
    \/ \E d \in Device : Deactivate(d)
    \/ \E w \in Words : Move(w)
    \/ \E d \in Till : Pick(d) \/ Sell(d) \/ SellOffline(d)
    \/ \E s \in offline : LandOffline(s)
    \/ Tick

Spec == Init /\ [][Next]_vars

-----------------------------------------------------------------------------
(* However the devices came to be more than the plan allows (by two        *)
(* activations at once, or on the paid plan before), a branch on Free that *)
(* has tills sells on exactly one of them, the owner's latest choice when  *)
(* it names one: nobody is locked out and nobody sells on two.             *)
SellsOnOneTill ==
    Plan = "free" =>
      \A b \in Branch :
        LET here == { d \in Selling : BranchOf[d] = b }
            chosen == { i \in DOMAIN picks : picks[i].branch = b /\ picks[i].device \in TillsAt(b) }
        IN  /\ Cardinality(here) = (IF TillsAt(b) = {} THEN 0 ELSE 1)
            /\ here \subseteq active
            /\ \A i \in chosen : (\A j \in chosen : j <= i) => here = {picks[i].device}

(* Selling never moves the selling till: a sale on the till a Free branch  *)
(* sells on leaves it there, however the clock's ticks tie.                *)
SalesDoNotMoveIt ==
    [][\A d \in Till :
         (Plan = "free" /\ d \in Selling /\ lastUsed'[d] = now /\ lastUsed'[d] # lastUsed[d])
           => Selling' = Selling]_vars

(* Both: a branch on Free has its one till, and keeps it while it sells.   *)
SellingTillStands == []SellsOnOneTill /\ SalesDoNotMoveIt

(* A branch passes its plan's limit only by a count, or a plan, that had   *)
(* changed since it was read: nobody reading fresh figures gets past.      *)
PastTheLimitOnlyWhenStale ==
    [][\A p \in Person :
         LET d == asking[p].device
             kind == KindOf[d]
             limit == table.plans[Plan].limits[kind]
         IN  (asking[p] # Idle /\ asking'[p] = Idle /\ active' # active /\ limit # Unlimited)
               => \/ Cardinality(Standing(active', BranchOf[d], kind)) <= limit
                  \/ asking[p].seen # Cardinality(ActiveAt(BranchOf[d], kind))
                  \/ asking[p].plan # Plan]_vars

Rank == [deny |-> 0, approval |-> 1, allow |-> 2]

(* No table that passes the generator takes a core capability from anyone  *)
(* on any plan, lets a manager approve what the plan does not have, or     *)
(* takes anything away on an upgrade, whatever add-ons were bought: not a  *)
(* feature, a capability, a verdict, a limit or a topic.  The table never  *)
(* changes, so it is asked while nothing is installed yet.                 *)
Fresh == active = {} /\ picks = <<>> /\ offline = {} /\ now = 0

TablesNest ==
    /\ \A addons \in SUBSET Feature, eff \in PersonEff :
         LET free == ApplyWith(table, "free", addons, eff)
             paid == ApplyWith(table, "paid", addons, eff)
         IN  /\ eff.caps \intersect Core \subseteq free.caps \intersect paid.caps
             /\ \A req \in RequestAsked :
                  /\ Rank[Decide(free, req)] <= Rank[Decide(paid, req)]
                  /\ req.cap \in UNION { Behind(table, f) : f \in Feature \ Entitled(table, "free", addons) }
                       => Decide(free, req) = "deny"
    /\ \A role \in {"kitchen", "waiter", "teller"} :
         Topics(table, "free", role) \subseteq Topics(table, "paid", role)
    /\ \A kind \in DeviceKinds, n \in 0..Cardinality(Device) :
         MayActivate(table, "free", kind, n).code = "ok" => MayActivate(table, "paid", kind, n).code = "ok"

PlansNest == Fresh => TablesNest

(* The tables nest for every business, and what they allow is passed only  *)
(* by a stale count.                                                       *)
LimitsHold == PastTheLimitOnlyWhenStale /\ []PlansNest
===============================================================================
