------------------------------ MODULE AccessTill ------------------------------
(***************************************************************************)
(* Voids decided on a till from a signed snapshot of what people may do    *)
(* (madar-authz snapshot.rs, acts.rs), let through by a manager's PIN or   *)
(* parked for one elsewhere, and judged again by the server when the       *)
(* till's queue lands, while the dashboard changes people's access.        *)
(*                                                                         *)
(* The till, its queue, the dashboard and the server's store are the apps' *)
(* (external).  A snapshot holds the effective sets resolved at its branch *)
(* when it was issued; signatures and device ids are left out.             *)
(***************************************************************************)
EXTENDS Access

CONSTANTS
    Staff,
    Branch,
    AccessOf,        \* AccessOf[p]: the principals the dashboard may give p
    AskManager,      \* the owner's "ask a manager" capabilities
    Sale,
    TellerOf, RungAt, SoldIn,   \* of each sale: who rang it, when, and the branch
    Void,            \* the capability
    AgeKey,          \* max_age_minutes
    TicksPerMinute,
    Life,            \* how long a snapshot is good for
    MaxTime,         \* bound: the clock
    MaxChanges,      \* bound: changes of access
    Nobody

ASSUME TillAssumption ==
    /\ LimitKey = {AgeKey} /\ Void \in Cap /\ AskManager \subseteq Cap
    /\ TellerOf \in [Sale -> Staff] /\ RungAt \in [Sale -> Nat] /\ SoldIn \in [Sale -> Branch]
    /\ TicksPerMinute \in Nat \ {0} /\ Life \in Nat /\ MaxTime \in Nat /\ MaxChanges \in Nat
    /\ Nobody \notin Staff

VARIABLES
    now,
    principal,   \* principal[p]: what the server has on p
    since,       \* since[p]: when that was last changed
    changes,
    branch,      \* the till's branch
    snap,        \* the till's snapshot
    act,         \* act[s]: how s was voided, if it was
    pending      \* pending[s]: the void of s parked for an approver, if any

tillVars == <<now, principal, since, changes, branch, snap, act, pending>>

-----------------------------------------------------------------------------
EffOf(p, at, time) == Resolve(principal[p], at, time, AskManager)

Issue == [branch |-> branch, issued |-> now, expires |-> now + Life,
          eff |-> [p \in Staff |-> EffOf(p, branch, now)]]

(* Mutant: the expiry is not looked at.                                    *)
CheckBindingForever(body) == body.branch = branch

CheckBinding(body) == body.branch = branch /\ now < body.expires

(* Whole minutes, and none for a sale in the future.                       *)
AgeMinutes(from, at) == IF at < from THEN 0 ELSE (at - from) \div TicksPerMinute

(* What the void of s by p at a moment is judged on: the sale's teller,    *)
(* not the till's opener, and its age then.                                *)
VoidFacts(s, p, at) ==
    [cap |-> Void, asked |-> [key \in {AgeKey} |-> AgeMinutes(RungAt[s], at)],
     own |-> IF TellerOf[s] = p THEN "mine" ELSE "another's"]

NotVoided == [by |-> Nobody]
NotParked == [by |-> Nobody]

(* Mutant: a queued void is judged by the moment it lands.                 *)
ReplayFactsAtLanding(s) == VoidFacts(s, act[s].by, now)

(* The facts the server judges a queued void on: its own moment's.         *)
ReplayFacts(s) == VoidFacts(s, act[s].by, act[s].at)

(* Whether p may do it, or approver may let p, by the given sets.          *)
LetsThrough(effs, p, approver, req) ==
    \/ approver = Nobody /\ Decide(effs[p], req) = "allow"
    \/ /\ approver \in Staff /\ Decide(effs[p], req) = "approval"
       /\ CanApprove(effs[approver], approver, p, req)

TillInit ==
    /\ now = 0
    /\ principal \in { f \in [Staff -> UNION { AccessOf[p] : p \in Staff }] :
                         \A p \in Staff : f[p] \in AccessOf[p] }
    /\ since = [p \in Staff |-> 0] /\ changes = 0
    /\ branch \in Branch
    /\ snap = Issue
    /\ act = [s \in Sale |-> NotVoided]
    /\ pending = [s \in Sale |-> NotParked]

-----------------------------------------------------------------------------
Tick ==
    /\ now < MaxTime
    /\ now' = now + 1
    /\ UNCHANGED <<principal, since, changes, branch, snap, act, pending>>

Change(p, access) ==
    /\ changes < MaxChanges /\ changes' = changes + 1
    /\ access # principal[p]
    /\ principal' = [principal EXCEPT ![p] = access]
    /\ since' = [since EXCEPT ![p] = now]
    /\ UNCHANGED <<now, branch, snap, act, pending>>

(* The till, online, takes a fresh snapshot; moved to another branch, it   *)
(* keeps the old one until then.                                           *)
Fetch ==
    /\ snap' = Issue
    /\ UNCHANGED <<now, principal, since, changes, branch, act, pending>>

Move(b) ==
    /\ branch' = b
    /\ UNCHANGED <<now, principal, since, changes, snap, act, pending>>

(* A void at the till, by p alone or with a manager's PIN.                 *)
VoidAtTill(s, p, approver) ==
    /\ SoldIn[s] = branch
    /\ act[s] = NotVoided
    /\ CheckBinding(snap)
    /\ LetsThrough(snap.eff, p, approver, VoidFacts(s, p, now))
    /\ act' = [act EXCEPT ![s] = [by |-> p, approver |-> approver, at |-> now,
                                  issued |-> snap.issued, stage |-> "queued"]]
    /\ UNCHANGED <<now, principal, since, changes, branch, snap, pending>>

Park(s, p) ==
    /\ SoldIn[s] = branch
    /\ act[s] = NotVoided /\ pending[s] = NotParked
    /\ CheckBinding(snap)
    /\ Decide(snap.eff[p], VoidFacts(s, p, now)) = "approval"
    /\ pending' = [pending EXCEPT ![s] = [request |-> VoidFacts(s, p, now),
                                          subject |-> TellerOf[s], by |-> p]]
    /\ UNCHANGED <<now, principal, since, changes, branch, snap, act>>

(* Settled on the server, by what it has on the approver then.             *)
Settle(s, approver) ==
    /\ act[s] = NotVoided /\ pending[s] # NotParked
    /\ CanSettle(EffOf(approver, SoldIn[s], now), approver, pending[s])
    /\ act' = [act EXCEPT ![s] = [by |-> pending[s].by, approver |-> approver, at |-> now,
                                  issued |-> now, stage |-> "settled"]]
    /\ pending' = [pending EXCEPT ![s] = NotParked]
    /\ UNCHANGED <<now, principal, since, changes, branch, snap>>

(* A queued void lands: it stands, and the server marks it when its own    *)
(* answer for that moment differs.                                         *)
ServerAgrees(s) ==
    LetsThrough([p \in Staff |-> EffOf(p, SoldIn[s], act[s].at)],
                act[s].by, act[s].approver, ReplayFacts(s))

Land(s) ==
    /\ act[s] # NotVoided /\ act[s].stage = "queued"
    /\ act' = [act EXCEPT ![s].stage = IF ServerAgrees(s) THEN "landed" ELSE "marked"]
    /\ UNCHANGED <<now, principal, since, changes, branch, snap, pending>>

TillNext ==
    \/ Tick \/ Fetch
    \/ \E b \in Branch \ {branch} : Move(b)
    \/ \E p \in Staff : \E access \in AccessOf[p] : Change(p, access)
    \/ \E s \in Sale, p \in Staff :
         Park(s, p) \/ Settle(s, p) \/ \E approver \in Staff \union {Nobody} : VoidAtTill(s, p, approver)
    \/ \E s \in Sale : Land(s)

TillSpec == TillInit /\ [][TillNext]_tillVars

-----------------------------------------------------------------------------
TillTypeOK ==
    /\ now \in 0..MaxTime
    /\ \A p \in Staff : principal[p] \in AccessOf[p] /\ since[p] \in 0..now
    /\ branch \in Branch /\ snap.branch \in Branch /\ snap.issued \in 0..now
    /\ \A s \in Sale :
        /\ act[s] # NotVoided => act[s].at \in 0..now
        /\ pending[s] # NotParked => pending[s].request.asked[AgeKey] \in Nat

Hands(s) == {act[s].by, act[s].approver} \ {Nobody}

(* However late the queue drains, the server answers what the till did,    *)
(* unless the access of someone involved was changed after the snapshot,   *)
(* or a window of theirs opened or closed between it and the void (acts.rs *)
(* void_facts, snapshot.rs check_binding).                                 *)
MarkedForACause ==
    \A s \in Sale :
        act[s] # NotVoided /\ act[s].stage = "marked" =>
            \E p \in Hands(s) :
                \/ since[p] >= act[s].issued
                \/ EffOf(p, SoldIn[s], act[s].issued) # EffOf(p, SoldIn[s], act[s].at)

(* What somebody lost, they go on doing at a till for less than a          *)
(* snapshot's life: the server would have let the void through at some     *)
(* moment that recent, or their access changed that recently (snapshot.rs  *)
(* check_binding).                                                         *)
StaleForLessThanLife ==
    [][ \A s \in Sale :
          act'[s] # act[s] /\ act'[s].stage = "queued" =>
            \/ \E p \in Hands(s)' : now - since[p] < Life
            \/ \E t \in 0..now :
                 /\ now - t < Life
                 /\ LetsThrough([p \in Staff |-> EffOf(p, SoldIn[s], t)],
                                act'[s].by, act'[s].approver, VoidFacts(s, act'[s].by, now)) ]_tillVars

(* Nobody lets their own ask through, nor one about their own sale, though *)
(* their access has grown since they asked (lib.rs can_settle).            *)
NobodySettlesTheirOwn ==
    \A s \in Sale : act[s] # NotVoided /\ act[s].stage = "settled" =>
        act[s].approver \notin {act[s].by, TellerOf[s]}

(* What was decided at the till, by people who may decide it, is what the  *)
(* server records.                                                         *)
RecordedAsDecided == TillTypeOK /\ MarkedForACause /\ NobodySettlesTheirOwn
===============================================================================
