----------------------------- MODULE AccessProofs -----------------------------
(***************************************************************************)
(* Proofs about who may do what, on a till and as it is changed.           *)
(*                                                                         *)
(* AccessTill, for any people, branches, accesses, clocks and snapshot     *)
(* lives: the inductive invariant says what a snapshot still shows, of     *)
(* whoever has not been changed since it was issued, what the server would *)
(* have resolved then.                                                     *)
(*                                                                         *)
(* AccessAdmin, for any capabilities, people, roles and bounds: with       *)
(* overrides for every branch and no ends, what somebody holds comes down  *)
(* to HasBy, and what they are limited to to LimitedBy; the inductive      *)
(* invariant says the resolved sets are just that, and that some owner     *)
(* holds everything.                                                       *)
(***************************************************************************)
EXTENDS AccessTill, AccessAdmin, FoldFacts, TLAPS

USE AccessAssumption, TillAssumption

Acts ==
    [by : Staff, approver : Staff \union {Nobody}, at : 0..MaxTime, issued : 0..MaxTime,
     stage : {"queued", "settled", "landed", "marked"}]

Parked == [request : { VoidFacts(s, p, t) : s \in Sale, p \in Staff, t \in 0..MaxTime },
           subject : Staff, by : Staff]

Types ==
    /\ now \in 0..MaxTime
    /\ principal \in [Staff -> UNION { AccessOf[p] : p \in Staff }]
    /\ \A p \in Staff : principal[p] \in AccessOf[p]
    /\ since \in [Staff -> 0..MaxTime] /\ \A p \in Staff : since[p] <= now
    /\ branch \in Branch
    /\ act \in [Sale -> Acts \union {NotVoided}]
    /\ \A s \in Sale : act[s] # NotVoided => act[s].issued <= act[s].at /\ act[s].at <= now
    /\ pending \in [Sale -> Parked \union {NotParked}]

(* What the till's snapshot shows of everyone not changed since.           *)
SnapshotShows ==
    /\ snap.branch \in Branch
    /\ snap.issued \in 0..now /\ snap.expires = snap.issued + Life
    /\ \A p \in Staff :
           since[p] < snap.issued => snap.eff[p] = EffOf(p, snap.branch, snap.issued)

(* Why the server may answer a void otherwise than the till did.           *)
Cause(s) ==
    \E p \in Hands(s) : \/ since[p] >= act[s].issued
                        \/ EffOf(p, SoldIn[s], act[s].issued) # EffOf(p, SoldIn[s], act[s].at)

Answered ==
    \A s \in Sale :
        act[s] # NotVoided =>
            /\ act[s].stage = "queued" => Cause(s) \/ ServerAgrees(s)
            /\ act[s].stage = "marked" => Cause(s)

ParkedRight ==
    \A s \in Sale : pending[s] # NotParked => pending[s].subject = TellerOf[s]

TillInv == Types /\ SnapshotShows /\ Answered /\ ParkedRight /\ NobodySettlesTheirOwn

-----------------------------------------------------------------------------
LEMMA Distinct == NotVoided \notin Acts /\ NotParked \notin Parked
<1>1. \A a \in Acts : a.by \in Staff
  BY DEF Acts
<1>2. \A a \in Parked : a.by \in Staff
  BY DEF Parked
<1>3. NotVoided.by = Nobody /\ NotParked.by = Nobody
  BY DEF NotVoided, NotParked
<1> QED BY <1>1, <1>2, <1>3

(* Whether an act is let through depends on the hands in it alone.         *)
LEMMA OnlyTheHands ==
    ASSUME NEW e, NEW f, NEW p \in Staff, NEW a \in Staff \union {Nobody}, NEW req,
           \A q \in {p, a} \ {Nobody} : e[q] = f[q]
    PROVE  LetsThrough(e, p, a, req) <=> LetsThrough(f, p, a, req)
<1>1. e[p] = f[p]
  OBVIOUS
<1>2. a \in Staff => e[a] = f[a]
  OBVIOUS
<1> QED BY <1>1, <1>2 DEF LetsThrough

(* A void made on the snapshot, by hands not changed since it was issued,  *)
(* is one the server let through then.                                     *)
LEMMA ShownIsThen ==
    ASSUME TillInv, NEW s \in Sale, NEW p \in Staff, NEW a \in Staff \union {Nobody}, NEW req,
           SoldIn[s] = branch, CheckBinding(snap), LetsThrough(snap.eff, p, a, req),
           \A q \in {p, a} \ {Nobody} : since[q] < snap.issued
    PROVE  LetsThrough([q \in Staff |-> EffOf(q, SoldIn[s], snap.issued)], p, a, req)
<1> DEFINE then == [q \in Staff |-> EffOf(q, SoldIn[s], snap.issued)]
<1>1. snap.branch = SoldIn[s]
  BY DEF CheckBinding
<1>2. \A q \in {p, a} \ {Nobody} : q \in Staff
  OBVIOUS
<1>3. \A q \in {p, a} \ {Nobody} : snap.eff[q] = then[q]
  BY <1>1, <1>2 DEF TillInv, SnapshotShows
<1> HIDE DEF then
<1>4. LetsThrough(snap.eff, p, a, req) <=> LetsThrough(then, p, a, req)
  BY <1>3, OnlyTheHands
<1> QED BY <1>4 DEF then

-----------------------------------------------------------------------------
LEMMA InitTill == TillInit => TillInv
<1> SUFFICES ASSUME TillInit PROVE TillInv
  OBVIOUS
<1>1. Types
  BY DEF TillInit, Types
<1>2. SnapshotShows
  BY DEF TillInit, SnapshotShows, Issue
<1>3. Answered /\ ParkedRight /\ NobodySettlesTheirOwn
  BY DEF TillInit, Answered, ParkedRight, NobodySettlesTheirOwn
<1> QED BY <1>1, <1>2, <1>3 DEF TillInv

(* While what is voided stands as it did and nobody in it has changed,     *)
(* neither has the answer.                                                 *)
LEMMA AnswersStand ==
    ASSUME TillInv, NEW s \in Sale, act[s] # NotVoided, act'[s] = act[s],
           \A p \in Staff : \/ principal'[p] = principal[p] /\ since'[p] = since[p]
                            \/ since'[p] = now
    PROVE  /\ Cause(s) => Cause(s)'
           /\ ServerAgrees(s) => Cause(s)' \/ ServerAgrees(s)'
<1>1. act[s] \in Acts /\ act[s].issued <= now
  BY DEF TillInv, Types, Acts
<1>2. Hands(s)' = Hands(s) /\ Hands(s) \subseteq Staff
  BY <1>1 DEF Hands, Acts
<1>3. CASE \E p \in Hands(s) : since'[p] = now
  BY <1>1, <1>2, <1>3 DEF Cause
<1>4. CASE \A p \in Hands(s) : since'[p] # now
  <2>1. \A p \in Hands(s) : /\ since'[p] = since[p] /\ principal'[p] = principal[p]
                            /\ \A b, t : EffOf(p, b, t)' = EffOf(p, b, t)
    BY <1>2, <1>4 DEF EffOf
  <2>2. Cause(s) => Cause(s)'
    BY <1>2, <2>1 DEF Cause
  <2>3. ServerAgrees(s)' <=> ServerAgrees(s)
    <3> DEFINE e == [p \in Staff |-> EffOf(p, SoldIn[s], act[s].at)]
               f == [p \in Staff |-> EffOf(p, SoldIn[s], act[s].at)']
               who == act[s].by
               ap == act[s].approver
    <3>1. who \in Staff /\ ap \in Staff \union {Nobody}
      BY <1>1 DEF Acts
    <3>2. \A q \in {who, ap} \ {Nobody} : e[q] = f[q]
      BY <1>2, <2>1 DEF Hands
    <3>3. ServerAgrees(s) <=> LetsThrough(e, who, ap, ReplayFacts(s))
      BY DEF ServerAgrees
    <3>4. ServerAgrees(s)' <=> LetsThrough(f, who, ap, ReplayFacts(s))
      BY DEF ServerAgrees, ReplayFacts
    <3> HIDE DEF e, f, who, ap
    <3> QED BY <3>1, <3>2, <3>3, <3>4, OnlyTheHands
  <2> QED BY <2>2, <2>3
<1> QED BY <1>3, <1>4

(* An act that was not there or whose stage moved on, the others as before.*)
LEMMA OthersStand ==
    ASSUME TillInv, NEW s \in Sale, UNCHANGED <<principal, since>>,
           \A z \in Sale \ {s} : act'[z] = act[z],
           act'[s] # NotVoided =>
               /\ act'[s].stage = "queued" => Cause(s)' \/ ServerAgrees(s)'
               /\ act'[s].stage = "marked" => Cause(s)'
    PROVE  Answered'
<1> SUFFICES ASSUME NEW z \in Sale, act'[z] # NotVoided
             PROVE  /\ act'[z].stage = "queued" => Cause(z)' \/ ServerAgrees(z)'
                    /\ act'[z].stage = "marked" => Cause(z)'
  BY DEF Answered
<1>1. CASE z = s
  BY <1>1
<1>2. CASE z # s
  BY <1>2, AnswersStand DEF TillInv, Answered
<1> QED BY <1>1, <1>2

LEMMA TickKeeps == TillInv /\ Tick => TillInv'
<1> SUFFICES ASSUME TillInv, Tick PROVE TillInv'
  OBVIOUS
<1>1. Types'
  <2>1. now' \in 0..MaxTime /\ now \in 0..MaxTime /\ now' = now + 1
    BY DEF TillInv, Types, Tick
  <2>2. \A p \in Staff : since[p] <= now'
    BY <2>1 DEF TillInv, Types
  <2>3. \A s \in Sale : act[s] # NotVoided => act[s].issued <= act[s].at /\ act[s].at <= now'
    <3>1. \A s \in Sale : act[s] # NotVoided => act[s].at \in 0..MaxTime
      BY DEF TillInv, Types, Acts
    <3> QED BY <2>1, <3>1 DEF TillInv, Types
  <2> QED BY <2>1, <2>2, <2>3 DEF TillInv, Types, Tick
<1>2. SnapshotShows'
  <2>1. \A p, b, t : EffOf(p, b, t)' = EffOf(p, b, t)
    BY DEF Tick, EffOf
  <2> QED BY <2>1 DEF TillInv, Types, SnapshotShows, Tick
<1>3. Answered'
  BY AnswersStand DEF TillInv, Answered, Tick
<1>4. ParkedRight' /\ NobodySettlesTheirOwn'
  BY DEF TillInv, ParkedRight, NobodySettlesTheirOwn, Tick
<1> QED BY <1>1, <1>2, <1>3, <1>4 DEF TillInv

LEMMA ChangeKeeps ==
    ASSUME TillInv, NEW p \in Staff, NEW access \in AccessOf[p], Change(p, access)
    PROVE  TillInv'
<1>1. Types'
  BY DEF TillInv, Types, Change
<1>2. SnapshotShows'
  <2>1. ASSUME NEW q \in Staff, since'[q] < snap.issued
        PROVE  snap.eff[q] = EffOf(q, snap.branch, snap.issued)'
    <3>1. q # p
      BY <2>1 DEF TillInv, Types, SnapshotShows, Change
    <3>2. since'[q] = since[q] /\ principal'[q] = principal[q]
      BY <3>1 DEF TillInv, Types, Change
    <3>3. EffOf(q, snap.branch, snap.issued)' = EffOf(q, snap.branch, snap.issued)
      BY <3>2 DEF EffOf, Change
    <3> QED BY <2>1, <3>2, <3>3 DEF TillInv, SnapshotShows
  <2> QED BY <2>1 DEF TillInv, SnapshotShows, Change
<1>3. Answered'
  <2>1. \A q \in Staff : \/ principal'[q] = principal[q] /\ since'[q] = since[q]
                         \/ since'[q] = now
    BY DEF TillInv, Types, Change
  <2> QED BY <2>1, AnswersStand DEF TillInv, Answered, Change
<1>4. ParkedRight' /\ NobodySettlesTheirOwn'
  BY DEF TillInv, ParkedRight, NobodySettlesTheirOwn, Change
<1> QED BY <1>1, <1>2, <1>3, <1>4 DEF TillInv

LEMMA FetchKeeps == TillInv /\ Fetch => TillInv'
<1> SUFFICES ASSUME TillInv, Fetch PROVE TillInv'
  OBVIOUS
<1>1. Types'
  BY DEF TillInv, Types, Fetch
<1>2. SnapshotShows'
  <2>1. \A p, b, t : EffOf(p, b, t)' = EffOf(p, b, t)
    BY DEF Fetch, EffOf
  <2> QED BY <2>1 DEF TillInv, Types, SnapshotShows, Fetch, Issue
<1>3. Answered'
  BY AnswersStand DEF TillInv, Answered, Fetch
<1>4. ParkedRight' /\ NobodySettlesTheirOwn'
  BY DEF TillInv, ParkedRight, NobodySettlesTheirOwn, Fetch
<1> QED BY <1>1, <1>2, <1>3, <1>4 DEF TillInv

LEMMA MoveKeeps ==
    ASSUME TillInv, NEW b \in Branch, Move(b)
    PROVE  TillInv'
<1>1. Types'
  BY DEF TillInv, Types, Move
<1>2. SnapshotShows'
  <2>1. \A p, c, t : EffOf(p, c, t)' = EffOf(p, c, t)
    BY DEF Move, EffOf
  <2> QED BY <2>1 DEF TillInv, Types, SnapshotShows, Move
<1>3. Answered'
  BY AnswersStand DEF TillInv, Answered, Move
<1>4. ParkedRight' /\ NobodySettlesTheirOwn'
  BY DEF TillInv, ParkedRight, NobodySettlesTheirOwn, Move
<1> QED BY <1>1, <1>2, <1>3, <1>4 DEF TillInv

(* The void is queued with either a cause to be answered otherwise, or the *)
(* server's own yes.                                                       *)
LEMMA VoidKeeps ==
    ASSUME TillInv, NEW s \in Sale, NEW p \in Staff, NEW a \in Staff \union {Nobody},
           VoidAtTill(s, p, a)
    PROVE  TillInv'
<1> DEFINE new == [by |-> p, approver |-> a, at |-> now, issued |-> snap.issued, stage |-> "queued"]
           req == VoidFacts(s, p, now)
<1>1. new \in Acts /\ new # NotVoided
  <2>1. now \in 0..MaxTime /\ snap.issued \in 0..MaxTime
    BY DEF TillInv, Types, SnapshotShows
  <2>2. new \in Acts
    BY <2>1 DEF Acts
  <2> QED BY <2>2, Distinct
<1>2. act' = [act EXCEPT ![s] = new] /\ UNCHANGED <<now, principal, since, changes, branch, snap, pending>>
  BY DEF VoidAtTill
<1>3. act'[s] = new /\ \A z \in Sale \ {s} : act'[z] = act[z]
  BY <1>2 DEF TillInv, Types
<1>4. snap.issued \in 0..now /\ now \in 0..MaxTime
  BY DEF TillInv, Types, SnapshotShows
<1>5. Types'
  <2>1. \A z \in Sale : act'[z] # NotVoided => act'[z].issued <= act'[z].at /\ act'[z].at <= now
    BY <1>3, <1>4 DEF TillInv, Types
  <2> QED BY <2>1, <1>1, <1>2 DEF TillInv, Types
<1>6. \A q, b, t : EffOf(q, b, t)' = EffOf(q, b, t)
  BY <1>2 DEF EffOf
<1>7. SnapshotShows'
  BY <1>2, <1>6 DEF TillInv, SnapshotShows
<1>8. ASSUME ~Cause(s)' PROVE ServerAgrees(s)'
  <2>1. Hands(s)' = {p, a} \ {Nobody}
    BY <1>3 DEF Hands
  <2>2. \A q \in {p, a} \ {Nobody} :
          /\ q \in Staff /\ ~(since[q] >= snap.issued)
          /\ EffOf(q, SoldIn[s], snap.issued) = EffOf(q, SoldIn[s], now)
    BY <1>2, <1>3, <1>6, <1>8, <2>1 DEF Cause
  <2>3. \A q \in {p, a} \ {Nobody} : since[q] < snap.issued
    BY <2>2 DEF TillInv, Types, SnapshotShows
  <2> DEFINE then == [q \in Staff |-> EffOf(q, SoldIn[s], snap.issued)]
             here == [q \in Staff |-> EffOf(q, SoldIn[s], now)]
  <2>4. LetsThrough(then, p, a, req)
    BY <2>3, ShownIsThen DEF VoidAtTill
  <2>5. \A q \in {p, a} \ {Nobody} : then[q] = here[q]
    BY <2>2
  <2>6. ServerAgrees(s)' <=> LetsThrough(here, p, a, req)
    BY <1>3, <1>6 DEF ServerAgrees, ReplayFacts
  <2> HIDE DEF then, here, req
  <2> QED BY <2>4, <2>5, <2>6, OnlyTheHands
<1>9. Answered'
  BY <1>2, <1>3, <1>8, OthersStand
<1>10. ParkedRight' /\ NobodySettlesTheirOwn'
  BY <1>2, <1>3 DEF TillInv, ParkedRight, NobodySettlesTheirOwn
<1> QED BY <1>5, <1>7, <1>9, <1>10 DEF TillInv

LEMMA ParkKeeps ==
    ASSUME TillInv, NEW s \in Sale, NEW p \in Staff, Park(s, p)
    PROVE  TillInv'
<1> DEFINE new == [request |-> VoidFacts(s, p, now), subject |-> TellerOf[s], by |-> p]
<1>1. new \in Parked
  <2>1. now \in 0..MaxTime
    BY DEF TillInv, Types
  <2>2. VoidFacts(s, p, now) \in { VoidFacts(z, q, t) : z \in Sale, q \in Staff, t \in 0..MaxTime }
    BY <2>1
  <2> QED BY <2>2 DEF Parked
<1>2. /\ pending' = [pending EXCEPT ![s] = new]
      /\ UNCHANGED <<now, principal, since, changes, branch, snap, act>>
  BY DEF Park
<1>3. Types'
  BY <1>1, <1>2 DEF TillInv, Types
<1>4. \A q, b, t : EffOf(q, b, t)' = EffOf(q, b, t)
  BY <1>2 DEF EffOf
<1>5. SnapshotShows'
  BY <1>2, <1>4 DEF TillInv, SnapshotShows
<1>6. Answered'
  BY <1>2, AnswersStand DEF TillInv, Answered
<1>7. ParkedRight' /\ NobodySettlesTheirOwn'
  BY <1>2 DEF TillInv, Types, ParkedRight, NobodySettlesTheirOwn
<1> QED BY <1>3, <1>5, <1>6, <1>7 DEF TillInv

LEMMA SettleKeeps ==
    ASSUME TillInv, NEW s \in Sale, NEW a \in Staff, Settle(s, a)
    PROVE  TillInv'
<1> DEFINE new == [by |-> pending[s].by, approver |-> a, at |-> now, issued |-> now,
                   stage |-> "settled"]
<1>1. pending[s] \in Parked /\ now \in 0..MaxTime
  BY DEF TillInv, Types, Settle
<1>2. new \in Acts /\ new # NotVoided
  <2>1. new \in Acts
    BY <1>1 DEF Acts, Parked
  <2> QED BY <2>1, Distinct
<1>3. /\ act' = [act EXCEPT ![s] = new] /\ pending' = [pending EXCEPT ![s] = NotParked]
      /\ UNCHANGED <<now, principal, since, changes, branch, snap>>
  BY DEF Settle
<1>4. act'[s] = new /\ \A z \in Sale \ {s} : act'[z] = act[z]
  BY <1>3 DEF TillInv, Types
<1>5. Types'
  <2>1. \A z \in Sale : act'[z] # NotVoided => act'[z].issued <= act'[z].at /\ act'[z].at <= now
    BY <1>1, <1>4 DEF TillInv, Types
  <2> QED BY <2>1, <1>2, <1>3 DEF TillInv, Types
<1>6. \A q, b, t : EffOf(q, b, t)' = EffOf(q, b, t)
  BY <1>3 DEF EffOf
<1>7. SnapshotShows'
  BY <1>3, <1>6 DEF TillInv, SnapshotShows
<1>8. Answered'
  BY <1>3, <1>4, OthersStand
<1>9. ParkedRight'
  BY <1>3 DEF TillInv, Types, ParkedRight
<1>10. a # pending[s].by /\ a # TellerOf[s]
  BY DEF TillInv, ParkedRight, Settle, CanSettle, CanApprove
<1>11. NobodySettlesTheirOwn'
  BY <1>4, <1>10 DEF TillInv, NobodySettlesTheirOwn
<1> QED BY <1>5, <1>7, <1>8, <1>9, <1>11 DEF TillInv

LEMMA LandKeeps ==
    ASSUME TillInv, NEW s \in Sale, Land(s)
    PROVE  TillInv'
<1> DEFINE stage == IF ServerAgrees(s) THEN "landed" ELSE "marked"
           new == [act[s] EXCEPT !.stage = stage]
<1>1. act[s] \in Acts /\ act[s].stage = "queued"
  BY DEF TillInv, Types, Land
<1>2. /\ new \in Acts /\ new.stage = stage /\ new.by = act[s].by /\ new.approver = act[s].approver
      /\ new.at = act[s].at /\ new.issued = act[s].issued
  BY <1>1 DEF Acts
<1>3. new # NotVoided
  BY <1>2, Distinct
<1>4. /\ act' = [act EXCEPT ![s] = new]
      /\ UNCHANGED <<now, principal, since, changes, branch, snap, pending>>
  BY DEF Land
<1> HIDE DEF new
<1>5. act'[s] = new /\ \A z \in Sale \ {s} : act'[z] = act[z]
  BY <1>4 DEF TillInv, Types
<1>6. act[s].issued <= act[s].at /\ act[s].at <= now
  BY DEF TillInv, Types, Land
<1>7. Types'
  <2>1. \A z \in Sale : act'[z] # NotVoided => act'[z].issued <= act'[z].at /\ act'[z].at <= now
    BY <1>2, <1>5, <1>6 DEF TillInv, Types
  <2> QED BY <2>1, <1>2, <1>4 DEF TillInv, Types
<1>8. \A q, b, t : EffOf(q, b, t)' = EffOf(q, b, t)
  BY <1>4 DEF EffOf
<1>9. SnapshotShows'
  BY <1>4, <1>8 DEF TillInv, SnapshotShows
<1>10. stage = "marked" => Cause(s)'
  <2>1. stage = "marked" => Cause(s)
    BY <1>1 DEF TillInv, Answered, Land
  <2>2. Cause(s)' <=> Cause(s)
    BY <1>2, <1>4, <1>5, <1>8 DEF Cause, Hands
  <2> QED BY <2>1, <2>2
<1>11. Answered'
  BY <1>2, <1>4, <1>5, <1>10, OthersStand
<1>12. ParkedRight' /\ NobodySettlesTheirOwn'
  BY <1>2, <1>4, <1>5 DEF TillInv, ParkedRight, NobodySettlesTheirOwn
<1> QED BY <1>7, <1>9, <1>11, <1>12 DEF TillInv

LEMMA StepTill == TillInv /\ [TillNext]_tillVars => TillInv'
<1> SUFFICES ASSUME TillInv, [TillNext]_tillVars PROVE TillInv'
  OBVIOUS
<1>1. CASE UNCHANGED tillVars
  <2>1. \A q, b, t : EffOf(q, b, t)' = EffOf(q, b, t)
    BY <1>1 DEF tillVars, EffOf
  <2>2. Types' /\ SnapshotShows' /\ ParkedRight' /\ NobodySettlesTheirOwn'
    BY <1>1, <2>1 DEF tillVars, TillInv, Types, SnapshotShows, ParkedRight, NobodySettlesTheirOwn
  <2>3. Answered'
    BY <1>1, AnswersStand DEF tillVars, TillInv, Answered
  <2> QED BY <2>2, <2>3 DEF TillInv
<1>2. CASE Tick \/ Fetch
  BY <1>2, TickKeeps, FetchKeeps
<1>3. ASSUME NEW b \in Branch, Move(b) PROVE TillInv'
  BY <1>3, MoveKeeps
<1>4. ASSUME NEW p \in Staff, NEW access \in AccessOf[p], Change(p, access) PROVE TillInv'
  BY <1>4, ChangeKeeps
<1>5. ASSUME NEW s \in Sale, NEW p \in Staff, Park(s, p) \/ Settle(s, p) PROVE TillInv'
  BY <1>5, ParkKeeps, SettleKeeps
<1>6. ASSUME NEW s \in Sale, NEW p \in Staff, NEW a \in Staff \union {Nobody}, VoidAtTill(s, p, a)
      PROVE  TillInv'
  BY <1>6, VoidKeeps
<1>7. ASSUME NEW s \in Sale, Land(s) PROVE TillInv'
  BY <1>7, LandKeeps
<1> QED BY <1>1, <1>2, <1>3, <1>4, <1>5, <1>6, <1>7 DEF TillNext

LEMMA TillInvariance == TillSpec => []TillInv
BY InitTill, StepTill, PTL DEF TillSpec

(* However late a till's queue drains, the server answers each void as the *)
(* till did unless somebody in it was changed after the snapshot, or a     *)
(* window of theirs opened or closed since; and nobody lets their own ask  *)
(* through (acts.rs void_facts, snapshot.rs check_binding, lib.rs          *)
(* can_settle).                                                            *)
THEOREM AnswersAsTheTill == TillSpec => []RecordedAsDecided
<1>1. TillInv => TillTypeOK
  <2> SUFFICES ASSUME TillInv PROVE TillTypeOK
    OBVIOUS
  <2>1. ASSUME NEW s \in Sale, pending[s] # NotParked
        PROVE  pending[s].request.asked[AgeKey] \in Nat
    <3>1. PICK z \in Sale, p \in Staff, t \in 0..MaxTime : pending[s].request = VoidFacts(z, p, t)
      BY <2>1 DEF TillInv, Types, Parked
    <3>2. pending[s].request.asked[AgeKey] = AgeMinutes(RungAt[z], t)
      BY <3>1 DEF VoidFacts
    <3>3. RungAt[z] \in Nat
      OBVIOUS
    <3>4. \A n \in Nat, m \in Nat \ {0} : n \div m \in Nat
      OBVIOUS
    <3> QED BY <3>2, <3>3, <3>4 DEF AgeMinutes
  <2> QED BY <2>1 DEF TillTypeOK, TillInv, Types, SnapshotShows, Acts
<1>2. TillInv => MarkedForACause
  BY DEF TillInv, Answered, Cause, MarkedForACause
<1>3. TillInv => NobodySettlesTheirOwn
  BY DEF TillInv
<1> QED BY <1>1, <1>2, <1>3, TillInvariance, PTL DEF RecordedAsDecided

(* What the server has taken from somebody, a till lets them go on doing   *)
(* for less than a snapshot's life (snapshot.rs check_binding).            *)
THEOREM StaleEnds == TillSpec => StaleForLessThanLife
<1> DEFINE Recent ==
      \A s \in Sale :
        act'[s] # act[s] /\ act'[s].stage = "queued" =>
          \/ \E p \in Hands(s)' : now - since[p] < Life
          \/ \E t \in 0..now :
               /\ now - t < Life
               /\ LetsThrough([p \in Staff |-> EffOf(p, SoldIn[s], t)],
                              act'[s].by, act'[s].approver, VoidFacts(s, act'[s].by, now))
<1>1. TillInv /\ [TillNext]_tillVars => [Recent]_tillVars
  <2> SUFFICES ASSUME TillInv, TillNext, NEW s \in Sale, act'[s] # act[s], act'[s].stage = "queued",
                      \A p \in Hands(s)' : ~(now - since[p] < Life)
               PROVE  \E t \in 0..now :
                        /\ now - t < Life
                        /\ LetsThrough([p \in Staff |-> EffOf(p, SoldIn[s], t)],
                                       act'[s].by, act'[s].approver, VoidFacts(s, act'[s].by, now))
    OBVIOUS
  <2>1. PICK p \in Staff, a \in Staff \union {Nobody} : VoidAtTill(s, p, a)
    <3>1. ASSUME NEW z \in Sale, NEW p \in Staff, Settle(z, p) PROVE FALSE
      BY <3>1 DEF Settle, TillInv, Types
    <3>2. ASSUME NEW z \in Sale, Land(z) PROVE FALSE
      <4>1. z = s /\ act[s] \in Acts
        BY <3>2 DEF Land, TillInv, Types
      <4> QED BY <3>2, <4>1 DEF Land, TillInv, Types, Acts
    <3>3. ASSUME NEW z \in Sale, NEW p \in Staff, NEW a \in Staff \union {Nobody}, VoidAtTill(z, p, a)
          PROVE  z = s
      BY <3>3 DEF VoidAtTill, TillInv, Types
    <3> QED BY <3>1, <3>2, <3>3 DEF TillNext, Tick, Fetch, Move, Change, Park
  <2>2. act'[s].by = p /\ act'[s].approver = a /\ Hands(s)' = {p, a} \ {Nobody}
    BY <2>1 DEF VoidAtTill, TillInv, Types, Hands
  <2>3. snap.issued \in 0..now /\ now \in Nat /\ now - snap.issued < Life
    BY <2>1 DEF VoidAtTill, CheckBinding, TillInv, Types, SnapshotShows
  <2>4. \A q \in {p, a} \ {Nobody} : since[q] < snap.issued
    BY <2>2, <2>3 DEF TillInv, Types
  <2>5. LetsThrough([q \in Staff |-> EffOf(q, SoldIn[s], snap.issued)], p, a, VoidFacts(s, p, now))
    BY <2>1, <2>4, ShownIsThen DEF VoidAtTill
  <2> QED BY <2>2, <2>3, <2>5
<1> QED BY <1>1, TillInvariance, PTL DEF TillSpec, StaleForLessThanLife

-----------------------------------------------------------------------------
(* Changing it.                                                            *)
HIDE TillAssumption
USE AdminAssumption, MarksAssumption

(* Whether an owner or not (own) with roles rs granting gr and overrides   *)
(* ov holds c.                                                             *)
Source(own, rs, gr, c) ==
    \/ \E r \in rs : c \in gr[r] \union CoreOf[KindOf[r]]
    \/ own /\ c \in OwnerSet

Spared(own, rs, c) ==
    \/ own /\ c \in Protected
    \/ \E r \in rs : c \in CoreOf[KindOf[r]]
    \/ own /\ c \in CoreOf["org_admin"]

HasBy(own, rs, gr, ov, c) ==
    \/ ov[c] # NoOverride /\ ov[c].allow
    \/ /\ Source(own, rs, gr, c)
       /\ ov[c] = NoOverride \/ ov[c].allow \/ Spared(own, rs, c)

Has(p, c) == HasBy(p \in Owner, assigned[p], grants, override[p], c)

(* The principal PrincipalWith builds.                                     *)
Built(own, rs, gr, ov) ==
    [active |-> TRUE, owner |-> own,
     assignments |-> { [role |-> [kind |-> KindOf[r], grants |-> gr[r], limits |-> LimitsIn[r]],
                        branches |-> {Everywhere}, from |-> NoLimit, to |-> NoLimit] : r \in rs },
     overrides |-> { ov[c] : c \in Cap } \ {NoOverride}]

Stored1(ov) == \A c \in Cap : ov[c] \in OverridesOf(c) \union {NoOverride}

(* At most one override of c is heard, and nothing beats it.               *)
LEMMA StrongestIs ==
    ASSUME NEW own \in BOOLEAN, NEW rs, NEW gr, NEW ov, Stored1(ov), NEW c \in Cap
    PROVE  Strongest(Built(own, rs, gr, ov), c, Everywhere, 0) = {ov[c]} \ {NoOverride}
<1>1. \A d \in Cap : ov[d] # NoOverride =>
        /\ ov[d].cap = d /\ ov[d].to = NoLimit /\ ov[d].branch = Everywhere
        /\ ov[d].allow \in BOOLEAN
  BY DEF Stored1, OverridesOf, OverrideOf
<1>2. Heard(Built(own, rs, gr, ov), c, Everywhere, 0) = {ov[c]} \ {NoOverride}
  BY <1>1 DEF Heard, Built
<1>3. \A x : ~Beats(x, x, Everywhere)
  BY DEF Beats, Specific
<1> QED
  BY <1>2, <1>3 DEF Strongest

(* What a built principal holds.                                           *)
LEMMA CapsAre ==
    ASSUME NEW own \in BOOLEAN, NEW rs \in SUBSET Role, NEW gr \in [Role -> SUBSET Cap],
           NEW ov, Stored1(ov)
    PROVE  Caps(Built(own, rs, gr, ov), Everywhere, 0) = { c \in Cap : HasBy(own, rs, gr, ov, c) }
<1> DEFINE pr == Built(own, rs, gr, ov)
<1>1. Covering(pr, Everywhere, 0) = pr.assignments
  BY DEF Covering, LiveAt, Built
<1>2. pr.active /\ pr.owner = own
  BY DEF Built
<1> DEFINE def(r) == [kind |-> KindOf[r], grants |-> gr[r], limits |-> LimitsIn[r]]
           asg(r) == [role |-> def(r), branches |-> {Everywhere}, from |-> NoLimit, to |-> NoLimit]
<1>a. pr.assignments = { asg(r) : r \in rs }
  BY DEF Built
<1>b. \A r : asg(r).role.kind = KindOf[r] /\ asg(r).role.grants = gr[r]
  OBVIOUS
<1> HIDE DEF pr, def, asg
<1>3. ASSUME NEW c \in Cap
      PROVE  c \in FromRoles(pr, Everywhere, 0) <=> Source(own, rs, gr, c)
  <2>1. \A r : Granted(asg(r).role) = gr[r] \union CoreOf[KindOf[r]]
    BY <1>b DEF Granted
  <2>2. (\E a \in pr.assignments : c \in Granted(a.role))
          <=> \E r \in rs : c \in Granted(asg(r).role)
    BY <1>a
  <2> DEFINE given == UNION { Granted(a.role) : a \in Covering(pr, Everywhere, 0) }
  <2>3. c \in given <=> \E a \in pr.assignments : c \in Granted(a.role)
    BY <1>1
  <2>4. FromRoles(pr, Everywhere, 0) = given \union (IF pr.owner THEN OwnerSet ELSE {})
    BY DEF FromRoles
  <2> HIDE DEF given
  <2>5. c \in FromRoles(pr, Everywhere, 0) <=> c \in given \/ (own /\ c \in OwnerSet)
    <3>1. CASE own
      BY <3>1, <2>4, <1>2
    <3>2. CASE ~own
      BY <3>2, <2>4, <1>2
    <3> QED BY <3>1, <3>2
  <2> QED BY <2>1, <2>2, <2>3, <2>5 DEF Source
<1>4. ASSUME NEW c \in Cap
      PROVE  Undeniable(pr, c, Everywhere, 0) <=> Spared(own, rs, c)
  <2>1. { a.role.kind : a \in pr.assignments } = { KindOf[r] : r \in rs }
    BY <1>a, <1>b
  <2>2. KindsOf(pr, Everywhere, 0)
          = { KindOf[r] : r \in rs } \union (IF own THEN {"org_admin"} ELSE {})
    BY <2>1, <1>1, <1>2 DEF KindsOf
  <2>3. IsCoreFor(c, KindsOf(pr, Everywhere, 0)) <=>
          \/ \E r \in rs : c \in CoreOf[KindOf[r]]
          \/ own /\ c \in CoreOf["org_admin"]
    BY <2>2 DEF IsCoreFor
  <2> QED BY <2>3, <1>2 DEF Undeniable, Spared
<1>5. ASSUME NEW c \in Cap
      PROVE  /\ Allowed(pr, c, Everywhere, 0) <=> ov[c] # NoOverride /\ ov[c].allow
             /\ Denied(pr, c, Everywhere, 0) <=> ov[c] # NoOverride /\ ~ov[c].allow
  BY StrongestIs DEF Allowed, Denied, pr
<1>6. ASSUME NEW c \in Cap
      PROVE  c \in Caps(pr, Everywhere, 0) <=> HasBy(own, rs, gr, ov, c)
  BY <1>2, <1>3, <1>4, <1>5 DEF Caps, HasBy
<1>7. Caps(pr, Everywhere, 0) \subseteq Cap
  BY DEF Caps
<1> QED BY <1>6, <1>7 DEF pr

-----------------------------------------------------------------------------
(* What a person is resolved to hold, now and after a step.                *)
LEMMA Resolves ==
    ASSUME TypeOK, NEW p \in Person
    PROVE  Eff(p).caps = { c \in Cap : Has(p, c) }
<1> DEFINE own == p \in Owner
           built == Built(own, assigned[p], grants, override[p])
<1>1. own \in BOOLEAN
  OBVIOUS
<1>2. Stored1(override[p]) /\ assigned[p] \in SUBSET Role /\ grants \in [Role -> SUBSET Cap]
  BY DEF TypeOK, Stored1
<1>3. Eff(p).caps = Caps(built, Everywhere, 0)
  BY DEF Eff, Resolve, Principal, PrincipalWith, RoleDef, Built
<1>4. (\A c : Has(p, c) <=> HasBy(own, assigned[p], grants, override[p], c))
  BY DEF Has
<1> HIDE DEF own
<1>5. Caps(built, Everywhere, 0) = { c \in Cap : HasBy(own, assigned[p], grants, override[p], c) }
  BY <1>1, <1>2, CapsAre
<1> QED BY <1>3, <1>4, <1>5

(* The same of the state after a step.                                     *)
LEMMA ResolvesNext ==
    ASSUME TypeOK', NEW p \in Person
    PROVE  Eff(p)'.caps = { c \in Cap : Has(p, c)' }
<1> DEFINE own == p \in Owner
           built == Built(own, assigned'[p], grants', override'[p])
<1>1. own \in BOOLEAN
  OBVIOUS
<1>2. Stored1(override'[p]) /\ assigned'[p] \in SUBSET Role /\ grants' \in [Role -> SUBSET Cap]
  BY DEF TypeOK, Stored1
<1>3. Eff(p)'.caps = Caps(built, Everywhere, 0)
  BY DEF Eff, Resolve, Principal, PrincipalWith, RoleDef, Built
<1>4. (\A c : Has(p, c)' <=> HasBy(own, assigned'[p], grants', override'[p], c))
  BY DEF Has
<1> HIDE DEF own
<1>5. Caps(built, Everywhere, 0) = { c \in Cap : HasBy(own, assigned'[p], grants', override'[p], c) }
  BY <1>1, <1>2, CapsAre
<1> QED BY <1>3, <1>4, <1>5

(* The resolved sets hold what the store says.                             *)
Resolved == \A p \in Person : eff[p].caps = { c \in Cap : Has(p, c) }

IInv == TypeOK /\ Resolved /\ FullOwnerRemains

(* The four writes.                                                        *)
LEMMA Writes ==
    ASSUME Next
    PROVE  \E a \in Person :
             \/ \E t \in Person, c \in Cap, allow \in BOOLEAN, limits \in AskedLimits \union {NoLimits} :
                  SetOverride(a, t, c, allow, limits)
             \/ \E t \in Person, r \in Role : Assign(a, t, r) \/ Unassign(a, t, r)
             \/ \E r \in Role, after \in SUBSET Cap : EditRole(a, r, after)
BY DEF Next

(* A write keeps the types.                                                *)
LEMMA TypeStep == TypeOK /\ Next => TypeOK'
<1> SUFFICES ASSUME TypeOK, Next PROVE TypeOK'
  OBVIOUS
<1>0. PICK a \in Person :
         \/ \E t \in Person, c \in Cap, allow \in BOOLEAN, limits \in AskedLimits \union {NoLimits} :
              SetOverride(a, t, c, allow, limits)
         \/ \E t \in Person, r \in Role : Assign(a, t, r) \/ Unassign(a, t, r)
         \/ \E r \in Role, after \in SUBSET Cap : EditRole(a, r, after)
  BY Writes
<1>1. ASSUME NEW t \in Person, NEW c \in Cap, NEW allow \in BOOLEAN,
             NEW limits \in AskedLimits \union {NoLimits}, SetOverride(a, t, c, allow, limits)
      PROVE  TypeOK'
  <2>1. OverrideOf(c, allow, limits) \in OverridesOf(c)
    BY DEF OverridesOf
  <2> HIDE DEF OverridesOf, OverrideOf
  <2> QED BY <1>1, <2>1 DEF TypeOK, SetOverride, Written
<1>2. ASSUME NEW t \in Person, NEW r \in Role, Assign(a, t, r) \/ Unassign(a, t, r)
      PROVE  TypeOK'
  <2>1. /\ assigned' = [assigned EXCEPT ![t] = @ \union {r}]
           \/ assigned' = [assigned EXCEPT ![t] = @ \ {r}]
        /\ grants' = grants /\ override' = override /\ by' = a /\ writes' = writes + 1
    BY <1>2 DEF Assign, Unassign, Written
  <2>2. assigned \in [Person -> SUBSET Role]
    BY DEF TypeOK
  <2>3. assigned[t] \union {r} \in SUBSET Role /\ assigned[t] \ {r} \in SUBSET Role
    BY <2>2
  <2>4. PICK held \in SUBSET Role : assigned' = [assigned EXCEPT ![t] = held]
    BY <2>1, <2>3
  <2>5. assigned' \in [Person -> SUBSET Role]
    BY <2>2, <2>4
  <2> QED BY <2>1, <2>5 DEF TypeOK
<1>3. ASSUME NEW r \in Role, NEW after \in SUBSET Cap, EditRole(a, r, after)
      PROVE  TypeOK'
  BY <1>3 DEF TypeOK, EditRole, Written
<1> QED BY <1>0, <1>1, <1>2, <1>3

(* Whoever a write is about, the sets resolved anew are right, and the     *)
(* others' still are.                                                      *)
LEMMA ResolvedStep == IInv /\ Next => Resolved'
<1> SUFFICES ASSUME IInv, Next, NEW p \in Person
             PROVE  eff'[p].caps = { c \in Cap : Has(p, c)' }
  BY DEF Resolved
<1>0. TypeOK'
  BY TypeStep DEF IInv
<1>1. Eff(p)'.caps = { c \in Cap : Has(p, c)' }
  BY <1>0, ResolvesNext
<1>2. eff[p].caps = { c \in Cap : Has(p, c) }
  BY DEF IInv, Resolved
<1>3. PICK a \in Person :
         \/ \E t \in Person, c \in Cap, allow \in BOOLEAN, limits \in AskedLimits \union {NoLimits} :
              SetOverride(a, t, c, allow, limits)
         \/ \E t \in Person, r \in Role : Assign(a, t, r) \/ Unassign(a, t, r)
         \/ \E r \in Role, after \in SUBSET Cap : EditRole(a, r, after)
  BY Writes
<1>4. ASSUME NEW people, Written(a, people),
             p \notin people => \A c \in Cap : Has(p, c)' <=> Has(p, c)
      PROVE  eff'[p].caps = { c \in Cap : Has(p, c)' }
  <2>1. CASE p \in people
    BY <1>4, <1>1, <2>1 DEF Written
  <2>2. CASE p \notin people
    BY <1>4, <1>2, <2>2 DEF Written
  <2> QED BY <2>1, <2>2
<1>5. ASSUME NEW t \in Person, NEW c \in Cap, NEW allow \in BOOLEAN,
             NEW limits \in AskedLimits \union {NoLimits}, SetOverride(a, t, c, allow, limits)
      PROVE  eff'[p].caps = { d \in Cap : Has(p, d)' }
  <2>1. p # t => override'[p] = override[p]
    BY <1>5 DEF SetOverride, IInv, TypeOK
  <2> QED BY <2>1, <1>4, <1>5 DEF SetOverride, Has
<1>6. ASSUME NEW t \in Person, NEW r \in Role, Assign(a, t, r) \/ Unassign(a, t, r)
      PROVE  eff'[p].caps = { d \in Cap : Has(p, d)' }
  <2>1. p # t => assigned'[p] = assigned[p]
    BY <1>6 DEF Assign, Unassign, IInv, TypeOK
  <2> QED BY <2>1, <1>4, <1>6 DEF Assign, Unassign, Has
<1>7. ASSUME NEW r \in Role, NEW after \in SUBSET Cap, EditRole(a, r, after)
      PROVE  eff'[p].caps = { d \in Cap : Has(p, d)' }
  <2>1. r \notin assigned[p] => \A q \in assigned[p] : grants'[q] = grants[q]
    BY <1>7 DEF EditRole, IInv, TypeOK
  <2>2. r \notin assigned[p] => \A d \in Cap : Has(p, d)' <=> Has(p, d)
    BY <2>1, <1>7 DEF EditRole, Has, HasBy, Source, Spared
  <2> QED BY <2>2, <1>4, <1>7 DEF EditRole
<1> QED BY <1>3, <1>5, <1>6, <1>7

-----------------------------------------------------------------------------
(* Adding roles or grants takes nothing an owner holds as owner; a write   *)
(* that can is about someone within the writer, who then holds everything  *)
(* and is not written about.                                               *)
LEMMA FullStep == IInv /\ Next => FullOwnerRemains'
<1> SUFFICES ASSUME IInv, Next, Owner # {}
             PROVE  \E p \in Owner : OwnerSet \subseteq eff'[p].caps
  BY DEF FullOwnerRemains, Holds
<1>0. PICK o \in Owner : OwnerSet \subseteq eff[o].caps
  BY DEF IInv, FullOwnerRemains, Holds
<1>1. Resolved'
  BY ResolvedStep
<1>2. PICK a \in Person :
         \/ \E t \in Person, c \in Cap, allow \in BOOLEAN, limits \in AskedLimits \union {NoLimits} :
              SetOverride(a, t, c, allow, limits)
         \/ \E t \in Person, r \in Role : Assign(a, t, r) \/ Unassign(a, t, r)
         \/ \E r \in Role, after \in SUBSET Cap : EditRole(a, r, after)
  BY Writes
<1>3. ASSUME NEW t \in Person, MayTouch(a, t), Written(a, {t})
      PROVE  \E p \in Owner : OwnerSet \subseteq eff'[p].caps
  <2>1. CASE o # t
    <3>1. eff'[o] = eff[o]
      BY <1>3, <2>1 DEF Written
    <3> QED BY <3>1, <1>0
  <2>2. CASE o = t
    <3>1. a \in Owner /\ a # t /\ OwnerSet \subseteq eff[a].caps
      BY <1>3, <1>0, <2>2 DEF MayTouch, Holds
    <3>2. eff'[a] = eff[a]
      BY <1>3, <3>1 DEF Written
    <3> QED BY <3>1, <3>2
  <2> QED BY <2>1, <2>2
<1>4. ASSUME NEW t \in Person, NEW c \in Cap, NEW allow \in BOOLEAN,
             NEW limits \in AskedLimits \union {NoLimits}, SetOverride(a, t, c, allow, limits)
      PROVE  \E p \in Owner : OwnerSet \subseteq eff'[p].caps
  BY <1>3, <1>4 DEF SetOverride, MaySetOverride
<1>5. ASSUME NEW t \in Person, NEW r \in Role, Assign(a, t, r) \/ Unassign(a, t, r)
      PROVE  \E p \in Owner : OwnerSet \subseteq eff'[p].caps
  BY <1>3, <1>5 DEF Assign, Unassign, MayAssign
<1>6. ASSUME NEW r \in Role, NEW after \in SUBSET Cap, EditRole(a, r, after)
      PROVE  \E p \in Owner : OwnerSet \subseteq eff'[p].caps
  <2>1. ASSUME NEW c \in OwnerSet
        PROVE  c \in eff'[o].caps
    <3>1. Has(o, c)
      BY <1>0 DEF IInv, Resolved
    <3>2. Has(o, c)'
      BY <3>1, <1>6 DEF EditRole, Has, HasBy, Source, Spared
    <3> QED BY <3>2, <1>1 DEF Resolved, OwnerSet
  <2> QED BY <2>1
<1> QED BY <1>2, <1>4, <1>5, <1>6

(* The invariant at the start, over a step, and so always.                 *)
LEMMA InitIInv == Init => IInv
<1> SUFFICES ASSUME Init PROVE IInv
  OBVIOUS
<1>1. TypeOK
  BY DEF Init, TypeOK
<1>2. \A p \in Person : eff[p] = Eff(p)
  BY DEF Init
<1>3. Resolved
  BY <1>1, <1>2, Resolves DEF Resolved
<1>4. FullOwnerRemains
  <2>1. ASSUME NEW p \in Owner, NEW c \in OwnerSet
        PROVE  c \in eff[p].caps
    <3>1. override[p][c] = NoOverride
      BY DEF Init, OwnerSet
    <3>2. Has(p, c)
      BY <3>1 DEF Has, HasBy, Source
    <3> QED BY <3>2, <1>3 DEF Resolved, OwnerSet
  <2> QED BY <2>1 DEF FullOwnerRemains, Holds
<1> QED BY <1>1, <1>3, <1>4 DEF IInv

(* A write keeps the invariant; a stutter changes nothing.                 *)
LEMMA StepIInv == IInv /\ [Next]_vars => IInv'
<1> SUFFICES ASSUME IInv, [Next]_vars PROVE IInv'
  OBVIOUS
<1>1. CASE Next
  BY <1>1, TypeStep, ResolvedStep, FullStep DEF IInv
<1>2. CASE UNCHANGED vars
  BY <1>2 DEF vars, IInv, TypeOK, Resolved, FullOwnerRemains, Holds, Has
<1> QED BY <1>1, <1>2

(* So it always holds.                                                     *)
LEMMA Invariance == Spec => []IInv
BY InitIInv, StepIInv, PTL DEF Spec

(* Everything stored keeps its type.                                       *)
THEOREM TypeCorrect == Spec => []TypeOK
<1>1. IInv => TypeOK
  BY DEF IInv
<1> QED BY <1>1, Invariance, PTL

(* However owners and managers narrow one another, some owner holds        *)
(* everything an owner can hold (guard.rs may_touch).                      *)
THEOREM OwnersNeverLockedOut == Spec => []FullOwnerRemains
<1>1. IInv => FullOwnerRemains
  BY DEF IInv
<1> QED BY <1>1, Invariance, PTL

(* What an override, an assignment or a role edit newly gives, its writer  *)
(* holds.                                                                  *)
LEMMA GivesOnlyTheHeld ==
    ASSUME IInv, Next, NEW p \in Person, NEW c \in Cap, Has(p, c)', ~Has(p, c)
    PROVE  c \in eff[by'].caps
<1>1. PICK a \in Person :
         \/ \E t \in Person, d \in Cap, allow \in BOOLEAN, limits \in AskedLimits \union {NoLimits} :
              SetOverride(a, t, d, allow, limits)
         \/ \E t \in Person, r \in Role : Assign(a, t, r) \/ Unassign(a, t, r)
         \/ \E r \in Role, after \in SUBSET Cap : EditRole(a, r, after)
  BY Writes
<1> USE DEF IInv, TypeOK, Has, HasBy, Source, Spared
<1>2. ASSUME NEW t \in Person, NEW d \in Cap, NEW allow \in BOOLEAN,
             NEW limits \in AskedLimits \union {NoLimits}, SetOverride(a, t, d, allow, limits)
      PROVE  c \in eff[by'].caps
  <2>1. \/ override'[p][c] = override[p][c]
        \/ d = c /\ override'[p][c] = OverrideOf(c, allow, limits)
    BY <1>2 DEF SetOverride
  <2>2. CASE override'[p][c] = override[p][c]
    BY <1>2, <2>2 DEF SetOverride
  <2>3. CASE d = c
    BY <1>2, <2>3 DEF SetOverride, MaySetOverride, Written, Holds
  <2> QED BY <2>1, <2>2, <2>3
<1>3. ASSUME NEW t \in Person, NEW r \in Role, Unassign(a, t, r)
      PROVE  c \in eff[by'].caps
  <2>1. assigned'[p] \subseteq assigned[p]
    BY <1>3 DEF Unassign
  <2> QED BY <1>3, <2>1 DEF Unassign
<1>4. ASSUME NEW t \in Person, NEW r \in Role, Assign(a, t, r)
      PROVE  c \in eff[by'].caps
  <2>1. assigned'[p] \subseteq assigned[p] \union {r}
    BY <1>4 DEF Assign
  <2>2. c \in Granted(RoleDef(r))
    BY <1>4, <2>1 DEF Assign, Granted, RoleDef
  <2> QED BY <2>2, <1>4 DEF Assign, MayAssign, Written, Holds
<1>5. ASSUME NEW r \in Role, NEW after \in SUBSET Cap, EditRole(a, r, after)
      PROVE  c \in eff[by'].caps
  <2>1. c \in after \ grants[r]
    BY <1>5 DEF EditRole
  <2> QED BY <2>1, <1>5 DEF EditRole, MayEditRole, Written, Holds
<1> QED BY <1>1, <1>2, <1>3, <1>4, <1>5

(* No write gives anybody a capability its writer does not hold (guard.rs  *)
(* G1, G2, G3).                                                            *)
THEOREM NothingFromNowhere == Spec => NoNewCapability
<1> DEFINE Kept == \A p \in Person : Holds(p)' \ Holds(p) \subseteq eff[by'].caps
<1>1. IInv /\ IInv' /\ [Next]_vars => [Kept]_vars
  <2> SUFFICES ASSUME IInv, IInv', Next, NEW p \in Person, NEW c \in Holds(p)' \ Holds(p)
               PROVE  c \in eff[by'].caps
    OBVIOUS
  <2>1. c \in Cap /\ Has(p, c)' /\ ~Has(p, c)
    BY DEF IInv, Resolved, Holds
  <2> QED BY <2>1, GivesOnlyTheHeld
<1> QED BY <1>1, Invariance, PTL DEF Spec, NoNewCapability
-----------------------------------------------------------------------------
(* Whoever is active keeps the core of every kind they hold: a role of the *)
(* kind grants it, an owner has the owner's, and no deny takes it.         *)
LEMMA CoreKept ==
    ASSUME NEW pr, pr.active, NEW k \in KindsOf(pr, Everywhere, 0), k \in Kinds
    PROVE  CoreOf[k] \subseteq Caps(pr, Everywhere, 0)
<1> SUFFICES ASSUME NEW c \in CoreOf[k] PROVE c \in Caps(pr, Everywhere, 0)
  OBVIOUS
<1>1. c \in OwnerSet
  BY DEF OwnerSet
<1>2. Undeniable(pr, c, Everywhere, 0)
  BY DEF Undeniable, IsCoreFor
<1>3. c \in FromRoles(pr, Everywhere, 0)
  <2>1. CASE \E a \in Covering(pr, Everywhere, 0) : a.role.kind = k
    <3>1. PICK a \in Covering(pr, Everywhere, 0) : c \in Granted(a.role)
      BY <2>1 DEF Granted
    <3> QED BY <3>1 DEF FromRoles
  <2>2. CASE pr.owner
    BY <2>2, <1>1 DEF FromRoles
  <2>3. k \notin { a.role.kind : a \in Covering(pr, Everywhere, 0) } => pr.owner
    BY DEF KindsOf
  <2> QED BY <2>1, <2>2, <2>3
<1> QED BY <1>1, <1>2, <1>3 DEF Caps, OwnerSet

(* The core a person keeps, by the set resolved for them now.              *)
CoreHeld(e) == \A k \in e.kinds : CoreOf[k] \subseteq e.caps

(* A set resolved for a principal built from the store keeps its core.     *)
LEMMA CoreResolved ==
    ASSUME NEW p \in Person, NEW roles \in SUBSET Role, NEW gr, NEW ov
    PROVE  CoreHeld(Resolve(Built(p \in Owner, roles, gr, ov), Everywhere, 0, {}))
<1> DEFINE pr == Built(p \in Owner, roles, gr, ov)
<1>1. pr.active
  BY DEF Built
<1>2. \A a \in pr.assignments : a.role.kind \in Kinds
  BY DEF Built
<1> HIDE DEF pr
<1>3. KindsOf(pr, Everywhere, 0) \subseteq Kinds
  BY <1>2 DEF KindsOf, Covering, Kinds
<1>4. \A k \in KindsOf(pr, Everywhere, 0) : CoreOf[k] \subseteq Caps(pr, Everywhere, 0)
  BY <1>1, <1>3, CoreKept
<1> QED BY <1>1, <1>4 DEF CoreHeld, Resolve, pr

(* A write resolves a set anew or leaves it, and each set resolved keeps   *)
(* its core (lib.rs resolve).                                              *)
THEOREM CoreStaysOn == Spec => []CoreAlwaysOn
<1>1. CoreAlwaysOn <=> \A p \in Person : CoreHeld(eff[p])
  BY DEF CoreAlwaysOn, CoreHeld, HeldKinds, Holds
<1>2. TypeOK => \A p \in Person : CoreHeld(Eff(p))
  <2> SUFFICES ASSUME TypeOK, NEW p \in Person PROVE CoreHeld(Eff(p))
    OBVIOUS
  <2>1. assigned[p] \in SUBSET Role
    BY DEF TypeOK
  <2>2. Eff(p) = Resolve(Built(p \in Owner, assigned[p], grants, override[p]), Everywhere, 0, {})
    BY DEF Eff, Principal, PrincipalWith, RoleDef, Built
  <2> QED BY <2>1, <2>2, CoreResolved
<1>3. Init /\ TypeOK => CoreAlwaysOn
  BY <1>1, <1>2 DEF Init
<1>4. TypeOK' => \A p \in Person : CoreHeld(Eff(p)')
  <2> SUFFICES ASSUME TypeOK', NEW p \in Person PROVE CoreHeld(Eff(p)')
    OBVIOUS
  <2>1. assigned'[p] \in SUBSET Role
    BY DEF TypeOK
  <2>2. Eff(p)' = Resolve(Built(p \in Owner, assigned'[p], grants', override'[p]), Everywhere, 0, {})
    BY DEF Eff, Principal, PrincipalWith, RoleDef, Built
  <2> QED BY <2>1, <2>2, CoreResolved
<1>5. TypeOK' /\ CoreAlwaysOn /\ [Next]_vars => CoreAlwaysOn'
  <2> SUFFICES ASSUME TypeOK', CoreAlwaysOn, [Next]_vars, NEW p \in Person
               PROVE  CoreHeld(eff'[p])
    BY DEF CoreAlwaysOn, CoreHeld, HeldKinds, Holds
  <2>1. eff'[p] \in {eff[p], Eff(p)'}
    BY Writes DEF vars, SetOverride, Assign, Unassign, EditRole, Written
  <2> QED BY <2>1, <1>1, <1>4
<1> QED BY <1>3, <1>5, TypeCorrect, PTL DEF Spec
-----------------------------------------------------------------------------
(* What somebody is limited to.  A figure is a number or absent; by Under  *)
(* any two compare, and of finitely many one is over the others.           *)
Figure == Int \union {NoLimit}

(* Figures compare, the absent one above all.                              *)
LEMMA UnderOrders ==
    ASSUME NEW a \in Figure, NEW b \in Figure, NEW d \in Figure
    PROVE  /\ Under(a, b) \/ Under(b, a)
           /\ Under(a, b) /\ Under(b, d) => Under(a, d)
           /\ Under(a, a)
BY DEF Figure, Under

(* Of finitely many figures one is over the others, by the least set       *)
(* without one.                                                            *)
LEMMA GreatestFigure ==
    ASSUME NEW S, IsFiniteSet(S), S # {}, NEW f \in [S -> Figure]
    PROVE  \E l \in S : \A x \in S : Under(f[x], f[l])
<1> DEFINE Topped(T) == \E l \in T : \A x \in T : Under(f[x], f[l])
           F == { T \in SUBSET S : T # {} /\ ~Topped(T) }
<1> SUFFICES ASSUME F # {} PROVE FALSE
  OBVIOUS
<1>1. PICK T \in F : \A U \in F : U \subseteq T => U = T
  <2>1. F \in SUBSET (SUBSET S)
    OBVIOUS
  <2> HIDE DEF F
  <2> QED BY <2>1, SmallestSubset
<1>2. PICK x \in T : TRUE
  BY <1>1
<1> DEFINE U == T \ {x}
<1>3. U \notin F
  BY <1>1, <1>2
<1>4. CASE U = {}
  <2>1. T = {x} /\ Under(f[x], f[x])
    BY <1>1, <1>2, <1>4, UnderOrders
  <2> QED BY <1>1, <2>1
<1>5. CASE U # {}
  <2>1. PICK l \in U : \A y \in U : Under(f[y], f[l])
    BY <1>1, <1>3, <1>5
  <2>2. f[x] \in Figure /\ f[l] \in Figure /\ \A y \in T : f[y] \in Figure
    BY <1>1, <1>2, <2>1
  <2>3. CASE Under(f[x], f[l])
    BY <1>1, <1>2, <2>1, <2>3
  <2>4. CASE Under(f[l], f[x])
    <3>1. \A y \in U : Under(f[y], f[x])
      BY <1>1, <2>1, <2>2, <2>4, UnderOrders
    <3>2. Under(f[x], f[x])
      BY <2>2, UnderOrders
    <3> QED BY <1>1, <1>2, <3>1, <3>2
  <2> QED BY <2>2, <2>3, <2>4, UnderOrders
<1> QED BY <1>4, <1>5

(* Of more roles the most generous value is no lower (lib.rs               *)
(* most_generous), and own only if it was.                                 *)
LEMMA Generosity ==
    ASSUME NEW ls \in SUBSET Limits, IsFiniteSet(ls), ls # {}, NEW k \in LimitKey
    PROVE  /\ MostGenerous(ls).max[k] \in Figure
           /\ \A x \in ls : Under(x.max[k], MostGenerous(ls).max[k])
           /\ \E x \in ls : MostGenerous(ls).max[k] = x.max[k]
<1> DEFINE f == [l \in ls |-> l.max[k]]
           best == CHOOSE l \in ls : \A x \in ls : Under(x.max[k], l.max[k])
<1>1. f \in [ls -> Figure]
  BY DEF Limits, Figure
<1>2. \E l \in ls : \A x \in ls : Under(f[x], f[l])
  <2> HIDE DEF f
  <2> QED BY <1>1, GreatestFigure
<1>3. best \in ls /\ \A x \in ls : Under(x.max[k], best.max[k])
  BY <1>2
<1>4. MostGenerous(ls).max[k] = best.max[k]
  BY DEF MostGenerous
<1> HIDE DEF best
<1> QED BY <1>3, <1>4 DEF Limits, Figure

(* More roles are merged to no less.                                       *)
LEMMA MoreGenerous ==
    ASSUME NEW ls \in SUBSET Limits, NEW more \in SUBSET Limits, IsFiniteSet(more),
           ls # {}, ls \subseteq more
    PROVE  /\ \A k \in LimitKey : Under(MostGenerous(ls).max[k], MostGenerous(more).max[k])
           /\ MostGenerous(more).own => MostGenerous(ls).own
<1>1. IsFiniteSet(ls) /\ more # {}
  BY FS_Subset
<1>2. ASSUME NEW k \in LimitKey
      PROVE  Under(MostGenerous(ls).max[k], MostGenerous(more).max[k])
  <2>1. PICK x \in ls : MostGenerous(ls).max[k] = x.max[k]
    BY <1>1, Generosity
  <2>2. Under(x.max[k], MostGenerous(more).max[k])
    BY <1>1, Generosity
  <2> QED BY <2>1, <2>2
<1>3. MostGenerous(more).own => MostGenerous(ls).own
  BY DEF MostGenerous
<1> QED BY <1>2, <1>3

(* What the roles rs granting c, and then an override, limit c to.         *)
Granting(rs, gr, c) == { r \in rs : c \in gr[r] \union CoreOf[KindOf[r]] }

RolesLimit(own, rs, gr, c) ==
    LET ls == { LimitsIn[r][c] : r \in Granting(rs, gr, c) }
    IN  IF own \/ ls = {} \/ UNLIMITED \in ls THEN UNLIMITED
        ELSE RestrictedTo(MostGenerous(ls), KeysOf[c])

Says(ov, c) == ov[c] # NoOverride /\ ov[c].allow /\ ov[c].limits # NoLimits

LimitedBy(own, rs, gr, ov, c) ==
    IF Says(ov, c) THEN RestrictedTo(ov[c].limits, KeysOf[c]) ELSE RolesLimit(own, rs, gr, c)

(* The limits a built principal is resolved to.                            *)
LEMMA LimitsAre ==
    ASSUME NEW own \in BOOLEAN, NEW rs \in SUBSET Role, NEW gr \in [Role -> SUBSET Cap],
           NEW ov, Stored1(ov), NEW c \in Cap
    PROVE  LimitsOf(Built(own, rs, gr, ov), c, Everywhere, 0) = LimitedBy(own, rs, gr, ov, c)
<1> DEFINE pr == Built(own, rs, gr, ov)
           asg(r) == [role |-> [kind |-> KindOf[r], grants |-> gr[r], limits |-> LimitsIn[r]],
                      branches |-> {Everywhere}, from |-> NoLimit, to |-> NoLimit]
<1>1. pr.owner = own /\ pr.assignments = { asg(r) : r \in rs }
  BY DEF Built
<1>2. \A r : /\ asg(r).role.kind = KindOf[r] /\ asg(r).role.grants = gr[r]
             /\ asg(r).role.limits = LimitsIn[r]
  OBVIOUS
<1>3. Covering(pr, Everywhere, 0) = pr.assignments
  BY DEF Covering, LiveAt, Built
<1>4. Strongest(pr, c, Everywhere, 0) = {ov[c]} \ {NoOverride}
  BY StrongestIs
<1> HIDE DEF pr, asg
<1> DEFINE ls == { a.role.limits[c] : a \in { a \in Covering(pr, Everywhere, 0) : c \in Granted(a.role) } }
           mine == { LimitsIn[r][c] : r \in Granting(rs, gr, c) }
<1>5. ls = mine
  <2>1. \A r : c \in Granted(asg(r).role) <=> c \in gr[r] \union CoreOf[KindOf[r]]
    BY <1>2 DEF Granted
  <2>2. ls \subseteq mine
    <3>1. ASSUME NEW a \in Covering(pr, Everywhere, 0), c \in Granted(a.role)
          PROVE  a.role.limits[c] \in mine
      <4>1. PICK r \in rs : a = asg(r)
        BY <3>1, <1>1, <1>3
      <4>2. a.role.limits[c] = LimitsIn[r][c]
        BY <4>1, <1>2
      <4> QED BY <3>1, <4>1, <4>2, <2>1 DEF Granting
    <3> QED BY <3>1
  <2>3. mine \subseteq ls
    <3>1. ASSUME NEW r \in Granting(rs, gr, c)
          PROVE  LimitsIn[r][c] \in ls
      <4>1. asg(r) \in Covering(pr, Everywhere, 0) /\ c \in Granted(asg(r).role)
        BY <1>1, <1>3, <2>1 DEF Granting
      <4>2. asg(r).role.limits[c] = LimitsIn[r][c]
        BY <1>2
      <4> QED BY <4>1, <4>2
    <3> QED BY <3>1
  <2> QED BY <2>2, <2>3
<1>6. RoleLimits(pr, c, Everywhere, 0) = RolesLimit(own, rs, gr, c)
  <2>1. RoleLimits(pr, c, Everywhere, 0)
          = IF pr.owner \/ ls = {} \/ UNLIMITED \in ls THEN UNLIMITED
            ELSE RestrictedTo(MostGenerous(ls), KeysOf[c])
    BY DEF RoleLimits
  <2>2. RolesLimit(own, rs, gr, c)
          = IF own \/ mine = {} \/ UNLIMITED \in mine THEN UNLIMITED
            ELSE RestrictedTo(MostGenerous(mine), KeysOf[c])
    BY DEF RolesLimit
  <2> HIDE DEF ls, mine
  <2> QED BY <1>1, <1>5, <2>1, <2>2
<1>7. Allowed(pr, c, Everywhere, 0) <=> ov[c] # NoOverride /\ ov[c].allow
  BY <1>4 DEF Allowed
<1> DEFINE chosen == CHOOSE o \in Strongest(pr, c, Everywhere, 0) : TRUE
<1>8. ov[c] # NoOverride => chosen = ov[c]
  BY <1>4
<1>9. LimitsOf(pr, c, Everywhere, 0)
        = IF Allowed(pr, c, Everywhere, 0) /\ chosen.limits # NoLimits
          THEN RestrictedTo(chosen.limits, KeysOf[c])
          ELSE RoleLimits(pr, c, Everywhere, 0)
  BY DEF LimitsOf
<1>10. LimitsOf(pr, c, Everywhere, 0) = LimitedBy(own, rs, gr, ov, c)
  <2> HIDE DEF chosen
  <2>1. CASE Says(ov, c)
    BY <2>1, <1>7, <1>8, <1>9 DEF LimitedBy, Says
  <2>2. CASE ~Says(ov, c)
    BY <2>2, <1>6, <1>7, <1>8, <1>9 DEF LimitedBy, Says
  <2> QED BY <2>1, <2>2
<1> QED BY <1>10 DEF pr

(* A request within limits, and one somebody is allowed.                   *)
Meets(req, l) ==
    /\ \A k \in LimitKey : req.asked[k] # NoLimit => Under(req.asked[k], l.max[k])
    /\ l.own => req.own = "mine"

MayBy(own, rs, gr, ov, req) ==
    /\ HasBy(own, rs, gr, ov, req.cap)
    /\ Meets(req, LimitedBy(own, rs, gr, ov, req.cap))

ResolvedBy(own, rs, gr, ov) == Resolve(Built(own, rs, gr, ov), Everywhere, 0, {})

(* Whether a built principal holds c, and within what.                     *)
LEMMA HeldIs ==
    ASSUME NEW own \in BOOLEAN, NEW rs \in SUBSET Role, NEW gr \in [Role -> SUBSET Cap],
           NEW ov, Stored1(ov), NEW c \in Cap, NEW e, e = ResolvedBy(own, rs, gr, ov)
    PROVE  /\ c \in e.caps <=> HasBy(own, rs, gr, ov, c)
           /\ c \in e.caps => e.limits[c] = LimitedBy(own, rs, gr, ov, c)
<1>1. e.caps = { d \in Cap : HasBy(own, rs, gr, ov, d) }
  BY CapsAre DEF ResolvedBy, Resolve
<1>2. e.limits[c] = IF c \in e.caps THEN LimitsOf(Built(own, rs, gr, ov), c, Everywhere, 0)
                    ELSE UNLIMITED
  BY DEF ResolvedBy, Resolve
<1> QED BY <1>1, <1>2, LimitsAre

(* What a built principal is allowed.                                      *)
LEMMA DecideIs ==
    ASSUME NEW own \in BOOLEAN, NEW rs \in SUBSET Role, NEW gr \in [Role -> SUBSET Cap],
           NEW ov, Stored1(ov), NEW req, req.cap \in Cap
    PROVE  Decide(ResolvedBy(own, rs, gr, ov), req) = "allow" <=> MayBy(own, rs, gr, ov, req)
<1> DEFINE e == ResolvedBy(own, rs, gr, ov)
           c == req.cap
<1>1. /\ c \in e.caps <=> HasBy(own, rs, gr, ov, c)
      /\ c \in e.caps => e.limits[c] = LimitedBy(own, rs, gr, ov, c)
  BY HeldIs
<1>2. e.ask = {}
  BY DEF ResolvedBy, Resolve
<1> HIDE DEF e
<1>3. Decide(e, req) = "allow" <=> c \in e.caps /\ Meets(req, e.limits[c])
  BY <1>2 DEF Decide, Meets
<1> QED BY <1>1, <1>3 DEF MayBy, e

(* What the roles granting a capability limit it to: finitely many limits. *)
LEMMA GrantedLimits ==
    ASSUME NEW rs \in SUBSET Role, NEW gr, NEW c \in Cap
    PROVE  /\ { LimitsIn[q][c] : q \in Granting(rs, gr, c) } \in SUBSET Limits
           /\ IsFiniteSet({ LimitsIn[q][c] : q \in Granting(rs, gr, c) })
<1> DEFINE S == Granting(rs, gr, c)
           T == { LimitsIn[q][c] : q \in S }
           f == [q \in S |-> LimitsIn[q][c]]
<1>1. S \in SUBSET Role /\ IsFiniteSet(S)
  BY FS_Subset DEF Granting
<1>2. T \in SUBSET Limits
  BY <1>1
<1>3. f \in Surjection(S, T)
  BY DEF Surjection
<1> HIDE DEF f, T, S
<1>4. IsFiniteSet(T)
  BY <1>1, <1>3, FS_Surjection
<1> QED BY <1>2, <1>4 DEF T, S

(* A request asks for figures.                                             *)
LEMMA RequestsAre ==
    ASSUME NEW req \in Requests
    PROVE  req.cap \in Cap /\ \A k \in LimitKey : req.asked[k] \in Figure
<1>1. \A l \in AskedLimits, k \in LimitKey : l.max[k] \in Figure
  BY DEF Limits, Figure
<1> QED BY <1>1 DEF Requests

(* Whatever is within limits is within none, and within those of more      *)
(* roles.                                                                  *)
LEMMA MeetsMore ==
    ASSUME NEW own \in BOOLEAN, NEW rs \in SUBSET Role, NEW more \in SUBSET Role, rs \subseteq more,
           NEW gr, NEW c \in Cap, NEW req,
           \A k \in LimitKey : req.asked[k] \in Figure,
           own \/ Granting(rs, gr, c) # {},
           Meets(req, RolesLimit(own, rs, gr, c))
    PROVE  Meets(req, RolesLimit(own, more, gr, c))
<1> DEFINE la == { LimitsIn[q][c] : q \in Granting(rs, gr, c) }
           lb == { LimitsIn[q][c] : q \in Granting(more, gr, c) }
<1>1. Meets(req, UNLIMITED)
  BY DEF Meets, UNLIMITED, Under
<1>2. /\ la \in SUBSET Limits /\ lb \in SUBSET Limits /\ IsFiniteSet(la) /\ IsFiniteSet(lb)
      /\ la \subseteq lb
  <2>1. la \subseteq lb
    BY DEF Granting
  <2>2. la \in SUBSET Limits /\ IsFiniteSet(la)
    BY GrantedLimits
  <2>3. lb \in SUBSET Limits /\ IsFiniteSet(lb)
    BY GrantedLimits
  <2> QED BY <2>1, <2>2, <2>3
<1>3. own \/ la # {}
  OBVIOUS
<1>4. /\ RolesLimit(own, rs, gr, c)
           = IF own \/ la = {} \/ UNLIMITED \in la THEN UNLIMITED
             ELSE RestrictedTo(MostGenerous(la), KeysOf[c])
      /\ RolesLimit(own, more, gr, c)
           = IF own \/ lb = {} \/ UNLIMITED \in lb THEN UNLIMITED
             ELSE RestrictedTo(MostGenerous(lb), KeysOf[c])
  BY DEF RolesLimit
<1> HIDE DEF la, lb
<1>5. CASE own \/ UNLIMITED \in lb
  BY <1>1, <1>4, <1>5
<1>6. CASE ~own /\ UNLIMITED \notin lb
  <2>1. la # {} /\ lb # {} /\ UNLIMITED \notin la
    BY <1>2, <1>3, <1>6
  <2>2. Meets(req, RestrictedTo(MostGenerous(la), KeysOf[c]))
    BY <1>4, <1>6, <2>1
  <2>3. /\ \A k \in LimitKey : Under(MostGenerous(la).max[k], MostGenerous(lb).max[k])
        /\ MostGenerous(lb).own => MostGenerous(la).own
    BY <1>2, <2>1, MoreGenerous
  <2>4. \A k \in LimitKey : MostGenerous(la).max[k] \in Figure /\ MostGenerous(lb).max[k] \in Figure
    BY <1>2, <2>1, Generosity
  <2> DEFINE a == MostGenerous(la)
             b == MostGenerous(lb)
  <2> HIDE DEF a, b
  <2>5. ASSUME NEW k \in LimitKey, req.asked[k] # NoLimit
        PROVE  Under(req.asked[k], RestrictedTo(b, KeysOf[c]).max[k])
    <3>1. CASE k \in KeysOf[c]
      <4>1. Under(req.asked[k], a.max[k])
        BY <2>2, <2>5, <3>1 DEF Meets, RestrictedTo, a
      <4>2. Under(req.asked[k], b.max[k])
        BY <4>1, <2>3, <2>4, UnderOrders DEF a, b
      <4> QED BY <4>2, <3>1 DEF RestrictedTo
    <3>2. CASE k \notin KeysOf[c]
      BY <3>2 DEF RestrictedTo, Under
    <3> QED BY <3>1, <3>2
  <2>6. RestrictedTo(b, KeysOf[c]).own => req.own = "mine"
    BY <2>2, <2>3 DEF Meets, RestrictedTo, a, b
  <2>7. Meets(req, RestrictedTo(b, KeysOf[c]))
    BY <2>5, <2>6 DEF Meets
  <2> QED BY <2>7, <2>1, <1>4, <1>6 DEF b
<1> QED BY <1>5, <1>6

(* What somebody may do, they may with more roles, unless an allow silent  *)
(* on limits now meets a role's.                                           *)
LEMMA MayMore ==
    ASSUME NEW own \in BOOLEAN, NEW rs \in SUBSET Role, NEW more \in SUBSET Role, rs \subseteq more,
           NEW gr \in [Role -> SUBSET Cap], NEW ov, Stored1(ov), NEW req \in Requests,
           MayBy(own, rs, gr, ov, req), ov[req.cap] # OverrideOf(req.cap, TRUE, NoLimits)
    PROVE  MayBy(own, more, gr, ov, req)
<1> DEFINE c == req.cap
<1>1. c \in Cap /\ \A k \in LimitKey : req.asked[k] \in Figure
  BY RequestsAre
<1>2. HasBy(own, rs, gr, ov, c)
  BY DEF MayBy
<1>3. HasBy(own, more, gr, ov, c)
  BY <1>2 DEF HasBy, Source, Spared
<1>4. CASE Says(ov, c)
  BY <1>3, <1>4 DEF MayBy, LimitedBy
<1>5. CASE ~Says(ov, c)
  <2>1. ~(ov[c] # NoOverride /\ ov[c].allow)
    <3>1. SUFFICES ASSUME ov[c] # NoOverride, ov[c].allow PROVE FALSE
      OBVIOUS
    <3>2. PICK allow \in BOOLEAN, limits \in AskedLimits \union {NoLimits} :
             ov[c] = OverrideOf(c, allow, limits)
      BY <1>1, <3>1 DEF Stored1, OverridesOf
    <3>3. ov[c].allow = allow /\ ov[c].limits = limits
      BY <3>2 DEF OverrideOf
    <3>4. limits = NoLimits
      BY <1>5, <3>1, <3>3 DEF Says
    <3>5. ov[c] = OverrideOf(c, TRUE, NoLimits)
      BY <3>1, <3>2, <3>3, <3>4
    <3> QED BY <3>5
  <2>2. own \/ Granting(rs, gr, c) # {}
    BY <1>2, <2>1 DEF HasBy, Source, Granting
  <2>3. Meets(req, RolesLimit(own, rs, gr, c))
    BY <1>5 DEF MayBy, LimitedBy
  <2>4. Meets(req, RolesLimit(own, more, gr, c))
    BY <1>1, <2>2, <2>3, MeetsMore
  <2> QED BY <1>3, <1>5, <2>4 DEF MayBy, LimitedBy
<1> QED BY <1>4, <1>5

-----------------------------------------------------------------------------
(* The set everybody acts on is always the one the store resolves to:      *)
(* whoever a write does not name resolves as before.                       *)
Fresh == \A p \in Person : eff[p] = ResolvedBy(p \in Owner, assigned[p], grants, override[p])

(* A principal depends on what their own roles grant and no other.         *)
LEMMA BuiltSame ==
    ASSUME NEW own, NEW rs, NEW ov, NEW gr, NEW gr2, \A r \in rs : gr2[r] = gr[r]
    PROVE  Built(own, rs, gr2, ov) = Built(own, rs, gr, ov)
<1> DEFINE asg(g, r) == [role |-> [kind |-> KindOf[r], grants |-> g[r], limits |-> LimitsIn[r]],
                         branches |-> {Everywhere}, from |-> NoLimit, to |-> NoLimit]
<1>1. \A r \in rs : asg(gr2, r) = asg(gr, r)
  OBVIOUS
<1> HIDE DEF asg
<1>2. { asg(gr2, r) : r \in rs } = { asg(gr, r) : r \in rs }
  BY <1>1
<1> QED BY <1>2 DEF Built, asg

(* A write resolves anew whoever it is about, and nobody else changes.     *)
LEMMA FreshStep == TypeOK /\ Fresh /\ Next => Fresh'
<1> SUFFICES ASSUME TypeOK, Fresh, Next, NEW p \in Person
             PROVE  eff'[p] = ResolvedBy(p \in Owner, assigned'[p], grants', override'[p])
  BY DEF Fresh
<1>1. Eff(p)' = ResolvedBy(p \in Owner, assigned'[p], grants', override'[p])
  BY DEF Eff, Principal, PrincipalWith, RoleDef, ResolvedBy, Built
<1>2. eff[p] = ResolvedBy(p \in Owner, assigned[p], grants, override[p])
  BY DEF Fresh
<1>3. PICK a \in Person :
         \/ \E t \in Person, c \in Cap, allow \in BOOLEAN, limits \in AskedLimits \union {NoLimits} :
              SetOverride(a, t, c, allow, limits)
         \/ \E t \in Person, r \in Role : Assign(a, t, r) \/ Unassign(a, t, r)
         \/ \E r \in Role, after \in SUBSET Cap : EditRole(a, r, after)
  BY Writes
<1>4. ASSUME NEW people, Written(a, people),
             p \notin people => Built(p \in Owner, assigned'[p], grants', override'[p])
                                  = Built(p \in Owner, assigned[p], grants, override[p])
      PROVE  eff'[p] = ResolvedBy(p \in Owner, assigned'[p], grants', override'[p])
  <2>1. CASE p \in people
    BY <1>4, <1>1, <2>1 DEF Written
  <2>2. CASE p \notin people
    BY <1>4, <1>2, <2>2 DEF Written, ResolvedBy
  <2> QED BY <2>1, <2>2
<1>5. ASSUME NEW t \in Person, NEW c \in Cap, NEW allow \in BOOLEAN,
             NEW limits \in AskedLimits \union {NoLimits}, SetOverride(a, t, c, allow, limits)
      PROVE  eff'[p] = ResolvedBy(p \in Owner, assigned'[p], grants', override'[p])
  <2>1. p # t => override'[p] = override[p]
    BY <1>5 DEF SetOverride, TypeOK
  <2> QED BY <2>1, <1>4, <1>5 DEF SetOverride
<1>6. ASSUME NEW t \in Person, NEW r \in Role, Assign(a, t, r) \/ Unassign(a, t, r)
      PROVE  eff'[p] = ResolvedBy(p \in Owner, assigned'[p], grants', override'[p])
  <2>1. p # t => assigned'[p] = assigned[p]
    BY <1>6 DEF Assign, Unassign, TypeOK
  <2> QED BY <2>1, <1>4, <1>6 DEF Assign, Unassign
<1>7. ASSUME NEW r \in Role, NEW after \in SUBSET Cap, EditRole(a, r, after)
      PROVE  eff'[p] = ResolvedBy(p \in Owner, assigned'[p], grants', override'[p])
  <2>1. r \notin assigned[p] => \A q \in assigned[p] : grants'[q] = grants[q]
    BY <1>7 DEF EditRole, TypeOK
  <2>2. r \notin assigned[p] => Built(p \in Owner, assigned[p], grants', override[p])
                                  = Built(p \in Owner, assigned[p], grants, override[p])
    BY <2>1, BuiltSame
  <2> QED BY <2>2, <1>4, <1>7 DEF EditRole
<1> QED BY <1>3, <1>5, <1>6, <1>7

(* So the sets acted on are always fresh.                                  *)
LEMMA AlwaysFresh == Spec => []Fresh
<1>1. Init => Fresh
  BY DEF Init, Fresh, Eff, Principal, PrincipalWith, RoleDef, ResolvedBy, Built
<1>2. TypeOK /\ Fresh /\ [Next]_vars => Fresh'
  <2>1. CASE Next
    BY <2>1, FreshStep
  <2>2. CASE UNCHANGED vars
    BY <2>2 DEF vars, Fresh
  <2> QED BY <2>1, <2>2
<1> QED BY <1>1, <1>2, TypeCorrect, PTL DEF Spec

(* Fresh sets only grow with a role more.                                  *)
LEMMA RolesAdd == TypeOK /\ Fresh => MoreRolesNeverLess
<1> SUFFICES ASSUME TypeOK, Fresh, NEW p \in Person, NEW r \in Role, NEW req \in Requests, May(p, req),
                    override[p][req.cap] # OverrideOf(req.cap, TRUE, NoLimits)
             PROVE  Decide(Resolve(PrincipalWith(p, assigned[p] \union {r}), Everywhere, 0, {}), req) = "allow"
  BY DEF MoreRolesNeverLess
<1> DEFINE own == p \in Owner
           more == assigned[p] \union {r}
<1>1. /\ own \in BOOLEAN /\ assigned[p] \in SUBSET Role /\ more \in SUBSET Role
      /\ assigned[p] \subseteq more /\ grants \in [Role -> SUBSET Cap]
      /\ Stored1(override[p]) /\ req.cap \in Cap
  BY RequestsAre DEF TypeOK, Stored1
<1>2. Resolve(PrincipalWith(p, more), Everywhere, 0, {}) = ResolvedBy(own, more, grants, override[p])
  BY DEF PrincipalWith, RoleDef, ResolvedBy, Built
<1>3. eff[p] = ResolvedBy(own, assigned[p], grants, override[p])
  BY DEF Fresh
<1> HIDE DEF own, more
<1>4. MayBy(own, assigned[p], grants, override[p], req)
  BY <1>1, <1>3, DecideIs DEF May
<1>5. MayBy(own, more, grants, override[p], req)
  BY <1>1, <1>4, MayMore
<1>6. Decide(ResolvedBy(own, more, grants, override[p]), req) = "allow"
  BY <1>1, <1>5, DecideIs
<1> QED BY <1>2, <1>6 DEF more

(* A role takes nothing away: everyone keeps the core of each kind they    *)
(* hold, and with a role more may do all they could, but where an allow    *)
(* silent on limits meets a role's (lib.rs resolve, most_generous).        *)
THEOREM MoreIsNeverLess == Spec => []RolesOnlyAdd
BY CoreStaysOn, TypeCorrect, AlwaysFresh, RolesAdd, PTL DEF RolesOnlyAdd

-----------------------------------------------------------------------------
(* Nobody is limited by a figure the capability does not take.             *)
Fits(l, keys) ==
    /\ \A k \in LimitKey : l.max[k] \in Figure /\ (k \notin keys => l.max[k] = NoLimit)
    /\ l.own => "own" \in keys

(* What is restricted to some keys has no others.                          *)
LEMMA RestrictedFits ==
    ASSUME NEW l, NEW keys, \A k \in LimitKey : l.max[k] \in Figure
    PROVE  Fits(RestrictedTo(l, keys), keys)
BY DEF Fits, RestrictedTo, Figure

(* What a person is limited to has the keys of the capability only.        *)
LEMMA LimitedFits ==
    ASSUME NEW own \in BOOLEAN, NEW rs \in SUBSET Role, NEW gr, NEW ov, Stored1(ov), NEW c \in Cap
    PROVE  Fits(LimitedBy(own, rs, gr, ov, c), KeysOf[c])
<1> DEFINE ls == { LimitsIn[q][c] : q \in Granting(rs, gr, c) }
<1>1. Fits(UNLIMITED, KeysOf[c])
  BY DEF Fits, UNLIMITED, Figure
<1>2. ls \in SUBSET Limits /\ IsFiniteSet(ls)
  BY GrantedLimits
<1>3. RolesLimit(own, rs, gr, c)
        = IF own \/ ls = {} \/ UNLIMITED \in ls THEN UNLIMITED
          ELSE RestrictedTo(MostGenerous(ls), KeysOf[c])
  BY DEF RolesLimit
<1> HIDE DEF ls
<1>4. CASE Says(ov, c)
  <2>1. PICK allow \in BOOLEAN, limits \in AskedLimits \union {NoLimits} :
           ov[c] = OverrideOf(c, allow, limits)
    BY <1>4 DEF Says, Stored1, OverridesOf
  <2>2. ov[c].limits \in Limits
    BY <1>4, <2>1 DEF Says, OverrideOf
  <2>3. \A k \in LimitKey : ov[c].limits.max[k] \in Figure
    BY <2>2 DEF Limits, Figure
  <2> QED BY <1>4, <2>3, RestrictedFits DEF LimitedBy
<1>5. CASE ~Says(ov, c)
  <2>1. CASE own \/ ls = {} \/ UNLIMITED \in ls
    BY <1>1, <1>3, <1>5, <2>1 DEF LimitedBy
  <2>2. CASE ~(own \/ ls = {} \/ UNLIMITED \in ls)
    <3>1. \A k \in LimitKey : MostGenerous(ls).max[k] \in Figure
      BY <1>2, <2>2, Generosity
    <3>2. Fits(RestrictedTo(MostGenerous(ls), KeysOf[c]), KeysOf[c])
      BY <3>1, RestrictedFits
    <3> QED BY <3>2, <1>3, <1>5, <2>2 DEF LimitedBy
  <2> QED BY <2>1, <2>2
<1> QED BY <1>4, <1>5

(* What is within the figures an override gives is within its giver's.     *)
LEMMA MeetsGivers ==
    ASSUME NEW keys, NEW asked, NEW l, Fits(l, keys), Within(asked, l), NEW req,
           \A k \in LimitKey : asked.max[k] \in Figure /\ req.asked[k] \in Figure,
           Meets(req, RestrictedTo(asked, keys))
    PROVE  Meets(req, l)
<1>1. ASSUME NEW k \in LimitKey, req.asked[k] # NoLimit
      PROVE  Under(req.asked[k], l.max[k])
  <2>1. CASE k \in keys
    <3>1. Under(req.asked[k], asked.max[k])
      BY <1>1, <2>1 DEF Meets, RestrictedTo
    <3>2. Under(asked.max[k], l.max[k]) /\ l.max[k] \in Figure
      BY DEF Within, Fits
    <3> QED BY <3>1, <3>2, UnderOrders
  <2>2. CASE k \notin keys
    BY <2>2 DEF Fits, Under
  <2> QED BY <2>1, <2>2
<1>2. l.own => req.own = "mine"
  BY DEF Fits, Within, Meets, RestrictedTo
<1> QED BY <1>1, <1>2 DEF Meets

(* An override's newly opened acts are its giver's too: the act is about  *)
(* the capability overridden, within the figures given or with none, and   *)
(* those are within the giver's.                                           *)
LEMMA GivenUnderTheGiver ==
    ASSUME TypeOK, TypeOK', Fresh, Fresh', Next, NEW t \in Person, NEW c \in Cap,
           override'[t][c] # override[t][c], override'[t][c].allow,
           NEW req \in Requests, May(t, req)', ~May(t, req)
    PROVE  Decide(eff[by'], req) = "allow"
<1>1. PICK a \in Person, limits \in AskedLimits \union {NoLimits} : SetOverride(a, t, c, TRUE, limits)
  <2>1. PICK a \in Person :
           \/ \E u \in Person, d \in Cap, allow \in BOOLEAN, limits \in AskedLimits \union {NoLimits} :
                SetOverride(a, u, d, allow, limits)
           \/ \E u \in Person, r \in Role : Assign(a, u, r) \/ Unassign(a, u, r)
           \/ \E r \in Role, after \in SUBSET Cap : EditRole(a, r, after)
    BY Writes
  <2>2. PICK u \in Person, d \in Cap, allow \in BOOLEAN, limits \in AskedLimits \union {NoLimits} :
           SetOverride(a, u, d, allow, limits)
    BY <2>1 DEF Assign, Unassign, EditRole
  <2>3. u = t /\ d = c
    BY <2>2 DEF SetOverride, TypeOK
  <2>4. override'[t][c] = OverrideOf(c, allow, limits)
    BY <2>2, <2>3 DEF SetOverride, TypeOK
  <2>5. allow = TRUE
    BY <2>4 DEF OverrideOf
  <2> QED BY <2>2, <2>3, <2>5
<1> DEFINE own == t \in Owner
           its == a \in Owner
           given == OverrideOf(c, TRUE, limits)
           ov == override[t]
           ov2 == override'[t]
<1>2. /\ own \in BOOLEAN /\ its \in BOOLEAN
      /\ assigned[t] \in SUBSET Role /\ assigned[a] \in SUBSET Role /\ grants \in [Role -> SUBSET Cap]
      /\ Stored1(ov) /\ Stored1(ov2) /\ Stored1(override[a])
      /\ req.cap \in Cap /\ \A k \in LimitKey : req.asked[k] \in Figure
  BY RequestsAre DEF TypeOK, Stored1
<1>3. /\ eff[t] = ResolvedBy(own, assigned[t], grants, ov)
      /\ eff'[t] = ResolvedBy(own, assigned[t], grants, ov2)
      /\ eff[a] = ResolvedBy(its, assigned[a], grants, override[a])
  BY <1>1 DEF Fresh, SetOverride
<1>4. ov2[c] = given /\ \A d \in Cap \ {c} : ov2[d] = ov[d]
  BY <1>1 DEF SetOverride, TypeOK
<1>5. by' = a /\ c \in eff[a].caps
      /\ Within(IF limits = NoLimits THEN UNLIMITED ELSE limits, eff[a].limits[c])
  BY <1>1 DEF SetOverride, MaySetOverride, Written, Holds
<1> HIDE DEF own, its, ov, ov2
<1>6. ~MayBy(own, assigned[t], grants, ov, req) /\ MayBy(own, assigned[t], grants, ov2, req)
  <2>1. ~MayBy(own, assigned[t], grants, ov, req)
    BY <1>2, <1>3, DecideIs DEF May
  <2>2. Decide(eff'[t], req) = "allow"
    BY DEF May
  <2>3. MayBy(own, assigned[t], grants, ov2, req)
    BY <1>2, <1>3, <2>2, DecideIs
  <2> QED BY <2>1, <2>3
<1>7. req.cap = c
  BY <1>2, <1>4, <1>6 DEF MayBy, HasBy, LimitedBy, Says
<1> DEFINE l == LimitedBy(its, assigned[a], grants, override[a], c)
<1>8. HasBy(its, assigned[a], grants, override[a], c) /\ eff[a].limits[c] = l
  BY <1>2, <1>3, <1>5, <1>7, HeldIs
<1>9. Fits(l, KeysOf[c])
  BY <1>2, LimitedFits
<1> HIDE DEF l
<1>10. Meets(req, l)
  <2>1. CASE limits = NoLimits
    BY <2>1, <1>5, <1>8 DEF Within, UNLIMITED, Under, Meets
  <2>2. CASE limits # NoLimits
    <3>1. limits \in Limits /\ \A k \in LimitKey : limits.max[k] \in Figure
      BY <2>2 DEF Limits, Figure
    <3>2. Says(ov2, c) /\ ov2[c].limits = limits
      <4>1. given \in OverridesOf(c)
        <5>1. \A allow \in BOOLEAN : OverrideOf(c, allow, limits) \in OverridesOf(c)
          BY DEF OverridesOf
        <5> QED BY <5>1
      <4>2. given # NoOverride
        BY <4>1, MarksAssumption
      <4>3. given.allow /\ given.limits = limits
        BY DEF OverrideOf
      <4> HIDE DEF given
      <4> QED BY <1>4, <2>2, <4>2, <4>3 DEF Says
    <3>3. Meets(req, RestrictedTo(limits, KeysOf[c]))
      BY <1>6, <1>7, <3>2 DEF MayBy, LimitedBy
    <3> QED BY <1>2, <1>5, <1>8, <1>9, <2>2, <3>1, <3>3, MeetsGivers
  <2> QED BY <2>1, <2>2
<1>11. MayBy(its, assigned[a], grants, override[a], req)
  BY <1>7, <1>8, <1>10 DEF MayBy, l
<1> QED BY <1>2, <1>3, <1>5, <1>11, DecideIs

(* What an override newly opens to a person, figures included, its giver   *)
(* may do (guard.rs G1, lib.rs within and restricted_to).                  *)
THEOREM GiversMayToo == Spec => NothingAboveTheGiver
<1> DEFINE Kept ==
      \A t \in Person, c \in Cap :
        override[t][c]' # override[t][c] /\ override[t][c]'.allow =>
          \A req \in Requests : May(t, req)' /\ ~May(t, req) => Decide(eff[by'], req) = "allow"
<1>1. TypeOK /\ TypeOK' /\ Fresh /\ Fresh' /\ [Next]_vars => [Kept]_vars
  BY GivenUnderTheGiver
<1> QED BY <1>1, TypeCorrect, AlwaysFresh, PTL DEF Spec, NothingAboveTheGiver
===============================================================================
