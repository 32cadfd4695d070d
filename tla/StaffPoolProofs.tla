--------------------------- MODULE StaffPoolProofs ---------------------------
(***************************************************************************)
(* Proofs about StaffPool, for any tills, drinks, settings and days.  The  *)
(* inductive invariant counts, day by day, the drinks rung and landed and  *)
(* those marked; the marks of one drink say nothing of the day's.          *)
(***************************************************************************)
EXTENDS StaffPool, FiniteSetTheorems, TLAPS

USE PoolAssumption

Days == 1..MaxDay

Rung == { d \in Drinks : rung[d] # None }

RungOn(date)    == { d \in Drinks : rung[d] # None /\ rung[d].date = date }
RungOver(date)  == { d \in Drinks : rung[d] # None /\ rung[d].date = date /\ rung[d].overspent }
LandedOn(date)  == { d \in Landed : rung[d].date = date }
LandedOver(date) == { d \in Landed : rung[d].date = date /\ landed[d].overspent }

Unmarked(till, date) ==
    { d \in Drinks : /\ rung[d] # None /\ ~rung[d].overspent
                     /\ rung[d].till = till /\ rung[d].date = date }

TypeOK ==
    /\ settings \in Policies /\ cached \in [Tills -> Policies]
    /\ changes \in Nat /\ day \in Days
    /\ known \in [Tills -> SUBSET Drinks]
    /\ outbox \in [Tills -> Seq(Drinks)]
    /\ rung \in [Drinks -> RungRecords \union {None}]
    /\ landed \in [Drinks -> LandedRecords \union {None}]

(* Only what was rung is known, queued or landed, and a till knows its own.*)
KnownIsRung ==
    /\ Landed \subseteq Rung
    /\ \A till \in Tills : known[till] \subseteq Rung
    /\ \A till \in Tills : \A n \in 1..Len(outbox[till]) : outbox[till][n] \in Rung
    /\ \A d \in Rung : d \in known[rung[d].till]

(* On a record the mark and the pool beside it agree.                      *)
Agreed ==
    /\ \A d \in Rung : rung[d].overspent <=> rung[d].pool.over > 0
    /\ \A d \in Landed : landed[d].refusal = None =>
           (landed[d].overspent <=> landed[d].pool.over > 0)

(* While the settings stand: every side decides by them, nothing rung is   *)
(* refused, and the marks of a day come to what is past its allowance.     *)
Allowance == NonNegative(settings.allowance)

OneRule ==
    /\ \A till \in Tills : cached[till] = settings
    /\ \A d \in Rung : Refusal(settings, rung[d].item, TRUE) = None
    /\ \A d \in Landed : landed[d].refusal = None

Counted ==
    \A date \in Days :
        /\ Cardinality(LandedOver(date)) = NonNegative(Cardinality(LandedOn(date)) - Allowance)
        /\ Cardinality(RungOver(date)) <= NonNegative(Cardinality(RungOn(date)) - Allowance)
        /\ \A till \in Tills : Cardinality(Unmarked(till, date)) <= Allowance

IInv == TypeOK /\ KnownIsRung /\ Agreed /\ (changes = 0 => OneRule /\ Counted)

-----------------------------------------------------------------------------
(* What the rule decides of one drink after `used' others.                 *)
LEMMA Decided ==
    ASSUME NEW policy \in Policies, NEW item, NEW noted \in BOOLEAN, NEW used \in Nat
    PROVE  /\ Decide(policy, item, noted, used).refusal = Refusal(policy, item, noted)
           /\ Refusal(policy, item, noted) \in Refusals \union {None}
           /\ Decide(policy, item, noted, used).overspent \in BOOLEAN
           /\ Decide(policy, item, noted, used).pool \in Pools
           /\ Refusal(policy, item, noted) = None =>
                /\ Decide(policy, item, noted, used).overspent
                     <=> used + 1 > NonNegative(policy.allowance)
                /\ Decide(policy, item, noted, used).overspent
                     <=> Decide(policy, item, noted, used).pool.over > 0
<1> DEFINE why == Refusal(policy, item, noted)
           n == IF why = None THEN used + 1 ELSE used
           a == NonNegative(policy.allowance)
<1>1. policy.allowance \in Int
  BY DEF Settings
<1>2. a \in Nat /\ NonNegative(used) = used /\ NonNegative(a) = a /\ n \in Nat
  BY <1>1 DEF NonNegative
<1>3. Decide(policy, item, noted, used) =
        [refusal |-> why, overspent |-> why = None /\ used + 1 > a,
         pool |-> PoolState(policy.allowance, n)]
  BY <1>2 DEF Decide
<1>4. PoolState(policy.allowance, n) = [remaining |-> NonNegative(a - n), over |-> NonNegative(n - a)]
  BY <1>2 DEF PoolState, NonNegative
<1>5. NonNegative(a - n) \in Nat /\ NonNegative(n - a) \in Nat
  BY <1>2 DEF NonNegative
<1>6. why = None => (used + 1 > a <=> NonNegative(n - a) > 0)
  BY <1>2 DEF NonNegative
<1>7. why \in Refusals \union {None}
  BY DEF Refusal, Refusals
<1> HIDE DEF why, n, a
<1> DEFINE verdict == Decide(policy, item, noted, used)
<1>8. /\ verdict.refusal = why
      /\ verdict.overspent = (why = None /\ used + 1 > a)
      /\ verdict.pool = PoolState(policy.allowance, n)
  BY <1>3
<1> HIDE DEF verdict
<1>9. verdict.pool \in Pools /\ verdict.pool.over = NonNegative(n - a)
  BY <1>4, <1>5, <1>8 DEF Pools
<1>10. why = None => (verdict.overspent <=> used + 1 > a)
  BY <1>8
<1>11. why = None => (verdict.overspent <=> verdict.pool.over > 0)
  BY <1>6, <1>9, <1>10
<1>12. verdict.overspent \in BOOLEAN
  BY <1>8
<1> QED BY <1>7, <1>8, <1>9, <1>10, <1>11, <1>12 DEF why, a, verdict

(* Sets of drinks are finite; one more counts one more.                    *)
LEMMA Sizes ==
    ASSUME NEW S \in SUBSET Drinks
    PROVE  /\ IsFiniteSet(S) /\ Cardinality(S) \in Nat
           /\ \A d : d \notin S => Cardinality(S \union {d}) = Cardinality(S) + 1
           /\ \A T \in SUBSET S : Cardinality(T) \in Nat /\ Cardinality(T) <= Cardinality(S)
BY FS_Subset, FS_CardinalityType, FS_AddElement

LEMMA Counts ==
    ASSUME TypeOK, NEW date
    PROVE  /\ Landed \subseteq Drinks
           /\ ServerUsed(date) = Cardinality(LandedOn(date)) /\ ServerUsed(date) \in Nat
           /\ \A till \in Tills : TillUsed(till, date) \in Nat
BY Sizes DEF TypeOK, ServerUsed, TillUsed, LandedOn, Landed

-----------------------------------------------------------------------------
LEMMA InitIInv == Init => IInv
<1> SUFFICES ASSUME Init PROVE IInv
  OBVIOUS
<1>1. TypeOK
  BY DEF Init, TypeOK, Days
<1>2. Rung = {} /\ Landed = {}
  BY DEF Init, Rung, Landed
<1>3. KnownIsRung /\ Agreed
  BY <1>2 DEF KnownIsRung, Agreed, Init
<1>4. OneRule
  BY <1>2 DEF OneRule, Init
<1>5. Counted
  <2> SUFFICES ASSUME NEW date \in Days
               PROVE  /\ Cardinality(LandedOver(date)) = NonNegative(Cardinality(LandedOn(date)) - Allowance)
                      /\ Cardinality(RungOver(date)) <= NonNegative(Cardinality(RungOn(date)) - Allowance)
                      /\ \A till \in Tills : Cardinality(Unmarked(till, date)) <= Allowance
    BY DEF Counted
  <2>1. LandedOver(date) = {} /\ LandedOn(date) = {} /\ RungOver(date) = {} /\ RungOn(date) = {}
    BY <1>2 DEF LandedOver, LandedOn, RungOver, RungOn, Rung
  <2>2. \A till : Unmarked(till, date) = {}
    BY <1>2 DEF Unmarked, Rung
  <2>3. Allowance \in Nat
    BY <1>1 DEF TypeOK, Settings, Allowance, NonNegative
  <2>4. Cardinality({}) = 0
    BY FS_EmptySet
  <2>5. NonNegative(0 - Allowance) = 0 /\ 0 <= Allowance
    BY <2>3 DEF NonNegative
  <2> QED BY <2>1, <2>2, <2>3, <2>4, <2>5
<1> QED BY <1>1, <1>3, <1>4, <1>5 DEF IInv

(* A drink rung: marked when the till counts the day past the allowance.   *)
LEMMA RingKeeps ==
    ASSUME IInv, NEW till \in Tills, NEW d \in Drinks, NEW item \in Items, NEW noted \in BOOLEAN,
           Ring(till, d, item, noted)
    PROVE  IInv'
<1> USE DEF IInv
<1> DEFINE used == TillUsed(till, day)
           verdict == Decide(cached[till], item, noted, used)
           new == [till |-> till, item |-> item, date |-> day, overspent |-> verdict.overspent,
                   pool |-> verdict.pool, by |-> cached[till]]
<1>1. /\ rung[d] = None /\ verdict.refusal = None /\ rung' = [rung EXCEPT ![d] = new]
      /\ known' = [known EXCEPT ![till] = @ \union {d}]
      /\ outbox' = [outbox EXCEPT ![till] = Append(@, d)]
      /\ UNCHANGED <<settings, cached, changes, day, landed>>
  BY DEF Ring
<1>2. used \in Nat /\ cached[till] \in Policies
  BY Counts DEF TypeOK
<1> HIDE DEF used
<1>3. /\ Refusal(cached[till], item, noted) = None
      /\ verdict.overspent \in BOOLEAN /\ verdict.pool \in Pools
      /\ verdict.overspent <=> used + 1 > NonNegative(cached[till].allowance)
      /\ verdict.overspent <=> verdict.pool.over > 0
  <2>1. cached[till].allowance \in Int /\ noted \in BOOLEAN
    BY <1>2 DEF Settings
  <2>2. verdict.refusal = Refusal(cached[till], item, noted)
    BY <1>2, Decided
  <2>3. verdict.overspent \in BOOLEAN /\ verdict.pool \in Pools
    BY <1>2, Decided
  <2>4. Refusal(cached[till], item, noted) = None
    BY <1>1, <2>2
  <2>5. verdict.overspent <=> used + 1 > NonNegative(cached[till].allowance)
    BY <1>2, <2>4, Decided
  <2>6. verdict.overspent <=> verdict.pool.over > 0
    BY <1>2, <2>4, Decided
  <2> QED BY <2>3, <2>4, <2>5, <2>6
<1> HIDE DEF used, verdict
<1>4. new \in RungRecords
  BY <1>2, <1>3 DEF TypeOK, RungRecords, Days
<1>5. new # None /\ rung'[d] = new /\ \A e \in Drinks \ {d} : rung'[e] = rung[e]
  BY <1>1, <1>4 DEF TypeOK
<1>6. Rung' = Rung \union {d} /\ Landed' = Landed /\ d \notin Landed /\ d \notin Rung
  BY <1>1, <1>5 DEF Rung, Landed, TypeOK, KnownIsRung
<1>7. TypeOK'
  BY <1>1, <1>4 DEF TypeOK
<1>8. KnownIsRung'
  <2>1. Landed' \subseteq Rung'
    BY <1>6 DEF KnownIsRung
  <2>2. \A t \in Tills : known'[t] \subseteq Rung'
    BY <1>1, <1>6 DEF KnownIsRung, TypeOK
  <2>3. \A t \in Tills : \A n \in 1..Len(outbox'[t]) : outbox'[t][n] \in Rung'
    BY <1>1, <1>6 DEF KnownIsRung, TypeOK
  <2>4. \A e \in Rung' : e \in known'[rung'[e].till]
    <3>1. ASSUME NEW e \in Rung, e # d PROVE e \in known'[rung'[e].till]
      <4>1. e \in known[rung[e].till] /\ rung'[e] = rung[e] /\ rung[e] \in RungRecords
        BY <3>1, <1>5 DEF KnownIsRung, TypeOK, Rung
      <4> QED BY <4>1, <1>1 DEF TypeOK, RungRecords
    <3>2. d \in known'[rung'[d].till]
      BY <1>1, <1>5 DEF TypeOK
    <3> QED BY <3>1, <3>2, <1>6
  <2> QED BY <2>1, <2>2, <2>3, <2>4 DEF KnownIsRung
<1>9. Agreed'
  BY <1>1, <1>3, <1>5, <1>6 DEF Agreed, Rung
<1>10. ASSUME changes' = 0 PROVE OneRule'
  <2>1. OneRule
    BY <1>10, <1>1
  <2>2. Refusal(settings, item, TRUE) = None
    BY <2>1, <1>3 DEF OneRule, Refusal
  <2>3. ASSUME NEW e \in Rung' PROVE Refusal(settings, rung'[e].item, TRUE) = None
    <3>1. CASE e = d
      <4>1. rung'[e].item = item
        BY <3>1, <1>5
      <4> QED BY <4>1, <2>2
    <3>2. CASE e # d
      BY <3>2, <2>1, <1>5, <1>6 DEF OneRule, Rung
    <3> QED BY <3>1, <3>2
  <2> QED BY <2>1, <2>3, <1>1, <1>6 DEF OneRule
<1>11. ASSUME changes' = 0 PROVE Counted'
  <2>0. OneRule /\ Counted /\ cached[till] = settings
    BY <1>11, <1>1 DEF OneRule
  <2>1. Allowance' = Allowance /\ Allowance \in Nat
    BY <1>1 DEF Allowance, NonNegative, TypeOK, Settings
  <2> SUFFICES ASSUME NEW date \in Days
               PROVE  /\ Cardinality(LandedOver(date)') = NonNegative(Cardinality(LandedOn(date)') - Allowance)
                      /\ Cardinality(RungOver(date)') <= NonNegative(Cardinality(RungOn(date)') - Allowance)
                      /\ \A t \in Tills : Cardinality(Unmarked(t, date)') <= Allowance
    BY <2>1 DEF Counted
  <2>2. LandedOver(date)' = LandedOver(date) /\ LandedOn(date)' = LandedOn(date)
    BY <1>1, <1>5, <1>6 DEF LandedOver, LandedOn, Landed
  <2>3. day # date => /\ RungOver(date)' = RungOver(date) /\ RungOn(date)' = RungOn(date)
                      /\ \A t \in Tills : Unmarked(t, date)' = Unmarked(t, date)
    BY <1>1, <1>5 DEF RungOver, RungOn, Unmarked
  <2>4. day = date => RungOn(date)' = RungOn(date) \union {d}
    BY <1>1, <1>5 DEF RungOn
  <2>5. /\ day = date /\ verdict.overspent => RungOver(date)' = RungOver(date) \union {d}
        /\ ~verdict.overspent => RungOver(date)' = RungOver(date)
    BY <1>1, <1>5 DEF RungOver
  <2>6. \A t \in Tills :
          /\ t # till \/ verdict.overspent => Unmarked(t, date)' = Unmarked(t, date)
          /\ t = till /\ day = date /\ ~verdict.overspent
                => Unmarked(t, date)' = Unmarked(t, date) \union {d}
    BY <1>1, <1>5 DEF Unmarked
  <2>7. d \notin RungOn(date) /\ d \notin RungOver(date) /\ \A t \in Tills : d \notin Unmarked(t, date)
    BY <1>1 DEF RungOn, RungOver, Unmarked
  <2>8. day = date => /\ Cardinality(Unmarked(till, date)) <= used
                      /\ used <= Cardinality(RungOn(date))
    <3> DEFINE counted == { e \in known[till] : rung[e].date = day }
    <3>1. used = Cardinality(counted)
      BY DEF used, TillUsed
    <3>2. day = date => Unmarked(till, date) \subseteq counted
      BY DEF Unmarked, KnownIsRung, Rung
    <3>3. day = date => counted \subseteq RungOn(date)
      BY DEF RungOn, KnownIsRung, Rung
    <3>4. RungOn(date) \in SUBSET Drinks /\ counted \in SUBSET Drinks
      BY DEF RungOn, TypeOK
    <3> HIDE DEF counted
    <3> QED BY <3>1, <3>2, <3>3, <3>4, Sizes
  <2>9. /\ verdict.overspent <=> used + 1 > Allowance
        /\ Cardinality(RungOn(date)) \in Nat /\ Cardinality(RungOver(date)) \in Nat
        /\ \A t \in Tills : Cardinality(Unmarked(t, date)) \in Nat
    BY <1>3, <2>0, Sizes DEF Allowance, RungOn, RungOver, Unmarked
  <2>10. /\ Cardinality(RungOn(date) \union {d}) = Cardinality(RungOn(date)) + 1
         /\ Cardinality(RungOver(date) \union {d}) = Cardinality(RungOver(date)) + 1
         /\ \A t \in Tills : Cardinality(Unmarked(t, date) \union {d}) = Cardinality(Unmarked(t, date)) + 1
    BY <2>7, Sizes DEF RungOn, RungOver, Unmarked
  <2>11. Cardinality(LandedOver(date)') = NonNegative(Cardinality(LandedOn(date)') - Allowance)
    BY <2>0, <2>2 DEF Counted
  <2>12. Cardinality(RungOver(date)') <= NonNegative(Cardinality(RungOn(date)') - Allowance)
    <3>1. Cardinality(RungOver(date)) <= NonNegative(Cardinality(RungOn(date)) - Allowance)
      BY <2>0 DEF Counted
    <3>2. CASE day # date
      BY <3>1, <3>2, <2>3
    <3> DEFINE n == Cardinality(RungOn(date))
               m == Cardinality(RungOver(date))
    <3>a. n \in Nat /\ m \in Nat
      BY <2>9
    <3>3. CASE day = date /\ ~verdict.overspent
      <4>1. Cardinality(RungOver(date)') = m /\ Cardinality(RungOn(date)') = n + 1
        BY <3>3, <2>4, <2>5, <2>10
      <4> HIDE DEF n, m
      <4>2. m <= NonNegative(n - Allowance) => m <= NonNegative(n + 1 - Allowance)
        BY <2>1, <3>a DEF NonNegative
      <4> QED BY <2>1, <3>1, <3>a, <4>1, <4>2 DEF n, m
    <3>4. CASE day = date /\ verdict.overspent
      <4>1. Cardinality(RungOver(date)') = m + 1 /\ Cardinality(RungOn(date)') = n + 1
        BY <3>4, <2>4, <2>5, <2>10
      <4>2. n + 1 > Allowance
        BY <3>4, <2>1, <2>8, <2>9, <3>a, <1>2
      <4> HIDE DEF n, m
      <4>3. m <= NonNegative(n - Allowance) => m + 1 <= NonNegative(n + 1 - Allowance)
        BY <2>1, <3>a, <4>2 DEF NonNegative
      <4> QED BY <2>1, <3>1, <3>a, <4>1, <4>3 DEF n, m
    <3> QED BY <3>2, <3>3, <3>4
  <2>13. ASSUME NEW t \in Tills PROVE Cardinality(Unmarked(t, date)') <= Allowance
    <3>1. Cardinality(Unmarked(t, date)) <= Allowance
      BY <2>0 DEF Counted
    <3>2. CASE day # date \/ t # till \/ verdict.overspent
      BY <3>1, <3>2, <2>3, <2>6
    <3>3. CASE day = date /\ t = till /\ ~verdict.overspent
      BY <3>3, <2>1, <2>6, <2>8, <2>9, <2>10, <1>2
    <3> QED BY <3>2, <3>3
  <2> QED BY <2>11, <2>12, <2>13
<1> QED BY <1>7, <1>8, <1>9, <1>10, <1>11

(* A drink landed: recorded once, on the count its day has come to.        *)
LEMMA SendKeeps ==
    ASSUME IInv, NEW till \in Tills, NEW lost \in BOOLEAN, Send(till, lost)
    PROVE  IInv'
<1> USE DEF IInv
<1> DEFINE d == Head(outbox[till])
           date == rung[d].date
           used == ServerUsed(date)
           verdict == Decide(settings, rung[d].item, TRUE, used)
           new == [overspent |-> verdict.overspent \/ verdict.refusal # None,
                   refusal |-> verdict.refusal, pool |-> verdict.pool, by |-> settings]
<1>1. /\ outbox[till] # <<>>
      /\ landed' = IF landed[d] # None THEN landed ELSE [landed EXCEPT ![d] = new]
      /\ outbox' = IF lost THEN outbox ELSE [outbox EXCEPT ![till] = Tail(@)]
      /\ UNCHANGED <<settings, cached, changes, day, known, rung>>
  BY DEF Send, Replayed
<1>2. outbox[till] \in Seq(Drinks) /\ Len(outbox[till]) > 0 /\ d = outbox[till][1]
  BY <1>1 DEF TypeOK
<1>3. d \in Rung /\ d \in Drinks
  BY <1>2 DEF KnownIsRung, Rung
<1>4. rung[d] \in RungRecords /\ date \in Days
  BY <1>3 DEF Rung, TypeOK, RungRecords, Days
<1>5. used \in Nat /\ settings \in Policies
  BY Counts DEF TypeOK
<1>6. /\ verdict.refusal = Refusal(settings, rung[d].item, TRUE)
      /\ verdict.refusal \in Refusals \union {None}
      /\ verdict.overspent \in BOOLEAN /\ verdict.pool \in Pools
      /\ verdict.refusal = None => /\ verdict.overspent <=> used + 1 > Allowance
                                   /\ verdict.overspent <=> verdict.pool.over > 0
  <2> HIDE DEF used
  <2>1. verdict.refusal = Refusal(settings, rung[d].item, TRUE)
    BY <1>5, Decided
  <2>2. /\ verdict.refusal \in Refusals \union {None}
        /\ verdict.overspent \in BOOLEAN /\ verdict.pool \in Pools
    BY <1>5, <2>1, Decided
  <2>3. verdict.refusal = None => (verdict.overspent <=> used + 1 > Allowance)
    BY <1>5, <2>1, Decided DEF Allowance
  <2>4. verdict.refusal = None => (verdict.overspent <=> verdict.pool.over > 0)
    BY <1>5, <2>1, Decided
  <2> QED BY <2>1, <2>2, <2>3, <2>4
<1> HIDE DEF verdict, used
<1>7. new \in LandedRecords /\ new # None
  <2>1. new \in LandedRecords
    BY <1>5, <1>6 DEF LandedRecords
  <2> QED BY <2>1
<1> HIDE DEF d
<1>8. /\ landed[d] # None => landed' = landed
      /\ landed[d] = None => landed'[d] = new /\ \A e \in Drinks \ {d} : landed'[e] = landed[e]
  BY <1>1, <1>3 DEF TypeOK
<1>9. TypeOK'
  <2>1. landed' \in [Drinks -> LandedRecords \union {None}]
    BY <1>1, <1>7 DEF TypeOK
  <2>2. outbox' \in [Tills -> Seq(Drinks)]
    BY <1>1, <1>2 DEF TypeOK
  <2> QED BY <1>1, <2>1, <2>2 DEF TypeOK
<1>10. /\ landed[d] # None => Landed' = Landed
       /\ landed[d] = None => Landed' = Landed \union {d} /\ d \notin Landed
  BY <1>3, <1>7, <1>8 DEF Landed
<1>11. Rung' = Rung
  BY <1>1 DEF Rung
<1>12. KnownIsRung'
  <2>1. Landed' \subseteq Rung'
    BY <1>3, <1>10, <1>11 DEF KnownIsRung
  <2>2. \A t \in Tills : \A n \in 1..Len(outbox'[t]) : outbox'[t][n] \in Rung'
    <3>1. CASE lost
      BY <3>1, <1>1, <1>11 DEF KnownIsRung
    <3>2. CASE ~lost
      <4>1. /\ outbox'[till] = Tail(outbox[till])
            /\ \A t \in Tills \ {till} : outbox'[t] = outbox[t]
        BY <3>2, <1>1 DEF TypeOK
      <4>2. \A n \in 1..Len(Tail(outbox[till])) :
              n + 1 \in 1..Len(outbox[till]) /\ Tail(outbox[till])[n] = outbox[till][n + 1]
        BY <1>2
      <4> QED BY <4>1, <4>2, <1>11 DEF KnownIsRung
    <3> QED BY <3>1, <3>2
  <2> QED BY <2>1, <2>2, <1>1, <1>11 DEF KnownIsRung
<1>13. Agreed'
  <2>1. ASSUME NEW e \in Landed', landed'[e].refusal = None
        PROVE  landed'[e].overspent <=> landed'[e].pool.over > 0
    <3>1. CASE landed'[e] = landed[e] /\ e \in Landed
      BY <2>1, <3>1 DEF Agreed
    <3>2. CASE landed'[e] = new
      <4>1. verdict.refusal = None
        BY <2>1, <3>2
      <4>2. new.overspent <=> verdict.overspent
        BY <4>1
      <4>3. new.pool = verdict.pool
        OBVIOUS
      <4> QED BY <3>2, <4>1, <4>2, <4>3, <1>6
    <3> QED BY <3>1, <3>2, <1>8, <1>10, <1>3, <2>1 DEF Landed
  <2> QED BY <2>1, <1>1, <1>11 DEF Agreed
<1>14. ASSUME changes' = 0 PROVE OneRule' /\ Counted'
  <2>1. OneRule /\ Counted
    BY <1>14, <1>1
  <2>2. verdict.refusal = None /\ (new.overspent <=> used + 1 > Allowance) /\ new.refusal = None
    <3>1. verdict.refusal = None
      BY <2>1, <1>3, <1>6 DEF OneRule
    <3> QED BY <3>1, <1>6
  <2> HIDE DEF new
  <2>3. \A e \in Landed' : landed'[e].refusal = None
    BY <2>1, <2>2, <1>3, <1>8, <1>10 DEF OneRule, Landed
  <2>4. OneRule'
    BY <2>1, <2>3, <1>1, <1>11 DEF OneRule
  <2>5. Allowance' = Allowance /\ Allowance \in Nat
    BY <1>1, <1>5 DEF Allowance, NonNegative, Settings
  <2>6. ASSUME NEW t
        PROVE  /\ RungOver(t)' = RungOver(t) /\ RungOn(t)' = RungOn(t)
               /\ \A s : Unmarked(s, t)' = Unmarked(s, t)
    BY <1>1 DEF RungOver, RungOn, Unmarked
  <2>7. ASSUME NEW t \in Days
        PROVE  Cardinality(LandedOver(t)') = NonNegative(Cardinality(LandedOn(t)') - Allowance)
    <3> DEFINE n == Cardinality(LandedOn(t))
               m == Cardinality(LandedOver(t))
    <3>1. m = NonNegative(n - Allowance)
      BY <2>1 DEF Counted
    <3>2. /\ n \in Nat /\ m \in Nat
          /\ d \notin LandedOn(t) => Cardinality(LandedOn(t) \union {d}) = n + 1
          /\ d \notin LandedOver(t) => Cardinality(LandedOver(t) \union {d}) = m + 1
      BY Sizes DEF LandedOn, LandedOver, Landed
    <3>3. CASE landed[d] # None \/ t # date
      <4>1. LandedOn(t)' = LandedOn(t) /\ LandedOver(t)' = LandedOver(t)
        BY <3>3, <1>1, <1>3, <1>8, <1>10 DEF LandedOn, LandedOver, Landed
      <4> QED BY <4>1, <3>1
    <3>4. CASE landed[d] = None /\ t = date
      <4>1. LandedOn(t)' = LandedOn(t) \union {d} /\ d \notin LandedOn(t) /\ d \notin LandedOver(t)
        BY <3>4, <1>1, <1>3, <1>8, <1>10 DEF LandedOn, LandedOver, Landed
      <4>2. /\ new.overspent => LandedOver(t)' = LandedOver(t) \union {d}
            /\ ~new.overspent => LandedOver(t)' = LandedOver(t)
        BY <3>4, <1>1, <1>3, <1>8, <1>10 DEF LandedOver, Landed
      <4>3. used = n
        BY <3>4, Counts DEF used
      <4>4. Cardinality(LandedOn(t)') = n + 1
        BY <4>1, <3>2
      <4>5. Cardinality(LandedOver(t)') = IF n + 1 > Allowance THEN m + 1 ELSE m
        BY <4>1, <4>2, <4>3, <3>2, <2>2
      <4> HIDE DEF n, m
      <4>6. (IF n + 1 > Allowance THEN m + 1 ELSE m) = NonNegative(n + 1 - Allowance)
        BY <3>1, <3>2, <2>5 DEF NonNegative
      <4> QED BY <2>5, <3>2, <4>4, <4>5, <4>6 DEF n, m
    <3> QED BY <3>3, <3>4
  <2> QED BY <2>1, <2>4, <2>5, <2>6, <2>7 DEF Counted
<1> QED BY <1>9, <1>12, <1>13, <1>14

(* The rest neither rings nor lands a drink; a page adds what has landed,  *)
(* and a change of the settings ends what is promised of their count.      *)
LEMMA RestKeeps ==
    ASSUME IInv, UNCHANGED <<outbox, rung, landed>>, TypeOK',
           \A till \in Tills : known[till] \subseteq known'[till] /\ known'[till] \subseteq Rung,
           changes' = 0 => /\ changes = 0 /\ settings' = settings
                          /\ \A till \in Tills : cached'[till] \in {cached[till], settings}
    PROVE  IInv'
<1> USE DEF IInv
<1>1. Rung' = Rung /\ Landed' = Landed
  BY DEF Rung, Landed
<1>2. KnownIsRung'
  <2>1. \A e \in Rung : rung[e].till \in Tills
    BY DEF Rung, TypeOK, RungRecords
  <2> QED BY <2>1, <1>1 DEF KnownIsRung
<1>3. Agreed'
  BY <1>1 DEF Agreed
<1>4. ASSUME changes' = 0 PROVE OneRule' /\ Counted'
  <2>1. OneRule /\ Counted /\ settings' = settings
    BY <1>4
  <2>2. OneRule'
    BY <2>1, <1>1, <1>4 DEF OneRule
  <2>3. Allowance' = Allowance
    BY <2>1 DEF Allowance
  <2>4. ASSUME NEW t
        PROVE  /\ RungOver(t)' = RungOver(t) /\ RungOn(t)' = RungOn(t)
               /\ LandedOver(t)' = LandedOver(t) /\ LandedOn(t)' = LandedOn(t)
               /\ \A s : Unmarked(s, t)' = Unmarked(s, t)
    BY <1>1 DEF RungOver, RungOn, LandedOver, LandedOn, Unmarked
  <2> QED BY <2>1, <2>2, <2>3, <2>4 DEF Counted
<1> QED BY <1>2, <1>3, <1>4

LEMMA StepIInv == IInv /\ [Next]_vars => IInv'
<1> SUFFICES ASSUME IInv, [Next]_vars PROVE IInv'
  OBVIOUS
<1>0. TypeOK /\ KnownIsRung
  BY DEF IInv
<1>1. ASSUME NEW till \in Tills, NEW d \in Drinks, NEW item \in Items, NEW noted \in BOOLEAN,
             Ring(till, d, item, noted)
      PROVE  IInv'
  BY <1>1, RingKeeps
<1>2. ASSUME NEW till \in Tills, NEW lost \in BOOLEAN, Send(till, lost)
      PROVE  IInv'
  BY <1>2, SendKeeps
<1>3. ASSUME NEW till \in Tills, Pull(till)
      PROVE  IInv'
  BY <1>0, <1>3, RestKeeps DEF Pull, TypeOK, KnownIsRung, Landed
<1>4. ASSUME NEW till \in Tills, NEW page \in SUBSET InWindow, Snapshot(till, page)
      PROVE  IInv'
  <2>1. page \subseteq Landed
    BY DEF InWindow
  <2>2. known' = [known EXCEPT ![till] = @ \union page]
    BY <1>4 DEF Snapshot, AfterPage, IsLedger, LEDGER_TYPES
  <2> QED BY <1>0, <1>4, <2>1, <2>2, RestKeeps DEF Snapshot, TypeOK, KnownIsRung, Landed
<1>5. ASSUME NEW till \in Tills, NEW peer \in Tills, Hear(till, peer)
      PROVE  IInv'
  BY <1>0, <1>5, RestKeeps DEF Hear, TypeOK, KnownIsRung
<1>6. ASSUME NEW policy \in Policies, Change(policy)
      PROVE  IInv'
  BY <1>0, <1>6, RestKeeps DEF Change, TypeOK, KnownIsRung
<1>7. CASE NextDay
  BY <1>0, <1>7, RestKeeps DEF NextDay, TypeOK, KnownIsRung, Days
<1>8. CASE UNCHANGED vars
  BY <1>0, <1>8, RestKeeps DEF vars, TypeOK, KnownIsRung
<1> QED BY <1>1, <1>2, <1>3, <1>4, <1>5, <1>6, <1>7, <1>8 DEF Next

LEMMA Invariance == Spec => []IInv
BY InitIInv, StepIInv, PTL DEF Spec

(* Everything stored keeps its type.                                       *)
THEOREM TypeCorrect == Spec => []TypeOK
<1>1. IInv => TypeOK
  BY DEF IInv
<1> QED BY <1>1, Invariance, PTL

(* However many tills ring however many drinks offline, in whatever order  *)
(* they land: a day records as overspent exactly what is past its          *)
(* allowance, at least as many as its tills marked, and no till by itself  *)
(* rings past the allowance unmarked (staff_pool.rs decide,                *)
(* madar-sync is_ledger).                                                  *)
THEOREM OverspendsMarked == Spec => []EveryOverspendMarked
<1>1. IInv => OverspendsCounted
  <2> SUFFICES ASSUME IInv PROVE OverspendsCounted
    OBVIOUS
  <2>1. ASSUME changes = 0, NEW date \in 1..MaxDay
        PROVE  Cardinality({ d \in Landed : rung[d].date = date /\ landed[d].overspent })
                 = NonNegative(ServerUsed(date) - NonNegative(settings.allowance))
    BY <2>1, Counts DEF IInv, Counted, LandedOver, Allowance, Days
  <2> QED BY <2>1 DEF OverspendsCounted, IInv, Agreed, Rung
<1>2. IInv => OverspendsNotForgotten
  <2> SUFFICES ASSUME IInv, changes = 0, NEW date \in 1..MaxDay, RungOn(date) \subseteq Landed
               PROVE  Cardinality({ d \in RungOn(date) : rung[d].overspent })
                        <= Cardinality({ d \in RungOn(date) : landed[d].overspent })
    BY DEF OverspendsNotForgotten, RungOn
  <2>1. RungOn(date) = LandedOn(date)
    BY DEF RungOn, LandedOn, IInv, KnownIsRung, Rung
  <2>2. { d \in RungOn(date) : rung[d].overspent } = RungOver(date)
    BY DEF RungOn, RungOver
  <2>3. { d \in RungOn(date) : landed[d].overspent } = LandedOver(date)
    BY <2>1 DEF LandedOn, LandedOver
  <2>4. /\ Cardinality(LandedOver(date)) = NonNegative(Cardinality(LandedOn(date)) - Allowance)
        /\ Cardinality(RungOver(date)) <= NonNegative(Cardinality(RungOn(date)) - Allowance)
    BY DEF IInv, Counted, Days
  <2> QED BY <2>1, <2>2, <2>3, <2>4
<1>3. IInv => TillMarksItsOwn
  BY DEF IInv, Counted, TillMarksItsOwn, Unmarked, Allowance, Days
<1> QED BY <1>1, <1>2, <1>3, Invariance, PTL DEF EveryOverspendMarked
===============================================================================
