----------------------------- MODULE TablesProofs -----------------------------
(***************************************************************************)
(* The tables the program is generated from, and what is built on them.    *)
(*                                                                         *)
(* The registry (Registry): every copy the generator ever writes keeps     *)
(* what the file promises, for any files, any edits and any runs.  The     *)
(* inductive invariant says that every copy is a file that was accepted;   *)
(* what an accepted file keeps are lemmas about validate, whose ground is  *)
(* that no two capabilities share an id, a key or a cell.                  *)
(*                                                                         *)
(* The plans (OrgPlan): what an accepted table never takes away, that a    *)
(* limit is passed only by a stale count, and the one till a Free branch   *)
(* sells on, for any tables, devices and bounds.  The inductive invariant  *)
(* is that a verdict is the table's on the count and plan it was read      *)
(* under, and that no till was used later than now.                        *)
(*                                                                         *)
(* The two share no state; each part cites the assumptions of its own      *)
(* module.                                                                 *)
(***************************************************************************)
EXTENDS Registry, OrgPlan, FoldFacts, SequenceTheorems, TLAPS

Good(file) == IsFile(file) /\ FileAccepted(file)

(* Ids, keys and cells tell the capabilities of an accepted file apart     *)
(* (validate, main.rs:222-242).                                            *)
LEMMA Apart ==
    ASSUME NEW file, Good(file), NEW c \in ToSet(file.caps), NEW d \in ToSet(file.caps)
    PROVE  /\ c.id = d.id => c = d
           /\ c.key = d.key => c = d
           /\ (c.legacy = d.legacy /\ c.legacy # None) => c = d
  <1> DEFINE caps == file.caps
  <1>1. PICK i \in DOMAIN caps : caps[i] = c
    BY DEF ToSet
  <1>2. PICK j \in DOMAIN caps : caps[j] = d
    BY DEF ToSet
  <1>3. i \in Nat \ {0} /\ j \in Nat \ {0}
    BY DEF Good, IsFile
  <1>4. CapAccepted(caps, i) /\ CapAccepted(caps, j)
    BY DEF Good, FileAccepted
  <1>5. CASE i = j
    BY <1>1, <1>2, <1>5
  <1>6. CASE i < j
    <2>1. i \in 1..(j - 1)
      BY <1>3, <1>6
    <2>2. caps[i].id # caps[j].id /\ caps[i].key # caps[j].key
      BY <1>4, <2>1 DEF CapAccepted, Unrepeated
    <2>3. caps[j].legacy # None => caps[i].legacy # caps[j].legacy
      BY <1>4, <2>1 DEF CapAccepted, CellAccepted, Unrepeated
    <2> QED
      BY <1>1, <1>2, <2>2, <2>3
  <1>7. CASE j < i
    <2>1. j \in 1..(i - 1)
      BY <1>3, <1>7
    <2>2. caps[i].id # caps[j].id /\ caps[i].key # caps[j].key
      BY <1>4, <2>1 DEF CapAccepted, Unrepeated
    <2>3. caps[i].legacy # None => caps[i].legacy # caps[j].legacy
      BY <1>4, <2>1 DEF CapAccepted, CellAccepted, Unrepeated
    <2> QED
      BY <1>1, <1>2, <2>2, <2>3
  <1> QED
    BY <1>3, <1>5, <1>6, <1>7

(* What each capability of an accepted file satisfies by itself.           *)
LEMMA Single ==
    ASSUME NEW file, Good(file), NEW c \in ToSet(file.caps)
    PROVE  /\ c.core \subseteq c.defaults
           /\ c.tier = "core" <=> c.core # {}
           /\ c.risk = "admin" => c.defaults \intersect FloorKinds = {}
  <1>1. PICK i \in DOMAIN file.caps : file.caps[i] = c
    BY DEF ToSet
  <1>2. CapAccepted(file.caps, i)
    BY DEF Good, FileAccepted
  <1> QED
    BY <1>1, <1>2 DEF CapAccepted, KindsAccepted, CoreAccepted

LEMMA TableIs ==
    ASSUME NEW file, IsFile(file)
    PROVE  Table(file).caps = ToSet(file.caps) /\ Table(file).templates = file.templates
  BY DEF Table, IsFile

(* A set of capabilities holds just the ids of its members.                *)
LEMMA BitIsMember ==
    ASSUME NEW file, Good(file), NEW S \in SUBSET ToSet(file.caps), NEW c \in ToSet(file.caps)
    PROVE  c.id \in CapSet(S) <=> c \in S
  BY Apart DEF CapSet

LEMMA KeyFinds ==
    ASSUME NEW file, Good(file), NEW c \in ToSet(file.caps)
    PROVE  FromKey(Table(file), c.key) = c
  <1>1. Table(file).caps = ToSet(file.caps)
    BY TableIs DEF Good
  <1>2. \A d \in ToSet(file.caps) : d.key = c.key => d = c
    BY Apart
  <1> QED
    BY <1>1, <1>2 DEF FromKey

-----------------------------------------------------------------------------
(* Templates: a grant named by key is the capability of that key.          *)
LEMMA NamedIs ==
    ASSUME NEW file, Good(file), NEW name \in DOMAIN file.templates, NEW kind, NEW grants,
           grants \subseteq file.templates[name].add \union file.templates[name].remove
    PROVE  LET found == { FromKey(Table(file), g.key) : g \in { g \in grants : g.kind = kind } }
           IN  /\ found \subseteq ToSet(file.caps)
               /\ \A c \in ToSet(file.caps) : c \in found <=> Lists(grants, kind, c)
  <1> DEFINE caps == ToSet(file.caps)
             found == { FromKey(Table(file), g.key) : g \in { g \in grants : g.kind = kind } }
  <1>1. TemplateAccepted(file.caps, file.templates[name])
    BY DEF Good, FileAccepted
  <1>2. \A g \in grants : \E c \in caps : c.key = g.key
    BY <1>1 DEF TemplateAccepted
  <1>3. \A g \in grants : \E c \in caps : c.key = g.key /\ FromKey(Table(file), g.key) = c
    BY <1>2, KeyFinds
  <1>4. found \subseteq caps
    BY <1>3
  <1>5. ASSUME NEW c \in caps PROVE c \in found <=> Lists(grants, kind, c)
    <2>1. ASSUME c \in found PROVE Lists(grants, kind, c)
      <3>1. PICK g \in grants : g.kind = kind /\ c = FromKey(Table(file), g.key)
        BY <2>1
      <3>2. c.key = g.key
        BY <1>3, <3>1
      <3> QED
        BY <3>1, <3>2 DEF Lists
    <2>2. ASSUME Lists(grants, kind, c) PROVE c \in found
      <3>1. PICK g \in grants : g.kind = kind /\ g.key = c.key
        BY <2>2 DEF Lists
      <3>2. FromKey(Table(file), g.key) = c
        BY <3>1, KeyFinds
      <3> QED
        BY <3>1, <3>2
    <2> QED
      BY <2>1, <2>2
  <1> QED
    BY <1>4, <1>5

LEMMA Written ==
    ASSUME NEW file, Good(file), NEW name \in DOMAIN file.templates, NEW kind \in RoleKinds
    PROVE  NothingRidesAlong(Table(file), name, kind)
  <1> DEFINE parsed == Table(file)
             caps == ToSet(file.caps)
             t == file.templates[name]
             named(grants) == { FromKey(parsed, g.key) : g \in { g \in grants : g.kind = kind } }
             defaults == { c \in caps : kind \in c.defaults }
             core == { c \in caps : kind \in c.core }
  <1>1. parsed.caps = caps /\ parsed.templates = file.templates
    BY TableIs DEF Good
  <1>2. TemplateGrants(parsed, name, kind) =
          ((CapSet(defaults) \union CapSet(named(t.add))) \ CapSet(named(t.remove))) \union CapSet(core)
    BY <1>1 DEF TemplateGrants, CoreSet
  <1>3. /\ named(t.add) \subseteq caps
        /\ \A c \in caps : c \in named(t.add) <=> Lists(t.add, kind, c)
    BY NamedIs
  <1>4. /\ named(t.remove) \subseteq caps
        /\ \A c \in caps : c \in named(t.remove) <=> Lists(t.remove, kind, c)
    BY NamedIs
  <1> HIDE DEF named
  <1>5. ASSUME NEW c \in caps
        PROVE  c.id \in TemplateGrants(parsed, name, kind) <=>
                 \/ kind \in c.core
                 \/ (kind \in c.defaults \/ Lists(t.add, kind, c)) /\ ~Lists(t.remove, kind, c)
    <2>1. c.id \in CapSet(defaults) <=> kind \in c.defaults
      BY BitIsMember
    <2>2. c.id \in CapSet(core) <=> kind \in c.core
      BY BitIsMember
    <2>3. c.id \in CapSet(named(t.add)) <=> Lists(t.add, kind, c)
      BY <1>3, BitIsMember
    <2>4. c.id \in CapSet(named(t.remove)) <=> Lists(t.remove, kind, c)
      BY <1>4, BitIsMember
    <2> QED
      BY <1>2, <2>1, <2>2, <2>3, <2>4
  <1> QED
    BY <1>1, <1>5 DEF NothingRidesAlong

(* Core is within the defaults, which hold no administrator's capability   *)
(* for the floor, and an addition is checked by itself.                    *)
LEMMA Floor ==
    ASSUME NEW file, Good(file), NEW name \in DOMAIN file.templates, NEW kind \in RoleKinds
    PROVE  NoAdminOnTheFloor(Table(file), name, kind)
  <1> DEFINE parsed == Table(file)
             t == file.templates[name]
  <1>1. parsed.caps = ToSet(file.caps) /\ parsed.templates = file.templates
    BY TableIs DEF Good
  <1>2. TemplateAccepted(file.caps, t)
    BY DEF Good, FileAccepted
  <1> SUFFICES ASSUME kind \in FloorKinds, NEW c \in ToSet(file.caps),
                      c.id \in TemplateGrants(parsed, name, kind), c.risk = "admin"
               PROVE  FALSE
    BY <1>1 DEF NoAdminOnTheFloor
  <1>3. kind \in c.core \/ kind \in c.defaults \/ Lists(t.add, kind, c)
    BY <1>1, Written DEF NothingRidesAlong
  <1>4. kind \notin c.core /\ kind \notin c.defaults
    BY Single
  <1>5. ~Lists(t.add, kind, c)
    BY <1>2 DEF TemplateAccepted, Lists
  <1> QED
    BY <1>3, <1>4, <1>5

LEMMA Limited ==
    ASSUME NEW file, Good(file), NEW name \in DOMAIN file.templates, NEW kind \in RoleKinds
    PROVE  LimitsHeld(Table(file), name, kind)
  <1>1. Table(file).templates = file.templates
    BY TableIs DEF Good
  <1>2. TemplateAccepted(file.caps, file.templates[name])
    BY DEF Good, FileAccepted
  <1>3. ASSUME NEW l \in file.templates[name].limits
        PROVE  l.keys \subseteq FromKey(Table(file), l.key).limits /\ l.keys # {}
    <2>1. PICK c \in ToSet(file.caps) : c.key = l.key /\ l.keys \subseteq c.limits
      BY <1>2 DEF TemplateAccepted
    <2> QED
      BY <1>2, <2>1, KeyFinds DEF TemplateAccepted
  <1> QED
    BY <1>1, <1>3 DEF LimitsHeld, TemplateLimits

-----------------------------------------------------------------------------
(* Old tablets: a cell finds the one capability it belongs to.             *)
LEMMA CellFinds ==
    ASSUME NEW file, Good(file), NEW c \in ToSet(file.caps), c.legacy # None
    PROVE  FromLegacy(Table(file), c.legacy) = {c}
  BY Apart, TableIs DEF FromLegacy, Good

LEMMA Tablets ==
    ASSUME NEW file, Good(file)
    PROVE  OldTabletsSeeTheSame(Table(file))
  <1> DEFINE parsed == Table(file)
             caps == ToSet(file.caps)
  <1>1. parsed.caps = caps
    BY TableIs DEF Good
  <1>2. ASSUME NEW held, NEW c \in caps, c.legacy # None
        PROVE  GrantedCell(parsed, held, c.legacy) <=> c.id \in held
    BY <1>2, CellFinds DEF GrantedCell
  <1>3. ASSUME NEW held \in SUBSET Cells(parsed), NEW cell \in Cells(parsed)
        PROVE  GrantedCell(parsed, CapsFromCells(parsed, held), cell) <=> cell \in held
    <2>1. PICK c \in caps : c.legacy = cell /\ c.legacy # None
      BY <1>1 DEF Cells
    <2> DEFINE mapped == UNION { FromLegacy(parsed, x) : x \in held }
    <2>2. mapped \subseteq caps
      BY <1>1 DEF FromLegacy
    <2>3. c \in mapped <=> cell \in held
      BY <1>1, <2>1 DEF FromLegacy
    <2>4. c.id \in CapSet(mapped) <=> c \in mapped
      <3> HIDE DEF mapped
      <3> QED
        BY <2>2, BitIsMember
    <2> QED
      BY <1>2, <2>1, <2>3, <2>4 DEF CapsFromCells
  <1> QED
    BY <1>1, <1>2, <1>3 DEF OldTabletsSeeTheSame

(* What validate accepts is a registry that holds, for every file.         *)
THEOREM AcceptedHolds ==
    ASSUME NEW file, IsFile(file), FileAccepted(file)
    PROVE  CopyHolds(Table(file))
  <1>1. Good(file)
    BY DEF Good
  <1>2. Table(file).caps = ToSet(file.caps) /\ Table(file).templates = file.templates
    BY TableIs
  <1>3. \A kind \in RoleKinds : CoreSet(Table(file), kind) \subseteq OwnersSet(Table(file))
    BY <1>1, <1>2, Single DEF CoreSet, OwnersSet, CapSet
  <1> QED
    BY <1>1, <1>2, <1>3, Written, Floor, Limited, Tablets DEF CopyHolds

-----------------------------------------------------------------------------
(* Every copy is of a file that was accepted, and a place that was vouched *)
(* for is a copy of the file as it is.                                     *)
IInv ==
    /\ DOMAIN registry = {"file", "changes"}
    /\ IsFile(registry.file)
    /\ DOMAIN copies = Places
    /\ \A place \in Places : Good(copies[place])
    /\ vouched \subseteq Places
    /\ \A place \in vouched : copies[place] = registry.file

LEMMA InitHolds == RegistryInit => IInv
  <1> SUFFICES ASSUME RegistryInit PROVE IInv
    OBVIOUS
  <1>1. PICK file \in Drafts : FileAccepted(file) /\ registry = [file |-> file, changes |-> 0]
    BY DEF RegistryInit
  <1>2. IsFile(registry.file) /\ FileAccepted(registry.file)
    BY <1>1, RegistryAssumption
  <1> QED
    BY <1>1, <1>2 DEF RegistryInit, IInv, Good

(* An edit changes the text of a field, and leaves the file a file.        *)
LEMMA EditKeeps ==
    ASSUME NEW file, IsFile(registry.file), IsFile(file), IInv, Edit(file)
    PROVE  IInv'
  BY DEF Edit, IInv, Places

LEMMA StepHolds == IInv /\ [RegistryNext]_registryVars => IInv'
  <1> SUFFICES ASSUME IInv, [RegistryNext]_registryVars PROVE IInv'
    OBVIOUS
  <1> USE DEF IInv
  <1>1. CASE EditCap
    <2>1. PICK i \in DOMAIN registry.file.caps, edit \in CapEdits :
              Edit([registry.file EXCEPT !.caps[i][edit.field] = edit.text])
      BY <1>1 DEF EditCap
    <2> DEFINE old == registry.file
               file == [old EXCEPT !.caps[i][edit.field] = edit.text]
    <2>2. /\ DOMAIN file = DOMAIN old /\ DOMAIN file.caps = DOMAIN old.caps
          /\ file.templates = old.templates
          /\ \A j \in DOMAIN old.caps : DOMAIN file.caps[j] = DOMAIN old.caps[j]
      BY DEF IsFile
    <2>3. IsFile(file)
      BY <2>2 DEF IsFile
    <2> QED
      BY <2>1, <2>3, EditKeeps
  <1>2. CASE EditTemplate
    <2>1. PICK name \in DOMAIN registry.file.templates, edit \in TemplateEdits :
              Edit([registry.file EXCEPT !.templates[name][edit.field] = edit.text])
      BY <1>2 DEF EditTemplate
    <2> DEFINE old == registry.file
               file == [old EXCEPT !.templates[name][edit.field] = edit.text]
    <2>2. /\ DOMAIN file = DOMAIN old /\ DOMAIN file.templates = DOMAIN old.templates
          /\ file.caps = old.caps
          /\ \A n \in DOMAIN old.templates : DOMAIN file.templates[n] = DOMAIN old.templates[n]
      BY DEF IsFile
    <2>3. IsFile(file)
      BY <2>2 DEF IsFile
    <2> QED
      BY <2>1, <2>3, EditKeeps
  <1>3. ASSUME NEW apps \in SUBSET (Places \ {"crate"}), Generate(apps) PROVE IInv'
    <2>1. Good(registry.file)
      BY <1>3 DEF Generate, Good
    <2>2. PICK n \in DOMAIN InOrder :
            LET reached == { InOrder[k] : k \in 1..n } \intersect Looked(apps)
            IN  /\ copies' = [place \in Places |-> IF place \in reached THEN registry.file ELSE copies[place]]
                /\ vouched' = IF reached = Looked(apps) THEN reached ELSE {}
      BY <1>3 DEF Generate
    <2>3. registry' = registry
      BY <1>3 DEF Generate
    <2>4. Looked(apps) \subseteq Places
      BY DEF Looked, Places
    <2>5. \A place \in Places : copies'[place] \in {registry.file, copies[place]}
      BY <2>2
    <2>6. \A place \in Places : Good(copies'[place])
      BY <2>1, <2>5
    <2>7. vouched' \subseteq Places /\ \A place \in vouched' : copies'[place] = registry.file
      BY <2>2, <2>4
    <2>8. DOMAIN copies' = Places
      BY <2>2
    <2> QED
      BY <2>3, <2>6, <2>7, <2>8
  <1>4. ASSUME NEW apps \in SUBSET (Places \ {"crate"}), CheckCopies(apps) PROVE IInv'
    <2>1. Looked(apps) \subseteq Places
      BY DEF Looked, Places
    <2>2. vouched' \subseteq Places /\ \A place \in vouched' : copies[place] = registry.file
      BY <1>4, <2>1 DEF CheckCopies, Stale
    <2> QED
      BY <1>4, <2>2 DEF CheckCopies
  <1>5. CASE UNCHANGED registryVars
    BY <1>5 DEF registryVars
  <1> QED
    BY <1>1, <1>2, <1>3, <1>4, <1>5 DEF RegistryNext

(* Whatever is written in the file and however the generator is run, every *)
(* copy keeps what the file's head promises, and a run that ends well      *)
(* leaves what it looked at current.                                       *)
THEOREM RegistryAlwaysHolds == RegistrySpec => []RegistryHolds
  <1>1. IInv => RegistryHolds
    <2> SUFFICES ASSUME IInv PROVE RegistryHolds
      OBVIOUS
    <2>1. \A place \in Places : CopyHolds(Table(copies[place]))
      BY AcceptedHolds DEF IInv, Good
    <2> QED
      BY <2>1 DEF IInv, RegistryHolds
  <1> QED
    BY InitHolds, StepHolds, <1>1, PTL DEF RegistrySpec

-----------------------------------------------------------------------------
(* What an accepted table keeps.                                           *)

(* A feature's capabilities are capabilities and never core ones.          *)
LEMMA BehindNonCore ==
    ASSUME NEW t, Accepted(t), NEW f \in Feature
    PROVE  Behind(t, f) \subseteq NonCore
BY DEF Accepted, FeatureAccepted, Behind, InGroups, Matching

(* The core is capabilities.                                               *)
LEMMA CoreIsCap == Core \subseteq Cap
BY AccessAssumption DEF Core

(* The paid plan's ceiling holds the free plan's.                          *)
LEMMA CeilingsNest ==
    ASSUME NEW t, Accepted(t), NEW addons \in SUBSET Feature
    PROVE  CeilingWith(t, "free", addons) \subseteq CeilingWith(t, "paid", addons)
BY DEF Accepted, PaidHasAllOfFree, CeilingWith, Entitled

(* Cutting to a ceiling, field by field.                                   *)
LEMMA Cut ==
    ASSUME NEW t, NEW plan, NEW addons, NEW eff \in EffectiveSet
    PROVE  LET ceil == CeilingWith(t, plan, addons)
               cut  == ApplyWith(t, plan, addons, eff)
           IN  /\ cut.caps = eff.caps \intersect ceil
               /\ cut.ask = eff.ask \intersect ceil
               /\ \A c \in ceil : cut.limits[c] = eff.limits[c]
<1> DEFINE ceil == CeilingWith(t, plan, addons)
           cut  == ApplyWith(t, plan, addons, eff)
<1>1. eff.caps \subseteq Cap /\ eff.ask \subseteq Cap
  BY DEF EffectiveSet
<1>2. CASE ceil = Cap
  <2>1. cut = eff
    BY <1>2 DEF ApplyWith
  <2> QED BY <1>1, <1>2, <2>1
<1>3. CASE ceil # Cap
  <2>1. ceil \subseteq Cap
    BY DEF CeilingWith
  <2>2. cut = [eff EXCEPT !.caps = @ \intersect ceil, !.ask = @ \intersect ceil,
                 !.limits = [c \in Cap |-> IF c \in ceil THEN @[c] ELSE UNLIMITED]]
    BY <1>3 DEF ApplyWith
  <2>3. /\ cut.caps = eff.caps \intersect ceil
        /\ cut.ask = eff.ask \intersect ceil
        /\ \A c \in ceil : cut.limits[c] = eff.limits[c]
    <3> HIDE DEF ceil, cut
    <3> QED BY <2>1, <2>2 DEF EffectiveSet
  <2> QED BY <2>3
<1> QED BY <1>2, <1>3

(* Decide reads three things of an effective set.                          *)
LEMMA DecideReads ==
    ASSUME NEW a, NEW b, NEW req,
           req.cap \in a.caps <=> req.cap \in b.caps,
           req.cap \in a.ask <=> req.cap \in b.ask,
           a.limits[req.cap] = b.limits[req.cap]
    PROVE  Decide(a, req) = Decide(b, req)
BY DEF Decide

(* Who neither holds a capability nor may ask a manager is denied it.      *)
LEMMA DecideDenies ==
    ASSUME NEW eff, NEW req, req.cap \notin eff.caps, req.cap \notin eff.ask
    PROVE  Decide(eff, req) = "deny"
BY DEF Decide

(* A verdict is one of three.                                              *)
LEMMA DecideType ==
    ASSUME NEW eff, NEW req
    PROVE  Decide(eff, req) \in {"deny", "approval", "allow"}
BY DEF Decide

(* Verdicts are ranked from the denial up.                                 *)
LEMMA Ranks ==
    /\ \A v \in {"deny", "approval", "allow"} : Rank[v] \in Nat
    /\ Rank["deny"] = 0
BY DEF Rank

(* No accepted table takes anything away on an upgrade, whatever add-ons   *)
(* were bought and whoever asks for what.                                  *)
LEMMA AcceptedNest ==
    ASSUME table \in Tables, Accepted(table)
    PROVE  TablesNest
<1> DEFINE Free(addons, eff) == ApplyWith(table, "free", addons, eff)
           Paid(addons, eff) == ApplyWith(table, "paid", addons, eff)
<1>1. ASSUME NEW addons \in SUBSET Feature, NEW eff \in PersonEff
      PROVE  eff.caps \intersect Core \subseteq Free(addons, eff).caps \intersect Paid(addons, eff).caps
  <2>1. \A plan : Core \subseteq CeilingWith(table, plan, addons)
    BY BehindNonCore, CoreIsCap DEF CeilingWith, NonCore
  <2> QED BY <2>1, Cut, OrgPlanAssumption
<1>2. ASSUME NEW addons \in SUBSET Feature, NEW eff \in PersonEff, NEW req \in RequestAsked
      PROVE  /\ Rank[Decide(Free(addons, eff), req)] <= Rank[Decide(Paid(addons, eff), req)]
             /\ req.cap \in UNION { Behind(table, f) : f \in Feature \ Entitled(table, "free", addons) }
                  => Decide(Free(addons, eff), req) = "deny"
  <2> DEFINE ceil == CeilingWith(table, "free", addons)
             a == Free(addons, eff)
             b == Paid(addons, eff)
  <2>1. eff \in EffectiveSet
    BY OrgPlanAssumption
  <2>2. CASE req.cap \in ceil
    <3>1. req.cap \in CeilingWith(table, "paid", addons)
      BY <2>2, CeilingsNest
    <3>2. /\ req.cap \in a.caps <=> req.cap \in b.caps
          /\ req.cap \in a.ask <=> req.cap \in b.ask
          /\ a.limits[req.cap] = b.limits[req.cap]
      BY <2>1, <2>2, <3>1, Cut
    <3>3. Decide(a, req) = Decide(b, req)
      BY <3>2, DecideReads
    <3>4. req.cap \notin UNION { Behind(table, f) : f \in Feature \ Entitled(table, "free", addons) }
      BY <2>2 DEF CeilingWith
    <3> QED BY <3>3, <3>4, DecideType, Ranks
  <2>3. CASE req.cap \notin ceil
    <3>1. req.cap \notin a.caps /\ req.cap \notin a.ask
      BY <2>1, <2>3, Cut
    <3>2. Decide(a, req) = "deny"
      BY <3>1, DecideDenies
    <3>3. Rank[Decide(b, req)] \in Nat /\ Rank["deny"] = 0
      BY DecideType, Ranks
    <3> QED BY <3>2, <3>3
  <2> QED BY <2>2, <2>3
<1>3. \A role \in {"kitchen", "waiter", "teller"} :
         Topics(table, "free", role) \subseteq Topics(table, "paid", role)
  BY OrgPlanAssumption DEF IsTable, Plans, Accepted, PaidHasAllOfFree, Topics
<1>4. ASSUME NEW kind \in DeviceKinds, NEW n \in 0..Cardinality(Device),
             MayActivate(table, "free", kind, n).code = "ok"
      PROVE  MayActivate(table, "paid", kind, n).code = "ok"
  <2> DEFINE free == table.plans["free"].limits[kind]
             paid == table.plans["paid"].limits[kind]
  <2>0. kind \in LimitKinds /\ "free" \in Plans /\ "paid" \in Plans
    BY DEF LimitKinds, Plans
  <2>1. free \in Nat \union {Unlimited} /\ paid \in Nat \union {Unlimited}
    BY <2>0, OrgPlanAssumption DEF IsTable
  <2>2. NoLooser(free, paid)
    BY <2>0 DEF Accepted, PaidHasAllOfFree
  <2>3. n \in Nat
    BY OrgPlanAssumption
  <2>4. free = Unlimited \/ n < free
    BY <1>4, <2>1, <2>3 DEF MayActivate, Refusal
  <2>5. paid = Unlimited \/ n < paid
    BY <2>1, <2>2, <2>3, <2>4, TableAssumption DEF NoLooser
  <2> QED BY <2>1, <2>3, <2>5, TableAssumption DEF MayActivate, Refusal
<1> QED BY <1>1, <1>2, <1>3, <1>4 DEF TablesNest

-----------------------------------------------------------------------------
(* The organisation: what was read when a person asked, and its verdict.   *)
Verdicts == [code : {"ok", "feature", "device_limit"}, feature : Feature \union {NoFeature}]

Asked == [device : Device, verdict : Verdicts,
          seen : Nat, plan : Plans]

Picks == [branch : Branch, device : Till]

Typed ==
    /\ table \in Tables /\ Accepted(table)
    /\ branches \subseteq Branch
    /\ active \subseteq Device
    /\ asking \in [Person -> Asked \union {Idle}]
    /\ lastUsed \in [Till -> Nat \union {Never}]
    /\ offline \subseteq [till : Till, at : Nat]
    /\ picks \in Seq(Picks)
    /\ now \in Nat

(* A verdict is the table's, of the count and the plan it was read under.  *)
VerdictRead ==
    \A p \in Person :
        asking[p] # Idle =>
            asking[p].verdict
              = MayActivate(table, asking[p].plan, KindOf[asking[p].device], asking[p].seen)

(* No sale was made later than now.                                        *)
UsedBefore ==
    /\ \A d \in Till : lastUsed[d] # Never => lastUsed[d] <= now
    /\ \A s \in offline : s.at <= now

(* The inductive invariant of an organisation under a plan.                *)
PlanInv == Typed /\ VerdictRead /\ UsedBefore

(* Devices are numbered, each has its kind and branch, and there are       *)
(* finitely many.                                                          *)
LEMMA Constants ==
    /\ Till \subseteq Device /\ Till \subseteq Nat
    /\ \A d \in Device : BranchOf[d] \in Branch /\ KindOf[d] \in DeviceKinds
    /\ \A S \in SUBSET Device : IsFiniteSet(S) /\ Cardinality(S) \in Nat
    /\ \A d \in Device : Never # d
BY OrgPlanAssumption, FS_Subset, FS_CardinalityType DEF Till

(* Whatever word is stored, the plan is one of the two.                    *)
LEMMA PlanType == Plan \in Plans
BY DEF Plan, PlanOf, Plans

(* What MayActivate answers.                                               *)
LEMMA VerdictType ==
    ASSUME NEW t, NEW plan, NEW kind \in DeviceKinds, NEW n
    PROVE  MayActivate(t, plan, kind, n) \in Verdicts
<1>1. kind # "pos" => GateOf[kind] \in Feature
  BY TableAssumption DEF DeviceKinds
<1> DEFINE lacked == kind # "pos" /\ GateOf[kind] \notin FeaturesOf(t, plan)
           feature == IF lacked THEN GateOf[kind] ELSE NoFeature
           max == t.plans[plan].limits[kind]
<1>2. feature \in Feature \union {NoFeature}
  BY <1>1
<1>3. MayActivate(t, plan, kind, n) \in
        {Refusal("feature", feature), Refusal("device_limit", feature), Refusal("ok", NoFeature)}
  BY DEF MayActivate
<1> HIDE DEF feature
<1> QED BY <1>2, <1>3 DEF Refusal, Verdicts

(* Nothing is installed or asked for at the start.                         *)
LEMMA InitPlanInv == Init => PlanInv
<1> SUFFICES ASSUME Init PROVE PlanInv
  OBVIOUS
<1>1. Typed
  <2>1. <<>> \in Seq(Picks)
    BY EmptySeq
  <2> QED BY <2>1, OrgPlanAssumption DEF Init, Typed
<1> QED BY <1>1 DEF Init, PlanInv, VerdictRead, UsedBefore

(* A new branch.                                                           *)
LEMMA AddBranchKeeps == ASSUME PlanInv, NEW b \in Branch, AddBranch(b) PROVE PlanInv'
BY DEF PlanInv, Typed, VerdictRead, UsedBefore, AddBranch

(* What a person reads is a count and the plan of the moment, and the      *)
(* verdict is of those.                                                    *)
LEMMA AskKeeps == ASSUME PlanInv, NEW p \in Person, NEW d \in Device, Ask(p, d) PROVE PlanInv'
<1> USE DEF PlanInv
<1> DEFINE count == Cardinality(ActiveAt(BranchOf[d], KindOf[d]))
           verdict == MayActivate(table, Plan, KindOf[d], count)
<1>1. count \in Nat /\ KindOf[d] \in DeviceKinds
  BY Constants DEF Typed, ActiveAt, Standing
<1>2. verdict \in Verdicts
  BY <1>1, VerdictType
<1>3. asking' = [asking EXCEPT ![p] = [device |-> d, verdict |-> verdict, seen |-> count, plan |-> Plan]]
  BY DEF Ask
<1> HIDE DEF count, verdict
<1>4. [device |-> d, verdict |-> verdict, seen |-> count, plan |-> Plan] \in Asked
  BY <1>1, <1>2, PlanType DEF Asked
<1>5. Typed'
  BY <1>3, <1>4 DEF Ask, Typed
<1>6. VerdictRead'
  BY <1>3 DEF Ask, Typed, VerdictRead, verdict
<1> QED BY <1>5, <1>6 DEF Ask, UsedBefore

(* A device activated is one that was asked for.                           *)
LEMMA ActivateKeeps == ASSUME PlanInv, NEW p \in Person, Activate(p) PROVE PlanInv'
<1> USE DEF PlanInv
<1>1. asking[p] \in Asked
  BY DEF Activate, Typed
<1>2. active' \subseteq Device
  BY <1>1 DEF Activate, Typed, Asked
<1>3. Typed'
  BY <1>2 DEF Activate, Typed
<1> QED BY <1>3 DEF Activate, Typed, VerdictRead, UsedBefore

(* A choice names a till and its branch.                                   *)
LEMMA PickKeeps == ASSUME PlanInv, NEW d \in Till, Pick(d) PROVE PlanInv'
<1> USE DEF PlanInv
<1>1. [branch |-> BranchOf[d], device |-> d] \in Picks
  BY Constants DEF Picks
<1>2. picks' \in Seq(Picks)
  BY <1>1, AppendProperties DEF Pick, Typed
<1> QED BY <1>2 DEF Pick, Typed, VerdictRead, UsedBefore

(* A till's last use moves to a moment no later than now.                  *)
LEMMA UseKeeps ==
    ASSUME PlanInv, NEW d \in Till, NEW at \in Nat, at <= now,
           lastUsed' = [lastUsed EXCEPT ![d] = at], offline' \subseteq offline,
           UNCHANGED <<table, word, branches, active, asking, picks, now>>
    PROVE  PlanInv'
BY DEF PlanInv, Typed, VerdictRead, UsedBefore

(* Every step keeps the invariant.                                         *)
LEMMA StepPlanInv == PlanInv /\ [Next]_vars => PlanInv'
<1> SUFFICES ASSUME PlanInv, [Next]_vars PROVE PlanInv'
  OBVIOUS
<1> USE DEF PlanInv
<1>1. CASE \E b \in Branch : AddBranch(b)
  BY <1>1, AddBranchKeeps
<1>2. CASE \E p \in Person, d \in Device : Ask(p, d)
  BY <1>2, AskKeeps
<1>3. CASE \E p \in Person : Activate(p)
  BY <1>3, ActivateKeeps
<1>4. CASE \E d \in Device : Deactivate(d)
  BY <1>4 DEF Deactivate, Typed, VerdictRead, UsedBefore
<1>5. CASE \E w \in Words : Move(w)
  BY <1>5 DEF Move, Typed, VerdictRead, UsedBefore
<1>6. CASE \E d \in Till : Pick(d)
  BY <1>6, PickKeeps
<1>7. CASE \E d \in Till : Sell(d)
  <2>1. PICK d \in Till : Sell(d)
    BY <1>7
  <2>2. now \in Nat /\ now <= now
    BY DEF Typed
  <2>3. /\ lastUsed' = [lastUsed EXCEPT ![d] = now] /\ offline' \subseteq offline
        /\ UNCHANGED <<table, word, branches, active, asking, picks, now>>
    BY <2>1 DEF Sell
  <2> QED BY <2>2, <2>3, UseKeeps
<1>8. CASE \E d \in Till : SellOffline(d)
  <2>1. PICK d \in Till : SellOffline(d)
    BY <1>8
  <2>2. now \in Nat /\ [till |-> d, at |-> now] \in [till : Till, at : Nat] /\ now <= now
    BY DEF Typed
  <2>3. offline' = {[till |-> d, at |-> now]}
    BY <2>1 DEF SellOffline
  <2> QED BY <2>1, <2>2, <2>3 DEF SellOffline, Typed, VerdictRead, UsedBefore
<1>9. CASE \E s \in offline : LandOffline(s)
  <2>1. PICK s \in offline : LandOffline(s)
    BY <1>9
  <2>2. s.till \in Till /\ s.at \in Nat /\ s.at <= now
    BY DEF Typed, UsedBefore
  <2>3. CASE lastUsed' = lastUsed
    BY <2>1, <2>3 DEF LandOffline, Typed, VerdictRead, UsedBefore
  <2>4. CASE lastUsed' = [lastUsed EXCEPT ![s.till] = s.at]
    BY <2>1, <2>2, <2>4, UseKeeps DEF LandOffline
  <2> QED BY <2>1, <2>3, <2>4 DEF LandOffline
<1>10. CASE Tick
  BY <1>10 DEF Tick, Typed, VerdictRead, UsedBefore
<1>11. CASE UNCHANGED vars
  BY <1>11 DEF vars, Typed, VerdictRead, UsedBefore
<1> QED
  BY <1>1, <1>2, <1>3, <1>4, <1>5, <1>6, <1>7, <1>8, <1>9, <1>10, <1>11 DEF Next

(* The invariant holds throughout.                                         *)
LEMMA PlanInvariance == Spec => []PlanInv
BY InitPlanInv, StepPlanInv, PTL DEF Spec

-----------------------------------------------------------------------------
(* Passing the limit: whoever activates on the count and plan of the       *)
(* moment stays within it.                                                 *)
LEMMA ActivationWithinLimit ==
    ASSUME PlanInv, NEW p \in Person, asking[p] # Idle, asking'[p] = Idle, active' # active, Next
    PROVE  LET d == asking[p].device
               kind == KindOf[d]
               limit == table.plans[Plan].limits[kind]
           IN  limit # Unlimited =>
                 \/ Cardinality(Standing(active', BranchOf[d], kind)) <= limit
                 \/ asking[p].seen # Cardinality(ActiveAt(BranchOf[d], kind))
                 \/ asking[p].plan # Plan
<1> USE DEF PlanInv
<1> DEFINE d == asking[p].device
           kind == KindOf[d]
           limit == table.plans[Plan].limits[kind]
           here == ActiveAt(BranchOf[d], kind)
           after == Standing(active', BranchOf[d], kind)
<1>1. Activate(p)
  BY DEF Next, AddBranch, Ask, Activate, Deactivate, Move, Pick, Sell, SellOffline, LandOffline,
         Tick, Typed
<1>2. asking[p] \in Asked /\ d \in Device /\ kind \in DeviceKinds
  BY Constants DEF Typed, Asked
<1>3. active' = active \union {d} /\ asking[p].verdict.code = "ok"
  BY <1>1 DEF Activate
<1>4. ASSUME limit # Unlimited, asking[p].seen = Cardinality(here), asking[p].plan = Plan
      PROVE  Cardinality(after) <= limit
  <2>1. limit \in Nat
    <3>1. kind \in LimitKinds
      BY <1>2 DEF LimitKinds
    <3>2. limit \in Nat \union {Unlimited}
      BY <3>1, PlanType, OrgPlanAssumption DEF IsTable, Typed
    <3> QED BY <1>4, <3>2
  <2>2. asking[p].seen \in Nat
    BY <1>2 DEF Asked
  <2>3. MayActivate(table, Plan, kind, asking[p].seen).code = "ok"
    BY <1>2, <1>3, <1>4 DEF VerdictRead
  <2>4. asking[p].seen < limit
    BY <1>4, <2>1, <2>2, <2>3 DEF MayActivate, Refusal
  <2>5. here \subseteq Device /\ IsFiniteSet(here) /\ Cardinality(here) \in Nat
    BY Constants DEF ActiveAt, Standing, Typed
  <2>6. after \subseteq here \union {d}
    BY <1>3 DEF ActiveAt, Standing
  <2>7. IsFiniteSet(here \union {d}) /\ Cardinality(here \union {d}) <= Cardinality(here) + 1
    <3>1. /\ IsFiniteSet(here \union {d})
          /\ Cardinality(here \union {d})
               = IF d \in here THEN Cardinality(here) ELSE Cardinality(here) + 1
      BY <2>5, FS_AddElement, Zenon
    <3> HIDE DEF here, d
    <3> QED BY <2>5, <3>1
  <2>8. Cardinality(after) <= Cardinality(here \union {d})
    BY <2>6, <2>7, FS_Subset
  <2>9. Cardinality(after) \in Nat /\ Cardinality(here \union {d}) \in Nat
    BY <2>6, <2>7, FS_Subset, FS_CardinalityType
  <2> HIDE DEF here, after, limit
  <2> QED BY <1>4, <2>1, <2>4, <2>5, <2>7, <2>8, <2>9
<1> QED BY <1>4

(* A branch passes its limit only by a count or a plan that changed, and   *)
(* what an accepted table takes away it takes away from Free first.        *)
THEOREM LimitsAlwaysHold == Spec => LimitsHold
<1>1. PlanInv /\ [Next]_vars =>
        [\A p \in Person :
         LET d == asking[p].device
             kind == KindOf[d]
             limit == table.plans[Plan].limits[kind]
         IN  (asking[p] # Idle /\ asking'[p] = Idle /\ active' # active /\ limit # Unlimited)
               => \/ Cardinality(Standing(active', BranchOf[d], kind)) <= limit
                  \/ asking[p].seen # Cardinality(ActiveAt(BranchOf[d], kind))
                  \/ asking[p].plan # Plan]_vars
  BY ActivationWithinLimit
<1>2. PlanInv => PlansNest
  BY AcceptedNest DEF PlanInv, Typed, PlansNest
<1> QED BY <1>1, <1>2, PlanInvariance, PTL DEF LimitsHold, PastTheLimitOnlyWhenStale, Spec

-----------------------------------------------------------------------------
(* The till a branch sells on.                                             *)

(* The order of UsedLater, for any record of uses.                         *)
UseOf(use, d) == IF use[d] = Never THEN -1 ELSE use[d]

Later(use, d, e) == UseOf(use, d) > UseOf(use, e) \/ (UseOf(use, d) = UseOf(use, e) /\ d < e)

IsLatest(use, S, d) == d \in S /\ \A e \in S : d = e \/ Later(use, d, e)

Uses == [Till -> Nat \union {Never}]

(* UsedLater is that order, before and after a step.                       *)
LEMMA LaterIsUsedLater ==
    /\ \A d, e : UsedLater(d, e) = Later(lastUsed, d, e)
    /\ \A d, e : UsedLater(d, e)' = Later(lastUsed', d, e)
BY DEF UsedLater, Later, UseOf

(* A use compares as an integer.                                           *)
LEMMA UseType ==
    ASSUME NEW use \in Uses, NEW d \in Till
    PROVE  UseOf(use, d) \in Int /\ UseOf(use, d) >= -1
BY DEF UseOf, Uses

(* A branch's tills have one latest.                                       *)
LEMMA OneLatest ==
    ASSUME NEW use \in Uses, NEW S \in SUBSET Till, NEW d, NEW e,
           IsLatest(use, S, d), IsLatest(use, S, e)
    PROVE  d = e
<1>1. d \in Till /\ e \in Till /\ d \in Nat /\ e \in Nat
  BY Constants DEF IsLatest
<1>2. UseOf(use, d) \in Int /\ UseOf(use, e) \in Int
  BY <1>1, UseType
<1>3. (d = e \/ Later(use, d, e)) /\ (e = d \/ Later(use, e, d))
  BY DEF IsLatest
<1> QED BY <1>1, <1>2, <1>3 DEF Later

(* Some of a branch's tills is the latest: of those least long ago, the    *)
(* smallest id.                                                            *)
LEMMA SomeLatest ==
    ASSUME NEW use \in Uses, NEW n \in Nat, \A d \in Till : use[d] # Never => use[d] <= n,
           NEW S \in SUBSET Till, S # {}
    PROVE  \E d : IsLatest(use, S, d)
<1> DEFINE gap(x) == n - UseOf(use, x)
           gaps == { gap(x) : x \in S }
<1>1. \A x \in S : UseOf(use, x) \in Int /\ UseOf(use, x) <= n
  BY OrgPlanAssumption DEF UseOf, Uses
<1>2. gaps \in SUBSET Nat /\ gaps # {}
  BY <1>1
<1>3. PICK m \in gaps : \A y \in gaps : m <= y
  BY <1>2, LeastNat
<1>4. PICK a \in S : m = gap(a)
  BY <1>3
<1>5. \A e \in S : UseOf(use, e) <= UseOf(use, a)
  BY <1>1, <1>3, <1>4
<1> DEFINE ties == { x \in S : UseOf(use, x) = UseOf(use, a) }
<1>6. ties \in SUBSET Nat /\ ties # {}
  BY <1>4, Constants
<1>7. PICK d \in ties : \A y \in ties : d <= y
  BY <1>6, LeastNat
<1>8. ASSUME NEW e \in S
      PROVE  d = e \/ Later(use, d, e)
  <2>1. d \in Nat /\ e \in Nat /\ d \in S /\ UseOf(use, d) = UseOf(use, a)
    BY <1>6, <1>7, Constants
  <2>2. CASE e \in ties
    BY <1>7, <2>1, <2>2 DEF Later
  <2>3. CASE e \notin ties
    BY <1>1, <1>4, <1>5, <2>1, <2>3 DEF Later
  <2> QED BY <2>2, <2>3
<1> QED BY <1>7, <1>8 DEF IsLatest

(* A branch's tills are active tills of that branch.                       *)
LEMMA TillsAtType ==
    ASSUME Typed, NEW b
    PROVE  TillsAt(b) \in SUBSET Till /\ TillsAt(b) \subseteq active /\ \A d \in TillsAt(b) : BranchOf[d] = b
BY DEF Typed, TillsAt, ActiveAt, Standing, Till

(* The till CHOOSE takes is the latest.                                    *)
LEMMA MostRecentIsLatest ==
    ASSUME PlanInv, NEW b, TillsAt(b) # {}
    PROVE  IsLatest(lastUsed, TillsAt(b), MostRecent(b))
<1>1. PICK d : IsLatest(lastUsed, TillsAt(b), d)
  BY SomeLatest, TillsAtType DEF PlanInv, Typed, UsedBefore, Uses
<1>2. MostRecent(b) = CHOOSE x \in TillsAt(b) : \A e \in TillsAt(b) : x = e \/ Later(lastUsed, x, e)
  BY LaterIsUsedLater DEF MostRecent
<1> QED BY <1>1, <1>2 DEF IsLatest

(* The owner's choices that name one of the branch's tills.                *)
PicksAt(b) == { i \in DOMAIN picks : picks[i].branch = b /\ picks[i].device \in TillsAt(b) }

(* The owner's choice, if any, is one till of the branch.                  *)
LEMMA PickedIsLatestChoice ==
    ASSUME Typed, NEW b
    PROVE  /\ PicksAt(b) = {} => Picked(b) = {}
           /\ PicksAt(b) # {} =>
                \E i \in PicksAt(b) : (\A j \in PicksAt(b) : j <= i) /\ Picked(b) = {picks[i].device}
<1>1. PicksAt(b) = {} => Picked(b) = {}
  BY DEF Picked, PicksAt
<1>2. ASSUME PicksAt(b) # {}
      PROVE  \E i \in PicksAt(b) : (\A j \in PicksAt(b) : j <= i) /\ Picked(b) = {picks[i].device}
  <2>1. Len(picks) \in Nat /\ DOMAIN picks = 1..Len(picks)
    BY DEF Typed
  <2> DEFINE gaps == { Len(picks) - i : i \in PicksAt(b) }
  <2>2. PicksAt(b) \subseteq 1..Len(picks)
    BY <2>1 DEF PicksAt
  <2>3. gaps \in SUBSET Nat /\ gaps # {}
    BY <1>2, <2>1, <2>2
  <2>4. PICK m \in gaps : \A y \in gaps : m <= y
    BY <2>3, LeastNat
  <2>5. PICK i \in PicksAt(b) : m = Len(picks) - i
    BY <2>4
  <2>6. \A j \in PicksAt(b) : j <= i
    <3> SUFFICES ASSUME NEW j \in PicksAt(b) PROVE j <= i
      OBVIOUS
    <3>1. Len(picks) - i <= Len(picks) - j
      BY <2>4, <2>5
    <3>2. i \in Nat /\ j \in Nat
      BY <2>1, <2>2
    <3> QED BY <2>1, <3>1, <3>2
  <2> DEFINE last == CHOOSE k \in PicksAt(b) : \A j \in PicksAt(b) : j <= k
  <2>7. last \in PicksAt(b) /\ \A j \in PicksAt(b) : j <= last
    BY <2>6
  <2>8. Picked(b) = {picks[last].device}
    BY <1>2 DEF Picked, PicksAt
  <2> HIDE DEF last
  <2> QED BY <2>7, <2>8
<1> QED BY <1>1, <1>2

(* The till a branch keeps.                                                *)
Kept(b) == IF Picked(b) # {} THEN CHOOSE d \in Picked(b) : TRUE ELSE MostRecent(b)

(* The till a branch keeps is one of its own, and the owner's latest       *)
(* choice when one counts.                                                 *)
LEMMA KeptIsTill ==
    ASSUME PlanInv, NEW b, TillsAt(b) # {}
    PROVE  /\ Kept(b) \in TillsAt(b)
           /\ \A i \in PicksAt(b) : (\A j \in PicksAt(b) : j <= i) => Kept(b) = picks[i].device
<1>1. CASE PicksAt(b) = {}
  BY <1>1, PickedIsLatestChoice, MostRecentIsLatest DEF Kept, PlanInv, IsLatest
<1>2. CASE PicksAt(b) # {}
  <2>1. PICK i \in PicksAt(b) : (\A j \in PicksAt(b) : j <= i) /\ Picked(b) = {picks[i].device}
    BY <1>2, PickedIsLatestChoice DEF PlanInv
  <2>2. Kept(b) = picks[i].device
    BY <2>1 DEF Kept
  <2>3. \A k \in PicksAt(b) : (\A j \in PicksAt(b) : j <= k) => k = i
    <3>1. \A k \in PicksAt(b) : k \in Int
      BY DEF PicksAt, PlanInv, Typed
    <3> QED BY <2>1, <3>1
  <2>4. picks[i].device \in TillsAt(b)
    BY DEF PicksAt
  <2> QED BY <2>2, <2>3, <2>4
<1> QED BY <1>1, <1>2

(* Keeps, branch by branch.                                                *)
LEMMA KeepsAre == Keeps = { Kept(b) : b \in { b \in Branch : TillsAt(b) # {} } }
BY DEF Keeps, Kept

(* A branch on Free sells on one till.                                     *)
LEMMA OneTill == ASSUME PlanInv PROVE SellsOnOneTill
<1> SUFFICES ASSUME Plan = "free", NEW b \in Branch
             PROVE  LET here == { d \in Selling : BranchOf[d] = b }
                    IN  /\ Cardinality(here) = (IF TillsAt(b) = {} THEN 0 ELSE 1)
                        /\ here \subseteq active
                        /\ \A i \in PicksAt(b) : (\A j \in PicksAt(b) : j <= i) => here = {picks[i].device}
  BY DEF SellsOnOneTill, PicksAt
<1> DEFINE here == { d \in Selling : BranchOf[d] = b }
<1>0. Typed
  BY DEF PlanInv
<1>1. Selling = { Kept(c) : c \in { c \in Branch : TillsAt(c) # {} } }
  BY KeepsAre DEF Selling
<1>2. \A c \in Branch : TillsAt(c) # {} => Kept(c) \in TillsAt(c) /\ BranchOf[Kept(c)] = c
  BY <1>0, KeptIsTill, TillsAtType
<1>3. here = IF TillsAt(b) = {} THEN {} ELSE {Kept(b)}
  BY <1>1, <1>2
<1>4. here \subseteq active
  BY <1>0, <1>2, <1>3, TillsAtType
<1>5. Cardinality(here) = (IF TillsAt(b) = {} THEN 0 ELSE 1)
  BY <1>3, FS_EmptySet, FS_Singleton
<1>6. \A i \in PicksAt(b) : (\A j \in PicksAt(b) : j <= i) => here = {picks[i].device}
  <2>1. PicksAt(b) # {} => TillsAt(b) # {}
    BY DEF PicksAt
  <2> QED BY <1>3, <2>1, KeptIsTill
<1> QED BY <1>4, <1>5, <1>6

(* A sale on the till a Free branch sells on leaves it there.              *)
LEMMA SaleLeavesIt ==
    ASSUME PlanInv, PlanInv', Plan = "free", NEW d \in Till, d \in Selling,
           lastUsed' = [lastUsed EXCEPT ![d] = now], lastUsed'[d] # lastUsed[d],
           UNCHANGED <<table, word, branches, active, picks, now>>
    PROVE  Selling' = Selling
<1>0. Typed /\ Typed' /\ lastUsed \in Uses /\ lastUsed' \in Uses /\ now \in Nat
  BY DEF PlanInv, Typed, Uses
<1>1. \A b : TillsAt(b)' = TillsAt(b) /\ PicksAt(b)' = PicksAt(b) /\ Picked(b)' = Picked(b)
  BY DEF TillsAt, ActiveAt, Standing, PicksAt, Picked
<1>2. PICK home \in Branch : TillsAt(home) # {} /\ d = Kept(home)
  BY KeepsAre DEF Selling
<1>3. d \in TillsAt(home)
  BY <1>2, KeptIsTill
<1>4. ASSUME NEW b \in Branch, TillsAt(b) # {}, Picked(b) = {}
      PROVE  MostRecent(b)' = MostRecent(b)
  <2> DEFINE kept == MostRecent(b)
             S == TillsAt(b)
  <2>1. S \in SUBSET Till /\ \A e \in S : BranchOf[e] = b
    BY <1>0, TillsAtType
  <2>2. IsLatest(lastUsed, S, kept)
    BY <1>4, MostRecentIsLatest
  <2>3. IsLatest(lastUsed', S, kept)
    <3>1. CASE b = home
      <4>1. kept = d
        BY <1>2, <1>4, <3>1 DEF Kept
      <4>2. UseOf(lastUsed', d) = now /\ UseOf(lastUsed, d) <= now /\ UseOf(lastUsed, d) # now
        BY <1>0, OrgPlanAssumption DEF UseOf, Uses, PlanInv, UsedBefore
      <4>3. ASSUME NEW e \in S, e # d
            PROVE  Later(lastUsed', d, e)
        <5>1. UseOf(lastUsed', e) = UseOf(lastUsed, e)
          BY <1>0, <2>1, <4>3 DEF UseOf, Uses
        <5>2. Later(lastUsed, d, e)
          BY <2>2, <4>1, <4>3 DEF IsLatest
        <5>3. UseOf(lastUsed, e) \in Int /\ UseOf(lastUsed, d) \in Int
          BY <1>0, <2>1, UseType
        <5> QED BY <1>0, <4>2, <5>1, <5>2, <5>3 DEF Later
      <4> QED BY <2>2, <4>1, <4>3 DEF IsLatest
    <3>2. CASE b # home
      <4>1. d \notin S
        BY <1>0, <1>3, <2>1, <3>2, TillsAtType
      <4>2. \A e \in S : UseOf(lastUsed', e) = UseOf(lastUsed, e)
        BY <1>0, <2>1, <4>1 DEF UseOf, Uses
      <4> QED BY <2>2, <4>2 DEF IsLatest, Later
    <3> QED BY <3>1, <3>2
  <2>4. MostRecent(b)' = CHOOSE x \in S : \A e \in S : x = e \/ Later(lastUsed', x, e)
    BY <1>1, LaterIsUsedLater DEF MostRecent
  <2>5. IsLatest(lastUsed', S, MostRecent(b)')
    <3> HIDE DEF kept, S
    <3> QED BY <2>3, <2>4 DEF IsLatest
  <2> QED BY <1>0, <2>1, <2>3, <2>5, OneLatest
<1>5. ASSUME NEW b \in Branch, TillsAt(b) # {}
      PROVE  Kept(b)' = Kept(b)
  <2>1. CASE Picked(b) = {}
    BY <1>1, <1>4, <1>5, <2>1 DEF Kept
  <2>2. CASE Picked(b) # {}
    <3>1. PICK i : Picked(b) = {picks[i].device}
      BY <1>0, <2>2, PickedIsLatestChoice
    <3>2. Kept(b) = picks[i].device
      BY <3>1 DEF Kept
    <3>3. Picked(b)' = {picks[i].device}
      BY <1>1, <3>1
    <3>4. Kept(b)' = picks[i].device
      BY <3>3 DEF Kept
    <3> QED BY <3>2, <3>4
  <2> QED BY <2>1, <2>2
<1>6. Keeps' = { Kept(b)' : b \in { b \in Branch : TillsAt(b)' # {} } }
  BY DEF Keeps, Kept
<1>7. Keeps' = Keeps
  BY <1>1, <1>5, <1>6, KeepsAre
<1>8. Plan' = Plan
  BY DEF Plan
<1> QED BY <1>7, <1>8 DEF Selling

(* A step that marks a use of a selling till now is a sale on it, or an    *)
(* offline sale of this moment landing: both leave it where it is.         *)
LEMMA SalesKeepIt ==
    ASSUME PlanInv, PlanInv', [Next]_vars, NEW d \in Till, Plan = "free", d \in Selling,
           lastUsed'[d] = now, lastUsed'[d] # lastUsed[d]
    PROVE  Selling' = Selling
<1>0. Typed
  BY DEF PlanInv
<1>1. CASE \E e \in Till : Sell(e)
  <2>1. PICK e \in Till : Sell(e)
    BY <1>1
  <2>2. e = d
    BY <1>0, <2>1 DEF Sell, Typed
  <2> QED BY <2>1, <2>2, SaleLeavesIt DEF Sell
<1>2. CASE \E s \in offline : LandOffline(s)
  <2>1. PICK s \in offline : LandOffline(s)
    BY <1>2
  <2>2. lastUsed' = [lastUsed EXCEPT ![s.till] = s.at]
    BY <2>1 DEF LandOffline
  <2>3. s.till = d /\ s.at = now
    BY <1>0, <2>1, <2>2 DEF Typed
  <2> QED BY <2>1, <2>2, <2>3, SaleLeavesIt DEF LandOffline
<1>3. CASE UNCHANGED lastUsed
  BY <1>3
<1> QED
  BY <1>1, <1>2, <1>3 DEF Next, vars, AddBranch, Ask, Activate, Deactivate, Move, Pick,
       SellOffline, Tick

(* A branch on Free that has tills sells on exactly one of them, and sales *)
(* do not move it.                                                         *)
THEOREM OneTillStands == Spec => SellingTillStands
<1>1. PlanInv => SellsOnOneTill
  BY OneTill
<1>2. PlanInv /\ PlanInv' /\ [Next]_vars =>
        [\A d \in Till :
         (Plan = "free" /\ d \in Selling /\ lastUsed'[d] = now /\ lastUsed'[d] # lastUsed[d])
           => Selling' = Selling]_vars
  BY SalesKeepIt
<1> QED BY <1>1, <1>2, PlanInvariance, PTL DEF SellingTillStands, SalesDoNotMoveIt, Spec
===============================================================================
