------------------------------- MODULE Registry -------------------------------
(***************************************************************************)
(* The capability registry: the checks authz-gen runs on a registry file   *)
(* and the copies it writes of it (src/authz/gen main.rs), and what the    *)
(* applications read from a copy: a kind's core, a template's grants and   *)
(* limits, an old tablet's cells (madar-authz lib.rs).                     *)
(*                                                                         *)
(* A file is [caps, templates].  A capability: [id, key, legacy, group,    *)
(* tier, risk, defaults, core, limits, en, ar], legacy the cell old        *)
(* tablets know it by, or None.  A template: [roles, add, remove, limits], *)
(* add and remove sets of [kind, key] and limits of [kind, key, keys],     *)
(* keys being the limits it sets; their figures are left out, and so are   *)
(* the fields no check and no rule reads.                                  *)
(***************************************************************************)
EXTENDS Rounding, FiniteSets

CONSTANTS
    MalformedKeys,    \* keys that are not lower case, dots and underscores
    MalformedCells,   \* cells without a colon
    KnownGroups,      \* the groups the file lists
    Blank,            \* a label of spaces
    Drafts,           \* the registry files the work may start from
    CapEdits,         \* what may be written over: a field and its text
    TemplateEdits,    \* the same of a template
    MaxChanges        \* BOUND: edits of the file

VARIABLES
    registry,   \* the file
    copies,     \* copies[place]: the file the place's copy was generated from
    vouched     \* the places the last run of the generator said are current

registryVars == <<registry, copies, vouched>>

RoleKinds == {"org_admin", "branch_manager", "teller", "waiter", "kitchen"}
FloorKinds == {"teller", "waiter", "kitchen"}
Tiers == {"core", "configurable", "advanced", "legacy"}
Risks == {"normal", "money", "pii", "admin"}
LimitKeys == {"max_amount", "max_percent", "max_value", "max_age_minutes", "own"}
WORDS == 4

CapFields ==
    {"id", "key", "legacy", "group", "tier", "risk", "defaults", "core", "limits", "en", "ar"}
TemplateFields == {"roles", "add", "remove", "limits"}

(* A file as it is read: no more is asked of it before it is checked.      *)
IsFile(file) ==
    /\ DOMAIN file = {"caps", "templates"}
    /\ DOMAIN file.caps \subseteq Nat \ {0}
    /\ \A i \in DOMAIN file.caps : DOMAIN file.caps[i] = CapFields
    /\ \A name \in DOMAIN file.templates : DOMAIN file.templates[name] = TemplateFields

ASSUME RegistryAssumption ==
    /\ \A file \in Drafts : IsFile(file)
    /\ \A edit \in CapEdits : edit.field \in CapFields
    /\ \A edit \in TemplateEdits : edit.field \in TemplateFields

-----------------------------------------------------------------------------
(* validate.                                                               *)
Unrepeated(caps, i, field) == \A j \in 1..(i - 1) : caps[j][field] # caps[i][field]

CellAccepted(caps, i) ==
    caps[i].legacy # None =>
        /\ caps[i].legacy \notin MalformedCells
        /\ Unrepeated(caps, i, "legacy")

(* Mutant: core may widen what a kind has.                                 *)
CoreAcceptedWide(c) == c.tier = "core" <=> c.core # {}

(* Core goes with the tier, and to a kind that has the capability anyway.  *)
CoreAccepted(c) ==
    /\ c.core \subseteq c.defaults
    /\ c.tier = "core" <=> c.core # {}


KindsRead(c) == c.defaults \union c.core \subseteq RoleKinds

KindsAccepted(c) ==
    /\ KindsRead(c)
    /\ CoreAccepted(c)
    /\ c.risk = "admin" => c.defaults \intersect FloorKinds = {}

CapAccepted(caps, i) ==
    LET c == caps[i]
    IN  /\ c.id \in 1..(WORDS * 64 - 1) /\ Unrepeated(caps, i, "id")
        /\ c.key \notin MalformedKeys /\ Unrepeated(caps, i, "key")
        /\ CellAccepted(caps, i)
        /\ c.group \in KnownGroups /\ c.tier \in Tiers /\ c.risk \in Risks
        /\ KindsAccepted(c)
        /\ c.limits \subseteq LimitKeys
        /\ Blank \notin {c.en, c.ar} /\ c.en # c.ar

TemplateAccepted(caps, t) ==
    LET named(key) == { c \in ToSet(caps) : c.key = key }
    IN  /\ t.roles \subseteq RoleKinds
        /\ \A g \in t.add \union t.remove : g.kind \in RoleKinds /\ named(g.key) # {}
        /\ \A l \in t.limits :
              /\ l.kind \in RoleKinds
              /\ l.keys # {} /\ \E c \in named(l.key) : l.keys \subseteq c.limits
        /\ \A g \in t.add : \A c \in named(g.key) : c.risk = "admin" => g.kind \notin FloorKinds

FileAccepted(file) ==
    /\ \A i \in DOMAIN file.caps : CapAccepted(file.caps, i)
    /\ \A name \in DOMAIN file.templates : TemplateAccepted(file.caps, file.templates[name])

-----------------------------------------------------------------------------
(* What a copy holds: the capabilities, whose order by id only serves the  *)
(* lookup, and the templates as written.                                   *)
Table(file) == [file EXCEPT !.caps = ToSet(@)]

(* A set of capabilities is a set of their ids.                            *)
CapSet(caps) == { c.id : c \in caps }

CoreSet(table, kind) == CapSet({ c \in table.caps : kind \in c.core })

OwnersSet(table) == CapSet({ c \in table.caps : c.tier # "legacy" })

FromKey(table, key) == CHOOSE c \in table.caps : c.key = key

FromLegacy(table, cell) == { c \in table.caps : c.legacy = cell }

(* The defaults of a kind with the template's additions and without its    *)
(* removals; core stays.                                                   *)
TemplateGrants(table, name, kind) ==
    LET t == table.templates[name]
        ids(grants) == CapSet({ FromKey(table, g.key) : g \in { g \in grants : g.kind = kind } })
        defaults == CapSet({ c \in table.caps : kind \in c.defaults })
    IN  ((defaults \union ids(t.add)) \ ids(t.remove)) \union CoreSet(table, kind)

TemplateLimits(table, name, kind) == { l \in table.templates[name].limits : l.kind = kind }

(* Whether an old tablet is told it has the cell.                          *)
GrantedCell(table, held, cell) == \E c \in FromLegacy(table, cell) : c.id \in held

(* The grants a role kept as cells maps to.                                *)
CapsFromCells(table, cells) == CapSet(UNION { FromLegacy(table, cell) : cell \in cells })

-----------------------------------------------------------------------------
Places == {"crate", "dashboard", "pos"}

(* The order they are written in.                                          *)
InOrder == <<"crate", "dashboard", "pos">>

RegistryInit ==
    /\ registry \in [file : { file \in Drafts : FileAccepted(file) }, changes : {0}]
    /\ copies = [place \in Places |-> registry.file]
    /\ vouched = {}

Edit(file) ==
    /\ registry.changes < MaxChanges
    /\ registry' = [file |-> file, changes |-> registry.changes + 1]
    /\ vouched' = {}
    /\ UNCHANGED copies

EditCap ==
    \E i \in DOMAIN registry.file.caps, edit \in CapEdits :
        Edit([registry.file EXCEPT !.caps[i][edit.field] = edit.text])

EditTemplate ==
    \E name \in DOMAIN registry.file.templates, edit \in TemplateEdits :
        Edit([registry.file EXCEPT !.templates[name][edit.field] = edit.text])

(* A run looks at the crate's copy and at those of the applications it is  *)
(* pointed at.                                                             *)
Looked(apps) == {"crate"} \union apps

Stale(apps) == { place \in Looked(apps) : copies[place] # registry.file }

(* It writes what is stale, in order, and may stop at a file it cannot     *)
(* write.                                                                  *)
Generate(apps) ==
    /\ FileAccepted(registry.file)
    /\ \E n \in DOMAIN InOrder :
          LET reached == { InOrder[k] : k \in 1..n } \intersect Looked(apps)
          IN  /\ copies' = [place \in Places |-> IF place \in reached THEN registry.file ELSE copies[place]]
              /\ vouched' = IF reached = Looked(apps) THEN reached ELSE {}
    /\ UNCHANGED registry

(* With --check it writes nothing and fails when anything is stale.        *)
CheckCopies(apps) ==
    /\ vouched' = IF FileAccepted(registry.file) /\ Stale(apps) = {} THEN Looked(apps) ELSE {}
    /\ UNCHANGED <<registry, copies>>

RegistryNext ==
    \/ EditCap \/ EditTemplate
    \/ \E apps \in SUBSET (Places \ {"crate"}) : Generate(apps) \/ CheckCopies(apps)

-----------------------------------------------------------------------------
Lists(grants, kind, c) == \E g \in grants : g.kind = kind /\ g.key = c.key

(* A template gives a capability only to a kind that has it by default, as *)
(* core or by name, and takes all it says but the core: no two             *)
(* capabilities are one bit.                                               *)
NothingRidesAlong(table, name, kind) ==
    LET t == table.templates[name]
    IN  \A c \in table.caps :
          c.id \in TemplateGrants(table, name, kind) <=>
            \/ kind \in c.core
            \/ (kind \in c.defaults \/ Lists(t.add, kind, c)) /\ ~Lists(t.remove, kind, c)

(* However defaults, core and templates are written, no template gives a   *)
(* floor kind what is for administrators.                                  *)
NoAdminOnTheFloor(table, name, kind) ==
    kind \in FloorKinds =>
        \A c \in table.caps : c.id \in TemplateGrants(table, name, kind) => c.risk # "admin"

(* A limit of a template stays whole when resolve drops the keys its       *)
(* capability does not take.                                               *)
LimitsHeld(table, name, kind) ==
    \A l \in TemplateLimits(table, name, kind) :
        l.keys \intersect FromKey(table, l.key).limits = l.keys /\ l.keys # {}

Cells(table) == { c.legacy : c \in table.caps } \ {None}

(* An old tablet is told of each capability whether the person holds it,   *)
(* and a role kept as cells answers it for the same cells.                 *)
OldTabletsSeeTheSame(table) ==
    /\ \A held \in SUBSET CapSet(table.caps) : \A c \in table.caps :
          c.legacy # None => (GrantedCell(table, held, c.legacy) <=> c.id \in held)
    /\ \A held \in SUBSET Cells(table) :
          { cell \in Cells(table) : GrantedCell(table, CapsFromCells(table, held), cell) } = held

CopyHolds(table) ==
    /\ \A name \in DOMAIN table.templates, kind \in RoleKinds :
          /\ NothingRidesAlong(table, name, kind)
          /\ NoAdminOnTheFloor(table, name, kind)
          /\ LimitsHeld(table, name, kind)
    /\ OldTabletsSeeTheSame(table)
    /\ \A kind \in RoleKinds : CoreSet(table, kind) \subseteq OwnersSet(table)

(* Every copy there is, however the file was edited and the generator run, *)
(* keeps what authz/spec/capabilities.toml:14-22 says of the registry; an  *)
(* owner holds every kind's core; and a run that ends well leaves each     *)
(* place it looked at with the file as it is.                              *)
RegistryHolds ==
    /\ \A file \in { copies[place] : place \in Places } : CopyHolds(Table(file))
    /\ \A place \in vouched : copies[place] = registry.file

RegistrySpec == RegistryInit /\ [][RegistryNext]_registryVars
=============================================================================
