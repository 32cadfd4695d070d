---------------------------- MODULE FoodicsImport ----------------------------
(***************************************************************************)
(* A menu read from the files a Foodics console exports (madar-menu        *)
(* foodics.rs): which file is which, then categories, items, groups,       *)
(* links, options, what is a size, what is kept, and the extras, with a    *)
(* warning for what is skipped or changed.                                 *)
(*                                                                         *)
(* `files` is what the owner passes, each [header, broken, rows]; the rows *)
(* are edited between two readings.  A cell is a name ("" when blank), a   *)
(* yes/no word, or a number: thousandths, None when blank, Word when it is *)
(* something else.  A row blank throughout is no row, and what the csv     *)
(* reader makes of broken text is `broken`.                                *)
(***************************************************************************)
EXTENDS BulkMenu

CONSTANTS
    Word,        \* a cell that should hold a number and does not
    MaxFileRows, \* rows one file may hold
    SizeNames,   \* keys a group of sizes goes by
    SizeLike,    \* keys that read like a size
    MilkLike,    \* keys with milk in them
    BeanLike,    \* keys with beans in them
    Exports,     \* the files there may be at the start
    RowsOf,      \* RowsOf[kind]: rows an owner may add to a file
    MaxEdits     \* bound: edits of an export

VARIABLES files, edits

importVars == <<files, edits>>

Uncategorized == "Uncategorized"
UncategorizedAr == "uncategorized_ar"
Unbounded == 2147483647

Headers ==
    [categories |-> {"id", "name", "name_localized", "reference", "image"},
     products |-> {"id", "name", "sku", "category_reference", "is_active", "price", "description",
                   "name_localized", "description_localized"},
     links |-> {"product_sku", "modifier_name", "modifier_name_localized", "modifier_reference",
                "minimum_options", "maximum_options"},
     groups |-> {"id", "reference", "name", "name_localized"},
     options |-> {"id", "modifier_reference", "modifier_name", "name", "sku", "price",
                  "name_localized", "is_active"},
     optionals |-> {"product_sku", "product_name", "name", "name_localized", "price"}]

Kinds == DOMAIN Headers
AskedFor == {"categories", "links", "groups", "options"}

(* A file is the kind whose whole header it carries; with several, the one *)
(* with the most columns.  None when it is no kind.                        *)
Detect(header) ==
    LET carried == { kind \in Kinds : Headers[kind] \subseteq header }
    IN  IF carried = {} THEN None
        ELSE CHOOSE kind \in carried :
                 \A other \in carried : Cardinality(Headers[kind]) >= Cardinality(Headers[other])

(* What is wrong with a file, after the ones before it.                    *)
FileError(k) ==
    LET kind == Detect(files[k].header)
    IN  IF kind = None THEN "unknown_file"
        ELSE IF \E j \in 1..(k - 1) : Detect(files[j].header) = kind THEN "duplicate_file"
        ELSE IF files[k].broken THEN "bad_csv"
        ELSE IF Len(files[k].rows) > MaxFileRows THEN "too_big" ELSE None

FilesError ==
    LET failed == { k \in DOMAIN files : FileError(k) # None }
        first == CHOOSE k \in failed : \A j \in failed : k <= j
    IN  IF failed # {} THEN FileError(first)
        ELSE IF \A k \in DOMAIN files : Detect(files[k].header) # "products"
        THEN "missing_products" ELSE None

Given == { Detect(files[k].header) : k \in DOMAIN files }
Rows(kind) ==
    IF kind \notin Given THEN <<>>
    ELSE files[CHOOSE k \in DOMAIN files : Detect(files[k].header) = kind].rows

-----------------------------------------------------------------------------
(* A warning is about a row of a file, or about a group (or a file) by     *)
(* name.                                                                   *)
AtRow(file, row, issue) == [file |-> file, row |-> row, issue |-> issue, about |-> ""]
About(name, issue) == [file |-> "", row |-> 0, issue |-> issue, about |-> name]

(* Thousandths of a pound to piastres, half away from zero; Word when the  *)
(* cell is not an amount (the reader takes no sign).                       *)
Piastres(cell) ==
    IF cell = None THEN 0
    ELSE IF cell = Word THEN Word
    ELSE IF cell < 0 THEN Word ELSE (cell + 5) \div 10

(* A whole number, written with or without ".0".                           *)
Whole(cell) ==
    IF cell = None THEN 0
    ELSE IF cell = Word THEN Word
    ELSE IF cell < 0 \/ cell % 1000 # 0 THEN Word ELSE cell \div 1000

IsYes(word) == word # "no"
YesNoWarnings(kind, i, word) ==
    IF word \in {"", "yes", "no"} THEN {} ELSE {AtRow(kind, i, "not_yes_no")}

(* The rows of a file are read one after another, each on what the ones    *)
(* before it made: ReadRow(made, row, i), with the refusing row's issue in *)
(* Issue(made, row) when it is skipped.                                    *)
ReadRows(kind, start, Issue(_, _), ReadRow(_, _, _)) ==
    FoldLeftDomain(
        LAMBDA made, i :
            LET row == Rows(kind)[i]
                issue == Issue(made, row)
            IN  IF issue = None THEN ReadRow(made, row, i)
                ELSE [made EXCEPT !.warnings = @ \union {AtRow(kind, i, issue)}],
        start, Rows(kind))

Find(list, Test(_)) == SelectInSeq(list, Test)
Named(list, name) == Find(list, LAMBDA x : NameKey[x.name] = NameKey[name])

NoRefs == [key \in {} |-> 0]
NothingRead == [categories |-> <<>>, categoryOf |-> NoRefs, items |-> <<>>, itemOf |-> NoRefs,
                groups |-> <<>>, links |-> <<>>, kept |-> <<>>, source |-> <<>>, warnings |-> {}]

(* A key finds what it named first.                                        *)
Refer(refs, key, at) == IF key = "" \/ key \in DOMAIN refs THEN refs ELSE refs @@ (key :> at)

-----------------------------------------------------------------------------
(* Categories: one per name; a reference finds it.                         *)
CategoriesRead ==
    LET issue(made, row) == IF row.name = "" THEN "blank_name" ELSE None
        add(made, row, i) ==
            LET known == Named(made.categories, row.name)
                at == IF known = 0 THEN Len(made.categories) + 1 ELSE known
            IN  [made EXCEPT
                    !.categories = IF known # 0 THEN @
                                   ELSE Append(@, [key |-> at, name |-> row.name, ar |-> row.ar]),
                    !.categoryOf = Refer(@, row.ref, at),
                    !.warnings = IF known = 0 THEN @
                                 ELSE @ \union {AtRow("categories", i, "duplicate")}]
    IN  ReadRows("categories", NothingRead, issue, add)

(* A product with no category goes to Uncategorized, made when first       *)
(* needed.                                                                 *)
CategoryOfProduct(made, row) ==
    IF row.category # "" /\ row.category \in DOMAIN made.categoryOf THEN made.categoryOf[row.category]
    ELSE LET known == Named(made.categories, Uncategorized)
         IN  IF known = 0 THEN Len(made.categories) + 1 ELSE known

(* Items: one per name; a SKU finds it, a second name's SKU the first.     *)
ItemsRead ==
    LET issue(made, row) ==
            IF row.name = "" THEN "blank_name"
            ELSE IF Named(made.items, row.name) # 0 THEN None
            ELSE IF row.sku \in DOMAIN made.itemOf THEN "duplicate_sku"
            ELSE IF Piastres(row.price) = Word THEN "not_a_number" ELSE None
        again(made, row, i) ==
            [made EXCEPT !.itemOf = Refer(@, row.sku, Named(made.items, row.name)),
                         !.warnings = @ \union {AtRow("products", i, "duplicate")}]
        add(made, row, i) ==
            LET category == CategoryOfProduct(made, row)
                loose == row.category = "" \/ row.category \notin DOMAIN made.categoryOf
            IN  [made EXCEPT
                    !.categories =
                        IF category <= Len(@) THEN @
                        ELSE Append(@, [key |-> category, name |-> Uncategorized,
                                        ar |-> UncategorizedAr]),
                    !.items = Append(@, [name |-> row.name, ar |-> row.ar, category |-> category,
                                         price |-> Piastres(row.price),
                                         active |-> IsYes(row.active),
                                         sizes |-> <<>>, groups |-> <<>>, optionals |-> <<>>]),
                    !.itemOf = Refer(@, row.sku, Len(made.items) + 1),
                    !.warnings = @ \union (IF loose THEN {AtRow("products", i, "uncategorized")} ELSE {})
                                   \union YesNoWarnings("products", i, row.active)]
    IN  ReadRows("products", CategoriesRead, issue,
                 LAMBDA made, row, i : IF Named(made.items, row.name) # 0 THEN again(made, row, i)
                                       ELSE add(made, row, i))

-----------------------------------------------------------------------------
(* A group is keyed by its reference, else its name; the first file that   *)
(* has its Arabic name gives it.                                           *)
GroupKey(ref, name) == IF ref = "" THEN name ELSE ref
Keyed(groups, key) == Find(groups, LAMBDA g : g.key = key)

AddGroup(groups, key, name, ar) ==
    LET at == Keyed(groups, key)
    IN  IF at # 0
        THEN [groups EXCEPT ![at].ar = IF @ = None THEN ar ELSE @]
        ELSE Append(groups, [key |-> key, name |-> name, ar |-> ar, options |-> <<>>, uses |-> <<>>])

GroupsRead ==
    LET issue(made, row) == IF row.name = "" THEN "blank_name" ELSE None
    IN  ReadRows("groups", ItemsRead, issue,
                 LAMBDA made, row, i :
                     [made EXCEPT !.groups = AddGroup(@, GroupKey(row.ref, row.name), row.name, row.ar)])

(* Links of products to groups; a group no row has named yet is made.      *)
LinksRead ==
    LET issue(made, row) ==
            IF row.name = "" THEN "blank_name"
            ELSE IF row.sku \notin DOMAIN made.itemOf THEN "unknown_sku"
            ELSE IF Word \in {Whole(row.min), Whole(row.max)} THEN "not_a_number" ELSE None
        add(made, row, i) ==
            LET key == GroupKey(row.ref, row.name)
                groups == AddGroup(made.groups, key, row.name, row.ar)
                use == [min |-> Whole(row.min),
                        max |-> IF Whole(row.max) = 0 THEN None ELSE Whole(row.max)]
                link == [item |-> made.itemOf[row.sku], group |-> key,
                         min |-> use.min, max |-> use.max, row |-> i]
                twice == \E l \in DOMAIN made.links :
                             made.links[l].item = link.item /\ made.links[l].group = key
            IN  IF twice
                THEN [made EXCEPT !.groups = groups,
                                  !.warnings = @ \union {AtRow("links", i, "duplicate_link")}]
                ELSE [made EXCEPT
                         !.groups = [groups EXCEPT ![Keyed(groups, key)].uses = Append(@, use)],
                         !.links = Append(@, link)]
    IN  ReadRows("links", GroupsRead, issue, add)

(* Options: one per name within a group.                                   *)
OptionsRead ==
    LET at(made, row) == Keyed(made.groups, GroupKey(row.ref, row.group))
        issue(made, row) ==
            IF row.name = "" THEN "blank_name"
            ELSE IF at(made, row) = 0 THEN "unknown_group"
            ELSE IF Named(made.groups[at(made, row)].options, row.name) # 0 THEN "duplicate"
            ELSE IF Piastres(row.price) = Word THEN "not_a_number" ELSE None
        add(made, row, i) ==
            [made EXCEPT
                !.groups[at(made, row)].options =
                    Append(@, [name |-> row.name, ar |-> row.ar, price |-> Piastres(row.price),
                               active |-> IsYes(row.active)]),
                !.warnings = @ \union YesNoWarnings("options", i, row.active)]
    IN  ReadRows("options", LinksRead, issue, add)

-----------------------------------------------------------------------------
(* Which groups are the products' sizes: by reference, or by name when     *)
(* they look like sizes everywhere.                                        *)
NamedSizes(group) == NameKey[group.name] \in SizeNames

LooksLikeSizes(group) ==
    /\ group.uses # <<>>
    /\ \A u \in DOMAIN group.uses : group.uses[u] = [min |-> 1, max |-> 1]
    /\ Len(group.options) \in 2..6
    /\ \A o \in DOMAIN group.options : NameKey[group.options[o].name] \in SizeLike

ReadAsSizes(group) == group.key = "size" \/ (NamedSizes(group) /\ LooksLikeSizes(group))

SizeWarnings(group) ==
    IF group.key = "size" \/ ~NamedSizes(group) THEN {}
    ELSE {About(group.name, IF LooksLikeSizes(group) THEN "sizes_by_name" ELSE "looks_like_sizes")}

(* Mutant: sizes none of which is on sale are kept.                        *)
LeftOutEmpty(group) == group.options = <<>>

(* A group with no options, or a size nobody can pick, is left out.        *)
LeftOut(group) == group.options = <<>> \/ (ReadAsSizes(group) /\ Active(group) = 0)
IsSizes(group) == ReadAsSizes(group) /\ ~LeftOut(group)

(* The limits most of a group's products use; ties: the lower minimum,     *)
(* then the lower maximum, no maximum last.                                *)
UsualLimits(uses) ==
    LET count(u) == Cardinality({ k \in DOMAIN uses : uses[k] = u })
        top(u) == IF u.max = None THEN Unbounded ELSE u.max
        before(u, v) == \/ count(u) > count(v)
                        \/ count(u) = count(v) /\ u.min < v.min
                        \/ count(u) = count(v) /\ u.min = v.min /\ top(u) <= top(v)
    IN  IF uses = <<>> THEN [min |-> 0, max |-> None]
        ELSE CHOOSE u \in ToSet(uses) : \A v \in ToSet(uses) : before(u, v)

FamilyOf(group) ==
    IF group.key \in Families THEN group.key
    ELSE IF NameKey[group.name] \in MilkLike THEN "milk_type"
    ELSE IF NameKey[group.name] \in BeanLike THEN "coffee_type" ELSE "extra"

OnePickEach(group) ==
    \A u \in DOMAIN group.uses : group.uses[u].min <= 1 /\ group.uses[u].max = 1

(* A milk or beans group is a swap when every product takes one at most,   *)
(* else it is read as extras.                                              *)
BulkGroup(group, key) ==
    LET usual == UsualLimits(group.uses)
        min == AtMost(usual.min, Active(group))
        swap == FamilyOf(group) \in Swaps /\ OnePickEach(group)
    IN  [key |-> key, name |-> group.name, ar |-> group.ar,
         min |-> IF swap THEN AtMost(min, 1) ELSE min, max |-> IF swap THEN 1 ELSE usual.max,
         family |-> IF swap THEN FamilyOf(group) ELSE "extra", options |-> group.options]

(* The groups that stay groups, one per name; `source` is the key each was *)
(* read under.                                                             *)
KeepGroups(read) ==
    LET keep(made, group) ==
            LET warned(issues) ==
                    [made EXCEPT !.warnings = @ \union { About(group.name, i) : i \in issues }]
                swap == FamilyOf(group) \in Swaps
            IN  IF LeftOut(group) THEN warned({"empty_group"})
                ELSE IF IsSizes(group) THEN made
                ELSE IF Named(made.kept, group.name) # 0 THEN warned({"duplicate_group"})
                ELSE [warned(IF swap /\ ~OnePickEach(group) THEN {"not_a_swap"} ELSE {}) EXCEPT
                         !.kept = Append(@, BulkGroup(group, Len(@) + 1)),
                         !.source = Append(@, group.key)]
        start == [read EXCEPT !.warnings = @ \union
                     UNION { SizeWarnings(read.groups[g]) : g \in DOMAIN read.groups }]
    IN  FoldLeft(keep, start, read.groups)

GroupsKept == KeepGroups(OptionsRead)

-----------------------------------------------------------------------------
SizesOf(group, price) ==
    [o \in DOMAIN group.options |->
        [label |-> group.options[o].name, price |-> price + group.options[o].price,
         active |-> group.options[o].active]]

(* Each link: a sizes group onto the item as its sizes, a kept one as a    *)
(* group, its minimum lowered to what there is to pick.                    *)
PlaceLinks(read) ==
    LET place(made, link) ==
            LET group == made.groups[Keyed(made.groups, link.group)]
                item == made.items[link.item]
                at == Find(made.source, LAMBDA key : key = link.group)
                lowered == AtMost(link.min, Active(group))
            IN  IF IsSizes(group) /\ item.sizes # <<>>
                THEN [made EXCEPT !.warnings = @ \union {AtRow("links", link.row, "second_sizes")}]
                ELSE IF IsSizes(group)
                THEN [made EXCEPT !.items[link.item].sizes = SizesOf(group, item.price)]
                ELSE IF at = 0 THEN made
                ELSE [made EXCEPT
                         !.items[link.item].groups =
                             Append(@, [group |-> at, min |-> lowered, max |-> link.max]),
                         !.warnings = IF lowered = link.min THEN @
                                      ELSE @ \union {AtRow("links", link.row, "min_lowered")}]
    IN  FoldLeft(place, read, read.links)

LinksPlaced == PlaceLinks(GroupsKept)

(* Extras of one product: Madar's own file.                                *)
OptionalsRead ==
    LET issue(made, row) ==
            IF row.name = "" THEN "blank_name"
            ELSE IF row.sku \notin DOMAIN made.itemOf THEN "unknown_sku"
            ELSE IF Piastres(row.price) = Word THEN "not_a_number"
            ELSE IF Named(made.items[made.itemOf[row.sku]].optionals, row.name) # 0 THEN "duplicate"
            ELSE None
    IN  ReadRows("optionals", LinksPlaced, issue,
                 LAMBDA made, row, i :
                     [made EXCEPT !.items[made.itemOf[row.sku]].optionals =
                         Append(@, [name |-> row.name, ar |-> row.ar, price |-> Piastres(row.price)])])

(* The menu the files make, with every warning.                            *)
MenuOf(read) ==
    [menu |-> [version |-> ReadVersion, categories |-> read.categories,
               groups |-> read.kept, items |-> read.items],
     warnings |-> read.warnings \union
                  { About(kind, "missing_file") : kind \in AskedFor \ Given }]

Parsed == MenuOf(OptionalsRead)

-----------------------------------------------------------------------------
ImportInit == files \in Exports /\ edits = 0

(* The owner edits an export and reads it again.                           *)
AddRow(k, i, row) ==
    /\ edits < MaxEdits
    /\ Detect(files[k].header) # None /\ row \in RowsOf[Detect(files[k].header)]
    /\ files' = [files EXCEPT ![k].rows = InsertAt(@, i, row)]
    /\ edits' = edits + 1

DropRow(k, i) ==
    /\ edits < MaxEdits
    /\ files' = [files EXCEPT ![k].rows = RemoveAt(@, i)]
    /\ edits' = edits + 1

LeaveOut(k) ==
    /\ edits < MaxEdits
    /\ files' = RemoveAt(files, k)
    /\ edits' = edits + 1

ImportNext ==
    \E k \in DOMAIN files :
        \/ \E i \in 1..(Len(files[k].rows) + 1), row \in UNION { RowsOf[kind] : kind \in Kinds } :
               AddRow(k, i, row)
        \/ \E i \in DOMAIN files[k].rows : DropRow(k, i)
        \/ LeaveOut(k)

-----------------------------------------------------------------------------
(* What is wrong with a menu read from files is wrong in the files: a text *)
(* or an amount no menu may hold, too many of something, no product at     *)
(* all, the size name the server keeps, or limits a row itself has the     *)
(* wrong way round.  The reading never makes a duplicate, an unknown       *)
(* reference, a swap of two picks or sizes none of which is on sale        *)
(* (foodics.rs:448-1012 against bulk.rs:370-518).                          *)
ImportIsWritable ==
    FilesError = None =>
        \A problem \in ToSet(Problems(Parsed.menu)) :
            \/ problem.why \in {"empty", "too_many", "too_long", "bad_text", "bad_price",
                                "reserved_label"}
            \/ /\ problem.why = "bad_limits"
               /\ \E row \in ToSet(Rows("links")) :
                     /\ Word \notin {Whole(row.min), Whole(row.max)}
                     /\ Whole(row.max) > 0 /\ Whole(row.min) > Whole(row.max)

(* The warnings that say a row was skipped, and those that say a whole     *)
(* group was.                                                              *)
Skips == {"blank_name", "duplicate", "duplicate_sku", "not_a_number", "unknown_sku",
          "unknown_group", "duplicate_link", "second_sizes"}
GroupSkips == {"empty_group", "duplicate_group"}

(* The parts of the answer: `read` is what the files made.                 *)
Skipped(read, kind, i) == \E issue \in Skips : AtRow(kind, i, issue) \in read.warnings
GroupSkipped(read, key) ==
    \E issue \in GroupSkips :
        About(read.groups[Keyed(read.groups, key)].name, issue) \in read.warnings
HasSku(item, sku) ==
    \E row \in ToSet(Rows("products")) : row.sku = sku /\ NameKey[row.name] = NameKey[item.name]
YesNoAnswered(read, kind, i, word) ==
    word \in {"", "yes", "no"} \/ AtRow(kind, i, "not_yes_no") \in read.warnings

(* What is lost in silence, though lib.rs:12-14 promises a warning for     *)
(* every row skipped or changed: a group read as sizes that no product     *)
(* links to, with its options, and a groups row merged into an earlier one *)
(* of its reference.                                                       *)
Unused(read, key) ==
    /\ IsSizes(read.groups[Keyed(read.groups, key)])
    /\ \A l \in DOMAIN read.links : read.links[l].group # key

KeyOf(i) == GroupKey(Rows("groups")[i].ref, Rows("groups")[i].name)
Merged(i) == \E j \in 1..(i - 1) : Rows("groups")[j].name # "" /\ KeyOf(j) = KeyOf(i)

CategoryAnswered(read, i) ==
    LET row == Rows("categories")[i]
    IN  \E category \in ToSet(read.categories) : <<category.name, category.ar>> = <<row.name, row.ar>>

(* The sizes of a group that products have, but for links skipped.         *)
SizesPlaced(read, key) ==
    LET group == read.groups[Keyed(read.groups, key)]
    IN  /\ IsSizes(group) /\ ~Unused(read, key)
        /\ \A l \in DOMAIN read.links :
              LET item == read.items[read.links[l].item]
              IN  read.links[l].group = key /\ ~Skipped(read, "links", read.links[l].row) =>
                      item.sizes = SizesOf(group, item.price)

GroupAnswered(read, i) ==
    LET key == KeyOf(i)
        at == Find(read.source, LAMBDA k : k = key)
    IN  \/ Merged(i) \/ Unused(read, key) \/ SizesPlaced(read, key)
        \/ IF at # 0 THEN read.kept[at].name = Rows("groups")[i].name ELSE GroupSkipped(read, key)

ProductAnswered(read, i) ==
    LET row == Rows("products")[i]
        category(item) == read.categories[item.category].name
        listed == { c \in DOMAIN Rows("categories") :
                       row.category # "" /\ Rows("categories")[c].ref = row.category
                           /\ Rows("categories")[c].name # "" }
        first == Rows("categories")[CHOOSE c \in listed : \A d \in listed : c <= d]
    IN  \E item \in ToSet(read.items) :
            /\ <<item.name, item.price, item.active>>
                   = <<row.name, Piastres(row.price), IsYes(row.active)>>
            /\ YesNoAnswered(read, "products", i, row.active)
            /\ IF listed # {} THEN NameKey[category(item)] = NameKey[first.name]
               ELSE /\ NameKey[category(item)] = NameKey[Uncategorized]
                    /\ AtRow("products", i, "uncategorized") \in read.warnings

LinkAnswered(read, i) ==
    LET row == Rows("links")[i]
        group == read.groups[Keyed(read.groups, GroupKey(row.ref, row.name))]
        at == Find(read.source, LAMBDA key : key = group.key)
        max == IF Whole(row.max) = 0 THEN None ELSE Whole(row.max)
        lowered == AtRow("links", i, "min_lowered") \in read.warnings
        min == IF lowered THEN Active(group) ELSE Whole(row.min)
    IN  \E item \in ToSet(read.items) :
            /\ HasSku(item, row.sku)
            /\ IF at # 0 THEN \E l \in DOMAIN item.groups :
                                 item.groups[l] = [group |-> at, min |-> min, max |-> max]
               ELSE GroupSkipped(read, group.key) \/ item.sizes = SizesOf(group, item.price)

OptionAnswered(read, i) ==
    LET row == Rows("options")[i]
        key == GroupKey(row.ref, row.group)
        at == Find(read.source, LAMBDA k : k = key)
        option == <<row.name, Piastres(row.price), IsYes(row.active)>>
    IN  /\ YesNoAnswered(read, "options", i, row.active)
        /\ IF at # 0
           THEN \E o \in ToSet(read.kept[at].options) : <<o.name, o.price, o.active>> = option
           ELSE \/ GroupSkipped(read, key) \/ Unused(read, key)
                \/ SizesPlaced(read, key)
                      /\ \E o \in ToSet(read.groups[Keyed(read.groups, key)].options) :
                             <<o.name, o.price, o.active>> = option

OptionalAnswered(read, i) ==
    LET row == Rows("optionals")[i]
    IN  \E item \in ToSet(read.items) :
            /\ HasSku(item, row.sku)
            /\ \E o \in ToSet(item.optionals) : <<o.name, o.price>> = <<row.name, Piastres(row.price)>>

(* Every row of an export is in the menu as it stands, in name, amount and *)
(* limits, or a warning says that it, its group or the links to its group  *)
(* were skipped, or how it was changed (lib.rs:12-14); but for what        *)
(* `Unused` and `Merged` lose in silence.                                  *)
RowsAnswered(read) ==
    /\ \A i \in DOMAIN Rows("categories") :
          Skipped(read, "categories", i) \/ CategoryAnswered(read, i)
    /\ \A i \in DOMAIN Rows("products") : Skipped(read, "products", i) \/ ProductAnswered(read, i)
    /\ Len(read.items) = Cardinality({ i \in DOMAIN Rows("products") : ~Skipped(read, "products", i) })
    /\ \A i \in DOMAIN Rows("groups") : Skipped(read, "groups", i) \/ GroupAnswered(read, i)
    /\ \A i \in DOMAIN Rows("links") : Skipped(read, "links", i) \/ LinkAnswered(read, i)
    /\ \A i \in DOMAIN Rows("options") : Skipped(read, "options", i) \/ OptionAnswered(read, i)
    /\ \A i \in DOMAIN Rows("optionals") :
          Skipped(read, "optionals", i) \/ OptionalAnswered(read, i)

EveryRowAnswered == FilesError = None => RowsAnswered(OptionalsRead)

(* An export is read whole, but for the two silences named above, into a   *)
(* menu that may be written.                                               *)
MenuReadWhole == ImportIsWritable /\ EveryRowAnswered
=============================================================================
