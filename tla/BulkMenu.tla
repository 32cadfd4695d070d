------------------------------- MODULE BulkMenu -------------------------------
(***************************************************************************)
(* A whole menu as one value, and the checks a server runs before it       *)
(* writes one (madar-menu bulk.rs).                                        *)
(*                                                                         *)
(* A menu is [version, categories, groups, items]: a category [key, name,  *)
(* ar], a group [key, name, ar, min, max, family, options], an option      *)
(* [name, ar, price, active], an item [name, ar, category, price, active,  *)
(* sizes, groups, optionals], a size [label, price, active], a link        *)
(* [group, min, max], an extra [name, ar, price].  A key is a number, an   *)
(* Arabic name or a maximum that is not there None; an item's descriptions *)
(* are one text with its Arabic name.                                      *)
(***************************************************************************)
EXTENDS Rounding, FiniteSets

CONSTANTS
    NameKey,     \* NameKey[name]: one key for names that differ in case or spaces
    TooLong,     \* texts past their limit of characters
    Control,     \* texts that hold a control character
    Limits       \* the most of each thing, and the highest price

ReadVersion == 1
HiddenSize == "one_size"
Swaps == {"milk_type", "coffee_type"}
Families == Swaps \union {"extra"}

(* A refusal is why, and of what; a check gives the refusal or nothing.    *)
Refusal(why, of) == [why |-> why, of |-> of]
Check(holds, why, of) == IF holds THEN <<Refusal(why, of)>> ELSE <<>>

TextProblems(of, text) ==
    IF text \in TooLong THEN <<Refusal("too_long", of)>>
    ELSE Check(text \in Control, "bad_text", of)

NameProblems(of, name) ==
    IF NameKey[name] = "" THEN <<Refusal("blank", of)>> ELSE TextProblems(of, name)

Repeated(list, i, Of(_)) == \E j \in 1..(i - 1) : Of(list[j]) = Of(list[i])

PriceProblems(of, price) == Check(price \notin 0..Limits.price, "bad_price", of)

CountProblems(of, list, most) == Check(Len(list) > most, "too_many", of)

LimitProblems(of, min, max, options) ==
    Check(min > options \/ (max # None /\ (max = 0 \/ max < min)), "bad_limits", of)

SwapProblems(of, family, min, max) ==
    Check(family \in Swaps /\ ~(min <= 1 /\ max = 1), "swap_not_single", of)

Active(group) == Cardinality({ k \in DOMAIN group.options : group.options[k].active })

(* What a named thing with a price has wrong, after the ones before it.    *)
PricedProblems(of, list, k) ==
    NameProblems(of, list[k].name) \o TextProblems(of, list[k].ar)
        \o Check(Repeated(list, k, LAMBDA o : NameKey[o.name]), "duplicate", of)
        \o PriceProblems(of, list[k].price)

(* Of every one of a list, in order.                                       *)
InTurn(list, Problems(_)) ==
    FoldLeft(LAMBDA found, k : found \o Problems(k), <<>>, [k \in DOMAIN list |-> k])

-----------------------------------------------------------------------------
CategoryProblems(list, k) ==
    LET category == list[k]
    IN  Check(category.key = 0, "blank", "category") \o NameProblems("category", category.name)
            \o TextProblems("category", category.ar)
            \o Check(Repeated(list, k, LAMBDA c : NameKey[c.name]), "duplicate", "category")
            \o Check(Repeated(list, k, LAMBDA c : c.key), "duplicate", "category")

GroupProblems(list, k) ==
    LET group == list[k]
    IN  Check(group.key = 0, "blank", "group") \o NameProblems("group", group.name)
            \o TextProblems("group", group.ar)
            \o Check(Repeated(list, k, LAMBDA g : NameKey[g.name]), "duplicate", "group")
            \o CountProblems("option", group.options, Limits.options)
            \o InTurn(group.options, LAMBDA o : PricedProblems("option", group.options, o))
            \o LimitProblems("group", group.min, group.max, Active(group))
            \o SwapProblems("group", group.family, group.min, group.max)
            \o Check(Repeated(list, k, LAMBDA g : g.key), "duplicate", "group")

(* A size's label is its own among the item's, and not the hidden one.     *)
SizeProblems(sizes, k) ==
    NameProblems("size", sizes[k].label)
        \o Check(NameKey[sizes[k].label] = HiddenSize, "reserved_label", "size")
        \o Check(Repeated(sizes, k, LAMBDA s : NameKey[s.label]), "duplicate", "size")
        \o PriceProblems("size", sizes[k].price)

LinkProblems(groups, links, k) ==
    LET link == links[k]
        found == { g \in DOMAIN groups : groups[g].key = link.group }
    IN  IF found = {} THEN <<Refusal("unknown_group", "item")>>
        ELSE LET group == groups[CHOOSE g \in found : TRUE]
             IN  Check(Repeated(links, k, LAMBDA l : l.group), "duplicate", "link")
                     \o LimitProblems("link", link.min, link.max, Active(group))
                     \o SwapProblems("link", group.family, link.min, link.max)

ItemProblems(menu, k) ==
    LET item == menu.items[k]
    IN  PricedProblems("item", menu.items, k)
            \o Check(\A c \in DOMAIN menu.categories : menu.categories[c].key # item.category,
                     "unknown_category", "item")
            \o CountProblems("size", item.sizes, Limits.sizes)
            \o InTurn(item.sizes, LAMBDA s : SizeProblems(item.sizes, s))
            \o Check(item.sizes # <<>> /\ \A s \in DOMAIN item.sizes : ~item.sizes[s].active,
                     "no_active_size", "item")
            \o CountProblems("link", item.groups, Limits.links)
            \o InTurn(item.groups, LAMBDA l : LinkProblems(menu.groups, item.groups, l))
            \o CountProblems("optional", item.optionals, Limits.optionals)
            \o InTurn(item.optionals, LAMBDA o : PricedProblems("optional", item.optionals, o))

(* Everything wrong with a menu, in the order the server looks.            *)
Problems(menu) ==
    Check(menu.version # ReadVersion, "unsupported_version", "menu")
        \o Check(menu.items = <<>>, "empty", "menu")
        \o CountProblems("category", menu.categories, Limits.categories)
        \o CountProblems("item", menu.items, Limits.items)
        \o CountProblems("group", menu.groups, Limits.groups)
        \o InTurn(menu.categories, LAMBDA k : CategoryProblems(menu.categories, k))
        \o InTurn(menu.groups, LAMBDA k : GroupProblems(menu.groups, k))
        \o InTurn(menu.items, LAMBDA k : ItemProblems(menu, k))

(* The first problem refuses the menu; None writes it.                     *)
Validate(menu) == IF Problems(menu) = <<>> THEN None ELSE Head(Problems(menu))
=============================================================================
