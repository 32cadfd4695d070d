----------------------------- MODULE MCBackOffice -----------------------------
(* The back office's four desks, which share no state and are worked one   *)
(* at a time: a menu is imported, a drink's recipe is written at the bar,  *)
(* the store buys, wastes and counts, and the capability registry is       *)
(* edited and generated.                                                   *)
(*                                                                         *)
(* The exports: one with sizes by reference and a milk swap; one with      *)
(* sizes by name, a group asked for too much and extras; one that repeats  *)
(* a file.                                                                 *)
EXTENDS FoodicsImport, StockRoom, Registry

VARIABLE desk

KeyPairs == { <<"Drinks", "drinks">>, <<"drinks", "drinks">>, <<"Uncategorized", "uncategorized">>,
              <<"Latte", "latte">>, <<"latte", "latte">>, <<"Mocha", "mocha">>, <<"Bell", "bell">>,
              <<"Size", "size">>, <<"Cup size", "cup size">>, <<"Milk", "milk">>, <<"MILK", "milk">>,
              <<"Sauce", "sauce">>, <<"Small", "small">>, <<"small", "small">>, <<"Large", "large">>,
              <<"one_size", "one_size">>, <<"Oat", "oat">>, <<"oat", "oat">>, <<"", "">> }
MCNameKey == [name \in { p[1] : p \in KeyPairs } |-> (CHOOSE p \in KeyPairs : p[1] = name)[2]]

MCLimits == [categories |-> 2, items |-> 3, groups |-> 2, options |-> 3, sizes |-> 2, links |-> 2,
             optionals |-> 1, price |-> 9000]

File(kind, rows) == [header |-> Headers[kind], broken |-> FALSE, rows |-> rows]

CategoryRow(name, ref) == [name |-> name, ref |-> ref, ar |-> None]
Product(name, sku, category, price, active) ==
    [name |-> name, sku |-> sku, category |-> category, price |-> price, active |-> active, ar |-> None]
Modifier(ref, name) == [ref |-> ref, name |-> name, ar |-> None]
LinkRow(sku, ref, name, min, max) ==
    [sku |-> sku, ref |-> ref, name |-> name, min |-> min, max |-> max, ar |-> None]
OptionRow(ref, group, name, price, active) ==
    [ref |-> ref, group |-> group, name |-> name, price |-> price, active |-> active, ar |-> None]
Extra(sku, name, price) == [sku |-> sku, name |-> name, price |-> price, ar |-> None]

BySize ==
    << File("products", <<Product("Latte", "s1", "c1", 50000, "yes"),
                          Product("Mocha", "s2", "", 60005, "")>>),
       File("categories", <<CategoryRow("Drinks", "c1")>>),
       File("groups", <<Modifier("size", "Size"), Modifier("milk_type", "Milk")>>),
       File("links", <<LinkRow("s1", "size", "Size", 1000, 1000),
                       LinkRow("s1", "milk_type", "Milk", None, 1000)>>),
       File("options", <<OptionRow("size", "Size", "Small", None, "yes"),
                         OptionRow("size", "Size", "Large", 20000, "no"),
                         OptionRow("milk_type", "Milk", "Oat", 5000, "")>>) >>

ByName ==
    << File("links", <<LinkRow("s1", "", "Cup size", 1000, 1000),
                       LinkRow("s1", "", "Sauce", 2000, None)>>),
       File("products", <<Product("Latte", "s1", "c1", 50000, "yes")>>),
       File("options", <<OptionRow("", "Cup size", "Small", None, ""),
                         OptionRow("", "Cup size", "Large", 20000, ""),
                         OptionRow("", "Sauce", "Oat", 0, "yes"),
                         OptionRow("size", "Size", "Large", 0, "yes")>>),
       File("optionals", <<Extra("s1", "Oat", 5000)>>) >>

Repeating ==
    << File("products", <<Product("Latte", "s1", "", 50000, "yes")>>),
       [File("groups", <<Modifier("", "Milk")>>) EXCEPT !.header = @ \union {"image"}],
       File("products", <<>>) >>

MCExports == {BySize, ByName, Repeating}

MCRowsOf ==
    [categories |-> {CategoryRow("drinks", "c2"), CategoryRow("Uncategorized", "c1"), CategoryRow("", "c1")},
     products |-> {Product("latte", "s2", "c1", 50000, "yes"), Product("Mocha", "s1", "c1", 60000, "no"),
                   Product("Mocha", "s2", "c2", Word, "yes"), Product("Bell", "", "c1", 95000, "maybe")},
     groups |-> {Modifier("milk_type", "MILK"), Modifier("", "Milk"), Modifier("size", "Sauce")},
     links |-> {LinkRow("s1", "", "Milk", 1000, 1000), LinkRow("s2", "milk_type", "Milk", 1000, 2000),
                LinkRow("s1", "size", "Size", None, None), LinkRow("s1", "", "Cup size", 1000, 1000),
                LinkRow("s2", "", "Sauce", 2000, 1000), LinkRow("s3", "", "Sauce", 1500, None)},
     options |-> {OptionRow("size", "", "one_size", 50000, ""), OptionRow("", "Milk", "Oat", 5004, "yes"),
                  OptionRow("milk_type", "", "oat", 5000, "maybe"), OptionRow("", "Cup size", "small", None, "no"),
                  OptionRow("", "Sauce", "Small", Word, "no")},
     optionals |-> {Extra("s1", "Oat", 6000), Extra("s2", "Small", None), Extra("s1", "Bell", 1000)}]

MCIngredients == {"whole", "oats", "beans", "pod", "syrup"}
MCUnit == [whole |-> "l", oats |-> "ml", beans |-> "g", pod |-> "pcs", syrup |-> "ml"]
MCDensity == [whole |-> 1030, oats |-> 0, beans |-> None, pod |-> 500, syrup |-> 1333]
MCCategory == [whole |-> "milk", oats |-> "milk", beans |-> "coffee_bean", pod |-> "coffee_bean",
               syrup |-> "syrup"]
MCCost == [whole |-> 3333, oats |-> 7, beans |-> 101, pod |-> 50, syrup |-> None]
MCFactors == {<<1, 1>>, <<3, 2>>, <<1, 2>>}
MCInvoices == {None, -1, 7, 50}
MCSwapPicks == {<<>>, <<"syrup", "milk">>}

Capability(id, key, legacy, tier, risk, kinds, core, limits) ==
    [id |-> id, key |-> key, legacy |-> legacy, group |-> "selling", tier |-> tier, risk |-> risk,
     defaults |-> kinds, core |-> core, limits |-> limits, en |-> key, ar |-> "arabic"]

At(kind, key) == [kind |-> kind, key |-> key]
LimitOf(kind, key, keys) == [kind |-> kind, key |-> key, keys |-> keys]

(* A core grant, one a cashier may be limited in, and an administrator's.  *)
Shop ==
    [caps |-> << Capability(9, "roles.edit", "roles:edit", "advanced", "admin", {"org_admin"}, {}, {}),
                 Capability(2, "kitchen.bump", "kitchen:edit", "core", "normal", {"kitchen", "waiter"}, {"kitchen"}, {}),
                 Capability(5, "orders.void", "orders:void", "configurable", "money", {"org_admin", "teller"}, {},
                            {"own", "max_age_minutes"}) >>,
     templates |->
        [cafe |-> [roles |-> {"org_admin", "teller", "kitchen"},
                   add |-> {At("teller", "kitchen.bump")}, remove |-> {At("waiter", "kitchen.bump")},
                   limits |-> {LimitOf("teller", "orders.void", {"own", "max_age_minutes"})}]]]

MCDrafts == {Shop}

Written(field, texts) == [field : {field}, text : texts]
MCCapEdits ==
    Written("id", {0, 2, 256}) \union Written("key", {"Orders.Void", "orders.void"})
      \union Written("legacy", {None, "roles:edit", "roles"}) \union Written("group", {"sales"})
      \union Written("tier", {"core", "legacy", "hidden"}) \union Written("risk", {"admin", "normal", "none"})
      \union Written("defaults", {{}, {"teller"}, {"kitchen", "driver"}})
      \union Written("core", {{}, {"kitchen"}, {"teller"}})
      \union Written("limits", {{}, {"own"}, {"max_sales"}}) \union Written("en", {" ", "arabic"})
MCTemplateEdits ==
    Written("roles", {{"driver"}})
      \union Written("add", {{}, {At("teller", "roles.edit")}, {At("org_admin", "orders.read")}})
      \union Written("remove", {{}, {At("kitchen", "kitchen.bump")}, {At("driver", "orders.void")}})
      \union Written("limits", {{LimitOf("teller", "kitchen.bump", {"own"})},
                                {LimitOf("teller", "orders.void", {})}})

vars == <<desk, importVars, roomVars, registryVars>>

NoFiles == <<>>

Init ==
    /\ desk \in {"import", "bar", "store", "registry"}
    /\ RoomInit
    /\ RegistryInit
    /\ IF desk = "import" THEN ImportInit ELSE files = NoFiles /\ edits = 0

Next ==
    \/ desk = "import" /\ ImportNext /\ UNCHANGED <<desk, roomVars, registryVars>>
    \/ desk = "bar" /\ BarNext /\ UNCHANGED <<desk, importVars, registryVars>>
    \/ desk = "store" /\ StoreNext /\ UNCHANGED <<desk, importVars, registryVars>>
    \/ desk = "registry" /\ RegistryNext /\ UNCHANGED <<desk, importVars, roomVars>>

Spec == Init /\ [][Next]_vars
=============================================================================
