----------------------------- MODULE MCStaffPool -----------------------------
(* Two tills, three drinks over three days, an allowance of one (or below   *)
(* zero), a pool that may be switched off or lose its list once.           *)
EXTENDS StaffPool, TLC

Policy(enabled, allowance, eligible) ==
    [enabled |-> enabled, allowance |-> allowance, eligible |-> eligible]

MCPolicies ==
    { Policy(TRUE, 1, {"latte"}), Policy(TRUE, -1, {"latte"}),
      Policy(FALSE, 1, {"latte"}), Policy(TRUE, 1, {}) }

Symmetry == Permutations(Tills) \union Permutations(Drinks)
=============================================================================
