----------------------------- MODULE MCTenantAccess -----------------------------
(* A small instance of TenantAccess for TLC. *)
EXTENDS TenantAccessProps, TLC

CONSTANTS ann, bob, new, k1, k2, w1, w2, i1, i2

Interchangeable ==
  Permutations({w1, w2}) \cup Permutations({k1, k2}) \cup Permutations({ann, bob})
    \cup Permutations({i1, i2})

=============================================================================
