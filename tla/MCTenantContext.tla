-------------------------- MODULE MCTenantContext --------------------------
(* Small instances of TenantContext.                                        *)
EXTENDS TenantContext, TLC

Symmetry ==
    Permutations(Requests) \cup Permutations(Conns)
        \cup Permutations(Tenants) \cup Permutations(RowIds)
=============================================================================
