----------------------------- MODULE MCSessions -----------------------------
(* Small instances of Sessions: every user is a tenant of its own.          *)
EXTENDS Sessions, TLC

MCTenantOf == [u \in Users |-> u]

Symmetry ==
    Permutations(Users) \cup Permutations(Tokens) \cup Permutations(Requests) \cup Permutations(Tickets)
=============================================================================
