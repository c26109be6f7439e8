----------------------------- MODULE MCProjects -----------------------------
(* Small instances of Projects: caps of one and two stand for 3 and 25.     *)
EXTENDS Projects, TLC

MCQuota == [pl \in Plans |-> IF pl = "free" THEN 1 ELSE 2]

Symmetry == Permutations(Ids) \cup Permutations(Requests)
=============================================================================
