------------------------------- MODULE MCTeam -------------------------------
(* Small instances of Team.                                                 *)
EXTENDS Team, TLC

Symmetry ==
    Permutations(Orgs) \cup Permutations(Emails) \cup Permutations(Invites)
        \cup Permutations(Requests)
=============================================================================
