---------------------------- MODULE MCHostGrants ----------------------------
(* Small instances of HostGrants.  No set's members are told apart.         *)
EXTENDS HostGrants, TLC

Symmetry ==
    Permutations(Hosts) \cup Permutations(GrantIds) \cup Permutations(Handlers)
        \cup Permutations(Users) \cup Permutations(Groups) \cup Permutations(Keys)
=============================================================================
