---------------------------- MODULE MCSecretSets ----------------------------
(* Small instances of SecretSets.  No set's members are told apart.         *)
EXTENDS SecretSets, TLC

Symmetry ==
    Permutations(Sets) \cup Permutations(Names) \cup Permutations(Keys)
        \cup Permutations(Vals) \cup Permutations(Hosts) \cup Permutations(Requests)
=============================================================================
