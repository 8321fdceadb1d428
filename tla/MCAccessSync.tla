---------------------------- MODULE MCAccessSync ----------------------------
(* Small instances of AccessSync.  Keys, handlers and connections are       *)
(* interchangeable, so the safety runs use them as symmetry sets.           *)
EXTENDS AccessSync, TLC

Symmetry ==
    Permutations(Keys) \cup Permutations(Handlers) \cup Permutations(Conns)
=============================================================================
