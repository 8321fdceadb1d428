---------------------------- MODULE MCSessions ------------------------------
(* Small instances of Sessions.                                             *)
EXTENDS Sessions, TLC

Symmetry == Permutations(Requests) \cup Permutations(Resets)
=============================================================================
