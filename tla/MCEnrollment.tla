---------------------------- MODULE MCEnrollment ----------------------------
(* Small instances of Enrollment.                                           *)
EXTENDS Enrollment, TLC

Symmetry ==
    Permutations(Machines) \cup Permutations(Tokens) \cup Permutations(Attempts)
=============================================================================
