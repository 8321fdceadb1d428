--------------------------- MODULE MCInvitations ----------------------------
(* Small instances of Invitations.                                          *)
EXTENDS Invitations, TLC

Symmetry ==
    Permutations(Invites) \cup Permutations(Emails) \cup Permutations(Accepts)
=============================================================================
