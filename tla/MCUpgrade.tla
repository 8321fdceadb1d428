----------------------------- MODULE MCUpgrade ------------------------------
(* Small instances of Upgrade, without symmetry: they check liveness.     *)
EXTENDS Upgrade, TLC
=============================================================================
