---------------------------- MODULE MCDaemonLink ----------------------------
(* Small instances of DaemonLink, without symmetry: they check liveness.  *)
EXTENDS DaemonLink, TLC
=============================================================================
