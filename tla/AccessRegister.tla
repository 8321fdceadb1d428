--------------------------- MODULE AccessRegister ---------------------------
(***************************************************************************)
(* What the delivery of access lists promises a host, without connections, *)
(* queues or requests: the control plane issues numbered lists, and the    *)
(* host holds two copies, one in memory and one on disk.  The memory copy  *)
(* adopts issued lists whole and in increasing order, it may be cleared,   *)
(* and a restart sets it back to the file.  The file only ever takes the   *)
(* memory copy's value.                                                    *)
(***************************************************************************)
EXTENDS Naturals, Sequences

CONSTANT Keys

VARIABLES issued, copy, file

regVars == <<issued, copy, file>>

Empty == [seq |-> 0, keys |-> {}]

RegInit == issued = <<>> /\ copy = Empty /\ file = Empty

Issue ==
    /\ \E keys \in SUBSET Keys : issued' = Append(issued, keys)
    /\ UNCHANGED <<copy, file>>

(* The file follows the memory copy, unless the write fails. *)
Save == file' = copy' \/ file' = file

Adopt ==
    /\ \E n \in 1..Len(issued) :
        /\ n > copy.seq
        /\ copy' = [seq |-> n, keys |-> issued[n]]
    /\ Save
    /\ UNCHANGED issued

Clear ==
    /\ copy' = [copy EXCEPT !.keys = {}]
    /\ Save
    /\ UNCHANGED issued

Reload ==
    /\ copy' = file
    /\ UNCHANGED <<issued, file>>

RegNext == Issue \/ Adopt \/ Clear \/ Reload

RegSpec == RegInit /\ [][RegNext]_regVars
=============================================================================
