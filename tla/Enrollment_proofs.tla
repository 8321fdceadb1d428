------------------------- MODULE Enrollment_proofs -------------------------
(***************************************************************************)
(* One active host per machine, keys that fit the config beside them, an   *)
(* identity that no enroll command takes from a working box unless it was  *)
(* accepted earlier, and a cache that goes with the host a daemon runs as, *)
(* for any number of boxes, tokens and enrollments.                        *)
(***************************************************************************)
EXTENDS Enrollment, TLAPS

(* Zenon proves most leaves; one that needs arithmetic, sequences or record *)
(* updates names SMT.                                                       *)
USE Zenon

(* The step of the enroll command that writes a file.                        *)
Place(f) == CASE f = "identity" -> 1 [] f = "encryption" -> 2 [] f = "config" -> 3

(* An attempt's client, server and row go together.                          *)
Progress ==
    \A a \in Attempts :
        /\ client[a] = "idle" <=> server[a] = "idle"
        /\ client[a] # "idle" => box[a] \in Machines /\ paper[a] \in Tokens
        /\ status[a] # "none" <=> server[a] = "accepted"
        /\ client[a] \in {"save", "done"} => server[a] = "accepted"
        /\ saved[a] > 0 => server[a] = "accepted" /\ client[a] # "wait"

(* What is in a file or in a daemon was written by a command on that box.    *)
Written ==
    \A m \in Machines :
        /\ \A f \in File : disk[m][f] # None =>
            box[disk[m][f]] = m /\ Place(f) <= saved[disk[m][f]]
        /\ daemon[m].config # None =>
            box[daemon[m].config] = m /\ saved[daemon[m].config] = 3

(* A daemon loads the config before the identity, and connects with both.    *)
Linked ==
    \A m \in Machines :
        /\ daemon[m].identity # None => daemon[m].config # None
        /\ m \in link => daemon[m].identity # None

(* A command that has files to write on the box of an active host, other     *)
(* than the host's own, is one of its stragglers: the machine id was free    *)
(* when the host was created, and nothing makes a row active again.          *)
Late ==
    \A a, b \in Attempts :
        /\ status[a] = "active" /\ box[a] = box[b] /\ a # b
        /\ server[b] = "accepted" /\ client[b] \in Busy
        => b \in stragglers[a]

(* A purge at work is known to every command of its box.                     *)
Marked ==
    \A a \in Attempts : client[a] # "idle" /\ box[a] \in purging => a \in swept

(* The files an active host's command has written are still there, but for   *)
(* what stragglers and purges did to them.                                   *)
Kept ==
    \A a \in Attempts : status[a] = "active" =>
        \A f \in File : Place(f) <= saved[a] => disk[box[a]][f] \in MayLie(a)

(* A daemon with an active host's id has that host's key or a straggler's.   *)
Loaded ==
    \A m \in Machines :
        daemon[m].identity # None /\ status[daemon[m].config] = "active" =>
            daemon[m].identity \in {daemon[m].config} \cup stragglers[daemon[m].config]

IInv ==
    /\ TypeOK /\ Progress /\ Linked /\ Written /\ Late /\ Marked /\ Kept /\ Loaded
    /\ OneActivePerMachine

-----------------------------------------------------------------------------
(* The kinds of step, by what they do to the state IInv speaks of.           *)

Quiet == UNCHANGED <<status, command, server, disk, daemon, removal, stragglers>>
ServerMoves(a) ==
    /\ server[a] \in Running
    /\ \E next \in Running \cup {"rejected"} : server' = [server EXCEPT ![a] = next]
    /\ UNCHANGED <<status, command, disk, daemon, removal, stragglers>>
Creates(a) ==
    /\ server[a] = "create" /\ GetActiveHostByMachineID(box[a]) = {}
    /\ status' = [status EXCEPT ![a] = "active"]
    /\ server' = [server EXCEPT ![a] = "accepted"]
    /\ stragglers' = [stragglers EXCEPT ![a] = AtWork(box[a])]
    /\ UNCHANGED <<command, disk, daemon, removal>>
Revokes(h) ==
    /\ status[h] # "none"
    /\ status' = [status EXCEPT ![h] = "revoked"]
    /\ UNCHANGED <<command, server, disk, daemon, removal, stragglers>>
Loads(m) == LoadConfig(m) \/ LoadIdentity(m) \/ Stop(m)
Removes(m) == Purge(m) \/ RemoveFile(m) \/ PurgeEnds(m)

(* Every step of the module is of one of these kinds. *)
LEMMA Kinds ==
  ASSUME TypeOK, [Next]_vars
  PROVE  \/ Quiet
         \/ \E a \in Attempts, m \in Machines, t \in Tokens : Enroll(a, m, t)
         \/ \E a \in Attempts : \/ PostEnroll(a) \/ GiveUp(a) \/ Save(a)
                                \/ ServerMoves(a) \/ Creates(a) \/ Revokes(a)
         \/ \E m \in Machines : Loads(m) \/ Removes(m)
  <1>1. ASSUME NEW t \in Tokens, CreateEnrollToken(t) \/ Expire(t) PROVE Quiet
    BY <1>1 DEF CreateEnrollToken, Expire, Quiet, agent, process
  <1>2. ASSUME NEW a \in Attempts,
               GetEnrollmentToken(a) \/ CheckMachine(a) \/ CheckPrior(a) \/ Rollback(a)
        PROVE  ServerMoves(a)
    BY <1>2 DEF GetEnrollmentToken, CheckMachine, CheckPrior, Rollback, Answer,
                ServerMoves, Running, rows, agent, process
  <1>3. ASSUME NEW a \in Attempts, CreateHost(a) PROVE ServerMoves(a) \/ Creates(a)
    BY <1>3 DEF CreateHost, MachineIDFree, Answer, ServerMoves, Creates, Running, rows, agent,
                process
  <1>4. ASSUME NEW a \in Attempts, HandleRevokeHost(a) PROVE Revokes(a)
    BY <1>4 DEF HandleRevokeHost, RevokeHost, Revokes
  <1>5. ASSUME NEW m \in Machines, Connect(m) \/ Refresh(m) \/ Reject(m) PROVE Quiet
    BY <1>5 DEF Connect, Refresh, Reject, Quiet, rows
  <1>6. ASSUME NEW m \in Machines, Decommission(m) PROVE \E a \in Attempts : Revokes(a)
    <2>1. disk[m]["config"] \in Attempts
      BY SMT, <1>6 DEF Decommission, TypeOK, File
    <2> QED BY <1>6, <2>1 DEF Decommission, RevokeHost, Revokes
  <1>7. ASSUME UNCHANGED vars PROVE Quiet
    BY <1>7 DEF vars, rows, agent, process, Quiet
  <1> QED BY <1>1, <1>2, <1>3, <1>4, <1>5, <1>6, <1>7 DEF Next, Loads, Removes

-----------------------------------------------------------------------------
(* Init gives every variable a value of its type, and the rest of IInv.      *)
LEMMA InitIInv == Init => IInv
  <1> SUFFICES ASSUME Init PROVE IInv
    OBVIOUS
  <1> USE EnrollmentAssumption
  <1>1. TypeOK
    BY SMT DEF Init, TypeOK, Blank, Off, Empty, File
  <1>2. /\ \A m \in Machines : daemon[m].config = None /\ daemon[m].identity = None /\ m \notin link
        /\ \A m \in Machines, f \in File : disk[m][f] = None
        /\ \A a \in Attempts : client[a] = "idle" /\ server[a] = "idle" /\ saved[a] = 0
                               /\ status[a] = "none"
    BY DEF Init, Blank, Off
  <1>3. Progress /\ Late /\ Marked /\ Kept /\ OneActivePerMachine
    BY SMT, <1>2 DEF Progress, Late, Marked, Kept, OneActivePerMachine, Busy
  <1>4. Linked /\ Written /\ Loaded
    BY <1>2 DEF Linked, Written, Loaded, File
  <1> QED BY <1>1, <1>3, <1>4 DEF IInv

(* A delivery keeps the numbers and the copies in their types. *)
LEMMA DeliverType ==
  ASSUME TypeOK, NEW m \in Machines, NEW h \in Attempts,
         NEW from \in Attempts \cup {None}, Deliver(m, h, from)
  PROVE  /\ seq' \in [Attempts -> 0..MaxSeq]
         /\ mem' \in [Machines -> [seq : 0..MaxSeq, from : Attempts \cup {None}]]
         /\ cache' \in [Machines -> [seq : 0..MaxSeq, from : Attempts \cup {None}]]
  <1> DEFINE next == [seq |-> seq[h] + 1, from |-> from]
  <1>1. seq[h] + 1 \in 0..MaxSeq
    BY SMT, EnrollmentAssumption DEF TypeOK, Deliver
  <1>2. next \in [seq : 0..MaxSeq, from : Attempts \cup {None}] /\ next.seq = seq[h] + 1
    BY <1>1
  <1>3. /\ seq' = [seq EXCEPT ![h] = next.seq]
        /\ \/ mem' = [mem EXCEPT ![m] = next] /\ cache' = [cache EXCEPT ![m] = next]
           \/ UNCHANGED <<mem, cache>>
    BY DEF Deliver
  <1> HIDE DEF next
  <1>4. /\ seq \in [Attempts -> 0..MaxSeq]
        /\ mem \in [Machines -> [seq : 0..MaxSeq, from : Attempts \cup {None}]]
        /\ cache \in [Machines -> [seq : 0..MaxSeq, from : Attempts \cup {None}]]
    BY DEF TypeOK
  <1>5. seq' \in [Attempts -> 0..MaxSeq]
    BY <1>1, <1>2, <1>3, <1>4
  <1> QED BY <1>2, <1>3, <1>4, <1>5

(* Revoking a host keeps every variable in its type. *)
LEMMA RevokeType ==
  ASSUME TypeOK, NEW h \in Attempts, RevokeHost(h) PROVE TypeOK'
  <1>1. /\ seq' \in [Attempts -> 0..MaxSeq]
        /\ mem' \in [Machines -> [seq : 0..MaxSeq, from : Attempts \cup {None}]]
        /\ cache' \in [Machines -> [seq : 0..MaxSeq, from : Attempts \cup {None}]]
    <2>1. CASE UNCHANGED <<seq, mem, cache>>
      BY <2>1 DEF TypeOK
    <2>2. CASE \E m \in link : daemon[m].config = h /\ Deliver(m, h, None)
      BY <2>2, DeliverType DEF TypeOK
    <2> QED BY <2>1, <2>2 DEF RevokeHost
  <1>2. found' \in [Machines -> 0..MaxSeq]
    BY SMT, EnrollmentAssumption DEF RevokeHost, TypeOK
  <1> QED BY <1>1, <1>2 DEF RevokeHost, TypeOK, command, removal

(* A daemon that ends leaves nothing behind but its files. *)
LEMMA EndedType ==
  ASSUME TypeOK, NEW m \in Machines, Ended(m)
  PROVE  /\ daemon' = [daemon EXCEPT ![m] = [config |-> None, identity |-> None]]
         /\ daemon' \in [Machines -> [config : Attempts \cup {None}, identity : Attempts \cup {None}]]
         /\ mem' \in [Machines -> [seq : 0..MaxSeq, from : Attempts \cup {None}]]
         /\ found' \in [Machines -> 0..MaxSeq]
         /\ link' \in SUBSET Machines
  <1>1. 0 \in 0..MaxSeq
    BY SMT, EnrollmentAssumption
  <1> QED BY <1>1 DEF Ended, Off, Empty, TypeOK

(* What the steps of the daemon make of its two fields. *)
LEMMA DaemonSteps ==
  ASSUME TypeOK, NEW m \in Machines
  PROVE  /\ LoadConfig(m) =>
            /\ daemon[m].config = None
            /\ daemon' = [daemon EXCEPT ![m] = [config |-> disk[m]["config"], identity |-> None]]
         /\ LoadIdentity(m) =>
            \/ daemon' = [daemon EXCEPT ![m] = [config |-> None, identity |-> None]]
            \/ /\ disk[m]["identity"] # None
               /\ daemon' = [daemon EXCEPT ![m] = [config |-> daemon[m].config,
                                                   identity |-> disk[m]["identity"]]]
         /\ Stop(m) => daemon' = [daemon EXCEPT ![m] = [config |-> None, identity |-> None]]
         /\ Purge(m) => \/ daemon' = [daemon EXCEPT ![m] = [config |-> None, identity |-> None]]
                        \/ daemon' = daemon
  <1>1. /\ daemon \in [Machines -> [config : Attempts \cup {None}, identity : Attempts \cup {None}]]
        /\ daemon[m] = [config |-> daemon[m].config, identity |-> daemon[m].identity]
    BY DEF TypeOK
  <1>2. ASSUME LoadConfig(m)
        PROVE  /\ daemon[m].config = None
               /\ daemon' = [daemon EXCEPT ![m] = [config |-> disk[m]["config"], identity |-> None]]
    <2>1. [daemon[m] EXCEPT !.config = disk[m]["config"]]
            = [config |-> disk[m]["config"], identity |-> None]
      BY SMT, <1>1, <1>2 DEF LoadConfig, Off
    <2>2. daemon[m].config = None
      BY SMT, <1>2 DEF LoadConfig, Off
    <2>3. daemon' = [daemon EXCEPT ![m] = [daemon[m] EXCEPT !.config = disk[m]["config"]]]
      BY <1>2 DEF LoadConfig
    <2> QED BY <2>1, <2>2, <2>3
  <1>3. ASSUME LoadIdentity(m), disk[m]["identity"] # None
        PROVE  daemon' = [daemon EXCEPT ![m] = [config |-> daemon[m].config,
                                                identity |-> disk[m]["identity"]]]
    <2>1. [daemon[m] EXCEPT !.identity = disk[m]["identity"]]
            = [config |-> daemon[m].config, identity |-> disk[m]["identity"]]
      BY SMT, <1>1
    <2> QED BY <1>1, <1>3, <2>1 DEF LoadIdentity
  <1>4. LoadIdentity(m) /\ disk[m]["identity"] = None =>
            daemon' = [daemon EXCEPT ![m] = [config |-> None, identity |-> None]]
    BY DEF LoadIdentity, Off
  <1>5. /\ Stop(m) => daemon' = [daemon EXCEPT ![m] = [config |-> None, identity |-> None]]
        /\ Purge(m) => \/ daemon' = [daemon EXCEPT ![m] = [config |-> None, identity |-> None]]
                       \/ daemon' = daemon
    BY DEF Stop, Purge, Ended, Off, process
  <1> QED BY <1>2, <1>3, <1>4, <1>5

(* Field by field: a daemon step leaves the other daemons alone, and its own *)
(* daemon with the config on disk and no identity, or with the config it had *)
(* and the identity on disk, or with neither.                                *)
LEMMA DaemonFields ==
  ASSUME TypeOK, NEW m \in Machines, Loads(m) \/ Purge(m)
  PROVE  /\ \A n \in Machines : n # m => daemon'[n] = daemon[n]
         /\ \/ daemon'[m] = daemon[m]
            \/ daemon'[m].config = None /\ daemon'[m].identity = None
            \/ /\ LoadConfig(m) /\ disk[m]["config"] # None
               /\ daemon'[m].config = disk[m]["config"] /\ daemon'[m].identity = None
            \/ /\ LoadIdentity(m) /\ disk[m]["identity"] # None
               /\ daemon'[m].config = daemon[m].config
               /\ daemon'[m].identity = disk[m]["identity"]
  <1>1. CASE daemon' = daemon
    BY <1>1
  <1>2. CASE daemon' = [daemon EXCEPT ![m] = [config |-> None, identity |-> None]]
    BY <1>2 DEF TypeOK
  <1>3. CASE LoadConfig(m)
    <2>1. daemon' = [daemon EXCEPT ![m] = [config |-> disk[m]["config"], identity |-> None]]
      BY <1>3, DaemonSteps
    <2>2. disk[m]["config"] # None
      BY <1>3 DEF LoadConfig
    <2> QED BY <1>3, <2>1, <2>2 DEF TypeOK
  <1>4. CASE /\ LoadIdentity(m) /\ disk[m]["identity"] # None
             /\ daemon' = [daemon EXCEPT ![m] = [config |-> daemon[m].config,
                                                 identity |-> disk[m]["identity"]]]
    BY <1>4 DEF TypeOK
  <1> QED BY <1>1, <1>2, <1>3, <1>4, DaemonSteps DEF Loads

(* A purge takes files away and changes no other. *)
LEMMA RemovesFiles ==
  ASSUME TypeOK, NEW m \in Machines, RemoveFile(m)
  PROVE  \A n \in Machines, f \in File :
            disk'[n][f] = disk[n][f] \/ (n = m /\ disk'[n][f] = None)
  <1>1. CASE UNCHANGED disk
    BY <1>1
  <1>2. ASSUME NEW f \in File, disk' = [disk EXCEPT ![m] = [@ EXCEPT ![f] = None]]
        PROVE  \A n \in Machines, g \in File :
                   disk'[n][g] = disk[n][g] \/ (n = m /\ disk'[n][g] = None)
    <2>1. \A n \in Machines : n # m => disk'[n] = disk[n]
      BY <1>2 DEF TypeOK
    <2>2. disk'[m] = [disk[m] EXCEPT ![f] = None] /\ disk[m] \in [File -> Attempts \cup {None}]
      BY <1>2 DEF TypeOK
    <2>3. \A g \in File : disk'[m][g] = disk[m][g] \/ disk'[m][g] = None
      BY <2>2
    <2> QED BY <2>1, <2>3
  <1> QED BY <1>1, <1>2 DEF RemoveFile

(* No step leaves a linked daemon without its identity or its config.       *)
LEMMA StepLinked == TypeOK /\ Linked /\ [Next]_vars => Linked'
  <1> SUFFICES ASSUME TypeOK, Linked, [Next]_vars PROVE Linked'
    OBVIOUS
  <1>1. CASE UNCHANGED <<daemon, link>>
    BY <1>1 DEF Linked
  <1>2. ASSUME NEW m \in Machines, Loads(m) \/ Purge(m) PROVE Linked'
    <2>1. m \in link' => daemon'[m] = daemon[m] /\ m \in link
      <3>1. CASE LoadConfig(m) \/ LoadIdentity(m)
        <4>1. link' = link
          BY <3>1 DEF LoadConfig, LoadIdentity
        <4>2. daemon[m] = Off => daemon[m].identity = None
          BY SMT DEF Off
        <4>3. daemon[m].identity = None
          BY <3>1, <4>2 DEF LoadConfig, LoadIdentity
        <4> QED BY <4>1, <4>3 DEF Linked
      <3>2. CASE Ended(m)
        BY <3>2 DEF Ended
      <3>3. CASE UNCHANGED process
        BY <3>3 DEF process
      <3> QED BY <1>2, <3>1, <3>2, <3>3 DEF Loads, Stop, Purge
    <2>2. \A n \in Machines : n # m => daemon'[n] = daemon[n]
      BY <1>2, DaemonFields
    <2>3. \A n \in Machines : n \in link' => n \in link
      BY <1>2, <2>1 DEF Loads, LoadConfig, LoadIdentity, Stop, Purge, Ended, process
    <2>4. daemon'[m].identity # None => daemon'[m].config # None
      BY <1>2, DaemonFields DEF Linked, LoadIdentity
    <2> QED BY <2>1, <2>2, <2>3, <2>4 DEF Linked
  <1>3. ASSUME NEW m \in Machines, Connect(m) \/ Refresh(m) \/ Reject(m) PROVE Linked'
    BY <1>3 DEF Connect, Refresh, Reject, Linked
  <1>4. ASSUME NEW h, RevokeHost(h) PROVE Linked'
    BY <1>4 DEF RevokeHost, Linked
  <1>5. ASSUME NEW m \in Machines, RemoveFile(m) \/ PurgeEnds(m) PROVE Linked'
    BY <1>1, <1>5 DEF RemoveFile, PurgeEnds, process, agent
  <1>6. ASSUME NEW m \in Machines, Decommission(m) PROVE Linked'
    BY <1>4, <1>6 DEF Decommission
  <1>7. ASSUME NEW a \in Attempts,
               \/ PostEnroll(a) \/ GiveUp(a) \/ Save(a)
               \/ GetEnrollmentToken(a) \/ CheckMachine(a) \/ CheckPrior(a)
               \/ CreateHost(a) \/ Rollback(a) \/ HandleRevokeHost(a)
        PROVE  Linked'
    BY <1>1, <1>4, <1>7 DEF PostEnroll, GiveUp, Save, GetEnrollmentToken, CheckMachine,
       CheckPrior, CreateHost, Rollback, HandleRevokeHost, agent, process
  <1>8. ASSUME NEW t \in Tokens, CreateEnrollToken(t) \/ Expire(t) PROVE Linked'
    BY <1>1, <1>8 DEF CreateEnrollToken, Expire, agent, process
  <1>9. ASSUME NEW a \in Attempts, NEW m \in Machines, NEW t \in Tokens, Enroll(a, m, t)
        PROVE  Linked'
    BY <1>1, <1>9 DEF Enroll, agent, process
  <1>10. CASE UNCHANGED vars
    BY <1>1, <1>10 DEF vars, agent, process
  <1> QED BY <1>2, <1>3, <1>5, <1>6, <1>7, <1>8, <1>9, <1>10 DEF Next, Loads

(* Every step of the module keeps every variable in its type. *)
LEMMA StepTypeOK == TypeOK /\ Progress /\ Linked /\ [Next]_vars => TypeOK'
  <1> SUFFICES ASSUME TypeOK, Progress, Linked, [Next]_vars PROVE TypeOK'
    OBVIOUS
  <1> USE DEF rows, process, agent, removal
  <1>1. ASSUME NEW t \in Tokens, CreateEnrollToken(t) \/ Expire(t) PROVE TypeOK'
    BY <1>1 DEF CreateEnrollToken, Expire, TypeOK, command
  <1>2. ASSUME NEW a \in Attempts, NEW m \in Machines, NEW t \in Tokens, Enroll(a, m, t)
        PROVE  TypeOK'
    <2>1. disk[m]["config"] \in Attempts \cup {None}
      BY SMT DEF TypeOK, File
    <2> QED BY <1>2, <2>1 DEF Enroll, TypeOK, Busy, Running
  <1>3. ASSUME NEW a \in Attempts, GiveUp(a) PROVE TypeOK'
    BY <1>3 DEF GiveUp, TypeOK, Busy
  <1>4. ASSUME NEW a \in Attempts, PostEnroll(a) PROVE TypeOK'
    <2>1. ~(saved[a] > 0) /\ saved[a] \in 0..3
      BY <1>4 DEF PostEnroll, Progress, TypeOK
    <2>2. saved[a] < 3
      BY SMT, <2>1
    <2>3. /\ client' \in [Attempts -> {"idle", "done", "failed"} \cup Busy]
          /\ \A b \in Attempts : client'[b] = "save" => b = a \/ client[b] = "save"
      <3>1. \E x \in {"save", "failed"} : client' = [client EXCEPT ![a] = x]
        BY <1>4 DEF PostEnroll
      <3>2. client \in [Attempts -> {"idle", "done", "failed"} \cup Busy]
        BY DEF TypeOK
      <3> QED BY SMT, <3>1, <3>2 DEF Busy
    <2> QED BY <1>4, <2>2, <2>3 DEF PostEnroll, TypeOK
  <1>5. ASSUME NEW a \in Attempts, Save(a) PROVE TypeOK'
    <2>1. saved[a] \in 0..2 /\ box[a] \in Machines
      BY SMT, <1>5 DEF Save, Progress, TypeOK
    <2>2. SaveOrder[saved[a] + 1] \in File
      BY SMT, <2>1 DEF SaveOrder, File
    <2>3. disk' \in [Machines -> [File -> Attempts \cup {None}]]
      BY <1>5, <2>1, <2>2 DEF Save, TypeOK
    <2>4. /\ client' \in [Attempts -> {"idle", "done", "failed"} \cup Busy]
          /\ saved' \in [Attempts -> 0..3]
          /\ \A b \in Attempts : client'[b] = "save" => saved'[b] < 3
      BY SMT, <1>5, <2>1 DEF Save, TypeOK, Busy
    <2> QED BY <1>5, <2>3, <2>4 DEF Save, TypeOK
  <1>6. ASSUME NEW a \in Attempts,
               GetEnrollmentToken(a) \/ CheckMachine(a) \/ CheckPrior(a) \/ Rollback(a)
        PROVE  TypeOK'
    <2>1. \E next \in Running \cup {"rejected"} : server' = [server EXCEPT ![a] = next]
      BY <1>6 DEF GetEnrollmentToken, CheckMachine, CheckPrior, Rollback, Answer, Running
    <2>2. server' \in [Attempts -> {"idle", "accepted", "rejected"} \cup Running]
      BY <2>1 DEF TypeOK
    <2> QED BY <1>6, <2>2 DEF GetEnrollmentToken, CheckMachine, CheckPrior, Rollback, TypeOK,
                              command
  <1>7. ASSUME NEW a \in Attempts, CreateHost(a) PROVE TypeOK'
    <2>1. paper[a] \in Tokens
      BY <1>7 DEF CreateHost, Progress
    <2>2. /\ status' \in [Attempts -> {"none", "active", "revoked"}]
          /\ token' \in [Tokens -> {"none", "open", "used", "expired"}]
      BY <1>7, <2>1 DEF CreateHost, TypeOK
    <2>3. /\ server' \in [Attempts -> {"idle", "accepted", "rejected"} \cup Running]
          /\ stragglers' \in [Attempts -> SUBSET Attempts]
      <3>1. \/ server' = [server EXCEPT ![a] = "accepted"]
            \/ server' = [server EXCEPT ![a] = "rejected"]
        BY <1>7 DEF CreateHost, Answer
      <3>2. AtWork(box[a]) \in SUBSET Attempts
        BY DEF AtWork
      <3>3. stragglers' = stragglers \/ stragglers' = [stragglers EXCEPT ![a] = AtWork(box[a])]
        BY <1>7 DEF CreateHost
      <3>4. server' \in [Attempts -> {"idle", "accepted", "rejected"} \cup Running]
        BY <3>1 DEF TypeOK
      <3>5. stragglers' \in [Attempts -> SUBSET Attempts]
        BY <3>2, <3>3 DEF TypeOK
      <3> QED BY <3>4, <3>5
    <2> QED BY <1>7, <2>2, <2>3 DEF CreateHost, TypeOK, command
  <1>8. ASSUME NEW a \in Attempts, HandleRevokeHost(a) PROVE TypeOK'
    BY <1>8, RevokeType DEF HandleRevokeHost
  <1>9. ASSUME NEW m \in Machines, LoadConfig(m) \/ LoadIdentity(m) PROVE TypeOK'
    <2>1. disk[m]["config"] \in Attempts \cup {None} /\ disk[m]["identity"] \in Attempts \cup {None}
      BY SMT DEF TypeOK, File
    <2>2. daemon' \in [Machines -> [config : Attempts \cup {None}, identity : Attempts \cup {None}]]
      <3> USE <2>1 DEF TypeOK
      <3>1. CASE daemon' = [daemon EXCEPT ![m] = [config |-> None, identity |-> None]]
        BY <3>1
      <3>2. CASE daemon' = [daemon EXCEPT ![m] = [config |-> disk[m]["config"], identity |-> None]]
        BY <3>2
      <3>3. CASE daemon' = [daemon EXCEPT ![m] = [config |-> daemon[m].config,
                                                  identity |-> disk[m]["identity"]]]
        BY <3>3
      <3> QED BY <1>9, <3>1, <3>2, <3>3, DaemonSteps
    <2>3. mem' \in [Machines -> [seq : 0..MaxSeq, from : Attempts \cup {None}]]
      <3>1. mem' = mem \/ mem' = [mem EXCEPT ![m] = cache[m]]
        BY <1>9 DEF LoadConfig, LoadIdentity
      <3> QED BY <3>1 DEF TypeOK
    <2> QED BY <1>9, <2>2, <2>3 DEF LoadConfig, LoadIdentity, TypeOK, command
  <1>10. ASSUME NEW m \in Machines, Stop(m) PROVE TypeOK'
    <2>1. stops' \in [Machines -> 0..MaxStops]
      BY SMT, <1>10, EnrollmentAssumption DEF Stop, TypeOK
    <2> QED BY <1>10, <2>1, EndedType DEF Stop, TypeOK, command
  <1>11. ASSUME NEW m \in Machines, Connect(m) \/ Refresh(m) PROVE TypeOK'
    <2>1. daemon[m].config \in Attempts
      BY <1>11 DEF Connect, Refresh, Linked, TypeOK
    <2>2. found' \in [Machines -> 0..MaxSeq]
      BY <1>11 DEF Connect, Refresh, TypeOK
    <2> QED BY <1>11, <2>1, <2>2, DeliverType DEF Connect, Refresh, TypeOK, command
  <1>12. ASSUME NEW m \in Machines, Reject(m) PROVE TypeOK'
    <2>1. /\ mem' \in [Machines -> [seq : 0..MaxSeq, from : Attempts \cup {None}]]
          /\ mem'[m] \in [seq : 0..MaxSeq, from : Attempts \cup {None}]
      <3>1. /\ mem \in [Machines -> [seq : 0..MaxSeq, from : Attempts \cup {None}]]
            /\ mem' = [mem EXCEPT ![m] = [mem[m] EXCEPT !.from = None]]
        BY <1>12 DEF Reject, TypeOK
      <3>2. [mem[m] EXCEPT !.from = None] \in [seq : 0..MaxSeq, from : Attempts \cup {None}]
        BY SMT, <3>1
      <3> QED BY <3>1, <3>2
    <2> QED BY <1>12, <2>1 DEF Reject, TypeOK, command
  <1>13. ASSUME NEW m \in Machines, Decommission(m) PROVE TypeOK'
    <2>1. disk[m]["config"] \in Attempts
      BY SMT, <1>13 DEF Decommission, TypeOK, File
    <2> QED BY <1>13, <2>1, RevokeType DEF Decommission
  <1>14. ASSUME NEW m \in Machines, Purge(m) PROVE TypeOK'
    BY <1>14, EndedType DEF Purge, TypeOK, command
  <1>15. ASSUME NEW m \in Machines, RemoveFile(m) PROVE TypeOK'
    <2>1. Empty \in [seq : 0..MaxSeq, from : Attempts \cup {None}]
      BY SMT, EnrollmentAssumption DEF Empty
    <2>2. disk' \in [Machines -> [File -> Attempts \cup {None}]]
      <3>1. disk' = disk \/ \E f \in File : disk' = [disk EXCEPT ![m] = [disk[m] EXCEPT ![f] = None]]
        BY <1>15 DEF RemoveFile
      <3>2. disk[m] \in [File -> Attempts \cup {None}]
        BY DEF TypeOK
      <3>3. \A f \in File : [disk[m] EXCEPT ![f] = None] \in [File -> Attempts \cup {None}]
        BY <3>2
      <3>4. disk \in [Machines -> [File -> Attempts \cup {None}]]
        BY DEF TypeOK
      <3> QED BY <3>1, <3>3, <3>4
    <2>3. cache' \in [Machines -> [seq : 0..MaxSeq, from : Attempts \cup {None}]]
      BY <1>15, <2>1 DEF RemoveFile, TypeOK
    <2> QED BY <1>15, <2>2, <2>3 DEF RemoveFile, TypeOK, command
  <1>16. ASSUME NEW m \in Machines, PurgeEnds(m) PROVE TypeOK'
    BY <1>16 DEF PurgeEnds, TypeOK, command
  <1>17. CASE UNCHANGED vars
    BY <1>17 DEF vars, command, TypeOK
  <1> QED BY <1>1, <1>2, <1>3, <1>4, <1>5, <1>6, <1>7, <1>8, <1>9, <1>10, <1>11, <1>12,
             <1>13, <1>14, <1>15, <1>16, <1>17 DEF Next

-----------------------------------------------------------------------------
(* Each part of IInv is kept by every kind of step.                          *)

(* The rows, the commands and the answers are left alone by the daemon, by a *)
(* purge and by the quiet steps.                                             *)
LEMMA BoxSteps ==
  ASSUME TypeOK, Quiet \/ \E m \in Machines : Loads(m) \/ Removes(m)
  PROVE  UNCHANGED <<status, box, client, saved, server, stragglers>>
  BY DEF Quiet, Loads, Removes, LoadConfig, LoadIdentity, Stop, Purge, RemoveFile, PurgeEnds,
         rows, command

(* An attempt's client, server and row keep step. *)
LEMMA StepProgress == TypeOK /\ Progress /\ [Next]_vars => Progress'
  <1> SUFFICES ASSUME TypeOK, Progress, [Next]_vars PROVE Progress'
    OBVIOUS
  <1>1. CASE UNCHANGED <<status, command, server>>
    BY <1>1 DEF Progress, command
  <1>2. ASSUME NEW a \in Attempts, NEW m \in Machines, NEW t \in Tokens, Enroll(a, m, t)
        PROVE  Progress'
    BY <1>2 DEF Enroll, Progress, TypeOK, rows
  <1>3. ASSUME NEW a \in Attempts, PostEnroll(a) \/ GiveUp(a) PROVE Progress'
    BY SMT, <1>3 DEF PostEnroll, GiveUp, Progress, TypeOK, rows, Busy
  <1>4. ASSUME NEW a \in Attempts, Save(a) PROVE Progress'
    <2>1. /\ UNCHANGED <<status, box, paper, server>> /\ server[a] = "accepted"
          /\ client[a] = "save" /\ client'[a] \in {"save", "done"}
          /\ \A b \in Attempts \ {a} : client'[b] = client[b] /\ saved'[b] = saved[b]
      BY <1>4 DEF Save, Progress, TypeOK, rows
    <2> QED BY <2>1 DEF Progress
  <1>5. ASSUME NEW a \in Attempts, ServerMoves(a) PROVE Progress'
    <2>1. /\ UNCHANGED <<status, command>>
          /\ server[a] \in Running /\ server'[a] \in Running \cup {"rejected"}
          /\ \A b \in Attempts \ {a} : server'[b] = server[b]
      BY <1>5 DEF ServerMoves, TypeOK
    <2> QED BY <2>1 DEF Progress, Running, command
  <1>6. ASSUME NEW a \in Attempts, Creates(a) \/ Revokes(a) PROVE Progress'
    BY SMT, <1>6 DEF Creates, Revokes, Progress, TypeOK, command
  <1>7. ASSUME NEW m \in Machines, Loads(m) \/ Removes(m) PROVE UNCHANGED <<status, command, server>>
    BY <1>7 DEF Loads, Removes, LoadConfig, LoadIdentity, Stop, Purge, RemoveFile, PurgeEnds,
                rows
  <1>8. CASE Quiet
    BY <1>1, <1>8 DEF Quiet
  <1> QED BY Kinds, <1>1, <1>2, <1>3, <1>4, <1>5, <1>6, <1>7, <1>8

(* No step makes a second active host for a machine.                        *)
LEMMA StepOneActive == TypeOK /\ Progress /\ OneActivePerMachine /\ [Next]_vars
                         => OneActivePerMachine'
  <1> SUFFICES ASSUME TypeOK, Progress, OneActivePerMachine, [Next]_vars
               PROVE  OneActivePerMachine'
    OBVIOUS
  <1>1. CASE UNCHANGED <<status, box>>
    BY <1>1 DEF OneActivePerMachine
  <1>2. ASSUME NEW a \in Attempts, NEW m \in Machines, NEW t \in Tokens, Enroll(a, m, t)
        PROVE  OneActivePerMachine'
    <2>1. status[a] = "none"
      BY <1>2 DEF Enroll, Progress, TypeOK
    <2> QED BY <1>2, <2>1 DEF Enroll, OneActivePerMachine, TypeOK, rows
  <1>3. ASSUME NEW a \in Attempts, Creates(a) PROVE OneActivePerMachine'
    <2>1. \A c \in Attempts : box[c] = box[a] => status[c] # "active"
      BY <1>3 DEF Creates, GetActiveHostByMachineID
    <2> QED BY SMT, <1>3, <2>1 DEF Creates, OneActivePerMachine, TypeOK, command
  <1>4. ASSUME NEW a \in Attempts, Revokes(a) PROVE OneActivePerMachine'
    BY <1>4 DEF Revokes, OneActivePerMachine, TypeOK, command
  <1>5. ASSUME NEW a \in Attempts, PostEnroll(a) \/ GiveUp(a) \/ Save(a) \/ ServerMoves(a)
        PROVE  UNCHANGED <<status, box>>
    BY <1>5 DEF PostEnroll, GiveUp, Save, ServerMoves, rows, command
  <1> QED BY Kinds, BoxSteps, <1>1, <1>2, <1>3, <1>4, <1>5

(* A save writes the next file of its own box and leaves the others.         *)
LEMMA SaveWrites ==
  ASSUME TypeOK, Progress, NEW a \in Attempts, Save(a)
  PROVE  /\ saved[a] \in 0..2 /\ box[a] \in Machines /\ server[a] = "accepted"
         /\ client[a] = "save"
         /\ saved' = [saved EXCEPT ![a] = saved[a] + 1]
         /\ \A m \in Machines, f \in File :
                disk'[m][f] = IF m = box[a] /\ Place(f) = saved[a] + 1 THEN a ELSE disk[m][f]
         /\ UNCHANGED <<status, box, server, daemon, removal, stragglers>>
  <1>1. saved[a] \in 0..2 /\ box[a] \in Machines /\ server[a] = "accepted"
    BY SMT DEF Save, Progress, TypeOK
  <1>2. /\ SaveOrder[saved[a] + 1] \in File
        /\ \A f \in File : Place(f) = saved[a] + 1 <=> f = SaveOrder[saved[a] + 1]
    BY SMT, <1>1 DEF SaveOrder, File, Place
  <1>3. \A m \in Machines : m # box[a] => disk'[m] = disk[m]
    BY <1>1 DEF Save, TypeOK
  <1>4. disk'[box[a]] = [disk[box[a]] EXCEPT ![SaveOrder[saved[a] + 1]] = a]
    BY <1>1 DEF Save, TypeOK
  <1>5. disk[box[a]] \in [File -> Attempts \cup {None}]
    BY <1>1 DEF TypeOK
  <1>6. \A f \in File :
            disk'[box[a]][f] = IF Place(f) = saved[a] + 1 THEN a ELSE disk[box[a]][f]
    BY <1>2, <1>4, <1>5
  <1>7. /\ saved' = [saved EXCEPT ![a] = saved[a] + 1] /\ client[a] = "save"
        /\ UNCHANGED <<status, box, server, daemon, removal, stragglers>>
    BY DEF Save, rows, agent, process
  <1> QED BY <1>1, <1>3, <1>6, <1>7

(* What a disk or a daemon holds stays the work of a command on that box.   *)
LEMMA StepWritten ==
  TypeOK /\ Progress /\ Written /\ [Next]_vars => Written'
  <1> SUFFICES ASSUME TypeOK, Progress, Written, [Next]_vars PROVE Written'
    OBVIOUS
  <1>1. CASE UNCHANGED <<box, saved, disk, daemon>>
    BY <1>1 DEF Written
  <1>2. \A f \in File : Place(f) \in 1..3
    BY SMT DEF File, Place
  <1>3. ASSUME NEW a \in Attempts, NEW m \in Machines, NEW t \in Tokens, Enroll(a, m, t)
        PROVE  Written'
    <2>1. saved[a] = 0
      <3>1. client[a] = "idle" /\ server[a] = "idle"
        BY <1>3 DEF Enroll, Progress
      <3>2. ~(saved[a] > 0)
        BY <3>1 DEF Progress
      <3>3. saved[a] \in 0..3
        BY DEF TypeOK
      <3> QED BY SMT, <3>2, <3>3
    <2>2. \A c \in Attempts : c # a => box'[c] = box[c]
      BY <1>3 DEF Enroll, TypeOK
    <2>3. \A n \in Machines : /\ \A f \in File : disk[n][f] \in Attempts \cup {None}
                              /\ daemon[n].config \in Attempts \cup {None}
      BY SMT DEF TypeOK
    <2> QED BY SMT, <1>2, <1>3, <2>1, <2>2, <2>3 DEF Enroll, Written, agent, process
  <1>4. ASSUME NEW a \in Attempts, Save(a) PROVE Written'
    <2>1. \A c \in Attempts : saved[c] \in 0..3 /\ saved'[c] \in 0..4 /\ saved[c] <= saved'[c]
      BY SMT, <1>4, SaveWrites DEF TypeOK
    <2>2. saved[a] \in 0..2 /\ saved'[a] = saved[a] + 1
      BY <1>4, SaveWrites DEF TypeOK
    <2>3. ASSUME NEW n \in Machines, NEW f \in File, disk'[n][f] # None
          PROVE  box'[disk'[n][f]] = n /\ Place(f) <= saved'[disk'[n][f]]
      <3>1. CASE n = box[a] /\ Place(f) = saved[a] + 1
        <4>1. disk'[n][f] = a /\ box' = box
          BY <1>4, <3>1, SaveWrites
        <4> QED BY SMT, <2>2, <3>1, <4>1
      <3>2. CASE ~(n = box[a] /\ Place(f) = saved[a] + 1)
        <4>1. disk'[n][f] = disk[n][f] /\ box' = box
          BY SMT, <1>4, <3>2, SaveWrites
        <4>2. disk[n][f] \in Attempts
          BY SMT, <2>3, <4>1 DEF TypeOK
        <4>3. box[disk[n][f]] = n /\ Place(f) <= saved[disk[n][f]]
          BY <2>3, <4>1 DEF Written
        <4> QED BY SMT, <1>2, <2>1, <4>1, <4>2, <4>3
      <3> QED BY <3>1, <3>2
    <2>4. ASSUME NEW n \in Machines, daemon'[n].config # None
          PROVE  box'[daemon'[n].config] = n /\ saved'[daemon'[n].config] = 3
      <3>1. daemon' = daemon /\ box' = box
        BY <1>4, SaveWrites
      <3>2. daemon[n].config # a
        BY SMT, <2>2, <2>4, <3>1 DEF Written
      <3>3. daemon[n].config \in Attempts
        BY <2>4, <3>1 DEF TypeOK
      <3>4. saved'[daemon[n].config] = saved[daemon[n].config]
        BY SMT, <1>4, <3>2, <3>3, SaveWrites DEF TypeOK
      <3> QED BY <2>4, <3>1, <3>4 DEF Written
    <2> QED BY <2>3, <2>4 DEF Written
  <1>5. ASSUME NEW m \in Machines, Loads(m) \/ Purge(m) PROVE Written'
    <2>1. disk[m]["config"] # None =>
              LET c == disk[m]["config"] IN box[c] = m /\ saved[c] = 3
      <3> SUFFICES ASSUME disk[m]["config"] # None
                   PROVE  LET c == disk[m]["config"] IN box[c] = m /\ saved[c] = 3
        OBVIOUS
      <3>1. "config" \in File /\ Place("config") = 3
        BY DEF File, Place
      <3>2. disk[m]["config"] # None /\ disk[m]["config"] \in Attempts
        BY SMT, <3>1 DEF TypeOK
      <3>3. saved[disk[m]["config"]] \in 0..3
        BY <3>2 DEF TypeOK
      <3> QED BY SMT, <3>1, <3>2, <3>3 DEF Written
    <2>2. /\ \A n \in Machines : n # m => daemon'[n] = daemon[n]
          /\ \/ daemon'[m].config = daemon[m].config \/ daemon'[m].config = None
             \/ disk[m]["config"] # None /\ daemon'[m].config = disk[m]["config"]
      BY <1>5, DaemonFields
    <2>3. UNCHANGED <<box, saved, disk>>
      BY <1>5 DEF Loads, LoadConfig, LoadIdentity, Stop, Purge, command
    <2>4. ASSUME NEW n \in Machines, daemon'[n].config # None
          PROVE  box[daemon'[n].config] = n /\ saved[daemon'[n].config] = 3
      <3>1. CASE daemon'[n].config = daemon[n].config
        BY <2>4, <3>1 DEF Written
      <3>2. CASE n = m /\ disk[m]["config"] # None /\ daemon'[m].config = disk[m]["config"]
        BY <2>1, <3>2
      <3> QED BY <2>2, <2>4, <3>1, <3>2
    <2> QED BY <2>3, <2>4 DEF Written
  <1>6. ASSUME NEW m \in Machines, RemoveFile(m) PROVE Written'
    <2>1. UNCHANGED <<box, saved, daemon>>
      BY <1>6 DEF RemoveFile, command, process
    <2>2. \A n \in Machines, f \in File : disk'[n][f] # None => disk'[n][f] = disk[n][f]
      BY <1>6, RemovesFiles
    <2>3. ASSUME NEW n \in Machines, NEW f \in File, disk'[n][f] # None
          PROVE  box[disk'[n][f]] = n /\ Place(f) <= saved[disk'[n][f]]
      <3>1. disk'[n][f] = disk[n][f] /\ disk[n][f] # None
        BY <2>2, <2>3
      <3> QED BY <3>1 DEF Written
    <2> QED BY <2>1, <2>3 DEF Written
  <1>7. ASSUME NEW m \in Machines, PurgeEnds(m) PROVE UNCHANGED <<box, saved, disk, daemon>>
    BY <1>7 DEF PurgeEnds, command, agent, process
  <1>8. ASSUME NEW a \in Attempts,
               PostEnroll(a) \/ GiveUp(a) \/ ServerMoves(a) \/ Creates(a) \/ Revokes(a)
        PROVE  UNCHANGED <<box, saved, disk, daemon>>
    BY <1>8 DEF PostEnroll, GiveUp, ServerMoves, Creates, Revokes, command, agent, process
  <1>9. CASE Quiet
    BY <1>1, <1>9 DEF Quiet, command
  <1> QED BY Kinds, <1>1, <1>3, <1>4, <1>5, <1>6, <1>7, <1>8, <1>9 DEF Removes

(* A command that was created, or its stragglers and its purges recorded,    *)
(* stays known: stragglers of other hosts and the swept commands are kept.   *)
LEMMA HistoryKept ==
  ASSUME TypeOK, [Next]_vars
  PROVE  /\ swept \subseteq swept'
         /\ \A h \in Attempts : stragglers'[h] = stragglers[h] \/ Creates(h)
  <1>1. ASSUME NEW m \in Machines, Loads(m) \/ Removes(m)
        PROVE  swept \subseteq swept' /\ stragglers' = stragglers
    BY <1>1 DEF Loads, Removes, LoadConfig, LoadIdentity, Stop, Purge, RemoveFile, PurgeEnds,
                removal
  <1>2. ASSUME NEW a \in Attempts, NEW m \in Machines, NEW t \in Tokens, Enroll(a, m, t)
        PROVE  swept \subseteq swept' /\ stragglers' = stragglers
    BY <1>2 DEF Enroll
  <1>3. ASSUME NEW a \in Attempts,
               PostEnroll(a) \/ GiveUp(a) \/ Save(a) \/ ServerMoves(a) \/ Revokes(a)
        PROVE  swept' = swept /\ stragglers' = stragglers
    BY <1>3 DEF PostEnroll, GiveUp, Save, ServerMoves, Revokes, removal
  <1>4. ASSUME NEW a \in Attempts, Creates(a)
        PROVE  swept' = swept /\ \A h \in Attempts : h # a => stragglers'[h] = stragglers[h]
    BY <1>4 DEF Creates, removal, TypeOK
  <1>5. Quiet => swept' = swept /\ stragglers' = stragglers
    BY DEF Quiet, removal
  <1> QED BY Kinds, <1>1, <1>2, <1>3, <1>4, <1>5

(* A late command stays known to the host it may write over.                *)
LEMMA StepLate ==
  TypeOK /\ Progress /\ Late /\ OneActivePerMachine /\ [Next]_vars => Late'
  <1> SUFFICES ASSUME TypeOK, Progress, Late, OneActivePerMachine, [Next]_vars,
                      NEW a \in Attempts, NEW b \in Attempts,
                      status'[a] = "active", box'[a] = box'[b], a # b,
                      server'[b] = "accepted", client'[b] \in Busy
               PROVE  b \in stragglers'[a]
    BY DEF Late
  <1>1. ASSUME status[a] = "active", box[a] = box[b], server[b] = "accepted", client[b] \in Busy,
               stragglers'[a] = stragglers[a]
        PROVE  b \in stragglers'[a]
    BY <1>1 DEF Late
  <1>2. ASSUME NEW c \in Attempts, NEW m \in Machines, NEW t \in Tokens, Enroll(c, m, t)
        PROVE  b \in stragglers'[a]
    <2>1. c # b
      BY <1>2 DEF Enroll, TypeOK
    <2>2. status[c] = "none"
      BY <1>2 DEF Enroll, Progress, TypeOK
    <2>3. c # a
      BY <1>2, <2>2 DEF Enroll, rows
    <2> QED BY <1>1, <1>2, <2>1, <2>3 DEF Enroll, TypeOK, rows
  <1>3. ASSUME NEW c \in Attempts, PostEnroll(c) \/ GiveUp(c) \/ Save(c)
        PROVE  b \in stragglers'[a]
    <2>1. client[b] \in Busy
      BY <1>3 DEF PostEnroll, GiveUp, Save, TypeOK, Busy
    <2> QED BY <1>1, <1>3, <2>1 DEF PostEnroll, GiveUp, Save, rows
  <1>4. ASSUME NEW c \in Attempts, ServerMoves(c) PROVE b \in stragglers'[a]
    <2>1. server[b] = "accepted"
      BY <1>4 DEF ServerMoves, TypeOK, Running
    <2> QED BY <1>1, <1>4, <2>1 DEF ServerMoves, command
  <1>5. ASSUME NEW c \in Attempts, Creates(c) PROVE b \in stragglers'[a]
    <2>1. UNCHANGED <<box, client>>
      BY <1>5 DEF Creates, command
    <2>2. CASE c = a
      <3>1. server[b] = "accepted"
        BY <1>5, <2>2 DEF Creates, TypeOK
      <3>2. b \in AtWork(box[a])
        BY <2>1, <3>1 DEF AtWork
      <3> QED BY <1>5, <2>2, <3>2 DEF Creates, TypeOK
    <2>3. CASE c # a
      <3>1. status[a] = "active" /\ stragglers'[a] = stragglers[a]
        BY <1>5, <2>3 DEF Creates, TypeOK
      <3>2. c # b
        BY <1>5, <2>1, <3>1 DEF Creates, GetActiveHostByMachineID
      <3>3. server[b] = "accepted"
        BY <1>5, <3>2 DEF Creates, TypeOK
      <3> QED BY <1>1, <2>1, <3>1, <3>3
    <2> QED BY <2>2, <2>3
  <1>6. ASSUME NEW c \in Attempts, Revokes(c) PROVE b \in stragglers'[a]
    <2>1. status[a] = "active"
      BY <1>6 DEF Revokes, TypeOK
    <2> QED BY <1>1, <1>6, <2>1 DEF Revokes, command
  <1> QED BY Kinds, BoxSteps, <1>1, <1>2, <1>3, <1>4, <1>5, <1>6

(* A purge and the commands of its box stay known to each other.            *)
LEMMA StepMarked == TypeOK /\ Progress /\ Marked /\ [Next]_vars => Marked'
  <1> SUFFICES ASSUME TypeOK, Progress, Marked, [Next]_vars,
                      NEW a \in Attempts, client'[a] # "idle", box'[a] \in purging'
               PROVE  a \in swept'
    BY DEF Marked
  <1>1. ASSUME client[a] # "idle", box[a] \in purging PROVE a \in swept'
    BY <1>1, HistoryKept DEF Marked
  <1>2. ASSUME NEW c \in Attempts, NEW m \in Machines, NEW t \in Tokens, Enroll(c, m, t)
        PROVE  a \in swept'
    BY <1>1, <1>2 DEF Enroll, TypeOK
  <1>3. ASSUME NEW c \in Attempts, PostEnroll(c) \/ GiveUp(c) \/ Save(c) PROVE a \in swept'
    <2>1. client[a] # "idle"
      BY <1>3 DEF PostEnroll, GiveUp, Save, TypeOK, Busy
    <2>2. UNCHANGED <<box, purging>>
      BY <1>3 DEF PostEnroll, GiveUp, Save, removal
    <2> QED BY <1>1, <2>1, <2>2
  <1>4. ASSUME NEW c \in Attempts, ServerMoves(c) \/ Creates(c) \/ Revokes(c) PROVE a \in swept'
    <2>1. UNCHANGED <<client, box, purging>>
      BY <1>4 DEF ServerMoves, Creates, Revokes, command, removal
    <2> QED BY <1>1, <2>1
  <1>5. ASSUME NEW m \in Machines, Purge(m) PROVE a \in swept'
    BY <1>1, <1>5 DEF Purge, command
  <1>6. ASSUME NEW m \in Machines, Loads(m) \/ RemoveFile(m) \/ PurgeEnds(m) PROVE a \in swept'
    <2>1. UNCHANGED <<client, box>> /\ purging' \subseteq purging
      BY <1>6 DEF Loads, LoadConfig, LoadIdentity, Stop, RemoveFile, PurgeEnds, command, removal
    <2> QED BY <1>1, <2>1
  <1>7. Quiet => a \in swept'
    BY <1>1 DEF Quiet, command, removal
  <1> QED BY Kinds, <1>2, <1>3, <1>4, <1>5, <1>6, <1>7 DEF Removes

(* A host with a row runs on a box, by a command that has begun.            *)
LEMMA RowHasBox ==
  ASSUME TypeOK, Progress, NEW a \in Attempts, status[a] # "none"
  PROVE  box[a] \in Machines /\ client[a] # "idle" /\ server[a] = "accepted"
  BY DEF Progress, TypeOK

(* What may lie beside a host's config stays allowed.                       *)
LEMMA MayLieKept ==
  ASSUME TypeOK, [Next]_vars, NEW a \in Attempts, ~Creates(a)
  PROVE  MayLie(a) \subseteq MayLie(a)' /\ stragglers'[a] = stragglers[a]
  BY HistoryKept DEF MayLie

(* A file that an active host's command wrote is replaced only by a command *)
(* accepted earlier, and removed only by a purge.                           *)
LEMMA StepKept ==
  TypeOK /\ Progress /\ Late /\ Marked /\ Kept /\ [Next]_vars => Kept'
  <1> SUFFICES ASSUME TypeOK, Progress, Late, Marked, Kept, [Next]_vars,
                      NEW a \in Attempts, status'[a] = "active",
                      NEW f \in File, Place(f) <= saved'[a]
               PROVE  disk'[box'[a]][f] \in MayLie(a)'
    BY DEF Kept
  <1>0. Place(f) \in 1..3 /\ saved[a] \in 0..3
    BY SMT DEF File, Place, TypeOK
  <1>1. ASSUME NEW c \in Attempts, Creates(c), c = a PROVE FALSE
    <2>1. ~(saved[a] > 0)
      BY <1>1 DEF Creates, Progress
    <2>2. saved' = saved
      BY <1>1 DEF Creates, command
    <2> QED BY SMT, <1>0, <2>1, <2>2
  <1>2. ASSUME status[a] = "active", box'[a] = box[a], saved'[a] = saved[a],
               disk'[box[a]][f] = disk[box[a]][f]
        PROVE  disk'[box'[a]][f] \in MayLie(a)'
    BY <1>1, <1>2, MayLieKept DEF Kept
  <1>3. ASSUME NEW c \in Attempts, NEW m \in Machines, NEW t \in Tokens, Enroll(c, m, t)
        PROVE  disk'[box'[a]][f] \in MayLie(a)'
    <2>1. status[c] = "none"
      BY <1>3 DEF Enroll, Progress, TypeOK
    <2>2. status' = status
      BY <1>3 DEF Enroll, rows
    <2>3. c # a
      BY <2>1, <2>2
    <2> QED BY <1>2, <1>3, <2>2, <2>3 DEF Enroll, TypeOK
  <1>4. ASSUME NEW c \in Attempts, Save(c) PROVE disk'[box'[a]][f] \in MayLie(a)'
    <2>1. /\ status' = status /\ box' = box
          /\ saved' = [saved EXCEPT ![c] = saved[c] + 1] /\ saved \in [Attempts -> 0..3]
          /\ client[c] = "save" /\ server[c] = "accepted"
      BY <1>4, SaveWrites DEF TypeOK
    <2>2. box[a] \in Machines
      BY <2>1, RowHasBox
    <2>3. \/ disk'[box[a]][f] = disk[box[a]][f] /\ ~(box[a] = box[c] /\ Place(f) = saved[c] + 1)
          \/ disk'[box[a]][f] = c /\ box[a] = box[c]
      BY <1>4, <2>2, SaveWrites
    <2>4. CASE c = a /\ disk'[box[a]][f] = c
      BY <2>1, <2>4 DEF MayLie
    <2>5. CASE c = a /\ disk'[box[a]][f] # c
      <3>1. Place(f) # saved[a] + 1 /\ disk'[box[a]][f] = disk[box[a]][f]
        BY <2>3, <2>5
      <3>2. Place(f) <= saved[a] + 1
        BY <2>1, <2>5
      <3>3. Place(f) <= saved[a]
        BY SMT, <1>0, <3>1, <3>2
      <3>4. disk[box[a]][f] \in MayLie(a)
        BY <2>1, <3>3 DEF Kept
      <3> QED BY <1>1, <2>1, <3>1, <3>4, MayLieKept
    <2>6. CASE c # a /\ disk'[box[a]][f] = c /\ box[a] = box[c]
      <3>1. c \in stragglers[a]
        BY <2>1, <2>6 DEF Late, Busy
      <3> QED BY <1>1, <2>1, <2>6, <3>1, MayLieKept DEF MayLie
    <2>7. CASE c # a /\ disk'[box[a]][f] = disk[box[a]][f]
      <3>1. saved'[a] = saved[a]
        BY <2>1, <2>7
      <3> QED BY <1>2, <2>1, <2>7, <3>1
    <2> QED BY <2>3, <2>4, <2>5, <2>6, <2>7
  <1>5. ASSUME NEW c \in Attempts, Creates(c) \/ Revokes(c) PROVE disk'[box'[a]][f] \in MayLie(a)'
    <2>1. status[a] = "active"
      BY <1>1, <1>5 DEF Creates, Revokes, TypeOK
    <2> QED BY <1>2, <1>5, <2>1 DEF Creates, Revokes, command
  <1>6. ASSUME NEW c \in Attempts, PostEnroll(c) \/ GiveUp(c) \/ ServerMoves(c)
        PROVE  disk'[box'[a]][f] \in MayLie(a)'
    BY <1>2, <1>6 DEF PostEnroll, GiveUp, ServerMoves, rows, command
  <1>7. ASSUME NEW m \in Machines, RemoveFile(m) PROVE disk'[box'[a]][f] \in MayLie(a)'
    <2>1. UNCHANGED <<status, box, saved>> /\ m \in purging
      BY <1>7 DEF RemoveFile, rows, command
    <2>2. box[a] \in Machines /\ client[a] # "idle"
      BY <2>1, RowHasBox
    <2>3. CASE disk'[box[a]][f] = disk[box[a]][f]
      BY <1>2, <2>1, <2>3
    <2>4. CASE box[a] = m /\ disk'[box[a]][f] = None
      <3>1. a \in swept
        BY <2>1, <2>2, <2>4 DEF Marked
      <3> QED BY <1>1, <2>1, <2>4, <3>1, MayLieKept DEF MayLie
    <2> QED BY <1>7, <2>2, <2>3, <2>4, RemovesFiles
  <1>8. ASSUME NEW m \in Machines, Loads(m) \/ Purge(m) \/ PurgeEnds(m)
        PROVE  UNCHANGED <<status, box, saved, disk>>
    BY <1>8 DEF Loads, LoadConfig, LoadIdentity, Stop, Purge, PurgeEnds, rows, command
  <1>9. Quiet => UNCHANGED <<status, box, saved, disk>>
    BY DEF Quiet, command
  <1> QED BY Kinds, <1>2, <1>3, <1>4, <1>5, <1>6, <1>7, <1>8, <1>9 DEF Removes

(* A daemon that loads the files of an active host gets its key or a         *)
(* straggler's.                                                              *)
LEMMA StepLoaded ==
  TypeOK /\ Progress /\ Linked /\ Written /\ Kept /\ Loaded /\ [Next]_vars => Loaded'
  <1> SUFFICES ASSUME TypeOK, Progress, Linked, Written, Kept, Loaded, [Next]_vars,
                      NEW m \in Machines, daemon'[m].identity # None,
                      status'[daemon'[m].config] = "active"
               PROVE  daemon'[m].identity \in {daemon'[m].config} \cup stragglers'[daemon'[m].config]
    BY DEF Loaded
  <1>1. ASSUME daemon'[m] = daemon[m] PROVE daemon[m].config \in Attempts
    BY <1>1 DEF Linked, TypeOK
  <1>2. ASSUME daemon'[m] = daemon[m], status[daemon[m].config] = "active",
               stragglers'[daemon[m].config] = stragglers[daemon[m].config]
        PROVE  daemon'[m].identity \in {daemon'[m].config} \cup stragglers'[daemon'[m].config]
    BY <1>2 DEF Loaded
  <1>3. ASSUME NEW n \in Machines, Loads(n) \/ Removes(n)
        PROVE  daemon'[m].identity \in {daemon'[m].config} \cup stragglers'[daemon'[m].config]
    <2>1. UNCHANGED <<status, server, stragglers>>
      BY <1>3, BoxSteps
    <2>2. CASE daemon'[m] = daemon[m]
      BY <2>1, <2>2 DEF Loaded
    <2>3. CASE daemon'[m] # daemon[m]
      <3>1. /\ n = m /\ disk[m]["identity"] # None /\ daemon[m].config # None
            /\ daemon'[m].config = daemon[m].config /\ daemon'[m].identity = disk[m]["identity"]
        <4>1. CASE Loads(n) \/ Purge(n)
          BY <2>3, <4>1, DaemonFields DEF LoadIdentity
        <4>2. CASE RemoveFile(n) \/ PurgeEnds(n)
          BY <2>3, <4>2 DEF RemoveFile, PurgeEnds, agent, process
        <4> QED BY <1>3, <4>1, <4>2 DEF Removes
      <3> DEFINE h == daemon[m].config
      <3>2. h \in Attempts /\ box[h] = m /\ saved[h] = 3 /\ status[h] = "active"
        <4>1. h \in Attempts
          BY <3>1 DEF TypeOK
        <4>2. box[h] = m /\ saved[h] = 3
          BY <3>1 DEF Written
        <4> QED BY <2>1, <3>1, <4>1, <4>2
      <3>3. "identity" \in File /\ Place("identity") <= 3
        BY SMT DEF File, Place
      <3>4. disk[m]["identity"] \in MayLie(h)
        BY <3>2, <3>3 DEF Kept
      <3> QED BY <2>1, <3>1, <3>4 DEF MayLie
    <2> QED BY <2>2, <2>3
  <1>4. ASSUME NEW a \in Attempts, Creates(a)
        PROVE  daemon'[m] = daemon[m] /\ daemon[m].config # a /\ status[daemon[m].config] = "active"
    <2>1. daemon' = daemon
      BY <1>4 DEF Creates
    <2>2. ~(saved[a] > 0)
      BY <1>4 DEF Creates, Progress
    <2>3. saved[a] # 3
      BY SMT, <2>2
    <2>4. daemon[m].config # a
      BY <1>1, <2>1, <2>3, EnrollmentAssumption DEF Written
    <2> QED BY <1>1, <1>4, <2>1, <2>4 DEF Creates, TypeOK
  <1>5. ASSUME NEW a \in Attempts, Revokes(a)
        PROVE  daemon'[m] = daemon[m] /\ status[daemon[m].config] = "active" /\ stragglers' = stragglers
    BY <1>1, <1>5 DEF Revokes, TypeOK
  <1>6. ASSUME NEW a \in Attempts, PostEnroll(a) \/ GiveUp(a) \/ Save(a) \/ ServerMoves(a)
        PROVE  UNCHANGED <<daemon, status, stragglers>>
    BY <1>6 DEF PostEnroll, GiveUp, Save, ServerMoves, rows, agent, process
  <1>7. ASSUME NEW a \in Attempts, NEW n \in Machines, NEW t \in Tokens, Enroll(a, n, t)
        PROVE  UNCHANGED <<daemon, status, stragglers>>
    BY <1>7 DEF Enroll, rows, agent, process
  <1>8. Quiet => UNCHANGED <<daemon, status, stragglers>>
    BY DEF Quiet
  <1>9. ASSUME NEW a \in Attempts, Creates(a)
        PROVE  stragglers'[daemon[m].config] = stragglers[daemon[m].config]
    BY <1>1, <1>4, <1>9 DEF Creates, TypeOK
  <1> QED BY Kinds, <1>2, <1>3, <1>4, <1>5, <1>6, <1>7, <1>8, <1>9

-----------------------------------------------------------------------------
(* The invariant is inductive.                                              *)
LEMMA Inductive == IInv /\ [Next]_vars => IInv'
  BY StepTypeOK, StepProgress, StepLinked, StepWritten, StepLate, StepMarked, StepKept,
     StepLoaded, StepOneActive DEF IInv

(* IInv holds in every reachable state. *)
LEMMA Invariance == Spec => []IInv
  BY InitIInv, Inductive, PTL DEF Spec

(* Every variable of the enrollment keeps its type: a command never saves a  *)
(* fourth file and the numbers and stops stay within their bounds.           *)
THEOREM TypeCorrect == Spec => []TypeOK
  <1>1. IInv => TypeOK
    BY DEF IInv
  <1> QED BY <1>1, Invariance, PTL

(* Whatever enroll requests, revocations and decommissions overlap, two      *)
(* active host rows never share a machine id.                                *)
THEOREM OneHostPerMachine == Spec => []OneActivePerMachine
  <1>1. IInv => OneActivePerMachine
    BY DEF IInv
  <1> QED BY <1>1, Invariance, PTL

(* The host named by a config.json ran its command on that box to the end.   *)
LEMMA ConfigWritten ==
  ASSUME TypeOK, Written, NEW m \in Machines, disk[m]["config"] # None
  PROVE  LET h == disk[m]["config"] IN h \in Attempts /\ box[h] = m /\ saved[h] = 3
  <1>1. "config" \in File /\ Place("config") = 3
    BY DEF File, Place
  <1>2. disk[m]["config"] \in Attempts
    BY SMT, <1>1 DEF TypeOK
  <1>3. saved[disk[m]["config"]] \in 0..3
    BY <1>2 DEF TypeOK
  <1>4. box[disk[m]["config"]] = m /\ Place("config") <= saved[disk[m]["config"]]
    BY <1>1 DEF Written
  <1> QED BY SMT, <1>1, <1>2, <1>3, <1>4

(* At every moment of any number of enroll commands, crashes between their   *)
(* writes and purges included, the id of an active host on disk lies beside  *)
(* that host's keys, those of a command accepted before it and still at work *)
(* when it was created, or what a purge left; and a running daemon with an   *)
(* active host's id holds that host's key or one of such a command.          *)
THEOREM ConfigAlwaysWorks == Spec => []ActiveConfigWorks
  <1>1. IInv => ActiveConfigWorks
    <2> SUFFICES ASSUME IInv, NEW m \in Machines
                 PROVE  /\ disk[m]["config"] # None /\ status[disk[m]["config"]] = "active" =>
                              \A f \in File : disk[m][f] \in MayLie(disk[m]["config"])
                        /\ daemon[m].identity # None /\ status[daemon[m].config] = "active" =>
                              daemon[m].identity \in
                                  {daemon[m].config} \cup stragglers[daemon[m].config]
      BY DEF ActiveConfigWorks
    <2>1. \A f \in File : Place(f) <= 3
      BY SMT DEF File, Place
    <2>2. ASSUME disk[m]["config"] # None, status[disk[m]["config"]] = "active"
          PROVE  \A f \in File : disk[m][f] \in MayLie(disk[m]["config"])
      BY <2>1, <2>2, ConfigWritten DEF IInv, Kept
    <2> QED BY <2>2 DEF IInv, Loaded
  <1> QED BY <1>1, Invariance, PTL

(* While the host a box is enrolled as stays active, no command changes a    *)
(* file of the box but one that was accepted before that host and has not    *)
(* finished, and nothing but a purge removes one.                            *)
THEOREM WorkingIdentityKept == Spec => IdentityKept
  <1> DEFINE FilesKept ==
                \A m \in Machines :
                    LET h == disk[m]["config"] IN
                    h # None /\ status[h] = "active" /\ status'[h] = "active" =>
                        \A f \in File :
                            disk'[m][f] = disk[m][f] \/ disk'[m][f] \in MayLie(h) \ {h}
  <1>1. IInv /\ [Next]_vars => [FilesKept]_vars
    <2> SUFFICES ASSUME IInv, [Next]_vars, NEW m \in Machines, NEW f \in File,
                        disk[m]["config"] # None, status[disk[m]["config"]] = "active",
                        disk'[m][f] # disk[m][f]
                 PROVE  disk'[m][f] \in MayLie(disk[m]["config"]) \ {disk[m]["config"]}
      OBVIOUS
    <2> DEFINE h == disk[m]["config"]
    <2>1. /\ TypeOK /\ Progress /\ Late /\ Marked
          /\ h \in Attempts /\ box[h] = m /\ saved[h] = 3 /\ client[h] # "idle"
      BY ConfigWritten, RowHasBox DEF IInv
    <2> HIDE DEF h
    <2>2. ASSUME NEW a \in Attempts, Save(a) PROVE disk'[m][f] \in MayLie(h) \ {h}
      <3>1. /\ saved[a] \in 0..2 /\ client[a] = "save" /\ server[a] = "accepted"
            /\ disk'[m][f] = a /\ m = box[a]
        <4>1. /\ saved[a] \in 0..2 /\ client[a] = "save" /\ server[a] = "accepted"
              /\ \A n \in Machines, g \in File :
                    disk'[n][g] = IF n = box[a] /\ Place(g) = saved[a] + 1 THEN a ELSE disk[n][g]
          BY <2>1, <2>2, SaveWrites
        <4>2. disk'[m][f] = IF m = box[a] /\ Place(f) = saved[a] + 1 THEN a ELSE disk[m][f]
          BY <4>1
        <4> QED BY <4>1, <4>2
      <3>2. a # h
        BY SMT, <2>1, <3>1
      <3>3. a \in stragglers[h]
        BY <2>1, <3>1, <3>2 DEF Late, Busy, h
      <3> QED BY <3>1, <3>2, <3>3 DEF MayLie
    <2>3. ASSUME NEW n \in Machines, RemoveFile(n) PROVE disk'[m][f] \in MayLie(h) \ {h}
      <3>1. n = m /\ disk'[m][f] = None /\ m \in purging
        <4>1. disk'[m][f] = disk[m][f] \/ (m = n /\ disk'[m][f] = None)
          BY <2>1, <2>3, RemovesFiles
        <4> QED BY <2>3, <4>1 DEF RemoveFile
      <3>2. h \in swept /\ h # None
        BY <2>1, <3>1, EnrollmentAssumption DEF Marked
      <3> QED BY <3>1, <3>2 DEF MayLie
    <2>4. ASSUME NEW a \in Attempts,
                 PostEnroll(a) \/ GiveUp(a) \/ ServerMoves(a) \/ Creates(a) \/ Revokes(a)
          PROVE  UNCHANGED disk
      BY <2>4 DEF PostEnroll, GiveUp, ServerMoves, Creates, Revokes
    <2>5. ASSUME NEW a \in Attempts, NEW n \in Machines, NEW t \in Tokens, Enroll(a, n, t)
          PROVE  UNCHANGED disk
      BY <2>5 DEF Enroll
    <2>6. ASSUME NEW n \in Machines, Loads(n) \/ Purge(n) \/ PurgeEnds(n) PROVE UNCHANGED disk
      BY <2>6 DEF Loads, LoadConfig, LoadIdentity, Stop, Purge, PurgeEnds
    <2>7. Quiet => UNCHANGED disk
      BY DEF Quiet
    <2> QED BY Kinds, <2>1, <2>2, <2>3, <2>4, <2>5, <2>6, <2>7 DEF Removes, h
  <1> QED BY <1>1, Invariance, PTL DEF Spec, IdentityKept

-----------------------------------------------------------------------------
(* The daemon of m holds its host's newest list, once the host's numbers     *)
(* have passed the one it came with.                                         *)
Heard(m) ==
    LET h == daemon[m].config IN
    IF seq[h] > found[m] THEN mem[m] = [seq |-> seq[h], from |-> h] ELSE mem[m].seq = found[m]

(* A daemon is heard as before when its ids, its cache and its host's number *)
(* are left alone.                                                           *)
LEMMA HeardKept ==
  ASSUME NEW m \in Machines, Heard(m), daemon'[m] = daemon[m], mem'[m] = mem[m],
         found'[m] = found[m], seq'[daemon[m].config] = seq[daemon[m].config]
  PROVE  Heard(m)'
  BY DEF Heard

(* Two connected daemons run as different hosts. *)
LEMMA LinksApart ==
  ASSUME TypeOK, Linked, Written, NEW m \in link
  PROVE  /\ m \in Machines /\ daemon[m].config \in Attempts
         /\ \A n \in link : n # m => daemon[n].config # daemon[m].config
  <1>1. \A n \in link : /\ n \in Machines /\ daemon[n].config # None
                        /\ box[daemon[n].config] = n
    BY DEF TypeOK, Linked, Written
  <1> QED BY <1>1 DEF TypeOK

(* A delivery changes the cache of no other machine and the number of no     *)
(* other host.                                                               *)
LEMMA DeliverOne ==
  ASSUME TypeOK, NEW m \in Machines, NEW h \in Attempts, NEW from \in Attempts \cup {None},
         Deliver(m, h, from)
  PROVE  /\ \A n \in Machines : n # m => mem'[n] = mem[n]
         /\ \A a \in Attempts : a # h => seq'[a] = seq[a]
         /\ seq'[h] = seq[h] + 1 /\ seq[h] \in 0..MaxSeq /\ mem[m].seq \in 0..MaxSeq
         /\ IF seq[h] + 1 > mem[m].seq THEN mem'[m] = [seq |-> seq[h] + 1, from |-> from]
                                       ELSE mem'[m] = mem[m]
  <1>1. /\ \A n \in Machines : n # m => mem'[n] = mem[n]
        /\ \A a \in Attempts : a # h => seq'[a] = seq[a]
        /\ seq[h] \in 0..MaxSeq /\ mem[m].seq \in 0..MaxSeq
    BY DEF TypeOK, Deliver
  <1>2. seq'[h] = seq[h] + 1
    BY SMT DEF TypeOK, Deliver
  <1>3. IF seq[h] + 1 > mem[m].seq THEN mem'[m] = [seq |-> seq[h] + 1, from |-> from]
                                   ELSE mem'[m] = mem[m]
    BY SMT DEF TypeOK, Deliver
  <1> QED BY <1>1, <1>2, <1>3

(* A daemon that is sent its own host's list is heard, whether it came with  *)
(* the number it holds or was heard before.                                  *)
LEMMA DeliverHeard ==
  ASSUME TypeOK, NEW m \in Machines, NEW h \in Attempts, Deliver(m, h, h),
         daemon' = daemon, daemon[m].config = h,
         found'[m] = mem[m].seq \/ (found'[m] = found[m] /\ Heard(m))
  PROVE  Heard(m)'
  <1>1. /\ seq'[h] = seq[h] + 1 /\ seq[h] \in Nat /\ mem[m].seq \in Nat /\ found[m] \in Nat
        /\ IF seq[h] + 1 > mem[m].seq THEN mem'[m] = [seq |-> seq[h] + 1, from |-> h]
                                      ELSE mem'[m] = mem[m]
    BY SMT, DeliverOne DEF TypeOK
  <1>2. IF seq'[h] > found'[m] THEN seq[h] + 1 > mem[m].seq
                               ELSE ~(seq[h] + 1 > mem[m].seq) /\ mem[m].seq = found'[m]
    <2>1. CASE found'[m] = mem[m].seq
      BY SMT, <1>1, <2>1
    <2>2. CASE found'[m] # mem[m].seq
      <3>1. /\ found'[m] = found[m]
            /\ IF seq[h] > found[m] THEN mem[m].seq = seq[h] ELSE mem[m].seq = found[m]
        <4>1. Heard(m) /\ found'[m] = found[m]
          BY <2>2
        <4>2. [seq |-> seq[h], from |-> h].seq = seq[h]
          OBVIOUS
        <4> QED BY <4>1, <4>2 DEF Heard
      <3> QED BY SMT, <1>1, <3>1
    <2> QED BY <2>1, <2>2
  <1>3. daemon'[m].config = h
    OBVIOUS
  <1> QED BY <1>1, <1>2, <1>3 DEF Heard

(* Every step leaves every connected daemon heard: a delivery to one daemon  *)
(* numbers no other daemon's host, and a revocation that numbers an empty    *)
(* snapshot cuts the daemons of that host off.                               *)
LEMMA StepRecovers == IInv /\ IInv' /\ Recovers /\ [Next]_vars => Recovers'
  <1> SUFFICES ASSUME IInv, IInv', Recovers, [Next]_vars, NEW n \in link'
               PROVE  Heard(n)'
    BY DEF Recovers, Heard
  <1>0. /\ TypeOK /\ Linked /\ Written /\ n \in Machines
        /\ \A m \in link : Heard(m) /\ m \in Machines /\ daemon[m].config \in Attempts
    BY LinksApart DEF IInv, TypeOK, Recovers, Heard
  <1>1. ASSUME UNCHANGED <<daemon, seq, mem, found>>, link' \subseteq link PROVE Heard(n)'
    BY <1>0, <1>1, HeardKept
  <1>2. ASSUME NEW m \in Machines, n # m, n \in link, daemon' = daemon, found'[n] = found[n],
               NEW h \in Attempts, daemon[n].config # h, NEW from \in Attempts \cup {None},
               Deliver(m, h, from)
        PROVE  Heard(n)'
    BY <1>0, <1>2, DeliverOne, HeardKept
  <1>3. ASSUME NEW m \in Machines, Connect(m) PROVE Heard(n)'
    <2>1. /\ daemon[m].identity # None /\ m \notin link /\ link' = link \cup {m}
          /\ Deliver(m, daemon[m].config, daemon[m].config) /\ UNCHANGED daemon
          /\ found' = [found EXCEPT ![m] = mem[m].seq]
      BY <1>3 DEF Connect
    <2>2. daemon[m].config \in Attempts /\ box[daemon[m].config] = m
      <3>1. daemon[m].config # None /\ daemon[m].config \in Attempts \cup {None}
        BY <1>0, <2>1 DEF TypeOK, Linked
      <3> QED BY <1>0, <3>1 DEF Written
    <2>3. CASE n = m
      <3>1. found'[m] = mem[m].seq
        BY <1>0, <2>1 DEF TypeOK
      <3> QED BY <1>0, <2>1, <2>2, <2>3, <3>1, DeliverHeard
    <2>4. CASE n # m
      <3>1. n \in link /\ found'[n] = found[n]
        BY <1>0, <2>1, <2>4 DEF TypeOK
      <3>2. daemon[n].config \in Attempts /\ daemon[n].config # None
        BY <1>0, <3>1, EnrollmentAssumption
      <3>3. box[daemon[n].config] = n
        BY <1>0, <3>2 DEF Written
      <3>4. daemon[n].config # daemon[m].config
        BY <2>2, <2>4, <3>3
      <3> QED BY <1>2, <2>1, <2>2, <2>4, <3>1, <3>4
    <2> QED BY <2>3, <2>4
  <1>4. ASSUME NEW m \in Machines, Refresh(m) PROVE Heard(n)'
    <2>1. /\ m \in link /\ link' = link /\ UNCHANGED <<daemon, found>>
          /\ Deliver(m, daemon[m].config, daemon[m].config)
      BY <1>4 DEF Refresh
    <2>2. daemon[m].config \in Attempts /\ (n # m => daemon[n].config # daemon[m].config)
      BY <1>0, <2>1, LinksApart
    <2>3. CASE n = m
      BY <1>0, <2>1, <2>2, <2>3, DeliverHeard
    <2>4. CASE n # m
      BY <1>2, <2>1, <2>2, <2>4
    <2> QED BY <2>3, <2>4
  <1>5. ASSUME NEW m \in Machines, Reject(m) PROVE Heard(n)'
    <2>1. n \in link /\ n # m /\ UNCHANGED <<daemon, seq, found>> /\ mem'[n] = mem[n]
      BY <1>0, <1>5 DEF Reject, TypeOK
    <2> QED BY <1>0, <2>1, HeardKept
  <1>6. ASSUME NEW h \in Attempts, RevokeHost(h) PROVE Heard(n)'
    <2>1. n \in link /\ daemon[n].config # h /\ UNCHANGED daemon /\ found'[n] = found[n]
      BY <1>0, <1>6 DEF RevokeHost
    <2>2. CASE UNCHANGED <<seq, mem>>
      BY <1>0, <2>1, <2>2, HeardKept
    <2>3. CASE \E m \in link : daemon[m].config = h /\ Deliver(m, h, None)
      <3>1. PICK m \in link : daemon[m].config = h /\ Deliver(m, h, None)
        BY <2>3
      <3>2. m \in Machines /\ n # m
        BY <1>0, <2>1, <3>1
      <3> QED BY <1>2, <2>1, <3>1, <3>2
    <2> QED BY <1>6, <2>2, <2>3 DEF RevokeHost
  <1>7. ASSUME NEW m \in Machines, Decommission(m) PROVE Heard(n)'
    <2>1. disk[m]["config"] \in Attempts
      BY SMT, <1>0, <1>7 DEF Decommission, TypeOK, File
    <2> QED BY <1>6, <1>7, <2>1 DEF Decommission
  <1>8. ASSUME NEW m \in Machines, Ended(m), UNCHANGED seq PROVE Heard(n)'
    <2>1. n \in link /\ n # m /\ mem'[n] = mem[n] /\ daemon'[n] = daemon[n] /\ found'[n] = found[n]
      BY <1>0, <1>8 DEF Ended, TypeOK
    <2> QED BY <1>0, <1>8, <2>1, HeardKept
  <1>9. ASSUME NEW m \in Machines, LoadConfig(m) \/ LoadIdentity(m) PROVE Heard(n)'
    <2>1. n \in link /\ UNCHANGED <<seq, found>>
      BY <1>9 DEF LoadConfig, LoadIdentity
    <2>2. daemon[n].identity # None
      BY <1>0, <2>1 DEF Linked
    <2>3. daemon[m] = Off \/ daemon[m].identity = None
      BY <1>9 DEF LoadConfig, LoadIdentity
    <2>4. n # m
      BY SMT, <2>2, <2>3 DEF Off
    <2>5. daemon'[n] = daemon[n] /\ mem'[n] = mem[n]
      BY <1>0, <1>9, <2>4 DEF LoadConfig, LoadIdentity, TypeOK
    <2> QED BY <1>0, <2>1, <2>5, HeardKept
  <1>10. ASSUME NEW a \in Attempts,
               \/ PostEnroll(a) \/ GiveUp(a) \/ Save(a) \/ GetEnrollmentToken(a)
               \/ CheckMachine(a) \/ CheckPrior(a) \/ CreateHost(a) \/ Rollback(a)
        PROVE  Heard(n)'
    BY <1>1, <1>10 DEF PostEnroll, GiveUp, Save, GetEnrollmentToken, CheckMachine,
       CheckPrior, CreateHost, Rollback, agent, process
  <1>11. ASSUME NEW t \in Tokens, CreateEnrollToken(t) \/ Expire(t) PROVE Heard(n)'
    BY <1>1, <1>11 DEF CreateEnrollToken, Expire, agent, process
  <1>12. ASSUME NEW a \in Attempts, NEW m \in Machines, NEW t \in Tokens, Enroll(a, m, t)
        PROVE  Heard(n)'
    BY <1>1, <1>12 DEF Enroll, agent, process
  <1>13. ASSUME NEW m \in Machines, Stop(m) \/ Removes(m) PROVE Heard(n)'
    BY <1>1, <1>8, <1>13 DEF Stop, Removes, Purge, RemoveFile, PurgeEnds, agent, process
  <1>14. CASE UNCHANGED vars
    BY <1>1, <1>14 DEF vars, agent, process
  <1> QED BY <1>3, <1>4, <1>5, <1>6, <1>7, <1>9, <1>10, <1>11, <1>12, <1>13, <1>14
          DEF Next, HandleRevokeHost, Removes

(* A connected daemon holds its host's newest list once the host's numbers   *)
(* have passed the one the daemon came with, and until then keeps what it    *)
(* came with, for any number of boxes and enrollments and whatever is        *)
(* revoked, purged or restarted in between.                                  *)
THEOREM RevokedHostsRecover == Spec => []Recovers
  <1>1. Init => Recovers
    BY DEF Init, Recovers
  <1> QED BY <1>1, StepRecovers, Invariance, PTL DEF Spec
=============================================================================
