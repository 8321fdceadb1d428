-------------------------- MODULE SecretSets_proofs --------------------------
(***************************************************************************)
(* Proofs about SecretSets for any sets, names, entries, hosts, requests   *)
(* and channel capacity: the types, tables that agree with their history,  *)
(* the bundles on their way to a daemon, names, numbers and calm hosts.    *)
(***************************************************************************)
EXTENDS SecretSets, TLAPS

(* Zenon proves most leaves; one that needs arithmetic, sequences or record *)
(* updates names SMT.                                                       *)
USE Zenon

-----------------------------------------------------------------------------
(* The types, by the parts of the state that change together.               *)
TableType ==
    /\ name \in [Sets -> Names \cup {Unborn, Deleted}]
    /\ updated \in [Sets -> Nat] /\ entries \in [Sets -> Contents]
    /\ bound \in SUBSET (Hosts \X Sets)
    /\ past \in [Sets -> Seq([at : Nat, entries : Contents])]
    /\ \A s \in Sets : name[s] \notin Names =>
        entries[s] = NoEntries /\ \A h \in Hosts : <<h, s>> \notin bound
ProcType ==
    /\ pc \in [Procs -> {"idle", "tx", "lookup", "push"} \cup Building]
    /\ job \in [Requests -> Job \cup {NoJob}]
    /\ todo \in [Requests -> SUBSET Hosts]
BuildType == build \in [Procs -> Build \cup {NoBuild}]
LinkType ==
    /\ setSeq \in [Hosts -> Nat]
    /\ link \in [Hosts -> BOOLEAN] /\ chan \in [Hosts -> Seq(Envelope)]
    /\ store \in [Hosts -> Store] /\ app \in [Hosts -> App]
    /\ calm \in [Hosts -> BOOLEAN]
CountType == clock \in Nat /\ ops \in Nat /\ faults \in Nat /\ links \in Nat

(* A handler between its statements has what the next one needs.            *)
Busied ==
    /\ \A p \in Requests : pc[p] \in {"tx", "lookup"} => job[p] \in Job
    /\ \A p \in Procs : pc[p] \in Building => build[p] \in Build
    /\ \A h \in Hosts : /\ pc[h] \notin {"tx", "lookup"}
                        /\ pc[h] \in Building => build[h].host = h

Types == TableType /\ ProcType /\ BuildType /\ LinkType /\ CountType /\ Busied

(* These are the types.                                                     *)
LEMMA TypesOK == Types => TypeOK
  BY DEF Types, TypeOK, TableType, ProcType, BuildType, LinkType, CountType

(* The fields of a request's job.                                           *)
LEMMA Jobs ==
  ASSUME NEW j \in Job
  PROVE  /\ j.set \in Sets /\ j.at \in Nat /\ j.op # "none"
         /\ j.op = "create" => j.name \in Names /\ j.entries \in Contents
         /\ j.op = "rename" => j.name \in Names
         /\ j.op = "bind" => j.host \in Hosts
         /\ j.op = "upsert" => j.key \in Keys /\ j.val \in Vals
         /\ j.op = "remove" => j.key \in Keys
  BY DEF Job

(* A process is a request or the handler of a connection.                   *)
LEMMA ProcKinds ==
  /\ Requests \subseteq Procs /\ Hosts \subseteq Procs /\ Requests \cap Hosts = {}
  /\ \A p \in Procs : p \in Requests \/ p \in Hosts
  BY ProcAssumption DEF Procs

(* A request that begins: what it is to do, and the hosts it looked up.     *)
Starting(p) == \/ CreateSet(p) \/ UpdateSet(p) \/ DeleteSet(p) \/ BindSet(p)
               \/ UpsertEntry(p) \/ DeleteEntry(p)
(* A request begins with a job of its kind on a set that allows it.         *)
LEMMA Started ==
  ASSUME Types, NEW p \in Requests, Starting(p)
  PROVE  /\ faults' \in {faults, faults + 1}
         /\ \E j \in Job, hosts \in SUBSET Hosts :
             /\ Begin(p, j, hosts)
             /\ j.op = "create" => Fresh(j.set)
             /\ j.op # "create" => name[j.set] \in Names
             /\ j.op = "delete" => hosts = HostsForSet(j.set) \/ faults' # faults
  <1>0. clock \in Nat /\ faults \in Nat
    BY DEF Types, CountType
  <1>1. CASE CreateSet(p)
    <2>1. PICK s \in Sets, n \in Names, c \in Contents :
            Fresh(s) /\ Begin(p, [op |-> "create", set |-> s, name |-> n, entries |-> c, at |-> clock], {})
      BY <1>1 DEF CreateSet
    <2>2. [op |-> "create", set |-> s, name |-> n, entries |-> c, at |-> clock] \in Job
      BY <1>0 DEF Job
    <2> QED BY SMT, <1>1, <2>1, <2>2 DEF CreateSet
  <1>2. CASE UpdateSet(p)
    <2>1. PICK s \in Sets, n \in Names :
            GetSet(s) /\ Begin(p, [op |-> "rename", set |-> s, name |-> n, at |-> clock], {})
      BY <1>2 DEF UpdateSet
    <2>2. [op |-> "rename", set |-> s, name |-> n, at |-> clock] \in Job
      BY <1>0 DEF Job
    <2> QED BY SMT, <1>2, <2>1, <2>2 DEF UpdateSet, GetSet
  <1>3. CASE DeleteSet(p)
    <2>1. PICK s \in Sets :
            /\ GetSet(s)
            /\ \/ /\ UNCHANGED faults
                  /\ Begin(p, [op |-> "delete", set |-> s, at |-> clock], HostsForSet(s))
               \/ /\ Fault
                  /\ Begin(p, [op |-> "delete", set |-> s, at |-> clock], {})
      BY <1>3 DEF DeleteSet
    <2>2. [op |-> "delete", set |-> s, at |-> clock] \in Job /\ HostsForSet(s) \subseteq Hosts
      BY <1>0 DEF Job, HostsForSet
    <2>3. Fault => faults' # faults /\ faults' = faults + 1
      BY SMT, <1>0 DEF Fault
    <2> QED BY SMT, <2>1, <2>2, <2>3 DEF GetSet
  <1>4. CASE BindSet(p)
    <2>1. PICK s \in Sets, h \in Hosts :
            GetSet(s) /\ Begin(p, [op |-> "bind", set |-> s, host |-> h, at |-> clock], {})
      BY <1>4 DEF BindSet
    <2>2. [op |-> "bind", set |-> s, host |-> h, at |-> clock] \in Job
      BY <1>0 DEF Job
    <2> QED BY SMT, <1>4, <2>1, <2>2 DEF BindSet, GetSet
  <1>5. CASE UpsertEntry(p)
    <2>1. PICK s \in Sets, k \in Keys, v \in Vals :
            GetSet(s) /\ Begin(p, [op |-> "upsert", set |-> s, key |-> k, val |-> v, at |-> clock], {})
      BY <1>5 DEF UpsertEntry
    <2>2. [op |-> "upsert", set |-> s, key |-> k, val |-> v, at |-> clock] \in Job
      BY <1>0 DEF Job
    <2> QED BY SMT, <1>5, <2>1, <2>2 DEF UpsertEntry, GetSet
  <1>6. CASE DeleteEntry(p)
    <2>1. PICK s \in Sets, k \in Keys :
            GetSet(s) /\ Begin(p, [op |-> "remove", set |-> s, key |-> k, at |-> clock], {})
      BY <1>6 DEF DeleteEntry
    <2>2. [op |-> "remove", set |-> s, key |-> k, at |-> clock] \in Job
      BY <1>0 DEF Job
    <2> QED BY SMT, <1>6, <2>1, <2>2 DEF DeleteEntry, GetSet
  <1> QED BY <1>1, <1>2, <1>3, <1>4, <1>5, <1>6 DEF Starting


(* A transaction that commits: a set created, a set edited, a set bound; a  *)
(* deletion is CommitDelete.                                                *)
Creating(p) ==
    /\ job[p].op = "create" /\ ~NameTaken(job[p].name)
    /\ Write(job[p].set, job[p].name, job[p].entries, job[p].at)
    /\ UNCHANGED bound /\ Return(p)
Editing(p) ==
    /\ job[p].op \in {"rename", "upsert", "remove"} /\ name[job[p].set] \in Names
    /\ \E n \in Names, c \in Contents :
        /\ n = name[job[p].set] \/ \A t \in Sets \ {job[p].set} : name[t] # n
        /\ Write(job[p].set, n, c, job[p].at)
    /\ UNCHANGED bound /\ ThenLookup(p)
Binding(p) ==
    /\ job[p].op = "bind" /\ name[job[p].set] \in Names
    /\ bound' = bound \cup {<<job[p].host, job[p].set>>}
    /\ PushTo(p, {job[p].host})
    /\ UNCHANGED <<name, updated, entries, past>>
Committing(p) ==
    \/ CommitCreate(p) \/ CommitRename(p) \/ CommitDelete(p) \/ CommitBind(p)
    \/ CommitUpsert(p) \/ CommitRemove(p)

(* A transaction does one of these, or nothing.                             *)
LEMMA Committed ==
  ASSUME Types, NEW p \in Requests, Committing(p)
  PROVE  /\ pc[p] = "tx" /\ job[p] \in Job /\ TxKeeps
         /\ \/ NoWrite /\ Return(p)
            \/ Creating(p) \/ Editing(p) \/ Binding(p)
            \/ CommitDelete(p) /\ job[p].op = "delete"
  <1>1. pc[p] = "tx" /\ job[p] \in Job /\ TxKeeps
    BY DEF Committing, CommitCreate, CommitRename, CommitDelete, CommitBind,
           CommitUpsert, CommitRemove, InTx, Types, Busied
  <1>2. /\ job[p].set \in Sets
        /\ job[p].op = "rename" => job[p].name \in Names
        /\ job[p].op = "upsert" => job[p].key \in Keys /\ job[p].val \in Vals
        /\ job[p].op = "remove" => job[p].key \in Keys
    BY <1>1, Jobs
  <1>3. /\ entries[job[p].set] \in Contents /\ name[job[p].set] \in Names \cup {Unborn, Deleted}
        /\ name[job[p].set] \notin Names => entries[job[p].set] = NoEntries
    BY <1>2 DEF Types, TableType
  <1>4. CASE CommitCreate(p)
    BY <1>1, <1>4 DEF CommitCreate, InTx, Creating
  <1>5. CASE CommitRename(p)
    BY <1>1, <1>2, <1>3, <1>5 DEF CommitRename, InTx, Editing, GetSet
  <1>6. CASE CommitDelete(p)
    BY <1>1, <1>6 DEF CommitDelete, InTx
  <1>7. CASE CommitBind(p)
    BY <1>1, <1>7 DEF CommitBind, InTx, Binding, GetSet, NoWrite, tables
  <1>8. CASE CommitUpsert(p)
    <2>1. job[p].op = "upsert" BY <1>8 DEF CommitUpsert, InTx
    <2>2. [entries[job[p].set] EXCEPT ![job[p].key] = job[p].val] \in Contents
      BY <1>2, <1>3, <2>1 DEF Contents
    <2> QED BY <1>1, <1>8, <2>1, <2>2 DEF CommitUpsert, Editing, GetSet
  <1>9. CASE CommitRemove(p)
    <2>1. job[p].op = "remove" BY <1>9 DEF CommitRemove, InTx
    <2>2. [entries[job[p].set] EXCEPT ![job[p].key] = NoVal] \in Contents
      BY <1>2, <1>3, <2>1 DEF Contents
    <2>3. entries[job[p].set][job[p].key] # NoVal => name[job[p].set] \in Names
      BY <1>2, <1>3, <2>1 DEF NoEntries
    <2> QED BY <1>1, <1>9, <2>1, <2>2, <2>3 DEF CommitRemove, Editing
  <1> QED BY <1>4, <1>5, <1>6, <1>7, <1>8, <1>9 DEF Committing

(* Every step is one of these.                                              *)
LEMMA Steps ==
  ASSUME [Next]_vars
  PROVE  \/ UNCHANGED vars
         \/ \E p \in Requests :
              Starting(p) \/ Committing(p) \/ UnbindSet(p) \/ LookupHosts(p)
         \/ \E p \in Procs : \/ StartBuild(p) \/ ReadEntries(p)
                             \/ SecretSetsEnvelope(p) \/ Send(p) \/ Fail(p)
         \/ \E h \in Hosts : \/ Connect(h) \/ Drop(h) \/ Restart(h) \/ Dispatch(h)
                             \/ HandleSecret(h) \/ ReadyReply(h)
  BY DEF Next, Starting, Committing

-----------------------------------------------------------------------------
(* The types are kept.                                                      *)

(* Writing a set keeps the types of the tables.                             *)
LEMMA WriteTypes ==
  ASSUME TableType, NEW s \in Sets, NEW n \in Names, NEW c \in Contents, NEW at \in Nat,
         Write(s, n, c, at), UNCHANGED bound
  PROVE  TableType'
  <1>1. past' \in [Sets -> Seq([at : Nat, entries : Contents])]
    <2> DEFINE T == [at : Nat, entries : Contents]
               r == [at |-> at, entries |-> c]
    <2>1. r \in T OBVIOUS
    <2>2. past[s] \in Seq(T) BY DEF TableType
    <2>3. Append(past[s], r) \in Seq(T)
      <3> HIDE DEF T, r
      <3> QED BY SMT, <2>1, <2>2
    <2>4. past' = [past EXCEPT ![s] = Append(past[s], r)] BY DEF Write
    <2> HIDE DEF T, r
    <2>5. past \in [Sets -> Seq(T)] BY DEF TableType, T
    <2> QED BY <2>3, <2>4, <2>5 DEF T
  <1>2. name' \in [Sets -> Names \cup {Unborn, Deleted}]
        /\ updated' \in [Sets -> Nat] /\ entries' \in [Sets -> Contents]
    BY DEF TableType, Write
  <1>3. \A t \in Sets : name'[t] \notin Names =>
            entries'[t] = NoEntries /\ \A h \in Hosts : <<h, t>> \notin bound'
    BY DEF TableType, Write
  <1> QED BY <1>1, <1>2, <1>3 DEF TableType

(* Every step keeps the types of the tables.                                *)
LEMMA TableStep ==
  ASSUME Types, [Next]_vars
  PROVE  TableType'
  <1>0. TableType BY DEF Types
  <1>1. CASE UNCHANGED <<tables, past>>
    BY <1>0, <1>1 DEF TableType, tables
  <1>2. ASSUME NEW p \in Requests, Starting(p) PROVE TableType'
    BY <1>1, <1>2, Started DEF Begin
  <1>3. ASSUME NEW p \in Requests, Committing(p) PROVE TableType'
    <2>1. job[p].set \in Sets /\ job[p].at \in Nat
          /\ (job[p].op = "create" => job[p].name \in Names /\ job[p].entries \in Contents)
          /\ (job[p].op = "bind" => job[p].host \in Hosts)
      BY <1>3, Committed, Jobs
    <2>2. CASE NoWrite
      BY <1>1, <2>2 DEF NoWrite
    <2>3. CASE Creating(p)
      BY <1>0, <2>1, <2>3, WriteTypes DEF Creating
    <2>4. CASE Editing(p)
      BY <1>0, <2>1, <2>4, WriteTypes DEF Editing
    <2>5. CASE Binding(p)
      <3>1. /\ bound' = bound \cup {<<job[p].host, job[p].set>>}
            /\ name[job[p].set] \in Names /\ job[p].host \in Hosts
            /\ UNCHANGED <<name, updated, entries, past>>
        BY <2>1, <2>5 DEF Binding
      <3>2. bound' \in SUBSET (Hosts \X Sets)
        BY SMT, <1>0, <2>1, <3>1 DEF TableType
      <3>3. \A s \in Sets : name'[s] \notin Names =>
              entries'[s] = NoEntries /\ \A h \in Hosts : <<h, s>> \notin bound'
        BY <1>0, <2>1, <3>1 DEF TableType
      <3> QED BY <1>0, <3>1, <3>2, <3>3 DEF TableType
    <2>6. CASE CommitDelete(p)
      <3>1. NoEntries \in Contents BY DEF NoEntries, Contents
      <3>2. /\ name' = [name EXCEPT ![job[p].set] = Deleted]
            /\ entries' = [entries EXCEPT ![job[p].set] = NoEntries]
            /\ bound' = bound \ (Hosts \X {job[p].set})
            /\ UNCHANGED <<updated, past>>
        BY <2>6 DEF CommitDelete, Cascade
      <3> QED BY <1>0, <2>1, <3>1, <3>2, NameAssumption DEF TableType
    <2> QED BY <1>3, <2>2, <2>3, <2>4, <2>5, <2>6, Committed
  <1>4. ASSUME NEW p \in Requests, UnbindSet(p) PROVE TableType'
    <2>1. PICK s \in Sets, h \in Hosts : bound' = bound \ {<<h, s>>}
      BY <1>4 DEF UnbindSet
    <2> QED BY <1>0, <1>4, <2>1 DEF UnbindSet, TableType
  <1>5. ASSUME NEW p \in Requests, LookupHosts(p) PROVE TableType'
    BY <1>1, <1>5 DEF LookupHosts
  <1>6. ASSUME NEW p \in Procs, \/ StartBuild(p) \/ ReadEntries(p)
                                \/ SecretSetsEnvelope(p) \/ Send(p) \/ Fail(p)
        PROVE TableType'
    BY <1>1, <1>6 DEF StartBuild, ReadEntries, SecretSetsEnvelope, Send, Fail, PushKeeps
  <1>7. ASSUME NEW h \in Hosts, \/ Connect(h) \/ Drop(h) \/ Restart(h) \/ Dispatch(h)
                                \/ HandleSecret(h) \/ ReadyReply(h)
        PROVE TableType'
    BY <1>1, <1>7 DEF Connect, Drop, Restart, Dispatch, HandleSecret, ReadyReply,
                      LinkKeeps, ExecKeeps
  <1>8. CASE UNCHANGED vars
    BY <1>1, <1>8 DEF vars
  <1> QED BY <1>2, <1>3, <1>4, <1>5, <1>6, <1>7, <1>8, Steps


(* Every process but p, and every request but p, is where it was.           *)
Moves(p) ==
    /\ \A q \in Procs \ {p} : pc'[q] = pc[q] /\ build'[q] = build[q]
    /\ \A q \in Requests \ {p} : job'[q] = job[q] /\ todo'[q] = todo[q]
    /\ ProcType' /\ BuildType'

(* A handler that goes on to push.                                          *)
LEMMA Pushed ==
  ASSUME ProcType, NEW p \in Requests, NEW hosts \in SUBSET Hosts, PushTo(p, hosts)
  PROVE  /\ ProcType'
         /\ pc'[p] = (IF hosts = {} THEN "idle" ELSE "push")
         /\ todo'[p] = hosts
         /\ \A q \in Procs \ {p} : pc'[q] = pc[q]
         /\ \A q \in Requests \ {p} : job'[q] = job[q] /\ todo'[q] = todo[q]
  BY ProcKinds DEF ProcType, PushTo

(* A handler that goes on to look up the hosts.                             *)
LEMMA LookedUp ==
  ASSUME ProcType, NEW p \in Requests, ThenLookup(p)
  PROVE  /\ ProcType' /\ pc'[p] = "lookup" /\ UNCHANGED <<job, todo>>
         /\ \A q \in Procs \ {p} : pc'[q] = pc[q]
  BY ProcKinds DEF ProcType, ThenLookup

(* A handler that is done with a host.                                      *)
LEMMA Continued ==
  ASSUME ProcType, NEW p \in Procs, NEW hosts \in SUBSET Hosts, Continue(p, hosts)
  PROVE  /\ ProcType'
         /\ pc'[p] \in {"idle", "push"}
         /\ p \in Requests => /\ todo'[p] = hosts
                              /\ pc'[p] = IF hosts = {} THEN "idle" ELSE "push"
         /\ p \notin Requests => pc'[p] = "idle"
         /\ \A q \in Procs \ {p} : pc'[q] = pc[q]
         /\ \A q \in Requests \ {p} : job'[q] = job[q] /\ todo'[q] = todo[q]
  <1>1. CASE p \in Requests
    BY SMT, <1>1, Pushed DEF Continue
  <1>2. CASE p \notin Requests
    BY <1>2 DEF Continue, ProcType
  <1> QED BY <1>1, <1>2

(* What a step of p leaves of the other handlers is what it was.            *)
LEMMA BusiedStep ==
  ASSUME Busied, NEW p \in Procs, Moves(p),
         pc'[p] \in {"tx", "lookup"} => p \in Requests /\ job'[p] \in Job,
         pc'[p] \in Building => build'[p] \in Build /\ (p \in Hosts => build'[p].host = p)
  PROVE  Busied'
  <1>1. \A q \in Requests : (pc[q] \in {"tx", "lookup"} => job[q] \in Job)'
    BY ProcKinds DEF Busied, Moves
  <1>2. \A q \in Procs : (pc[q] \in Building => build[q] \in Build)'
    BY DEF Busied, Moves
  <1>3. \A h \in Hosts : (pc[h] \notin {"tx", "lookup"})'
    BY ProcKinds DEF Busied, Moves
  <1>4. \A h \in Hosts : (pc[h] \in Building => build[h].host = h)'
    BY ProcKinds DEF Busied, Moves
  <1> QED BY <1>1, <1>2, <1>3, <1>4 DEF Busied

(* The targets of a handler, and the hosts left to it, are hosts.           *)
LEMMA TargetTypes ==
  ASSUME ProcType, NEW p \in Procs
  PROVE  Targets(p) \subseteq Hosts /\ Left(p) \subseteq Hosts
         /\ \A h : Left(p) \ {h} \subseteq Hosts
  BY ProcKinds DEF ProcType, Targets, Left

(* A bundle being built.                                                    *)
LEMMA BuildStarts ==
  ASSUME Types, NEW p \in Procs, StartBuild(p)
  PROVE  \E h \in Targets(p) :
            /\ h \in Hosts /\ Moves(p) /\ build'[p] \in Build
            /\ build'[p] = [host |-> h, rows |-> SetsForHost(h), sets |-> {}, seq |-> 0]
            /\ pc'[p] = (IF SetsForHost(h) = {} THEN "number" ELSE "entries")
            /\ p \in Requests => todo'[p] = todo[p] \ {h}
            /\ p \notin Requests => h = p
  <1>1. PICK h \in Targets(p) :
          /\ build' = [build EXCEPT ![p] =
                [host |-> h, rows |-> SetsForHost(h), sets |-> {}, seq |-> 0]]
          /\ pc' = [pc EXCEPT ![p] = IF SetsForHost(h) = {} THEN "number" ELSE "entries"]
          /\ todo' = IF p \in Requests THEN [todo EXCEPT ![p] = @ \ {h}] ELSE todo
    BY DEF StartBuild
  <1>2. h \in Hosts /\ (p \notin Requests => h = p)
    BY TargetTypes DEF Types, Targets
  <1>3. SetsForHost(h) \in SUBSET Row
    <2>1. ASSUME NEW row \in SetsForHost(h) PROVE row \in Row
      <3>1. PICK s \in Sets : /\ name[s] \in Names
                             /\ row = [set |-> s, name |-> name[s], version |-> updated[s]]
        BY <2>1 DEF SetsForHost
      <3>2. updated[s] \in Nat BY DEF Types, TableType
      <3> QED BY <3>1, <3>2 DEF Row
    <2> QED BY <2>1
  <1> DEFINE b == [host |-> h, rows |-> SetsForHost(h), sets |-> {}, seq |-> 0]
  <1>4. b \in Build
    BY <1>2, <1>3 DEF Build
  <1> HIDE DEF b
  <1>5. BuildType' /\ build'[p] = b /\ \A q \in Procs \ {p} : build'[q] = build[q]
    BY <1>1, <1>4 DEF BuildType, Types, b
  <1>6. /\ ProcType'
        /\ pc'[p] = (IF SetsForHost(h) = {} THEN "number" ELSE "entries")
        /\ p \in Requests => todo'[p] = todo[p] \ {h}
        /\ \A q \in Procs \ {p} : pc'[q] = pc[q]
        /\ \A q \in Requests \ {p} : job'[q] = job[q] /\ todo'[q] = todo[q]
    BY <1>1, <1>2, ProcKinds DEF ProcType, Types, StartBuild, Building
  <1> QED BY <1>1, <1>2, <1>4, <1>5, <1>6 DEF Moves, b

(* A set's entries read.                                                    *)
LEMMA EntriesRead ==
  ASSUME Types, NEW p \in Procs, ReadEntries(p)
  PROVE  \E row \in build[p].rows :
            /\ build[p] \in Build /\ row \in Row /\ Moves(p) /\ build'[p] \in Build
            /\ build'[p].rows = build[p].rows \ {row}
            /\ build'[p].sets = build[p].sets \cup {Open(row, entries[row.set])}
            /\ build'[p].host = build[p].host /\ build'[p].seq = build[p].seq
            /\ pc'[p] = (IF build'[p].rows = {} THEN "number" ELSE "entries")
  <1>0. build[p] \in Build
    BY DEF ReadEntries, Types, Busied, Building
  <1>1. PICK row \in build[p].rows :
          /\ build' = [build EXCEPT ![p] = [build[p] EXCEPT !.rows = build[p].rows \ {row},
                !.sets = build[p].sets \cup {Open(row, entries[row.set])}]]
          /\ pc' = [pc EXCEPT ![p] = IF build[p].rows \ {row} = {} THEN "number" ELSE "entries"]
    BY DEF ReadEntries, GetSetEntries
  <1>2. row \in Row BY <1>0 DEF Build
  <1>3. Open(row, entries[row.set]) \in Opened
    BY <1>2 DEF Open, Opened, Row, Types, TableType
  <1> DEFINE R == build[p].rows \ {row}
             S == build[p].sets \cup {Open(row, entries[row.set])}
             b == [build[p] EXCEPT !.rows = R, !.sets = S]
  <1>4. R \in SUBSET Row /\ S \in SUBSET Opened
    BY <1>0, <1>3 DEF Build
  <1>5. b \in Build /\ b.rows = R /\ b.sets = S /\ b.host = build[p].host /\ b.seq = build[p].seq
    <2> HIDE DEF R, S
    <2> QED BY <1>0, <1>4 DEF Build
  <1>6. build' = [build EXCEPT ![p] = b] BY <1>1
  <1>7. pc' = [pc EXCEPT ![p] = IF R = {} THEN "number" ELSE "entries"] BY <1>1
  <1> HIDE DEF b
  <1>8. BuildType' /\ build'[p] = b /\ \A q \in Procs \ {p} : build'[q] = build[q]
    BY <1>5, <1>6 DEF BuildType, Types
  <1> HIDE DEF R
  <1>9. /\ ProcType'
        /\ pc'[p] = (IF R = {} THEN "number" ELSE "entries")
        /\ \A q \in Procs \ {p} : pc'[q] = pc[q]
        /\ UNCHANGED <<job, todo>>
    BY <1>7 DEF ProcType, Types, ReadEntries, Building
  <1>10. Moves(p) BY <1>8, <1>9 DEF Moves
  <1> QED BY <1>0, <1>2, <1>5, <1>8, <1>9, <1>10 DEF R, S


(* A bundle numbered.                                                       *)
LEMMA Enveloped ==
  ASSUME Types, NEW p \in Procs, SecretSetsEnvelope(p)
  PROVE  /\ build[p] \in Build /\ build[p].host \in Hosts
         /\ Moves(p) /\ build'[p] \in Build
         /\ build'[p].rows = build[p].rows /\ build'[p].sets = build[p].sets
         /\ build'[p].host = build[p].host
         /\ build'[p].seq = setSeq[build[p].host] + 1
         /\ pc'[p] = "send"
  <1>0. build[p] \in Build
    BY DEF SecretSetsEnvelope, Types, Busied, Building
  <1>1. build[p].host \in Hosts BY <1>0 DEF Build
  <1> DEFINE n == setSeq[build[p].host] + 1
             b == [build[p] EXCEPT !.seq = n]
  <1>2. n \in Nat BY SMT, <1>1 DEF Types, LinkType
  <1>3. build' = [build EXCEPT ![p] = b]
    BY DEF SecretSetsEnvelope, NextHostSetSeq
  <1>4. b \in Build /\ b.rows = build[p].rows /\ b.sets = build[p].sets
        /\ b.host = build[p].host /\ b.seq = n
    <2> HIDE DEF n
    <2> QED BY <1>0, <1>2 DEF Build
  <1> HIDE DEF b
  <1>5. BuildType' /\ build'[p] = b /\ \A q \in Procs \ {p} : build'[q] = build[q]
    BY <1>3, <1>4 DEF BuildType, Types
  <1>6. /\ ProcType' /\ pc'[p] = "send" /\ UNCHANGED <<job, todo>>
        /\ \A q \in Procs \ {p} : pc'[q] = pc[q]
    BY DEF ProcType, Types, SecretSetsEnvelope, Building
  <1>7. Moves(p) BY <1>5, <1>6 DEF Moves
  <1> QED BY <1>0, <1>1, <1>4, <1>5, <1>6, <1>7

(* A handler that has sent its bundle, or dropped it.                       *)
LEMMA Sent ==
  ASSUME Types, NEW p \in Procs, Send(p)
  PROVE  /\ build[p] \in Build /\ build[p].host \in Hosts
         /\ [seq |-> build[p].seq, sets |-> build[p].sets] \in Envelope
         /\ Moves(p) /\ build'[p] = NoBuild /\ pc'[p] \in {"idle", "push"}
         /\ p \in Requests => /\ todo'[p] = todo[p]
                              /\ pc'[p] = IF todo[p] = {} THEN "idle" ELSE "push"
         /\ p \notin Requests => pc'[p] = "idle"
  <1>0. build[p] \in Build
    BY DEF Send, Types, Busied, Building
  <1>1. build[p].host \in Hosts /\ build[p].seq \in Nat /\ build[p].sets \in SUBSET Opened
    BY <1>0 DEF Build
  <1>2. Left(p) \in SUBSET Hosts /\ ProcType BY TargetTypes DEF Types
  <1>3. Continue(p, Left(p)) /\ build' = [build EXCEPT ![p] = NoBuild] BY DEF Send
  <1>4. BuildType' /\ build'[p] = NoBuild /\ \A q \in Procs \ {p} : build'[q] = build[q]
    BY <1>3 DEF BuildType, Types
  <1>5. /\ ProcType' /\ pc'[p] \in {"idle", "push"}
        /\ p \in Requests => /\ todo'[p] = Left(p)
                             /\ pc'[p] = IF Left(p) = {} THEN "idle" ELSE "push"
        /\ p \notin Requests => pc'[p] = "idle"
        /\ \A q \in Procs \ {p} : pc'[q] = pc[q]
        /\ \A q \in Requests \ {p} : job'[q] = job[q] /\ todo'[q] = todo[q]
    BY SMT, <1>2, <1>3, Continued
  <1>6. Moves(p) BY <1>4, <1>5 DEF Moves
  <1> QED BY <1>0, <1>1, <1>4, <1>5, <1>6 DEF Envelope, Left

(* A handler one of whose statements failed.                                *)
LEMMA Failed ==
  ASSUME Types, NEW p \in Procs, Fail(p)
  PROVE  Moves(p) /\ build'[p] = NoBuild /\ pc'[p] \in {"idle", "push"}
  <1>1. build' = [build EXCEPT ![p] = NoBuild] /\ ProcType BY DEF Fail, Types
  <1>2. BuildType' /\ build'[p] = NoBuild /\ \A q \in Procs \ {p} : build'[q] = build[q]
    BY <1>1 DEF BuildType, Types
  <1> DEFINE P == /\ ProcType' /\ pc'[p] \in {"idle", "push"}
                  /\ \A q \in Procs \ {p} : pc'[q] = pc[q]
                  /\ \A q \in Requests \ {p} : job'[q] = job[q] /\ todo'[q] = todo[q]
  <1>3. ASSUME p \in Requests, Return(p) PROVE P
    BY <1>1, <1>3, Pushed DEF Return
  <1>4. ASSUME NEW S \in SUBSET Hosts, Continue(p, S) PROVE P
    BY <1>1, <1>4, Continued
  <1>5. P
    <2> HIDE DEF P
    <2>1. CASE p \in Requests /\ Return(p) BY <1>3, <2>1
    <2>2. CASE \E h \in Targets(p) : Continue(p, Left(p) \ {h})
      BY <1>1, <1>4, <2>2, TargetTypes
    <2>3. CASE Continue(p, Left(p)) BY <1>1, <1>4, <2>3, TargetTypes
    <2> QED BY <2>1, <2>2, <2>3 DEF Fail
  <1> QED BY <1>2, <1>5 DEF Moves

(* A connection that begins.                                                *)
LEMMA Connected ==
  ASSUME Types, NEW h \in Hosts, Connect(h)
  PROVE  Moves(h) /\ pc'[h] = "push"
  BY ProcKinds DEF Connect, Types, Moves, ProcType, BuildType, LinkKeeps

(* A connection that ends.                                                  *)
LEMMA Disconnected ==
  ASSUME Types, NEW h \in Hosts, Disconnect(h), UNCHANGED <<job, todo>>
  PROVE  /\ Moves(h) /\ pc'[h] = "idle" /\ build'[h] = NoBuild
         /\ setSeq' \in [Hosts -> Nat] /\ setSeq'[h] >= setSeq[h]
         /\ \A g \in Hosts \ {h} : setSeq'[g] = setSeq[g]
         /\ link' \in [Hosts -> BOOLEAN] /\ chan' \in [Hosts -> Seq(Envelope)]
         /\ link'[h] = FALSE /\ chan'[h] = <<>>
         /\ \A g \in Hosts \ {h} : link'[g] = link[g] /\ chan'[g] = chan[g]
  <1>0. h \in Procs BY ProcKinds
  <1>1. /\ pc' = [pc EXCEPT ![h] = "idle"] /\ build' = [build EXCEPT ![h] = NoBuild]
        /\ link' = [link EXCEPT ![h] = FALSE] /\ chan' = [chan EXCEPT ![h] = <<>>]
        /\ \/ UNCHANGED setSeq
           \/ setSeq' = [setSeq EXCEPT ![h] = setSeq[h] + 1]
    BY DEF Disconnect, NextHostSetSeq
  <1>2. ProcType' /\ BuildType' /\ pc'[h] = "idle" /\ build'[h] = NoBuild
        /\ \A q \in Procs \ {h} : pc'[q] = pc[q] /\ build'[q] = build[q]
    BY <1>0, <1>1 DEF Types, ProcType, BuildType
  <1>3. Moves(h) BY <1>2 DEF Moves
  <1>4. <<>> \in Seq(Envelope) BY SMT
  <1> QED BY SMT, <1>1, <1>2, <1>3, <1>4 DEF Types, LinkType


(* What a daemon that reads an envelope has.                                *)
LEMMA Dispatched ==
  ASSUME LinkType, NEW h \in Hosts, Dispatch(h)
  PROVE  /\ Head(chan[h]) = chan[h][1] /\ chan[h][1] \in Envelope /\ Len(chan[h]) > 0
         /\ chan' \in [Hosts -> Seq(Envelope)] /\ store' \in [Hosts -> Store]
         /\ \A g \in Hosts \ {h} : chan'[g] = chan[g] /\ store'[g] = store[g]
         /\ chan'[h] = Tail(chan[h])
         /\ Len(chan'[h]) = Len(chan[h]) - 1
         /\ \A i \in 1..Len(chan'[h]) : chan'[h][i] = chan[h][i + 1]
         /\ store'[h] = IF chan[h][1].seq > store[h].seq
                          THEN [ready |-> TRUE, seq |-> chan[h][1].seq, sets |-> chan[h][1].sets]
                          ELSE store[h]
  <1> DEFINE E == Envelope
  <1>1. chan[h] \in Seq(E) /\ chan[h] # <<>> /\ chan \in [Hosts -> Seq(E)]
    BY DEF Dispatch, LinkType
  <1>2. /\ Head(chan[h]) = chan[h][1] /\ chan[h][1] \in E /\ Len(chan[h]) > 0
        /\ Tail(chan[h]) \in Seq(E) /\ Len(Tail(chan[h])) = Len(chan[h]) - 1
        /\ \A i \in 1..Len(Tail(chan[h])) : Tail(chan[h])[i] = chan[h][i + 1]
    <2> HIDE DEF E
    <2> QED BY SMT, <1>1
  <1>3. chan' = [chan EXCEPT ![h] = Tail(chan[h])] BY DEF Dispatch
  <1>4. /\ chan' \in [Hosts -> Seq(E)] /\ chan'[h] = Tail(chan[h])
        /\ \A g \in Hosts \ {h} : chan'[g] = chan[g]
    <2> HIDE DEF E
    <2> QED BY <1>1, <1>2, <1>3
  <1> DEFINE e == chan[h][1]
             a == [ready |-> TRUE, seq |-> e.seq, sets |-> e.sets]
  <1>5. store' = IF e.seq > store[h].seq THEN [store EXCEPT ![h] = a] ELSE store
    BY <1>2 DEF Dispatch, Apply
  <1>6. a \in Store BY <1>2 DEF Store, Envelope
  <1>7. store' \in [Hosts -> Store] /\ (\A g \in Hosts \ {h} : store'[g] = store[g])
        /\ store'[h] = IF e.seq > store[h].seq THEN a ELSE store[h]
    <2> HIDE DEF a, e
    <2> QED BY <1>5, <1>6 DEF LinkType
  <1> QED BY <1>2, <1>4, <1>7

(* What a daemon answers custosd exec.                                      *)
LEMMA Answered ==
  ASSUME LinkType, NEW h \in Hosts, HandleSecret(h) \/ ReadyReply(h)
  PROVE  /\ app' \in [Hosts -> App]
         /\ \A g \in Hosts \ {h} : app'[g] = app[g]
         /\ app'[h].state = "started" => app'[h].got \in store[h].sets
  <1>1. \/ \E x \in {"none", "missed", "failed"} : app' = [app EXCEPT ![h] = [state |-> x]]
        \/ \E o \in store[h].sets : app' = [app EXCEPT ![h] = [state |-> "started", got |-> o]]
    BY DEF HandleSecret, ReadyReply, Held, NoApp
  <1>2. ASSUME NEW x \in {"none", "missed", "failed"}, app' = [app EXCEPT ![h] = [state |-> x]]
        PROVE /\ app' \in [Hosts -> App]
              /\ \A g \in Hosts \ {h} : app'[g] = app[g]
              /\ app'[h].state = "started" => app'[h].got \in store[h].sets
    <2>1. [state |-> x] \in App BY DEF App
    <2>2. [state |-> x].state # "started" OBVIOUS
    <2> QED BY <1>2, <2>1, <2>2 DEF LinkType
  <1>3. ASSUME NEW o \in store[h].sets, app' = [app EXCEPT ![h] = [state |-> "started", got |-> o]]
        PROVE /\ app' \in [Hosts -> App]
              /\ \A g \in Hosts \ {h} : app'[g] = app[g]
              /\ app'[h].state = "started" => app'[h].got \in store[h].sets
    <2>1. o \in Opened BY DEF LinkType, Store
    <2>2. [state |-> "started", got |-> o] \in App BY <2>1 DEF App
    <2> QED BY <1>3, <2>2 DEF LinkType
  <1> QED BY <1>1, <1>2, <1>3

(* A request that begins says whether it overlaps another.                  *)
LEMMA CalmType ==
  ASSUME calm' = [h \in Hosts |-> calm[h] /\ faults' = faults
                                   /\ \A q \in Requests \cup {h} : ~Busy(q)]
  PROVE  calm' \in [Hosts -> BOOLEAN]
  OBVIOUS

(* Every step keeps the types of the connections and the daemons.           *)
LEMMA LinkStep ==
  ASSUME Types, [Next]_vars
  PROVE  LinkType'
  <1>0. LinkType BY DEF Types
  <1>1. CASE UNCHANGED <<setSeq, daemon, calm>>
    BY <1>0, <1>1 DEF LinkType, daemon
  <1>2. ASSUME NEW p \in Requests, Starting(p) PROVE LinkType'
    <2>1. UNCHANGED <<setSeq, daemon>> /\ Request(p) BY <1>2, Started DEF Begin
    <2> QED BY <1>0, <2>1, CalmType DEF Request, LinkType, daemon
  <1>3. ASSUME NEW p \in Requests, Committing(p) PROVE LinkType'
    BY <1>1, <1>3, Committed DEF TxKeeps
  <1>4. ASSUME NEW p \in Requests, UnbindSet(p) PROVE LinkType'
    BY <1>0, <1>4, CalmType DEF UnbindSet, Request, LinkType, daemon
  <1>5. ASSUME NEW p \in Requests, LookupHosts(p) PROVE LinkType'
    BY <1>1, <1>5 DEF LookupHosts, TxKeeps
  <1>6. ASSUME NEW p \in Procs, StartBuild(p) \/ ReadEntries(p) PROVE LinkType'
    BY <1>1, <1>6 DEF StartBuild, ReadEntries
  <1>7. ASSUME NEW p \in Procs, SecretSetsEnvelope(p) PROVE LinkType'
    <2>1. build[p].host \in Hosts BY <1>7, Enveloped
    <2> QED BY SMT, <1>0, <1>7, <2>1 DEF SecretSetsEnvelope, NextHostSetSeq, LinkType, daemon
  <1>8. ASSUME NEW p \in Procs, Send(p) PROVE LinkType'
    <2> DEFINE E == Envelope
               e == [seq |-> build[p].seq, sets |-> build[p].sets]
               h == build[p].host
    <2>1. h \in Hosts /\ e \in E BY <1>8, Sent
    <2>2. /\ UNCHANGED chan \/ chan' = [chan EXCEPT ![h] = Append(chan[h], e)]
          /\ UNCHANGED calm \/ calm' = [calm EXCEPT ![h] = FALSE]
          /\ UNCHANGED <<setSeq, link, store, app>>
      BY <1>8 DEF Send
    <2> HIDE DEF E, e, h
    <2>3. chan' \in [Hosts -> Seq(E)]
      <3>1. chan \in [Hosts -> Seq(E)] BY <1>0 DEF LinkType, E
      <3>2. Append(chan[h], e) \in Seq(E) BY SMT, <2>1, <3>1
      <3> QED BY <2>1, <2>2, <3>1, <3>2
    <2> QED BY <1>0, <2>1, <2>2, <2>3 DEF LinkType, E
  <1>9. ASSUME NEW p \in Procs, Fail(p) PROVE LinkType'
    BY <1>0, <1>9 DEF Fail, LinkType, daemon
  <1>10. ASSUME NEW h \in Hosts, Connect(h) PROVE LinkType'
    BY <1>0, <1>10 DEF Connect, LinkType
  <1>11. ASSUME NEW h \in Hosts, Drop(h) PROVE LinkType'
    BY <1>0, <1>11, Disconnected DEF Drop, LinkKeeps, LinkType
  <1>12. ASSUME NEW h \in Hosts, Restart(h) PROVE LinkType'
    <2>1. NewSecretStore \in Store /\ NoApp \in App
      BY DEF NewSecretStore, Store, NoApp, App
    <2>2. store' \in [Hosts -> Store] /\ app' \in [Hosts -> App]
      BY <1>0, <1>12, <2>1 DEF Restart, LinkType
    <2> QED BY <1>0, <1>12, <2>2, Disconnected DEF Restart, LinkKeeps, LinkType
  <1>13. ASSUME NEW h \in Hosts, Dispatch(h) PROVE LinkType'
    BY <1>0, <1>13, Dispatched DEF Dispatch, LinkType
  <1>14. ASSUME NEW h \in Hosts, HandleSecret(h) \/ ReadyReply(h) PROVE LinkType'
    BY <1>0, <1>14, Answered DEF HandleSecret, ReadyReply, ExecKeeps, LinkType
  <1>15. CASE UNCHANGED vars
    BY <1>1, <1>15 DEF vars
  <1> QED BY <1>2, <1>3, <1>4, <1>5, <1>6, <1>7, <1>8, <1>9, <1>10, <1>11, <1>12,
             <1>13, <1>14, <1>15, Steps


(* What a request that begins does to the handlers.                         *)
LEMMA Begun ==
  ASSUME Types, NEW p \in Requests, NEW j \in Job, NEW hosts \in SUBSET Hosts, Begin(p, j, hosts)
  PROVE  /\ Moves(p) /\ pc[p] = "idle" /\ pc'[p] = "tx" /\ job'[p] = j /\ todo'[p] = hosts
         /\ UNCHANGED <<build, tables, past, daemon, setSeq>>
  <1>1. ProcType' /\ pc'[p] = "tx" /\ job'[p] = j /\ todo'[p] = hosts
        /\ (\A q \in Procs \ {p} : pc'[q] = pc[q])
        /\ \A q \in Requests \ {p} : job'[q] = job[q] /\ todo'[q] = todo[q]
    BY ProcKinds DEF Begin, Types, ProcType
  <1>2. UNCHANGED <<build, tables, past, daemon, setSeq>> /\ pc[p] = "idle"
    BY DEF Begin, Request
  <1>3. BuildType' BY <1>2 DEF Types, BuildType
  <1> QED BY <1>1, <1>2, <1>3 DEF Moves

(* What a transaction does to them.                                         *)
LEMMA Resolved ==
  ASSUME Types, NEW p \in Requests, Committing(p)
  PROVE  /\ Moves(p) /\ pc'[p] \in {"idle", "lookup", "push"}
         /\ pc'[p] = "lookup" => Editing(p) /\ UNCHANGED <<job, todo>>
         /\ UNCHANGED build
  <1>0. ProcType /\ p \in Procs BY ProcKinds DEF Types
  <1>1. UNCHANGED build /\ BuildType'
    BY Committed DEF TxKeeps, Types, BuildType
  <1>2. ASSUME NEW hosts \in SUBSET Hosts, PushTo(p, hosts)
        PROVE  Moves(p) /\ pc'[p] \in {"idle", "push"}
    <2>1. ProcType' /\ pc'[p] \in {"idle", "push"}
          /\ (\A q \in Procs \ {p} : pc'[q] = pc[q])
          /\ \A q \in Requests \ {p} : job'[q] = job[q] /\ todo'[q] = todo[q]
      BY <1>0, <1>2, Pushed
    <2> QED BY <1>1, <2>1 DEF Moves
  <1>3. CASE Return(p)
    BY <1>1, <1>2, <1>3 DEF Return
  <1>4. CASE Editing(p)
    <2>1. ThenLookup(p) BY <1>4 DEF Editing
    <2>2. ProcType' /\ pc'[p] = "lookup" /\ UNCHANGED <<job, todo>>
          /\ \A q \in Procs \ {p} : pc'[q] = pc[q]
      BY <1>0, <2>1, LookedUp
    <2> QED BY <1>1, <1>4, <2>2 DEF Moves
  <1>5. CASE Binding(p)
    <2>1. {job[p].host} \in SUBSET Hosts /\ PushTo(p, {job[p].host})
      BY <1>5, Committed, Jobs DEF Binding
    <2> QED BY <1>1, <1>2, <2>1
  <1>6. CASE CommitDelete(p)
    <2>1. todo[p] \in SUBSET Hosts /\ PushTo(p, todo[p])
      BY <1>0, <1>6 DEF CommitDelete, ProcType
    <2> QED BY <1>1, <1>2, <2>1
  <1> QED BY <1>3, <1>4, <1>5, <1>6, Committed DEF Creating

(* An unbind, and a lookup, go on to push.                                  *)
LEMMA Unbound ==
  ASSUME Types, NEW p \in Requests, UnbindSet(p)
  PROVE  /\ \E s \in Sets, h \in Hosts :
              /\ <<h, s>> \in bound /\ bound' = bound \ {<<h, s>>}
              /\ pc'[p] = "push" /\ todo'[p] = {h}
         /\ Moves(p) /\ pc[p] = "idle" /\ UNCHANGED build
  <1>1. UNCHANGED build /\ BuildType' /\ pc[p] = "idle"
    BY DEF UnbindSet, Request, Types, BuildType
  <1>2. PICK s \in Sets, h \in Hosts :
          <<h, s>> \in bound /\ bound' = bound \ {<<h, s>>} /\ PushTo(p, {h})
    BY DEF UnbindSet
  <1>3. {h} \in SUBSET Hosts /\ ProcType /\ {h} # {} BY DEF Types
  <1>4. ProcType' /\ pc'[p] = "push" /\ todo'[p] = {h}
        /\ (\A q \in Procs \ {p} : pc'[q] = pc[q])
        /\ \A q \in Requests \ {p} : job'[q] = job[q] /\ todo'[q] = todo[q]
    BY <1>2, <1>3, Pushed
  <1> QED BY <1>1, <1>2, <1>4 DEF Moves

(* The lookup goes on to push to the hosts it found.                        *)
LEMMA HostsLookedUp ==
  ASSUME Types, NEW p \in Requests, LookupHosts(p)
  PROVE  /\ Moves(p) /\ pc[p] = "lookup" /\ UNCHANGED build
         /\ todo'[p] = HostsForSet(job[p].set)
         /\ pc'[p] = IF HostsForSet(job[p].set) = {} THEN "idle" ELSE "push"
  <1>1. UNCHANGED build /\ BuildType' /\ pc[p] = "lookup"
    BY DEF LookupHosts, TxKeeps, Types, BuildType
  <1>2. HostsForSet(job[p].set) \in SUBSET Hosts /\ ProcType /\ PushTo(p, HostsForSet(job[p].set))
    BY DEF HostsForSet, Types, LookupHosts
  <1> DEFINE S == HostsForSet(job[p].set)
  <1>3. ProcType' /\ pc'[p] = (IF S = {} THEN "idle" ELSE "push") /\ todo'[p] = S
        /\ (\A q \in Procs \ {p} : pc'[q] = pc[q])
        /\ \A q \in Requests \ {p} : job'[q] = job[q] /\ todo'[q] = todo[q]
    BY SMT, <1>2, Pushed
  <1> QED BY <1>1, <1>3 DEF Moves

(* Every step keeps the types of the handlers.                              *)
LEMMA ProcStep ==
  ASSUME Types, [Next]_vars
  PROVE  ProcType' /\ BuildType' /\ Busied'
  <1>0. Busied /\ ProcType /\ BuildType /\ Requests \subseteq Procs /\ Hosts \subseteq Procs
    BY ProcKinds DEF Types
  <1>1. ASSUME UNCHANGED <<pc, job, todo, build>> PROVE ProcType' /\ BuildType' /\ Busied'
    BY <1>0, <1>1 DEF ProcType, BuildType, Busied
  <1>2. ASSUME NEW p \in Procs, Moves(p), pc'[p] \in {"idle", "push"}
        PROVE  ProcType' /\ BuildType' /\ Busied'
    BY <1>0, <1>2, BusiedStep DEF Moves, Building
  <1>3. ASSUME NEW p \in Requests, Starting(p) PROVE ProcType' /\ BuildType' /\ Busied'
    <2>1. PICK j \in Job, hosts \in SUBSET Hosts : Begin(p, j, hosts) BY <1>3, Started
    <2>2. Moves(p) /\ pc'[p] = "tx" /\ job'[p] = j BY <2>1, Begun
    <2> QED BY <1>0, <2>2, BusiedStep DEF Moves, Building
  <1>4. ASSUME NEW p \in Requests, Committing(p) PROVE ProcType' /\ BuildType' /\ Busied'
    <2>1. Moves(p) /\ pc'[p] \in {"idle", "lookup", "push"}
          /\ (pc'[p] = "lookup" => UNCHANGED job) /\ job[p] \in Job
      BY <1>4, Resolved, Committed
    <2> QED BY <1>0, <2>1, BusiedStep DEF Moves, Building
  <1>5. ASSUME NEW p \in Requests, UnbindSet(p) \/ LookupHosts(p)
        PROVE ProcType' /\ BuildType' /\ Busied'
    BY <1>0, <1>2, <1>5, Unbound, HostsLookedUp
  <1>6. ASSUME NEW p \in Procs, StartBuild(p) PROVE ProcType' /\ BuildType' /\ Busied'
    <2>1. PICK h \in Targets(p) :
            /\ Moves(p) /\ build'[p] \in Build
            /\ build'[p] = [host |-> h, rows |-> SetsForHost(h), sets |-> {}, seq |-> 0]
            /\ pc'[p] \in {"number", "entries"}
            /\ p \notin Requests => h = p
      BY <1>6, BuildStarts
    <2>2. build'[p].host = h BY SMT, <2>1
    <2>3. p \in Hosts => build'[p].host = p BY <2>1, <2>2, ProcKinds
    <2> QED BY <1>0, <2>1, <2>3, BusiedStep DEF Moves
  <1>7. ASSUME NEW p \in Procs, ReadEntries(p) PROVE ProcType' /\ BuildType' /\ Busied'
    <2>1. Moves(p) /\ build'[p] \in Build /\ build'[p].host = build[p].host
          /\ pc'[p] \in {"number", "entries"}
      BY <1>7, EntriesRead
    <2>2. p \in Hosts => build[p].host = p
      BY <1>0, <1>7 DEF Busied, ReadEntries, Building
    <2> QED BY <1>0, <2>1, <2>2, BusiedStep DEF Moves
  <1>8. ASSUME NEW p \in Procs, SecretSetsEnvelope(p) PROVE ProcType' /\ BuildType' /\ Busied'
    <2>1. Moves(p) /\ build'[p] \in Build /\ build'[p].host = build[p].host
          /\ pc'[p] = "send"
      BY <1>8, Enveloped
    <2>2. p \in Hosts => build[p].host = p
      BY <1>0, <1>8 DEF Busied, SecretSetsEnvelope, Building
    <2> QED BY <1>0, <2>1, <2>2, BusiedStep DEF Moves
  <1>9. ASSUME NEW p \in Procs, Send(p) \/ Fail(p) PROVE ProcType' /\ BuildType' /\ Busied'
    BY <1>2, <1>9, Sent, Failed
  <1>10. ASSUME NEW h \in Hosts, Connect(h) \/ Drop(h) \/ Restart(h)
         PROVE ProcType' /\ BuildType' /\ Busied'
    <2>1. Moves(h) /\ pc'[h] \in {"idle", "push"}
      BY <1>10, Connected, Disconnected DEF Drop, Restart, LinkKeeps
    <2> QED BY <1>0, <1>2, <2>1
  <1>11. ASSUME NEW h \in Hosts, Dispatch(h) \/ HandleSecret(h) \/ ReadyReply(h)
         PROVE ProcType' /\ BuildType' /\ Busied'
    BY <1>1, <1>11 DEF Dispatch, HandleSecret, ReadyReply, ExecKeeps, LinkKeeps
  <1>12. CASE UNCHANGED vars
    BY <1>1, <1>12 DEF vars
  <1> QED BY <1>3, <1>4, <1>5, <1>6, <1>7, <1>8, <1>9, <1>10, <1>11, <1>12, Steps


(* Every step keeps the counters natural.                                   *)
LEMMA CountStep ==
  ASSUME Types, [Next]_vars
  PROVE  CountType'
  <1>0. CountType BY DEF Types
  <1>1. ASSUME NEW p \in Requests, Starting(p) PROVE CountType'
    <2>1. /\ ops' = ops + 1 /\ clock' = clock + 1 /\ UNCHANGED links
          /\ faults' \in {faults, faults + 1}
      BY <1>1, Started DEF Begin, Request
    <2> QED BY SMT, <1>0, <2>1 DEF CountType
  <1>2. ASSUME NEW p \in Requests, Committing(p) PROVE CountType'
    BY <1>0, <1>2, Committed DEF TxKeeps, CountType
  <1>3. ASSUME NEW p \in Requests, UnbindSet(p) \/ LookupHosts(p) PROVE CountType'
    BY SMT, <1>0, <1>3 DEF UnbindSet, LookupHosts, Request, TxKeeps, CountType
  <1>4. ASSUME NEW p \in Procs, \/ StartBuild(p) \/ ReadEntries(p)
                                \/ SecretSetsEnvelope(p) \/ Send(p)
        PROVE CountType'
    BY <1>0, <1>4 DEF StartBuild, ReadEntries, SecretSetsEnvelope, Send, PushKeeps, CountType
  <1>5. ASSUME NEW p \in Procs, Fail(p) PROVE CountType'
    BY SMT, <1>0, <1>5 DEF Fail, Fault, CountType
  <1>6. ASSUME NEW h \in Hosts, \/ Connect(h) \/ Drop(h) \/ Restart(h) \/ Dispatch(h)
                                \/ HandleSecret(h) \/ ReadyReply(h)
        PROVE CountType'
    BY SMT, <1>0, <1>6 DEF Connect, Drop, Restart, Dispatch, HandleSecret, ReadyReply,
                      LinkKeeps, ExecKeeps, CountType
  <1>7. CASE UNCHANGED vars
    BY <1>0, <1>7 DEF vars, CountType
  <1> QED BY <1>1, <1>2, <1>3, <1>4, <1>5, <1>6, <1>7, Steps

(* Every step keeps the types, and they hold at the start.                  *)
LEMMA TypeStep ==
  ASSUME Types, [Next]_vars
  PROVE  Types'
  BY TableStep, ProcStep, LinkStep, CountStep DEF Types

(* The types hold at the start.                                             *)
LEMMA TypeInit ==
  ASSUME Init
  PROVE  Types
  <1>1. TableType
    <2>1. \A s \in Sets : name[s] \in Names \cup {Unborn}
      BY DEF Init
    <2>2. past \in [Sets -> Seq([at : Nat, entries : Contents])]
      <3> DEFINE T == [at : Nat, entries : Contents]
      <3>1. \A s \in Sets : [at |-> 0, entries |-> entries[s]] \in T BY DEF Init
      <3>2. past = [s \in Sets |-> IF name[s] = Unborn THEN <<>>
                                     ELSE <<[at |-> 0, entries |-> entries[s]]>>]
        BY DEF Init
      <3>3. ASSUME NEW s \in Sets PROVE past[s] \in Seq(T)
        <4> DEFINE r == [at |-> 0, entries |-> entries[s]]
        <4>1. past[s] = IF name[s] = Unborn THEN <<>> ELSE <<r>> BY <3>2
        <4>2. r \in T BY <3>1
        <4> HIDE DEF T, r
        <4> QED BY SMT, <4>1, <4>2
      <3> HIDE DEF T
      <3> QED BY <3>2, <3>3 DEF T
    <2>3. /\ name \in [Sets -> Names \cup {Unborn, Deleted}]
          /\ updated \in [Sets -> Nat] /\ entries \in [Sets -> Contents]
          /\ bound \in SUBSET (Hosts \X Sets)
      BY DEF Init
    <2>4. \A s \in Sets : name[s] \notin Names =>
            entries[s] = NoEntries /\ \A h \in Hosts : <<h, s>> \notin bound
      BY <2>1, NameAssumption DEF Init
    <2> QED BY <2>2, <2>3, <2>4 DEF TableType
  <1>2. ProcType /\ BuildType /\ Busied
    BY ProcKinds DEF Init, ProcType, BuildType, Busied, Building
  <1>3. LinkType
    <2>1. NewSecretStore \in Store /\ NoApp \in App /\ <<>> \in Seq(Envelope)
      BY SMT DEF NewSecretStore, Store, NoApp, App
    <2> QED BY <2>1 DEF Init, LinkType
  <1>4. CountType BY DEF Init, CountType
  <1> QED BY <1>1, <1>2, <1>3, <1>4 DEF Types

-----------------------------------------------------------------------------
(* The tables and their history.                                            *)

(* A set is created once, under an id of its own, and one that is deleted   *)
(* had been created.                                                        *)
Creates(p) == pc[p] = "tx" /\ job[p].op = "create"
Deletes(p) == pc[p] = "tx" /\ job[p].op = "delete"
Born ==
    /\ \A p \in Requests : Creates(p) => name[job[p].set] = Unborn
    /\ \A p, q \in Requests :
        Creates(p) /\ Creates(q) /\ job[p].set = job[q].set => p = q
    /\ \A p \in Requests : Deletes(p) => name[job[p].set] # Unborn

(* The last state a set was committed in is the one the tables hold.        *)
Latest ==
    \A s \in Sets : name[s] \in Names =>
        /\ Len(past[s]) > 0
        /\ past[s][Len(past[s])].at = updated[s]
        /\ past[s][Len(past[s])].entries = entries[s]

(* Names are unique in the tables.                                          *)
Unique == \A s, t \in Sets : name[s] = name[t] /\ name[s] \in Names => s = t

Tables == Types /\ Born /\ Latest /\ Unique

(* What a step may do to the history and the names.                         *)
Grown ==
    \A s \in Sets :
        /\ Len(past[s]) <= Len(past'[s])
        /\ \A i \in 1..Len(past[s]) : past'[s][i] = past[s][i]
        /\ name[s] = Deleted => name'[s] = Deleted
        /\ name[s] # Unborn => name'[s] # Unborn

(* Only these steps change the sets themselves.                             *)
Deleting(p) == CommitDelete(p) /\ Deletes(p)
(* Every step but these three leaves names, entries and history alone.      *)
LEMMA Writes ==
  ASSUME Types, [Next]_vars
  PROVE  \/ UNCHANGED <<name, updated, entries, past>>
         \/ \E p \in Requests : /\ Committing(p)
                                /\ Creating(p) \/ Editing(p) \/ Deleting(p)
  <1> DEFINE G == \/ UNCHANGED <<name, updated, entries, past>>
                  \/ \E p \in Requests : /\ Committing(p)
                                         /\ Creating(p) \/ Editing(p) \/ Deleting(p)
  <1>2. ASSUME NEW p \in Requests, Starting(p) PROVE G
    BY <1>2, Started DEF Begin, tables
  <1>3. ASSUME NEW p \in Requests, Committing(p) PROVE G
    BY <1>3, Committed DEF NoWrite, tables, Binding, Deleting, Deletes
  <1>4. ASSUME NEW p \in Requests, UnbindSet(p) \/ LookupHosts(p) PROVE G
    BY <1>4 DEF UnbindSet, LookupHosts, tables
  <1>5. ASSUME NEW p \in Procs, \/ StartBuild(p) \/ ReadEntries(p)
                                \/ SecretSetsEnvelope(p) \/ Send(p) \/ Fail(p)
        PROVE G
    BY <1>5 DEF StartBuild, ReadEntries, SecretSetsEnvelope, Send, Fail, PushKeeps, tables
  <1>6. ASSUME NEW h \in Hosts, \/ Connect(h) \/ Drop(h) \/ Restart(h) \/ Dispatch(h)
                                \/ HandleSecret(h) \/ ReadyReply(h)
        PROVE G
    BY <1>6 DEF Connect, Drop, Restart, Dispatch, HandleSecret, ReadyReply,
                LinkKeeps, ExecKeeps, tables
  <1>7. CASE UNCHANGED vars
    BY <1>7 DEF vars, tables
  <1> QED BY <1>2, <1>3, <1>4, <1>5, <1>6, <1>7, Steps

(* A set that is written: what is true of it afterwards.                    *)
LEMMA Written ==
  ASSUME TableType, NEW s \in Sets, NEW n \in Names, NEW c \in Contents, NEW at \in Nat,
         Write(s, n, c, at)
  PROVE  /\ name'[s] = n /\ updated'[s] = at /\ entries'[s] = c
         /\ Len(past'[s]) = Len(past[s]) + 1
         /\ past'[s][Len(past'[s])].at = at /\ past'[s][Len(past'[s])].entries = c
         /\ Len(past[s]) \in Nat
         /\ \A i \in 1..Len(past[s]) : past'[s][i] = past[s][i]
         /\ \A t \in Sets \ {s} : /\ name'[t] = name[t] /\ updated'[t] = updated[t]
                                  /\ entries'[t] = entries[t] /\ past'[t] = past[t]
  <1> DEFINE T == [at : Nat, entries : Contents]
             r == [at |-> at, entries |-> c]
  <1>1. r \in T /\ r.at = at /\ r.entries = c OBVIOUS
  <1>2. past[s] \in Seq(T) BY DEF TableType
  <1>3. past' = [past EXCEPT ![s] = Append(past[s], r)] BY DEF Write
  <1>4. past'[s] = Append(past[s], r) /\ \A t \in Sets \ {s} : past'[t] = past[t]
    BY <1>3 DEF TableType
  <1>5. /\ Len(past'[s]) = Len(past[s]) + 1 /\ past'[s][Len(past'[s])] = r
        /\ Len(past[s]) \in Nat
        /\ \A i \in 1..Len(past[s]) : past'[s][i] = past[s][i]
    <2> HIDE DEF T, r
    <2> QED BY SMT, <1>1, <1>2, <1>4
  <1> HIDE DEF r
  <1>6. /\ name'[s] = n /\ updated'[s] = at /\ entries'[s] = c
        /\ \A t \in Sets \ {s} : /\ name'[t] = name[t] /\ updated'[t] = updated[t]
                                 /\ entries'[t] = entries[t]
    BY DEF TableType, Write
  <1> QED BY <1>1, <1>4, <1>5, <1>6


(* A set that is created, edited or deleted: which, and how.                *)
Rewritten(s) ==
    /\ \E n \in Names, c \in Contents, at \in Nat :
        /\ Write(s, n, c, at) /\ \A t \in Sets \ {s} : name[t] # n
    /\ name[s] # Deleted
Erased(s) ==
    /\ name' = [name EXCEPT ![s] = Deleted]
    /\ entries' = [entries EXCEPT ![s] = NoEntries]
    /\ UNCHANGED <<updated, past>>
    /\ name[s] # Unborn

(* They change one set, and only as its state allows.                       *)
LEMMA TableChange ==
  ASSUME Tables, [Next]_vars
  PROVE  \/ UNCHANGED <<name, updated, entries, past>>
         \/ \E p \in Requests : /\ Committing(p) /\ Moves(p) /\ pc[p] = "tx" /\ pc'[p] # "tx"
                                /\ job[p] \in Job /\ job[p].set \in Sets
                                /\ \/ Creating(p) /\ Rewritten(job[p].set) /\ Creates(p)
                                   \/ Editing(p) /\ Rewritten(job[p].set)
                                      /\ name[job[p].set] \in Names
                                   \/ Deleting(p) /\ Erased(job[p].set)
  <1>1. CASE UNCHANGED <<name, updated, entries, past>> BY <1>1
  <1>2. ASSUME NEW p \in Requests, Committing(p), Creating(p) \/ Editing(p) \/ Deleting(p)
        PROVE  /\ Moves(p) /\ pc[p] = "tx" /\ pc'[p] # "tx"
               /\ job[p] \in Job /\ job[p].set \in Sets
               /\ \/ Creating(p) /\ Rewritten(job[p].set) /\ Creates(p)
                  \/ Editing(p) /\ Rewritten(job[p].set) /\ name[job[p].set] \in Names
                  \/ Deleting(p) /\ Erased(job[p].set)
    <2> DEFINE s == job[p].set
    <2>1. Moves(p) /\ pc[p] = "tx" /\ pc'[p] # "tx" /\ job[p] \in Job
      BY <1>2, Committed, Resolved DEF Tables
    <2>2. s \in Sets /\ job[p].at \in Nat
          /\ (job[p].op = "create" => job[p].name \in Names /\ job[p].entries \in Contents)
      BY <2>1, Jobs
    <2>3. CASE Creating(p)
      <3>1. Creates(p) BY <2>1, <2>3 DEF Creating, Creates
      <3>2. name[s] = Unborn BY <3>1 DEF Tables, Born
      <3>3. \A t \in Sets : name[t] # job[p].name BY <2>3 DEF Creating, NameTaken
      <3> QED BY <2>1, <2>2, <2>3, <3>1, <3>2, <3>3, NameAssumption DEF Creating, Rewritten
    <2>4. CASE Editing(p)
      <3>1. PICK n \in Names, c \in Contents :
              /\ n = name[s] \/ \A t \in Sets \ {s} : name[t] # n
              /\ Write(s, n, c, job[p].at)
        BY <2>4 DEF Editing
      <3>2. name[s] \in Names BY <2>4 DEF Editing
      <3>3. \A t \in Sets \ {s} : name[t] # n BY <2>2, <3>1, <3>2 DEF Tables, Unique
      <3> QED BY <2>1, <2>2, <2>4, <3>1, <3>2, <3>3, NameAssumption DEF Rewritten
    <2>5. CASE Deleting(p)
      <3>1. name[s] # Unborn BY <2>5 DEF Tables, Born, Deleting
      <3> QED BY <2>1, <2>2, <2>5, <3>1 DEF Deleting, CommitDelete, Erased
    <2> QED BY <1>2, <2>3, <2>4, <2>5
  <1> QED BY <1>1, <1>2, Writes DEF Tables

(* The history of a set only grows, and what is deleted stays deleted.      *)
LEMMA Growth ==
  ASSUME Tables, [Next]_vars
  PROVE  Grown
  <1>0. TableType BY DEF Tables, Types
  <1>1. \A s \in Sets : Len(past[s]) \in Nat
    BY SMT, <1>0 DEF TableType
  <1>2. CASE UNCHANGED <<name, updated, entries, past>>
    BY SMT, <1>1, <1>2 DEF Grown
  <1>3. ASSUME NEW s \in Sets, Rewritten(s) PROVE Grown
    <2>1. PICK n \in Names, c \in Contents, at \in Nat : Write(s, n, c, at)
      BY <1>3 DEF Rewritten
    <2>2. /\ name'[s] = n /\ Len(past'[s]) = Len(past[s]) + 1
          /\ \A i \in 1..Len(past[s]) : past'[s][i] = past[s][i]
          /\ \A t \in Sets \ {s} : name'[t] = name[t] /\ past'[t] = past[t]
      BY <1>0, <2>1, Written
    <2>3. name[s] # Deleted /\ n # Unborn BY <1>3, NameAssumption DEF Rewritten
    <2> QED BY SMT, <1>1, <2>2, <2>3 DEF Grown
  <1>4. ASSUME NEW s \in Sets, Erased(s) PROVE Grown
    BY SMT, <1>0, <1>1, <1>4, NameAssumption DEF Erased, Grown, TableType
  <1> QED BY <1>2, <1>3, <1>4, TableChange

(* Names stay unique and the history stays up to date.                      *)
LEMMA LatestStep ==
  ASSUME Tables, [Next]_vars
  PROVE  Latest' /\ Unique'
  <1>0. TableType BY DEF Tables, Types
  <1>2. CASE UNCHANGED <<name, updated, entries, past>>
    BY <1>2 DEF Latest, Unique, Tables
  <1>3. ASSUME NEW s \in Sets, Rewritten(s) PROVE Latest' /\ Unique'
    <2>1. PICK n \in Names, c \in Contents, at \in Nat :
            Write(s, n, c, at) /\ \A t \in Sets \ {s} : name[t] # n
      BY <1>3 DEF Rewritten
    <2>2. /\ name'[s] = n /\ updated'[s] = at /\ entries'[s] = c
          /\ Len(past'[s]) > 0
          /\ past'[s][Len(past'[s])].at = at /\ past'[s][Len(past'[s])].entries = c
          /\ \A t \in Sets \ {s} : /\ name'[t] = name[t] /\ updated'[t] = updated[t]
                                   /\ entries'[t] = entries[t] /\ past'[t] = past[t]
      BY SMT, <1>0, <2>1, Written
    <2>3. Latest' BY <2>2 DEF Tables, Latest
    <2>4. Unique' BY SMT, <2>1, <2>2 DEF Tables, Unique
    <2> QED BY <2>3, <2>4
  <1>4. ASSUME NEW s \in Sets, Erased(s) PROVE Latest' /\ Unique'
    <2>1. /\ name'[s] = Deleted /\ UNCHANGED <<updated, past>>
          /\ \A t \in Sets \ {s} : name'[t] = name[t] /\ entries'[t] = entries[t]
      BY <1>0, <1>4 DEF Erased, TableType
    <2> QED BY <2>1, NameAssumption DEF Tables, Latest, Unique
  <1> QED BY <1>2, <1>3, <1>4, TableChange


(* A step is one handler's, or leaves them all alone, and only a request    *)
(* that begins enters a transaction.                                        *)
LEMMA OneMoves ==
  ASSUME Types, [Next]_vars
  PROVE  \/ UNCHANGED <<pc, job, todo, build>>
         \/ \E p \in Procs : Moves(p) /\ (pc'[p] = "tx" => p \in Requests /\ Starting(p))
  <1> DEFINE G == \/ UNCHANGED <<pc, job, todo, build>>
                  \/ \E p \in Procs : Moves(p) /\ (pc'[p] = "tx" => p \in Requests /\ Starting(p))
  <1>0. Requests \subseteq Procs /\ Hosts \subseteq Procs BY ProcKinds
  <1>1. ASSUME NEW p \in Requests, Starting(p) PROVE G
    BY <1>0, <1>1, Started, Begun
  <1>2. ASSUME NEW p \in Requests, Committing(p) PROVE G
    BY <1>0, <1>2, Resolved
  <1>3. ASSUME NEW p \in Requests, UnbindSet(p) PROVE G
    BY <1>0, <1>3, Unbound
  <1>4. ASSUME NEW p \in Requests, LookupHosts(p) PROVE G
    BY <1>0, <1>4, HostsLookedUp
  <1>5. ASSUME NEW p \in Procs, StartBuild(p) PROVE G
    BY <1>5, BuildStarts
  <1>6. ASSUME NEW p \in Procs, ReadEntries(p) PROVE G
    BY <1>6, EntriesRead
  <1>7. ASSUME NEW p \in Procs, SecretSetsEnvelope(p) PROVE G
    BY <1>7, Enveloped
  <1>8. ASSUME NEW p \in Procs, Send(p) \/ Fail(p) PROVE G
    BY <1>8, Sent, Failed
  <1>9. ASSUME NEW h \in Hosts, Connect(h) \/ Drop(h) \/ Restart(h) PROVE G
    BY <1>0, <1>9, Connected, Disconnected DEF Drop, Restart, LinkKeeps
  <1>10. ASSUME NEW h \in Hosts, Dispatch(h) \/ HandleSecret(h) \/ ReadyReply(h) PROVE G
    BY <1>10 DEF Dispatch, HandleSecret, ReadyReply, ExecKeeps, LinkKeeps
  <1>11. CASE UNCHANGED vars
    BY <1>11 DEF vars
  <1> QED BY <1>1, <1>2, <1>3, <1>4, <1>5, <1>6, <1>7, <1>8, <1>9, <1>10, <1>11, Steps

(* Creations keep their ids to themselves.                                  *)
LEMMA BornStep ==
  ASSUME Tables, [Next]_vars
  PROVE  Born'
  <1>0. Types /\ Types' /\ Grown BY TypeStep, Growth DEF Tables
  <1> DEFINE Same(q) == pc[q] = "tx" /\ job'[q] = job[q]
  <1>1. ASSUME NEW q \in Requests, Same(q)
        PROVE  /\ Creates(q)' => Creates(q) /\ name'[job[q].set] = Unborn
               /\ Deletes(q)' => name'[job[q].set] # Unborn
    <2>0. job[q].set \in Sets BY <1>0, <1>1, Jobs DEF Types, Busied
    <2>1. Deletes(q)' => name'[job[q].set] # Unborn
      BY <1>0, <1>1, <2>0 DEF Deletes, Tables, Born, Grown
    <2>2. Creates(q)' => Creates(q) /\ name[job[q].set] = Unborn
      BY <1>1 DEF Creates, Tables, Born
    <2>3. CASE UNCHANGED name BY <2>1, <2>2, <2>3
    <2>4. CASE \E p \in Requests :
                 /\ Moves(p) /\ pc[p] = "tx" /\ pc'[p] # "tx" /\ job[p].set \in Sets
                 /\ \/ Rewritten(job[p].set) /\ Creates(p)
                    \/ Rewritten(job[p].set) /\ name[job[p].set] \in Names
                    \/ Erased(job[p].set)
      <3>1. PICK p \in Requests :
                 /\ pc'[p] # "tx" /\ job[p].set \in Sets
                 /\ \/ Rewritten(job[p].set) /\ Creates(p)
                    \/ Rewritten(job[p].set) /\ name[job[p].set] \in Names
                    \/ Erased(job[p].set)
        BY <2>4
      <3>2. \A t \in Sets \ {job[p].set} : name'[t] = name[t]
        BY <1>0, <3>1 DEF Rewritten, Erased, Write, Types, TableType
      <3>3. Creates(q)' => job[q].set # job[p].set
        BY <2>2, <3>1, NameAssumption DEF Creates, Tables, Born, Erased
      <3> QED BY <2>0, <2>1, <2>2, <3>2, <3>3
    <2> QED BY <2>3, <2>4, TableChange
  <1>2. ASSUME \A q \in Requests : pc'[q] = "tx" => Same(q)
        PROVE  Born'
    <2>1. \A q \in Requests : Creates(q)' => Same(q) BY <1>2 DEF Creates
    <2>2. \A q \in Requests : Deletes(q)' => Same(q) BY <1>2 DEF Deletes
    <2>3. \A q \in Requests : Creates(q)' => Creates(q) /\ name'[job'[q].set] = Unborn /\ Same(q)
      BY SMT, <1>1, <2>1
    <2>4. \A q \in Requests : Deletes(q)' => name'[job'[q].set] # Unborn
      BY <1>1, <2>2
    <2>5. \A p, q \in Requests :
            Creates(p)' /\ Creates(q)' /\ job'[p].set = job'[q].set => p = q
      BY <2>3 DEF Tables, Born
    <2> HIDE DEF Same
    <2> QED BY <2>3, <2>4, <2>5 DEF Born
  <1>3. ASSUME NEW p \in Requests, Starting(p) PROVE Born'
    <2>1. PICK j \in Job, hosts \in SUBSET Hosts :
             /\ Begin(p, j, hosts)
             /\ j.op = "create" => Fresh(j.set)
             /\ j.op # "create" => name[j.set] \in Names
      BY <1>0, <1>3, Started
    <2>2. Moves(p) /\ pc[p] = "idle" /\ pc'[p] = "tx" /\ job'[p] = j /\ UNCHANGED name
      BY <1>0, <2>1, Begun DEF tables
    <2>3. \A q \in Requests \ {p} : pc'[q] = pc[q] /\ job'[q] = job[q]
      BY <2>2, ProcKinds DEF Moves
    <2>4. \A q \in Requests \ {p} : (Creates(q)' <=> Creates(q)) /\ (Deletes(q)' <=> Deletes(q))
      BY <2>3 DEF Creates, Deletes
    <2>5. Creates(p)' => /\ name[j.set] = Unborn
                         /\ \A q \in Requests \ {p} : Creates(q) => job[q].set # j.set
      BY <2>1, <2>2 DEF Fresh, Creates
    <2>6. Deletes(p)' => name[j.set] # Unborn
      BY <2>1, <2>2, NameAssumption DEF Deletes
    <2>7. \A q \in Requests : Creates(q)' => name'[job'[q].set] = Unborn
      BY <2>2, <2>3, <2>4, <2>5 DEF Tables, Born
    <2>8. \A q \in Requests : Deletes(q)' => name'[job'[q].set] # Unborn
      BY <2>2, <2>3, <2>4, <2>6 DEF Tables, Born
    <2>9. \A r, q \in Requests :
            Creates(r)' /\ Creates(q)' /\ job'[r].set = job'[q].set => r = q
      BY SMT, <2>2, <2>3, <2>4, <2>5 DEF Tables, Born
    <2> QED BY <2>7, <2>8, <2>9 DEF Born
  <1>4. CASE UNCHANGED <<pc, job, todo, build>>
    BY <1>2, <1>4
  <1>5. ASSUME NEW p \in Procs, Moves(p), pc'[p] # "tx" PROVE Born'
    <2>1. \A q \in Requests : pc'[q] = "tx" => q # p /\ pc[q] = "tx" /\ job'[q] = job[q]
      BY <1>5, ProcKinds DEF Moves
    <2> QED BY <1>2, <2>1
  <1> QED BY <1>0, <1>3, <1>4, <1>5, OneMoves

(* The tables are as they should be in every state.                         *)
LEMMA TablesInit ==
  ASSUME Init
  PROVE  Tables
  <1>1. Born BY ProcKinds DEF Init, Born, Creates, Deletes
  <1>2. Latest
    <2>1. ASSUME NEW s \in Sets, name[s] \in Names
          PROVE /\ Len(past[s]) > 0
                /\ past[s][Len(past[s])].at = updated[s]
                /\ past[s][Len(past[s])].entries = entries[s]
      <3> DEFINE r == [at |-> 0, entries |-> entries[s]]
      <3>1. past[s] = <<r>> /\ updated[s] = 0 BY <2>1, NameAssumption DEF Init
      <3>2. r.at = 0 /\ r.entries = entries[s] OBVIOUS
      <3> HIDE DEF r
      <3> QED BY SMT, <3>1, <3>2
    <2> QED BY <2>1 DEF Latest
  <1>3. Unique BY NameAssumption DEF Init, Unique
  <1> QED BY <1>1, <1>2, <1>3, TypeInit DEF Tables
(* Every step keeps the tables so.                                          *)
LEMMA TablesStep ==
  ASSUME Tables, [Next]_vars
  PROVE  Tables'
  BY TypeStep, BornStep, LatestStep DEF Tables
-----------------------------------------------------------------------------
(* What is on its way to a daemon.                                          *)

(* A row that a handler has read was committed with its version.            *)
Read(row) ==
    /\ name[row.set] # Unborn
    /\ \E i \in 1..Len(past[row.set]) : past[row.set][i].at = row.version
Whole(o) == AsCommitted(o) \/ Vanished(o)
Carried ==
    /\ \A p \in Procs : build[p] \in Build => \A row \in build[p].rows : Read(row)
    /\ \A p \in Procs : build[p] \in Build => \A o \in build[p].sets : Whole(o)
    /\ \A h \in Hosts : \A i \in 1..Len(chan[h]) : \A o \in chan[h][i].sets : Whole(o)
    /\ \A h \in Hosts : \A o \in store[h].sets : Whole(o)
    /\ \A h \in Hosts : \A o \in Opened :
        app[h].state = "started" /\ app[h].got = o => Whole(o)

(* The same, of what a step has left there.                                 *)
Carries ==
    /\ \A p \in Procs : build'[p] \in Build => \A row \in build'[p].rows : Read(row)
    /\ \A p \in Procs : build'[p] \in Build => \A o \in build'[p].sets : Whole(o)
    /\ \A h \in Hosts : \A i \in 1..Len(chan'[h]) : \A o \in chan'[h][i].sets : Whole(o)
    /\ \A h \in Hosts : \A o \in store'[h].sets : Whole(o)
    /\ \A h \in Hosts : \A o \in Opened :
        app'[h].state = "started" /\ app'[h].got = o => Whole(o)

(* No two sets of what is on its way to a daemon share a name.              *)
Apart(S) == \A o, q \in S : o.name = q.name => o = q
ApartBuild(b) ==
    /\ Apart(b.rows) /\ Apart(b.sets)
    /\ \A row \in b.rows, o \in b.sets : row.name # o.name
Distinct ==
    /\ \A p \in Procs : build[p] \in Build => ApartBuild(build[p])
    /\ \A h \in Hosts : \A i \in 1..Len(chan[h]) : Apart(chan[h][i].sets)
    /\ \A h \in Hosts : Apart(store[h].sets)

(* A handler that builds nothing has no bundle.                             *)
LEMMA NoBundle == NoBuild \notin Build
  BY SMT DEF NoBuild, Build

(* What was committed stays committed.                                      *)
LEMMA ReadKept ==
  ASSUME Tables, Grown, NEW row \in Row, Read(row)
  PROVE  Read(row)'
  <1>1. row.set \in Sets BY DEF Row
  <1>3. PICK i \in 1..Len(past[row.set]) : past[row.set][i].at = row.version BY DEF Read
  <1>4. Len(past[row.set]) \in Nat BY SMT, <1>1 DEF Tables, Types, TableType
  <1> QED BY SMT, <1>1, <1>3, <1>4 DEF Read, Grown

(* A whole set stays whole.                                                 *)
LEMMA WholeKept ==
  ASSUME Tables, Tables', Grown, NEW o \in Opened, Whole(o)
  PROVE  Whole(o)'
  <1> DEFINE s == o.set
  <1>1. s \in Sets BY DEF Opened
  <1>2. Len(past[s]) \in Nat /\ Len(past'[s]) \in Nat
    BY SMT, <1>1 DEF Tables, Types, TableType
  <1>3. Len(past[s]) <= Len(past'[s]) /\ \A i \in 1..Len(past[s]) : past'[s][i] = past[s][i]
    BY <1>1 DEF Grown
  <1>4. CASE AsCommitted(o)
    <2>1. PICK j \in 1..Len(past[s]) : \E i \in 1..j :
            past[s][i].at = o.version /\ past[s][j].entries = o.values
      BY <1>4 DEF AsCommitted
    <2>2. PICK i \in 1..j : past[s][i].at = o.version /\ past[s][j].entries = o.values
      BY <2>1
    <2>3. j \in 1..Len(past'[s]) /\ past'[s][j] = past[s][j] /\ past'[s][i] = past[s][i]
      BY SMT, <1>2, <1>3, <2>1, <2>2
    <2> QED BY <2>2, <2>3 DEF Whole, AsCommitted
  <1>5. CASE Vanished(o)
    <2>1. PICK i \in 1..Len(past[s]) : past[s][i].at = o.version
      BY <1>5 DEF Vanished
    <2>2. i \in 1..Len(past'[s]) /\ past'[s][i] = past[s][i]
      BY SMT, <1>2, <1>3, <2>1
    <2>3. name'[s] = Deleted /\ o.values = NoEntries BY <1>1, <1>5 DEF Vanished, Grown
    <2> QED BY <2>1, <2>2, <2>3 DEF Whole, Vanished
  <1> QED BY <1>4, <1>5 DEF Whole

(* The rows of one query, and what opening one of them reads.               *)
LEMMA RowsRead ==
  ASSUME Tables, NEW h \in Hosts, NEW row \in SetsForHost(h)
  PROVE  Read(row)
  <1>1. PICK s \in Sets : /\ name[s] \in Names
                          /\ row = [set |-> s, name |-> name[s], version |-> updated[s]]
    BY DEF SetsForHost
  <1>2. row.set = s /\ row.version = updated[s] BY <1>1
  <1>3. Len(past[s]) \in Nat BY SMT DEF Tables, Types, TableType
  <1>4. Len(past[s]) \in 1..Len(past[s]) /\ past[s][Len(past[s])].at = updated[s]
    BY SMT, <1>1, <1>3 DEF Tables, Latest
  <1> QED BY <1>1, <1>2, <1>4, NameAssumption DEF Read

(* A row read earlier, opened with the entries of now, is whole.            *)
LEMMA OpenedWhole ==
  ASSUME Tables, NEW row \in Row, Read(row)
  PROVE  Whole(Open(row, entries[row.set]))
  <1> DEFINE s == row.set
             o == Open(row, entries[row.set])
  <1>1. s \in Sets BY DEF Row
  <1>2. o.set = s /\ o.version = row.version /\ o.values = entries[s] BY DEF Open
  <1>3. PICK i \in 1..Len(past[s]) : past[s][i].at = row.version BY DEF Read
  <1>4. Len(past[s]) \in Nat BY SMT, <1>1 DEF Tables, Types, TableType
  <1> HIDE DEF o
  <1>5. CASE name[s] \in Names
    <2>1. past[s][Len(past[s])].entries = entries[s] BY <1>1, <1>5 DEF Tables, Latest
    <2>2. Len(past[s]) \in 1..Len(past[s]) BY SMT, <1>3, <1>4
    <2> QED BY <1>2, <1>3, <2>1, <2>2 DEF Whole, AsCommitted, o
  <1>6. CASE name[s] \notin Names
    <2>1. name[s] = Deleted /\ entries[s] = NoEntries
      BY <1>1, <1>6 DEF Read, Tables, Types, TableType
    <2> QED BY <1>2, <1>3, <2>1 DEF Whole, Vanished, o
  <1> QED BY <1>5, <1>6


(* A step of these leaves bundles, channels and daemons alone.              *)
LEMMA Aside ==
  ASSUME Types, NEW p \in Requests,
         Starting(p) \/ Committing(p) \/ UnbindSet(p) \/ LookupHosts(p)
  PROVE  UNCHANGED <<build, daemon, setSeq>>
  <1>1. CASE Starting(p) BY <1>1, Started DEF Begin
  <1>2. CASE Committing(p) BY <1>2, Committed DEF TxKeeps
  <1>3. CASE UnbindSet(p) BY <1>3 DEF UnbindSet
  <1>4. CASE LookupHosts(p) BY <1>4 DEF LookupHosts, TxKeeps
  <1> QED BY <1>1, <1>2, <1>3, <1>4

(* The channels after an envelope is sent.                                  *)
LEMMA Appended ==
  ASSUME Types, NEW p \in Procs, Send(p)
  PROVE  LET h == build[p].host
             e == [seq |-> build[p].seq, sets |-> build[p].sets]
         IN  /\ \A g \in Hosts \ {h} : chan'[g] = chan[g]
             /\ \/ /\ UNCHANGED chan /\ p \in Requests /\ calm'[h] = FALSE
                   /\ \A g \in Hosts \ {h} : calm'[g] = calm[g]
                \/ /\ link[h] /\ UNCHANGED calm /\ Len(chan[h]) \in Nat
                   /\ Len(chan'[h]) = Len(chan[h]) + 1
                   /\ chan'[h][Len(chan'[h])] = e
                   /\ \A i \in 1..Len(chan[h]) : chan'[h][i] = chan[h][i]
  <1> DEFINE E == Envelope
             h == build[p].host
             e == [seq |-> build[p].seq, sets |-> build[p].sets]
  <1>1. h \in Hosts /\ e \in E BY Sent
  <1>2. chan[h] \in Seq(E) /\ chan \in [Hosts -> Seq(E)] /\ calm \in [Hosts -> BOOLEAN]
    BY <1>1 DEF Types, LinkType
  <1>3. \/ UNCHANGED chan /\ p \in Requests /\ calm' = [calm EXCEPT ![h] = FALSE]
        \/ link[h] /\ chan' = [chan EXCEPT ![h] = Append(chan[h], e)] /\ UNCHANGED calm
    BY DEF Send
  <1> HIDE DEF E, e, h
  <1>4. \A g \in Hosts \ {h} : chan'[g] = chan[g]
    BY <1>1, <1>2, <1>3
  <1>5. CASE UNCHANGED chan /\ p \in Requests /\ calm' = [calm EXCEPT ![h] = FALSE]
    BY <1>1, <1>2, <1>4, <1>5 DEF h, e
  <1>6. CASE link[h] /\ chan' = [chan EXCEPT ![h] = Append(chan[h], e)] /\ UNCHANGED calm
    <2>1. chan'[h] = Append(chan[h], e) BY <1>1, <1>2, <1>6
    <2>2. Len(chan[h]) \in Nat /\ Len(chan'[h]) = Len(chan[h]) + 1
          /\ chan'[h][Len(chan'[h])] = e
          /\ \A i \in 1..Len(chan[h]) : chan'[h][i] = chan[h][i]
      BY SMT, <1>1, <1>2, <2>1
    <2> QED BY <1>4, <1>6, <2>2 DEF h, e
  <1> QED BY <1>3, <1>5, <1>6

(* The pieces of Carries.                                                   *)
LEMMA CarriesPieces ==
  ASSUME Carried
  PROVE  /\ UNCHANGED <<build, daemon>> => Carries
         /\ \A p \in Procs :
              /\ Moves(p)
              /\ build'[p] \in Build => /\ \A row \in build'[p].rows : Read(row)
                                        /\ \A o \in build'[p].sets : Whole(o)
              /\ UNCHANGED daemon
              => Carries
  <1>1. ASSUME UNCHANGED <<build, daemon>> PROVE Carries
    BY <1>1 DEF Carried, Carries, daemon
  <1>2. ASSUME NEW p \in Procs, Moves(p), UNCHANGED daemon,
               build'[p] \in Build => /\ \A row \in build'[p].rows : Read(row)
                                      /\ \A o \in build'[p].sets : Whole(o)
        PROVE  Carries
    <2>1. /\ \A q \in Procs : build'[q] \in Build => \A row \in build'[q].rows : Read(row)
          /\ \A q \in Procs : build'[q] \in Build => \A o \in build'[q].sets : Whole(o)
      BY <1>2 DEF Moves, Carried
    <2> QED BY <1>2, <2>1 DEF Carried, Carries, daemon
  <1> QED BY <1>1, <1>2

(* Every step leaves there only what was committed.                         *)
LEMMA CarriesStep ==
  ASSUME Tables, Carried, [Next]_vars
  PROVE  Carries
  <1>0. Types /\ LinkType BY DEF Tables, Types
  <1>1. ASSUME NEW p \in Requests,
               Starting(p) \/ Committing(p) \/ UnbindSet(p) \/ LookupHosts(p)
        PROVE  Carries
    BY <1>0, <1>1, Aside, CarriesPieces
  <1>2. ASSUME NEW p \in Procs, StartBuild(p) PROVE Carries
    <2>1. PICK h \in Targets(p) :
            /\ h \in Hosts /\ Moves(p)
            /\ build'[p] = [host |-> h, rows |-> SetsForHost(h), sets |-> {}, seq |-> 0]
      BY <1>0, <1>2, BuildStarts
    <2>2. build'[p].rows = SetsForHost(h) /\ build'[p].sets = {} BY SMT, <2>1
    <2>3. UNCHANGED daemon BY <1>2 DEF StartBuild
    <2>4. \A row \in build'[p].rows : Read(row) BY <2>1, <2>2, RowsRead
    <2> QED BY <2>1, <2>2, <2>3, <2>4, CarriesPieces
  <1>3. ASSUME NEW p \in Procs, ReadEntries(p) PROVE Carries
    <2>1. PICK row \in build[p].rows :
            /\ build[p] \in Build /\ row \in Row /\ Moves(p)
            /\ build'[p].rows = build[p].rows \ {row}
            /\ build'[p].sets = build[p].sets \cup {Open(row, entries[row.set])}
      BY <1>0, <1>3, EntriesRead
    <2>2. Read(row) BY <2>1 DEF Carried
    <2>3. Whole(Open(row, entries[row.set])) BY <2>1, <2>2, OpenedWhole
    <2>4. \A r \in build'[p].rows : Read(r) BY <2>1 DEF Carried
    <2>5. \A o \in build'[p].sets : Whole(o)
      <3>1. \A o \in build[p].sets : Whole(o) BY <2>1 DEF Carried
      <3> QED BY <2>1, <2>3, <3>1
    <2>6. UNCHANGED daemon BY <1>3 DEF ReadEntries
    <2> QED BY <2>1, <2>4, <2>5, <2>6, CarriesPieces
  <1>4. ASSUME NEW p \in Procs, SecretSetsEnvelope(p) PROVE Carries
    <2>1. /\ build[p] \in Build /\ Moves(p)
          /\ build'[p].rows = build[p].rows /\ build'[p].sets = build[p].sets
      BY <1>0, <1>4, Enveloped
    <2>2. UNCHANGED daemon BY <1>4 DEF SecretSetsEnvelope
    <2>3. /\ \A row \in build'[p].rows : Read(row)
          /\ \A o \in build'[p].sets : Whole(o)
      BY <2>1 DEF Carried
    <2> QED BY <2>1, <2>2, <2>3, CarriesPieces
  <1>5. ASSUME NEW p \in Procs, Send(p) PROVE Carries
    <2>1. /\ build[p] \in Build /\ build[p].host \in Hosts
          /\ Moves(p) /\ build'[p] = NoBuild
      BY <1>0, <1>5, Sent
    <2>2. \A q \in Procs \ {p} : build'[q] = build[q] BY <2>1 DEF Moves
    <2>3. UNCHANGED <<store, app>> BY <1>5 DEF Send
    <2> DEFINE h == build[p].host
               e == [seq |-> build[p].seq, sets |-> build[p].sets]
    <2>4. e.sets = build[p].sets OBVIOUS
    <2> HIDE DEF e
    <2>5. /\ \A g \in Hosts \ {h} : chan'[g] = chan[g]
          /\ \/ UNCHANGED chan
             \/ /\ Len(chan'[h]) = Len(chan[h]) + 1 /\ chan'[h][Len(chan'[h])] = e
                /\ \A i \in 1..Len(chan[h]) : chan'[h][i] = chan[h][i]
                /\ Len(chan[h]) \in Nat
      BY <1>0, <1>5, Appended DEF e
    <2>6. \A o \in e.sets : Whole(o) BY <2>1, <2>4 DEF Carried
    <2>7. \A g \in Hosts : \A i \in 1..Len(chan'[g]) : \A o \in chan'[g][i].sets : Whole(o)
      <3>1. CASE UNCHANGED chan BY <3>1 DEF Carried
      <3>2. CASE ~UNCHANGED chan
        <4> SUFFICES ASSUME NEW g \in Hosts, NEW i \in 1..Len(chan'[g]), NEW o \in chan'[g][i].sets
                     PROVE  Whole(o)
          OBVIOUS
        <4>1. CASE g # h BY <2>5, <4>1 DEF Carried
        <4>2. CASE g = h /\ i \in 1..Len(chan[h]) BY <2>1, <2>5, <3>2, <4>2 DEF Carried
        <4>3. CASE g = h /\ i \notin 1..Len(chan[h])
          <5>1. i = Len(chan'[h]) BY SMT, <2>5, <3>2, <4>3
          <5> QED BY <2>5, <2>6, <3>2, <4>3, <5>1
        <4> QED BY <4>1, <4>2, <4>3
      <3> QED BY <3>1, <3>2
    <2>8. /\ \A q \in Procs : build'[q] \in Build => \A row \in build'[q].rows : Read(row)
          /\ \A q \in Procs : build'[q] \in Build => \A o \in build'[q].sets : Whole(o)
      BY <2>1, <2>2, NoBundle DEF Carried
    <2> QED BY <2>3, <2>7, <2>8 DEF Carries, Carried
  <1>6. ASSUME NEW p \in Procs, Fail(p) PROVE Carries
    BY <1>0, <1>6, Failed, NoBundle, CarriesPieces DEF Fail
  <1>7. ASSUME NEW h \in Hosts, Connect(h) PROVE Carries
    BY <1>7 DEF Connect, Carries, Carried
  <1>8. ASSUME NEW h \in Hosts, Drop(h) \/ Restart(h) PROVE Carries
    <2>1. /\ Moves(h) /\ build'[h] = NoBuild /\ chan'[h] = <<>>
          /\ \A g \in Hosts \ {h} : chan'[g] = chan[g]
      BY <1>0, <1>8, Disconnected DEF Drop, Restart, LinkKeeps
    <2>2. \A g \in Hosts : \A i \in 1..Len(chan'[g]) : \A o \in chan'[g][i].sets : Whole(o)
      BY SMT, <2>1 DEF Carried
    <2>3. /\ \A q \in Procs : build'[q] \in Build => \A row \in build'[q].rows : Read(row)
          /\ \A q \in Procs : build'[q] \in Build => \A o \in build'[q].sets : Whole(o)
      BY <2>1, NoBundle DEF Carried, Moves
    <2>4. \A g \in Hosts : \A o \in store'[g].sets : Whole(o)
      BY SMT, <1>0, <1>8 DEF Drop, Restart, Carried, LinkType, NewSecretStore
    <2>5. \A g \in Hosts : \A o \in Opened :
            app'[g].state = "started" /\ app'[g].got = o => Whole(o)
      <3>1. app' = app \/ app' = [app EXCEPT ![h] = IF app[h].state = "missed" THEN NoApp ELSE app[h]]
        BY <1>8 DEF Drop, Restart
      <3>2. app \in [Hosts -> App] /\ NoApp.state # "started" BY <1>0 DEF LinkType, NoApp
      <3>3. \A g \in Hosts : app'[g].state = "started" => app'[g] = app[g]
        BY <3>1, <3>2
      <3> QED BY <3>3 DEF Carried
    <2> QED BY <2>2, <2>3, <2>4, <2>5 DEF Carries
  <1>9. ASSUME NEW h \in Hosts, Dispatch(h) PROVE Carries
    <2>1. UNCHANGED <<build, app>> BY <1>9 DEF Dispatch
    <2>2. \A g \in Hosts : \A i \in 1..Len(chan'[g]) : \A o \in chan'[g][i].sets : Whole(o)
      <3>1. Len(chan[h]) > 0 /\ Len(chan'[h]) = Len(chan[h]) - 1
            /\ (\A i \in 1..Len(chan'[h]) : chan'[h][i] = chan[h][i + 1])
            /\ \A g \in Hosts \ {h} : chan'[g] = chan[g]
        BY <1>0, <1>9, Dispatched
      <3>2. Len(chan[h]) \in Nat BY SMT, <1>0 DEF LinkType
      <3>3. \A i \in 1..Len(chan'[h]) : i + 1 \in 1..Len(chan[h]) BY SMT, <3>1, <3>2
      <3>4. \A i \in 1..Len(chan'[h]) : \A o \in chan'[h][i].sets : Whole(o)
        BY <3>1, <3>3 DEF Carried
      <3> QED BY <3>1, <3>4 DEF Carried
    <2>3. \A g \in Hosts : \A o \in store'[g].sets : Whole(o)
      <3>1. Len(chan[h]) > 0 /\ (\A g \in Hosts \ {h} : store'[g] = store[g])
            /\ store'[h] = IF chan[h][1].seq > store[h].seq
                             THEN [ready |-> TRUE, seq |-> chan[h][1].seq, sets |-> chan[h][1].sets]
                             ELSE store[h]
        BY <1>0, <1>9, Dispatched
      <3>2. 1 \in 1..Len(chan[h]) BY SMT, <1>0, <3>1 DEF LinkType
      <3>3. store'[h].sets = chan[h][1].sets \/ store'[h] = store[h] BY SMT, <3>1
      <3>4. \A o \in store'[h].sets : Whole(o) BY <3>2, <3>3 DEF Carried
      <3> QED BY <3>1, <3>4 DEF Carried
    <2> QED BY <2>1, <2>2, <2>3 DEF Carries, Carried
  <1>10. ASSUME NEW h \in Hosts, HandleSecret(h) \/ ReadyReply(h) PROVE Carries
    <2>1. UNCHANGED <<build, chan, store>>
      BY <1>10 DEF HandleSecret, ReadyReply, ExecKeeps
    <2>2. \A g \in Hosts : \A o \in Opened :
            app'[g].state = "started" /\ app'[g].got = o => Whole(o)
      BY <1>0, <1>10, Answered DEF Carried
    <2> QED BY <2>1, <2>2 DEF Carries, Carried
  <1>11. CASE UNCHANGED vars BY <1>11, CarriesPieces DEF vars
  <1> QED BY <1>1, <1>2, <1>3, <1>4, <1>5, <1>6, <1>7, <1>8, <1>9, <1>10, <1>11, Steps


(* What is on its way is whole in every state.                              *)
LEMMA CarriedStep ==
  ASSUME Tables, Carried, [Next]_vars
  PROVE  Carried'
  <1>1. Tables' /\ Grown /\ Carries BY TablesStep, Growth, CarriesStep
  <1>2. \A row \in Row : Read(row) => Read(row)' BY <1>1, ReadKept
  <1>3. \A o \in Opened : Whole(o) => Whole(o)' BY <1>1, WholeKept
  <1>4. Types' BY <1>1 DEF Tables
  <1>5. \A p \in Procs : build'[p] \in Build =>
          build'[p].rows \subseteq Row /\ build'[p].sets \subseteq Opened
    BY DEF Build
  <1>6. \A h \in Hosts : \A i \in 1..Len(chan'[h]) : chan'[h][i].sets \subseteq Opened
    <2> SUFFICES ASSUME NEW h \in Hosts, NEW i \in 1..Len(chan'[h])
                 PROVE  chan'[h][i].sets \subseteq Opened
      OBVIOUS
    <2>1. chan'[h] \in Seq(Envelope) BY <1>4 DEF Types, LinkType
    <2>2. chan'[h][i] \in Envelope BY SMT, <2>1
    <2> QED BY <2>2 DEF Envelope
  <1>7. \A h \in Hosts : store'[h].sets \subseteq Opened
    BY <1>4 DEF Types, LinkType, Store
  <1>8. (\A p \in Procs : build[p] \in Build => \A row \in build[p].rows : Read(row))'
    BY <1>1, <1>2, <1>5 DEF Carries
  <1>9. (\A p \in Procs : build[p] \in Build => \A o \in build[p].sets : Whole(o))'
    BY <1>1, <1>3, <1>5 DEF Carries
  <1>10. (\A h \in Hosts : \A i \in 1..Len(chan[h]) : \A o \in chan[h][i].sets : Whole(o))'
    BY <1>1, <1>3, <1>6 DEF Carries
  <1>11. (\A h \in Hosts : \A o \in store[h].sets : Whole(o))'
    BY <1>1, <1>3, <1>7 DEF Carries
  <1>12. (\A h \in Hosts : \A o \in Opened :
            app[h].state = "started" /\ app[h].got = o => Whole(o))'
    BY <1>1, <1>3 DEF Carries
  <1> QED BY <1>8, <1>9, <1>10, <1>11, <1>12 DEF Carried

(* At the start nothing is on its way.                                      *)
LEMMA CarriedInit ==
  ASSUME Init
  PROVE  Carried /\ Distinct
  <1>1. \A p \in Procs : build[p] \notin Build BY NoBundle DEF Init
  <1>2. \A h \in Hosts : Len(chan[h]) = 0 /\ store[h].sets = {} /\ app[h].state = "none"
    BY DEF Init, NewSecretStore, NoApp
  <1> QED BY SMT, <1>1, <1>2 DEF Carried, Distinct, Apart

(* What a daemon holds, and what an application was started with, was       *)
(* committed so, whatever requests, failures, connections and restarts came *)
(* between buildSecretSets' statements.                                     *)
THEOREM SetsStayWhole == Spec => []SetsAreWhole
  <1>1. Init => Tables /\ Carried BY TablesInit, CarriedInit
  <1>2. Tables /\ Carried /\ [Next]_vars => (Tables /\ Carried)'
    BY TablesStep, CarriedStep
  <1>3. Tables /\ Carried => SetsAreWhole
    <2> SUFFICES ASSUME Tables, Carried PROVE SetsAreWhole OBVIOUS
    <2>1. TypeOK BY TypesOK DEF Tables
    <2>2. \A h \in Hosts : app[h].state = "started" => app[h].got \in Opened
      BY DEF Tables, Types, LinkType, App
    <2> QED BY <2>1, <2>2 DEF SetsAreWhole, Carried, Whole
  <1> QED BY <1>1, <1>2, <1>3, PTL DEF Spec

-----------------------------------------------------------------------------
(* Names.                                                                   *)

(* The rows of one query have different names.                              *)
LEMMA RowsApart ==
  ASSUME Tables, NEW h \in Hosts
  PROVE  Apart(SetsForHost(h))
  <1> SUFFICES ASSUME NEW r \in SetsForHost(h), NEW q \in SetsForHost(h), r.name = q.name
               PROVE  r = q
    BY DEF Apart
  <1>1. PICK s \in Sets : /\ name[s] \in Names
                          /\ r = [set |-> s, name |-> name[s], version |-> updated[s]]
    BY DEF SetsForHost
  <1>2. PICK t \in Sets : /\ name[t] \in Names
                          /\ q = [set |-> t, name |-> name[t], version |-> updated[t]]
    BY DEF SetsForHost
  <1>3. name[s] = name[t] BY <1>1, <1>2
  <1>4. s = t BY <1>1, <1>3 DEF Tables, Unique
  <1> QED BY <1>1, <1>2, <1>4

(* The pieces of Distinct.                                                  *)
LEMMA DistinctPieces ==
  ASSUME Distinct, NEW p \in Procs, Moves(p), build'[p] \in Build => ApartBuild(build'[p])
  PROVE  \A q \in Procs : build'[q] \in Build => ApartBuild(build'[q])
  BY DEF Distinct, Moves

(* Every step keeps the names of what is on its way apart.                  *)
LEMMA DistinctStep ==
  ASSUME Tables, Distinct, [Next]_vars
  PROVE  Distinct'
  <1>0. Types /\ LinkType BY DEF Tables, Types
  <1> DEFINE B == \A q \in Procs : build'[q] \in Build => ApartBuild(build'[q])
  <1>1. ASSUME UNCHANGED <<build, chan, store>> PROVE Distinct'
    BY <1>1 DEF Distinct
  <1>2. ASSUME B, UNCHANGED <<chan, store>> PROVE Distinct'
    BY <1>2 DEF Distinct
  <1>3. ASSUME NEW p \in Requests,
               Starting(p) \/ Committing(p) \/ UnbindSet(p) \/ LookupHosts(p)
        PROVE  Distinct'
    BY <1>0, <1>1, <1>3, Aside DEF daemon
  <1>4. ASSUME NEW p \in Procs, StartBuild(p) PROVE Distinct'
    <2>1. PICK h \in Targets(p) :
            /\ h \in Hosts /\ Moves(p)
            /\ build'[p] = [host |-> h, rows |-> SetsForHost(h), sets |-> {}, seq |-> 0]
      BY <1>0, <1>4, BuildStarts
    <2>2. build'[p].rows = SetsForHost(h) /\ build'[p].sets = {} BY SMT, <2>1
    <2>3. Apart({}) BY DEF Apart
    <2>4. ApartBuild(build'[p]) BY <2>1, <2>2, <2>3, RowsApart DEF ApartBuild
    <2>5. B BY <2>1, <2>4, DistinctPieces
    <2> QED BY <1>2, <1>4, <2>5 DEF StartBuild, daemon
  <1>5. ASSUME NEW p \in Procs, ReadEntries(p) PROVE Distinct'
    <2>1. PICK row \in build[p].rows :
            /\ build[p] \in Build /\ row \in Row /\ Moves(p)
            /\ build'[p].rows = build[p].rows \ {row}
            /\ build'[p].sets = build[p].sets \cup {Open(row, entries[row.set])}
      BY <1>0, <1>5, EntriesRead
    <2>2. Open(row, entries[row.set]).name = row.name BY DEF Open
    <2>3. ApartBuild(build[p]) BY <2>1 DEF Distinct
    <2> DEFINE o == Open(row, entries[row.set])
    <2> HIDE DEF o
    <2>4. /\ build'[p].sets = build[p].sets \cup {o} /\ o.name = row.name
      BY <2>1, <2>2 DEF o
    <2>5. Apart(build'[p].rows) BY <2>1, <2>3 DEF ApartBuild, Apart
    <2>6. Apart(build'[p].sets) BY <2>3, <2>4 DEF ApartBuild, Apart
    <2>7. \A r \in build'[p].rows, q \in build'[p].sets : r.name # q.name
      BY <2>1, <2>3, <2>4 DEF ApartBuild, Apart
    <2>8. B BY <2>1, <2>5, <2>6, <2>7, DistinctPieces DEF ApartBuild
    <2> QED BY <1>2, <1>5, <2>8 DEF ReadEntries, daemon
  <1>6. ASSUME NEW p \in Procs, SecretSetsEnvelope(p) PROVE Distinct'
    <2>1. /\ build[p] \in Build /\ Moves(p)
          /\ build'[p].rows = build[p].rows /\ build'[p].sets = build[p].sets
      BY <1>0, <1>6, Enveloped
    <2>2. ApartBuild(build'[p]) BY <2>1 DEF Distinct, ApartBuild
    <2>3. B BY <2>1, <2>2, DistinctPieces
    <2> QED BY <1>2, <1>6, <2>3 DEF SecretSetsEnvelope, daemon
  <1>7. ASSUME NEW p \in Procs, Send(p) PROVE Distinct'
    <2>1. /\ build[p] \in Build /\ build[p].host \in Hosts
          /\ Moves(p) /\ build'[p] = NoBuild
      BY <1>0, <1>7, Sent
    <2>2. B BY <2>1, NoBundle, DistinctPieces
    <2> DEFINE h == build[p].host
               e == [seq |-> build[p].seq, sets |-> build[p].sets]
    <2>3. e.sets = build[p].sets OBVIOUS
    <2>4. Apart(e.sets) BY <2>1 DEF Distinct, ApartBuild
    <2> HIDE DEF e
    <2>5. /\ \A g \in Hosts \ {h} : chan'[g] = chan[g]
          /\ \/ UNCHANGED chan
             \/ /\ Len(chan'[h]) = Len(chan[h]) + 1 /\ chan'[h][Len(chan'[h])] = e
                /\ \A i \in 1..Len(chan[h]) : chan'[h][i] = chan[h][i]
                /\ Len(chan[h]) \in Nat
      BY <1>0, <1>7, Appended DEF e
    <2>6. \A g \in Hosts : \A i \in 1..Len(chan'[g]) : Apart(chan'[g][i].sets)
      <3>1. CASE UNCHANGED chan BY <3>1 DEF Distinct
      <3>2. CASE ~UNCHANGED chan
        <4> SUFFICES ASSUME NEW g \in Hosts, NEW i \in 1..Len(chan'[g])
                     PROVE  Apart(chan'[g][i].sets)
          OBVIOUS
        <4>1. CASE g # h BY <2>5, <4>1 DEF Distinct
        <4>2. CASE g = h /\ i \in 1..Len(chan[h]) BY <2>1, <2>5, <3>2, <4>2 DEF Distinct
        <4>3. CASE g = h /\ i \notin 1..Len(chan[h])
          <5>1. i = Len(chan'[h]) BY SMT, <2>5, <3>2, <4>3
          <5> QED BY <2>4, <2>5, <3>2, <4>3, <5>1
        <4> QED BY <4>1, <4>2, <4>3
      <3> QED BY <3>1, <3>2
    <2> QED BY <1>7, <2>2, <2>6 DEF Distinct, Send
  <1>8. ASSUME NEW p \in Procs, Fail(p) PROVE Distinct'
    <2>1. B BY <1>0, <1>8, Failed, NoBundle, DistinctPieces
    <2> QED BY <1>2, <1>8, <2>1 DEF Fail, daemon
  <1>9. ASSUME NEW h \in Hosts, Connect(h) PROVE Distinct'
    BY <1>1, <1>9 DEF Connect
  <1>10. ASSUME NEW h \in Hosts, Drop(h) \/ Restart(h) PROVE Distinct'
    <2>1. /\ Moves(h) /\ build'[h] = NoBuild /\ chan'[h] = <<>>
          /\ \A g \in Hosts \ {h} : chan'[g] = chan[g]
      BY <1>0, <1>10, Disconnected DEF Drop, Restart, LinkKeeps
    <2>2. \A g \in Hosts : \A i \in 1..Len(chan'[g]) : Apart(chan'[g][i].sets)
      BY SMT, <2>1 DEF Distinct
    <2>3. B BY <2>1, NoBundle, ProcKinds, DistinctPieces
    <2>4. \A g \in Hosts : Apart(store'[g].sets)
      <3>1. Apart({}) BY DEF Apart
      <3>2. NewSecretStore.sets = {} BY DEF NewSecretStore
      <3>3. store' = store \/ store' = [store EXCEPT ![h] = NewSecretStore]
        BY <1>10 DEF Drop, Restart
      <3>4. \A g \in Hosts : store'[g] \in {store[g], NewSecretStore}
        BY <1>0, <3>3 DEF LinkType
      <3> QED BY <3>1, <3>2, <3>4 DEF Distinct
    <2> QED BY <2>2, <2>3, <2>4 DEF Distinct
  <1>11. ASSUME NEW h \in Hosts, Dispatch(h) PROVE Distinct'
    <2>1. UNCHANGED build BY <1>11 DEF Dispatch
    <2>2. /\ Len(chan[h]) > 0 /\ Len(chan'[h]) = Len(chan[h]) - 1
          /\ \A i \in 1..Len(chan'[h]) : chan'[h][i] = chan[h][i + 1]
          /\ \A g \in Hosts \ {h} : chan'[g] = chan[g] /\ store'[g] = store[g]
          /\ store'[h] = IF chan[h][1].seq > store[h].seq
                           THEN [ready |-> TRUE, seq |-> chan[h][1].seq, sets |-> chan[h][1].sets]
                           ELSE store[h]
      BY <1>0, <1>11, Dispatched
    <2>3. Len(chan[h]) \in Nat BY SMT, <1>0 DEF LinkType
    <2>4. \A i \in 1..Len(chan'[h]) : i + 1 \in 1..Len(chan[h]) BY SMT, <2>2, <2>3
    <2>5. 1 \in 1..Len(chan[h]) BY SMT, <2>2, <2>3
    <2>6. store'[h].sets = chan[h][1].sets \/ store'[h] = store[h] BY SMT, <2>2
    <2>7. \A g \in Hosts : Apart(store'[g].sets) BY <2>2, <2>5, <2>6 DEF Distinct
    <2>8. \A g \in Hosts : \A i \in 1..Len(chan'[g]) : Apart(chan'[g][i].sets)
      BY SMT, <2>2, <2>4 DEF Distinct
    <2> QED BY <2>1, <2>7, <2>8 DEF Distinct
  <1>12. ASSUME NEW h \in Hosts, HandleSecret(h) \/ ReadyReply(h) PROVE Distinct'
    BY <1>1, <1>12 DEF HandleSecret, ReadyReply, ExecKeeps
  <1>13. CASE UNCHANGED vars BY <1>1, <1>13 DEF vars, daemon
  <1> QED BY <1>3, <1>4, <1>5, <1>6, <1>7, <1>8, <1>9, <1>10, <1>11, <1>12, <1>13, Steps

(* Two sets never share a name in a daemon's store: Apply, which keeps them *)
(* by name, loses none of them.                                             *)
THEOREM StoresLoseNoSet == Spec => []NamesApart
  <1>1. Init => Tables /\ Distinct BY TablesInit, CarriedInit
  <1>2. Tables /\ Distinct /\ [Next]_vars => (Tables /\ Distinct)'
    BY TablesStep, DistinctStep
  <1>3. Tables /\ Distinct => NamesApart BY DEF Distinct, Apart, NamesApart
  <1> QED BY <1>1, <1>2, <1>3, PTL DEF Spec


-----------------------------------------------------------------------------
(* The numbers of the envelopes.                                            *)

(* Numbers are taken from a counter, and a connection begins with an empty  *)
(* channel.                                                                 *)
NumberedHost(h) ==
    /\ ~link[h] => chan[h] = <<>>
    /\ \A i \in 1..Len(chan[h]) : chan[h][i].seq <= setSeq[h]
    /\ store[h].seq <= setSeq[h]
NumberedBuilds ==
    \A p \in Procs : pc[p] = "send" => build[p].seq <= setSeq[build[p].host]
Numbered == (\A h \in Hosts : NumberedHost(h)) /\ NumberedBuilds

(* What the numbers and the channels are made of.                           *)
LEMMA Numbers ==
  ASSUME Types
  PROVE  /\ \A h \in Hosts : /\ setSeq[h] \in Nat /\ store[h].seq \in Nat
                             /\ Len(chan[h]) \in Nat
                             /\ \A i \in 1..Len(chan[h]) : /\ chan[h][i] \in Envelope
                                                           /\ chan[h][i].seq \in Nat
         /\ \A p \in Procs : pc[p] \in Building =>
              build[p] \in Build /\ build[p].host \in Hosts /\ build[p].seq \in Nat
  <1>1. ASSUME NEW h \in Hosts
        PROVE  /\ setSeq[h] \in Nat /\ store[h].seq \in Nat /\ Len(chan[h]) \in Nat
               /\ \A i \in 1..Len(chan[h]) : /\ chan[h][i] \in Envelope
                                             /\ chan[h][i].seq \in Nat
    <2> DEFINE E == Envelope
    <2>1. setSeq[h] \in Nat /\ store[h].seq \in Nat /\ chan[h] \in Seq(E)
      BY DEF Types, LinkType, Store
    <2>2. Len(chan[h]) \in Nat /\ \A i \in 1..Len(chan[h]) : chan[h][i] \in E
      <3> HIDE DEF E
      <3> QED BY SMT, <2>1
    <2>3. \A e \in E : e.seq \in Nat BY DEF Envelope
    <2> HIDE DEF E
    <2> QED BY <2>1, <2>2, <2>3 DEF E
  <1>2. \A p \in Procs : pc[p] \in Building =>
              build[p] \in Build /\ build[p].host \in Hosts /\ build[p].seq \in Nat
    BY DEF Types, Busied, Build
  <1> QED BY <1>1, <1>2

(* A step of p leaves the other handlers' numbers behind the counter.       *)
LEMMA BuildsStep ==
  ASSUME Types, NumberedBuilds, NEW p \in Procs, Moves(p), setSeq' \in [Hosts -> Nat],
         \A h \in Hosts : setSeq'[h] >= setSeq[h],
         pc'[p] = "send" => build'[p].seq <= setSeq'[build'[p].host]
  PROVE  NumberedBuilds'
  <1> SUFFICES ASSUME NEW q \in Procs, pc'[q] = "send"
               PROVE  build'[q].seq <= setSeq'[build'[q].host]
    BY DEF NumberedBuilds
  <1>1. CASE q = p BY <1>1
  <1>2. CASE q # p
    <2>1. pc[q] = "send" /\ build'[q] = build[q] BY <1>2 DEF Moves
    <2>2. build[q].seq <= setSeq[build[q].host] BY <2>1 DEF NumberedBuilds
    <2>3. build[q].host \in Hosts /\ build[q].seq \in Nat BY <2>1, Numbers DEF Building
    <2>4. setSeq[build[q].host] \in Nat /\ setSeq'[build[q].host] \in Nat BY <2>3, Numbers
    <2> QED BY SMT, <2>1, <2>2, <2>3, <2>4
  <1> QED BY <1>1, <1>2

(* A host whose connection and daemon a step leaves alone.                  *)
LEMMA HostStep ==
  ASSUME Types, NEW h \in Hosts, NumberedHost(h), setSeq' \in [Hosts -> Nat],
         setSeq'[h] >= setSeq[h],
         link'[h] = link[h], chan'[h] = chan[h], store'[h] = store[h]
  PROVE  NumberedHost(h)'
  <1>1. setSeq[h] \in Nat /\ setSeq'[h] \in Nat /\ store[h].seq \in Nat
        /\ \A i \in 1..Len(chan[h]) : chan[h][i].seq \in Nat
    BY Numbers
  <1> QED BY SMT, <1>1 DEF NumberedHost

(* Every step keeps the numbers behind the counters.                        *)
LEMMA NumberedStep ==
  ASSUME Types, Numbered, [Next]_vars
  PROVE  Numbered'
  <1>0. Types' /\ LinkType /\ setSeq \in [Hosts -> Nat] /\ setSeq' \in [Hosts -> Nat]
        /\ Requests \subseteq Procs /\ Hosts \subseteq Procs /\ NumberedBuilds
        /\ \A h \in Hosts : NumberedHost(h)
    BY TypeStep, ProcKinds DEF Types, LinkType, Numbered
  <1>1. ASSUME UNCHANGED <<pc, setSeq, build, link, chan, store>> PROVE Numbered'
    BY <1>1 DEF Numbered, NumberedHost, NumberedBuilds
  <1>2. ASSUME NEW p \in Procs, Moves(p), UNCHANGED <<setSeq, link, chan, store>>, pc'[p] # "send"
        PROVE  Numbered'
    <2>1. NumberedBuilds' BY SMT, <1>0, <1>2, BuildsStep
    <2>2. \A h \in Hosts : NumberedHost(h)' BY SMT, <1>0, <1>2, HostStep
    <2> QED BY <2>1, <2>2 DEF Numbered
  <1>3. ASSUME NEW p \in Requests, Starting(p) PROVE Numbered'
    BY <1>0, <1>2, <1>3, Started, Begun DEF daemon
  <1>4. ASSUME NEW p \in Requests, Committing(p) PROVE Numbered'
    BY <1>0, <1>2, <1>4, Resolved, Aside DEF daemon
  <1>5. ASSUME NEW p \in Requests, UnbindSet(p) PROVE Numbered'
    BY <1>0, <1>2, <1>5, Unbound, Aside DEF daemon
  <1>6. ASSUME NEW p \in Requests, LookupHosts(p) PROVE Numbered'
    BY <1>0, <1>2, <1>6, HostsLookedUp, Aside DEF daemon
  <1>7. ASSUME NEW p \in Procs, StartBuild(p) PROVE Numbered'
    BY <1>2, <1>7, BuildStarts DEF StartBuild, daemon
  <1>8. ASSUME NEW p \in Procs, ReadEntries(p) PROVE Numbered'
    BY <1>2, <1>8, EntriesRead DEF ReadEntries, daemon
  <1>9. ASSUME NEW p \in Procs, SecretSetsEnvelope(p) PROVE Numbered'
    <2> DEFINE h == build[p].host
    <2>1. /\ h \in Hosts /\ Moves(p) /\ build'[p].host = h /\ build'[p].seq = setSeq[h] + 1
      BY <1>9, Enveloped
    <2>2. setSeq' = [setSeq EXCEPT ![h] = setSeq[h] + 1] /\ UNCHANGED <<link, chan, store>>
      BY <1>9 DEF SecretSetsEnvelope, NextHostSetSeq, daemon
    <2> HIDE DEF h
    <2>3. setSeq'[h] = setSeq[h] + 1 /\ \A g \in Hosts : setSeq'[g] >= setSeq[g]
      BY SMT, <1>0, <2>1, <2>2
    <2>4. build'[p].seq <= setSeq'[build'[p].host] BY SMT, <1>0, <2>1, <2>3
    <2>5. NumberedBuilds' BY <1>0, <2>1, <2>3, <2>4, BuildsStep
    <2>6. \A g \in Hosts : NumberedHost(g)' BY <1>0, <2>2, <2>3, HostStep
    <2> QED BY <2>5, <2>6 DEF Numbered
  <1>10. ASSUME NEW p \in Procs, Send(p) PROVE Numbered'
    <2>0. PICK h \in Hosts : h = build[p].host BY <1>10, Sent
    <2> DEFINE e == [seq |-> build[p].seq, sets |-> build[p].sets]
    <2>1. h \in Hosts /\ Moves(p) /\ pc'[p] # "send" BY <1>10, Sent
    <2>2. UNCHANGED <<setSeq, link, store>> BY <1>10 DEF Send
    <2>3. NumberedBuilds' BY SMT, <1>0, <2>1, <2>2, BuildsStep
    <2>4. e.seq <= setSeq[h] BY <1>0, <1>10, <2>0 DEF NumberedBuilds, Send
    <2>5. /\ \A g \in Hosts \ {h} : chan'[g] = chan[g]
          /\ \/ UNCHANGED chan
             \/ /\ link[h] /\ Len(chan[h]) \in Nat /\ Len(chan'[h]) = Len(chan[h]) + 1
                /\ chan'[h][Len(chan'[h])] = e
                /\ \A i \in 1..Len(chan[h]) : chan'[h][i] = chan[h][i]
      BY <1>10, <2>0, Appended
    <2> HIDE DEF e
    <2>6. \A g \in Hosts \ {h} : NumberedHost(g)' BY SMT, <1>0, <2>2, <2>5, HostStep
    <2>7. NumberedHost(h)'
      <3>1. CASE UNCHANGED chan BY SMT, <1>0, <2>1, <2>2, <3>1, HostStep
      <3>2. CASE ~UNCHANGED chan
        <4>1. \A i \in 1..Len(chan'[h]) : i \in 1..Len(chan[h]) \/ i = Len(chan'[h])
          BY SMT, <2>5, <3>2
        <4>2. \A i \in 1..Len(chan'[h]) : chan'[h][i].seq <= setSeq[h]
          BY <1>0, <2>1, <2>4, <2>5, <3>2, <4>1 DEF NumberedHost
        <4> QED BY <1>0, <2>1, <2>2, <2>5, <3>2, <4>2 DEF NumberedHost
      <3> QED BY <3>1, <3>2
    <2> QED BY <2>3, <2>6, <2>7 DEF Numbered
  <1>11. ASSUME NEW p \in Procs, Fail(p) PROVE Numbered'
    BY <1>2, <1>11, Failed DEF Fail, daemon
  <1>12. ASSUME NEW h \in Hosts, Connect(h) PROVE Numbered'
    <2>1. Moves(h) /\ pc'[h] = "push" /\ UNCHANGED <<setSeq, chan, store>>
      BY <1>12, Connected DEF Connect
    <2>2. link'[h] = TRUE /\ \A g \in Hosts \ {h} : link'[g] = link[g]
      BY <1>0, <1>12 DEF Connect, LinkType
    <2>3. NumberedBuilds' BY SMT, <1>0, <2>1, BuildsStep
    <2>4. NumberedHost(h)' BY <1>0, <2>1, <2>2 DEF NumberedHost
    <2>5. \A g \in Hosts \ {h} : NumberedHost(g)' BY SMT, <1>0, <2>1, <2>2, HostStep
    <2> QED BY <2>3, <2>4, <2>5 DEF Numbered
  <1>13. ASSUME NEW h \in Hosts, Drop(h) \/ Restart(h) PROVE Numbered'
    <2>1. /\ Moves(h) /\ pc'[h] = "idle"
          /\ setSeq'[h] >= setSeq[h] /\ \A g \in Hosts \ {h} : setSeq'[g] = setSeq[g]
          /\ link'[h] = FALSE /\ chan'[h] = <<>>
          /\ \A g \in Hosts \ {h} : link'[g] = link[g] /\ chan'[g] = chan[g]
      BY <1>13, Disconnected DEF Drop, Restart, LinkKeeps
    <2>2. store' = store \/ store' = [store EXCEPT ![h] = NewSecretStore]
      BY <1>13 DEF Drop, Restart
    <2>3. (\A g \in Hosts \ {h} : store'[g] = store[g]) /\ store'[h] \in {store[h], NewSecretStore}
      BY <1>0, <2>2 DEF LinkType
    <2>4. \A g \in Hosts : setSeq'[g] >= setSeq[g] BY SMT, <1>0, <2>1
    <2>5. NumberedBuilds' BY <1>0, <2>1, <2>4, BuildsStep
    <2>6. NumberedHost(h)'
      <3>1. NewSecretStore.seq = 0 BY DEF NewSecretStore
      <3>2. store'[h].seq <= setSeq'[h]
        BY SMT, <1>0, <2>1, <2>3, <3>1, Numbers DEF NumberedHost
      <3> QED BY SMT, <2>1, <3>2 DEF NumberedHost
    <2>7. \A g \in Hosts \ {h} : NumberedHost(g)' BY <1>0, <2>1, <2>3, <2>4, HostStep
    <2> QED BY <2>5, <2>6, <2>7 DEF Numbered
  <1>14. ASSUME NEW h \in Hosts, Dispatch(h) PROVE Numbered'
    <2>1. /\ Len(chan[h]) > 0 /\ Len(chan'[h]) = Len(chan[h]) - 1
          /\ \A i \in 1..Len(chan'[h]) : chan'[h][i] = chan[h][i + 1]
          /\ \A g \in Hosts \ {h} : chan'[g] = chan[g] /\ store'[g] = store[g]
          /\ store'[h] = IF chan[h][1].seq > store[h].seq
                           THEN [ready |-> TRUE, seq |-> chan[h][1].seq, sets |-> chan[h][1].sets]
                           ELSE store[h]
      BY <1>0, <1>14, Dispatched
    <2>2. UNCHANGED <<setSeq, pc, build, link>> /\ link[h] BY <1>14 DEF Dispatch
    <2>3. store'[h].seq = chan[h][1].seq \/ store'[h] = store[h] BY SMT, <2>1
    <2>4. 1 \in 1..Len(chan[h]) /\ \A i \in 1..Len(chan'[h]) : i + 1 \in 1..Len(chan[h])
      BY SMT, <2>1, Numbers
    <2>5. NumberedHost(h)' BY <1>0, <2>1, <2>2, <2>3, <2>4 DEF NumberedHost
    <2>6. \A g \in Hosts \ {h} : NumberedHost(g)' BY SMT, <1>0, <2>1, <2>2, HostStep
    <2>7. NumberedBuilds' BY <1>0, <2>2 DEF NumberedBuilds
    <2> QED BY <2>5, <2>6, <2>7 DEF Numbered
  <1>15. ASSUME NEW h \in Hosts, HandleSecret(h) \/ ReadyReply(h) PROVE Numbered'
    BY <1>1, <1>15 DEF HandleSecret, ReadyReply, ExecKeeps
  <1>16. CASE UNCHANGED vars BY <1>1, <1>16 DEF vars, daemon
  <1> QED BY <1>3, <1>4, <1>5, <1>6, <1>7, <1>8, <1>9, <1>10, <1>11, <1>12, <1>13,
             <1>14, <1>15, <1>16, Steps


-----------------------------------------------------------------------------
(* A calm connection.                                                       *)

(* While a connection is calm one handler runs at a time, what is on the    *)
(* channel is newer than what the daemon holds, and the last of it is what  *)
(* the tables say, or a handler still has to send that.                     *)
Quiet(h) == link[h] /\ calm[h]
LastSets(h) == IF chan[h] = <<>> THEN store[h].sets ELSE chan[h][Len(chan[h])].sets
Serves(p, h) == pc[p] \in Building /\ build[p].host = h
Due(p, h) ==
    \/ pc[p] = "lookup" /\ <<h, job[p].set>> \in bound
    \/ pc[p] = "push" /\ h \in Targets(p)
    \/ pc[p] \in Building /\ h \in Left(p)
    \/ Serves(p, h)
Opening(rows) == {Open(row, entries[row.set]) : row \in rows}
Faithful(p, h) ==
    /\ build[p].sets \cup Opening(build[p].rows) = Bundle(h)
    /\ pc[p] \in {"number", "send"} => build[p].rows = {}
    /\ pc[p] = "send" => /\ build[p].seq > store[h].seq
                         /\ \A i \in 1..Len(chan[h]) : build[p].seq > chan[h][i].seq
Rising(h) ==
    \A i \in 1..Len(chan[h]) :
        /\ chan[h][i].seq > store[h].seq
        /\ \A j \in 1..Len(chan[h]) : j < i => chan[h][j].seq < chan[h][i].seq
Marked(p, h) == Deletes(p) /\ <<h, job[p].set>> \in bound => h \in todo[p]
UpToDate(h) == LastSets(h) = Bundle(h)
CalmAt(h) ==
    /\ \A p, q \in Requests \cup {h} : Busy(p) /\ Busy(q) => p = q
    /\ Rising(h)
    /\ \A p \in Requests : Marked(p, h)
    /\ \A p \in Requests \cup {h} : Serves(p, h) => Faithful(p, h)
    /\ UpToDate(h) \/ \E p \in Requests \cup {h} : Due(p, h)
Calm == \A h \in Hosts : Quiet(h) => CalmAt(h)

(* An idle handler has nothing to send.                                     *)
LEMMA IdleIsDone ==
  ASSUME NEW p, NEW h, pc[p] = "idle"
  PROVE  ~Due(p, h) /\ ~Serves(p, h) /\ ~Busy(p) /\ ~Deletes(p)
  BY DEF Due, Serves, Busy, Building, Deletes

(* The host's bundle depends on the sets bound to it only.                  *)
LEMMA SameBundle ==
  ASSUME NEW h \in Hosts,
         \A s \in Sets : /\ <<h, s>> \in bound' <=> <<h, s>> \in bound
                         /\ <<h, s>> \in bound => /\ name'[s] = name[s] /\ updated'[s] = updated[s]
                                                  /\ entries'[s] = entries[s]
  PROVE  SetsForHost(h)' = SetsForHost(h) /\ Bundle(h)' = Bundle(h)
  <1> DEFINE S == {x \in Sets : <<h, x>> \in bound /\ name[x] \in Names}
             T == {x \in Sets : <<h, x>> \in bound' /\ name'[x] \in Names}
  <1>1. S = T OBVIOUS
  <1>2. \A s \in S : /\ name'[s] = name[s] /\ updated'[s] = updated[s]
                     /\ entries'[s] = entries[s] /\ s \in Sets
    OBVIOUS
  <1> HIDE DEF S, T
  <1>3. {[set |-> s, name |-> name[s], version |-> updated[s]] : s \in S}
        = {[set |-> s, name |-> name'[s], version |-> updated'[s]] : s \in T}
    BY <1>1, <1>2
  <1>4. SetsForHost(h)' = SetsForHost(h) BY <1>3 DEF SetsForHost, S, T
  <1>5. \A row \in SetsForHost(h) : row.set \in S
    <2> SUFFICES ASSUME NEW row \in SetsForHost(h) PROVE row.set \in S OBVIOUS
    <2>1. PICK s \in S : row = [set |-> s, name |-> name[s], version |-> updated[s]]
      BY DEF SetsForHost, S
    <2> QED BY <2>1
  <1>6. \A row \in SetsForHost(h) : Open(row, entries[row.set]) = Open(row, entries'[row.set])
    BY <1>2, <1>5
  <1> DEFINE R == SetsForHost(h)
  <1>7. Bundle(h) = {Open(row, entries[row.set]) : row \in R} BY DEF Bundle
  <1>8. Bundle(h)' = {Open(row, entries'[row.set]) : row \in R} BY <1>4 DEF Bundle
  <1> HIDE DEF R
  <1>9. \A row \in R : Open(row, entries[row.set]) = Open(row, entries'[row.set])
    BY <1>6 DEF R
  <1>10. Bundle(h)' = Bundle(h) BY SMT, <1>7, <1>8, <1>9
  <1> QED BY <1>4, <1>10

(* A step that leaves the host and its handlers alone.                      *)
LEMMA CalmKept ==
  ASSUME Types, NEW h \in Hosts, CalmAt(h), UNCHANGED tables,
         chan'[h] = chan[h], store'[h] = store[h],
         \A q \in Requests \cup {h} : pc'[q] = pc[q] /\ build'[q] = build[q],
         \A q \in Requests : job'[q] = job[q] /\ todo'[q] = todo[q]
  PROVE  CalmAt(h)'
  <1>1. Bundle(h)' = Bundle(h) BY SameBundle DEF tables
  <1>2. UpToDate(h)' <=> UpToDate(h) BY <1>1 DEF UpToDate, LastSets
  <1>3. \A p \in Requests \cup {h} : (Busy(p)' <=> Busy(p)) /\ (Serves(p, h)' <=> Serves(p, h))
    BY DEF Busy, Serves
  <1>4. \A p \in Requests \cup {h} : Due(p, h)' <=> Due(p, h)
    <2> SUFFICES ASSUME NEW p \in Requests \cup {h} PROVE Due(p, h)' <=> Due(p, h) OBVIOUS
    <2>1. CASE p \in Requests BY <1>3, <2>1 DEF Due, tables, Targets, Left
    <2>2. CASE p \notin Requests
      <3>1. p = h BY <2>2
      <3>2. pc[h] # "lookup" BY DEF Types, Busied
      <3> QED BY <1>3, <2>2, <3>1, <3>2 DEF Due, tables, Targets, Left
    <2> QED BY <2>1, <2>2
  <1>5. \A p \in Requests : Marked(p, h)' <=> Marked(p, h) BY DEF Marked, Deletes, tables
  <1>6. \A p \in Requests \cup {h} : Faithful(p, h)' <=> Faithful(p, h)
    BY SMT, <1>1 DEF Faithful, Opening, tables
  <1>7. Rising(h)' <=> Rising(h) BY DEF Rising
  <1> QED BY <1>2, <1>3, <1>4, <1>5, <1>6, <1>7 DEF CalmAt


(* A step of p while every other handler the host could meet is idle.       *)
Only(p, h) == \A q \in (Requests \cup {h}) \ {p} : pc[q] = "idle"
(* Its step keeps the connection calm if p itself is as it should be.       *)
LEMMA CalmBy ==
  ASSUME NEW h \in Hosts, NEW p \in Requests \cup {h}, Only(p, h), Moves(p),
         Rising(h)', p \in Requests => Marked(p, h)',
         Serves(p, h)' => Faithful(p, h)',
         UpToDate(h)' \/ Due(p, h)'
  PROVE  CalmAt(h)'
  <1>1. \A q \in (Requests \cup {h}) \ {p} : pc'[q] = "idle"
    BY ProcKinds DEF Only, Moves
  <1>2. \A q \in (Requests \cup {h}) \ {p} : ~Busy(q)' /\ ~Serves(q, h)' /\ ~Deletes(q)'
    BY <1>1 DEF Busy, Serves, Building, Deletes
  <1>3. \A q \in Requests : Marked(q, h)'
    BY <1>2 DEF Marked
  <1> QED BY <1>2, <1>3 DEF CalmAt

(* Before it, a calm connection is up to date or p owes it its bundle.      *)
LEMMA CalmBefore ==
  ASSUME NEW h \in Hosts, NEW p \in Requests \cup {h}, Busy(p), CalmAt(h)
  PROVE  Only(p, h) /\ (UpToDate(h) \/ Due(p, h)) /\ Rising(h)
         /\ (Serves(p, h) => Faithful(p, h)) /\ (p \in Requests => Marked(p, h))
  <1>1. Only(p, h) BY DEF Only, CalmAt, Busy
  <1>2. \A q \in (Requests \cup {h}) \ {p} : ~Due(q, h)
    BY <1>1, IdleIsDone DEF Only
  <1> QED BY <1>1, <1>2 DEF CalmAt

(* When none of them is busy, it is up to date.                             *)
LEMMA CalmIdle ==
  ASSUME NEW h \in Hosts, CalmAt(h), \A q \in Requests \cup {h} : ~Busy(q)
  PROVE  UpToDate(h) /\ Rising(h) /\ \A p : Only(p, h)
  <1>1. \A q \in Requests \cup {h} : pc[q] = "idle" BY DEF Busy
  <1>2. \A q \in Requests \cup {h} : ~Due(q, h) BY <1>1, IdleIsDone
  <1> QED BY <1>1, <1>2 DEF CalmAt, Only

(* What of a host does not change with the tables.                          *)
LEMMA SameEnd ==
  ASSUME NEW h \in Hosts, chan'[h] = chan[h], store'[h] = store[h]
  PROVE  LastSets(h)' = LastSets(h) /\ (Rising(h)' <=> Rising(h))
  BY DEF LastSets, Rising

(* A request that begins.                                                   *)
LEMMA CalmStarting ==
  ASSUME Tables, NEW h \in Hosts, Quiet(h) => CalmAt(h), NEW p \in Requests, Starting(p), Quiet(h)'
  PROVE  CalmAt(h)'
  <1>1. PICK j \in Job, hosts \in SUBSET Hosts :
             /\ Begin(p, j, hosts)
             /\ j.op = "delete" => hosts = HostsForSet(j.set) \/ faults' # faults
    BY Started DEF Tables
  <1>2. /\ Moves(p) /\ pc'[p] = "tx" /\ job'[p] = j /\ todo'[p] = hosts
        /\ UNCHANGED <<build, tables, past, daemon, setSeq>>
    BY <1>1, Begun DEF Tables
  <1>3. calm'[h] = (calm[h] /\ faults' = faults /\ \A q \in Requests \cup {h} : ~Busy(q))
    BY <1>1 DEF Begin, Request
  <1>4. calm[h] /\ faults' = faults /\ (\A q \in Requests \cup {h} : ~Busy(q)) /\ link[h]
    BY <1>2, <1>3 DEF Quiet, daemon
  <1>5. UpToDate(h) /\ Rising(h) /\ Only(p, h) BY <1>4, CalmIdle DEF Quiet
  <1>6. LastSets(h)' = LastSets(h) /\ Rising(h)' BY <1>2, <1>5, SameEnd DEF daemon
  <1>7. Bundle(h)' = Bundle(h) BY <1>2, SameBundle DEF tables
  <1>8. UpToDate(h)' BY <1>5, <1>6, <1>7 DEF UpToDate
  <1>9. Marked(p, h)'
    BY <1>1, <1>2, <1>4 DEF Marked, Deletes, HostsForSet, tables
  <1>10. ~Serves(p, h)' BY <1>2 DEF Serves, Building
  <1> QED BY <1>2, <1>5, <1>6, <1>8, <1>9, <1>10, CalmBy

(* An unbind.                                                               *)
LEMMA CalmUnbind ==
  ASSUME Tables, NEW h \in Hosts, Quiet(h) => CalmAt(h), NEW p \in Requests, UnbindSet(p), Quiet(h)'
  PROVE  CalmAt(h)'
  <1>1. PICK s \in Sets, g \in Hosts :
             /\ bound' = bound \ {<<g, s>>} /\ pc'[p] = "push" /\ todo'[p] = {g}
    BY Unbound DEF Tables
  <1>2. /\ Moves(p) /\ UNCHANGED <<build, daemon, setSeq, name, updated, entries>>
    BY Unbound, Aside DEF Tables, UnbindSet
  <1>3. calm'[h] = (calm[h] /\ faults' = faults /\ \A q \in Requests \cup {h} : ~Busy(q))
    BY DEF UnbindSet, Request
  <1>4. calm[h] /\ (\A q \in Requests \cup {h} : ~Busy(q)) /\ link[h]
    BY <1>2, <1>3 DEF Quiet, daemon
  <1>5. UpToDate(h) /\ Rising(h) /\ Only(p, h) BY <1>4, CalmIdle DEF Quiet
  <1>6. LastSets(h)' = LastSets(h) /\ Rising(h)' BY <1>2, <1>5, SameEnd DEF daemon
  <1>7. UpToDate(h)' \/ Due(p, h)'
    <2>1. CASE g = h BY <1>1, <2>1 DEF Due, Targets
    <2>2. CASE g # h
      <3>1. Bundle(h)' = Bundle(h) BY <1>1, <1>2, <2>2, SameBundle
      <3> QED BY <1>5, <1>6, <3>1 DEF UpToDate
    <2> QED BY <2>1, <2>2
  <1>8. Marked(p, h)' /\ ~Serves(p, h)' BY <1>1 DEF Marked, Deletes, Serves, Building
  <1> QED BY <1>2, <1>5, <1>6, <1>7, <1>8, CalmBy

(* The lookup of the hosts a set is bound to.                               *)
LEMMA CalmLookup ==
  ASSUME Tables, NEW h \in Hosts, Quiet(h) => CalmAt(h), NEW p \in Requests, LookupHosts(p), Quiet(h)'
  PROVE  CalmAt(h)'
  <1>1. /\ Moves(p) /\ pc[p] = "lookup" /\ todo'[p] = HostsForSet(job[p].set)
        /\ pc'[p] = IF HostsForSet(job[p].set) = {} THEN "idle" ELSE "push"
    BY HostsLookedUp DEF Tables
  <1>2. UNCHANGED <<tables, daemon, calm>> BY DEF LookupHosts, TxKeeps
  <1>3. CalmAt(h) /\ Busy(p) BY <1>1, <1>2 DEF Quiet, daemon, Busy
  <1>4. Only(p, h) /\ (UpToDate(h) \/ Due(p, h)) /\ Rising(h) BY <1>3, CalmBefore
  <1>5. LastSets(h)' = LastSets(h) /\ Rising(h)' BY <1>2, <1>4, SameEnd DEF daemon
  <1>6. Bundle(h)' = Bundle(h) BY <1>2, SameBundle DEF tables
  <1>7. UpToDate(h)' \/ Due(p, h)'
    <2>1. CASE UpToDate(h) BY <1>5, <1>6, <2>1 DEF UpToDate
    <2>2. CASE Due(p, h)
      <3>1. h \in HostsForSet(job[p].set) BY <1>1, <2>2 DEF Due, Serves, Building, HostsForSet
      <3>2. pc'[p] = "push" /\ h \in todo'[p] BY <1>1, <3>1
      <3> QED BY <3>2 DEF Due, Targets
    <2> QED BY <1>4, <2>1, <2>2
  <1>8. Marked(p, h)' /\ ~Serves(p, h)' BY <1>1 DEF Marked, Deletes, Serves, Building
  <1> QED BY <1>1, <1>4, <1>5, <1>7, <1>8, CalmBy


(* A transaction.                                                           *)
LEMMA CalmCommit ==
  ASSUME Tables, NEW h \in Hosts, Quiet(h) => CalmAt(h), NEW p \in Requests, Committing(p), Quiet(h)'
  PROVE  CalmAt(h)'
  <1> DEFINE s == job[p].set
  <1>0. /\ pc[p] = "tx" /\ job[p] \in Job /\ TxKeeps /\ Moves(p) /\ s \in Sets
        /\ pc'[p] \in {"idle", "lookup", "push"}
        /\ pc'[p] = "lookup" => UNCHANGED <<job, todo>>
    BY Committed, Resolved, Jobs DEF Tables
  <1>1. UNCHANGED <<daemon, calm, build>> BY <1>0 DEF TxKeeps
  <1>2. CalmAt(h) /\ Busy(p) BY <1>0, <1>1 DEF Quiet, daemon, Busy
  <1>3. ~Due(p, h) BY <1>0 DEF Due, Serves, Building
  <1>4. Only(p, h) /\ UpToDate(h) /\ Rising(h) /\ Marked(p, h) BY <1>2, <1>3, CalmBefore
  <1>5. LastSets(h)' = LastSets(h) /\ Rising(h)' BY <1>1, <1>4, SameEnd DEF daemon
  <1>6. ASSUME Bundle(h)' = Bundle(h) PROVE UpToDate(h)'
    BY <1>4, <1>5, <1>6 DEF UpToDate
  <1>7. TableType /\ ProcType BY DEF Tables, Types
  <1>8. UpToDate(h)' \/ Due(p, h)'
    <2>1. CASE NoWrite
      <3>1. Bundle(h)' = Bundle(h) BY <2>1, SameBundle DEF NoWrite, tables
      <3> QED BY <1>6, <3>1
    <2>2. CASE Creating(p)
      <3>1. Creates(p) BY <1>0, <2>2 DEF Creating, Creates
      <3>2. name[s] = Unborn BY <3>1 DEF Tables, Born
      <3>3. <<h, s>> \notin bound BY <1>0, <1>7, <3>2, NameAssumption DEF TableType
      <3>4. \A t \in Sets \ {s} : /\ name'[t] = name[t] /\ updated'[t] = updated[t]
                                  /\ entries'[t] = entries[t]
        BY <1>0, <1>7, <2>2 DEF Creating, Write, TableType
      <3>5. bound' = bound BY <2>2 DEF Creating
      <3>6. Bundle(h)' = Bundle(h) BY <3>3, <3>4, <3>5, SameBundle
      <3> QED BY <1>6, <3>6
    <2>3. CASE Editing(p)
      <3>1. bound' = bound /\ pc'[p] = "lookup" /\ job' = job
        BY <1>0, <1>7, <2>3, LookedUp DEF Editing
      <3>2. CASE <<h, s>> \in bound BY <3>1, <3>2 DEF Due
      <3>3. CASE <<h, s>> \notin bound
        <4>1. \A t \in Sets \ {s} : /\ name'[t] = name[t] /\ updated'[t] = updated[t]
                                    /\ entries'[t] = entries[t]
          BY <1>0, <1>7, <2>3 DEF Editing, Write, TableType
        <4>2. Bundle(h)' = Bundle(h) BY <3>1, <3>3, <4>1, SameBundle
        <4> QED BY <1>6, <4>2
      <3> QED BY <3>2, <3>3
    <2>4. CASE Binding(p)
      <3>1. job[p].host \in Hosts BY <1>0, <2>4, Jobs DEF Binding
      <3>2. /\ bound' = bound \cup {<<job[p].host, s>>} /\ PushTo(p, {job[p].host})
            /\ UNCHANGED <<name, updated, entries>>
        BY <2>4 DEF Binding
      <3>3. pc'[p] = "push" /\ todo'[p] = {job[p].host}
        BY <1>7, <3>1, <3>2, Pushed
      <3>4. CASE job[p].host = h BY <3>3, <3>4 DEF Due, Targets
      <3>5. CASE job[p].host # h
        <4>1. Bundle(h)' = Bundle(h) BY <3>2, <3>5, SameBundle
        <4> QED BY <1>6, <4>1
      <3> QED BY <3>4, <3>5
    <2>5. CASE CommitDelete(p) /\ job[p].op = "delete"
      <3>1. /\ name' = [name EXCEPT ![s] = Deleted]
            /\ entries' = [entries EXCEPT ![s] = NoEntries]
            /\ bound' = bound \ (Hosts \X {s}) /\ UNCHANGED updated
            /\ PushTo(p, todo[p])
        BY <2>5 DEF CommitDelete, Cascade
      <3>2. CASE <<h, s>> \in bound
        <4>1. h \in todo[p] BY <1>0, <1>4, <2>5, <3>2 DEF Marked, Deletes
        <4>2. todo[p] \in SUBSET Hosts BY <1>7 DEF ProcType
        <4>3. pc'[p] = "push" /\ todo'[p] = todo[p] BY <1>7, <3>1, <4>1, <4>2, Pushed
        <4> QED BY <4>1, <4>3 DEF Due, Targets
      <3>3. CASE <<h, s>> \notin bound
        <4>1. \A t \in Sets \ {s} : name'[t] = name[t] /\ entries'[t] = entries[t]
          BY <1>7, <3>1 DEF TableType
        <4>2. Bundle(h)' = Bundle(h) BY <3>1, <3>3, <4>1, SameBundle
        <4> QED BY <1>6, <4>2
      <3> QED BY <3>2, <3>3
    <2> QED BY <2>1, <2>2, <2>3, <2>4, <2>5, Committed DEF Tables
  <1>9. Marked(p, h)' /\ ~Serves(p, h)' BY <1>0 DEF Marked, Deletes, Serves, Building
  <1> QED BY <1>0, <1>4, <1>5, <1>8, <1>9, CalmBy

(* A handler of another host changes nothing for this one.                  *)
LEMMA CalmOther ==
  ASSUME Types, NEW h \in Hosts, CalmAt(h), NEW p \in Procs, p \notin Requests \cup {h}, Moves(p),
         UNCHANGED tables, chan'[h] = chan[h], store'[h] = store[h]
  PROVE  CalmAt(h)'
  <1>1. /\ \A q \in Requests \cup {h} : pc'[q] = pc[q] /\ build'[q] = build[q]
        /\ \A q \in Requests : job'[q] = job[q] /\ todo'[q] = todo[q]
    BY ProcKinds DEF Moves
  <1> QED BY <1>1, CalmKept

(* buildSecretSets' first query.                                            *)
LEMMA CalmBuild ==
  ASSUME Tables, NEW h \in Hosts, Quiet(h) => CalmAt(h), NEW p \in Procs, StartBuild(p), Quiet(h)'
  PROVE  CalmAt(h)'
  <1>0. Types BY DEF Tables
  <1>1. PICK g \in Targets(p) :
            /\ g \in Hosts /\ Moves(p)
            /\ build'[p] = [host |-> g, rows |-> SetsForHost(g), sets |-> {}, seq |-> 0]
            /\ pc'[p] = (IF SetsForHost(g) = {} THEN "number" ELSE "entries")
            /\ p \in Requests => todo'[p] = todo[p] \ {g}
            /\ p \notin Requests => g = p
    BY <1>0, BuildStarts
  <1>2. UNCHANGED <<tables, daemon, calm>> /\ pc[p] = "push" BY DEF StartBuild, PushKeeps
  <1>3. CalmAt(h) /\ Busy(p) BY <1>2 DEF Quiet, daemon, Busy
  <1>4. CASE p \notin Requests \cup {h}
    BY <1>0, <1>1, <1>2, <1>3, <1>4, CalmOther DEF daemon
  <1>5. CASE p \in Requests \cup {h}
    <2>1. Only(p, h) /\ (UpToDate(h) \/ Due(p, h)) /\ Rising(h) BY <1>3, <1>5, CalmBefore
    <2>2. LastSets(h)' = LastSets(h) /\ Rising(h)' BY <1>2, <2>1, SameEnd DEF daemon
    <2>3. Bundle(h)' = Bundle(h) BY <1>2, SameBundle DEF tables
    <2>4. /\ build'[p].host = g /\ build'[p].rows = SetsForHost(g) /\ build'[p].sets = {}
          /\ pc'[p] \in Building /\ pc'[p] \notin {"tx", "send"}
          /\ pc'[p] = "number" => SetsForHost(g) = {}
      BY SMT, <1>1 DEF Building
    <2>5. UpToDate(h)' \/ Due(p, h)'
      <3>1. CASE UpToDate(h) BY <2>2, <2>3, <3>1 DEF UpToDate
      <3>2. CASE Due(p, h)
        <4>1. h \in Targets(p) BY <1>2, <3>2 DEF Due, Serves, Building
        <4>2. CASE g = h BY <2>4, <4>2 DEF Due, Serves
        <4>3. CASE g # h
          <5>1. p \in Requests BY <1>1, <1>5, <4>3
          <5>2. h \in todo'[p] BY <1>1, <4>1, <4>3, <5>1 DEF Targets
          <5> QED BY <2>4, <5>1, <5>2 DEF Due, Left
        <4> QED BY <4>2, <4>3
      <3> QED BY <2>1, <3>1, <3>2
    <2>6. Serves(p, h)' => Faithful(p, h)'
      <3> SUFFICES ASSUME Serves(p, h)' PROVE Faithful(p, h)' OBVIOUS
      <3>1. g = h BY <2>4 DEF Serves
      <3>2. build'[p].sets \cup {Open(row, entries'[row.set]) : row \in build'[p].rows} = Bundle(h)'
        BY <1>2, <2>3, <2>4, <3>1 DEF Bundle, tables
      <3> QED BY <2>4, <3>2 DEF Faithful, Opening
    <2>7. Marked(p, h)' BY <2>4 DEF Marked, Deletes
    <2> QED BY <1>1, <1>5, <2>1, <2>2, <2>5, <2>6, <2>7, CalmBy
  <1> QED BY <1>4, <1>5

(* The entries of one set.                                                  *)
LEMMA CalmRead ==
  ASSUME Tables, NEW h \in Hosts, Quiet(h) => CalmAt(h), NEW p \in Procs, ReadEntries(p), Quiet(h)'
  PROVE  CalmAt(h)'
  <1>0. Types BY DEF Tables
  <1>1. PICK row \in build[p].rows :
            /\ Moves(p) /\ build'[p].rows = build[p].rows \ {row}
            /\ build'[p].sets = build[p].sets \cup {Open(row, entries[row.set])}
            /\ build'[p].host = build[p].host
            /\ pc'[p] = (IF build'[p].rows = {} THEN "number" ELSE "entries")
    BY <1>0, EntriesRead
  <1>2. UNCHANGED <<tables, daemon, calm, todo>> /\ pc[p] = "entries" BY DEF ReadEntries, PushKeeps
  <1>3. CalmAt(h) /\ Busy(p) BY <1>2 DEF Quiet, daemon, Busy
  <1>4. CASE p \notin Requests \cup {h}
    BY <1>0, <1>1, <1>2, <1>3, <1>4, CalmOther DEF daemon
  <1>5. CASE p \in Requests \cup {h}
    <2>1. Only(p, h) /\ (UpToDate(h) \/ Due(p, h)) /\ Rising(h)
          /\ (Serves(p, h) => Faithful(p, h))
      BY <1>3, <1>5, CalmBefore
    <2>2. LastSets(h)' = LastSets(h) /\ Rising(h)' BY <1>2, <2>1, SameEnd DEF daemon
    <2>3. Bundle(h)' = Bundle(h) BY <1>2, SameBundle DEF tables
    <2>4. /\ pc'[p] \in Building /\ pc'[p] \notin {"tx", "send"} /\ pc[p] \in Building
          /\ pc'[p] = "number" => build'[p].rows = {}
      BY <1>1, <1>2 DEF Building
    <2>5. Serves(p, h)' <=> Serves(p, h) BY <1>1, <2>4 DEF Serves
    <2>6. UpToDate(h)' \/ Due(p, h)'
      <3>1. CASE UpToDate(h) BY <2>2, <2>3, <3>1 DEF UpToDate
      <3>2. CASE Due(p, h)
        <4>1. h \in Left(p) \/ Serves(p, h) BY <1>2, <3>2 DEF Due
        <4> QED BY <1>2, <2>4, <2>5, <4>1 DEF Due, Left
      <3> QED BY <2>1, <3>1, <3>2
    <2>7. Serves(p, h)' => Faithful(p, h)'
      <3> SUFFICES ASSUME Serves(p, h)' PROVE Faithful(p, h)' OBVIOUS
      <3>1. build[p].sets \cup Opening(build[p].rows) = Bundle(h) BY <2>1, <2>5 DEF Faithful
      <3> DEFINE R == build[p].rows
                 O(r) == Open(r, entries[r.set])
      <3>2. Opening(R) = {O(r) : r \in R \ {row}} \cup {O(row)}
        BY <1>1 DEF Opening
      <3>3. entries' = entries BY <1>2 DEF tables
      <3>4. (build'[p].sets \cup {Open(r, entries'[r.set]) : r \in build'[p].rows}) = Bundle(h)'
        BY SMT, <1>1, <2>3, <3>1, <3>2, <3>3
      <3> QED BY <2>4, <3>4 DEF Faithful, Opening
    <2>8. Marked(p, h)' BY <2>4 DEF Marked, Deletes
    <2> QED BY <1>1, <1>5, <2>1, <2>2, <2>6, <2>7, <2>8, CalmBy
  <1> QED BY <1>4, <1>5


(* The bundle's number.                                                     *)
LEMMA CalmNumber ==
  ASSUME Tables, Numbered, NEW h \in Hosts, Quiet(h) => CalmAt(h), NEW p \in Procs,
         SecretSetsEnvelope(p), Quiet(h)'
  PROVE  CalmAt(h)'
  <1>0. Types BY DEF Tables
  <1>1. /\ Moves(p) /\ build'[p].rows = build[p].rows /\ build'[p].sets = build[p].sets
        /\ build'[p].host = build[p].host /\ build'[p].seq = setSeq[build[p].host] + 1
        /\ pc'[p] = "send"
    BY <1>0, Enveloped
  <1>2. UNCHANGED <<tables, daemon, calm, todo>> /\ pc[p] = "number"
    BY DEF SecretSetsEnvelope, PushKeeps
  <1>3. CalmAt(h) /\ Busy(p) BY <1>2 DEF Quiet, daemon, Busy
  <1>4. CASE p \notin Requests \cup {h}
    BY <1>0, <1>1, <1>2, <1>3, <1>4, CalmOther DEF daemon
  <1>5. CASE p \in Requests \cup {h}
    <2>1. Only(p, h) /\ (UpToDate(h) \/ Due(p, h)) /\ Rising(h)
          /\ (Serves(p, h) => Faithful(p, h))
      BY <1>3, <1>5, CalmBefore
    <2>2. LastSets(h)' = LastSets(h) /\ Rising(h)' BY <1>2, <2>1, SameEnd DEF daemon
    <2>3. Bundle(h)' = Bundle(h) BY <1>2, SameBundle DEF tables
    <2>4. pc'[p] \in Building /\ pc[p] \in Building BY <1>1, <1>2 DEF Building
    <2>5. Serves(p, h)' <=> Serves(p, h) BY <1>1, <2>4 DEF Serves
    <2>6. UpToDate(h)' \/ Due(p, h)'
      <3>1. CASE UpToDate(h) BY <2>2, <2>3, <3>1 DEF UpToDate
      <3>2. CASE Due(p, h)
        <4>1. h \in Left(p) \/ Serves(p, h) BY <1>2, <3>2 DEF Due
        <4> QED BY <1>2, <2>4, <2>5, <4>1 DEF Due, Left
      <3> QED BY <2>1, <3>1, <3>2
    <2>7. Serves(p, h)' => Faithful(p, h)'
      <3> SUFFICES ASSUME Serves(p, h)' PROVE Faithful(p, h)' OBVIOUS
      <3>1. build[p].sets \cup Opening(build[p].rows) = Bundle(h) /\ build[p].rows = {}
        BY <1>2, <2>1, <2>5 DEF Faithful
      <3>2. build[p].host = h BY <2>5 DEF Serves
      <3>3. (build[p].sets \cup Opening(build[p].rows))' = Bundle(h)'
        BY <1>1, <1>2, <2>3, <3>1 DEF Opening, tables
      <3>4. NumberedHost(h) BY DEF Numbered
      <3>5. build'[p].seq > store'[h].seq
            /\ \A i \in 1..Len(chan'[h]) : build'[p].seq > chan'[h][i].seq
        BY SMT, <1>0, <1>1, <1>2, <3>2, <3>4, Numbers DEF NumberedHost, daemon
      <3> QED BY <1>1, <3>1, <3>3, <3>5 DEF Faithful
    <2>8. Marked(p, h)' BY <1>1 DEF Marked, Deletes
    <2> QED BY <1>1, <1>5, <2>1, <2>2, <2>6, <2>7, <2>8, CalmBy
  <1> QED BY <1>4, <1>5

(* The push.                                                                *)
LEMMA CalmSend ==
  ASSUME Tables, NEW h \in Hosts, Quiet(h) => CalmAt(h), NEW p \in Procs, Send(p), Quiet(h)'
  PROVE  CalmAt(h)'
  <1>0. Types /\ ~Serves(p, h)'
    BY Sent DEF Tables, Serves, Building
  <1>1. /\ build[p].host \in Hosts
        /\ Moves(p) /\ pc'[p] \in {"idle", "push"}
        /\ p \in Requests => /\ todo'[p] = todo[p]
                             /\ pc'[p] = IF todo[p] = {} THEN "idle" ELSE "push"
    BY <1>0, Sent
  <1>2. UNCHANGED <<tables, link, store>> /\ pc[p] = "send" BY DEF Send, PushKeeps
  <1> DEFINE g == build[p].host
             e == [seq |-> build[p].seq, sets |-> build[p].sets]
  <1>3. /\ \A f \in Hosts \ {g} : chan'[f] = chan[f]
        /\ \/ /\ calm'[g] = FALSE /\ \A f \in Hosts \ {g} : calm'[f] = calm[f]
           \/ /\ UNCHANGED calm /\ Len(chan[g]) \in Nat
              /\ Len(chan'[g]) = Len(chan[g]) + 1
              /\ chan'[g][Len(chan'[g])] = e
              /\ \A i \in 1..Len(chan[g]) : chan'[g][i] = chan[g][i]
    BY <1>0, Appended
  <1>4. e.seq = build[p].seq /\ e.sets = build[p].sets OBVIOUS
  <1> HIDE DEF e
  <1>5. CalmAt(h) /\ Busy(p) BY <1>2, <1>3 DEF Quiet, Busy
  <1>6. p \notin Requests => g = p
    BY <1>0, <1>2, ProcKinds DEF Types, Busied, Building
  <1>7. CASE p \notin Requests \cup {h}
    BY <1>0, <1>1, <1>2, <1>3, <1>5, <1>6, <1>7, CalmOther
  <1>8. CASE p \in Requests \cup {h}
    <2>1. Only(p, h) /\ (UpToDate(h) \/ Due(p, h)) /\ Rising(h)
          /\ (Serves(p, h) => Faithful(p, h))
      BY <1>5, <1>8, CalmBefore
    <2>2. Bundle(h)' = Bundle(h) BY <1>2, SameBundle DEF tables
    <2>3. Marked(p, h)' BY <1>1 DEF Marked, Deletes
    <2>4. CASE g # h
      <3>1. chan'[h] = chan[h] /\ store'[h] = store[h] BY <1>2, <1>3, <2>4
      <3>2. LastSets(h)' = LastSets(h) /\ Rising(h)' BY <2>1, <3>1, SameEnd
      <3>3. UpToDate(h)' \/ Due(p, h)'
        <4>1. CASE UpToDate(h) BY <2>2, <3>2, <4>1 DEF UpToDate
        <4>2. CASE Due(p, h)
          <5>1. h \in Left(p) BY <1>2, <2>4, <4>2 DEF Due, Serves
          <5>2. p \in Requests /\ h \in todo[p] BY <5>1 DEF Left
          <5> QED BY <1>1, <5>2 DEF Due, Targets
        <4> QED BY <2>1, <4>1, <4>2
      <3> QED BY <1>0, <1>1, <1>8, <2>1, <2>3, <3>2, <3>3, CalmBy
    <2>5. CASE g = h
      <3>1. /\ Len(chan[h]) \in Nat /\ Len(chan'[h]) = Len(chan[h]) + 1
            /\ chan'[h][Len(chan'[h])] = e
            /\ \A i \in 1..Len(chan[h]) : chan'[h][i] = chan[h][i]
        BY <1>3, <2>5 DEF Quiet
      <3>2. Serves(p, h) /\ Faithful(p, h) BY <1>2, <2>1, <2>5 DEF Serves, Building
      <3>3. build[p].rows = {} /\ build[p].sets \cup Opening(build[p].rows) = Bundle(h)
            /\ build[p].seq > store[h].seq
            /\ \A i \in 1..Len(chan[h]) : build[p].seq > chan[h][i].seq
        BY <1>2, <3>2 DEF Faithful
      <3>4. Opening({}) = {} BY DEF Opening
      <3>5. e.sets = Bundle(h) BY <1>4, <3>3, <3>4
      <3>6. chan'[h] # <<>>
        <4>1. Len(chan'[h]) # 0 BY SMT, <3>1
        <4> QED BY SMT, <4>1
      <3>7. UpToDate(h)' BY <2>2, <3>1, <3>5, <3>6 DEF UpToDate, LastSets
      <3>8. \A i \in 1..Len(chan'[h]) : i \in 1..Len(chan[h]) \/ i = Len(chan'[h])
        BY SMT, <3>1
      <3>9. Rising(h)'
        <4> SUFFICES ASSUME NEW i \in 1..Len(chan'[h])
                     PROVE  /\ chan'[h][i].seq > store'[h].seq
                            /\ \A j \in 1..Len(chan'[h]) : j < i => chan'[h][j].seq < chan'[h][i].seq
          BY DEF Rising
        <4>1. store'[h] = store[h] BY <1>2
        <4>2. CASE i \in 1..Len(chan[h])
          <5>1. \A j \in 1..Len(chan'[h]) : j < i => j \in 1..Len(chan[h]) BY SMT, <3>1, <4>2
          <5> QED BY <2>1, <3>1, <4>1, <4>2, <5>1 DEF Rising
        <4>3. CASE i = Len(chan'[h])
          <5>1. \A j \in 1..Len(chan'[h]) : j < i => j \in 1..Len(chan[h]) BY SMT, <3>1, <4>3
          <5>2. chan'[h][i].seq = build[p].seq BY <1>4, <3>1, <4>3
          <5>3. \A j \in 1..Len(chan[h]) : chan'[h][j].seq < build[p].seq
            BY <1>0, <1>1, <1>2, <3>1, <3>3, Numbers DEF Building
          <5> QED BY <3>3, <4>1, <5>1, <5>2, <5>3
        <4> QED BY <3>8, <4>2, <4>3
      <3> QED BY <1>0, <1>1, <1>8, <2>1, <2>3, <3>7, <3>9, CalmBy
    <2> QED BY <2>4, <2>5
  <1> QED BY <1>7, <1>8

(* A connection that begins.                                                *)
LEMMA CalmConnect ==
  ASSUME Tables, Numbered, NEW h \in Hosts, Quiet(h) => CalmAt(h), NEW g \in Hosts, Connect(g), Quiet(h)'
  PROVE  CalmAt(h)'
  <1>0. Types /\ LinkType BY DEF Tables, Types
  <1>1. Moves(g) /\ pc'[g] = "push" /\ UNCHANGED <<tables, chan, store>>
    BY <1>0, Connected DEF Connect, LinkKeeps
  <1>2. /\ link' = [link EXCEPT ![g] = TRUE] /\ ~link[g]
        /\ calm' = [calm EXCEPT ![g] = \A p \in Requests : ~Busy(p)]
    BY DEF Connect
  <1>3. CASE g # h
    <2>1. Quiet(h) BY <1>0, <1>2, <1>3 DEF Quiet, LinkType
    <2>2. g \in Procs /\ g \notin Requests \cup {h} BY <1>3, ProcKinds
    <2> QED BY <1>0, <1>1, <2>1, <2>2, CalmOther
  <1>4. CASE g = h
    <2>1. \A p \in Requests : ~Busy(p) BY <1>0, <1>2, <1>4 DEF Quiet, LinkType
    <2>2. Only(h, h) BY <2>1 DEF Only, Busy
    <2>3. Len(chan'[h]) = 0 BY SMT, <1>1, <1>2, <1>4 DEF Numbered, NumberedHost
    <2>4. Rising(h)' BY SMT, <2>3 DEF Rising
    <2>5. Due(h, h)' /\ ~Serves(h, h)'
      BY <1>1, <1>4, ProcKinds DEF Due, Targets, Serves, Building
    <2> QED BY <1>1, <1>4, <2>2, <2>4, <2>5, ProcKinds, CalmBy
  <1> QED BY <1>3, <1>4

(* A daemon that reads an envelope.                                         *)
LEMMA CalmDispatch ==
  ASSUME Tables, NEW h \in Hosts, Quiet(h) => CalmAt(h), NEW g \in Hosts, Dispatch(g), Quiet(h)'
  PROVE  CalmAt(h)'
  <1>0. Types /\ LinkType BY DEF Tables, Types
  <1>1. UNCHANGED <<tables, pc, build, link, calm, job, todo>>
    BY DEF Dispatch, LinkKeeps
  <1>2. CalmAt(h) BY <1>1 DEF Quiet
  <1>3. /\ Len(chan[g]) > 0 /\ Len(chan'[g]) = Len(chan[g]) - 1
        /\ \A i \in 1..Len(chan'[g]) : chan'[g][i] = chan[g][i + 1]
        /\ \A f \in Hosts \ {g} : chan'[f] = chan[f] /\ store'[f] = store[f]
        /\ store'[g] = IF chan[g][1].seq > store[g].seq
                         THEN [ready |-> TRUE, seq |-> chan[g][1].seq, sets |-> chan[g][1].sets]
                         ELSE store[g]
        /\ chan'[g] \in Seq(Envelope)
    BY <1>0, Dispatched
  <1>4. CASE g # h BY <1>0, <1>1, <1>2, <1>3, <1>4, CalmKept
  <1>5. CASE g = h
    <2> DEFINE n == Len(chan[h])
    <2>0. n \in Nat /\ n > 0 /\ 1 \in 1..n /\ n \in 1..n /\ store[h].seq \in Nat
          /\ \A i \in 1..n : chan[h][i].seq \in Nat
      BY SMT, <1>0, <1>3, <1>5, Numbers
    <2>1. Rising(h) BY <1>2 DEF CalmAt
    <2>2. chan[h][1].seq > store[h].seq BY <2>0, <2>1 DEF Rising
    <2>3. store'[h].seq = chan[h][1].seq /\ store'[h].sets = chan[h][1].sets
      BY SMT, <1>3, <1>5, <2>2
    <2>4. /\ Len(chan'[h]) = n - 1
          /\ \A i \in 1..(n - 1) : chan'[h][i] = chan[h][i + 1] /\ i + 1 \in 1..n
      BY SMT, <1>3, <1>5, <2>0
    <2>5. Rising(h)'
      <3> SUFFICES ASSUME NEW i \in 1..(n - 1)
                   PROVE  /\ chan'[h][i].seq > store'[h].seq
                          /\ \A j \in 1..(n - 1) : j < i => chan'[h][j].seq < chan'[h][i].seq
        BY <2>4 DEF Rising
      <3>1. i + 1 \in 1..n /\ 1 < i + 1 /\ chan'[h][i] = chan[h][i + 1] BY SMT, <2>0, <2>4
      <3>2. chan[h][1].seq < chan[h][i + 1].seq BY <2>0, <2>1, <3>1 DEF Rising
      <3>3. ASSUME NEW j \in 1..(n - 1), j < i PROVE chan'[h][j].seq < chan'[h][i].seq
        <4>1. j + 1 \in 1..n /\ j + 1 < i + 1 /\ chan'[h][j] = chan[h][j + 1]
          BY SMT, <2>0, <2>4, <3>3
        <4> QED BY <2>1, <3>1, <4>1 DEF Rising
      <3> QED BY <2>0, <2>3, <3>1, <3>2, <3>3
    <2>6. LastSets(h)' = LastSets(h)
      <3>0. chan[h] # <<>> BY SMT, <2>0
      <3>1. CASE n = 1
        <4>1. chan'[h] = <<>> BY SMT, <1>3, <1>5, <2>4, <3>1
        <4> QED BY <2>3, <3>0, <3>1, <4>1 DEF LastSets
      <3>2. CASE n # 1
        <4>0. \A m \in Nat : m > 0 /\ m # 1 => m - 1 \in 1..(m - 1) /\ (m - 1) + 1 = m
          BY SMT
        <4>1. n - 1 \in 1..(n - 1) /\ (n - 1) + 1 = n
          <5> HIDE DEF n
          <5> QED BY <2>0, <3>2, <4>0
        <4>2. chan'[h][n - 1] = chan[h][n] BY <2>4, <4>1
        <4>3. Len(chan'[h]) # 0 BY SMT, <2>0, <2>4, <3>2
        <4>4. chan'[h] # <<>> BY SMT, <4>3
        <4> QED BY <2>4, <3>0, <4>2, <4>4 DEF LastSets
      <3> QED BY <3>1, <3>2
    <2>7. Bundle(h)' = Bundle(h) BY <1>1, SameBundle DEF tables
    <2>8. UpToDate(h)' <=> UpToDate(h) BY <2>6, <2>7 DEF UpToDate
    <2>9. \A p \in Requests \cup {h} : /\ Busy(p)' <=> Busy(p)
                                       /\ Serves(p, h)' <=> Serves(p, h)
                                       /\ Due(p, h)' <=> Due(p, h)
      BY <1>1 DEF Busy, Serves, Due, Targets, Left, tables
    <2>10. \A p \in Requests : Marked(p, h)' <=> Marked(p, h)
      BY <1>1 DEF Marked, Deletes, tables
    <2>11. ASSUME NEW p \in Requests \cup {h}, Serves(p, h), Faithful(p, h)
           PROVE  Faithful(p, h)'
      <3>1. (build[p].sets \cup Opening(build[p].rows))' = Bundle(h)'
        BY <1>1, <2>7, <2>11 DEF Faithful, Opening, tables
      <3>2. (pc[p] \in {"number", "send"} => build[p].rows = {})'
        BY <1>1, <2>11 DEF Faithful
      <3>3. (pc[p] = "send" => /\ build[p].seq > store[h].seq
                               /\ \A i \in 1..Len(chan[h]) : build[p].seq > chan[h][i].seq)'
        BY <1>1, <2>0, <2>3, <2>4, <2>11 DEF Faithful
      <3> QED BY <3>1, <3>2, <3>3 DEF Faithful
    <2> QED BY <1>2, <2>5, <2>8, <2>9, <2>10, <2>11 DEF CalmAt
  <1> QED BY <1>4, <1>5

(* Every step keeps a calm connection so.                                   *)
LEMMA CalmStep ==
  ASSUME Tables, Numbered, Calm, [Next]_vars
  PROVE  Calm'
  <1> SUFFICES ASSUME NEW h \in Hosts, Quiet(h)' PROVE CalmAt(h)'
    BY DEF Calm
  <1>0. Types /\ LinkType /\ (Quiet(h) => CalmAt(h)) BY DEF Tables, Types, Calm
  <1>1. ASSUME UNCHANGED <<tables, pc, build, link, chan, store, calm, job, todo>> PROVE CalmAt(h)'
    <2>1. CalmAt(h) BY <1>0, <1>1 DEF Quiet
    <2> QED BY <1>0, <1>1, <2>1, CalmKept
  <1>2. ASSUME NEW p \in Requests,
               Starting(p) \/ Committing(p) \/ UnbindSet(p) \/ LookupHosts(p)
        PROVE  CalmAt(h)'
    BY <1>0, <1>2, CalmStarting, CalmCommit, CalmUnbind, CalmLookup
  <1>3. ASSUME NEW p \in Procs, \/ StartBuild(p) \/ ReadEntries(p)
                                \/ SecretSetsEnvelope(p) \/ Send(p)
        PROVE  CalmAt(h)'
    BY <1>0, <1>3, CalmBuild, CalmRead, CalmNumber, CalmSend
  <1>4. ASSUME NEW p \in Procs, Fail(p) PROVE CalmAt(h)'
    <2>1. calm'[h] = (calm[h] /\ p \in Hosts \ {h}) /\ UNCHANGED <<tables, daemon>>
      BY <1>4 DEF Fail
    <2>2. Quiet(h) /\ p \notin Requests \cup {h}
      BY <2>1, ProcKinds DEF Quiet, daemon
    <2>3. Moves(p) BY <1>0, <1>4, Failed
    <2> QED BY <1>0, <2>1, <2>2, <2>3, CalmOther DEF daemon
  <1>5. ASSUME NEW g \in Hosts, Connect(g) \/ Dispatch(g) PROVE CalmAt(h)'
    BY <1>0, <1>5, CalmConnect, CalmDispatch
  <1>6. ASSUME NEW g \in Hosts, Drop(g) \/ Restart(g) PROVE CalmAt(h)'
    <2>1. /\ Moves(g) /\ link'[g] = FALSE
          /\ \A f \in Hosts \ {g} : link'[f] = link[f] /\ chan'[f] = chan[f]
      BY <1>0, <1>6, Disconnected DEF Drop, Restart, LinkKeeps
    <2>2. g # h BY <2>1 DEF Quiet
    <2>3. UNCHANGED <<tables, calm>> BY <1>6 DEF Drop, Restart, LinkKeeps
    <2>4. store'[h] = store[h] BY <1>0, <1>6, <2>2 DEF Drop, Restart, LinkType
    <2>5. Quiet(h) BY <2>1, <2>2, <2>3 DEF Quiet
    <2>6. g \in Procs /\ g \notin Requests \cup {h} BY <2>2, ProcKinds
    <2> QED BY <1>0, <2>1, <2>2, <2>3, <2>4, <2>5, <2>6, CalmOther
  <1>7. ASSUME NEW g \in Hosts, HandleSecret(g) \/ ReadyReply(g) PROVE CalmAt(h)'
    BY <1>1, <1>7 DEF HandleSecret, ReadyReply, ExecKeeps
  <1>8. CASE UNCHANGED vars BY <1>1, <1>8 DEF vars, daemon
  <1> QED BY <1>2, <1>3, <1>4, <1>5, <1>6, <1>7, <1>8, Steps

(* A connected daemon whose channel is empty holds exactly what the tables  *)
(* say for its host, however the bundles before its connection were lost or *)
(* overtaken, provided that since then no two handlers overlapped, no query *)
(* failed and no envelope was dropped.                                      *)
THEOREM BundlesReconcile == Spec => []Reconciled
  <1> DEFINE I == Tables /\ Numbered /\ Calm
  <1>1. Init => I
    <2> SUFFICES ASSUME Init PROVE I OBVIOUS
    <2>1. Numbered
      BY SMT DEF Init, Numbered, NumberedHost, NumberedBuilds, NewSecretStore
    <2>2. Calm BY DEF Init, Calm, Quiet
    <2> QED BY <2>1, <2>2, TablesInit
  <1>2. I /\ [Next]_vars => I'
    <2> SUFFICES ASSUME I, [Next]_vars PROVE I' OBVIOUS
    <2>1. Numbered' BY NumberedStep DEF Tables
    <2> QED BY <2>1, TablesStep, CalmStep
  <1>3. I => Reconciled
    <2> SUFFICES ASSUME I, NEW h \in Hosts, link[h], calm[h], chan[h] = <<>>,
                        \A p \in Requests \cup {h} : ~Busy(p)
                 PROVE  store[h].sets = Bundle(h)
      BY DEF Reconciled
    <2>1. CalmAt(h) BY DEF Calm, Quiet
    <2>2. UpToDate(h) BY <2>1, CalmIdle
    <2> QED BY <2>2 DEF UpToDate, LastSets
  <1> QED BY <1>1, <1>2, <1>3, PTL DEF Spec
=============================================================================
