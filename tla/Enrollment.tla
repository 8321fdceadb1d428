----------------------------- MODULE Enrollment -----------------------------
(***************************************************************************)
(* Enrolling a machine: the admin's token, `custosd enroll` on the box,    *)
(* the control plane's transaction, the three files the box then writes,   *)
(* and what the daemon started from those files can do.                    *)
(*                                                                         *)
(* An attempt is one run of `custosd enroll`.  It generates one identity   *)
(* key, one encryption key and at most one host row, so the attempt itself *)
(* stands for all three.  Nothing keeps a second command, or an uninstall  *)
(* that removes the files, from running beside it.  The control plane      *)
(* serves any number of requests at once, statement by statement, at READ  *)
(* COMMITTED.                                                              *)
(***************************************************************************)
EXTENDS Naturals, Sequences

CONSTANTS
    Machines,    \* boxes, each with its own machine id
    Tokens,      \* enrollment tokens
    Attempts,    \* runs of `custosd enroll`, and the hosts they create
    None,        \* no host, no key, no box, no token
    MaxSeq,      \* bound: snapshots numbered per host
    MaxStops     \* bound: daemon stops per box

ASSUME EnrollmentAssumption ==
    /\ None \notin Machines \cup Tokens \cup Attempts
    /\ MaxSeq \in Nat /\ MaxStops \in Nat

VARIABLES
    token,       \* enrollment_tokens: none, open, used or expired
    status,      \* hosts.status, or "none" before the row exists
    seq,         \* hosts.last_seq
    box,         \* the machine an attempt runs on (hosts.machine_id)
    paper,       \* the token an attempt presents
    prior,       \* the host id in config.json when the attempt began
    client,      \* where the enroll command is
    saved,       \* how many of its files it has written
    server,      \* where the control plane's transaction is
    disk,        \* identity.key, encryption.key and config.json of each box
    daemon,      \* the config and the identity the running daemon has loaded
    mem,         \* its cache: the last applied number and whose entries it holds
    cache,       \* cache.json, likewise
    link,        \* boxes whose daemon is connected and has had its snapshot
    stops,
    purging,     \* boxes where os.RemoveAll is at work
    stragglers,  \* history: for each host, the commands of its box that were accepted
                 \* before it and still at work when its row was created
    swept,       \* history: commands that a purge of their box ran beside or after
    found        \* history: the number the daemon held when it connected

rows == <<token, status>>
command == <<box, paper, prior, client, saved>>
process == <<daemon, mem, link, found>>
agent == <<process, cache, stops, seq>>
removal == <<purging, swept>>
vars == <<rows, command, server, disk, agent, removal, stragglers>>

File == {"identity", "encryption", "config"}
Blank == [f \in File |-> None]
Off == [config |-> None, identity |-> None]
Empty == [seq |-> 0, from |-> None]

Busy == {"wait", "save"}
Running == {"token", "machine", "prior", "create"}

TypeOK ==
    /\ token \in [Tokens -> {"none", "open", "used", "expired"}]
    /\ status \in [Attempts -> {"none", "active", "revoked"}]
    /\ seq \in [Attempts -> 0..MaxSeq]
    /\ box \in [Attempts -> Machines \cup {None}]
    /\ paper \in [Attempts -> Tokens \cup {None}]
    /\ prior \in [Attempts -> Attempts \cup {None}]
    /\ client \in [Attempts -> {"idle", "done", "failed"} \cup Busy]
    /\ saved \in [Attempts -> 0..3]
    /\ \A a \in Attempts : client[a] = "save" => saved[a] < 3
    /\ server \in [Attempts -> {"idle", "accepted", "rejected"} \cup Running]
    /\ disk \in [Machines -> [File -> Attempts \cup {None}]]
    /\ daemon \in [Machines -> [config : Attempts \cup {None},
                                identity : Attempts \cup {None}]]
    /\ link \in SUBSET Machines
    /\ mem \in [Machines -> [seq : 0..MaxSeq, from : Attempts \cup {None}]]
    /\ cache \in [Machines -> [seq : 0..MaxSeq, from : Attempts \cup {None}]]
    /\ stops \in [Machines -> 0..MaxStops]
    /\ purging \in SUBSET Machines
    /\ stragglers \in [Attempts -> SUBSET Attempts]
    /\ swept \in SUBSET Attempts
    /\ found \in [Machines -> 0..MaxSeq]

Init ==
    /\ token = [t \in Tokens |-> "none"]
    /\ status = [a \in Attempts |-> "none"] /\ seq = [a \in Attempts |-> 0]
    /\ box = [a \in Attempts |-> None] /\ paper = [a \in Attempts |-> None]
    /\ prior = [a \in Attempts |-> None]
    /\ client = [a \in Attempts |-> "idle"] /\ saved = [a \in Attempts |-> 0]
    /\ server = [a \in Attempts |-> "idle"]
    /\ disk = [m \in Machines |-> Blank]
    /\ daemon = [m \in Machines |-> Off] /\ link = {}
    /\ mem = [m \in Machines |-> Empty] /\ cache = [m \in Machines |-> Empty]
    /\ stops = [m \in Machines |-> 0]
    /\ purging = {} /\ swept = {}
    /\ stragglers = [a \in Attempts |-> {}]
    /\ found = [m \in Machines |-> 0]

-----------------------------------------------------------------------------
(* Tokens.                                                                  *)
CreateEnrollToken(t) ==
    /\ token[t] = "none"
    /\ token' = [token EXCEPT ![t] = "open"]
    /\ UNCHANGED <<status, command, server, disk, agent, removal, stragglers>>

Expire(t) ==
    /\ token[t] = "open"
    /\ token' = [token EXCEPT ![t] = "expired"]
    /\ UNCHANGED <<status, command, server, disk, agent, removal, stragglers>>

-----------------------------------------------------------------------------
(* The enroll command posts fresh keys and the host id of an earlier        *)
(* enrollment, if config.json has one.                                      *)
Enroll(a, m, t) ==
    /\ client[a] = "idle"
    /\ token[t] # "none"
    /\ box' = [box EXCEPT ![a] = m]
    /\ paper' = [paper EXCEPT ![a] = t]
    /\ prior' = [prior EXCEPT ![a] = disk[m]["config"]]
    /\ client' = [client EXCEPT ![a] = "wait"]
    /\ server' = [server EXCEPT ![a] = "token"]
    /\ swept' = swept \cup {b \in {a} : m \in purging}
    /\ UNCHANGED <<rows, saved, disk, agent, purging, stragglers>>

(* postEnroll returns the control plane's answer ...                        *)
AnyAnswer(a) ==
    /\ client[a] = "wait" /\ server[a] \in {"accepted", "rejected"}
    /\ client' = [client EXCEPT ![a] = "save"]
    /\ UNCHANGED <<rows, box, paper, prior, saved, server, disk, agent, removal, stragglers>>

PostEnroll(a) ==
    /\ client[a] = "wait"
    /\ \/ server[a] = "accepted" /\ client' = [client EXCEPT ![a] = "save"]
       \/ server[a] = "rejected" /\ client' = [client EXCEPT ![a] = "failed"]
    /\ UNCHANGED <<rows, box, paper, prior, saved, server, disk, agent, removal, stragglers>>

(* ... unless the answer is lost, the client's 30 seconds pass, a write     *)
(* fails or the command is killed.  The control plane may still be at work. *)
GiveUp(a) ==
    /\ client[a] \in Busy
    /\ client' = [client EXCEPT ![a] = "failed"]
    /\ UNCHANGED <<rows, box, paper, prior, saved, server, disk, agent, removal, stragglers>>

(* The files in the order Enroll writes them, each replaced by a rename.    *)
ConfigFirst == <<"config", "identity", "encryption">>

SaveOrder == <<"identity", "encryption", "config">>

SaveAgain(a) ==
    /\ client[a] = "save"
    /\ disk' = [disk EXCEPT ![box[a]] = [@ EXCEPT ![SaveOrder[saved[a] + 1]] = a]]
    /\ saved' = [saved EXCEPT ![a] = @ + 1]
    /\ UNCHANGED <<rows, box, paper, prior, client, server, agent, removal, stragglers>>

Save(a) ==
    /\ client[a] = "save"
    /\ disk' = [disk EXCEPT ![box[a]] = [@ EXCEPT ![SaveOrder[saved[a] + 1]] = a]]
    /\ saved' = [saved EXCEPT ![a] = @ + 1]
    /\ client' = [client EXCEPT ![a] = IF saved[a] = 2 THEN "done" ELSE @]
    /\ UNCHANGED <<rows, box, paper, prior, server, agent, removal, stragglers>>

-----------------------------------------------------------------------------
(* The control plane's transaction.                                         *)
Answer(a, next) == server' = [server EXCEPT ![a] = next]

GetActiveHostByMachineID(m) == {b \in Attempts : status[b] = "active" /\ box[b] = m}

GetEnrollmentToken(a) ==
    /\ server[a] = "token"
    /\ Answer(a, IF token[paper[a]] = "open" THEN "machine" ELSE "rejected")
    /\ UNCHANGED <<rows, command, disk, agent, removal, stragglers>>

CheckMachine(a) ==
    /\ server[a] = "machine"
    /\ Answer(a, IF GetActiveHostByMachineID(box[a]) = {} THEN "prior" ELSE "rejected")
    /\ UNCHANGED <<rows, command, disk, agent, removal, stragglers>>

CheckPrior(a) ==
    /\ server[a] = "prior"
    /\ Answer(a, IF prior[a] # None /\ status[prior[a]] = "active"
                 THEN "rejected" ELSE "create")
    /\ UNCHANGED <<rows, command, disk, agent, removal, stragglers>>

(* The partial unique index hosts_machine_id_active, which an insert waits  *)
(* on while a conflicting transaction is open.                              *)
NoIndex(m) == TRUE

MachineIDFree(m) == GetActiveHostByMachineID(m) = {}

(* The box's commands that were accepted and have still files to write.     *)
AtWork(m) ==
    {b \in Attempts : box[b] = m /\ server[b] = "accepted" /\ client[b] \in Busy}

(* CreateHost, MarkTokenUsed and the commit.  The update of the token names *)
(* its id only.                                                             *)
CreateHost(a) ==
    /\ server[a] = "create"
    /\ IF MachineIDFree(box[a])
       THEN /\ status' = [status EXCEPT ![a] = "active"]
            /\ token' = [token EXCEPT ![paper[a]] = "used"]
            /\ Answer(a, "accepted")
            /\ stragglers' = [stragglers EXCEPT ![a] = AtWork(box[a])]
       ELSE Answer(a, "rejected") /\ UNCHANGED <<rows, stragglers>>
    /\ UNCHANGED <<command, disk, agent, removal>>

(* An error of the database, or a context cancelled with the request.       *)
Rollback(a) ==
    /\ server[a] \in Running
    /\ Answer(a, "rejected")
    /\ UNCHANGED <<rows, command, disk, agent, removal, stragglers>>

-----------------------------------------------------------------------------
(* The daemon.  `custosd run` refuses to start without an identity; it      *)
(* reads config.json, then identity.key, without which it gives up, then    *)
(* the cache.                                                               *)
LoadConfig(m) ==
    /\ daemon[m] = Off
    /\ disk[m]["identity"] # None /\ disk[m]["config"] # None
    /\ daemon' = [daemon EXCEPT ![m] = [@ EXCEPT !.config = disk[m]["config"]]]
    /\ UNCHANGED <<rows, command, server, disk, mem, link, found, cache, stops, seq, removal,
                   stragglers>>

LoadIdentity(m) ==
    /\ daemon[m].config # None /\ daemon[m].identity = None
    /\ IF disk[m]["identity"] = None
       THEN daemon' = [daemon EXCEPT ![m] = Off] /\ UNCHANGED mem
       ELSE /\ daemon' = [daemon EXCEPT ![m] = [@ EXCEPT !.identity = disk[m]["identity"]]]
            /\ mem' = [mem EXCEPT ![m] = cache[m]]
    /\ UNCHANGED <<rows, command, server, disk, link, found, cache, stops, seq, removal,
                   stragglers>>

Ended(m) ==
    /\ daemon' = [daemon EXCEPT ![m] = Off] /\ mem' = [mem EXCEPT ![m] = Empty]
    /\ link' = link \ {m} /\ found' = [found EXCEPT ![m] = 0]

Stop(m) ==
    /\ daemon[m] # Off /\ stops[m] < MaxStops
    /\ stops' = [stops EXCEPT ![m] = @ + 1]
    /\ Ended(m)
    /\ UNCHANGED <<rows, command, server, disk, cache, seq, removal, stragglers>>

(* A snapshot numbered for host h reaches the daemon of m, whose dispatch   *)
(* applies it only if the number is above the last one applied, and writes  *)
(* cache.json when it does.                                                 *)
DeliverGap(m, h, from) ==
    LET next == [seq |-> seq[h] + 1, from |-> from] IN
    /\ seq[h] < MaxSeq
    /\ seq' = [seq EXCEPT ![h] = next.seq]
    /\ IF next.seq > mem[m].seq + 1
       THEN mem' = [mem EXCEPT ![m] = next] /\ cache' = [cache EXCEPT ![m] = next]
       ELSE UNCHANGED <<mem, cache>>

Deliver(m, h, from) ==
    LET next == [seq |-> seq[h] + 1, from |-> from] IN
    /\ seq[h] < MaxSeq
    /\ seq' = [seq EXCEPT ![h] = next.seq]
    /\ IF next.seq > mem[m].seq
       THEN mem' = [mem EXCEPT ![m] = next] /\ cache' = [cache EXCEPT ![m] = next]
       ELSE UNCHANGED <<mem, cache>>

(* What authenticateDaemon asks of the host row.                            *)
Accepts(m) ==
    /\ status[daemon[m].config] = "active"
    /\ daemon[m].identity = daemon[m].config

Connect(m) ==
    /\ daemon[m].identity # None /\ m \notin link /\ Accepts(m)
    /\ Deliver(m, daemon[m].config, daemon[m].config)
    /\ link' = link \cup {m} /\ found' = [found EXCEPT ![m] = mem[m].seq]
    /\ UNCHANGED <<rows, command, server, disk, daemon, stops, removal, stragglers>>

(* A push of the whole set, after a change of grants or on request.         *)
Refresh(m) ==
    /\ m \in link
    /\ Deliver(m, daemon[m].config, daemon[m].config)
    /\ UNCHANGED <<rows, command, server, disk, daemon, link, found, stops, removal, stragglers>>

(* A rejected daemon empties its cache and keeps the number.                *)
Reject(m) ==
    /\ daemon[m].identity # None /\ m \notin link /\ ~Accepts(m)
    /\ mem' = [mem EXCEPT ![m] = [@ EXCEPT !.from = None]]
    /\ cache' = [cache EXCEPT ![m] = mem'[m]]
    /\ UNCHANGED <<rows, command, server, disk, daemon, link, found, stops, seq, removal,
                   stragglers>>

-----------------------------------------------------------------------------
(* revokeHost: the status, then an empty snapshot to a live daemon, then    *)
(* the socket is closed.  The empty snapshot may be lost with the link.     *)
RevokeHost(h) ==
    LET on == {m \in link : daemon[m].config = h} IN
    /\ status' = [status EXCEPT ![h] = "revoked"]
    /\ link' = link \ on /\ found' = [m \in Machines |-> IF m \in on THEN 0 ELSE found[m]]
    /\ \/ \E m \in on : Deliver(m, h, None)
       \/ UNCHANGED <<seq, mem, cache>>
    /\ UNCHANGED <<token, command, server, disk, daemon, stops, removal, stragglers>>

HandleRevokeHost(h) == status[h] # "none" /\ RevokeHost(h)

(* `custosd uninstall` asks with a signature made from the files on disk.   *)
Decommission(m) ==
    LET d == disk[m] IN
    /\ d["config"] # None /\ d["identity"] = d["config"]
    /\ status[d["config"]] = "active"
    /\ RevokeHost(d["config"])

(* `uninstall --purge` stops the service, or warns that it could not, and   *)
(* removes the state directory ...                                          *)
Purge(m) ==
    /\ m \notin purging
    /\ purging' = purging \cup {m}
    /\ swept' = swept \cup {a \in Attempts : box[a] = m}
    /\ Ended(m) \/ UNCHANGED process
    /\ UNCHANGED <<rows, command, server, disk, cache, stops, seq, stragglers>>

(* ... one file at a time, in no order the code chooses ...                 *)
RemoveFile(m) ==
    /\ m \in purging
    /\ \/ \E f \in {f \in File : disk[m][f] # None} :
            disk' = [disk EXCEPT ![m] = [@ EXCEPT ![f] = None]] /\ UNCHANGED cache
       \/ /\ cache[m] # Empty
          /\ cache' = [cache EXCEPT ![m] = Empty] /\ UNCHANGED disk
    /\ UNCHANGED <<rows, command, server, process, stops, seq, removal, stragglers>>

(* ... until all are gone, one cannot be removed or the command is killed.  *)
PurgeEnds(m) ==
    /\ m \in purging
    /\ purging' = purging \ {m}
    /\ UNCHANGED <<rows, command, server, disk, agent, swept, stragglers>>

Next ==
    \/ \E t \in Tokens : CreateEnrollToken(t) \/ Expire(t)
    \/ \E a \in Attempts, m \in Machines, t \in Tokens : Enroll(a, m, t)
    \/ \E a \in Attempts :
        \/ PostEnroll(a) \/ GiveUp(a) \/ Save(a)
        \/ GetEnrollmentToken(a) \/ CheckMachine(a) \/ CheckPrior(a)
        \/ CreateHost(a) \/ Rollback(a) \/ HandleRevokeHost(a)
    \/ \E m \in Machines :
        \/ LoadConfig(m) \/ LoadIdentity(m) \/ Stop(m)
        \/ Connect(m) \/ Refresh(m) \/ Reject(m)
        \/ Decommission(m) \/ Purge(m) \/ RemoveFile(m) \/ PurgeEnds(m)

Spec == Init /\ [][Next]_vars

-----------------------------------------------------------------------------
(* "Guard: one active host per machine": whatever requests are served at    *)
(* the same time, two active rows never share a machine id.                 *)
OneActivePerMachine ==
    \A a, b \in Attempts :
        status[a] = "active" /\ status[b] = "active" /\ box[a] = box[b] => a = b

(* What may lie beside the config.json of host h: its own file, that of a   *)
(* command accepted before it that was still at work when h was created,    *)
(* and no file where a purge ran beside the command or after it.            *)
MayLie(h) == {h} \cup stragglers[h] \cup {x \in {None} : h \in swept}

(* "Save the keys first": at every moment, a crash between two writes       *)
(* included, a config.json that names an active host lies beside that       *)
(* host's identity key and encryption key, and a running daemon that has    *)
(* loaded the id of an active host holds that host's identity key.  What    *)
(* comes between is a command accepted earlier that has not finished, and a *)
(* purge; one that ended before the command began, midway or not, does not. *)
ActiveConfigWorks ==
    \A m \in Machines :
        /\ LET h == disk[m]["config"]
           IN  h # None /\ status[h] = "active" => \A f \in File : disk[m][f] \in MayLie(h)
        /\ LET h == daemon[m].config
           IN  daemon[m].identity # None /\ status[h] = "active" =>
                   daemon[m].identity \in {h} \cup stragglers[h]

(* "a still-active box that re-enrolls gets a 409 and keeps its working     *)
(* identity": while the host a box is enrolled as stays active, no command  *)
(* changes the box's files, whatever its answer, but one that was accepted  *)
(* before that host and has not finished; and none is removed but by a      *)
(* purge.                                                                   *)
IdentityKept ==
    [][\A m \in Machines :
        LET h == disk[m]["config"] IN
        h # None /\ status[h] = "active" /\ status'[h] = "active" =>
            \A f \in File :
                disk'[m][f] = disk[m][f] \/ disk'[m][f] \in MayLie(h) \ {h}]_vars

(* "revoke frees the machine server-side, so this is how a revoked host     *)
(* recovers": a daemon connected as a host holds exactly that host's newest *)
(* list once the host's numbers, which count from 0, have passed the number *)
(* the daemon came with from cache.json, which an earlier enrollment may    *)
(* have left there; until then it holds what it came with.                  *)
Recovers ==
    \A m \in link :
        LET h == daemon[m].config IN
        IF seq[h] > found[m] THEN mem[m] = [seq |-> seq[h], from |-> h]
                             ELSE mem[m].seq = found[m]
=============================================================================
