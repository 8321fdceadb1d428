----------------------------- MODULE SecretSets -----------------------------
(***************************************************************************)
(* Machine secrets from the tables to the application: the handlers that   *)
(* change secret sets, their entries and their bindings; the bundle that   *)
(* each change, and each connection of a daemon, builds statement by       *)
(* statement, numbers and sends; the daemon's store, which is in memory    *)
(* only; and custosd exec, which asks the store for a set.                 *)
(*                                                                         *)
(* A transaction is one step and so is a statement outside one.  The       *)
(* caller's permission is taken as given, a vault key and a signing key    *)
(* are configured, and every host has an encryption key.  A host has one   *)
(* connection at a time: AccessSync models how connections replace each    *)
(* other.                                                                  *)
(***************************************************************************)
EXTENDS Naturals, Sequences

CONSTANTS
    Sets, Names, Keys, Vals, Hosts,
    NoVal,        \* no row of secret_set_entries for a key
    Unborn,       \* the name of a set still to be created
    Deleted,      \* the name of a set whose row is gone
    Requests,     \* concurrent HTTP request goroutines
    ExecHosts,    \* the hosts on which custosd exec is run
    ChanCap,      \* capacity of a connection's send channel
    MaxOps,       \* bound: requests
    MaxEvents     \* bound: failed queries, connections and restarts

ASSUME NameAssumption ==
    Unborn \notin Names /\ Deleted \notin Names /\ Unborn # Deleted
ASSUME ProcAssumption == Requests \cap Hosts = {} /\ ExecHosts \subseteq Hosts
ASSUME BoundAssumption == ChanCap \in Nat \ {0}

VARIABLES
    name,      \* secret_sets.name of each set id
    updated,   \* secret_sets.updated_at
    entries,   \* secret_set_entries
    bound,     \* host_set_bindings
    setSeq,    \* hosts.last_set_seq
    clock,     \* the database's clock
    pc,        \* where each request, and each host's connect handler, is
    job,       \* what each request does
    todo,      \* the hosts each request still has to push to
    build,     \* the bundle each of them is building
    link,      \* whether the host's daemon is connected
    chan,      \* envelopes sent and not yet read by the daemon
    store,     \* the daemon's SecretStore
    app,       \* custosd exec on each host
    ops, faults, links,
    past,      \* history: the states each set was committed in
    calm       \* history: since the host connected no two handlers ran at once,
               \* no query failed and no envelope was dropped

tables == <<name, updated, entries, bound>>
daemon == <<link, chan, store, app>>
vars == <<tables, setSeq, clock, pc, job, todo, build, daemon, ops, faults,
          links, past, calm>>

Procs == Requests \cup Hosts
Contents == [Keys -> Vals \cup {NoVal}]
NoEntries == [k \in Keys |-> NoVal]

Job ==
    [op : {"create"}, set : Sets, name : Names, entries : Contents, at : Nat]
    \cup [op : {"rename"}, set : Sets, name : Names, at : Nat]
    \cup [op : {"delete"}, set : Sets, at : Nat]
    \cup [op : {"bind"}, set : Sets, host : Hosts, at : Nat]
    \cup [op : {"upsert"}, set : Sets, key : Keys, val : Vals, at : Nat]
    \cup [op : {"remove"}, set : Sets, key : Keys, at : Nat]
NoJob == [op |-> "none"]

(* A row of SetsForHost, and a set as the bundle carries it.                *)
Row == [set : Sets, name : Names, version : Nat]
Opened == [set : Sets, name : Names, version : Nat, values : Contents]

Build == [host : Hosts, rows : SUBSET Row, sets : SUBSET Opened, seq : Nat]
NoBuild == [rows |-> {}]
Envelope == [seq : Nat, sets : SUBSET Opened]
Store == [ready : BOOLEAN, seq : Nat, sets : SUBSET Opened]
NewSecretStore == [ready |-> FALSE, seq |-> 0, sets |-> {}]

(* What custosd exec has come to: the set it asked for was not in the store *)
(* (missed), the application was started with some environment, or exec     *)
(* ended without starting it: refused, forbidden or out of time.            *)
App ==
    [state : {"none", "missed", "failed"}] \cup [state : {"started"}, got : Opened]
NoApp == [state |-> "none"]

Building == {"entries", "number", "send"}

(* The variables have their shapes, and a set that is not there has neither *)
(* entries nor bindings: handleDeleteSet leaves no orphaned rows behind.    *)
TypeOK ==
    /\ name \in [Sets -> Names \cup {Unborn, Deleted}]
    /\ updated \in [Sets -> Nat] /\ entries \in [Sets -> Contents]
    /\ bound \in SUBSET (Hosts \X Sets)
    /\ setSeq \in [Hosts -> Nat] /\ clock \in Nat
    /\ pc \in [Procs -> {"idle", "tx", "lookup", "push"} \cup Building]
    /\ job \in [Requests -> Job \cup {NoJob}]
    /\ todo \in [Requests -> SUBSET Hosts]
    /\ build \in [Procs -> Build \cup {NoBuild}]
    /\ link \in [Hosts -> BOOLEAN] /\ chan \in [Hosts -> Seq(Envelope)]
    /\ store \in [Hosts -> Store] /\ app \in [Hosts -> App]
    /\ ops \in Nat /\ faults \in Nat /\ links \in Nat
    /\ past \in [Sets -> Seq([at : Nat, entries : Contents])]
    /\ calm \in [Hosts -> BOOLEAN]
    /\ \A s \in Sets : name[s] \notin Names =>
        entries[s] = NoEntries /\ \A h \in Hosts : <<h, s>> \notin bound

-----------------------------------------------------------------------------
(* The queries.                                                             *)

GetSet(s) == name[s] \in Names
AnyName(n) == FALSE
NameTaken(n) == \E s \in Sets : name[s] = n
HostsForSet(s) == {h \in Hosts : <<h, s>> \in bound}
SetsForHost(h) ==
    {[set |-> s, name |-> name[s], version |-> updated[s]]
        : s \in {x \in Sets : <<h, x>> \in bound /\ name[x] \in Names}}
CachedEntries(s) == IF past[s] = <<>> THEN NoEntries ELSE past[s][1].entries
GetSetEntries(s) == entries[s]

(* The bundle of a host, read at one instant.                               *)
Open(row, values) ==
    [set |-> row.set, name |-> row.name, version |-> row.version, values |-> values]
Bundle(h) == {Open(row, entries[row.set]) : row \in SetsForHost(h)}

(* A quiet system: no daemon connected, any consistent contents of the      *)
(* tables.                                                                  *)
Init ==
    /\ name \in [Sets -> Names \cup {Unborn}]
    /\ \A s, t \in Sets : name[s] = name[t] /\ s # t => name[s] = Unborn
    /\ updated = [s \in Sets |-> 0]
    /\ entries \in [Sets -> Contents]
    /\ \A s \in Sets : name[s] = Unborn => entries[s] = NoEntries
    /\ bound \in SUBSET (Hosts \X {s \in Sets : name[s] # Unborn})
    /\ setSeq = [h \in Hosts |-> 0] /\ clock = 0
    /\ pc = [p \in Procs |-> "idle"]
    /\ job = [p \in Requests |-> NoJob]
    /\ todo = [p \in Requests |-> {}]
    /\ build = [p \in Procs |-> NoBuild]
    /\ link = [h \in Hosts |-> FALSE] /\ chan = [h \in Hosts |-> <<>>]
    /\ store = [h \in Hosts |-> NewSecretStore]
    /\ app = [h \in Hosts |-> NoApp]
    /\ ops = 0 /\ faults = 0 /\ links = 0
    /\ past = [s \in Sets |-> IF name[s] = Unborn THEN <<>>
                                ELSE <<[at |-> 0, entries |-> entries[s]]>>]
    /\ calm = [h \in Hosts |-> FALSE]

Busy(p) == pc[p] # "idle"
Fault == faults + links < MaxEvents /\ faults' = faults + 1

-----------------------------------------------------------------------------
(* The requests, up to their transaction: the early returns of a set that   *)
(* does not exist change nothing and are no steps.                          *)

(* now() is the time the transaction began, so the clock is read here.      *)
Request(p) ==
    /\ p \in Requests /\ pc[p] = "idle"
    /\ ops < MaxOps /\ ops' = ops + 1
    /\ calm' = [h \in Hosts |-> calm[h] /\ faults' = faults
                                   /\ \A q \in Requests \cup {h} : ~Busy(q)]

Begin(p, j, hosts) ==
    /\ Request(p)
    /\ clock' = clock + 1
    /\ job' = [job EXCEPT ![p] = j]
    /\ todo' = [todo EXCEPT ![p] = hosts]
    /\ pc' = [pc EXCEPT ![p] = "tx"]
    /\ UNCHANGED <<tables, setSeq, build, daemon, links, past>>

(* A created set gets an id no other set has or will have.                  *)
Fresh(s) ==
    /\ name[s] = Unborn
    /\ \A p \in Requests : pc[p] = "tx" /\ job[p].op = "create" => job[p].set # s

CreateSet(p) ==
    /\ UNCHANGED faults
    /\ \E s \in Sets, n \in Names, c \in Contents :
        /\ Fresh(s)
        /\ Begin(p, [op |-> "create", set |-> s, name |-> n, entries |-> c,
                     at |-> clock], {})

UpdateSet(p) ==
    /\ UNCHANGED faults
    /\ \E s \in Sets, n \in Names :
        /\ GetSet(s)
        /\ Begin(p, [op |-> "rename", set |-> s, name |-> n, at |-> clock], {})

(* The bound hosts are looked up before the transaction and the error of    *)
(* the lookup is ignored.                                                   *)
DeleteSet(p) ==
    \E s \in Sets :
        /\ GetSet(s)
        /\ \/ /\ UNCHANGED faults
              /\ Begin(p, [op |-> "delete", set |-> s, at |-> clock], HostsForSet(s))
           \/ /\ Fault
              /\ Begin(p, [op |-> "delete", set |-> s, at |-> clock], {})

BindSet(p) ==
    /\ UNCHANGED faults
    /\ \E s \in Sets, h \in Hosts :
        /\ GetSet(s)
        /\ Begin(p, [op |-> "bind", set |-> s, host |-> h, at |-> clock], {})

UpsertEntry(p) ==
    /\ UNCHANGED faults
    /\ \E s \in Sets, k \in Keys, v \in Vals :
        /\ GetSet(s)
        /\ Begin(p, [op |-> "upsert", set |-> s, key |-> k, val |-> v,
                     at |-> clock], {})

DeleteEntry(p) ==
    /\ UNCHANGED faults
    /\ \E s \in Sets, k \in Keys :
        /\ GetSet(s)
        /\ Begin(p, [op |-> "remove", set |-> s, key |-> k, at |-> clock], {})

-----------------------------------------------------------------------------
(* The transactions.                                                        *)

(* What is left of a handler is to push to these hosts.                     *)
PushTo(p, hosts) ==
    /\ pc' = [pc EXCEPT ![p] = IF hosts = {} THEN "idle" ELSE "push"]
    /\ todo' = [todo EXCEPT ![p] = hosts]
    /\ job' = [job EXCEPT ![p] = NoJob]

Return(p) == PushTo(p, {})

(* pushSetToHosts follows: the bound hosts are still to be looked up.       *)
ThenLookup(p) ==
    /\ pc' = [pc EXCEPT ![p] = "lookup"]
    /\ UNCHANGED <<todo, job>>

(* The set has this name, these entries and, by TouchSet or UpdateSetName,  *)
(* the time the transaction began.                                          *)
Write(s, n, c, at) ==
    /\ name' = [name EXCEPT ![s] = n]
    /\ updated' = [updated EXCEPT ![s] = at]
    /\ entries' = [entries EXCEPT ![s] = c]
    /\ past' = [past EXCEPT ![s] = Append(@, [at |-> at, entries |-> c])]

InTx(p, op) == p \in Requests /\ pc[p] = "tx" /\ job[p].op = op
TxKeeps == UNCHANGED <<setSeq, clock, build, daemon, ops, faults, links, calm>>
NoWrite == UNCHANGED <<tables, past>>

CommitCreate(p) ==
    /\ InTx(p, "create")
    /\ IF NameTaken(job[p].name)
         THEN NoWrite
         ELSE /\ Write(job[p].set, job[p].name, job[p].entries, job[p].at)
              /\ UNCHANGED bound
    /\ Return(p) /\ TxKeeps

CommitRename(p) ==
    /\ InTx(p, "rename")
    /\ LET s == job[p].set
           n == job[p].name IN
       IF GetSet(s) /\ ~\E t \in Sets \ {s} : name[t] = n
         THEN Write(s, n, entries[s], job[p].at) /\ UNCHANGED bound /\ ThenLookup(p)
         ELSE NoWrite /\ Return(p)
    /\ TxKeeps

(* The entries and the bindings go with the row.                            *)
Cascade(s) == bound \ (Hosts \X {s})

CommitDelete(p) ==
    /\ InTx(p, "delete")
    /\ LET s == job[p].set IN
        /\ name' = [name EXCEPT ![s] = Deleted]
        /\ entries' = [entries EXCEPT ![s] = NoEntries]
        /\ bound' = Cascade(s)
    /\ PushTo(p, todo[p])
    /\ UNCHANGED <<updated, past>> /\ TxKeeps

CommitBind(p) ==
    /\ InTx(p, "bind")
    /\ IF GetSet(job[p].set)
         THEN /\ bound' = bound \cup {<<job[p].host, job[p].set>>}
              /\ PushTo(p, {job[p].host})
         ELSE UNCHANGED bound /\ Return(p)
    /\ UNCHANGED <<name, updated, entries, past>> /\ TxKeeps

CommitUpsert(p) ==
    /\ InTx(p, "upsert")
    /\ LET s == job[p].set IN
       IF GetSet(s)
         THEN /\ Write(s, name[s], [entries[s] EXCEPT ![job[p].key] = job[p].val],
                       job[p].at)
              /\ UNCHANGED bound /\ ThenLookup(p)
         ELSE NoWrite /\ Return(p)
    /\ TxKeeps

CommitRemove(p) ==
    /\ InTx(p, "remove")
    /\ LET s == job[p].set IN
       IF entries[s][job[p].key] # NoVal
         THEN /\ Write(s, name[s], [entries[s] EXCEPT ![job[p].key] = NoVal],
                       job[p].at)
              /\ UNCHANGED bound /\ ThenLookup(p)
         ELSE NoWrite /\ Return(p)
    /\ TxKeeps

(* A single statement, without a transaction.                               *)
UnbindSet(p) ==
    /\ UNCHANGED faults
    /\ Request(p)
    /\ \E s \in Sets, h \in Hosts :
        /\ <<h, s>> \in bound
        /\ bound' = bound \ {<<h, s>>}
        /\ PushTo(p, {h})
    /\ UNCHANGED <<name, updated, entries, past, setSeq, clock, build, daemon,
                   links>>

-----------------------------------------------------------------------------
(* Pushing, by a request or by the handler of a new connection.             *)

LookupHosts(p) ==
    /\ p \in Requests /\ pc[p] = "lookup"
    /\ PushTo(p, HostsForSet(job[p].set))
    /\ UNCHANGED <<tables, past>> /\ TxKeeps

Targets(p) == IF p \in Requests THEN todo[p] ELSE {p}

(* The hosts left to a request, or nothing more for a connection.           *)
Continue(p, left) ==
    IF p \in Requests
      THEN PushTo(p, left)
      ELSE pc' = [pc EXCEPT ![p] = "idle"] /\ UNCHANGED <<todo, job>>
Left(p) == IF p \in Requests THEN todo[p] ELSE {}

PushKeeps == UNCHANGED <<tables, clock, ops, faults, links, past>>

(* buildSecretSets reads the host's rows with one query, ...                *)
StartBuild(p) ==
    /\ pc[p] = "push"
    /\ \E h \in Targets(p) :
        LET rows == SetsForHost(h) IN
        /\ build' = [build EXCEPT ![p] =
                        [host |-> h, rows |-> rows, sets |-> {}, seq |-> 0]]
        /\ pc' = [pc EXCEPT ![p] = IF rows = {} THEN "number" ELSE "entries"]
        /\ todo' = IF p \in Requests THEN [todo EXCEPT ![p] = @ \ {h}] ELSE todo
    /\ UNCHANGED <<job, setSeq, daemon, calm>> /\ PushKeeps

(* ... and then the entries of each set with a query of its own.            *)
ReadEntries(p) ==
    /\ pc[p] = "entries"
    /\ \E row \in build[p].rows :
        LET rest == build[p].rows \ {row} IN
        /\ build' = [build EXCEPT ![p] =
                        [build[p] EXCEPT
                            !.rows = rest,
                            !.sets = @ \cup {Open(row, GetSetEntries(row.set))}]]
        /\ pc' = [pc EXCEPT ![p] = IF rest = {} THEN "number" ELSE "entries"]
    /\ UNCHANGED <<job, todo, setSeq, daemon, calm>> /\ PushKeeps

SameSeq(h) == setSeq[h]
NextHostSetSeq(h) == setSeq[h] + 1

SecretSetsEnvelope(p) ==
    /\ pc[p] = "number"
    /\ LET h == build[p].host IN
        /\ setSeq' = [setSeq EXCEPT ![h] = NextHostSetSeq(h)]
        /\ build' = [build EXCEPT ![p].seq = NextHostSetSeq(h)]
    /\ pc' = [pc EXCEPT ![p] = "send"]
    /\ UNCHANGED <<job, todo, daemon, calm>> /\ PushKeeps

(* hub.push drops the envelope of a host that is offline or whose channel   *)
(* is full; a connection's own handler waits for room.                      *)
Send(p) ==
    /\ pc[p] = "send"
    /\ LET h == build[p].host IN
        \/ /\ link[h] /\ Len(chan[h]) < ChanCap
           /\ chan' = [chan EXCEPT ![h] =
                        Append(@, [seq |-> build[p].seq, sets |-> build[p].sets])]
           /\ UNCHANGED calm
        \/ /\ p \in Requests /\ ~(link[h] /\ Len(chan[h]) < ChanCap)
           /\ calm' = [calm EXCEPT ![h] = FALSE]
           /\ UNCHANGED chan
    /\ build' = [build EXCEPT ![p] = NoBuild]
    /\ Continue(p, Left(p))
    /\ UNCHANGED <<setSeq, link, store, app>> /\ PushKeeps

(* A statement fails: the transaction rolls back, the lookup ends the       *)
(* handler, a build that fails skips its host.                              *)
Fail(p) ==
    /\ Fault
    /\ \/ p \in Requests /\ pc[p] \in {"tx", "lookup"} /\ Return(p)
       \/ pc[p] = "push" /\ \E h \in Targets(p) : Continue(p, Left(p) \ {h})
       \/ pc[p] \in {"entries", "number"} /\ Continue(p, Left(p))
    /\ build' = [build EXCEPT ![p] = NoBuild]
    /\ calm' = [h \in Hosts |-> calm[h] /\ p \in Hosts \ {h}]
    /\ UNCHANGED <<tables, setSeq, clock, daemon, ops, links, past>>

-----------------------------------------------------------------------------
(* The daemon.                                                              *)

LinkKeeps == UNCHANGED <<tables, clock, job, todo, ops, faults, past>>

(* Authenticated and registered: pushes reach the channel from here on, and *)
(* the handler goes on to build the host's bundle.                          *)
Connect(h) ==
    /\ h \in Hosts /\ ~link[h] /\ faults + links < MaxEvents
    /\ links' = links + 1
    /\ link' = [link EXCEPT ![h] = TRUE]
    /\ pc' = [pc EXCEPT ![h] = "push"]
    /\ calm' = [calm EXCEPT ![h] = \A p \in Requests : ~Busy(p)]
    /\ UNCHANGED <<setSeq, build, chan, store, app>> /\ LinkKeeps

(* The connection ends.  What is left of its handler can still take a       *)
(* number, and sends to nobody.                                             *)
Disconnect(h) ==
    /\ link[h]
    /\ link' = [link EXCEPT ![h] = FALSE]
    /\ chan' = [chan EXCEPT ![h] = <<>>]
    /\ pc' = [pc EXCEPT ![h] = "idle"]
    /\ build' = [build EXCEPT ![h] = NoBuild]
    /\ \/ UNCHANGED setSeq
       \/ /\ pc[h] \in {"push", "entries", "number"}
          /\ setSeq' = [setSeq EXCEPT ![h] = NextHostSetSeq(h)]

Drop(h) ==
    /\ h \in Hosts /\ Disconnect(h)
    /\ UNCHANGED <<store, app, links, calm>> /\ LinkKeeps

(* The process ends and starts again: the store is in memory only, and an   *)
(* exec waiting for its answer has to ask again.                            *)
Restart(h) ==
    /\ h \in Hosts /\ Disconnect(h)
    /\ faults + links < MaxEvents /\ links' = links + 1
    /\ store' = [store EXCEPT ![h] = NewSecretStore]
    /\ app' = [app EXCEPT ![h] = IF @.state = "missed" THEN NoApp ELSE @]
    /\ UNCHANGED calm /\ LinkKeeps

Apply(h, env) == [ready |-> TRUE, seq |-> env.seq, sets |-> env.sets]

(* The writer starts when the connection's handler has sent its bundle; the *)
(* daemon drops an envelope that is not newer than what it holds.           *)
Dispatch(h) ==
    /\ h \in Hosts /\ link[h] /\ ~Busy(h) /\ chan[h] # <<>>
    /\ chan' = [chan EXCEPT ![h] = Tail(@)]
    /\ store' = IF Head(chan[h]).seq > store[h].seq
                  THEN [store EXCEPT ![h] = Apply(h, Head(chan[h]))]
                  ELSE store
    /\ UNCHANGED <<setSeq, pc, build, link, app, links, calm>> /\ LinkKeeps

-----------------------------------------------------------------------------
(* custosd exec and the daemon's answer.                                    *)

Held(h, n) == {o \in store[h].sets : o.name = n}
ExecKeeps == UNCHANGED <<tables, setSeq, clock, pc, job, todo, build, link, chan,
                         store, ops, faults, links, past, calm>>

(* handleSecret looks the set up; a set scoped to an account may be refused *)
(* to the caller.                                                           *)
HandleSecret(h) ==
    /\ h \in ExecHosts /\ app[h] = NoApp
    /\ \E n \in Names :
        \/ Held(h, n) = {} /\ app' = [app EXCEPT ![h] = [state |-> "missed"]]
        \/ \E o \in Held(h, n) :
              app' = [app EXCEPT ![h] = [state |-> "started", got |-> o]]
        \/ Held(h, n) # {} /\ app' = [app EXCEPT ![h] = [state |-> "failed"]]
    /\ ExecKeeps

(* Ready is a second look at the store: "no such set" is final, "not ready" *)
(* is retried until the timeout.                                            *)
ReadyReply(h) ==
    /\ h \in Hosts /\ app[h].state = "missed"
    /\ \/ app' = [app EXCEPT ![h] = [state |-> "failed"]]
       \/ ~store[h].ready /\ app' = [app EXCEPT ![h] = NoApp]
    /\ ExecKeeps

-----------------------------------------------------------------------------
Next ==
    \/ \E p \in Requests :
        \/ CreateSet(p) \/ UpdateSet(p) \/ DeleteSet(p) \/ BindSet(p)
        \/ UpsertEntry(p) \/ DeleteEntry(p) \/ UnbindSet(p)
        \/ CommitCreate(p) \/ CommitRename(p) \/ CommitDelete(p) \/ CommitBind(p)
        \/ CommitUpsert(p) \/ CommitRemove(p)
        \/ LookupHosts(p)
    \/ \E p \in Procs :
        StartBuild(p) \/ ReadEntries(p) \/ SecretSetsEnvelope(p) \/ Send(p) \/ Fail(p)
    \/ \E h \in Hosts :
        \/ Connect(h) \/ Drop(h) \/ Restart(h) \/ Dispatch(h)
        \/ HandleSecret(h) \/ ReadyReply(h)

Spec == Init /\ [][Next]_vars

-----------------------------------------------------------------------------
(* Properties.                                                              *)

(* The set was committed with this version, and then or later with these    *)
(* values.                                                                  *)
AsCommitted(o) ==
    \E j \in 1..Len(past[o.set]) : \E i \in 1..j :
        /\ past[o.set][i].at = o.version
        /\ past[o.set][j].entries = o.values

(* The set was deleted after its row had been read.                         *)
Vanished(o) ==
    /\ name[o.set] = Deleted /\ o.values = NoEntries
    /\ \E i \in 1..Len(past[o.set]) : past[o.set][i].at = o.version

(* What the daemon holds, and what an application was started with, is a    *)
(* set as some transaction left it, never a mixture of two edits or of two  *)
(* sets, with values at least as new as the version beside them.  The one   *)
(* exception is a set deleted while buildSecretSets was between SetsForHost *)
(* and GetSetEntries, which arrives with no values.                         *)
(* The variables keep their types.                                          *)
SetsAreWhole ==
    /\ TypeOK
    /\ \A h \in Hosts :
        /\ \A o \in store[h].sets : AsCommitted(o) \/ Vanished(o)
        /\ app[h].state = "started" => AsCommitted(app[h].got) \/ Vanished(app[h].got)

(* handleDaemon reconciles a host's sets on every connect, and a change is  *)
(* pushed to every host it concerns (pushSetToHosts, pushSetBundle): a      *)
(* daemon whose channel is empty holds what the tables say, whatever was    *)
(* lost or overtaken before it connected and also when it kept its store    *)
(* and its number, if since then no two handlers overlapped, no query       *)
(* failed and no envelope was dropped.                                      *)
Reconciled ==
    \A h \in Hosts :
        /\ link[h] /\ calm[h] /\ chan[h] = <<>>
        /\ \A p \in Requests \cup {h} : ~Busy(p)
        => store[h].sets = Bundle(h)

(* Two sets never share a name in what a daemon holds: SetsForHost reads    *)
(* all rows at one instant, so Apply loses none of them.                    *)
NamesApart ==
    \A h \in Hosts : \A o, q \in store[h].sets : o.name = q.name => o = q
=============================================================================
