----------------------------- MODULE AccessSync -----------------------------
(***************************************************************************)
(* Delivery of one host's SSH access list from the control plane to the    *)
(* daemon's cache: the request handlers that change access and push a      *)
(* snapshot, the hub, the websocket handler with its bounded send channel, *)
(* and the daemon's in-memory cache with its last-known-good file.         *)
(*                                                                         *)
(* `access' is what the HostAccessKeys query returns for the host; which   *)
(* grants produce it is left to the permission model.  hosts.last_seq is   *)
(* Len(signed): signed[n] is the list that was signed under number n.      *)
(***************************************************************************)
EXTENDS Naturals, Sequences

CONSTANTS
    Keys,        \* public keys that may appear in the access list
    Handlers,    \* concurrent HTTP request goroutines
    Conns,       \* websocket connections (identifiers are reused once dead)
    NoConn,      \* no connection
    SendCap,     \* capacity of a connection's send channel (32 in the code)
    MaxOps,      \* bound: admin requests
    MaxAccepts,  \* bound: authentications that succeed
    MaxFaults    \* bound: crashes, link drops, failed queries, failed writes

ASSUME ConnAssumption == NoConn \notin Conns
ASSUME BoundAssumption ==
    /\ SendCap \in Nat \ {0}
    /\ MaxOps \in Nat
    /\ MaxAccepts \in Nat
    /\ MaxFaults \in Nat

VARIABLES
    access,     \* result of HostAccessKeys for the host
    status,     \* hosts.status
    signed,     \* lists signed so far; its length is hosts.last_seq
    pc,         \* where each request handler is
    env,        \* the envelope each request handler is building
    target,     \* the connection a handler took from the hub
    revoking,   \* the handlers that run revokeHost
    hub,        \* hub.conns[hostID]
    phase,      \* where each connection's handleDaemon is
    first,      \* the initial envelope each handleDaemon is building
    queue,      \* each connection's send channel
    wire,       \* envelopes written to the socket and not yet read
    cancelled,  \* connections whose context is done
    gone,       \* connections the daemon has left
    running,    \* the daemon process is up
    dconn,      \* the daemon's current connection
    mem,        \* Cache: entries and seq in memory
    disk,       \* cache.json
    ops, accepts, faults,   \* the bounds' counters
    \* History, read by properties only:
    dropped,    \* connections on which a full channel dropped a push
    greeted,    \* connections whose initial snapshot was queued
    quiet,      \* registered with no request in flight, and none since
    latest      \* newest list signed by a request or for the registered entry

dbVars     == <<access, status, signed>>
opVars     == <<pc, env, target, revoking>>
linkVars   == <<hub, phase, first, queue, cancelled>>
daemonVars == <<running, mem, disk>>
history    == <<dropped, greeted, quiet, latest>>
vars == <<dbVars, opVars, linkVars, wire, gone, dconn, daemonVars,
          ops, accepts, faults, history>>

Envelope == [seq : Nat, keys : SUBSET Keys]
Unsent   == [seq |-> 0, keys |-> {}]

DbType ==
    /\ access \in SUBSET Keys
    /\ status \in {"active", "revoked"}
    /\ signed \in Seq(SUBSET Keys)
RequestType ==
    /\ pc \in [Handlers -> {"idle", "build", "stamp", "fetch", "send"}]
    /\ env \in [Handlers -> Envelope]
    /\ target \in [Handlers -> Conns \cup {NoConn}]
    /\ revoking \in SUBSET Handlers
    /\ \A h \in Handlers : pc[h] = "send" => target[h] # NoConn
LinkType ==
    /\ hub \in Conns \cup {NoConn}
    /\ phase \in [Conns -> {"free", "auth", "authed", "registered", "built",
                            "stamped", "serving", "closing", "closed", "rejected"}]
    /\ first \in [Conns -> Envelope]
    /\ queue \in [Conns -> Seq(Envelope)]
    /\ \A c \in Conns : Len(queue[c]) <= SendCap
    /\ cancelled \in SUBSET Conns
DaemonType ==
    /\ wire \in [Conns -> Seq(Envelope)]
    /\ gone \in SUBSET Conns
    /\ running \in BOOLEAN
    /\ dconn \in Conns \cup {NoConn}
    /\ mem \in Envelope
    /\ disk \in Envelope
BookType ==
    /\ ops \in Nat /\ accepts \in Nat /\ faults \in Nat
    /\ dropped \in SUBSET Conns
    /\ greeted \in SUBSET Conns
    /\ quiet \in SUBSET Conns
    /\ latest \in Envelope

(* Types, the channel's bound, and that a handler about to send holds the   *)
(* connection it took from the hub (hub.push returns when there is none).   *)
TypeOK == DbType /\ RequestType /\ LinkType /\ DaemonType /\ BookType

(* A freshly enrolled host: nothing granted, nothing cached, not connected. *)
Init ==
    /\ access = {} /\ status = "active" /\ signed = <<>>
    /\ pc = [h \in Handlers |-> "idle"]
    /\ env = [h \in Handlers |-> Unsent]
    /\ target = [h \in Handlers |-> NoConn]
    /\ revoking = {}
    /\ hub = NoConn
    /\ phase = [c \in Conns |-> "free"]
    /\ first = [c \in Conns |-> Unsent]
    /\ queue = [c \in Conns |-> <<>>]
    /\ wire = [c \in Conns |-> <<>>]
    /\ cancelled = {} /\ gone = {}
    /\ running = TRUE /\ dconn = NoConn
    /\ mem = Unsent /\ disk = Unsent
    /\ ops = 0 /\ accepts = 0 /\ faults = 0
    /\ dropped = {} /\ greeted = {} /\ quiet = {} /\ latest = Unsent

Fault == faults < MaxFaults /\ faults' = faults + 1

-----------------------------------------------------------------------------
(* snapshotEnvelope: NextHostSeq bumps the host's counter and the list is   *)
(* signed under the new number.                                             *)
NextSeqStuck == IF signed = <<>> THEN 1 ELSE Len(signed)
NextSeq == Len(signed) + 1
Sign(keys) == signed' = Append(signed, keys)

(* buildSnapshot *)
ReadAccess == access

Idle == \A h \in Handlers : pc[h] = "idle"

(* A handler that changes what HostAccessKeys returns commits, then calls   *)
(* pushSnapshot for the host.                                               *)
Commit(h) ==
    /\ pc[h] = "idle" /\ ops < MaxOps
    /\ \E keys \in SUBSET Keys : access' = keys
    /\ pc' = [pc EXCEPT ![h] = "build"]
    /\ ops' = ops + 1
    /\ quiet' = {}
    /\ UNCHANGED <<status, signed, env, target, revoking, linkVars, wire, gone,
                   dconn, daemonVars, accepts, faults, dropped, greeted, latest>>

(* handleRefreshHost: an inactive host is refused. *)
Refresh(h) ==
    /\ pc[h] = "idle" /\ ops < MaxOps
    /\ status = "active"
    /\ pc' = [pc EXCEPT ![h] = "build"]
    /\ ops' = ops + 1
    /\ quiet' = {}
    /\ UNCHANGED <<dbVars, env, target, revoking, linkVars, wire, gone,
                   dconn, daemonVars, accepts, faults, dropped, greeted, latest>>

(* revokeHost: the status is written first, the empty list is signed next. *)
Revoke(h) ==
    /\ pc[h] = "idle" /\ ops < MaxOps
    /\ status' = "revoked"
    /\ pc' = [pc EXCEPT ![h] = "stamp"]
    /\ env' = [env EXCEPT ![h] = Unsent]
    /\ revoking' = revoking \cup {h}
    /\ ops' = ops + 1
    /\ quiet' = {}
    /\ UNCHANGED <<access, signed, target, linkVars, wire, gone, dconn,
                   daemonVars, accepts, faults, dropped, greeted, latest>>

Build(h) ==
    /\ pc[h] = "build"
    /\ env' = [env EXCEPT ![h] = [seq |-> 0, keys |-> ReadAccess]]
    /\ pc' = [pc EXCEPT ![h] = "stamp"]
    /\ UNCHANGED <<dbVars, target, revoking, linkVars, wire, gone, dconn,
                   daemonVars, ops, accepts, faults, history>>

Stamp(h) ==
    /\ pc[h] = "stamp"
    /\ env' = [env EXCEPT ![h].seq = NextSeq]
    /\ Sign(env[h].keys)
    /\ latest' = env'[h]
    /\ pc' = [pc EXCEPT ![h] = "fetch"]
    /\ UNCHANGED <<access, status, target, revoking, linkVars, wire, gone, dconn,
                   daemonVars, ops, accepts, faults, dropped, greeted, quiet>>

(* The request ends; its local state goes with it. *)
Return(h) ==
    /\ pc' = [pc EXCEPT ![h] = "idle"]
    /\ env' = [env EXCEPT ![h] = Unsent]
    /\ target' = [target EXCEPT ![h] = NoConn]
    /\ revoking' = revoking \ {h}

(* A query fails, or the request's context ends with its client: the push   *)
(* is abandoned without an error to anyone.                                 *)
Abandon(h) ==
    /\ pc[h] \in {"build", "stamp"}
    /\ Fault
    /\ Return(h)
    /\ UNCHANGED <<dbVars, linkVars, wire, gone, dconn, daemonVars,
                   ops, accepts, history>>

(* The send channel has no room. *)
FullLate(c) == Len(queue[c]) > SendCap
Full(c) == Len(queue[c]) >= SendCap

(* hub.push and hub.disconnect read the entry under the lock ...            *)
Fetch(h) ==
    /\ pc[h] = "fetch"
    /\ \/ hub = NoConn /\ Return(h)
       \/ /\ hub # NoConn
          /\ target' = [target EXCEPT ![h] = hub]
          /\ pc' = [pc EXCEPT ![h] = "send"]
          /\ UNCHANGED <<env, revoking>>
    /\ UNCHANGED <<dbVars, linkVars, wire, gone, dconn, daemonVars,
                   ops, accepts, faults, history>>

(* ... and send after releasing it, without blocking; disconnect cancels.   *)
Send(h) ==
    LET c == target[h]
    IN  /\ pc[h] = "send"
        /\ queue' = IF Full(c) THEN queue
                    ELSE [queue EXCEPT ![c] = Append(@, env[h])]
        /\ dropped' = IF Full(c) THEN dropped \cup {c} ELSE dropped
        /\ cancelled' = IF h \in revoking THEN cancelled \cup {c} ELSE cancelled
        /\ Return(h)
        /\ UNCHANGED <<dbVars, hub, phase, first, wire, gone, dconn,
                       daemonVars, ops, accepts, faults, greeted, quiet, latest>>

-----------------------------------------------------------------------------
(* handleDaemon, one connection.                                            *)

Goto(c, p) == phase' = [phase EXCEPT ![c] = p]

(* authenticateDaemon reads the host row once; the row is not read again.   *)
Authenticate(c) ==
    /\ phase[c] = "auth"
    /\ \/ /\ status = "active" /\ accepts < MaxAccepts
          /\ Goto(c, "authed")
          /\ accepts' = accepts + 1
       \/ /\ status # "active"
          /\ Goto(c, "rejected")
          /\ UNCHANGED accepts
    /\ UNCHANGED <<dbVars, opVars, hub, first, queue, cancelled, wire, gone, dconn,
                   daemonVars, ops, faults, history>>

(* Every other error of authenticateDaemon takes the same exit: a failed    *)
(* query, a timeout, or a daemon that left before it answered.              *)
AuthError(c) ==
    /\ phase[c] = "auth"
    /\ \/ c \in gone /\ UNCHANGED faults
       \/ Fault
    /\ Goto(c, "rejected")
    /\ UNCHANGED <<dbVars, opVars, hub, first, queue, cancelled, wire, gone, dconn,
                   daemonVars, ops, accepts, history>>

(* hub.register replaces whatever entry the host has.                       *)
Register(c) ==
    /\ phase[c] = "authed"
    /\ hub' = c
    /\ Goto(c, "registered")
    /\ quiet' = IF Idle THEN quiet \cup {c} ELSE quiet
    /\ UNCHANGED <<dbVars, opVars, first, queue, cancelled, wire, gone, dconn,
                   daemonVars, ops, accepts, faults, dropped, greeted, latest>>

BuildFirst(c) ==
    /\ phase[c] = "registered" /\ c \notin cancelled
    /\ first' = [first EXCEPT ![c] = [seq |-> 0, keys |-> ReadAccess]]
    /\ Goto(c, "built")
    /\ UNCHANGED <<dbVars, opVars, hub, queue, cancelled, wire, gone, dconn,
                   daemonVars, ops, accepts, faults, history>>

StampFirst(c) ==
    /\ phase[c] = "built" /\ c \notin cancelled
    /\ first' = [first EXCEPT ![c].seq = NextSeq]
    /\ Sign(first[c].keys)
    /\ latest' = IF hub = c THEN first'[c] ELSE latest
    /\ Goto(c, "stamped")
    /\ UNCHANGED <<access, status, opVars, hub, queue, cancelled, wire, gone, dconn,
                   daemonVars, ops, accepts, faults, dropped, greeted, quiet>>

(* The initial snapshot is skipped when it cannot be built or numbered:     *)
(* its queries fail on their own, or because the context is done.           *)
NoFirst(c) ==
    /\ phase[c] \in {"registered", "built"}
    /\ Goto(c, "serving")
    /\ first' = [first EXCEPT ![c] = Unsent]
    /\ UNCHANGED <<dbVars, opVars, hub, queue, cancelled, wire, gone, dconn,
                   daemonVars, ops, accepts, history>>
SkipFirst(c) == Fault /\ NoFirst(c)
SkipCancelled(c) == c \in cancelled /\ NoFirst(c) /\ UNCHANGED faults

(* send <- env blocks while the channel is full; the writer starts after.   *)
QueueFirst(c) ==
    /\ phase[c] = "stamped" /\ ~Full(c)
    /\ queue' = [queue EXCEPT ![c] = Append(@, first[c])]
    /\ first' = [first EXCEPT ![c] = Unsent]
    /\ greeted' = greeted \cup {c}
    /\ Goto(c, "serving")
    /\ UNCHANGED <<dbVars, opVars, hub, cancelled, wire, gone, dconn, daemonVars,
                   ops, accepts, faults, dropped, quiet, latest>>

(* Nothing written reaches a daemon that has left the connection.           *)
Write(c, msgs) ==
    wire' = IF c \in gone THEN wire ELSE [wire EXCEPT ![c] = @ \o msgs]

WriteDaemon(c) ==
    /\ phase[c] = "serving" /\ queue[c] # <<>>
    /\ c \notin cancelled
    /\ Write(c, <<Head(queue[c])>>)
    /\ queue' = [queue EXCEPT ![c] = Tail(@)]
    /\ UNCHANGED <<dbVars, opVars, hub, phase, first, cancelled, gone, dconn,
                   daemonVars, ops, accepts, faults, history>>

(* hub.unregister: only the connection's own entry.                         *)
Unregistered(c) == IF hub = c THEN NoConn ELSE hub

(* readDaemon returns when the context is done or the daemon has left.      *)
(* The deferred calls run: unregister, then cancel.                         *)
Leave(c) ==
    /\ phase[c] = "serving" /\ (c \in cancelled \/ c \in gone)
    /\ hub' = Unregistered(c)
    /\ cancelled' = cancelled \cup {c}
    /\ Goto(c, "closing")
    /\ UNCHANGED <<dbVars, opVars, first, queue, wire, gone, dconn, daemonVars,
                   ops, accepts, faults, history>>

(* flushDaemon races with the close: some prefix of the channel gets out.   *)
FlushAndClose(c) ==
    /\ phase[c] = "closing"
    /\ \E n \in 0..Len(queue[c]) : Write(c, SubSeq(queue[c], 1, n))
    /\ queue' = [queue EXCEPT ![c] = <<>>]
    /\ Goto(c, "closed")
    /\ UNCHANGED <<dbVars, opVars, hub, first, cancelled, gone, dconn, daemonVars,
                   ops, accepts, faults, history>>

(* A read timeout or a failed write on the server's side.                   *)
ServerDrop(c) ==
    /\ phase[c] = "serving" /\ c \notin cancelled
    /\ Fault
    /\ cancelled' = cancelled \cup {c}
    /\ UNCHANGED <<dbVars, opVars, hub, phase, first, queue, wire, gone, dconn,
                   daemonVars, ops, accepts, history>>

(* The control plane stops: the hub, the channels and the requests are      *)
(* memory, the database stays.                                              *)
ServerCrash ==
    /\ Fault
    /\ hub' = NoConn
    /\ phase' = [c \in Conns |-> IF phase[c] \in {"free", "rejected"}
                                 THEN phase[c] ELSE "closed"]
    /\ first' = [c \in Conns |-> Unsent]
    /\ queue' = [c \in Conns |-> <<>>]
    /\ pc' = [h \in Handlers |-> "idle"]
    /\ env' = [h \in Handlers |-> Unsent]
    /\ target' = [h \in Handlers |-> NoConn]
    /\ revoking' = {}
    /\ UNCHANGED <<dbVars, cancelled, wire, gone, dconn, daemonVars,
                   ops, accepts, history>>

-----------------------------------------------------------------------------
(* The daemon: Run, connectAndServe, dispatch and the cache.                *)

(* Nobody refers to c any more, so its identifier may name a new connection.*)
Reusable(c) ==
    /\ phase[c] \in {"free", "closed", "rejected"}
    /\ \A h \in Handlers : target[h] # c

Dial(c) ==
    /\ running /\ dconn = NoConn /\ Reusable(c)
    /\ dconn' = c
    /\ Goto(c, "auth")
    /\ queue' = [queue EXCEPT ![c] = <<>>]
    /\ wire' = [wire EXCEPT ![c] = <<>>]
    /\ cancelled' = cancelled \ {c} /\ gone' = gone \ {c}
    /\ dropped' = dropped \ {c} /\ greeted' = greeted \ {c} /\ quiet' = quiet \ {c}
    /\ UNCHANGED <<dbVars, opVars, hub, first, daemonVars, ops, accepts, faults, latest>>

(* The daemon is done with its connection; what was in flight is lost.      *)
Hangup ==
    /\ dconn' = NoConn
    /\ gone' = gone \cup {dconn}
    /\ wire' = [wire EXCEPT ![dconn] = <<>>]

(* dispatch drops a snapshot that is not newer than the cache.              *)
NewerAny(e) == TRUE
Newer(e) == e.seq > mem.seq

(* ApplySnapshot replaces entries and seq, then persistLocked writes both   *)
(* to cache.json.                                                           *)
SavedEarly(e) == [e EXCEPT !.seq = mem.seq]
Saved(e) == e
Receive ==
    /\ dconn # NoConn /\ wire[dconn] # <<>>
    /\ LET e == Head(wire[dconn])
       IN  IF Newer(e) THEN mem' = e /\ disk' = Saved(e)
           ELSE UNCHANGED <<mem, disk>>
    /\ wire' = [wire EXCEPT ![dconn] = Tail(@)]
    /\ UNCHANGED <<dbVars, opVars, linkVars, gone, dconn, running,
                   ops, accepts, faults, history>>

(* The write fails: dispatch returns the error and the link is torn down.   *)
ReceiveUnsaved ==
    /\ dconn # NoConn /\ wire[dconn] # <<>>
    /\ Newer(Head(wire[dconn]))
    /\ Fault
    /\ mem' = Head(wire[dconn])
    /\ Hangup
    /\ UNCHANGED <<dbVars, opVars, linkVars, running, disk,
                   ops, accepts, history>>

(* Cache.Purge clears the entries, keeps seq and writes cache.json.         *)
PurgedReset == Unsent
PurgedKept == mem
Purged == [mem EXCEPT !.keys = {}]

(* A policy-violation close makes Run purge the cache.                      *)
SeeRejected ==
    /\ dconn # NoConn /\ phase[dconn] = "rejected"
    /\ mem' = Purged
    /\ disk' = Saved(Purged)
    /\ Hangup
    /\ UNCHANGED <<dbVars, opVars, linkVars, running,
                   ops, accepts, faults, history>>

SeeRejectedUnsaved ==
    /\ dconn # NoConn /\ phase[dconn] = "rejected"
    /\ Fault
    /\ mem' = Purged
    /\ Hangup
    /\ UNCHANGED <<dbVars, opVars, linkVars, running, disk,
                   ops, accepts, history>>

SeeClosed ==
    /\ dconn # NoConn /\ phase[dconn] = "closed" /\ wire[dconn] = <<>>
    /\ Hangup
    /\ UNCHANGED <<dbVars, opVars, linkVars, daemonVars,
                   ops, accepts, faults, history>>

(* Pings start with the writer.  A handler blocked on its full channel      *)
(* never starts it, and readTimeout ends the daemon's wait.                 *)
ReadTimeout ==
    /\ dconn # NoConn
    /\ phase[dconn] = "stamped" /\ Full(dconn)
    /\ Hangup
    /\ UNCHANGED <<dbVars, opVars, linkVars, daemonVars,
                   ops, accepts, faults, history>>

(* The link fails, or the control plane is too slow for readTimeout.        *)
LinkDrop ==
    /\ dconn # NoConn
    /\ Fault
    /\ Hangup
    /\ UNCHANGED <<dbVars, opVars, linkVars, daemonVars, ops, accepts, history>>

DaemonCrash ==
    /\ running
    /\ Fault
    /\ running' = FALSE
    /\ IF dconn = NoConn THEN UNCHANGED <<dconn, gone, wire>> ELSE Hangup
    /\ UNCHANGED <<dbVars, opVars, linkVars, mem, disk, ops, accepts, history>>

(* LoadCache *)
LoadedUnnumbered == [disk EXCEPT !.seq = 0]
Loaded == disk
DaemonStart ==
    /\ ~running
    /\ running' = TRUE
    /\ mem' = Loaded
    /\ UNCHANGED <<dbVars, opVars, linkVars, wire, gone, dconn, disk,
                   ops, accepts, faults, history>>

(* authkeys asks the daemon, and reads cache.json when it does not answer.  *)
Authorized == IF running THEN mem.keys ELSE disk.keys

-----------------------------------------------------------------------------
Request(h) == Commit(h) \/ Refresh(h) \/ Revoke(h)
HandlerStep(h) == Build(h) \/ Stamp(h) \/ Fetch(h) \/ Send(h)
ConnStep(c) ==
    \/ Authenticate(c) \/ Register(c) \/ BuildFirst(c) \/ StampFirst(c)
    \/ SkipCancelled(c) \/ QueueFirst(c) \/ WriteDaemon(c) \/ Leave(c) \/ FlushAndClose(c)
DaemonStep ==
    \/ \E c \in Conns : Dial(c)
    \/ Receive \/ SeeRejected \/ SeeClosed \/ ReadTimeout \/ DaemonStart
FaultStep ==
    \/ \E h \in Handlers : Abandon(h)
    \/ \E c \in Conns : SkipFirst(c) \/ ServerDrop(c)
    \/ ServerCrash \/ ReceiveUnsaved \/ SeeRejectedUnsaved
    \/ LinkDrop \/ DaemonCrash

Next ==
    \/ \E h \in Handlers : Request(h) \/ HandlerStep(h)
    \/ \E c \in Conns : ConnStep(c) \/ AuthError(c)
    \/ DaemonStep
    \/ FaultStep

Spec == Init /\ [][Next]_vars

(* Goroutines that can run do run, and systemd restarts the daemon.         *)
(* Requests and faults need not happen.                                     *)
Fairness ==
    /\ \A h \in Handlers : WF_vars(HandlerStep(h))
    /\ \A c \in Conns : WF_vars(ConnStep(c))
    /\ WF_vars(DaemonStep)

FairSpec == Spec /\ Fairness

-----------------------------------------------------------------------------
(* Both copies of the cache hold a list the control plane signed under the  *)
(* very number the copy carries, or nothing: no reordering, restart, failed *)
(* write or purge pairs a number with another number's list (cache.go,      *)
(* ApplySnapshot, Purge and LoadCache).                                     *)
SignedAs(e) ==
    /\ e.seq <= Len(signed)
    /\ e.keys = {} \/ (e.seq > 0 /\ e.keys = signed[e.seq])
AppliedAsSigned == SignedAs(mem) /\ SignedAs(disk)

(* Every numbered envelope a handler holds, a channel queues or a socket    *)
(* carries is the list signed under its number (snapshotEnvelope).          *)
Issued(e) == e.seq \in 1..Len(signed) /\ e.keys = signed[e.seq]
HeldSigned ==
    /\ \A h \in Handlers : pc[h] \in {"fetch", "send"} => Issued(env[h])
    /\ \A c \in Conns : phase[c] = "stamped" => Issued(first[c])
QueueSigned == \A c \in Conns : \A i \in 1..Len(queue[c]) : Issued(queue[c][i])
WireSigned == \A c \in Conns : \A i \in 1..Len(wire[c]) : Issued(wire[c][i])
InFlightSigned == HeldSigned /\ QueueSigned /\ WireSigned

(* The delivery machinery implements the numbered register: seen from the   *)
(* host, nothing happens but whole lists adopted in increasing order,       *)
(* purges and restarts.                                                     *)
Reg == INSTANCE AccessRegister WITH issued <- signed, copy <- mem, file <- disk
ImplementsRegister == Reg!RegSpec

(* The last-known-good file is never ahead of the running daemon, and under *)
(* the same number it differs only by a purge that could not be saved       *)
(* (persistLocked is called after the entries change).                      *)
DiskBehindMemory ==
    running => /\ disk.seq <= mem.seq
               /\ disk.seq = mem.seq => disk.keys = mem.keys \/ mem.keys = {}

(* The daemon has read everything its registered, served connection holds.  *)
Drained(c) ==
    /\ dconn = c /\ hub = c /\ phase[c] = "serving" /\ c \notin cancelled
    /\ queue[c] = <<>> /\ wire[c] = <<>>

(* With no request in flight, a drained connection that queued its initial  *)
(* snapshot and never dropped a push leaves the daemon on the newest list   *)
(* signed by a request or for the registered connection, in whatever order  *)
(* they were queued: registering before building loses no update            *)
(* (daemon_ws.go, handleDaemon).                                            *)
ConvergesToNewest ==
    \A c \in Conns :
        Drained(c) /\ Idle /\ c \in greeted /\ c \notin dropped
            => mem = latest

(* What hub.push relies on when it drops a message: a connection registered *)
(* while no request was in flight brings the daemon to the current access   *)
(* list, whatever was lost, crashed or left unsaved before.                 *)
ReconnectHeals ==
    \A c \in Conns :
        Drained(c) /\ c \in quiet /\ c \in greeted => mem.keys = access

(* A hub entry is removed only by its own handler or with the whole         *)
(* process, never by the cleanup of an older connection (hub.unregister).   *)
EntryOutlivesOthers ==
    [][hub # NoConn /\ hub' = NoConn => phase'[hub] \in {"closing", "closed"}]_vars

(* The applied number goes back only when a restart reloads the file after  *)
(* a failed write (dispatch's seq test, LoadCache).                         *)
SeqForward ==
    [][mem'.seq < mem.seq => (~running /\ running')]_vars

(* Once a host is revoked, the request is over and every connection that    *)
(* was past authentication is torn down, the daemon ends up authorizing     *)
(* nobody and stays there (Run's purge after a policy-violation close).     *)
Severed ==
    /\ status = "revoked" /\ Idle
    /\ \A c \in Conns : phase[c] \in {"free", "auth", "closed", "rejected"}
RevokedHostPurged == Severed ~> [](Authorized = {})

(* handleRevokeHost's comment: "status is set first so the daemon can't     *)
(* reconnect".  Once no request is in flight, a revoked host has no         *)
(* registered connection left uncancelled.                                  *)
RevokedStaysOut ==
    status = "revoked" /\ Idle => hub = NoConn \/ hub \in cancelled
=============================================================================
