----------------------------- MODULE DaemonLink -----------------------------
(***************************************************************************)
(* The daemon's side of a connection to the control plane: the goroutines  *)
(* that share it, the channels between them, and the way a report (a login *)
(* attempt or a read of a secret set) takes from the socket handler to the *)
(* control plane's audit tables.                                           *)
(*                                                                         *)
(* Each connection has a reader, a writer and a forwarder.  They end at    *)
(* different times, so those of an old connection may run beside those of  *)
(* the next.  What the reader does with snapshots and secret sets is in    *)
(* AccessSync and SecretSets; here it only answers pings.                  *)
(***************************************************************************)
EXTENDS Naturals, Sequences

CONSTANTS
    Logins, Reads,   \* the reports of each kind that will be made
    Pong,            \* the answer to a ping
    LogCap,          \* logBufferSize, the buffer of reports of one kind
    SendCap,         \* logBufferSize, the buffer of a connection's send channel
    MaxPings,        \* bound: pings of the control plane
    MaxBreaks        \* bound: failing connections

ASSUME LinkAssumption ==
    /\ Logins \cap Reads = {} /\ Pong \notin Logins \cup Reads
    /\ ({Pong} \cup Logins \cup Reads) \cap {"none", "select", "gone"} = {}
    /\ LogCap \in Nat \ {0} /\ SendCap \in Nat \ {0}
    /\ MaxPings \in Nat /\ MaxBreaks \in Nat

Reports == Logins \cup Reads
Conns == 1..(MaxBreaks + 1)

VARIABLES
    made,      \* the reports made so far
    logs,      \* Client.logs
    reads,     \* Client.reads
    run,       \* the connection Run is serving, or 0 while it is backing off
    dialled,   \* connections made so far
    live,      \* connections whose context is not cancelled
    sound,     \* connections whose network still carries messages
    reader, writer, forwarder,   \* where each connection's goroutines are
    send,      \* each connection's send channel
    wire,      \* messages written and not yet read by the control plane
    stored,    \* rows of ssh_access_logs and set_audit_logs, in order
    lost,      \* reports dropped on their way
    pings

queues == <<made, logs, reads>>
procs == <<reader, writer, forwarder>>
vars == <<queues, run, dialled, live, sound, procs, send, wire, stored, lost, pings>>

Item == Reports \cup {Pong}

TypeOK ==
    /\ made \in SUBSET Reports
    /\ logs \in Seq(Logins) /\ Len(logs) <= LogCap
    /\ reads \in Seq(Reads) /\ Len(reads) <= LogCap
    /\ run \in Conns \cup {0} /\ dialled \in Conns \cup {0}
    /\ live \in SUBSET Conns /\ sound \in SUBSET Conns
    /\ reader \in [Conns -> {"none", "read", "pong", "gone"}]
    /\ writer \in [Conns -> {"none", "select", "gone"} \cup Item]
    /\ forwarder \in [Conns -> {"none", "select", "gone"} \cup Reports]
    /\ send \in [Conns -> Seq(Item)] /\ wire \in [Conns -> Seq(Item)]
    /\ \A c \in Conns : Len(send[c]) <= SendCap
    /\ stored \in Seq(Reports) /\ lost \in SUBSET Reports
    /\ pings \in 0..MaxPings

Init ==
    /\ made = {} /\ logs = <<>> /\ reads = <<>>
    /\ run = 0 /\ dialled = 0 /\ live = {} /\ sound = {}
    /\ reader = [c \in Conns |-> "none"]
    /\ writer = [c \in Conns |-> "none"]
    /\ forwarder = [c \in Conns |-> "none"]
    /\ send = [c \in Conns |-> <<>>] /\ wire = [c \in Conns |-> <<>>]
    /\ stored = <<>> /\ lost = {} /\ pings = 0

Lose(S) == lost' = lost \cup (S \cap Reports)
Room(c) == Len(send[c]) < SendCap

-----------------------------------------------------------------------------
(* The socket handlers never wait: a full buffer drops the report.          *)
RecordAccess(r) ==
    /\ r \in Logins \ made /\ made' = made \cup {r}
    /\ IF Len(logs) < LogCap THEN logs' = Append(logs, r) /\ UNCHANGED lost
                             ELSE Lose({r}) /\ UNCHANGED logs
    /\ UNCHANGED <<reads, run, dialled, live, sound, procs, send, wire, stored, pings>>

RecordSecretRead(r) ==
    /\ r \in Reads \ made /\ made' = made \cup {r}
    /\ IF Len(reads) < LogCap THEN reads' = Append(reads, r) /\ UNCHANGED lost
                              ELSE Lose({r}) /\ UNCHANGED reads
    /\ UNCHANGED <<logs, run, dialled, live, sound, procs, send, wire, stored, pings>>

-----------------------------------------------------------------------------
(* Run dials again after each connection; connectAndServe starts the three  *)
(* goroutines.  A dial that fails is only a longer wait.                    *)
ConnectAndServe ==
    /\ run = 0 /\ dialled < MaxBreaks + 1
    /\ LET c == dialled + 1 IN
        /\ dialled' = c /\ run' = c
        /\ live' = live \cup {c} /\ sound' = sound \cup {c}
        /\ reader' = [reader EXCEPT ![c] = "read"]
        /\ writer' = [writer EXCEPT ![c] = "select"]
        /\ forwarder' = [forwarder EXCEPT ![c] = "select"]
    /\ UNCHANGED <<queues, send, wire, stored, lost, pings>>

(* The network fails: the reader's and the writer's next call returns an    *)
(* error, and what was on the way does not arrive.                          *)
Break(c) ==
    /\ c \in sound /\ c <= MaxBreaks
    /\ sound' = sound \ {c}
    /\ Lose({wire[c][i] : i \in 1..Len(wire[c])})
    /\ wire' = [wire EXCEPT ![c] = <<>>]
    /\ UNCHANGED <<queues, run, dialled, live, procs, send, stored, pings>>

(* The read loop.  A ping is answered by a send that waits for room, on the *)
(* context or not.                                                          *)
ReadPing(c) ==
    /\ reader[c] = "read" /\ c \in live \cap sound /\ pings < MaxPings
    /\ pings' = pings + 1
    /\ reader' = [reader EXCEPT ![c] = "pong"]
    /\ UNCHANGED <<queues, run, dialled, live, sound, writer, forwarder, send, wire,
                   stored, lost>>

SendPong(c) ==
    /\ reader[c] = "pong" /\ Room(c)
    /\ send' = [send EXCEPT ![c] = Append(@, Pong)]
    /\ reader' = [reader EXCEPT ![c] = "read"]
    /\ UNCHANGED <<queues, run, dialled, live, sound, writer, forwarder, wire, stored,
                   lost, pings>>

NoReadTimeout(c) ==
    /\ reader[c] = "read" /\ c \notin live
    /\ reader' = [reader EXCEPT ![c] = "gone"]
    /\ run' = 0
    /\ UNCHANGED <<queues, dialled, live, sound, writer, forwarder, send, wire, stored,
                   lost, pings>>

(* The read fails: connectAndServe returns, its deferred cancel runs and    *)
(* Run backs off.                                                           *)
ReadFails(c) ==
    /\ reader[c] = "read" /\ c \notin live \cap sound
    /\ reader' = [reader EXCEPT ![c] = "gone"]
    /\ live' = live \ {c} /\ run' = 0
    /\ UNCHANGED <<queues, dialled, sound, writer, forwarder, send, wire, stored, lost,
                   pings>>

-----------------------------------------------------------------------------
(* The write loop.  Where a cancelled context and a message are both ready, *)
(* select may take either.                                                  *)
WriteTake(c) ==
    /\ writer[c] = "select" /\ send[c] # <<>>
    /\ writer' = [writer EXCEPT ![c] = Head(send[c])]
    /\ send' = [send EXCEPT ![c] = Tail(@)]
    /\ UNCHANGED <<queues, run, dialled, live, sound, reader, forwarder, wire, stored,
                   lost, pings>>

WriteOk(c) ==
    /\ writer[c] \in Item /\ c \in live \cap sound
    /\ wire' = [wire EXCEPT ![c] = Append(@, writer[c])]
    /\ writer' = [writer EXCEPT ![c] = "select"]
    /\ UNCHANGED <<queues, run, dialled, live, sound, reader, forwarder, send, stored,
                   lost, pings>>

(* A failed write cancels the connection and drops the message.             *)
WriteFails(c) ==
    /\ writer[c] \in Item /\ c \notin live \cap sound
    /\ live' = live \ {c}
    /\ writer' = [writer EXCEPT ![c] = "gone"]
    /\ Lose({writer[c]})
    /\ UNCHANGED <<queues, run, dialled, sound, reader, forwarder, send, wire, stored,
                   pings>>

WriteQuits(c) ==
    /\ writer[c] = "select" /\ c \notin live
    /\ writer' = [writer EXCEPT ![c] = "gone"]
    /\ UNCHANGED <<queues, run, dialled, live, sound, reader, forwarder, send, wire,
                   stored, lost, pings>>

-----------------------------------------------------------------------------
(* The forwarder takes a report of either kind, ...                         *)
ForwardLogins(c) ==
    /\ forwarder[c] = "select" /\ logs # <<>>
    /\ logs' = Tail(logs)
    /\ forwarder' = [forwarder EXCEPT ![c] = Head(logs)]
    /\ UNCHANGED <<made, reads, run, dialled, live, sound, reader, writer, send, wire,
                   stored, lost, pings>>

ForwardTake(c) ==
    /\ forwarder[c] = "select"
    /\ \/ /\ logs # <<>> /\ logs' = Tail(logs) /\ UNCHANGED reads
          /\ forwarder' = [forwarder EXCEPT ![c] = Head(logs)]
       \/ /\ reads # <<>> /\ reads' = Tail(reads) /\ UNCHANGED logs
          /\ forwarder' = [forwarder EXCEPT ![c] = Head(reads)]
    /\ UNCHANGED <<made, run, dialled, live, sound, reader, writer, send, wire, stored,
                   lost, pings>>

(* ... and hands it to the writer unless the connection is cancelled first. *)
ForwardAgain(c) ==
    /\ forwarder[c] \in Reports /\ Room(c)
    /\ send' = [send EXCEPT ![c] = Append(@, forwarder[c])]
    /\ UNCHANGED <<queues, run, dialled, live, sound, procs, wire, stored, lost, pings>>

Forward(c) ==
    /\ forwarder[c] \in Reports
    /\ \/ /\ Room(c) /\ UNCHANGED lost
          /\ send' = [send EXCEPT ![c] = Append(@, forwarder[c])]
       \/ /\ c \notin live /\ UNCHANGED send
          /\ Lose({forwarder[c]})
    /\ forwarder' = [forwarder EXCEPT ![c] = "select"]
    /\ UNCHANGED <<queues, run, dialled, live, sound, reader, writer, wire, stored, pings>>

ForwardQuits(c) ==
    /\ forwarder[c] = "select" /\ c \notin live
    /\ forwarder' = [forwarder EXCEPT ![c] = "gone"]
    /\ UNCHANGED <<queues, run, dialled, live, sound, reader, writer, send, wire, stored,
                   lost, pings>>

-----------------------------------------------------------------------------
(* The control plane inserts a row for each report it reads; an insert that *)
(* fails is ignored.                                                        *)
ReadDaemon(c) ==
    /\ wire[c] # <<>>
    /\ wire' = [wire EXCEPT ![c] = Tail(@)]
    /\ \/ /\ UNCHANGED lost
          /\ stored' = IF Head(wire[c]) = Pong THEN stored ELSE Append(stored, Head(wire[c]))
       \/ /\ Head(wire[c]) # Pong /\ UNCHANGED stored
          /\ Lose({Head(wire[c])})
    /\ UNCHANGED <<queues, run, dialled, live, sound, procs, send, pings>>

ReaderStep(c) == SendPong(c) \/ ReadFails(c)
WriterStep(c) == WriteTake(c) \/ WriteOk(c) \/ WriteFails(c) \/ WriteQuits(c)
ForwarderStep(c) == ForwardTake(c) \/ Forward(c) \/ ForwardQuits(c)

Next ==
    \/ \E r \in Logins : RecordAccess(r)
    \/ \E r \in Reads : RecordSecretRead(r)
    \/ ConnectAndServe
    \/ \E c \in Conns :
        \/ Break(c) \/ ReadPing(c)
        \/ ReaderStep(c) \/ WriterStep(c) \/ ForwarderStep(c) \/ ReadDaemon(c)

(* Every goroutine that can take a step takes one sooner or later, a write  *)
(* returns, and Run dials until it succeeds.                                *)
Fairness ==
    /\ WF_vars(ConnectAndServe)
    /\ \A c \in Conns :
        /\ WF_vars(ReaderStep(c)) /\ WF_vars(WriterStep(c))
        /\ WF_vars(ForwarderStep(c)) /\ WF_vars(ReadDaemon(c))

Spec == Init /\ [][Next]_vars /\ Fairness

-----------------------------------------------------------------------------
(* Properties.                                                              *)

(* Every place in which a report is.                                        *)
In(q, r) == {i \in 1..Len(q) : q[i] = r}
Places(r) ==
    {<<"logs", 0, i>> : i \in In(logs, r)} \cup {<<"reads", 0, i>> : i \in In(reads, r)}
    \cup {<<"forwarder", c, 0>> : c \in {d \in Conns : forwarder[d] = r}}
    \cup {<<"writer", c, 0>> : c \in {d \in Conns : writer[d] = r}}
    \cup (UNION {{<<"send", c, i>> : i \in In(send[c], r)} : c \in Conns})
    \cup (UNION {{<<"wire", c, i>> : i \in In(wire[c], r)} : c \in Conns})
    \cup {<<"stored", 0, i>> : i \in In(stored, r)}
    \cup {<<"lost", 0, 0>> : x \in {r} \cap lost}

(* A report that was made is in exactly one place, however many connections *)
(* come and go and however their goroutines overlap: it is never stored     *)
(* twice, never invented, and never disappears but at one of the places     *)
(* where the code gives it up.  No buffer or channel exceeds its capacity.  *)
Accounted ==
    /\ TypeOK
    /\ \A r \in Reports : IF r \in made THEN \E p \in Places(r) : Places(r) = {p}
                                       ELSE Places(r) = {}

(* What is in the channel of a writer that is gone.                         *)
Stranded(r) == \E c \in Conns : writer[c] = "gone" /\ In(send[c], r) # {}

(* The reader waits to send a pong to a channel nobody empties any more.    *)
Stuck(c) == reader[c] = "pong" /\ writer[c] = "gone" /\ ~Room(c)

(* A report does not stay in the daemon for ever: it is stored, or it is    *)
(* given up with a connection or at a full buffer.  The one way to keep it  *)
(* waiting is a stuck connection, which the daemon never replaces.          *)
Reported ==
    \A r \in Reports :
        r \in made ~> \/ In(stored, r) # {} \/ r \in lost \/ Stranded(r)
                     \/ \E c \in Conns : run = c /\ Stuck(c)

(* "reconnecting with jittered backoff whenever the link drops": Run leaves *)
(* a connection that is cancelled or whose network fails, unless its reader *)
(* is stuck: the pong's send does not look at the context.                  *)
Reconnects ==
    \A c \in Conns : run = c /\ c \notin live \cap sound ~> run # c \/ Stuck(c)
=============================================================================
