---------------------------- MODULE Daemon_proofs ----------------------------
(***************************************************************************)
(* Proofs about the daemon's link and its upgrades, for any number of      *)
(* reports, pings, connections, releases, requests, crashes and failures   *)
(* and any capacities.                                                     *)
(***************************************************************************)
EXTENDS DaemonLink, Upgrade, TLAPS

(* Zenon proves most leaves; one that needs arithmetic, sequences or record *)
(* updates names SMT.                                                       *)
USE Zenon

-----------------------------------------------------------------------------
(* DaemonLink: a report is in exactly one place.  Places counts positions,  *)
(* which shift when a channel moves on; the proof follows the container a   *)
(* report is in and shows besides that no channel holds a report twice.     *)

-----------------------------------------------------------------------------
(* Channels as sets.                                                        *)

Elems(q) == {q[i] : i \in 1..Len(q)}
NoRepeat(q) == \A i, j \in 1..Len(q) : q[i] = q[j] /\ q[i] \in Reports => i = j

(* An empty channel holds nothing. *)
LEMMA EmptyChannel == Elems(<<>>) = {} /\ NoRepeat(<<>>)
BY SMT DEF Elems, NoRepeat

(* A send adds its message at the end, and repeats no report that was not   *)
(* there.                                                                   *)
LEMMA SendChannel ==
    ASSUME NEW T, NEW q \in Seq(T), NEW e \in T
    PROVE  /\ Append(q, e) \in Seq(T) /\ Len(Append(q, e)) = Len(q) + 1
           /\ Elems(Append(q, e)) = Elems(q) \cup {e}
           /\ NoRepeat(q) /\ (e \in Elems(q) => e \notin Reports) => NoRepeat(Append(q, e))
<1>1. Len(q) \in Nat BY SMT
<1>2. /\ Append(q, e) \in Seq(T) /\ Len(Append(q, e)) = Len(q) + 1
      /\ \A i \in 1..Len(q) : Append(q, e)[i] = q[i]
      /\ Append(q, e)[Len(q) + 1] = e
  BY SMT
<1>3. 1..(Len(q) + 1) = 1..Len(q) \cup {Len(q) + 1} BY SMT, <1>1
<1>4. Elems(Append(q, e)) = Elems(q) \cup {e} BY <1>1, <1>2, <1>3 DEF Elems
<1>5. ASSUME NoRepeat(q), e \in Elems(q) => e \notin Reports PROVE NoRepeat(Append(q, e))
  <2>1. \A i \in 1..Len(q) : q[i] = e => e \notin Reports BY <1>5 DEF Elems
  <2> QED BY SMT, <1>2, <1>3, <1>5, <2>1 DEF NoRepeat
<1> QED BY <1>2, <1>4, <1>5

(* A receive takes the oldest message, which is not there again if it is a  *)
(* report.                                                                  *)
LEMMA ReceiveChannel ==
    ASSUME NEW T, NEW q \in Seq(T), q # <<>>
    PROVE  /\ Head(q) \in T /\ Tail(q) \in Seq(T) /\ Len(Tail(q)) <= Len(q)
           /\ Elems(q) = Elems(Tail(q)) \cup {Head(q)}
           /\ NoRepeat(q) => /\ NoRepeat(Tail(q))
                             /\ Head(q) \in Reports => Head(q) \notin Elems(Tail(q))
<1>1. Len(q) \in Nat \ {0} BY SMT
<1>2. /\ Head(q) = q[1] /\ Head(q) \in T /\ Tail(q) \in Seq(T)
      /\ Len(Tail(q)) = Len(q) - 1
      /\ \A i \in 1..Len(Tail(q)) : Tail(q)[i] = q[i + 1]
  BY SMT, <1>1
<1>3. \A i \in 1..Len(q) : i = 1 \/ (i - 1 \in 1..Len(Tail(q)) /\ (i - 1) + 1 = i)
  BY SMT, <1>1, <1>2
<1>4. \A i \in 1..Len(Tail(q)) : i + 1 \in 1..Len(q) /\ i + 1 # 1 BY SMT, <1>1, <1>2
<1>5. 1 \in 1..Len(q) /\ Len(Tail(q)) <= Len(q) BY SMT, <1>1, <1>2
<1>6. ASSUME NEW e \in Elems(q) PROVE e \in Elems(Tail(q)) \cup {Head(q)}
  <2>1. PICK i \in 1..Len(q) : e = q[i] BY <1>6 DEF Elems
  <2>2. CASE i = 1 BY <1>2, <2>1, <2>2
  <2>3. CASE i # 1
    <3>1. i - 1 \in 1..Len(Tail(q)) /\ Tail(q)[i - 1] = e BY <1>2, <1>3, <2>1, <2>3
    <3> QED BY <3>1 DEF Elems
  <2> QED BY <2>2, <2>3
<1>7. ASSUME NEW e \in Elems(Tail(q)) \cup {Head(q)} PROVE e \in Elems(q)
  <2>1. CASE e = Head(q) BY <1>2, <1>5, <2>1 DEF Elems
  <2>2. CASE e \in Elems(Tail(q))
    <3>1. PICK i \in 1..Len(Tail(q)) : e = Tail(q)[i] BY <2>2 DEF Elems
    <3>2. e = q[i + 1] /\ i + 1 \in 1..Len(q) BY <1>2, <1>4, <3>1
    <3> QED BY <3>2 DEF Elems
  <2> QED BY <1>7, <2>1, <2>2
<1>8. ASSUME NoRepeat(q) PROVE NoRepeat(Tail(q))
  <2> SUFFICES ASSUME NEW i \in 1..Len(Tail(q)), NEW j \in 1..Len(Tail(q)),
                      Tail(q)[i] = Tail(q)[j], Tail(q)[i] \in Reports
               PROVE  i = j
    BY DEF NoRepeat
  <2>1. q[i + 1] = q[j + 1] /\ q[i + 1] \in Reports /\ i + 1 \in 1..Len(q) /\ j + 1 \in 1..Len(q)
    BY <1>2, <1>4
  <2>2. i + 1 = j + 1 BY <1>8, <2>1 DEF NoRepeat
  <2> QED BY SMT, <2>2
<1>9. ASSUME NoRepeat(q), Head(q) \in Reports, Head(q) \in Elems(Tail(q)) PROVE FALSE
  <2>1. PICK i \in 1..Len(Tail(q)) : Head(q) = Tail(q)[i] BY <1>9 DEF Elems
  <2>2. q[1] = q[i + 1] /\ i + 1 \in 1..Len(q) /\ i + 1 # 1 BY <1>2, <1>4, <2>1
  <2> QED BY <1>2, <1>5, <1>9, <2>2 DEF NoRepeat
<1> QED BY <1>2, <1>5, <1>6, <1>7, <1>8, <1>9

-----------------------------------------------------------------------------
(* Types.                                                                   *)

(* No goroutine runs for a connection that was not made yet.                *)
Undialled ==
    \A c \in Conns : c > dialled =>
        reader[c] = "none" /\ writer[c] = "none" /\ forwarder[c] = "none"

(* Nothing has happened at first. *)
LEMMA InitTypes == Init => TypeOK /\ Undialled
<1> SUFFICES ASSUME Init PROVE TypeOK /\ Undialled
  OBVIOUS
<1> USE LinkAssumption DEF Init
<1>1. Conns \subseteq Nat /\ Len(<<>>) = 0 BY SMT DEF Conns
<1>2. Undialled BY DEF Undialled
<1>3. TypeOK BY SMT, <1>1 DEF TypeOK
<1> QED BY <1>2, <1>3

(* Every step keeps every variable in its type and every buffer and channel *)
(* within its capacity.                                                     *)
LEMMA StepTypes == TypeOK /\ Undialled /\ [Next]_vars => TypeOK' /\ Undialled'
<1> SUFFICES ASSUME TypeOK, Undialled, [Next]_vars PROVE TypeOK' /\ Undialled'
  OBVIOUS
<1> USE LinkAssumption DEF queues, procs
<1>0. /\ \A c \in Conns : c \in Nat
      /\ \A q : q \in Seq(Logins) => Len(q) \in Nat
      /\ \A q : q \in Seq(Reads) => Len(q) \in Nat
      /\ \A q : q \in Seq(Item) => Len(q) \in Nat
      /\ Reports \subseteq Item /\ Pong \in Item /\ Len(<<>>) = 0
  BY SMT DEF Conns, Item
<1>1. ASSUME NEW r \in Logins, RecordAccess(r) PROVE TypeOK' /\ Undialled'
  <2>1. Append(logs, r) \in Seq(Logins) /\ Len(Append(logs, r)) = Len(logs) + 1
    BY SendChannel DEF TypeOK
  <2>2. logs' \in Seq(Logins) /\ Len(logs') <= LogCap
    <3>1. CASE Len(logs) < LogCap
      <4>1. Len(logs) \in Nat /\ logs' = Append(logs, r) BY SMT, <1>1, <3>1 DEF RecordAccess, TypeOK
      <4>2. Len(logs) + 1 <= LogCap BY SMT, <3>1, <4>1
      <4> QED BY <2>1, <4>1, <4>2
    <3>2. CASE ~(Len(logs) < LogCap) BY <1>1, <3>2 DEF RecordAccess, TypeOK
    <3> QED BY <3>1, <3>2
  <2> QED BY <1>1, <2>2 DEF RecordAccess, Lose, Reports, TypeOK, Undialled
<1>2. ASSUME NEW r \in Reads, RecordSecretRead(r) PROVE TypeOK' /\ Undialled'
  <2>1. Append(reads, r) \in Seq(Reads) /\ Len(Append(reads, r)) = Len(reads) + 1
    BY SendChannel DEF TypeOK
  <2>2. reads' \in Seq(Reads) /\ Len(reads') <= LogCap
    <3>1. CASE Len(reads) < LogCap
      <4>1. Len(reads) \in Nat /\ reads' = Append(reads, r) BY SMT, <1>2, <3>1 DEF RecordSecretRead, TypeOK
      <4>2. Len(reads) + 1 <= LogCap BY SMT, <3>1, <4>1
      <4> QED BY <2>1, <4>1, <4>2
    <3>2. CASE ~(Len(reads) < LogCap) BY <1>2, <3>2 DEF RecordSecretRead, TypeOK
    <3> QED BY <3>1, <3>2
  <2> QED BY <1>2, <2>2 DEF RecordSecretRead, Lose, Reports, TypeOK, Undialled
<1>3. ASSUME ConnectAndServe PROVE TypeOK' /\ Undialled'
  <2>1. dialled \in Nat /\ dialled + 1 \in Conns
    BY SMT, <1>3 DEF TypeOK, Conns, ConnectAndServe
  <2>2. Undialled'
    BY SMT, <1>0, <1>3, <2>1 DEF ConnectAndServe, TypeOK, Undialled
  <2>3. TypeOK'
    BY <1>3, <2>1 DEF ConnectAndServe, TypeOK
  <2> QED BY <2>2, <2>3
<1>4. ASSUME NEW c \in Conns, Break(c) PROVE TypeOK' /\ Undialled'
  <2>1. wire' \in [Conns -> Seq(Item)] BY SMT, <1>4 DEF Break, TypeOK
  <2>2. lost' \in SUBSET Reports /\ sound' \in SUBSET Conns BY <1>4 DEF Break, Lose, TypeOK
  <2> QED BY <1>4, <2>1, <2>2 DEF Break, TypeOK, Undialled
<1>5. ASSUME NEW c \in Conns, ReadPing(c) PROVE TypeOK' /\ Undialled'
  <2>1. pings' \in 0..MaxPings BY SMT, <1>5 DEF ReadPing, TypeOK
  <2>2. reader' \in [Conns -> {"none", "read", "pong", "gone"}]
    BY <1>5 DEF ReadPing, TypeOK
  <2> QED BY <1>0, <1>5, <2>1, <2>2 DEF ReadPing, TypeOK, Undialled
<1>6. ASSUME NEW c \in Conns, SendPong(c) PROVE TypeOK' /\ Undialled'
  <2>1. /\ Append(send[c], Pong) \in Seq(Item)
        /\ Len(Append(send[c], Pong)) = Len(send[c]) + 1
    BY <1>0, SendChannel DEF TypeOK
  <2>2. Len(send[c]) + 1 <= SendCap BY SMT, <1>0, <1>6 DEF SendPong, Room, TypeOK
  <2> QED BY <1>0, <1>6, <2>1, <2>2 DEF SendPong, TypeOK, Undialled
<1>7. ASSUME NEW c \in Conns, ReadFails(c) PROVE TypeOK' /\ Undialled'
  BY <1>7 DEF ReadFails, TypeOK, Undialled
<1>8. ASSUME NEW c \in Conns, WriteTake(c) PROVE TypeOK' /\ Undialled'
  <2>1. /\ Head(send[c]) \in Item /\ Tail(send[c]) \in Seq(Item)
        /\ Len(Tail(send[c])) <= Len(send[c])
    BY <1>8, ReceiveChannel DEF WriteTake, TypeOK
  <2>2. Len(Tail(send[c])) <= SendCap BY SMT, <1>0, <2>1 DEF TypeOK
  <2> QED BY <1>8, <2>1, <2>2 DEF WriteTake, TypeOK, Undialled
<1>9. ASSUME NEW c \in Conns, WriteOk(c) PROVE TypeOK' /\ Undialled'
  <2>1. Append(wire[c], writer[c]) \in Seq(Item)
    BY <1>9, SendChannel DEF WriteOk, TypeOK
  <2>2. writer[c] # "none" BY <1>9 DEF WriteOk, Item, Reports
  <2> QED BY <1>9, <2>1, <2>2 DEF WriteOk, TypeOK, Undialled
<1>10. ASSUME NEW c \in Conns, WriteFails(c) \/ WriteQuits(c) PROVE TypeOK' /\ Undialled'
  <2>1. writer[c] # "none" BY <1>10 DEF WriteFails, WriteQuits, Item, Reports
  <2>2. TypeOK' BY <1>10 DEF WriteFails, WriteQuits, Lose, TypeOK
  <2>3. UNCHANGED <<dialled, reader, forwarder>> /\ \A d \in Conns \ {c} : writer'[d] = writer[d]
    BY <1>10 DEF WriteFails, WriteQuits, TypeOK
  <2> QED BY <2>1, <2>2, <2>3 DEF Undialled
<1>11. ASSUME NEW c \in Conns, ForwardTake(c) PROVE TypeOK' /\ Undialled'
  <2>1. CASE logs # <<>> /\ logs' = Tail(logs) /\ UNCHANGED reads
             /\ forwarder' = [forwarder EXCEPT ![c] = Head(logs)]
    <3>1. /\ Head(logs) \in Logins /\ Tail(logs) \in Seq(Logins)
          /\ Len(Tail(logs)) <= Len(logs)
      BY <2>1, ReceiveChannel DEF TypeOK
    <3>2. Len(Tail(logs)) <= LogCap BY SMT, <1>0, <3>1 DEF TypeOK
    <3> QED BY <1>11, <2>1, <3>1, <3>2 DEF ForwardTake, TypeOK, Undialled, Reports
  <2>2. CASE reads # <<>> /\ reads' = Tail(reads) /\ UNCHANGED logs
             /\ forwarder' = [forwarder EXCEPT ![c] = Head(reads)]
    <3>1. /\ Head(reads) \in Reads /\ Tail(reads) \in Seq(Reads)
          /\ Len(Tail(reads)) <= Len(reads)
      BY <2>2, ReceiveChannel DEF TypeOK
    <3>2. Len(Tail(reads)) <= LogCap BY SMT, <1>0, <3>1 DEF TypeOK
    <3> QED BY <1>11, <2>2, <3>1, <3>2 DEF ForwardTake, TypeOK, Undialled, Reports
  <2> QED BY <1>11, <2>1, <2>2 DEF ForwardTake
<1>12. ASSUME NEW c \in Conns, Forward(c) PROVE TypeOK' /\ Undialled'
  <2>1. /\ Append(send[c], forwarder[c]) \in Seq(Item)
        /\ Len(Append(send[c], forwarder[c])) = Len(send[c]) + 1
    BY SMT, <1>0, <1>12, SendChannel DEF Forward, TypeOK
  <2>2. Room(c) => Len(send[c]) + 1 <= SendCap BY SMT, <1>0 DEF Room, TypeOK
  <2>3. send' \in [Conns -> Seq(Item)] /\ \A d \in Conns : Len(send'[d]) <= SendCap
    BY <1>12, <2>1, <2>2 DEF Forward, TypeOK
  <2>4. forwarder[c] # "none" BY <1>12 DEF Forward, Reports
  <2> QED BY <1>12, <2>3, <2>4 DEF Forward, Lose, TypeOK, Undialled
<1>13. ASSUME NEW c \in Conns, ForwardQuits(c) PROVE TypeOK' /\ Undialled'
  BY <1>13 DEF ForwardQuits, TypeOK, Undialled
<1>14. ASSUME NEW c \in Conns, ReadDaemon(c) PROVE TypeOK' /\ Undialled'
  <2>1. Head(wire[c]) \in Item /\ Tail(wire[c]) \in Seq(Item)
    BY <1>14, ReceiveChannel DEF ReadDaemon, TypeOK
  <2>2. Head(wire[c]) # Pong => Append(stored, Head(wire[c])) \in Seq(Reports)
    BY <2>1, SendChannel DEF TypeOK, Item
  <2>3. stored' \in Seq(Reports)
    BY <1>14, <2>2 DEF ReadDaemon, TypeOK
  <2> QED BY <1>14, <2>1, <2>3 DEF ReadDaemon, Lose, TypeOK, Undialled
<1>15. CASE UNCHANGED vars BY <1>15 DEF vars, TypeOK, Undialled
<1> QED
  BY <1>1, <1>2, <1>3, <1>4, <1>5, <1>6, <1>7, <1>8, <1>9, <1>10, <1>11, <1>12, <1>13, <1>14,
     <1>15 DEF Next, ReaderStep, WriterStep, ForwarderStep

-----------------------------------------------------------------------------
(* Where a report sits: the container, and its connection where it has one. *)

Containers == {"logs", "reads", "forwarder", "writer", "send", "wire", "stored", "lost"}

Sits(k, c, r) ==
    \/ k = "logs" /\ c = 0 /\ r \in Elems(logs)
    \/ k = "reads" /\ c = 0 /\ r \in Elems(reads)
    \/ k = "forwarder" /\ c \in Conns /\ r = forwarder[c]
    \/ k = "writer" /\ c \in Conns /\ r = writer[c]
    \/ k = "send" /\ c \in Conns /\ r \in Elems(send[c])
    \/ k = "wire" /\ c \in Conns /\ r \in Elems(wire[c])
    \/ k = "stored" /\ c = 0 /\ r \in Elems(stored)
    \/ k = "lost" /\ c = 0 /\ r \in lost

(* A report that was made sits somewhere, one that was not sits nowhere,    *)
(* and none sits in two containers.                                         *)
Located ==
    \A r \in Reports :
        /\ r \in made <=> \E k \in Containers, c \in Conns \cup {0} : Sits(k, c, r)
        /\ \A k, l \in Containers, c, d \in Conns \cup {0} :
            Sits(k, c, r) /\ Sits(l, d, r) => k = l /\ c = d

(* No channel holds a report twice. *)
Tidy ==
    /\ NoRepeat(logs) /\ NoRepeat(reads) /\ NoRepeat(stored)
    /\ \A c \in Conns : NoRepeat(send[c]) /\ NoRepeat(wire[c])

LinkInv == TypeOK /\ Undialled /\ Located /\ Tidy

(* In a state where every report has its place, a report that sits in one   *)
(* container sits in no other.                                              *)
LEMMA OnlyThere ==
    ASSUME Located, NEW r \in Reports, NEW k \in Containers, NEW c \in Conns \cup {0},
           Sits(k, c, r)
    PROVE  /\ r \in made
           /\ \A l \in Containers, d \in Conns \cup {0} :
                Sits(l, d, r) <=> l = k /\ d = c
BY DEF Located

(* A step takes the reports of S to one container and leaves the others     *)
(* where they are.                                                          *)
Takes(S, k, c) ==
    \A r \in Reports, l \in Containers, d \in Conns \cup {0} :
        Sits(l, d, r)' <=> IF r \in S THEN l = k /\ d = c ELSE Sits(l, d, r)

(* A step that moves some reports that were made keeps every report in its  *)
(* place.                                                                   *)
LEMMA Move ==
    ASSUME Located, made' = made, NEW S, S \subseteq made,
           NEW k \in Containers, NEW c \in Conns \cup {0}, Takes(S, k, c)
    PROVE  Located'
<1> SUFFICES ASSUME NEW r \in Reports
             PROVE  /\ r \in made' <=> \E l \in Containers, d \in Conns \cup {0} : Sits(l, d, r)'
                    /\ \A l, m \in Containers, d, e \in Conns \cup {0} :
                        Sits(l, d, r)' /\ Sits(m, e, r)' => l = m /\ d = e
  BY DEF Located
<1>1. CASE r \in S BY <1>1 DEF Takes
<1>2. CASE r \notin S BY SMT, <1>2 DEF Located, Takes
<1> QED BY <1>1, <1>2

(* A step that makes a report and puts it into one container does too.      *)
LEMMA Arrive ==
    ASSUME Located, NEW x \in Reports, x \notin made, made' = made \cup {x},
           NEW k \in Containers, NEW c \in Conns \cup {0},
           Takes({x}, k, c)
    PROVE  Located'
<1> SUFFICES ASSUME NEW r \in Reports
             PROVE  /\ r \in made' <=> \E l \in Containers, d \in Conns \cup {0} : Sits(l, d, r)'
                    /\ \A l, m \in Containers, d, e \in Conns \cup {0} :
                        Sits(l, d, r)' /\ Sits(m, e, r)' => l = m /\ d = e
  BY DEF Located
<1>1. CASE r = x BY <1>1 DEF Takes
<1>2. CASE r # x BY SMT, <1>2 DEF Located, Takes
<1> QED BY <1>1, <1>2

-----------------------------------------------------------------------------
(* One step of the link.                                                    *)

(* No state of a goroutine is a report, and no connection is number 0.      *)
LEMMA Apart ==
    /\ \A r \in Reports : r \notin {"none", "select", "gone", Pong} /\ r \in Item
    /\ 0 \notin Conns /\ Item = Reports \cup {Pong}
BY SMT, LinkAssumption DEF Reports, Item, Conns

(* A report that is made goes to its buffer, or is lost when that is full.  *)
LEMMA RecordLocated ==
    ASSUME LinkInv, NEW x,
           \/ x \in Logins /\ RecordAccess(x)
           \/ x \in Reads /\ RecordSecretRead(x)
    PROVE  Located' /\ Tidy'
<1>1. x \in Reports /\ x \notin made /\ made' = made \cup {x}
  BY DEF RecordAccess, RecordSecretRead, Reports
<1>2. \A l \in Containers, d \in Conns \cup {0} : ~Sits(l, d, x)
  BY <1>1 DEF LinkInv, Located
<1>3. CASE logs' = Append(logs, x) /\ x \in Logins
           /\ UNCHANGED <<lost, reads, procs, send, wire, stored>>
  <2>1. /\ Elems(logs') = Elems(logs) \cup {x}
        /\ NoRepeat(logs) /\ (x \in Elems(logs) => x \notin Reports) => NoRepeat(logs')
    BY SMT, <1>3, SendChannel DEF LinkInv, TypeOK
  <2>2. x \notin Elems(logs) BY <1>2 DEF Sits, Containers
  <2>3. Tidy' BY <1>3, <2>1, <2>2 DEF LinkInv, Tidy
  <2>4. ASSUME NEW r \in Reports, NEW l \in Containers, NEW d \in Conns \cup {0}
        PROVE  Sits(l, d, r)' <=> IF r = x THEN l = "logs" /\ d = 0 ELSE Sits(l, d, r)
    BY <1>2, <1>3, <2>1, Apart DEF Sits, procs
  <2>5. Located /\ "logs" \in Containers /\ Takes({x}, "logs", 0)
    BY <2>4 DEF LinkInv, Containers, Takes
  <2> QED BY <1>1, <2>3, <2>5, Arrive
<1>4. CASE reads' = Append(reads, x) /\ x \in Reads
           /\ UNCHANGED <<lost, logs, procs, send, wire, stored>>
  <2>1. /\ Elems(reads') = Elems(reads) \cup {x}
        /\ NoRepeat(reads) /\ (x \in Elems(reads) => x \notin Reports) => NoRepeat(reads')
    BY SMT, <1>4, SendChannel DEF LinkInv, TypeOK
  <2>2. x \notin Elems(reads) BY <1>2 DEF Sits, Containers
  <2>3. Tidy' BY <1>4, <2>1, <2>2 DEF LinkInv, Tidy
  <2>4. ASSUME NEW r \in Reports, NEW l \in Containers, NEW d \in Conns \cup {0}
        PROVE  Sits(l, d, r)' <=> IF r = x THEN l = "reads" /\ d = 0 ELSE Sits(l, d, r)
    BY <1>2, <1>4, <2>1, Apart DEF Sits, procs
  <2>5. Located /\ "reads" \in Containers /\ Takes({x}, "reads", 0)
    BY <2>4 DEF LinkInv, Containers, Takes
  <2> QED BY <1>1, <2>3, <2>5, Arrive
<1>5. CASE lost' = lost \cup {x} /\ UNCHANGED <<logs, reads, procs, send, wire, stored>>
  <2>1. Tidy' BY <1>5 DEF LinkInv, Tidy
  <2>2. ASSUME NEW r \in Reports, NEW l \in Containers, NEW d \in Conns \cup {0}
        PROVE  Sits(l, d, r)' <=> IF r = x THEN l = "lost" /\ d = 0 ELSE Sits(l, d, r)
    BY <1>2, <1>5, Apart DEF Sits, procs
  <2>3. Located /\ "lost" \in Containers /\ Takes({x}, "lost", 0)
    BY <2>2 DEF LinkInv, Containers, Takes
  <2> QED BY <1>1, <2>1, <2>3, Arrive
<1>6. {x} \cap Reports = {x} BY <1>1
<1> QED BY <1>3, <1>4, <1>5, <1>6 DEF RecordAccess, RecordSecretRead, Lose

(* Dialling, pings and a goroutine that ends touch no report.               *)
LEMMA QuietLocated ==
    ASSUME LinkInv, NEW c \in Conns,
           \/ ConnectAndServe \/ ReadPing(c) \/ SendPong(c) \/ ReadFails(c)
           \/ WriteQuits(c) \/ ForwardQuits(c) \/ UNCHANGED vars
    PROVE  Located' /\ Tidy'
<1>1. UNCHANGED <<queues, wire, stored, lost>>
  BY DEF ConnectAndServe, ReadPing, SendPong, ReadFails, WriteQuits, ForwardQuits, vars
<1>2. \A d \in Conns :
        /\ NoRepeat(send[d])'
        /\ \A r \in Reports : r \in Elems(send'[d]) <=> r \in Elems(send[d])
  <2>1. CASE SendPong(c)
    <3>1. /\ Elems(Append(send[c], Pong)) = Elems(send[c]) \cup {Pong}
          /\ NoRepeat(send[c]) => NoRepeat(Append(send[c], Pong))
      <4>1. send[c] \in Seq(Item) /\ Pong \in Item /\ Pong \notin Reports
        BY Apart DEF LinkInv, TypeOK
      <4> QED BY SMT, <4>1, SendChannel
    <3>2. send' = [send EXCEPT ![c] = Append(send[c], Pong)] BY <2>1 DEF SendPong
    <3> QED BY <3>1, <3>2, Apart DEF LinkInv, Tidy, TypeOK
  <2>2. CASE UNCHANGED send BY <2>2 DEF LinkInv, Tidy
  <2> QED BY <2>1, <2>2 DEF ConnectAndServe, ReadPing, ReadFails, WriteQuits, ForwardQuits, vars
<1>3. \A d \in Conns, r \in Reports :
        (r = writer'[d] <=> r = writer[d]) /\ (r = forwarder'[d] <=> r = forwarder[d])
  <2>1. CASE ConnectAndServe
    <3>1. dialled \in Nat /\ dialled + 1 \in Conns /\ dialled + 1 > dialled
      BY SMT, <2>1, LinkAssumption DEF LinkInv, TypeOK, Conns, ConnectAndServe
    <3>2. writer[dialled + 1] = "none" /\ forwarder[dialled + 1] = "none"
      BY <3>1 DEF LinkInv, Undialled
    <3> QED BY <2>1, <3>1, <3>2, Apart DEF ConnectAndServe, LinkInv, TypeOK
  <2>2. CASE WriteQuits(c) BY <2>2, Apart DEF WriteQuits, LinkInv, TypeOK
  <2>3. CASE ForwardQuits(c) BY <2>3, Apart DEF ForwardQuits, LinkInv, TypeOK
  <2>4. CASE UNCHANGED <<writer, forwarder>> BY <2>4
  <2> QED BY <2>1, <2>2, <2>3, <2>4 DEF ReadPing, SendPong, ReadFails, vars, procs
<1>4. Tidy' BY <1>1, <1>2 DEF LinkInv, Tidy, queues
<1>5. ASSUME NEW r \in Reports, NEW l \in Containers, NEW d \in Conns \cup {0}
      PROVE  Sits(l, d, r)' <=> IF r \in {} THEN l = "lost" /\ d = 0 ELSE Sits(l, d, r)
  BY <1>1, <1>2, <1>3 DEF Sits, queues
<1>6. made' = made BY <1>1 DEF queues
<1>7. Located /\ "lost" \in Containers /\ Takes({}, "lost", 0)
  BY <1>5 DEF LinkInv, Containers, Takes
<1> QED BY <1>4, <1>6, <1>7, Move

(* A connection that fails loses what is on its wire.                       *)
LEMMA BreakLocated ==
    ASSUME LinkInv, NEW c \in Conns, Break(c)
    PROVE  Located' /\ Tidy'
<1> DEFINE S == Elems(wire[c]) \cap Reports
<1>1. /\ UNCHANGED <<made, logs, reads, writer, forwarder, send, stored>>
      /\ lost' = lost \cup S
      /\ wire'[c] = <<>> /\ \A d \in Conns : d # c => wire'[d] = wire[d]
  BY DEF Break, Lose, Elems, queues, procs, LinkInv, TypeOK
<1>2. Tidy' BY <1>1, EmptyChannel DEF LinkInv, Tidy
<1>3. ASSUME NEW r \in Reports, r \in S
      PROVE  /\ r \in made
             /\ \A l \in Containers, d \in Conns \cup {0} :
                    Sits(l, d, r) <=> l = "wire" /\ d = c
  <2>1. Sits("wire", c, r) BY <1>3 DEF Sits
  <2> QED BY SMT, <2>1, OnlyThere DEF LinkInv, Containers
<1>4. ASSUME NEW r \in Reports, NEW l \in Containers, NEW d \in Conns \cup {0}
      PROVE  Sits(l, d, r)' <=> IF r \in S THEN l = "lost" /\ d = 0 ELSE Sits(l, d, r)
  <2>1. CASE r \in S
    <3>1. Sits(l, d, r) <=> l = "wire" /\ d = c BY <1>3, <2>1
    <3> QED BY <1>1, <2>1, <3>1, Apart, EmptyChannel DEF Sits
  <2>2. CASE r \notin S
    BY <1>1, <2>2, Apart, EmptyChannel DEF Sits
  <2> QED BY <2>1, <2>2
<1>5. Located /\ "lost" \in Containers /\ Takes(S, "lost", 0)
  BY <1>4 DEF LinkInv, Containers, Takes
<1>6. S \subseteq made BY <1>3
<1> HIDE DEF S
<1> QED BY <1>1, <1>2, <1>5, <1>6, Move


(* A message that is a report is where it is taken from, and nowhere else.  *)
LEMMA Taken ==
    ASSUME Located, NEW e, NEW k \in Containers, NEW c \in Conns \cup {0},
           e \in Reports => Sits(k, c, e)
    PROVE  /\ {e} \cap Reports \subseteq made
           /\ \A r \in {e} \cap Reports, l \in Containers, d \in Conns \cup {0} :
                Sits(l, d, r) <=> l = k /\ d = c
BY SMT, OnlyThere

(* The writer takes a message from its channel. *)
LEMMA WriteTakeLocated ==
    ASSUME LinkInv, NEW c \in Conns, WriteTake(c)
    PROVE  Located' /\ Tidy'
<1> DEFINE e == Head(send[c])
<1> DEFINE S == {e} \cap Reports
<1>1. /\ UNCHANGED <<made, logs, reads, forwarder, wire, stored, lost>>
      /\ writer[c] = "select" /\ writer'[c] = e /\ send'[c] = Tail(send[c])
      /\ \A d \in Conns : d # c => writer'[d] = writer[d] /\ send'[d] = send[d]
  BY DEF WriteTake, queues, LinkInv, TypeOK
<1>2. /\ e \in Item /\ Elems(send[c]) = Elems(Tail(send[c])) \cup {e}
      /\ NoRepeat(Tail(send[c])) /\ (e \in Reports => e \notin Elems(Tail(send[c])))
  BY ReceiveChannel DEF WriteTake, LinkInv, TypeOK, Tidy
<1> HIDE DEF e
<1>3. Tidy' BY <1>1, <1>2 DEF LinkInv, Tidy
<1>4. Located /\ "send" \in Containers /\ "writer" \in Containers /\ c \in Conns \cup {0}
  BY DEF LinkInv, Containers
<1>5. e \in Reports => Sits("send", c, e) BY <1>2 DEF Sits
<1>6. /\ S \subseteq made
      /\ \A r \in S, l \in Containers, d \in Conns \cup {0} :
            Sits(l, d, r) <=> l = "send" /\ d = c
  BY SMT, <1>4, <1>5, Taken
<1>7. ASSUME NEW r \in Reports, NEW l \in Containers, NEW d \in Conns \cup {0}
      PROVE  Sits(l, d, r)' <=> IF r \in S THEN l = "writer" /\ d = c ELSE Sits(l, d, r)
  <2>1. CASE r = e
    <3>1. Sits(l, d, r) <=> l = "send" /\ d = c BY <1>6, <2>1
    <3> QED BY <1>1, <1>2, <2>1, <3>1, Apart DEF Sits
  <2>2. CASE r # e BY <1>1, <1>2, <2>2, Apart DEF Sits
  <2> QED BY <2>1, <2>2
<1>8. Takes(S, "writer", c) BY <1>7 DEF Takes
<1> HIDE DEF S
<1> QED BY <1>1, <1>3, <1>4, <1>6, <1>8, Move

(* A write that succeeds puts the message on the wire. *)
LEMMA WriteOkLocated ==
    ASSUME LinkInv, NEW c \in Conns, WriteOk(c)
    PROVE  Located' /\ Tidy'
<1> DEFINE e == writer[c]
<1> DEFINE S == {e} \cap Reports
<1>1. /\ UNCHANGED <<made, logs, reads, forwarder, send, stored, lost>>
      /\ e \in Item /\ writer'[c] = "select" /\ wire'[c] = Append(wire[c], e)
      /\ \A d \in Conns : d # c => writer'[d] = writer[d] /\ wire'[d] = wire[d]
  BY DEF WriteOk, queues, LinkInv, TypeOK
<1>2. Located /\ "wire" \in Containers /\ "writer" \in Containers /\ c \in Conns \cup {0}
  BY DEF LinkInv, Containers
<1>3. e \in Reports => Sits("writer", c, e) BY DEF Sits
<1>4. /\ S \subseteq made
      /\ \A r \in S, l \in Containers, d \in Conns \cup {0} :
            Sits(l, d, r) <=> l = "writer" /\ d = c
  BY SMT, <1>2, <1>3, Taken
<1>5. e \in Elems(wire[c]) => e \notin Reports BY <1>2, <1>4 DEF Sits
<1>6. Elems(wire'[c]) = Elems(wire[c]) \cup {e} /\ NoRepeat(wire'[c])
  BY SMT, <1>1, <1>5, SendChannel DEF LinkInv, TypeOK, Tidy
<1>7. Tidy' BY <1>1, <1>6 DEF LinkInv, Tidy
<1>8. ASSUME NEW r \in Reports, NEW l \in Containers, NEW d \in Conns \cup {0}
      PROVE  Sits(l, d, r)' <=> IF r \in S THEN l = "wire" /\ d = c ELSE Sits(l, d, r)
  <2>1. CASE r = e
    <3>1. Sits(l, d, r) <=> l = "writer" /\ d = c BY <1>4, <2>1
    <3> QED BY <1>1, <1>6, <2>1, <3>1, Apart DEF Sits
  <2>2. CASE r # e BY <1>1, <1>6, <2>2, Apart DEF Sits
  <2> QED BY <2>1, <2>2
<1>9. Takes(S, "wire", c) BY <1>8 DEF Takes
<1> HIDE DEF S
<1> QED BY <1>1, <1>2, <1>4, <1>7, <1>9, Move

(* A write that fails loses the message. *)
LEMMA WriteFailsLocated ==
    ASSUME LinkInv, NEW c \in Conns, WriteFails(c)
    PROVE  Located' /\ Tidy'
<1> DEFINE e == writer[c]
<1> DEFINE S == {e} \cap Reports
<1>1. /\ UNCHANGED <<made, logs, reads, forwarder, send, wire, stored>>
      /\ lost' = lost \cup S /\ writer'[c] = "gone"
      /\ \A d \in Conns : d # c => writer'[d] = writer[d]
  BY DEF WriteFails, Lose, queues, LinkInv, TypeOK
<1>2. Located /\ "lost" \in Containers /\ "writer" \in Containers /\ c \in Conns \cup {0}
  BY DEF LinkInv, Containers
<1>3. e \in Reports => Sits("writer", c, e) BY DEF Sits
<1>4. /\ S \subseteq made
      /\ \A r \in S, l \in Containers, d \in Conns \cup {0} :
            Sits(l, d, r) <=> l = "writer" /\ d = c
  BY SMT, <1>2, <1>3, Taken
<1>5. Tidy' BY <1>1 DEF LinkInv, Tidy
<1>6. ASSUME NEW r \in Reports, NEW l \in Containers, NEW d \in Conns \cup {0}
      PROVE  Sits(l, d, r)' <=> IF r \in S THEN l = "lost" /\ d = 0 ELSE Sits(l, d, r)
  <2>1. CASE r = e
    <3>1. Sits(l, d, r) <=> l = "writer" /\ d = c BY <1>4, <2>1
    <3> QED BY <1>1, <2>1, <3>1, Apart DEF Sits
  <2>2. CASE r # e BY <1>1, <2>2, Apart DEF Sits
  <2> QED BY <2>1, <2>2
<1>7. Takes(S, "lost", 0) BY <1>6 DEF Takes
<1> HIDE DEF S
<1> QED BY <1>1, <1>2, <1>4, <1>5, <1>7, Move


(* The forwarder takes a report from the buffer of logins. *)
LEMMA ForwardLoginsLocated ==
    ASSUME LinkInv, NEW c \in Conns, ForwardTake(c), logs # <<>>, logs' = Tail(logs), reads' = reads,
           forwarder' = [forwarder EXCEPT ![c] = Head(logs)]
    PROVE  Located' /\ Tidy'
<1> DEFINE e == Head(logs)
<1> DEFINE S == {e} \cap Reports
<1>1. /\ UNCHANGED <<made, reads, writer, send, wire, stored, lost>>
      /\ forwarder[c] = "select" /\ forwarder'[c] = e /\ logs' = Tail(logs)
      /\ \A d \in Conns : d # c => forwarder'[d] = forwarder[d]
  BY DEF ForwardTake, LinkInv, TypeOK
<1>2. /\ Elems(logs) = Elems(Tail(logs)) \cup {e}
      /\ NoRepeat(Tail(logs)) /\ (e \in Reports => e \notin Elems(Tail(logs)))
  BY ReceiveChannel DEF LinkInv, TypeOK, Tidy
<1> HIDE DEF e
<1>3. Tidy' BY <1>1, <1>2 DEF LinkInv, Tidy
<1>4. Located /\ "logs" \in Containers /\ "forwarder" \in Containers /\ c \in Conns \cup {0}
  BY DEF LinkInv, Containers
<1>5. e \in Reports => Sits("logs", 0, e) BY <1>2 DEF Sits
<1>6. /\ S \subseteq made
      /\ \A r \in S, l \in Containers, d \in Conns \cup {0} :
            Sits(l, d, r) <=> l = "logs" /\ d = 0
  BY <1>4, <1>5, Taken
<1>7. ASSUME NEW r \in Reports, NEW l \in Containers, NEW d \in Conns \cup {0}
      PROVE  Sits(l, d, r)' <=> IF r \in S THEN l = "forwarder" /\ d = c ELSE Sits(l, d, r)
  <2>1. CASE r = e
    <3>1. Sits(l, d, r) <=> l = "logs" /\ d = 0 BY <1>6, <2>1
    <3> QED BY <1>1, <1>2, <2>1, <3>1, Apart DEF Sits
  <2>2. CASE r # e BY <1>1, <1>2, <2>2, Apart DEF Sits
  <2> QED BY <2>1, <2>2
<1>8. Takes(S, "forwarder", c) BY <1>7 DEF Takes
<1> HIDE DEF S
<1> QED BY <1>1, <1>3, <1>4, <1>6, <1>8, Move

(* The forwarder takes a report from the buffer of reads of secrets. *)
LEMMA ForwardReadsLocated ==
    ASSUME LinkInv, NEW c \in Conns, ForwardTake(c), reads # <<>>, reads' = Tail(reads), logs' = logs,
           forwarder' = [forwarder EXCEPT ![c] = Head(reads)]
    PROVE  Located' /\ Tidy'
<1> DEFINE e == Head(reads)
<1> DEFINE S == {e} \cap Reports
<1>1. /\ UNCHANGED <<made, logs, writer, send, wire, stored, lost>>
      /\ forwarder[c] = "select" /\ forwarder'[c] = e /\ reads' = Tail(reads)
      /\ \A d \in Conns : d # c => forwarder'[d] = forwarder[d]
  BY DEF ForwardTake, LinkInv, TypeOK
<1>2. /\ Elems(reads) = Elems(Tail(reads)) \cup {e}
      /\ NoRepeat(Tail(reads)) /\ (e \in Reports => e \notin Elems(Tail(reads)))
  BY ReceiveChannel DEF LinkInv, TypeOK, Tidy
<1> HIDE DEF e
<1>3. Tidy' BY <1>1, <1>2 DEF LinkInv, Tidy
<1>4. Located /\ "reads" \in Containers /\ "forwarder" \in Containers /\ c \in Conns \cup {0}
  BY DEF LinkInv, Containers
<1>5. e \in Reports => Sits("reads", 0, e) BY <1>2 DEF Sits
<1>6. /\ S \subseteq made
      /\ \A r \in S, l \in Containers, d \in Conns \cup {0} :
            Sits(l, d, r) <=> l = "reads" /\ d = 0
  BY <1>4, <1>5, Taken
<1>7. ASSUME NEW r \in Reports, NEW l \in Containers, NEW d \in Conns \cup {0}
      PROVE  Sits(l, d, r)' <=> IF r \in S THEN l = "forwarder" /\ d = c ELSE Sits(l, d, r)
  <2>1. CASE r = e
    <3>1. Sits(l, d, r) <=> l = "reads" /\ d = 0 BY <1>6, <2>1
    <3> QED BY <1>1, <1>2, <2>1, <3>1, Apart DEF Sits
  <2>2. CASE r # e BY <1>1, <1>2, <2>2, Apart DEF Sits
  <2> QED BY <2>1, <2>2
<1>8. Takes(S, "forwarder", c) BY <1>7 DEF Takes
<1> HIDE DEF S
<1> QED BY <1>1, <1>3, <1>4, <1>6, <1>8, Move

(* The forwarder hands its report to the writer, or drops it when the       *)
(* connection is cancelled.                                                 *)
LEMMA ForwardLocated ==
    ASSUME LinkInv, NEW c \in Conns, Forward(c)
    PROVE  Located' /\ Tidy'
<1> DEFINE e == forwarder[c]
<1> DEFINE S == {e} \cap Reports
<1>1. /\ UNCHANGED <<made, logs, reads, writer, wire, stored>>
      /\ e \in Reports /\ forwarder'[c] = "select"
      /\ \A d \in Conns : d # c => forwarder'[d] = forwarder[d] /\ send'[d] = send[d]
      /\ \/ lost' = lost /\ send'[c] = Append(send[c], e)
         \/ send'[c] = send[c] /\ lost' = lost \cup S
  BY DEF Forward, Lose, queues, LinkInv, TypeOK
<1>2. /\ Located /\ "lost" \in Containers /\ "send" \in Containers
      /\ "forwarder" \in Containers /\ c \in Conns \cup {0}
  BY DEF LinkInv, Containers
<1>3. e \in Reports => Sits("forwarder", c, e) BY DEF Sits
<1>4. /\ S \subseteq made
      /\ \A r \in S, l \in Containers, d \in Conns \cup {0} :
            Sits(l, d, r) <=> l = "forwarder" /\ d = c
  BY SMT, <1>2, <1>3, Taken
<1>5. CASE lost' = lost /\ send'[c] = Append(send[c], e)
  <2>1. e \in Elems(send[c]) => e \notin Reports BY <1>2, <1>4 DEF Sits
  <2>2. send[c] \in Seq(Item) /\ e \in Item /\ NoRepeat(send[c])
    BY <1>1, Apart DEF LinkInv, TypeOK, Tidy
  <2>3. Elems(send'[c]) = Elems(send[c]) \cup {e} /\ NoRepeat(send'[c])
    BY SMT, <1>5, <2>1, <2>2, SendChannel
  <2>4. Tidy' BY <1>1, <2>3 DEF LinkInv, Tidy
  <2>5. ASSUME NEW r \in Reports, NEW l \in Containers, NEW d \in Conns \cup {0}
        PROVE  Sits(l, d, r)' <=> IF r \in S THEN l = "send" /\ d = c ELSE Sits(l, d, r)
    <3>1. CASE r = e
      <4>1. Sits(l, d, r) <=> l = "forwarder" /\ d = c BY <1>4, <3>1
      <4> QED BY <1>1, <1>5, <2>3, <3>1, <4>1, Apart DEF Sits
    <3>2. CASE r # e BY <1>1, <1>5, <2>3, <3>2, Apart DEF Sits
    <3> QED BY <3>1, <3>2
  <2>6. Takes(S, "send", c) BY <2>5 DEF Takes
  <2> HIDE DEF S
  <2> QED BY <1>1, <1>2, <1>4, <2>4, <2>6, Move
<1>6. CASE send'[c] = send[c] /\ lost' = lost \cup S
  <2>1. Tidy' BY <1>1, <1>6 DEF LinkInv, Tidy
  <2>2. ASSUME NEW r \in Reports, NEW l \in Containers, NEW d \in Conns \cup {0}
        PROVE  Sits(l, d, r)' <=> IF r \in S THEN l = "lost" /\ d = 0 ELSE Sits(l, d, r)
    <3>1. CASE r = e
      <4>1. Sits(l, d, r) <=> l = "forwarder" /\ d = c BY <1>4, <3>1
      <4> QED BY <1>1, <1>6, <3>1, <4>1, Apart DEF Sits
    <3>2. CASE r # e BY <1>1, <1>6, <3>2, Apart DEF Sits
    <3> QED BY <3>1, <3>2
  <2>3. Takes(S, "lost", 0) BY <2>2 DEF Takes
  <2> HIDE DEF S
  <2> QED BY <1>1, <1>2, <1>4, <2>1, <2>3, Move
<1> QED BY <1>1, <1>5, <1>6

(* The control plane stores the report it reads, or loses it when the       *)
(* insert fails.                                                            *)
LEMMA ReadDaemonLocated ==
    ASSUME LinkInv, NEW c \in Conns, ReadDaemon(c)
    PROVE  Located' /\ Tidy'
<1> DEFINE e == Head(wire[c])
<1> DEFINE S == {e} \cap Reports
<1>1. /\ UNCHANGED <<made, logs, reads, writer, forwarder, send>>
      /\ wire'[c] = Tail(wire[c])
      /\ \A d \in Conns : d # c => wire'[d] = wire[d]
      /\ \/ lost' = lost /\ stored' = IF e = Pong THEN stored ELSE Append(stored, e)
         \/ e # Pong /\ stored' = stored /\ lost' = lost \cup S
  BY DEF ReadDaemon, Lose, queues, procs, LinkInv, TypeOK
<1>2. /\ e \in Item /\ Elems(wire[c]) = Elems(Tail(wire[c])) \cup {e}
      /\ NoRepeat(Tail(wire[c])) /\ (e \in Reports => e \notin Elems(Tail(wire[c])))
  BY ReceiveChannel DEF ReadDaemon, LinkInv, TypeOK, Tidy
<1> HIDE DEF e
<1>3. /\ Located /\ "lost" \in Containers /\ "stored" \in Containers
      /\ "wire" \in Containers /\ c \in Conns \cup {0}
  BY DEF LinkInv, Containers
<1>4. e \in Reports => Sits("wire", c, e) BY <1>2 DEF Sits
<1>5. /\ S \subseteq made
      /\ \A r \in S, l \in Containers, d \in Conns \cup {0} :
            Sits(l, d, r) <=> l = "wire" /\ d = c
  BY SMT, <1>3, <1>4, Taken
<1>6. CASE lost' = lost /\ stored' = IF e = Pong THEN stored ELSE Append(stored, e)
  <2>1. e \in Elems(stored) => e \notin Reports BY <1>3, <1>5 DEF Sits
  <2>2. stored \in Seq(Reports) /\ (e # Pong => e \in Reports) /\ NoRepeat(stored)
    BY <1>2, Apart DEF LinkInv, TypeOK, Tidy
  <2>3. Elems(stored') = Elems(stored) \cup S /\ NoRepeat(stored')
    <3>1. CASE e = Pong BY <1>6, <2>2, <3>1, Apart
    <3>2. CASE e # Pong BY SMT, <1>6, <2>1, <2>2, <3>2, SendChannel
    <3> QED BY <3>1, <3>2
  <2>4. Tidy' BY <1>1, <1>2, <2>3 DEF LinkInv, Tidy
  <2>5. ASSUME NEW r \in Reports, NEW l \in Containers, NEW d \in Conns \cup {0}
        PROVE  Sits(l, d, r)' <=> IF r \in S THEN l = "stored" /\ d = 0 ELSE Sits(l, d, r)
    <3>1. CASE r = e
      <4>1. Sits(l, d, r) <=> l = "wire" /\ d = c BY <1>5, <3>1
      <4> QED BY <1>1, <1>2, <1>6, <2>3, <3>1, <4>1, Apart DEF Sits
    <3>2. CASE r # e BY <1>1, <1>2, <1>6, <2>3, <3>2, Apart DEF Sits
    <3> QED BY <3>1, <3>2
  <2>6. Takes(S, "stored", 0) BY <2>5 DEF Takes
  <2> HIDE DEF S
  <2> QED BY <1>1, <1>3, <1>5, <2>4, <2>6, Move
<1>7. CASE stored' = stored /\ lost' = lost \cup S
  <2>1. Tidy' BY <1>1, <1>2, <1>7 DEF LinkInv, Tidy
  <2>2. ASSUME NEW r \in Reports, NEW l \in Containers, NEW d \in Conns \cup {0}
        PROVE  Sits(l, d, r)' <=> IF r \in S THEN l = "lost" /\ d = 0 ELSE Sits(l, d, r)
    <3>1. CASE r = e
      <4>1. Sits(l, d, r) <=> l = "wire" /\ d = c BY <1>5, <3>1
      <4> QED BY <1>1, <1>2, <1>7, <3>1, <4>1, Apart DEF Sits
    <3>2. CASE r # e BY <1>1, <1>2, <1>7, <3>2, Apart DEF Sits
    <3> QED BY <3>1, <3>2
  <2>3. Takes(S, "lost", 0) BY <2>2 DEF Takes
  <2> HIDE DEF S
  <2> QED BY <1>1, <1>3, <1>5, <2>1, <2>3, Move
<1> QED BY <1>1, <1>6, <1>7


(* No report is anywhere at first. *)
LEMMA InitLocated == Init => Located /\ Tidy
<1> SUFFICES ASSUME Init PROVE Located /\ Tidy
  OBVIOUS
<1>1. Tidy BY EmptyChannel DEF Init, Tidy
<1>2. ASSUME NEW r \in Reports, NEW k, NEW c, Sits(k, c, r) PROVE FALSE
  BY <1>2, EmptyChannel, Apart DEF Init, Sits
<1>3. made = {} BY DEF Init
<1> QED BY <1>1, <1>2, <1>3 DEF Located

(* Every step of the link keeps the inductive invariant. *)
LEMMA StepLink == LinkInv /\ [Next]_vars => LinkInv'
<1> SUFFICES ASSUME LinkInv, [Next]_vars PROVE LinkInv'
  OBVIOUS
<1>1. TypeOK' /\ Undialled' BY StepTypes DEF LinkInv
<1>2. Located' /\ Tidy'
  <2>1. ASSUME NEW r \in Logins, RecordAccess(r) PROVE Located' /\ Tidy'
    BY <2>1, RecordLocated
  <2>2. ASSUME NEW r \in Reads, RecordSecretRead(r) PROVE Located' /\ Tidy'
    BY <2>2, RecordLocated
  <2>3. 1 \in Conns BY SMT, LinkAssumption DEF Conns
  <2>4. CASE ConnectAndServe BY <2>3, <2>4, QuietLocated
  <2>5. CASE UNCHANGED vars BY <2>3, <2>5, QuietLocated
  <2>6. ASSUME NEW c \in Conns, \/ ReadPing(c) \/ SendPong(c) \/ ReadFails(c)
                                \/ WriteQuits(c) \/ ForwardQuits(c)
        PROVE  Located' /\ Tidy'
    BY <2>6, QuietLocated
  <2>7. ASSUME NEW c \in Conns, ForwardTake(c) PROVE Located' /\ Tidy'
    <3>1. CASE logs # <<>> /\ logs' = Tail(logs) /\ UNCHANGED reads
               /\ forwarder' = [forwarder EXCEPT ![c] = Head(logs)]
      BY <2>7, <3>1, ForwardLoginsLocated
    <3>2. CASE reads # <<>> /\ reads' = Tail(reads) /\ UNCHANGED logs
               /\ forwarder' = [forwarder EXCEPT ![c] = Head(reads)]
      BY <2>7, <3>2, ForwardReadsLocated
    <3> QED BY <2>7, <3>1, <3>2 DEF ForwardTake
  <2>8. ASSUME NEW c \in Conns, Break(c) \/ Forward(c) \/ ReadDaemon(c)
        PROVE  Located' /\ Tidy'
    BY <2>8, BreakLocated, ForwardLocated, ReadDaemonLocated
  <2>9. ASSUME NEW c \in Conns, WriteTake(c) \/ WriteOk(c) \/ WriteFails(c)
        PROVE  Located' /\ Tidy'
    BY <2>9, WriteTakeLocated, WriteOkLocated, WriteFailsLocated
  <2> QED
    BY <2>1, <2>2, <2>4, <2>5, <2>6, <2>7, <2>8, <2>9
    DEF Next, ReaderStep, WriterStep, ForwarderStep
<1> QED BY <1>1, <1>2 DEF LinkInv

-----------------------------------------------------------------------------
(* From containers back to places.                                          *)

(* Position i of a container holds the report. *)
Spot(k, c, i, r) ==
    \/ k = "logs" /\ c = 0 /\ i \in In(logs, r)
    \/ k = "reads" /\ c = 0 /\ i \in In(reads, r)
    \/ k = "forwarder" /\ c \in Conns /\ i = 0 /\ forwarder[c] = r
    \/ k = "writer" /\ c \in Conns /\ i = 0 /\ writer[c] = r
    \/ k = "send" /\ c \in Conns /\ i \in In(send[c], r)
    \/ k = "wire" /\ c \in Conns /\ i \in In(wire[c], r)
    \/ k = "stored" /\ c = 0 /\ i \in In(stored, r)
    \/ k = "lost" /\ c = 0 /\ i = 0 /\ r \in lost

(* A report sits in a container when some position of it holds the report.  *)
LEMMA SpotSits ==
    ASSUME NEW k, NEW c, NEW r
    PROVE  Sits(k, c, r) <=> \E i : Spot(k, c, i, r)
<1>1. \A q : r \in Elems(q) <=> \E i : i \in In(q, r) BY DEF Elems, In
<1> QED BY <1>1 DEF Sits, Spot

(* At most one does. *)
LEMMA SpotOnce ==
    ASSUME Tidy, NEW k, NEW c, NEW r \in Reports, NEW i, NEW j,
           Spot(k, c, i, r), Spot(k, c, j, r)
    PROVE  i = j
<1>1. \A q : NoRepeat(q) /\ i \in In(q, r) /\ j \in In(q, r) => i = j BY DEF NoRepeat, In
<1> QED BY <1>1 DEF Spot, Tidy

(* Places collects the spots of a report. *)
LEMMA PlacesSpots ==
    ASSUME NEW r \in Reports
    PROVE  /\ \A k, c, i : Spot(k, c, i, r) => <<k, c, i>> \in Places(r)
           /\ \A p \in Places(r) : \E k \in Containers, c \in Conns \cup {0} :
                \E i : p = <<k, c, i>> /\ Spot(k, c, i, r)
<1> DEFINE Logged == {<<"logs", 0, i>> : i \in In(logs, r)}
<1> DEFINE Unsent == {<<"reads", 0, i>> : i \in In(reads, r)}
<1> DEFINE Held == {<<"forwarder", c, 0>> : c \in {d \in Conns : forwarder[d] = r}}
<1> DEFINE Written == {<<"writer", c, 0>> : c \in {d \in Conns : writer[d] = r}}
<1> DEFINE Queued == UNION {{<<"send", c, i>> : i \in In(send[c], r)} : c \in Conns}
<1> DEFINE Flying == UNION {{<<"wire", c, i>> : i \in In(wire[c], r)} : c \in Conns}
<1> DEFINE Kept == {<<"stored", 0, i>> : i \in In(stored, r)}
<1> DEFINE Dropped == {<<"lost", 0, 0>> : x \in {r} \cap lost}
<1>1. Places(r) = Logged \cup Unsent \cup Held \cup Written \cup Queued \cup Flying
                  \cup Kept \cup Dropped
  BY DEF Places
<1>2. /\ \A i : i \in In(logs, r) => <<"logs", 0, i>> \in Logged
      /\ \A i : i \in In(reads, r) => <<"reads", 0, i>> \in Unsent
      /\ \A i : i \in In(stored, r) => <<"stored", 0, i>> \in Kept
      /\ r \in lost => <<"lost", 0, 0>> \in Dropped
  OBVIOUS
<1>3. \A c \in Conns : /\ forwarder[c] = r => <<"forwarder", c, 0>> \in Held
                       /\ writer[c] = r => <<"writer", c, 0>> \in Written
  OBVIOUS
<1>4. \A c \in Conns : \A i : i \in In(send[c], r) => <<"send", c, i>> \in Queued
  BY SMT
<1>5. \A c \in Conns : \A i : i \in In(wire[c], r) => <<"wire", c, i>> \in Flying
  BY SMT
<1> DEFINE IsSpot(p) == \E k \in Containers, c \in Conns \cup {0} :
                            \E i : p = <<k, c, i>> /\ Spot(k, c, i, r)
<1>6. ASSUME NEW p \in Logged \cup Unsent \cup Kept \cup Dropped PROVE IsSpot(p)
  <2>1. CASE p \in Logged BY <2>1 DEF Spot, Containers
  <2>2. CASE p \in Unsent BY <2>2 DEF Spot, Containers
  <2>3. CASE p \in Kept BY <2>3 DEF Spot, Containers
  <2>4. CASE p \in Dropped BY <2>4 DEF Spot, Containers
  <2> QED BY <1>6, <2>1, <2>2, <2>3, <2>4
<1>7. ASSUME NEW p \in Held \cup Written PROVE IsSpot(p)
  <2>1. CASE p \in Held BY <2>1 DEF Spot, Containers
  <2>2. CASE p \in Written BY <2>2 DEF Spot, Containers
  <2> QED BY <1>7, <2>1, <2>2
<1>8. ASSUME NEW p \in Queued PROVE IsSpot(p)
  <2>1. PICK c \in Conns : p \in {<<"send", c, i>> : i \in In(send[c], r)} BY <1>8
  <2>2. PICK i \in In(send[c], r) : p = <<"send", c, i>> BY <2>1
  <2> QED BY <2>2 DEF Spot, Containers
<1>9. ASSUME NEW p \in Flying PROVE IsSpot(p)
  <2>1. PICK c \in Conns : p \in {<<"wire", c, i>> : i \in In(wire[c], r)} BY <1>9
  <2>2. PICK i \in In(wire[c], r) : p = <<"wire", c, i>> BY <2>1
  <2> QED BY <2>2 DEF Spot, Containers
<1> HIDE DEF Logged, Unsent, Held, Written, Queued, Flying, Kept, Dropped
<1>10. \A p \in Places(r) : IsSpot(p)
  <2> HIDE DEF IsSpot
  <2> QED BY <1>1, <1>6, <1>7, <1>8, <1>9
<1>11. ASSUME NEW k, NEW c, NEW i, Spot(k, c, i, r) PROVE <<k, c, i>> \in Places(r)
  <2>1. <<k, c, i>> \in Logged \cup Unsent \cup Held \cup Written \cup Queued \cup Flying
                       \cup Kept \cup Dropped
    BY <1>2, <1>3, <1>4, <1>5, <1>11 DEF Spot
  <2> QED BY <1>1, <2>1
<1> QED BY <1>10, <1>11

(* A report that was made has one place, and one that was not has none.     *)
LEMMA OnePlace == LinkInv => Accounted
<1> SUFFICES ASSUME LinkInv, NEW r \in Reports
             PROVE  IF r \in made THEN \E p \in Places(r) : Places(r) = {p}
                                  ELSE Places(r) = {}
  BY DEF Accounted, LinkInv
<1>1. CASE r \notin made
  <2>1. ASSUME NEW p \in Places(r) PROVE FALSE
    <3>1. PICK k \in Containers, c \in Conns \cup {0} : \E i : Spot(k, c, i, r)
      BY PlacesSpots
    <3>2. Sits(k, c, r) BY <3>1, SpotSits
    <3> QED BY <1>1, <3>2 DEF LinkInv, Located
  <2> QED BY <1>1, <2>1
<1>2. CASE r \in made
  <2>1. PICK k \in Containers, c \in Conns \cup {0} : Sits(k, c, r)
    BY <1>2 DEF LinkInv, Located
  <2>2. PICK i : Spot(k, c, i, r) BY <2>1, SpotSits
  <2>3. ASSUME NEW p \in Places(r) PROVE p = <<k, c, i>>
    <3>1. PICK l \in Containers, d \in Conns \cup {0} :
                \E j : p = <<l, d, j>> /\ Spot(l, d, j, r)
      BY PlacesSpots
    <3>2. PICK j : p = <<l, d, j>> /\ Spot(l, d, j, r) BY <3>1
    <3>3. Sits(l, d, r) BY <3>2, SpotSits
    <3>4. l = k /\ d = c BY <2>1, <3>3 DEF LinkInv, Located
    <3>5. j = i BY <2>2, <3>2, <3>4, SpotOnce DEF LinkInv
    <3> QED BY <3>2, <3>4, <3>5
  <2>4. <<k, c, i>> \in Places(r) BY <2>2, PlacesSpots
  <2> DEFINE p == <<k, c, i>>
  <2> HIDE DEF p
  <2>5. p \in Places(r) /\ Places(r) = {p} BY <2>3, <2>4 DEF p
  <2> QED BY <1>2, <2>5
<1> QED BY <1>1, <1>2

(* A report that was made is in exactly one place of the daemon, the wire   *)
(* or the control plane, or was given up once, whatever the connections do; *)
(* and no buffer or channel exceeds its capacity.                           *)
THEOREM ReportsAccounted == Spec => []Accounted
<1>1. Init => LinkInv BY InitTypes, InitLocated DEF LinkInv
<1>2. LinkInv /\ [Next]_vars => LinkInv' BY StepLink
<1>3. LinkInv => Accounted BY OnePlace
<1> QED BY <1>1, <1>2, <1>3, PTL DEF Spec

-----------------------------------------------------------------------------
(* Upgrade: the binary a host runs is always a complete one that passed the *)
(* smoke test, a staged binary always lies beside its own metadata, and a   *)
(* connection delivers the version it read.                                 *)

Applying == {"check", "backup", "copy", "swap"}

(* What apply-update has established at each of its steps.                   *)
Steps ==
    /\ staged \in Versions \cup {None}
    /\ phase \in Applying => staged # None
    /\ phase \in {"backup", "copy", "swap"} => staged \in Sane
    /\ phase = "clearmeta" => staged = None

(* A connection belongs to a running daemon, and a request that has begun    *)
(* has a target.                                                             *)
Serving ==
    /\ conn.step # "down" => phase = "run"
    /\ \A p \in Requests : req[p].step # "idle" => req[p].target \in Versions

(* A version that a connection read and that the daemon does not run is in   *)
(* its queue, or the daemon has taken an upgrade since it connected.         *)
Delivering ==
    conn.step = "up" /\ conn.desired \notin {None, self} =>
        \/ \E i \in 1..Len(chan) : chan[i] = conn.desired
        \/ upgrading # None \/ "push" \in failed

IInv ==
    /\ UpgradeTypeOK /\ Steps /\ Serving /\ Delivering
    /\ InstalledWorks /\ StagedIsDescribed

-----------------------------------------------------------------------------
(* The invariant holds at the start.                                        *)
LEMMA InitIInv == UpgradeInit => IInv
  <1> SUFFICES ASSUME UpgradeInit PROVE IInv
    OBVIOUS
  <1> USE UpgradeAssumption
  <1>1. UpgradeTypeOK
    <2>1. chan \in Seq(Versions) /\ Len(chan) <= ChanCap
      BY SMT DEF UpgradeInit
    <2>2. /\ req \in [Requests -> [step : {"idle", "record", "deliver"},
                                   target : Versions \cup {None},
                                   current : Versions \cup {None}]]
          /\ conn \in [step : {"down", "authed", "online", "up"},
                       desired : Versions \cup {None}]
      BY DEF UpgradeInit, Idle, Down
    <2> QED BY <2>1, <2>2 DEF UpgradeInit, UpgradeTypeOK, Content
  <1>2. Steps /\ Serving /\ Delivering
    BY DEF UpgradeInit, Steps, Serving, Delivering, Applying, Idle, Down
  <1>3. InstalledWorks /\ StagedIsDescribed
    BY DEF UpgradeInit, InstalledWorks, StagedIsDescribed
  <1> QED BY <1>1, <1>2, <1>3 DEF IInv

(* The steps of the box: apply-update and the staging of an upgrade.         *)
BoxStep ==
    \/ Boot \/ Check \/ CheckFails \/ Truncate \/ CopyFile \/ CopyFails
    \/ ReplaceExecutable \/ SwapFails \/ RemoveStaged \/ RemoveMeta

(* The steps of the control plane and of the daemon's queue.                 *)
WireStep ==
    \/ AuthenticateDaemon \/ Register \/ RegisterFails \/ Repush \/ RepushFails
    \/ ReadTimeout \/ Drop \/ HandleUpgrade
    \/ \E p \in Requests : SetHostDesiredVersion(p) \/ PushUpgrade(p) \/ RequestFails(p)
    \/ \E p \in Requests, v \in Versions : HandleUpgradeHost(p, v)

StageStep == StageUpgrade \/ StageFails

OffStep == ErrRestart \/ Crash

(* Every step is one of these.                                              *)
LEMMA Kinds ==
  [UpgradeNext]_upgradeVars => BoxStep \/ WireStep \/ StageStep \/ OffStep \/ UNCHANGED upgradeVars
  BY DEF UpgradeNext, Apply, Serve, Stage, Admin, BoxStep, WireStep, StageStep, OffStep

-----------------------------------------------------------------------------
(* apply-update never installs a binary that it has not found trusted, and   *)
(* discards only one that does not run.                                      *)
LEMMA BoxSafe ==
  ASSUME UpgradeTypeOK, Steps, InstalledWorks, StagedIsDescribed, BoxStep
  PROVE  Steps' /\ InstalledWorks' /\ StagedIsDescribed'
  <1> USE UpgradeAssumption DEF Steps, InstalledWorks, StagedIsDescribed, Applying
  <1>1. CASE Boot
    BY <1>1 DEF Boot, Start, files
  <1>2. CASE Check
    BY <1>2 DEF Check, Trusted
  <1>3. CASE Truncate \/ CopyFile
    BY <1>3 DEF Truncate, CopyFile
  <1>4. CASE CheckFails \/ CopyFails \/ SwapFails
    BY <1>4 DEF CheckFails, CopyFails, SwapFails, files
  <1>5. CASE ReplaceExecutable
    BY <1>5 DEF ReplaceExecutable
  <1>6. CASE RemoveStaged \/ RemoveMeta
    BY <1>6 DEF RemoveStaged, RemoveMeta, Start
  <1> QED BY <1>1, <1>2, <1>3, <1>4, <1>5, <1>6 DEF BoxStep

(* The steps of a starting daemon keep the types.                           *)
LEMMA BoxType ==
  ASSUME UpgradeTypeOK, Steps, InstalledWorks, BoxStep PROVE UpgradeTypeOK'
  <1> USE UpgradeAssumption DEF UpgradeTypeOK, Content, host, db
  <1>1. CASE Boot
    BY SMT, <1>1 DEF Boot, Start, files, InstalledWorks
  <1>2. CASE Check
    BY SMT, <1>2 DEF Check, Steps, Applying
  <1>3. CASE Truncate \/ CopyFile
    BY <1>3 DEF Truncate, CopyFile
  <1>4. CASE CheckFails \/ CopyFails \/ SwapFails
    BY <1>4 DEF CheckFails, CopyFails, SwapFails, files
  <1>5. CASE ReplaceExecutable
    BY SMT, <1>5 DEF ReplaceExecutable, InstalledWorks
  <1>6. CASE RemoveStaged \/ RemoveMeta
    BY <1>6 DEF RemoveStaged, RemoveMeta, Start, InstalledWorks
  <1> QED BY <1>1, <1>2, <1>3, <1>4, <1>5, <1>6 DEF BoxStep

(* apply-update runs while no daemon is connected. *)
LEMMA BoxAlone ==
  ASSUME UpgradeTypeOK, Serving, BoxStep PROVE Serving' /\ Delivering'
  <1>1. phase # "run" /\ UNCHANGED <<conn, req>>
    BY DEF BoxStep, Boot, Check, CheckFails, Truncate, CopyFile, CopyFails, ReplaceExecutable,
           SwapFails, RemoveStaged, RemoveMeta, host
  <1> QED BY <1>1 DEF Serving, Delivering


-----------------------------------------------------------------------------
(* The control plane and the queue do not touch the box's files.             *)
LEMMA WireFrame ==
  ASSUME WireStep PROVE UNCHANGED <<phase, self, files>>
  BY DEF WireStep, AuthenticateDaemon, Register, RegisterFails, Repush, RepushFails,
         ReadTimeout, Drop, HandleUpgrade,
         SetHostDesiredVersion, PushUpgrade, RequestFails, HandleUpgradeHost, box

(* A queue that takes one more version, or drops it when full, or gives up   *)
(* its head, is still one.                                                   *)
LEMMA QueueType ==
  ASSUME UpgradeTypeOK, NEW v \in Versions
  PROVE  /\ Queue(v) => chan' \in Seq(Versions) /\ Len(chan') <= ChanCap
         /\ Len(chan) < ChanCap =>
                Append(chan, v) \in Seq(Versions) /\ Len(Append(chan, v)) <= ChanCap
         /\ chan # <<>> => /\ Tail(chan) \in Seq(Versions) /\ Len(Tail(chan)) <= ChanCap
                           /\ Head(chan) \in Versions
  <1>1. chan \in Seq(Versions) /\ Len(chan) <= ChanCap /\ Len(chan) \in Nat /\ ChanCap \in Nat
    BY SMT, UpgradeAssumption DEF UpgradeTypeOK
  <1>2. Len(chan) < ChanCap =>
            Append(chan, v) \in Seq(Versions) /\ Len(Append(chan, v)) <= ChanCap
    BY SMT, <1>1
  <1>3. chan # <<>> => /\ Tail(chan) \in Seq(Versions) /\ Len(Tail(chan)) <= ChanCap
                       /\ Head(chan) \in Versions
    BY SMT, <1>1
  <1>4. Queue(v) => chan' \in Seq(Versions) /\ Len(chan') <= ChanCap
    BY <1>1, <1>2 DEF Queue
  <1> QED BY <1>2, <1>3, <1>4

(* The steps of requests and connections keep the types.                    *)
LEMMA WireType ==
  ASSUME UpgradeTypeOK, Serving, InstalledWorks, WireStep PROVE UpgradeTypeOK'
  <1> USE UpgradeAssumption DEF db, files, box, bounds
  <1>1. CASE AuthenticateDaemon
    BY <1>1 DEF AuthenticateDaemon, UpgradeTypeOK
  <1>2. CASE Register
    <2>1. self \in Versions
      BY <1>2 DEF Register, Serving, InstalledWorks
    <2> QED BY <1>2, <2>1 DEF Register, UpgradeTypeOK
  <1>3. CASE Repush
    <2>1. chan' \in Seq(Versions) /\ Len(chan') <= ChanCap
      <3>1. CASE conn.desired \notin {None, self}
        <4>1. conn.desired \in Versions
          BY <3>1 DEF UpgradeTypeOK
        <4> QED BY <1>3, <3>1, <4>1, QueueType DEF Repush
      <3>2. CASE conn.desired \in {None, self}
        BY <1>3, <3>2 DEF Repush, UpgradeTypeOK
      <3> QED BY <3>1, <3>2
    <2> QED BY <1>3, <2>1 DEF Repush, UpgradeTypeOK
  <1>10. CASE RegisterFails \/ RepushFails
    BY <1>10 DEF RegisterFails, RepushFails, UpgradeTypeOK
  <1>4. CASE Drop \/ ReadTimeout
    <2>0. chan' = <<>>
      BY <1>4 DEF Drop, ReadTimeout
    <2>1. chan' \in Seq(Versions) /\ Len(chan') <= ChanCap
      BY SMT, <2>0
    <2>2. conn' \in [step : {"down", "authed", "online", "up"}, desired : Versions \cup {None}]
      BY SMT, <1>4 DEF Drop, ReadTimeout, Down
    <2>3. UNCHANGED <<agent, desired, req, phase, self, upgrading, bin, prev, staged, meta,
                      out, refused, failed>>
      BY <1>4 DEF Drop, ReadTimeout
    <2> QED BY <2>1, <2>2, <2>3 DEF UpgradeTypeOK
  <1>5. CASE HandleUpgrade
    <2>1. PICK v \in Versions : TRUE
      OBVIOUS
    <2>2. chan' \in Seq(Versions) /\ Len(chan') <= ChanCap /\ Head(chan) \in Versions
      BY <1>5, <2>1, QueueType DEF HandleUpgrade
    <2> QED BY <1>5, <2>2 DEF HandleUpgrade, UpgradeTypeOK
  <1>6. ASSUME NEW p \in Requests, SetHostDesiredVersion(p) PROVE UpgradeTypeOK'
    <2>1. req[p].target \in Versions
      BY <1>6 DEF SetHostDesiredVersion, Serving
    <2> QED BY SMT, <1>6, <2>1 DEF SetHostDesiredVersion, Return, Idle, UpgradeTypeOK
  <1>7. ASSUME NEW p \in Requests, PushUpgrade(p) PROVE UpgradeTypeOK'
    <2>1. req[p].target \in Versions
      BY <1>7 DEF PushUpgrade, Serving
    <2>2. chan' \in Seq(Versions) /\ Len(chan') <= ChanCap
      BY <1>7, <2>1, QueueType DEF PushUpgrade, UpgradeTypeOK
    <2> QED BY SMT, <1>7, <2>1, <2>2 DEF PushUpgrade, Return, Idle, UpgradeTypeOK
  <1>8. ASSUME NEW p \in Requests, RequestFails(p) PROVE UpgradeTypeOK'
    BY SMT, <1>8 DEF RequestFails, Idle, UpgradeTypeOK
  <1>9. ASSUME NEW p \in Requests, NEW v \in Versions, HandleUpgradeHost(p, v) PROVE UpgradeTypeOK'
    BY SMT, <1>9 DEF HandleUpgradeHost, UpgradeTypeOK
  <1> QED BY <1>1, <1>2, <1>3, <1>4, <1>5, <1>6, <1>7, <1>8, <1>9, <1>10 DEF WireStep

(* They keep a connection with a daemon that runs.                          *)
LEMMA WireServing ==
  ASSUME UpgradeTypeOK, Serving, WireStep PROVE Serving'
  <1>1. /\ conn'.step # "down" => phase' = "run"
    <2>1. CASE AuthenticateDaemon
      BY <2>1 DEF AuthenticateDaemon
    <2>2. CASE Register \/ RegisterFails \/ Repush \/ RepushFails
      BY <2>2, WireFrame DEF Register, RegisterFails, Repush, RepushFails, Serving
    <2>3. CASE Drop \/ ReadTimeout
      BY SMT, <2>3 DEF Drop, ReadTimeout, Down
    <2>4. CASE UNCHANGED conn
      BY <2>4, WireFrame DEF Serving
    <2> QED BY <2>1, <2>2, <2>3, <2>4 DEF WireStep, HandleUpgrade, SetHostDesiredVersion,
               PushUpgrade, RequestFails, HandleUpgradeHost
  <1>2. \A p \in Requests : req'[p].step # "idle" => req'[p].target \in Versions
    <2>1. CASE UNCHANGED req
      BY <2>1 DEF Serving
    <2>2. ASSUME NEW p \in Requests,
                 SetHostDesiredVersion(p) \/ PushUpgrade(p) \/ RequestFails(p)
          PROVE  \A q \in Requests : req'[q].step # "idle" => req'[q].target \in Versions
      <3>1. \A q \in Requests : q # p => req'[q] = req[q]
        BY <2>2 DEF SetHostDesiredVersion, PushUpgrade, RequestFails, Return, UpgradeTypeOK
      <3>2. req'[p] = Idle \/ (req'[p].target = req[p].target /\ req[p].step # "idle")
        BY <2>2 DEF SetHostDesiredVersion, PushUpgrade, RequestFails, Return, UpgradeTypeOK
      <3> QED BY SMT, <3>1, <3>2 DEF Idle, Serving
    <2>3. ASSUME NEW p \in Requests, NEW v \in Versions, HandleUpgradeHost(p, v)
          PROVE  \A q \in Requests : req'[q].step # "idle" => req'[q].target \in Versions
      BY <2>3 DEF HandleUpgradeHost, Serving, UpgradeTypeOK
    <2> QED BY <2>1, <2>2, <2>3 DEF WireStep, AuthenticateDaemon, Register, RegisterFails, Repush,
               RepushFails, ReadTimeout, Drop, HandleUpgrade
  <1> QED BY <1>1, <1>2 DEF Serving


(* What is queued stays queued until it is the head. *)
LEMMA WireDelivering ==
  ASSUME UpgradeTypeOK, Delivering, Serving, WireStep PROVE Delivering'
  <1>1. CASE AuthenticateDaemon \/ Register \/ RegisterFails \/ Drop \/ ReadTimeout
    <2>1. conn'.step # "up"
      BY SMT, <1>1 DEF AuthenticateDaemon, Register, RegisterFails, Drop, ReadTimeout, Down, UpgradeTypeOK
    <2> QED BY <2>1 DEF Delivering
  <1>6. CASE RepushFails
    BY <1>6 DEF RepushFails, Delivering
  <1>2. CASE UNCHANGED <<conn, chan>>
    <2>1. CASE AuthenticateDaemon \/ RegisterFails \/ RepushFails
      BY <1>1, <1>6, <2>1
    <2>2. CASE ~(AuthenticateDaemon \/ RegisterFails \/ RepushFails)
      <3>1. UNCHANGED failed /\ (upgrading # None => upgrading' # None)
        BY <2>2 DEF WireStep, Register, Repush, ReadTimeout, Drop, HandleUpgrade,
           SetHostDesiredVersion, PushUpgrade, RequestFails, HandleUpgradeHost, box
      <3> QED BY <1>2, <3>1, WireFrame DEF Delivering
    <2> QED BY <2>1, <2>2
  <1>3. CASE Repush
    <2>1. /\ conn'.desired = conn.desired /\ UNCHANGED <<self, upgrading, failed>>
          /\ conn.desired \notin {None, self} => chan' = Append(chan, conn.desired)
      BY <1>3 DEF Repush, box, UpgradeTypeOK
    <2>2. ASSUME conn.desired \notin {None, self}
          PROVE  \E i \in 1..Len(chan') : chan'[i] = conn.desired
      <3>1. chan \in Seq(Versions) /\ conn.desired \in Versions
        BY <2>2 DEF UpgradeTypeOK
      <3>2. Len(chan) + 1 \in 1..Len(chan') /\ chan'[Len(chan) + 1] = conn.desired
        BY SMT, <2>1, <2>2, <3>1
      <3> QED BY <3>2
    <2> QED BY <2>1, <2>2 DEF Delivering
  <1>4. CASE HandleUpgrade
    <2>1. /\ UNCHANGED <<conn, self, failed>> /\ chan # <<>> /\ chan' = Tail(chan)
          /\ upgrading' = IF Head(chan) = self \/ upgrading # None THEN upgrading
                          ELSE Head(chan)
      BY <1>4 DEF HandleUpgrade
    <2>2. chan \in Seq(Versions) /\ Head(chan) = chan[1] /\ Head(chan) \in Versions
      BY SMT, <2>1 DEF UpgradeTypeOK
    <2>3. ASSUME NEW i \in 1..Len(chan), chan[i] = conn.desired, i # 1
          PROVE  \E j \in 1..Len(chan') : chan'[j] = conn.desired
      <3>1. i - 1 \in 1..Len(chan') /\ chan'[i - 1] = chan[i]
        BY SMT, <2>1, <2>2, <2>3
      <3> QED BY <2>3, <3>1
    <2>4. ASSUME chan[1] = conn.desired, conn.desired \notin {None, self}
          PROVE  upgrading' # None
      BY <2>1, <2>2, <2>4
    <2>5. upgrading # None => upgrading' # None
      BY <2>1
    <2> QED BY <2>1, <2>3, <2>4, <2>5 DEF Delivering
  <1>5. ASSUME NEW p \in Requests, PushUpgrade(p) PROVE Delivering'
    <2>1. UNCHANGED <<conn, self, upgrading, failed>>
      BY <1>5 DEF PushUpgrade, box
    <2>2. chan \in Seq(Versions) /\ req[p].target \in Versions
      BY <1>5 DEF PushUpgrade, Serving, UpgradeTypeOK
    <2>3. chan' = chan \/ chan' = Append(chan, req[p].target)
      BY <1>5 DEF PushUpgrade, Queue
    <2>4. \A i \in 1..Len(chan) : i \in 1..Len(chan') /\ chan'[i] = chan[i]
      BY SMT, <2>2, <2>3
    <2> QED BY <2>1, <2>4 DEF Delivering
  <1> QED BY <1>1, <1>2, <1>3, <1>4, <1>5, <1>6 DEF WireStep, SetHostDesiredVersion,
             RequestFails, HandleUpgradeHost

-----------------------------------------------------------------------------
(* Staging writes the metadata only while no binary is staged. *)
LEMMA StageSafe ==
  ASSUME IInv, StageStep PROVE IInv'
  <1> USE UpgradeAssumption DEF IInv
  <1>1. upgrading \in Versions \cup {None} /\ phase = "run" /\ upgrading # None /\ staged = None
    BY DEF StageStep, StageUpgrade, StageFiles, Unstaged, StageFails, UpgradeTypeOK
  <1>2. CASE StageUpgrade
    <2>1. /\ UNCHANGED <<bin, prev, out, refused, phase, self, upgrading, failed>>
          /\ UNCHANGED <<agent, desired, req, conn, chan>>
          /\ meta' = upgrading /\ staged' \in {None, upgrading}
      BY <1>1, <1>2 DEF StageUpgrade, StageFiles, db
    <2>2. UpgradeTypeOK'
      BY SMT, <1>1, <2>1 DEF UpgradeTypeOK, Content
    <2>3. Steps' /\ InstalledWorks' /\ StagedIsDescribed'
      BY <1>1, <2>1 DEF Steps, Applying, InstalledWorks, StagedIsDescribed
    <2>4. Serving' /\ Delivering'
      BY <2>1 DEF Serving, Delivering
    <2> QED BY <2>2, <2>3, <2>4
  <1>3. CASE StageFails
    <2>1. UpgradeTypeOK'
      BY SMT, <1>3 DEF StageFails, UpgradeTypeOK, Content, db, files
    <2>2. Steps' /\ InstalledWorks' /\ StagedIsDescribed'
      BY <1>3 DEF StageFails, Steps, InstalledWorks, StagedIsDescribed, files
    <2>3. Serving' /\ Delivering'
      BY <1>3 DEF StageFails, Serving, Delivering
    <2> QED BY <2>1, <2>2, <2>3
  <1> QED BY <1>2, <1>3 DEF StageStep

(* A restart or a crash, at any step, leaves the files as they are. *)
LEMMA OffSafe ==
  ASSUME IInv, OffStep PROVE IInv'
  <1> USE UpgradeAssumption DEF IInv
  <1>1. GoOff /\ UNCHANGED <<db, req, files, failed>>
    BY DEF OffStep, ErrRestart, Crash
  <1>2. UpgradeTypeOK'
    <2>1. chan' \in Seq(Versions) /\ Len(chan') <= ChanCap
      BY SMT, <1>1 DEF GoOff
    <2> QED BY <1>1, <2>1 DEF GoOff, Down, UpgradeTypeOK, db, files
  <1>3. Steps' /\ InstalledWorks' /\ StagedIsDescribed'
    BY <1>1 DEF GoOff, Steps, Applying, InstalledWorks, StagedIsDescribed, files
  <1>4. Serving' /\ Delivering'
    BY <1>1 DEF GoOff, Down, Serving, Delivering
  <1> QED BY <1>2, <1>3, <1>4

(* The invariant is inductive.                                              *)
LEMMA Inductive == IInv /\ [UpgradeNext]_upgradeVars => IInv'
  <1> SUFFICES ASSUME IInv, [UpgradeNext]_upgradeVars PROVE IInv'
    OBVIOUS
  <1>1. CASE BoxStep
    BY <1>1, BoxSafe, BoxType, BoxAlone DEF IInv
  <1>2. CASE WireStep
    <2>1. Steps' /\ InstalledWorks' /\ StagedIsDescribed'
      BY <1>2, WireFrame DEF IInv, Steps, InstalledWorks, StagedIsDescribed, files
    <2> QED BY <1>2, <2>1, WireType, WireServing, WireDelivering DEF IInv
  <1>3. CASE UNCHANGED upgradeVars
    <2>1. UpgradeTypeOK'
      BY SMT, <1>3 DEF IInv, upgradeVars, db, files, UpgradeTypeOK
    <2>2. Steps' /\ InstalledWorks' /\ StagedIsDescribed' /\ Serving' /\ Delivering'
      BY <1>3 DEF IInv, upgradeVars, files, Steps, InstalledWorks, StagedIsDescribed, Serving, Delivering
    <2> QED BY <2>1, <2>2 DEF IInv
  <1> QED BY <1>1, <1>2, <1>3, Kinds, StageSafe, OffSafe

(* The invariant holds in every reachable state.                            *)
LEMMA Invariance == UpgradeSpec => []IInv
  BY InitIInv, Inductive, PTL DEF UpgradeSpec

(* Every variable keeps its type: pushes never exceed the channel.           *)
THEOREM TypeCorrect == UpgradeSpec => []UpgradeTypeOK
  <1>1. IInv => UpgradeTypeOK
    BY DEF IInv
  <1> QED BY <1>1, Invariance, PTL

(* Whatever releases are pushed, whatever steps crash or fail, the installed *)
(* binary is a complete one that runs, and the daemon runs it.               *)
THEOREM BinaryAlwaysWorks == UpgradeSpec => []InstalledWorks
  <1>1. IInv => InstalledWorks
    BY DEF IInv
  <1> QED BY <1>1, Invariance, PTL

(* A staged binary lies beside its own metadata, and the checks of           *)
(* apply-update never condemn a release that runs.                           *)
THEOREM StagedAlwaysDescribed == UpgradeSpec => []StagedIsDescribed
  <1>1. IInv => StagedIsDescribed
    BY DEF IInv
  <1> QED BY <1>1, Invariance, PTL

(* A connection that read the version now desired has delivered it once its  *)
(* queue is empty.                                                           *)
THEOREM ConnectionDelivers == UpgradeSpec => []ReconnectDelivers
  <1>1. IInv => ReconnectDelivers
    <2> SUFFICES ASSUME IInv, conn.step = "up", chan = <<>>, conn.desired = desired,
                        desired # None, self # desired
                 PROVE  upgrading # None \/ "push" \in failed
      BY DEF ReconnectDelivers
    <2>1. ~ \E i \in 1..Len(chan) : chan[i] = conn.desired
      BY SMT
    <2> QED BY <2>1 DEF IInv, Delivering
  <1> QED BY <1>1, Invariance, PTL
-----------------------------------------------------------------------------
(* custosd.prev holds the binary replaced last, or after a crash the one     *)
(* installed.                                                                *)
Kept == prev = out \/ (crashes > 0 /\ prev = bin)

(* How apply-update keeps it: a torn copy is left behind only by a crash,    *)
(* beside a staged binary that runs and so is applied again; and before any  *)
(* crash what is staged differs from what is installed.                      *)
Rollback ==
    /\ fails \in Nat /\ crashes \in Nat
    /\ phase # "run" => upgrading = None
    /\ fails = 0 =>
        /\ phase = "swap" => prev = bin
        /\ phase \in {"run", "clear", "clearmeta"} => Kept
        /\ phase \in {"off", "check", "backup"} => Kept \/ (crashes > 0 /\ staged \in Sane)
        /\ crashes = 0 =>
            /\ upgrading # None => upgrading # bin
            /\ staged # None /\ phase # "clear" => staged # bin

(* Each kind of step keeps it.                                               *)
LEMMA RollbackStep == IInv /\ Rollback /\ [UpgradeNext]_upgradeVars => Rollback'
  <1> SUFFICES ASSUME IInv, Rollback, [UpgradeNext]_upgradeVars PROVE Rollback'
    OBVIOUS
  <1> USE UpgradeAssumption DEF Rollback, Kept
  <1>0. /\ phase \in {"off", "check", "backup", "copy", "swap", "clear", "clearmeta", "run"}
        /\ Steps /\ InstalledWorks /\ StagedIsDescribed
    BY DEF IInv, UpgradeTypeOK
  <1>1. CASE Boot
    BY <1>0, <1>1 DEF Boot, Start, files, host, bounds, Steps
  <1>2. CASE Check
    BY <1>0, <1>2 DEF Check, Trusted, host, bounds, Steps, Applying, StagedIsDescribed
  <1>3. CASE Truncate \/ CopyFile
    BY <1>0, <1>3 DEF Truncate, CopyFile, host, bounds
  <1>4. CASE CheckFails \/ CopyFails \/ SwapFails
    BY SMT, <1>4 DEF CheckFails, CopyFails, SwapFails, host
  <1>5. CASE ReplaceExecutable
    <2>1. /\ phase = "swap" /\ phase' = "clear" /\ bin' = staged
          /\ out' = IF staged # bin THEN bin ELSE out
          /\ UNCHANGED <<upgrading, prev, staged, fails, crashes>>
      BY <1>5 DEF ReplaceExecutable, host, bounds
    <2>2. staged # None
      BY <1>0, <2>1 DEF Steps, Applying
    <2>3. CASE staged = bin
      BY SMT, <2>1, <2>2, <2>3
    <2>4. CASE staged # bin
      BY <2>1, <2>4
    <2> QED BY <2>3, <2>4
  <1>6. CASE RemoveStaged
    BY <1>6 DEF RemoveStaged, host, bounds
  <1>7. CASE RemoveMeta
    BY <1>0, <1>7 DEF RemoveMeta, Start, host, bounds, Steps
  <1>8. CASE WireStep
    <2>1. UNCHANGED <<phase, files, crashes>> /\ (fails' = fails \/ fails' = fails + 1)
      BY <1>8, WireFrame DEF WireStep, AuthenticateDaemon, Register, RegisterFails, Repush, RepushFails,
         ReadTimeout, Drop, HandleUpgrade, SetHostDesiredVersion, PushUpgrade, RequestFails,
         HandleUpgradeHost, bounds
    <2>2. upgrading' = upgrading \/ (upgrading' # bin /\ phase = "run")
      <3>1. CASE HandleUpgrade
        BY <1>0, <3>1 DEF HandleUpgrade, InstalledWorks
      <3>2. CASE ~HandleUpgrade
        BY <1>8, <3>2 DEF WireStep, AuthenticateDaemon, Register, RegisterFails, Repush, RepushFails,
           ReadTimeout, Drop, SetHostDesiredVersion, PushUpgrade, RequestFails,
           HandleUpgradeHost, box
      <3> QED BY <3>1, <3>2
    <2> QED BY SMT, <2>1, <2>2 DEF files
  <1>9. CASE StageUpgrade
    BY <1>0, <1>9 DEF StageUpgrade, StageFiles, Unstaged, bounds
  <1>10. CASE StageFails
    BY SMT, <1>10 DEF StageFails
  <1>11. CASE ErrRestart
    BY <1>11 DEF ErrRestart, GoOff, files, bounds
  <1>12. CASE Crash
    BY SMT, <1>0, <1>12 DEF Crash, GoOff, files, Steps
  <1>13. CASE UNCHANGED upgradeVars
    BY <1>13 DEF upgradeVars, files, bounds
  <1> QED BY <1>1, <1>2, <1>3, <1>4, <1>5, <1>6, <1>7, <1>8, <1>9, <1>10, <1>11, <1>12,
             <1>13, Kinds DEF BoxStep, StageStep, OffStep

(* PrevKept: whatever crashes come between its steps, apply-update leaves    *)
(* the replaced binary, or after a crash a whole copy of the installed one,  *)
(* as custosd.prev, as long as no operation failed.                          *)
THEOREM ReplacedBinaryKept == UpgradeSpec => []PrevKept
  <1>1. UpgradeInit => Rollback
    BY SMT, UpgradeAssumption DEF UpgradeInit, Rollback, Kept
  <1>2. Rollback => PrevKept
    BY DEF Rollback, Kept, PrevKept
  <1> QED BY <1>1, <1>2, RollbackStep, Invariance, PTL DEF UpgradeSpec
=============================================================================
