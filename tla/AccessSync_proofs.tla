-------------------------- MODULE AccessSync_proofs --------------------------
(***************************************************************************)
(* Proofs about AccessSync for every set of keys, handlers and connections *)
(* and every channel capacity: its types; that both copies of the cache    *)
(* hold lists as signed, the file stays behind the memory, numbers go      *)
(* forward, a hub entry is removed only with its own handler; that the     *)
(* whole implements AccessRegister; and that what is delivered ends with   *)
(* the newest list, and a reconnection heals what was missed.              *)
(***************************************************************************)
EXTENDS AccessSync, TLAPS

(* Zenon proves most leaves; one that needs arithmetic, sequences or record *)
(* updates names SMT.                                                       *)
USE Zenon

-----------------------------------------------------------------------------
(* Type correctness.  It carries the channel bound and the fact that a      *)
(* handler about to send holds a connection.                                *)

(* The initial state is typed. *)
LEMMA InitTypeOK == Init => TypeOK
<1> USE ConnAssumption, BoundAssumption DEF Init, Envelope, Unsent
<1>1. Init => DbType BY SMT DEF DbType
<1>2. Init => RequestType BY SMT DEF RequestType
<1>3. Init => LinkType BY SMT DEF LinkType
<1>4. Init => DaemonType BY SMT DEF DaemonType
<1>5. Init => BookType BY SMT DEF BookType
<1> QED BY <1>1, <1>2, <1>3, <1>4, <1>5 DEF TypeOK

(* Numbering a list makes an envelope and extends the signed lists.         *)
LEMMA SignType ==
    ASSUME DbType, NEW e \in Envelope, Sign(e.keys)
    PROVE  /\ signed' \in Seq(SUBSET Keys)
           /\ Len(signed') = NextSeq
           /\ signed'[NextSeq] = e.keys
           /\ \A n \in 1..Len(signed) : signed'[n] = signed[n]
           /\ NextSeq \in Nat \ {0}
           /\ [e EXCEPT !.seq = NextSeq] \in Envelope
<1>1. e.keys \in SUBSET Keys BY DEF Envelope
<1>2. Len(signed) \in Nat BY SMT DEF DbType
<1> QED BY SMT, <1>1, <1>2 DEF DbType, Sign, NextSeq, Envelope

(* A send on a channel with room keeps it within its capacity.              *)
LEMMA PushType ==
    ASSUME LinkType, NEW c \in Conns, NEW e \in Envelope, ~Full(c),
           queue' = [queue EXCEPT ![c] = Append(@, e)]
    PROVE  /\ queue' \in [Conns -> Seq(Envelope)]
           /\ \A d \in Conns : Len(queue'[d]) <= SendCap
<1>1. queue[c] \in Seq(Envelope) /\ Len(queue[c]) \in Nat BY SMT DEF LinkType
<1>2. /\ Append(queue[c], e) \in Seq(Envelope)
      /\ Len(Append(queue[c], e)) = Len(queue[c]) + 1
  BY SMT, <1>1
<1>3. Len(queue[c]) + 1 <= SendCap BY SMT, <1>1, BoundAssumption DEF Full
<1> QED BY <1>1, <1>2, <1>3 DEF LinkType

(* What the writer puts on the socket are envelopes.                        *)
LEMMA WriteType ==
    ASSUME DaemonType, NEW c \in Conns, NEW msgs \in Seq(Envelope), Write(c, msgs)
    PROVE  wire' \in [Conns -> Seq(Envelope)]
<1>1. wire[c] \o msgs \in Seq(Envelope) BY SMT DEF DaemonType
<1> QED BY <1>1 DEF Write, DaemonType

(* A fault that touches no other counter or history keeps them typed. *)
LEMMA FaultBook ==
    ASSUME BookType, Fault, UNCHANGED <<ops, accepts, history>>
    PROVE  BookType'
  BY SMT DEF BookType, Fault, history

(* Leaving a connection keeps the daemon's side of the link typed. *)
LEMMA HangupType ==
    ASSUME DaemonType, dconn # NoConn, Hangup
    PROVE  /\ dconn' \in Conns \cup {NoConn}
           /\ gone' \in SUBSET Conns
           /\ wire' \in [Conns -> Seq(Envelope)]
<1>1. << >> \in Seq(Envelope) BY SMT
<1> QED BY <1>1 DEF Hangup, DaemonType

(* Commit, a handler's commit, keeps every variable typed. *)
LEMMA CommitType == ASSUME TypeOK, NEW h \in Handlers, Commit(h) PROVE TypeOK'
<1> USE ConnAssumption DEF TypeOK, Commit, dbVars, opVars, linkVars, daemonVars, history
<1>1. DbType' BY DEF DbType
<1>2. RequestType' BY DEF RequestType, Envelope
<1>3. BookType' BY SMT DEF BookType
<1> QED BY <1>1, <1>2, <1>3 DEF LinkType, DaemonType

(* Refresh, handleRefreshHost, keeps every variable typed. *)
LEMMA RefreshType == ASSUME TypeOK, NEW h \in Handlers, Refresh(h) PROVE TypeOK'
<1> USE ConnAssumption DEF TypeOK, Refresh, dbVars, opVars, linkVars, daemonVars, history
<1>1. RequestType' BY DEF RequestType, Envelope
<1>2. BookType' BY SMT DEF BookType
<1> QED BY <1>1, <1>2 DEF DbType, LinkType, DaemonType

(* Revoke, revokeHost's status change, keeps every variable typed. *)
LEMMA RevokeType == ASSUME TypeOK, NEW h \in Handlers, Revoke(h) PROVE TypeOK'
<1> USE ConnAssumption DEF TypeOK, Revoke, Unsent, dbVars, opVars, linkVars, daemonVars, history
<1>1. DbType' BY DEF DbType
<1>2. RequestType' BY DEF RequestType, Envelope
<1>3. BookType' BY SMT DEF BookType
<1> QED BY <1>1, <1>2, <1>3 DEF LinkType, DaemonType

(* Build, buildSnapshot in a request, keeps every variable typed. *)
LEMMA BuildType == ASSUME TypeOK, NEW h \in Handlers, Build(h) PROVE TypeOK'
<1> USE ConnAssumption DEF TypeOK, Build, ReadAccess, dbVars, opVars, linkVars, daemonVars, history
<1>1. RequestType' BY DEF DbType, RequestType, Envelope
<1> QED BY <1>1 DEF DbType, LinkType, DaemonType, BookType

(* Stamp, snapshotEnvelope in a request, keeps every variable typed. *)
LEMMA StampType == ASSUME TypeOK, NEW h \in Handlers, Stamp(h) PROVE TypeOK'
<1> USE ConnAssumption DEF TypeOK, Stamp, dbVars, opVars, linkVars, daemonVars, history
<1>a. env[h] \in Envelope BY DEF RequestType
<1>b. env'[h] = [env[h] EXCEPT !.seq = NextSeq] BY DEF RequestType
<1>c. env'[h] \in Envelope /\ signed' \in Seq(SUBSET Keys) BY <1>a, <1>b, SignType
<1>1. DbType'
  BY <1>c DEF DbType
<1>2. RequestType'
  BY <1>a, <1>b, <1>c DEF RequestType
<1>3. BookType'
  BY <1>c DEF BookType
<1> QED BY <1>1, <1>2, <1>3 DEF LinkType, DaemonType

(* Abandon, a push given up, keeps every variable typed. *)
LEMMA AbandonType == ASSUME TypeOK, NEW h \in Handlers, Abandon(h) PROVE TypeOK'
<1>2. BookType' BY FaultBook DEF TypeOK, Abandon
<1> USE ConnAssumption DEF TypeOK, Abandon, Return, Unsent, dbVars, opVars, linkVars, daemonVars, history
<1>1. RequestType' BY DEF RequestType, Envelope
<1> QED BY <1>1, <1>2 DEF DbType, LinkType, DaemonType

(* Fetch, hub.push taking the entry, keeps every variable typed. *)
LEMMA FetchType == ASSUME TypeOK, NEW h \in Handlers, Fetch(h) PROVE TypeOK'
<1> USE ConnAssumption DEF TypeOK, Fetch, Return, Unsent, dbVars, opVars, linkVars, daemonVars, history
<1>1. RequestType'
  <2>1. CASE hub = NoConn
    <3>1. /\ pc' = [pc EXCEPT ![h] = "idle"]
          /\ env' = [env EXCEPT ![h] = [seq |-> 0, keys |-> {}]]
          /\ target' = [target EXCEPT ![h] = NoConn]
          /\ revoking' = revoking \ {h}
      BY <2>1
    <3>2. [seq |-> 0, keys |-> {}] \in Envelope
      BY DEF Envelope
    <3> HIDE DEF Fetch, Return
    <3> QED BY <3>1, <3>2 DEF RequestType
  <2>2. CASE hub # NoConn
    <3>1. /\ hub \in Conns
          /\ target' = [target EXCEPT ![h] = hub]
          /\ pc' = [pc EXCEPT ![h] = "send"]
          /\ UNCHANGED <<env, revoking>>
      BY <2>2 DEF LinkType
    <3> QED BY <3>1 DEF RequestType
  <2> QED BY <2>1, <2>2
<1> QED BY <1>1 DEF DbType, LinkType, DaemonType, BookType

(* Send, hub.push and hub.disconnect sending, keeps every variable typed. *)
LEMMA SendType == ASSUME TypeOK, NEW h \in Handlers, Send(h) PROVE TypeOK'
<1> USE ConnAssumption DEF TypeOK, Send, Return, Unsent, dbVars, opVars, linkVars, daemonVars, history
<1>a. target[h] \in Conns /\ env[h] \in Envelope BY DEF RequestType
<1>1. RequestType' BY DEF RequestType, Envelope
<1>2. LinkType'
  <2>1. CASE Full(target[h]) BY <1>a, <2>1 DEF LinkType
  <2>2. CASE ~Full(target[h]) BY <1>a, <2>2, PushType DEF LinkType
  <2> QED BY <2>1, <2>2
<1>3. BookType'
  BY <1>a DEF BookType
<1> QED BY <1>1, <1>2, <1>3 DEF DbType, DaemonType

(* Authenticate, authenticateDaemon, keeps every variable typed. *)
LEMMA AuthenticateType == ASSUME TypeOK, NEW c \in Conns, Authenticate(c) PROVE TypeOK'
<1> USE ConnAssumption DEF TypeOK, Authenticate, Goto, dbVars, opVars, linkVars, daemonVars, history
<1>1. LinkType' BY DEF LinkType, Envelope
<1>2. BookType' BY SMT DEF BookType
<1> QED BY <1>1, <1>2 DEF DbType, RequestType, DaemonType

(* AuthError, a failed authentication, keeps every variable typed. *)
LEMMA AuthErrorType == ASSUME TypeOK, NEW c \in Conns, AuthError(c) PROVE TypeOK'
<1> USE ConnAssumption DEF TypeOK, AuthError, Goto, Fault, dbVars, opVars, linkVars, daemonVars, history
<1>1. LinkType' BY DEF LinkType, Envelope
<1>2. BookType' BY SMT DEF BookType
<1> QED BY <1>1, <1>2 DEF DbType, RequestType, DaemonType

(* Register, hub.register, keeps every variable typed. *)
LEMMA RegisterType == ASSUME TypeOK, NEW c \in Conns, Register(c) PROVE TypeOK'
<1> USE ConnAssumption DEF TypeOK, Register, Goto, dbVars, opVars, linkVars, daemonVars, history
<1>1. LinkType' BY DEF LinkType, Envelope
<1>2. BookType' BY DEF BookType
<1> QED BY <1>1, <1>2 DEF DbType, RequestType, DaemonType

(* BuildFirst, buildSnapshot on connect, keeps every variable typed. *)
LEMMA BuildFirstType == ASSUME TypeOK, NEW c \in Conns, BuildFirst(c) PROVE TypeOK'
<1> USE ConnAssumption DEF TypeOK, BuildFirst, ReadAccess, Goto, dbVars, opVars, linkVars, daemonVars, history
<1>1. LinkType' BY DEF DbType, LinkType, Envelope
<1> QED BY <1>1 DEF DbType, RequestType, DaemonType, BookType

(* StampFirst, snapshotEnvelope on connect, keeps every variable typed. *)
LEMMA StampFirstType == ASSUME TypeOK, NEW c \in Conns, StampFirst(c) PROVE TypeOK'
<1> USE ConnAssumption DEF TypeOK, StampFirst, Goto, dbVars, opVars, linkVars, daemonVars, history
<1>a. first[c] \in Envelope BY DEF LinkType
<1>b. first'[c] = [first[c] EXCEPT !.seq = NextSeq] BY DEF LinkType
<1>c. first'[c] \in Envelope /\ signed' \in Seq(SUBSET Keys) BY <1>a, <1>b, SignType
<1>1. DbType'
  BY <1>c DEF DbType
<1>2. LinkType'
  BY <1>a, <1>b, <1>c DEF LinkType
<1>3. BookType'
  BY <1>c DEF BookType
<1> QED BY <1>1, <1>2, <1>3 DEF RequestType, DaemonType

(* SkipFirst, an initial snapshot that fails, keeps every variable typed. *)
LEMMA SkipFirstType == ASSUME TypeOK, NEW c \in Conns, SkipFirst(c) PROVE TypeOK'
<1>2. BookType' BY FaultBook DEF TypeOK, SkipFirst, NoFirst
<1> USE ConnAssumption DEF TypeOK, SkipFirst, NoFirst, Goto, Unsent, dbVars, opVars, linkVars, daemonVars, history
<1>1. LinkType' BY DEF LinkType, Envelope
<1> QED BY <1>1, <1>2 DEF DbType, RequestType, DaemonType

(* SkipCancelled, an initial snapshot cut by the context, keeps every variable typed. *)
LEMMA SkipCancelledType == ASSUME TypeOK, NEW c \in Conns, SkipCancelled(c) PROVE TypeOK'
<1> USE ConnAssumption DEF TypeOK, SkipCancelled, NoFirst, Goto, Unsent, dbVars, opVars, linkVars, daemonVars, history
<1>1. LinkType' BY DEF LinkType, Envelope
<1>2. BookType' BY DEF BookType
<1> QED BY <1>1, <1>2 DEF DbType, RequestType, DaemonType

(* QueueFirst, queueing the initial snapshot, keeps every variable typed. *)
LEMMA QueueFirstType == ASSUME TypeOK, NEW c \in Conns, QueueFirst(c) PROVE TypeOK'
<1> USE ConnAssumption DEF TypeOK, QueueFirst, Goto, Unsent, dbVars, opVars, linkVars, daemonVars, history
<1>a. first[c] \in Envelope BY DEF LinkType
<1>1. LinkType'
  <2>1. queue' \in [Conns -> Seq(Envelope)] /\ \A d \in Conns : Len(queue'[d]) <= SendCap
    BY <1>a, PushType
  <2> QED BY <2>1 DEF LinkType, Envelope
<1>2. BookType' BY DEF BookType
<1> QED BY <1>1, <1>2 DEF DbType, RequestType, DaemonType

(* WriteDaemon, writeDaemon, keeps every variable typed. *)
LEMMA WriteDaemonType == ASSUME TypeOK, NEW c \in Conns, WriteDaemon(c) PROVE TypeOK'
<1> USE ConnAssumption DEF TypeOK, WriteDaemon, dbVars, opVars, linkVars, daemonVars, history
<1>a. queue[c] \in Seq(Envelope) /\ queue[c] # <<>> BY DEF LinkType
<1>b. /\ Head(queue[c]) \in Envelope /\ Tail(queue[c]) \in Seq(Envelope)
      /\ Len(Tail(queue[c])) <= Len(queue[c])
  BY SMT, <1>a
<1>1. LinkType'
  <2>1. \A d \in Conns : Len(queue'[d]) <= SendCap
    BY SMT, <1>a, <1>b, BoundAssumption DEF LinkType
  <2> QED BY <1>b, <2>1 DEF LinkType
<1>2. DaemonType'
  <2>1. <<Head(queue[c])>> \in Seq(Envelope) BY SMT, <1>b
  <2>2. wire' \in [Conns -> Seq(Envelope)] BY <2>1, WriteType
  <2> QED BY <2>2 DEF DaemonType
<1> QED BY <1>1, <1>2 DEF DbType, RequestType, BookType

(* Leave, readDaemon's return and the deferred calls, keeps every variable typed. *)
LEMMA LeaveType == ASSUME TypeOK, NEW c \in Conns, Leave(c) PROVE TypeOK'
<1> USE ConnAssumption DEF TypeOK, Leave, Goto, Unregistered, dbVars, opVars, linkVars, daemonVars, history
<1>1. LinkType' BY DEF LinkType, Envelope
<1> QED BY <1>1 DEF DbType, RequestType, DaemonType, BookType

(* FlushAndClose, flushDaemon, keeps every variable typed. *)
LEMMA FlushAndCloseType == ASSUME TypeOK, NEW c \in Conns, FlushAndClose(c) PROVE TypeOK'
<1> USE ConnAssumption DEF TypeOK, FlushAndClose, Goto, dbVars, opVars, linkVars, daemonVars, history
<1>a. queue[c] \in Seq(Envelope) BY DEF LinkType
<1>b. PICK n \in 0..Len(queue[c]) : Write(c, SubSeq(queue[c], 1, n)) OBVIOUS
<1>c. SubSeq(queue[c], 1, n) \in Seq(Envelope) BY SMT, <1>a
<1>1. LinkType'
  <2>1. <<>> \in Seq(Envelope) /\ Len(<<>>) <= SendCap BY SMT, BoundAssumption
  <2> QED BY <2>1 DEF LinkType
<1>2. DaemonType'
  <2>1. wire' \in [Conns -> Seq(Envelope)] BY <1>b, <1>c, WriteType
  <2> QED BY <2>1 DEF DaemonType
<1> QED BY <1>1, <1>2 DEF DbType, RequestType, BookType

(* ServerDrop, a server-side disconnect, keeps every variable typed. *)
LEMMA ServerDropType == ASSUME TypeOK, NEW c \in Conns, ServerDrop(c) PROVE TypeOK'
<1>2. BookType' BY FaultBook DEF TypeOK, ServerDrop
<1> USE ConnAssumption DEF TypeOK, ServerDrop, dbVars, opVars, linkVars, daemonVars, history
<1>1. LinkType' BY DEF LinkType, Envelope
<1> QED BY <1>1, <1>2 DEF DbType, RequestType, DaemonType

(* ServerCrash, a control-plane crash, keeps every variable typed. *)
LEMMA ServerCrashType == ASSUME TypeOK, ServerCrash PROVE TypeOK'
<1> USE ConnAssumption DEF TypeOK, ServerCrash, Fault, Unsent, dbVars, opVars, linkVars, daemonVars, history
<1>1. RequestType' BY DEF RequestType, Envelope
<1>2. LinkType'
  <2>1. <<>> \in Seq(Envelope) /\ Len(<<>>) <= SendCap BY SMT, BoundAssumption
  <2> QED BY <2>1 DEF LinkType, Envelope
<1>3. BookType' BY SMT DEF BookType
<1> QED BY <1>1, <1>2, <1>3 DEF DbType, DaemonType

(* Dial, connectAndServe's dial, keeps every variable typed. *)
LEMMA DialType == ASSUME TypeOK, NEW c \in Conns, Dial(c) PROVE TypeOK'
<1> USE ConnAssumption DEF TypeOK, Dial, Goto, dbVars, opVars, linkVars, daemonVars, history
<1>1. LinkType'
  <2>1. <<>> \in Seq(Envelope) /\ Len(<<>>) <= SendCap BY SMT, BoundAssumption
  <2> QED BY <2>1 DEF LinkType
<1>2. DaemonType'
  <2>1. <<>> \in Seq(Envelope) BY SMT
  <2> QED BY <2>1 DEF DaemonType
<1>3. BookType' BY DEF BookType
<1> QED BY <1>1, <1>2, <1>3 DEF DbType, RequestType

(* Receive, dispatch and ApplySnapshot, keeps every variable typed. *)
LEMMA ReceiveType == ASSUME TypeOK, Receive PROVE TypeOK'
<1> USE ConnAssumption DEF TypeOK, Receive, Newer, Saved, dbVars, opVars, linkVars, daemonVars, history
<1>a. wire[dconn] \in Seq(Envelope) /\ wire[dconn] # <<>> /\ dconn \in Conns
  BY DEF DaemonType
<1>b. Head(wire[dconn]) \in Envelope /\ Tail(wire[dconn]) \in Seq(Envelope)
  BY SMT, <1>a
<1>1. DaemonType'
  <2>1. mem' \in Envelope /\ disk' \in Envelope BY <1>b DEF DaemonType
  <2> QED BY <1>a, <1>b, <2>1 DEF DaemonType
<1> QED BY <1>1 DEF DbType, RequestType, LinkType, BookType

(* ReceiveUnsaved, ApplySnapshot with a failed write, keeps every variable typed. *)
LEMMA ReceiveUnsavedType == ASSUME TypeOK, ReceiveUnsaved PROVE TypeOK'
<1>2. BookType' BY FaultBook DEF TypeOK, ReceiveUnsaved
<1> USE ConnAssumption DEF TypeOK, ReceiveUnsaved, Newer, dbVars, opVars, linkVars, daemonVars, history
<1>a. Head(wire[dconn]) \in Envelope BY SMT DEF DaemonType
<1>1. DaemonType'
  BY <1>a, HangupType DEF DaemonType
<1> QED BY <1>1, <1>2 DEF DbType, RequestType, LinkType

(* SeeRejected, Run's purge, keeps every variable typed. *)
LEMMA SeeRejectedType == ASSUME TypeOK, SeeRejected PROVE TypeOK'
<1> USE ConnAssumption DEF TypeOK, SeeRejected, Purged, Saved, dbVars, opVars, linkVars, daemonVars, history
<1>a. Purged \in Envelope BY DEF DaemonType, Envelope
<1>1. DaemonType'
  BY <1>a, HangupType DEF DaemonType
<1> QED BY <1>1 DEF DbType, RequestType, LinkType, BookType

(* SeeRejectedUnsaved, Run's purge with a failed write, keeps every variable typed. *)
LEMMA SeeRejectedUnsavedType == ASSUME TypeOK, SeeRejectedUnsaved PROVE TypeOK'
<1>2. BookType' BY FaultBook DEF TypeOK, SeeRejectedUnsaved
<1> USE ConnAssumption DEF TypeOK, SeeRejectedUnsaved, Purged, dbVars, opVars, linkVars, daemonVars, history
<1>a. Purged \in Envelope BY DEF DaemonType, Envelope
<1>1. DaemonType'
  BY <1>a, HangupType DEF DaemonType
<1> QED BY <1>1, <1>2 DEF DbType, RequestType, LinkType

(* SeeClosed, the end of a connection, keeps every variable typed. *)
LEMMA SeeClosedType == ASSUME TypeOK, SeeClosed PROVE TypeOK'
<1> USE ConnAssumption DEF TypeOK, SeeClosed, dbVars, opVars, linkVars, daemonVars, history
<1>1. DaemonType'
  BY HangupType DEF DaemonType
<1> QED BY <1>1 DEF DbType, RequestType, LinkType, BookType

(* ReadTimeout, the daemon's read timeout, keeps every variable typed. *)
LEMMA ReadTimeoutType == ASSUME TypeOK, ReadTimeout PROVE TypeOK'
<1> USE ConnAssumption DEF TypeOK, ReadTimeout, dbVars, opVars, linkVars, daemonVars, history
<1>1. DaemonType'
  BY HangupType DEF DaemonType
<1> QED BY <1>1 DEF DbType, RequestType, LinkType, BookType

(* LinkDrop, a lost link, keeps every variable typed. *)
LEMMA LinkDropType == ASSUME TypeOK, LinkDrop PROVE TypeOK'
<1>2. BookType' BY FaultBook DEF TypeOK, LinkDrop
<1> USE ConnAssumption DEF TypeOK, LinkDrop, dbVars, opVars, linkVars, daemonVars, history
<1>1. DaemonType'
  BY HangupType DEF DaemonType
<1> QED BY <1>1, <1>2 DEF DbType, RequestType, LinkType

(* DaemonCrash, a daemon crash, keeps every variable typed. *)
LEMMA DaemonCrashType == ASSUME TypeOK, DaemonCrash PROVE TypeOK'
<1>2. BookType' BY FaultBook DEF TypeOK, DaemonCrash
<1> USE ConnAssumption DEF TypeOK, DaemonCrash, dbVars, opVars, linkVars, daemonVars, history
<1>1. DaemonType'
  <2>1. CASE dconn = NoConn BY <2>1 DEF DaemonType
  <2>2. CASE dconn # NoConn BY <2>2, HangupType DEF DaemonType
  <2> QED BY <2>1, <2>2
<1> QED BY <1>1, <1>2 DEF DbType, RequestType, LinkType

(* DaemonStart, LoadCache at start, keeps every variable typed. *)
LEMMA DaemonStartType == ASSUME TypeOK, DaemonStart PROVE TypeOK'
<1> USE ConnAssumption DEF TypeOK, DaemonStart, Loaded, dbVars, opVars, linkVars, daemonVars, history
<1>1. DaemonType' BY DEF DaemonType, Envelope
<1> QED BY <1>1 DEF DbType, RequestType, LinkType, BookType

(* Every step keeps TypeOK, so it is inductive. *)
LEMMA NextTypeOK == TypeOK /\ [Next]_vars => TypeOK'
<1> SUFFICES ASSUME TypeOK, [Next]_vars PROVE TypeOK'
  OBVIOUS
<1>1. CASE UNCHANGED vars
  BY <1>1 DEF vars, dbVars, opVars, linkVars, daemonVars, history, TypeOK, DbType,
              RequestType, LinkType, DaemonType, BookType
<1>2. ASSUME NEW h \in Handlers, Request(h) \/ HandlerStep(h) \/ Abandon(h)
      PROVE  TypeOK'
  BY <1>2, CommitType, RefreshType, RevokeType, BuildType, StampType, FetchType,
     SendType, AbandonType DEF Request, HandlerStep
<1>3. ASSUME NEW c \in Conns, ConnStep(c) \/ AuthError(c) \/ SkipFirst(c) \/ ServerDrop(c)
      PROVE  TypeOK'
  BY <1>3, AuthenticateType, AuthErrorType, RegisterType, BuildFirstType, StampFirstType,
     SkipFirstType, SkipCancelledType, QueueFirstType, WriteDaemonType, LeaveType,
     FlushAndCloseType, ServerDropType DEF ConnStep
<1>4. ASSUME DaemonStep PROVE TypeOK'
  BY <1>4, DialType, ReceiveType, SeeRejectedType, SeeClosedType, ReadTimeoutType,
     DaemonStartType DEF DaemonStep
<1>5. ASSUME ServerCrash \/ ReceiveUnsaved \/ SeeRejectedUnsaved \/ LinkDrop \/ DaemonCrash
      PROVE  TypeOK'
  BY <1>5, ServerCrashType, ReceiveUnsavedType, SeeRejectedUnsavedType, LinkDropType,
     DaemonCrashType
<1> QED BY <1>1, <1>2, <1>3, <1>4, <1>5 DEF Next, FaultStep

(* Every reachable state is well typed, no channel exceeds its capacity and *)
(* no handler sends to a connection it does not hold.                       *)
THEOREM TypeCorrect == Spec => []TypeOK
<1>1. Init => TypeOK BY InitTypeOK
<1>2. TypeOK /\ [Next]_vars => TypeOK' BY NextTypeOK
<1> QED BY <1>1, <1>2, PTL DEF Spec

-----------------------------------------------------------------------------
(* The inductive invariant: AppliedAsSigned holds after a delivery because  *)
(* everything on its way to the cache was signed under its own number.      *)
DeliveryInv == HeldSigned /\ QueueSigned /\ WireSigned /\ AppliedAsSigned

(* Nothing is numbered at first. *)
LEMMA InitDelivery == Init => DeliveryInv
<1>1. ASSUME NEW s, s = <<>> PROVE Len(s) = 0 BY <1>1
<1>2. Init => HeldSigned BY DEF Init, HeldSigned
<1>3. Init => QueueSigned BY SMT DEF Init, QueueSigned
<1>4. Init => WireSigned BY SMT DEF Init, WireSigned
<1>5. Init => AppliedAsSigned BY SMT, <1>1 DEF Init, AppliedAsSigned, SignedAs, Unsent
<1> QED BY <1>2, <1>3, <1>4, <1>5 DEF DeliveryInv

(* A list signed under a number stays signed under it when another is.      *)
LEMMA SignKeeps ==
    ASSUME TypeOK, NEW l \in Envelope, Sign(l.keys)
    PROVE  /\ \A e : Issued(e) => e.seq \in 1..Len(signed') /\ e.keys = signed'[e.seq]
           /\ \A e \in Envelope : SignedAs(e) =>
                 /\ e.seq <= Len(signed')
                 /\ e.keys = {} \/ (e.seq > 0 /\ e.keys = signed'[e.seq])
           /\ LET s == [l EXCEPT !.seq = NextSeq]
              IN  s.seq \in 1..Len(signed') /\ s.keys = signed'[s.seq]
<1>1. /\ Len(signed') = NextSeq /\ signed'[NextSeq] = l.keys /\ NextSeq \in Nat \ {0}
      /\ \A n \in 1..Len(signed) : signed'[n] = signed[n]
  BY SignType DEF TypeOK
<1>2. Len(signed) \in Nat /\ NextSeq = Len(signed) + 1 BY SMT DEF TypeOK, DbType, NextSeq
<1>3. \A e : Issued(e) => e.seq \in 1..Len(signed') /\ e.keys = signed'[e.seq]
  BY SMT, <1>1, <1>2 DEF Issued
<1>4. ASSUME NEW e \in Envelope, SignedAs(e)
      PROVE  /\ e.seq <= Len(signed')
             /\ e.keys = {} \/ (e.seq > 0 /\ e.keys = signed'[e.seq])
  BY SMT, <1>1, <1>2, <1>4 DEF SignedAs, Envelope
<1>5. LET s == [l EXCEPT !.seq = NextSeq]
      IN  s.seq \in 1..Len(signed') /\ s.keys = signed'[s.seq]
  BY SMT, <1>1, <1>2 DEF Envelope
<1> QED BY <1>3, <1>4, <1>5

(* Appending a signed envelope, or dropping the oldest one, keeps a         *)
(* sequence signed; so does a prefix, and joining two signed sequences.     *)
AllIssued(s) == \A i \in 1..Len(s) : Issued(s[i])

(* A channel of issued envelopes stays one when an issued envelope is added. *)
LEMMA AppendIssued ==
    ASSUME NEW s \in Seq(Envelope), AllIssued(s), NEW e \in Envelope, Issued(e)
    PROVE  AllIssued(Append(s, e))
<1>1. Len(s) \in Nat BY SMT
<1>2. /\ Len(Append(s, e)) = Len(s) + 1
      /\ \A i \in 1..Len(s) : Append(s, e)[i] = s[i]
      /\ Append(s, e)[Len(s) + 1] = e
  BY SMT
<1> QED BY SMT, <1>1, <1>2 DEF AllIssued

(* What remains of such a channel, and its head, are issued. *)
LEMMA TailIssued ==
    ASSUME NEW s \in Seq(Envelope), s # <<>>, AllIssued(s)
    PROVE  AllIssued(Tail(s)) /\ Issued(Head(s)) /\ Head(s) \in Envelope
<1>1. Len(s) \in Nat \ {0} BY SMT
<1>2. /\ Head(s) = s[1] /\ Head(s) \in Envelope
      /\ Len(Tail(s)) = Len(s) - 1
      /\ \A i \in 1..Len(Tail(s)) : Tail(s)[i] = s[i + 1]
  BY SMT, <1>1
<1> QED BY SMT, <1>1, <1>2 DEF AllIssued

(* So is any prefix flushDaemon writes. *)
LEMMA PrefixIssued ==
    ASSUME NEW s \in Seq(Envelope), AllIssued(s), NEW n \in 0..Len(s)
    PROVE  AllIssued(SubSeq(s, 1, n)) /\ SubSeq(s, 1, n) \in Seq(Envelope)
<1>1. Len(s) \in Nat BY SMT
<1>2. /\ SubSeq(s, 1, n) \in Seq(Envelope)
      /\ Len(SubSeq(s, 1, n)) = n
      /\ \A i \in 1..n : SubSeq(s, 1, n)[i] = s[i]
  BY SMT, <1>1
<1> QED BY SMT, <1>1, <1>2 DEF AllIssued

(* So is what a socket carries after a write. *)
LEMMA ConcatIssued ==
    ASSUME NEW s \in Seq(Envelope), NEW t \in Seq(Envelope), AllIssued(s), AllIssued(t)
    PROVE  AllIssued(s \o t)
<1>1. Len(s) \in Nat /\ Len(t) \in Nat BY SMT
<1>2. /\ Len(s \o t) = Len(s) + Len(t)
      /\ \A i \in 1..Len(s) + Len(t) :
            (s \o t)[i] = IF i <= Len(s) THEN s[i] ELSE t[i - Len(s)]
  BY SMT, <1>1
<1>3. \A i \in 1..Len(s) + Len(t) : i > Len(s) => i - Len(s) \in 1..Len(t) BY SMT, <1>1
<1> QED BY SMT, <1>1, <1>2, <1>3 DEF AllIssued

(* The writer moves signed envelopes to the socket.                         *)
LEMMA WriteSigned ==
    ASSUME TypeOK, WireSigned, NEW c \in Conns, NEW msgs \in Seq(Envelope),
           AllIssued(msgs), Write(c, msgs), UNCHANGED signed
    PROVE  WireSigned'
<1>1. wire[c] \in Seq(Envelope) /\ AllIssued(wire[c])
  BY DEF TypeOK, DaemonType, WireSigned, AllIssued
<1>2. AllIssued(wire[c] \o msgs) BY <1>1, ConcatIssued
<1>3. wire \in [Conns -> Seq(Envelope)] BY DEF TypeOK, DaemonType
<1> QED BY <1>2, <1>3 DEF Write, WireSigned, AllIssued, Issued

(* A channel that takes a signed envelope stays signed.                     *)
LEMMA PushSigned ==
    ASSUME TypeOK, QueueSigned, NEW c \in Conns, NEW e \in Envelope, Issued(e),
           queue' = [queue EXCEPT ![c] = Append(@, e)], UNCHANGED signed
    PROVE  QueueSigned'
<1>1. queue[c] \in Seq(Envelope) /\ AllIssued(queue[c])
  BY DEF TypeOK, LinkType, QueueSigned, AllIssued
<1>2. AllIssued(Append(queue[c], e)) BY <1>1, AppendIssued
<1>3. queue \in [Conns -> Seq(Envelope)] BY DEF TypeOK, LinkType
<1> QED BY <1>2, <1>3 DEF QueueSigned, AllIssued, Issued

(* A socket the daemon has left carries nothing. *)
LEMMA HangupSigned ==
    ASSUME TypeOK, WireSigned, dconn # NoConn, Hangup, UNCHANGED signed
    PROVE  WireSigned'
<1>1. wire \in [Conns -> Seq(Envelope)] /\ Len(<<>>) = 0 BY DEF TypeOK, DaemonType
<1> QED BY SMT, <1>1 DEF Hangup, WireSigned, Issued

(* Commit, a handler's commit, keeps what is held and in flight as signed. *)
LEMMA CommitDelivery == ASSUME TypeOK, DeliveryInv, NEW h \in Handlers, Commit(h) PROVE DeliveryInv'
<1> USE DEF TypeOK, DeliveryInv, Commit, dbVars, opVars, linkVars, daemonVars, history
<1>1. HeldSigned' BY DEF RequestType, LinkType, HeldSigned, Issued
<1> QED BY <1>1 DEF QueueSigned, WireSigned, AppliedAsSigned, SignedAs, Issued

(* Refresh, handleRefreshHost, keeps what is held and in flight as signed. *)
LEMMA RefreshDelivery == ASSUME TypeOK, DeliveryInv, NEW h \in Handlers, Refresh(h) PROVE DeliveryInv'
<1> USE DEF TypeOK, DeliveryInv, Refresh, dbVars, opVars, linkVars, daemonVars, history
<1>1. HeldSigned' BY DEF RequestType, LinkType, HeldSigned, Issued
<1> QED BY <1>1 DEF QueueSigned, WireSigned, AppliedAsSigned, SignedAs, Issued

(* Revoke, revokeHost's status change, keeps what is held and in flight as signed. *)
LEMMA RevokeDelivery == ASSUME TypeOK, DeliveryInv, NEW h \in Handlers, Revoke(h) PROVE DeliveryInv'
<1> USE DEF TypeOK, DeliveryInv, Revoke, Unsent, dbVars, opVars, linkVars, daemonVars, history
<1>1. HeldSigned' BY DEF RequestType, LinkType, HeldSigned, Issued
<1> QED BY <1>1 DEF QueueSigned, WireSigned, AppliedAsSigned, SignedAs, Issued

(* Build, buildSnapshot in a request, keeps what is held and in flight as signed. *)
LEMMA BuildDelivery == ASSUME TypeOK, DeliveryInv, NEW h \in Handlers, Build(h) PROVE DeliveryInv'
<1> USE DEF TypeOK, DeliveryInv, Build, dbVars, opVars, linkVars, daemonVars, history
<1>1. HeldSigned' BY DEF RequestType, LinkType, HeldSigned, Issued
<1> QED BY <1>1 DEF QueueSigned, WireSigned, AppliedAsSigned, SignedAs, Issued

(* Stamp, snapshotEnvelope in a request, keeps what is held and in flight as signed. *)
LEMMA StampDelivery == ASSUME TypeOK, DeliveryInv, NEW h \in Handlers, Stamp(h) PROVE DeliveryInv'
<1> USE DEF TypeOK, DeliveryInv, Stamp, dbVars, opVars, linkVars, daemonVars, history
<1>a. env[h] \in Envelope /\ env'[h] = [env[h] EXCEPT !.seq = NextSeq]
  BY DEF RequestType
<1>b. /\ \A e : Issued(e) => e.seq \in 1..Len(signed') /\ e.keys = signed'[e.seq]
      /\ \A e \in Envelope : SignedAs(e) =>
            /\ e.seq <= Len(signed')
            /\ e.keys = {} \/ (e.seq > 0 /\ e.keys = signed'[e.seq])
      /\ env'[h].seq \in 1..Len(signed') /\ env'[h].keys = signed'[env'[h].seq]
  BY <1>a, SignKeeps
<1>1. HeldSigned'
  BY <1>a, <1>b DEF RequestType, HeldSigned, Issued
<1>2. QueueSigned'
  BY <1>b DEF QueueSigned, Issued
<1>3. WireSigned'
  BY <1>b DEF WireSigned, Issued
<1>4. AppliedAsSigned'
  BY <1>b DEF DaemonType, AppliedAsSigned, SignedAs
<1> QED BY <1>1, <1>2, <1>3, <1>4

(* Abandon, a push given up, keeps what is held and in flight as signed. *)
LEMMA AbandonDelivery == ASSUME TypeOK, DeliveryInv, NEW h \in Handlers, Abandon(h) PROVE DeliveryInv'
<1> USE DEF TypeOK, DeliveryInv, Abandon, Return, dbVars, opVars, linkVars, daemonVars, history
<1>1. HeldSigned' BY DEF RequestType, LinkType, HeldSigned, Issued
<1> QED BY <1>1 DEF QueueSigned, WireSigned, AppliedAsSigned, SignedAs, Issued

(* Fetch, hub.push taking the entry, keeps what is held and in flight as signed. *)
LEMMA FetchDelivery == ASSUME TypeOK, DeliveryInv, NEW h \in Handlers, Fetch(h) PROVE DeliveryInv'
<1> USE DEF TypeOK, DeliveryInv, Fetch, Return, dbVars, opVars, linkVars, daemonVars, history
<1>1. HeldSigned'
  <2>1. \A g \in Handlers : pc'[g] \in {"fetch", "send"} =>
            pc[g] \in {"fetch", "send"} /\ env'[g] = env[g]
    BY DEF RequestType
  <2> QED BY <2>1 DEF HeldSigned, Issued
<1> QED BY <1>1 DEF QueueSigned, WireSigned, AppliedAsSigned, SignedAs, Issued

(* Send, hub.push and hub.disconnect sending, keeps what is held and in flight as signed. *)
LEMMA SendDelivery == ASSUME TypeOK, DeliveryInv, NEW h \in Handlers, Send(h) PROVE DeliveryInv'
<1> USE DEF TypeOK, DeliveryInv, Send, Return, dbVars, opVars, linkVars, daemonVars, history
<1>a. target[h] \in Conns /\ env[h] \in Envelope /\ Issued(env[h])
  BY DEF RequestType, HeldSigned
<1>1. HeldSigned' BY DEF RequestType, LinkType, HeldSigned, Issued
<1>2. QueueSigned'
  <2>1. CASE Full(target[h]) BY <2>1 DEF QueueSigned, Issued
  <2>2. CASE ~Full(target[h]) BY <1>a, <2>2, PushSigned
  <2> QED BY <2>1, <2>2
<1> QED BY <1>1, <1>2 DEF WireSigned, AppliedAsSigned, SignedAs, Issued

(* Authenticate, authenticateDaemon, keeps what is held and in flight as signed. *)
LEMMA AuthenticateDelivery == ASSUME TypeOK, DeliveryInv, NEW c \in Conns, Authenticate(c) PROVE DeliveryInv'
<1> USE DEF TypeOK, DeliveryInv, Authenticate, Goto, dbVars, opVars, linkVars, daemonVars, history
<1>1. HeldSigned' BY DEF RequestType, LinkType, HeldSigned, Issued
<1> QED BY <1>1 DEF QueueSigned, WireSigned, AppliedAsSigned, SignedAs, Issued

(* AuthError, a failed authentication, keeps what is held and in flight as signed. *)
LEMMA AuthErrorDelivery == ASSUME TypeOK, DeliveryInv, NEW c \in Conns, AuthError(c) PROVE DeliveryInv'
<1> USE DEF TypeOK, DeliveryInv, AuthError, Goto, dbVars, opVars, linkVars, daemonVars, history
<1>1. HeldSigned' BY DEF RequestType, LinkType, HeldSigned, Issued
<1> QED BY <1>1 DEF QueueSigned, WireSigned, AppliedAsSigned, SignedAs, Issued

(* Register, hub.register, keeps what is held and in flight as signed. *)
LEMMA RegisterDelivery == ASSUME TypeOK, DeliveryInv, NEW c \in Conns, Register(c) PROVE DeliveryInv'
<1> USE DEF TypeOK, DeliveryInv, Register, Goto, dbVars, opVars, linkVars, daemonVars, history
<1>1. HeldSigned' BY DEF RequestType, LinkType, HeldSigned, Issued
<1> QED BY <1>1 DEF QueueSigned, WireSigned, AppliedAsSigned, SignedAs, Issued

(* BuildFirst, buildSnapshot on connect, keeps what is held and in flight as signed. *)
LEMMA BuildFirstDelivery == ASSUME TypeOK, DeliveryInv, NEW c \in Conns, BuildFirst(c) PROVE DeliveryInv'
<1> USE DEF TypeOK, DeliveryInv, BuildFirst, Goto, dbVars, opVars, linkVars, daemonVars, history
<1>1. HeldSigned' BY DEF RequestType, LinkType, HeldSigned, Issued
<1> QED BY <1>1 DEF QueueSigned, WireSigned, AppliedAsSigned, SignedAs, Issued

(* StampFirst, snapshotEnvelope on connect, keeps what is held and in flight as signed. *)
LEMMA StampFirstDelivery == ASSUME TypeOK, DeliveryInv, NEW c \in Conns, StampFirst(c) PROVE DeliveryInv'
<1> USE DEF TypeOK, DeliveryInv, StampFirst, Goto, dbVars, opVars, linkVars, daemonVars, history
<1>a. first[c] \in Envelope /\ first'[c] = [first[c] EXCEPT !.seq = NextSeq]
  BY DEF LinkType
<1>b. /\ \A e : Issued(e) => e.seq \in 1..Len(signed') /\ e.keys = signed'[e.seq]
      /\ \A e \in Envelope : SignedAs(e) =>
            /\ e.seq <= Len(signed')
            /\ e.keys = {} \/ (e.seq > 0 /\ e.keys = signed'[e.seq])
      /\ first'[c].seq \in 1..Len(signed') /\ first'[c].keys = signed'[first'[c].seq]
  BY <1>a, SignKeeps
<1>1. HeldSigned'
  BY <1>a, <1>b DEF LinkType, HeldSigned, Issued
<1>2. QueueSigned'
  BY <1>b DEF QueueSigned, Issued
<1>3. WireSigned'
  BY <1>b DEF WireSigned, Issued
<1>4. AppliedAsSigned'
  BY <1>b DEF DaemonType, AppliedAsSigned, SignedAs
<1> QED BY <1>1, <1>2, <1>3, <1>4

(* SkipFirst, an initial snapshot that fails, keeps what is held and in flight as signed. *)
LEMMA SkipFirstDelivery == ASSUME TypeOK, DeliveryInv, NEW c \in Conns, SkipFirst(c) PROVE DeliveryInv'
<1> USE DEF TypeOK, DeliveryInv, SkipFirst, NoFirst, Goto, dbVars, opVars, linkVars, daemonVars, history
<1>1. HeldSigned' BY DEF RequestType, LinkType, HeldSigned, Issued
<1> QED BY <1>1 DEF QueueSigned, WireSigned, AppliedAsSigned, SignedAs, Issued

(* SkipCancelled, an initial snapshot cut by the context, keeps what is held and in flight as signed. *)
LEMMA SkipCancelledDelivery == ASSUME TypeOK, DeliveryInv, NEW c \in Conns, SkipCancelled(c) PROVE DeliveryInv'
<1> USE DEF TypeOK, DeliveryInv, SkipCancelled, NoFirst, Goto, dbVars, opVars, linkVars, daemonVars, history
<1>1. HeldSigned' BY DEF RequestType, LinkType, HeldSigned, Issued
<1> QED BY <1>1 DEF QueueSigned, WireSigned, AppliedAsSigned, SignedAs, Issued

(* QueueFirst, queueing the initial snapshot, keeps what is held and in flight as signed. *)
LEMMA QueueFirstDelivery == ASSUME TypeOK, DeliveryInv, NEW c \in Conns, QueueFirst(c) PROVE DeliveryInv'
<1> USE DEF TypeOK, DeliveryInv, QueueFirst, Goto, dbVars, opVars, linkVars, daemonVars, history
<1>a. first[c] \in Envelope /\ Issued(first[c]) BY DEF LinkType, HeldSigned
<1>1. HeldSigned' BY DEF RequestType, LinkType, HeldSigned, Issued
<1>2. QueueSigned'
  BY <1>a, PushSigned
<1> QED BY <1>1, <1>2 DEF WireSigned, AppliedAsSigned, SignedAs, Issued

(* WriteDaemon, writeDaemon, keeps what is held and in flight as signed. *)
LEMMA WriteDaemonDelivery == ASSUME TypeOK, DeliveryInv, NEW c \in Conns, WriteDaemon(c) PROVE DeliveryInv'
<1> USE DEF TypeOK, DeliveryInv, WriteDaemon, dbVars, opVars, linkVars, daemonVars, history
<1>a. queue[c] \in Seq(Envelope) /\ AllIssued(queue[c])
  BY DEF LinkType, QueueSigned, AllIssued
<1>b. AllIssued(Tail(queue[c])) /\ Issued(Head(queue[c])) /\ Head(queue[c]) \in Envelope
  BY <1>a, TailIssued
<1>1. QueueSigned'
  BY <1>a, <1>b DEF LinkType, QueueSigned, AllIssued, Issued
<1>2. WireSigned'
  <2>1. <<Head(queue[c])>> \in Seq(Envelope) /\ AllIssued(<<Head(queue[c])>>)
    BY SMT, <1>b DEF AllIssued
  <2> QED BY <2>1, WriteSigned
<1> QED BY <1>1, <1>2 DEF HeldSigned, AppliedAsSigned, SignedAs, Issued

(* Leave, readDaemon's return and the deferred calls, keeps what is held and in flight as signed. *)
LEMMA LeaveDelivery == ASSUME TypeOK, DeliveryInv, NEW c \in Conns, Leave(c) PROVE DeliveryInv'
<1> USE DEF TypeOK, DeliveryInv, Leave, Goto, dbVars, opVars, linkVars, daemonVars, history
<1>1. HeldSigned' BY DEF RequestType, LinkType, HeldSigned, Issued
<1> QED BY <1>1 DEF QueueSigned, WireSigned, AppliedAsSigned, SignedAs, Issued

(* FlushAndClose, flushDaemon, keeps what is held and in flight as signed. *)
LEMMA FlushAndCloseDelivery == ASSUME TypeOK, DeliveryInv, NEW c \in Conns, FlushAndClose(c) PROVE DeliveryInv'
<1> USE DEF TypeOK, DeliveryInv, FlushAndClose, Goto, dbVars, opVars, linkVars, daemonVars, history
<1>a. queue[c] \in Seq(Envelope) /\ AllIssued(queue[c])
  BY DEF LinkType, QueueSigned, AllIssued
<1>b. PICK n \in 0..Len(queue[c]) : Write(c, SubSeq(queue[c], 1, n)) OBVIOUS
<1>c. AllIssued(SubSeq(queue[c], 1, n)) /\ SubSeq(queue[c], 1, n) \in Seq(Envelope)
  BY <1>a, PrefixIssued
<1>1. HeldSigned' BY DEF RequestType, LinkType, HeldSigned, Issued
<1>2. QueueSigned'
  <2>1. /\ signed' = signed
        /\ \A d \in Conns : queue'[d] = IF d = c THEN <<>> ELSE queue[d]
    BY DEF LinkType
  <2> QED BY SMT, <2>1 DEF QueueSigned, Issued
<1>3. WireSigned'
  BY <1>b, <1>c, WriteSigned
<1> QED BY <1>1, <1>2, <1>3 DEF AppliedAsSigned, SignedAs, Issued

(* ServerDrop, a server-side disconnect, keeps what is held and in flight as signed. *)
LEMMA ServerDropDelivery == ASSUME TypeOK, DeliveryInv, NEW c \in Conns, ServerDrop(c) PROVE DeliveryInv'
<1> USE DEF TypeOK, DeliveryInv, ServerDrop, dbVars, opVars, linkVars, daemonVars, history
<1> QED BY DEF HeldSigned, QueueSigned, WireSigned, AppliedAsSigned, SignedAs, Issued

(* ServerCrash, a control-plane crash, keeps what is held and in flight as signed. *)
LEMMA ServerCrashDelivery == ASSUME TypeOK, DeliveryInv, ServerCrash PROVE DeliveryInv'
<1> USE DEF TypeOK, DeliveryInv, ServerCrash, dbVars, opVars, linkVars, daemonVars, history
<1>1. HeldSigned' BY DEF RequestType, LinkType, HeldSigned, Issued
<1>2. QueueSigned' BY SMT DEF LinkType, QueueSigned, Issued
<1> QED BY <1>1, <1>2 DEF WireSigned, AppliedAsSigned, SignedAs, Issued

(* Dial, connectAndServe's dial, keeps what is held and in flight as signed. *)
LEMMA DialDelivery == ASSUME TypeOK, DeliveryInv, NEW c \in Conns, Dial(c) PROVE DeliveryInv'
<1> USE DEF TypeOK, DeliveryInv, Dial, Goto, dbVars, opVars, linkVars, daemonVars, history
<1>1. HeldSigned' BY DEF RequestType, LinkType, HeldSigned, Issued
<1>2. QueueSigned' BY SMT DEF LinkType, QueueSigned, Issued
<1>3. WireSigned' BY SMT DEF DaemonType, WireSigned, Issued
<1> QED BY <1>1, <1>2, <1>3 DEF AppliedAsSigned, SignedAs, Issued

(* Receive, dispatch and ApplySnapshot, keeps what is held and in flight as signed. *)
LEMMA ReceiveDelivery == ASSUME TypeOK, DeliveryInv, Receive PROVE DeliveryInv'
<1> USE DEF TypeOK, DeliveryInv, Receive, Saved, dbVars, opVars, linkVars, daemonVars, history
<1>a. wire[dconn] \in Seq(Envelope) /\ AllIssued(wire[dconn])
  BY ConnAssumption DEF DaemonType, WireSigned, AllIssued
<1>b. /\ AllIssued(Tail(wire[dconn])) /\ Issued(Head(wire[dconn]))
      /\ Head(wire[dconn]) \in Envelope
  BY <1>a, TailIssued
<1>1. WireSigned'
  BY <1>a, <1>b DEF DaemonType, WireSigned, AllIssued, Issued
<1>2. AppliedAsSigned'
  <2>1. SignedAs(Head(wire[dconn])) BY SMT, <1>b DEF Issued, SignedAs, Envelope, DbType
  <2> QED BY <2>1 DEF AppliedAsSigned, SignedAs
<1> QED BY <1>1, <1>2 DEF HeldSigned, QueueSigned, Issued

(* ReceiveUnsaved, ApplySnapshot with a failed write, keeps what is held and in flight as signed. *)
LEMMA ReceiveUnsavedDelivery == ASSUME TypeOK, DeliveryInv, ReceiveUnsaved PROVE DeliveryInv'
<1> USE DEF TypeOK, DeliveryInv, ReceiveUnsaved, dbVars, opVars, linkVars, daemonVars, history
<1>a. wire[dconn] \in Seq(Envelope) /\ AllIssued(wire[dconn])
  BY ConnAssumption DEF DaemonType, WireSigned, AllIssued
<1>b. Issued(Head(wire[dconn])) /\ Head(wire[dconn]) \in Envelope BY <1>a, TailIssued
<1>1. WireSigned'
  BY HangupSigned
<1>2. AppliedAsSigned'
  <2>1. SignedAs(Head(wire[dconn])) BY SMT, <1>b DEF Issued, SignedAs, Envelope, DbType
  <2> QED BY <2>1 DEF AppliedAsSigned, SignedAs
<1> QED BY <1>1, <1>2 DEF HeldSigned, QueueSigned, Issued

(* SeeRejected, Run's purge, keeps what is held and in flight as signed. *)
LEMMA SeeRejectedDelivery == ASSUME TypeOK, DeliveryInv, SeeRejected PROVE DeliveryInv'
<1> USE DEF TypeOK, DeliveryInv, SeeRejected, Saved, Purged, dbVars, opVars, linkVars, daemonVars, history
<1>1. WireSigned'
  BY HangupSigned
<1>2. AppliedAsSigned' BY DEF DaemonType, AppliedAsSigned, SignedAs, Envelope
<1> QED BY <1>1, <1>2 DEF HeldSigned, QueueSigned, Issued

(* SeeRejectedUnsaved, Run's purge with a failed write, keeps what is held and in flight as signed. *)
LEMMA SeeRejectedUnsavedDelivery == ASSUME TypeOK, DeliveryInv, SeeRejectedUnsaved PROVE DeliveryInv'
<1> USE DEF TypeOK, DeliveryInv, SeeRejectedUnsaved, Purged, dbVars, opVars, linkVars, daemonVars, history
<1>1. WireSigned'
  BY HangupSigned
<1>2. AppliedAsSigned' BY DEF DaemonType, AppliedAsSigned, SignedAs, Envelope
<1> QED BY <1>1, <1>2 DEF HeldSigned, QueueSigned, Issued

(* SeeClosed, the end of a connection, keeps what is held and in flight as signed. *)
LEMMA SeeClosedDelivery == ASSUME TypeOK, DeliveryInv, SeeClosed PROVE DeliveryInv'
<1> USE DEF TypeOK, DeliveryInv, SeeClosed, dbVars, opVars, linkVars, daemonVars, history
<1>1. WireSigned'
  BY HangupSigned
<1> QED BY <1>1 DEF HeldSigned, QueueSigned, AppliedAsSigned, SignedAs, Issued

(* ReadTimeout, the daemon's read timeout, keeps what is held and in flight as signed. *)
LEMMA ReadTimeoutDelivery == ASSUME TypeOK, DeliveryInv, ReadTimeout PROVE DeliveryInv'
<1> USE DEF TypeOK, DeliveryInv, ReadTimeout, dbVars, opVars, linkVars, daemonVars, history
<1>1. WireSigned'
  BY HangupSigned
<1> QED BY <1>1 DEF HeldSigned, QueueSigned, AppliedAsSigned, SignedAs, Issued

(* LinkDrop, a lost link, keeps what is held and in flight as signed. *)
LEMMA LinkDropDelivery == ASSUME TypeOK, DeliveryInv, LinkDrop PROVE DeliveryInv'
<1> USE DEF TypeOK, DeliveryInv, LinkDrop, dbVars, opVars, linkVars, daemonVars, history
<1>1. WireSigned'
  BY HangupSigned
<1> QED BY <1>1 DEF HeldSigned, QueueSigned, AppliedAsSigned, SignedAs, Issued

(* DaemonCrash, a daemon crash, keeps what is held and in flight as signed. *)
LEMMA DaemonCrashDelivery == ASSUME TypeOK, DeliveryInv, DaemonCrash PROVE DeliveryInv'
<1> USE DEF TypeOK, DeliveryInv, DaemonCrash, dbVars, opVars, linkVars, daemonVars, history
<1>1. WireSigned'
  <2>1. CASE dconn = NoConn BY <2>1 DEF WireSigned, Issued
  <2>2. CASE dconn # NoConn BY <2>2, HangupSigned
  <2> QED BY <2>1, <2>2
<1> QED BY <1>1 DEF HeldSigned, QueueSigned, AppliedAsSigned, SignedAs, Issued

(* DaemonStart, LoadCache at start, keeps what is held and in flight as signed. *)
LEMMA DaemonStartDelivery == ASSUME TypeOK, DeliveryInv, DaemonStart PROVE DeliveryInv'
<1> USE DEF TypeOK, DeliveryInv, DaemonStart, Loaded, dbVars, opVars, linkVars, daemonVars, history
<1>1. AppliedAsSigned' BY DEF DaemonType, AppliedAsSigned, SignedAs, Envelope
<1> QED BY <1>1 DEF HeldSigned, QueueSigned, WireSigned, Issued

(* Every step keeps DeliveryInv. *)
LEMMA NextDelivery == TypeOK /\ DeliveryInv /\ [Next]_vars => DeliveryInv'
<1> SUFFICES ASSUME TypeOK, DeliveryInv, [Next]_vars PROVE DeliveryInv'
  OBVIOUS
<1>1. CASE UNCHANGED vars
  BY <1>1 DEF vars, dbVars, opVars, linkVars, daemonVars, DeliveryInv, HeldSigned,
              QueueSigned, WireSigned, AppliedAsSigned, SignedAs, Issued
<1>2. ASSUME NEW h \in Handlers, Request(h) \/ HandlerStep(h) \/ Abandon(h)
      PROVE  DeliveryInv'
  BY <1>2, CommitDelivery, RefreshDelivery, RevokeDelivery, BuildDelivery, StampDelivery,
     FetchDelivery, SendDelivery, AbandonDelivery DEF Request, HandlerStep
<1>3. ASSUME NEW c \in Conns, ConnStep(c) \/ AuthError(c) \/ SkipFirst(c) \/ ServerDrop(c)
      PROVE  DeliveryInv'
  BY <1>3, AuthenticateDelivery, AuthErrorDelivery, RegisterDelivery, BuildFirstDelivery,
     StampFirstDelivery, SkipFirstDelivery, SkipCancelledDelivery, QueueFirstDelivery,
     WriteDaemonDelivery, LeaveDelivery, FlushAndCloseDelivery, ServerDropDelivery
     DEF ConnStep
<1>4. ASSUME DaemonStep PROVE DeliveryInv'
  BY <1>4, DialDelivery, ReceiveDelivery, SeeRejectedDelivery, SeeClosedDelivery,
     ReadTimeoutDelivery, DaemonStartDelivery DEF DaemonStep
<1>5. ASSUME ServerCrash \/ ReceiveUnsaved \/ SeeRejectedUnsaved \/ LinkDrop \/ DaemonCrash
      PROVE  DeliveryInv'
  BY <1>5, ServerCrashDelivery, ReceiveUnsavedDelivery, SeeRejectedUnsavedDelivery,
     LinkDropDelivery, DaemonCrashDelivery
<1> QED BY <1>1, <1>2, <1>3, <1>4, <1>5 DEF Next, FaultStep

(* DeliveryInv holds throughout; the theorems below rest on it. *)
LEMMA DeliveryInvariant == Spec => [](TypeOK /\ DeliveryInv)
<1>1. Init => TypeOK /\ DeliveryInv BY InitTypeOK, InitDelivery
<1>2. TypeOK /\ DeliveryInv /\ [Next]_vars => (TypeOK /\ DeliveryInv)'
  BY NextTypeOK, NextDelivery
<1> QED BY <1>1, <1>2, PTL DEF Spec

(* Whatever is dropped, reordered, crashed or left unsaved, the lists in    *)
(* memory and in cache.json are lists signed under the copy's own number.   *)
THEOREM CopiesAsSigned == Spec => []AppliedAsSigned
<1>1. DeliveryInv => AppliedAsSigned BY DEF DeliveryInv
<1> QED BY <1>1, DeliveryInvariant, PTL

(* Every envelope a handler, a channel or a socket carries is the list      *)
(* signed under its number.                                                 *)
THEOREM InFlightAsSigned == Spec => []InFlightSigned
<1>1. DeliveryInv => InFlightSigned BY DEF DeliveryInv, InFlightSigned
<1> QED BY <1>1, DeliveryInvariant, PTL

-----------------------------------------------------------------------------
(* Only these steps change the signed lists or the daemon's copies.         *)
LEMMA CopyFrame ==
    ASSUME [Next]_vars
    PROVE  \/ UNCHANGED <<signed, running, mem, disk>>
           \/ \E h \in Handlers : Stamp(h)
           \/ \E c \in Conns : StampFirst(c)
           \/ Receive \/ ReceiveUnsaved \/ SeeRejected \/ SeeRejectedUnsaved
           \/ DaemonCrash \/ DaemonStart
<1> DEFINE Same == UNCHANGED <<signed, running, mem, disk>>
<1> USE DEF dbVars, daemonVars
<1>1. CASE UNCHANGED vars BY <1>1 DEF vars
<1>2. ASSUME NEW h \in Handlers,
             Request(h) \/ Build(h) \/ Fetch(h) \/ Send(h) \/ Abandon(h)
      PROVE  Same
  BY <1>2 DEF Request, Commit, Refresh, Revoke, Build, Fetch, Send, Abandon
<1>3. ASSUME NEW c \in Conns,
             \/ Authenticate(c) \/ Register(c) \/ BuildFirst(c) \/ SkipCancelled(c)
             \/ QueueFirst(c) \/ WriteDaemon(c) \/ Leave(c) \/ FlushAndClose(c)
             \/ AuthError(c) \/ SkipFirst(c) \/ ServerDrop(c) \/ Dial(c)
      PROVE  Same
  BY <1>3 DEF Authenticate, Register, BuildFirst, SkipCancelled, QueueFirst, WriteDaemon,
     Leave, FlushAndClose, AuthError, SkipFirst, NoFirst, ServerDrop, Dial
<1>4. ASSUME ServerCrash \/ SeeClosed \/ ReadTimeout \/ LinkDrop PROVE Same
  BY <1>4 DEF ServerCrash, SeeClosed, ReadTimeout, LinkDrop
<1> HIDE DEF Same
<1>5. \/ Same
      \/ \E h \in Handlers : Stamp(h)
      \/ \E c \in Conns : StampFirst(c)
      \/ Receive \/ ReceiveUnsaved \/ SeeRejected \/ SeeRejectedUnsaved
      \/ DaemonCrash \/ DaemonStart
  BY <1>1, <1>2, <1>3, <1>4 DEF Next, HandlerStep, ConnStep, DaemonStep, FaultStep, Same
<1> QED BY <1>5 DEF Same

(* The daemon receives only issued envelopes. *)
LEMMA ReceivedEnvelope ==
    ASSUME TypeOK, DeliveryInv, dconn # NoConn, wire[dconn] # <<>>
    PROVE  Head(wire[dconn]) \in Envelope /\ Issued(Head(wire[dconn]))
<1>1. wire[dconn] \in Seq(Envelope) /\ AllIssued(wire[dconn])
  BY DEF TypeOK, DaemonType, DeliveryInv, WireSigned, AllIssued
<1> QED BY <1>1, TailIssued

(* cache.json never overtakes the running daemon; under the same number it  *)
(* differs only by a purge that could not be saved.                         *)
THEOREM FileBehind == Spec => []DiskBehindMemory
<1>1. Init => DiskBehindMemory BY SMT DEF Init, DiskBehindMemory, Unsent
<1>2. TypeOK /\ DeliveryInv /\ DiskBehindMemory /\ [Next]_vars => DiskBehindMemory'
  <2> SUFFICES ASSUME TypeOK, DeliveryInv, DiskBehindMemory, [Next]_vars
               PROVE  DiskBehindMemory'
    OBVIOUS
  <2> USE DEF DiskBehindMemory
  <2>0. mem.seq \in Nat /\ disk.seq \in Nat BY DEF TypeOK, DaemonType, Envelope
  <2>1. CASE UNCHANGED <<signed, running, mem, disk>> BY <2>1
  <2>2. CASE \E h \in Handlers : Stamp(h) BY SMT, <2>2 DEF Stamp, daemonVars
  <2>3. CASE \E c \in Conns : StampFirst(c) BY SMT, <2>3 DEF StampFirst, daemonVars
  <2>4. CASE Receive
    <3>1. Head(wire[dconn]).seq \in Nat BY <2>4, ReceivedEnvelope DEF Receive, Envelope
    <3>2. CASE mem' = Head(wire[dconn]) /\ disk' = Head(wire[dconn])
      BY SMT, <3>1, <3>2
    <3>3. CASE UNCHANGED <<running, mem, disk>>
      BY <3>3
    <3> QED BY <2>4, <3>2, <3>3 DEF Receive, Saved
  <2>5. CASE ReceiveUnsaved
    <3>1. Head(wire[dconn]).seq \in Nat BY <2>5, ReceivedEnvelope DEF ReceiveUnsaved, Envelope
    <3>2. mem'.seq = Head(wire[dconn]).seq /\ UNCHANGED <<running, disk>>
      BY <2>5 DEF ReceiveUnsaved
    <3>3. mem'.seq > mem.seq
      BY <2>5, <3>2 DEF ReceiveUnsaved, Newer
    <3>4. ASSUME running PROVE disk.seq < mem'.seq
      BY SMT, <2>0, <3>1, <3>2, <3>3, <3>4
    <3> QED BY SMT, <2>0, <3>1, <3>2, <3>4
  <2>6. CASE SeeRejected
    <3>1. mem' = disk' /\ mem' \in Envelope
      BY <2>6 DEF SeeRejected, Saved, Purged, TypeOK, DaemonType, Envelope
    <3> QED BY SMT, <3>1 DEF Envelope
  <2>7. CASE SeeRejectedUnsaved
    BY <2>0, <2>7 DEF SeeRejectedUnsaved, Purged, TypeOK, DaemonType, Envelope
  <2>8. CASE DaemonCrash BY <2>8 DEF DaemonCrash
  <2>9. CASE DaemonStart BY SMT, <2>0, <2>9 DEF DaemonStart, Loaded
  <2> QED BY <2>1, <2>2, <2>3, <2>4, <2>5, <2>6, <2>7, <2>8, <2>9, CopyFrame
<1> QED BY <1>1, <1>2, DeliveryInvariant, PTL DEF Spec

(* The number in memory goes back only in a restart.                        *)
THEOREM NumberForward == Spec => SeqForward
<1>1. ASSUME TypeOK, DeliveryInv, [Next]_vars
      PROVE  [mem'.seq < mem.seq => (~running /\ running')]_vars
  <2> SUFFICES ASSUME mem'.seq < mem.seq PROVE ~running /\ running'
    OBVIOUS
  <2>0. mem.seq \in Nat BY <1>1 DEF TypeOK, DaemonType, Envelope
  <2>1. CASE UNCHANGED <<signed, running, mem, disk>> BY SMT, <2>0, <2>1
  <2>2. CASE \E h \in Handlers : Stamp(h) BY SMT, <2>0, <2>2 DEF Stamp, daemonVars
  <2>3. CASE \E c \in Conns : StampFirst(c) BY SMT, <2>0, <2>3 DEF StampFirst, daemonVars
  <2>4. CASE Receive \/ ReceiveUnsaved
    <3>1. Head(wire[dconn]).seq \in Nat
      BY <1>1, <2>4, ReceivedEnvelope DEF Receive, ReceiveUnsaved, Envelope
    <3> QED BY SMT, <2>0, <2>4, <3>1 DEF Receive, ReceiveUnsaved, Newer
  <2>5. CASE SeeRejected \/ SeeRejectedUnsaved
    BY SMT, <1>1, <2>0, <2>5 DEF SeeRejected, SeeRejectedUnsaved, Purged, TypeOK, DaemonType, Envelope
  <2>6. CASE DaemonCrash BY SMT, <2>0, <2>6 DEF DaemonCrash
  <2>7. CASE DaemonStart BY <2>7 DEF DaemonStart
  <2> QED BY <1>1, <2>1, <2>2, <2>3, <2>4, <2>5, <2>6, <2>7, CopyFrame
<1> QED BY <1>1, DeliveryInvariant, PTL DEF Spec, SeqForward

-----------------------------------------------------------------------------
(* The registered connection's handler is between register and unregister.  *)
HubServes == hub # NoConn => phase[hub] \in {"registered", "built", "stamped", "serving"}

(* Every step keeps the registered handler between register and unregister. *)
LEMMA HubStep ==
    ASSUME TypeOK, HubServes, [Next]_vars
    PROVE  /\ HubServes'
           /\ hub # NoConn /\ hub' = NoConn => phase'[hub] \in {"closing", "closed"}
<1> DEFINE Goal == /\ HubServes'
                   /\ hub # NoConn /\ hub' = NoConn => phase'[hub] \in {"closing", "closed"}
<1> USE DEF HubServes
<1>0. hub \in Conns \cup {NoConn} /\ DOMAIN phase = Conns BY DEF TypeOK, LinkType
<1>1. CASE UNCHANGED <<hub, phase>> BY <1>1
<1>2. ASSUME NEW c \in Conns, Authenticate(c) \/ AuthError(c) \/ Dial(c) PROVE Goal
  BY <1>0, <1>2 DEF Authenticate, AuthError, Dial, Reusable, Goto
<1>3. ASSUME NEW c \in Conns, Register(c) PROVE Goal
  BY <1>0, <1>3, ConnAssumption DEF Register, Goto
<1>4. ASSUME NEW c \in Conns,
             BuildFirst(c) \/ StampFirst(c) \/ SkipCancelled(c) \/ SkipFirst(c) \/ QueueFirst(c)
      PROVE  Goal
  BY <1>0, <1>4 DEF BuildFirst, StampFirst, SkipCancelled, SkipFirst, NoFirst, QueueFirst, Goto
<1>5. ASSUME NEW c \in Conns, Leave(c) PROVE Goal
  BY <1>0, <1>5 DEF Leave, Unregistered, Goto
<1>6. ASSUME NEW c \in Conns, FlushAndClose(c) PROVE Goal
  BY <1>0, <1>6 DEF FlushAndClose, Goto
<1>7. CASE ServerCrash BY <1>0, <1>7 DEF ServerCrash
<1> HIDE DEF Goal
<1>8. ASSUME NEW h \in Handlers, Request(h) \/ HandlerStep(h) \/ Abandon(h)
      PROVE  UNCHANGED <<hub, phase>>
  BY <1>8 DEF Request, HandlerStep, Commit, Refresh, Revoke, Build, Stamp, Fetch, Send,
     Abandon, linkVars
<1>9. ASSUME NEW c \in Conns, WriteDaemon(c) \/ ServerDrop(c)
      PROVE  UNCHANGED <<hub, phase>>
  BY <1>9 DEF WriteDaemon, ServerDrop
<1>10. ASSUME \/ Receive \/ ReceiveUnsaved \/ SeeRejected \/ SeeRejectedUnsaved \/ SeeClosed
              \/ ReadTimeout \/ LinkDrop \/ DaemonCrash \/ DaemonStart
       PROVE  UNCHANGED <<hub, phase>>
  BY <1>10 DEF Receive, ReceiveUnsaved, SeeRejected, SeeRejectedUnsaved, SeeClosed,
     ReadTimeout, LinkDrop, DaemonCrash, DaemonStart, linkVars
<1>11. CASE UNCHANGED vars BY <1>1, <1>11 DEF vars, linkVars, Goal
<1>12. UNCHANGED <<hub, phase>> => Goal BY <1>1 DEF Goal
<1>13. CASE Next
  BY <1>2, <1>3, <1>4, <1>5, <1>6, <1>7, <1>8, <1>9, <1>10, <1>12, <1>13
     DEF Next, ConnStep, DaemonStep, FaultStep, Goal
<1> QED BY <1>11, <1>13 DEF Goal

(* A hub entry disappears only when its own handler leaves or the process   *)
(* dies: a dying connection's cleanup cannot evict a newer reconnect.       *)
THEOREM EntryKept == Spec => EntryOutlivesOthers
<1>1. Init => HubServes BY DEF Init, HubServes
<1>2. TypeOK /\ HubServes /\ [Next]_vars => HubServes' BY HubStep
<1>3. TypeOK /\ HubServes /\ [Next]_vars
        => [hub # NoConn /\ hub' = NoConn => phase'[hub] \in {"closing", "closed"}]_vars
  BY HubStep
<1> QED BY <1>1, <1>2, <1>3, TypeCorrect, PTL DEF Spec, EntryOutlivesOthers

-----------------------------------------------------------------------------
(* The delivery machinery implements the numbered register: a numbering     *)
(* issues, an applied snapshot adopts, a purge clears, a start reloads, and *)
(* every other step leaves the register alone.                              *)
THEOREM Refinement == Spec => ImplementsRegister
<1>1. Init => Reg!RegInit
  BY DEF Init, Unsent, Reg!RegInit, Reg!Empty
<1>2. ASSUME TypeOK, DeliveryInv, [Next]_vars PROVE [Reg!RegNext]_(Reg!regVars)
  <2> USE <1>2 DEF Reg!RegNext, Reg!regVars, Reg!Save
  <2>0. mem \in Envelope /\ Len(signed) \in Nat BY SMT DEF TypeOK, DaemonType, DbType
  <2>1. CASE UNCHANGED <<signed, running, mem, disk>> BY <2>1
  <2>2. ASSUME NEW h \in Handlers, Stamp(h) PROVE Reg!Issue
    <3>1. env[h].keys \in SUBSET Keys BY DEF TypeOK, RequestType, Envelope
    <3> QED BY <2>2, <3>1 DEF Stamp, Sign, daemonVars, Reg!Issue
  <2>3. ASSUME NEW c \in Conns, StampFirst(c) PROVE Reg!Issue
    <3>1. first[c].keys \in SUBSET Keys BY DEF TypeOK, LinkType, Envelope
    <3> QED BY <2>3, <3>1 DEF StampFirst, Sign, daemonVars, Reg!Issue
  <2>4. CASE Receive \/ ReceiveUnsaved
    <3> DEFINE e == Head(wire[dconn])
    <3>1. e \in Envelope /\ Issued(e) BY <2>4, ReceivedEnvelope DEF Receive, ReceiveUnsaved
    <3>2. e = [seq |-> e.seq, keys |-> signed[e.seq]] /\ e.seq \in 1..Len(signed)
      BY <3>1 DEF Envelope, Issued
    <3>3. CASE Newer(e)
      <4>1. mem' = e /\ (disk' = e \/ disk' = disk) /\ signed' = signed
        BY <2>4, <3>3 DEF Receive, ReceiveUnsaved, Saved, dbVars
      <4> HIDE DEF e
      <4> QED BY <3>2, <3>3, <4>1 DEF Newer, Reg!Adopt
    <3>4. CASE ~Newer(e)
      BY <2>4, <3>4 DEF Receive, ReceiveUnsaved, dbVars
    <3> QED BY <3>3, <3>4
  <2>5. CASE SeeRejected \/ SeeRejectedUnsaved
    BY <2>5 DEF SeeRejected, SeeRejectedUnsaved, Purged, Saved, dbVars, Reg!Clear
  <2>6. CASE DaemonCrash BY <2>6 DEF DaemonCrash, dbVars
  <2>7. CASE DaemonStart BY <2>7 DEF DaemonStart, Loaded, dbVars, Reg!Reload
  <2> QED BY <2>1, <2>2, <2>3, <2>4, <2>5, <2>6, <2>7, CopyFrame
<1> QED BY <1>1, <1>2, DeliveryInvariant, PTL DEF Spec, ImplementsRegister, Reg!RegSpec

-----------------------------------------------------------------------------
(* Small facts about the link, each kept by every step.                     *)

(* A connected daemon runs and has not left its connection.                 *)
Attached == dconn # NoConn => running /\ dconn \notin gone

(* A handler is done with its initial snapshot once it is queued.           *)
Ungreeted ==
    \A c \in Conns :
        phase[c] \in {"auth", "authed", "registered", "built", "stamped"} => c \notin greeted

(* What a request has numbered is not above the newest list.                *)
NotAbove ==
    \A h \in Handlers : pc[h] \in {"fetch", "send"} => env[h].seq <= latest.seq

(* A connection counts as quiet only while no request is in flight.         *)
QuietIdle == quiet # {} => Idle

(* Nothing is on its way to a connection that is not registered yet.        *)
Untargeted ==
    \A c \in Conns : phase[c] \in {"auth", "authed"} =>
        queue[c] = <<>> /\ wire[c] = <<>> /\ \A h \in Handlers : target[h] # c

Linkage == Attached /\ Ungreeted /\ NotAbove /\ QuietIdle /\ Untargeted

(* Every step keeps a connected daemon up and on its connection. *)
LEMMA StepAttached == ASSUME Attached, [Next]_vars PROVE Attached'
<1> USE DEF Attached
<1>1. CASE UNCHANGED <<running, dconn, gone>> BY <1>1
<1>2. ASSUME NEW c \in Conns, Dial(c) PROVE Attached'
  BY <1>2 DEF Dial, daemonVars
<1>3. CASE dconn' = NoConn BY <1>3
<1>4. ASSUME DaemonStart PROVE Attached' BY <1>4 DEF DaemonStart
<1>5. ASSUME NEW h \in Handlers, Request(h) \/ HandlerStep(h) \/ Abandon(h)
      PROVE  UNCHANGED <<running, dconn, gone>>
  BY <1>5 DEF Request, HandlerStep, Commit, Refresh, Revoke, Build, Stamp, Fetch, Send,
     Abandon, daemonVars
<1>6. ASSUME NEW c \in Conns, ConnStep(c) \/ AuthError(c) \/ SkipFirst(c) \/ ServerDrop(c)
      PROVE  UNCHANGED <<running, dconn, gone>>
  BY <1>6 DEF ConnStep, Authenticate, Register, BuildFirst, StampFirst, SkipCancelled,
     QueueFirst, WriteDaemon, Leave, FlushAndClose, AuthError, SkipFirst, NoFirst,
     ServerDrop, daemonVars
<1>7. ASSUME Receive \/ ServerCrash \/ UNCHANGED vars PROVE UNCHANGED <<running, dconn, gone>>
  BY <1>7 DEF Receive, ServerCrash, vars, daemonVars
<1>8. ASSUME \/ ReceiveUnsaved \/ SeeRejected \/ SeeRejectedUnsaved \/ SeeClosed
             \/ ReadTimeout \/ LinkDrop \/ DaemonCrash
      PROVE  dconn' = NoConn
  BY <1>8 DEF ReceiveUnsaved, SeeRejected, SeeRejectedUnsaved, SeeClosed, ReadTimeout,
     LinkDrop, DaemonCrash, Hangup
<1> QED BY <1>1, <1>2, <1>3, <1>4, <1>5, <1>6, <1>7, <1>8 DEF Next, DaemonStep, FaultStep

(* Every step keeps an unfinished handler's connection ungreeted. *)
LEMMA StepUngreeted == ASSUME TypeOK, Ungreeted, [Next]_vars PROVE Ungreeted'
<1> USE DEF Ungreeted
<1>0. phase \in [Conns -> {"free", "auth", "authed", "registered", "built",
                           "stamped", "serving", "closing", "closed", "rejected"}]
  BY DEF TypeOK, LinkType
<1>1. CASE UNCHANGED <<phase, greeted>> BY <1>1
<1>2. ASSUME NEW c \in Conns,
             \/ Authenticate(c) \/ AuthError(c) \/ Register(c) \/ BuildFirst(c)
             \/ StampFirst(c) \/ SkipCancelled(c) \/ SkipFirst(c) \/ Leave(c)
             \/ FlushAndClose(c)
      PROVE  Ungreeted'
  BY <1>0, <1>2 DEF Authenticate, AuthError, Register, BuildFirst, StampFirst, SkipCancelled,
     SkipFirst, NoFirst, Leave, FlushAndClose, Goto, history
<1>3. ASSUME NEW c \in Conns, QueueFirst(c) PROVE Ungreeted'
  BY <1>0, <1>3 DEF QueueFirst, Goto
<1>4. ASSUME NEW c \in Conns, Dial(c) PROVE Ungreeted'
  BY <1>0, <1>4 DEF Dial, Goto
<1>5. CASE ServerCrash BY <1>0, <1>5 DEF ServerCrash, history
<1>6. ASSUME NEW h \in Handlers, Request(h) \/ HandlerStep(h) \/ Abandon(h)
      PROVE  UNCHANGED <<phase, greeted>>
  BY <1>6 DEF Request, HandlerStep, Commit, Refresh, Revoke, Build, Stamp, Fetch, Send,
     Abandon, linkVars, history
<1>7. ASSUME NEW c \in Conns, WriteDaemon(c) \/ ServerDrop(c) PROVE UNCHANGED <<phase, greeted>>
  BY <1>7 DEF WriteDaemon, ServerDrop, history
<1>8. ASSUME \/ Receive \/ ReceiveUnsaved \/ SeeRejected \/ SeeRejectedUnsaved \/ SeeClosed
             \/ ReadTimeout \/ LinkDrop \/ DaemonCrash \/ DaemonStart \/ UNCHANGED vars
      PROVE  UNCHANGED <<phase, greeted>>
  BY <1>8 DEF Receive, ReceiveUnsaved, SeeRejected, SeeRejectedUnsaved, SeeClosed,
     ReadTimeout, LinkDrop, DaemonCrash, DaemonStart, linkVars, history, vars
<1> QED BY <1>1, <1>2, <1>3, <1>4, <1>5, <1>6, <1>7, <1>8
        DEF Next, ConnStep, DaemonStep, FaultStep

(* Every step keeps what requests have numbered below the newest list: a    *)
(* number that raises it is above every number given before.                *)
LEMMA StepNotAbove == ASSUME TypeOK, DeliveryInv, NotAbove, [Next]_vars PROVE NotAbove'
<1> USE DEF NotAbove
<1>0. /\ pc \in [Handlers -> {"idle", "build", "stamp", "fetch", "send"}]
      /\ env \in [Handlers -> Envelope] /\ Len(signed) \in Nat
  BY SMT DEF TypeOK, RequestType, DbType
<1>1. CASE UNCHANGED <<pc, env, latest>> BY <1>1
<1>2. ASSUME NEW h \in Handlers, Request(h) \/ Build(h) \/ Fetch(h) \/ Send(h) \/ Abandon(h)
      PROVE  NotAbove'
  <2>1. latest' = latest /\ \A q \in Handlers : q # h => pc'[q] = pc[q] /\ env'[q] = env[q]
    BY <1>0, <1>2 DEF Request, Commit, Refresh, Revoke, Build, Fetch, Send, Abandon, Return,
       history
  <2>2. pc'[h] \in {"fetch", "send"} => pc[h] = "fetch" /\ env'[h] = env[h]
    BY <1>0, <1>2 DEF Request, Commit, Refresh, Revoke, Build, Fetch, Send, Abandon, Return
  <2> QED BY <2>1, <2>2
<1>3. \A q \in Handlers : pc[q] \in {"fetch", "send"} => env[q].seq <= Len(signed)
  BY SMT, <1>0 DEF DeliveryInv, HeldSigned, Issued
<1>4. ASSUME NEW h \in Handlers, Stamp(h) PROVE NotAbove'
  <2>1. /\ latest' = env'[h] /\ env'[h].seq = Len(signed) + 1
        /\ \A q \in Handlers : q # h => pc'[q] = pc[q] /\ env'[q] = env[q]
    BY <1>0, <1>4 DEF Stamp, NextSeq, Envelope
  <2>2. ASSUME NEW q \in Handlers, pc'[q] \in {"fetch", "send"}
        PROVE  env'[q].seq <= latest'.seq
    <3>1. CASE q = h BY SMT, <1>0, <2>1, <3>1
    <3>2. CASE q # h
      <4>1. env'[q].seq <= Len(signed) /\ env'[q].seq \in Nat
        BY <1>0, <1>3, <2>1, <2>2, <3>2 DEF Envelope
      <4> QED BY SMT, <1>0, <2>1, <4>1
    <3> QED BY <3>1, <3>2
  <2> QED BY <2>2
<1>5. ASSUME NEW c \in Conns, StampFirst(c) PROVE NotAbove'
  <2>1. UNCHANGED <<pc, env>> /\ (latest' = latest \/ latest'.seq = Len(signed) + 1)
    BY <1>0, <1>5 DEF StampFirst, NextSeq, opVars, TypeOK, LinkType, Envelope
  <2>2. ASSUME NEW q \in Handlers, pc'[q] \in {"fetch", "send"}, latest'.seq = Len(signed) + 1
        PROVE  env'[q].seq <= latest'.seq
    <3>1. env[q].seq <= Len(signed) /\ env[q].seq \in Nat
      BY <1>0, <1>3, <2>1, <2>2 DEF Envelope
    <3> QED BY SMT, <1>0, <2>1, <2>2, <3>1
  <2> QED BY <2>1, <2>2
<1>6. CASE ServerCrash BY <1>6 DEF ServerCrash
<1>7. ASSUME NEW c \in Conns,
             \/ Authenticate(c) \/ AuthError(c) \/ Register(c) \/ BuildFirst(c)
             \/ SkipCancelled(c) \/ SkipFirst(c) \/ QueueFirst(c) \/ WriteDaemon(c) \/ Leave(c)
             \/ FlushAndClose(c) \/ ServerDrop(c) \/ Dial(c)
      PROVE  UNCHANGED <<pc, env, latest>>
  BY <1>7 DEF Authenticate, AuthError, Register, BuildFirst, SkipCancelled, SkipFirst, NoFirst,
     QueueFirst, WriteDaemon, Leave, FlushAndClose, ServerDrop, Dial, opVars, history
<1>8. ASSUME \/ Receive \/ ReceiveUnsaved \/ SeeRejected \/ SeeRejectedUnsaved \/ SeeClosed
             \/ ReadTimeout \/ LinkDrop \/ DaemonCrash \/ DaemonStart \/ UNCHANGED vars
      PROVE  UNCHANGED <<pc, env, latest>>
  BY <1>8 DEF Receive, ReceiveUnsaved, SeeRejected, SeeRejectedUnsaved, SeeClosed,
     ReadTimeout, LinkDrop, DaemonCrash, DaemonStart, opVars, history, vars
<1> QED BY <1>1, <1>2, <1>4, <1>5, <1>6, <1>7, <1>8
        DEF Next, HandlerStep, ConnStep, DaemonStep, FaultStep

(* Every step keeps quiet connections without a request in flight. *)
LEMMA StepQuietIdle == ASSUME TypeOK, QuietIdle, [Next]_vars PROVE QuietIdle'
<1> USE DEF QuietIdle, Idle
<1>1. CASE UNCHANGED pc /\ quiet' \subseteq quiet BY <1>1
<1>2. ASSUME NEW h \in Handlers, Request(h) PROVE QuietIdle'
  BY <1>2 DEF Request, Commit, Refresh, Revoke
<1>3. ASSUME NEW h \in Handlers, HandlerStep(h) \/ Abandon(h) PROVE QuietIdle'
  <2>1. pc[h] # "idle" /\ quiet' = quiet
    BY <1>3 DEF HandlerStep, Build, Stamp, Fetch, Send, Abandon, history
  <2> QED BY <2>1
<1>4. ASSUME NEW c \in Conns, Register(c) PROVE QuietIdle'
  BY <1>4 DEF Register, opVars
<1>5. CASE ServerCrash BY <1>5 DEF ServerCrash
<1>6. ASSUME NEW c \in Conns,
             \/ Authenticate(c) \/ AuthError(c) \/ BuildFirst(c) \/ StampFirst(c)
             \/ SkipCancelled(c) \/ SkipFirst(c) \/ QueueFirst(c) \/ WriteDaemon(c) \/ Leave(c)
             \/ FlushAndClose(c) \/ ServerDrop(c) \/ Dial(c)
      PROVE  UNCHANGED pc /\ quiet' \subseteq quiet
  BY <1>6 DEF Authenticate, AuthError, BuildFirst, StampFirst, SkipCancelled, SkipFirst,
     NoFirst, QueueFirst, WriteDaemon, Leave, FlushAndClose, ServerDrop, Dial, opVars, history
<1>7. ASSUME \/ Receive \/ ReceiveUnsaved \/ SeeRejected \/ SeeRejectedUnsaved \/ SeeClosed
             \/ ReadTimeout \/ LinkDrop \/ DaemonCrash \/ DaemonStart \/ UNCHANGED vars
      PROVE  UNCHANGED pc /\ quiet' \subseteq quiet
  BY <1>7 DEF Receive, ReceiveUnsaved, SeeRejected, SeeRejectedUnsaved, SeeClosed,
     ReadTimeout, LinkDrop, DaemonCrash, DaemonStart, opVars, history, vars
<1> QED BY <1>1, <1>2, <1>3, <1>4, <1>5, <1>6, <1>7 DEF Next, ConnStep, DaemonStep, FaultStep

(* Every step keeps connections that are not registered untargeted. *)
LEMMA StepUntargeted ==
    ASSUME TypeOK, HubServes, Untargeted, [Next]_vars PROVE Untargeted'
<1> USE DEF Untargeted
<1>0. /\ DOMAIN phase = Conns /\ DOMAIN queue = Conns /\ DOMAIN wire = Conns
      /\ DOMAIN target = Handlers
  BY DEF TypeOK, LinkType, DaemonType, RequestType
<1> DEFINE Same(c) == /\ phase'[c] = phase[c] /\ queue'[c] = queue[c]
                      /\ wire'[c] = wire[c] \/ wire'[c] = <<>>
                      /\ \A h \in Handlers : target'[h] # c \/ target'[h] = target[h]
<1>1. ASSUME \A c \in Conns : Same(c) \/ phase'[c] \notin {"auth", "authed"}
      PROVE  Untargeted'
  BY <1>1
<1>2. ASSUME NEW h \in Handlers, Request(h) \/ Build(h) \/ Stamp(h) \/ Abandon(h)
      PROVE  \A c \in Conns : Same(c)
  BY <1>0, <1>2, ConnAssumption DEF Request, Commit, Refresh, Revoke, Build, Stamp, Abandon,
     Return, linkVars
<1>3. ASSUME NEW h \in Handlers, Fetch(h)
      PROVE  \A c \in Conns : Same(c) \/ phase'[c] \notin {"auth", "authed"}
  BY <1>0, <1>3, ConnAssumption DEF Fetch, Return, HubServes, linkVars
<1>4. ASSUME NEW h \in Handlers, Send(h)
      PROVE  \A c \in Conns : Same(c) \/ phase'[c] \notin {"auth", "authed"}
  <2>1. \A c \in Conns : c # target[h] => queue'[c] = queue[c]
    BY <1>0, <1>4 DEF Send
  <2>2. UNCHANGED <<phase, wire>> /\ target' = [target EXCEPT ![h] = NoConn]
    BY <1>4 DEF Send, Return
  <2> QED BY <1>0, <2>1, <2>2, ConnAssumption
<1>5. ASSUME NEW c \in Conns,
             \/ Authenticate(c) \/ AuthError(c) \/ Register(c) \/ BuildFirst(c) \/ StampFirst(c)
             \/ SkipCancelled(c) \/ SkipFirst(c) \/ Leave(c)
      PROVE  Untargeted'
  <2>1. UNCHANGED <<queue, wire, target>>
    BY <1>5 DEF Authenticate, AuthError, Register, BuildFirst, StampFirst, SkipCancelled,
       SkipFirst, NoFirst, Leave, opVars
  <2>2. \A d \in Conns : phase'[d] \in {"auth", "authed"} => phase[d] \in {"auth", "authed"}
    BY <1>0, <1>5 DEF Authenticate, AuthError, Register, BuildFirst, StampFirst,
       SkipCancelled, SkipFirst, NoFirst, Leave, Goto
  <2> QED BY <2>1, <2>2
<1>6. ASSUME NEW c \in Conns, QueueFirst(c) \/ WriteDaemon(c) \/ FlushAndClose(c) \/ ServerDrop(c)
      PROVE  \A d \in Conns : Same(d) \/ phase'[d] \notin {"auth", "authed"}
  <2>1. UNCHANGED target /\ phase[c] \notin {"auth", "authed"}
    BY <1>6 DEF QueueFirst, WriteDaemon, FlushAndClose, ServerDrop, opVars
  <2>2. \A d \in Conns : d # c => phase'[d] = phase[d] /\ queue'[d] = queue[d] /\ wire'[d] = wire[d]
    BY <1>0, <1>6 DEF QueueFirst, WriteDaemon, FlushAndClose, ServerDrop, Write, Goto
  <2>3. phase'[c] \notin {"auth", "authed"}
    BY <1>0, <1>6 DEF QueueFirst, WriteDaemon, FlushAndClose, ServerDrop, Goto
  <2> QED BY <2>1, <2>2, <2>3
<1>7. ASSUME NEW c \in Conns, Dial(c) PROVE Untargeted'
  BY <1>0, <1>7 DEF Dial, Reusable, Goto, opVars
<1>8. CASE ServerCrash BY <1>0, <1>8 DEF ServerCrash
<1>9. ASSUME Receive PROVE \A c \in Conns : Same(c) \/ phase'[c] \notin {"auth", "authed"}
  BY <1>0, <1>9 DEF Receive, linkVars, opVars
<1>10. ASSUME \/ ReceiveUnsaved \/ SeeRejected \/ SeeRejectedUnsaved \/ SeeClosed
             \/ ReadTimeout \/ LinkDrop \/ DaemonCrash \/ DaemonStart \/ UNCHANGED vars
      PROVE  \A c \in Conns : Same(c)
  BY <1>0, <1>10 DEF ReceiveUnsaved, SeeRejected, SeeRejectedUnsaved, SeeClosed, Hangup,
     ReadTimeout, LinkDrop, DaemonCrash, DaemonStart, linkVars, opVars, vars
<1> QED BY <1>1, <1>2, <1>3, <1>4, <1>5, <1>6, <1>7, <1>8, <1>9, <1>10
        DEF Next, HandlerStep, ConnStep, DaemonStep, FaultStep

-----------------------------------------------------------------------------
(* What a channel or a socket holds, in whatever order.                     *)
Contents(s) == {s[i] : i \in 1..Len(s)}

(* Nothing is in an empty sequence. *)
LEMMA ContentsEmpty == Contents(<<>>) = {}
BY SMT DEF Contents

(* A channel holds envelopes, all of them issued if they all are. *)
LEMMA ContentsIssued ==
    ASSUME NEW s \in Seq(Envelope)
    PROVE  /\ Contents(s) \subseteq Envelope
           /\ AllIssued(s) => \A e \in Contents(s) : Issued(e)
<1>1. \A i \in 1..Len(s) : s[i] \in Envelope BY SMT
<1> QED BY <1>1 DEF Contents, AllIssued

(* A push adds its envelope. *)
LEMMA ContentsAppend ==
    ASSUME NEW s \in Seq(Envelope), NEW e \in Envelope
    PROVE  Contents(Append(s, e)) = Contents(s) \cup {e}
<1>1. Len(s) \in Nat BY SMT
<1>2. /\ Len(Append(s, e)) = Len(s) + 1
      /\ \A i \in 1..Len(s) : Append(s, e)[i] = s[i]
      /\ Append(s, e)[Len(s) + 1] = e
  BY SMT
<1>3. 1..(Len(s) + 1) = 1..Len(s) \cup {Len(s) + 1} BY SMT, <1>1
<1> QED BY <1>1, <1>2, <1>3 DEF Contents

(* A write of one message adds it to the socket. *)
LEMMA ContentsWrite ==
    ASSUME NEW s \in Seq(Envelope), NEW e \in Envelope
    PROVE  Contents(s \o <<e>>) = Contents(s) \cup {e}
<1>1. s \o <<e>> = Append(s, e) BY SMT
<1> QED BY <1>1, ContentsAppend

(* Taking the oldest leaves the rest. *)
LEMMA ContentsTail ==
    ASSUME NEW s \in Seq(Envelope), s # <<>>
    PROVE  /\ Head(s) \in Envelope /\ Tail(s) \in Seq(Envelope)
           /\ Contents(s) = Contents(Tail(s)) \cup {Head(s)}
<1>1. Len(s) \in Nat \ {0} BY SMT
<1>2. /\ Head(s) = s[1] /\ Head(s) \in Envelope /\ Tail(s) \in Seq(Envelope)
      /\ Len(Tail(s)) = Len(s) - 1
      /\ \A i \in 1..Len(Tail(s)) : Tail(s)[i] = s[i + 1]
  BY SMT, <1>1
<1>3. \A i \in 1..Len(s) : i = 1 \/ (i - 1 \in 1..Len(Tail(s)) /\ (i - 1) + 1 = i)
  BY SMT, <1>1, <1>2
<1>4. \A i \in 1..Len(Tail(s)) : i + 1 \in 1..Len(s) BY SMT, <1>1, <1>2
<1>5. 1 \in 1..Len(s) BY SMT, <1>1
<1>6. ASSUME NEW e \in Contents(s) PROVE e \in Contents(Tail(s)) \cup {Head(s)}
  <2>1. PICK i \in 1..Len(s) : e = s[i] BY <1>6 DEF Contents
  <2>2. CASE i = 1 BY <1>2, <2>1, <2>2
  <2>3. CASE i # 1
    <3>1. i - 1 \in 1..Len(Tail(s)) /\ Tail(s)[i - 1] = e BY <1>2, <1>3, <2>1, <2>3
    <3> QED BY <3>1 DEF Contents
  <2> QED BY <2>2, <2>3
<1>7. ASSUME NEW e \in Contents(Tail(s)) \cup {Head(s)} PROVE e \in Contents(s)
  <2>1. CASE e = Head(s) BY <1>2, <1>5, <2>1 DEF Contents
  <2>2. CASE e \in Contents(Tail(s))
    <3>1. PICK i \in 1..Len(Tail(s)) : e = Tail(s)[i] BY <2>2 DEF Contents
    <3>2. e = s[i + 1] /\ i + 1 \in 1..Len(s) BY <1>2, <1>4, <3>1
    <3> QED BY <3>2 DEF Contents
  <2> QED BY <1>7, <2>1, <2>2
<1> QED BY <1>2, <1>6, <1>7

-----------------------------------------------------------------------------
(* The newest list on its way.  Once the registered connection's initial    *)
(* snapshot is numbered, nothing it carries is above the newest list, and   *)
(* that list is applied, on its way down the connection, held by a request  *)
(* that will send it there, or was dropped.                                 *)
Current(c) ==
    /\ dconn = c /\ hub = c
    /\ phase[c] = "stamped" \/ (phase[c] = "serving" /\ c \in greeted)
Passing(c) ==
    Contents(queue[c]) \cup Contents(wire[c])
        \cup {e \in {first[c]} : phase[c] = "stamped"}
Heading(h, c) == pc[h] = "fetch" \/ (pc[h] = "send" /\ target[h] = c)
NewestAt(c) ==
    Current(c) =>
        /\ Issued(latest)
        /\ \A e \in Passing(c) : e.seq <= latest.seq
        /\ mem.seq < latest.seq \/ mem = latest
        /\ \/ c \in dropped \/ mem = latest \/ latest \in Passing(c)
           \/ \E h \in Handlers : Heading(h, c) /\ env[h] = latest

(* What a connection carries is numbered by the control plane. *)
LEMMA PassingNumbered ==
    ASSUME TypeOK, DeliveryInv, NEW c \in Conns
    PROVE  \A e \in Passing(c) : e \in Envelope /\ Issued(e) /\ e.seq \in Nat /\ e.seq <= Len(signed)
<1>1. /\ queue[c] \in Seq(Envelope) /\ wire[c] \in Seq(Envelope) /\ first[c] \in Envelope
      /\ Len(signed) \in Nat
  BY SMT DEF TypeOK, LinkType, DaemonType, DbType
<1>2. /\ AllIssued(queue[c]) /\ AllIssued(wire[c])
      /\ phase[c] = "stamped" => Issued(first[c])
  BY DEF DeliveryInv, QueueSigned, WireSigned, HeldSigned, AllIssued
<1>3. \A e \in Passing(c) : e \in Envelope /\ Issued(e)
  BY <1>1, <1>2, ContentsIssued DEF Passing
<1> QED BY SMT, <1>1, <1>3 DEF Issued, Envelope

(* A step that leaves the connection and what heads for it alone keeps the  *)
(* newest list on its way.                                                  *)
LEMMA NewestKept ==
    ASSUME NEW c \in Conns, NewestAt(c),
           UNCHANGED <<hub, dconn, mem, latest>>, Issued(latest) => Issued(latest)',
           phase'[c] = phase[c], first'[c] = first[c], queue'[c] = queue[c],
           wire'[c] = wire[c], c \in dropped => c \in dropped', c \in greeted' => c \in greeted,
           \A h \in Handlers : Heading(h, c) => Heading(h, c)' /\ env'[h] = env[h]
    PROVE  NewestAt(c)'
<1>1. Passing(c)' = Passing(c) BY DEF Passing
<1>2. Current(c)' => Current(c) BY DEF Current
<1>3. (\E h \in Handlers : Heading(h, c) /\ env[h] = latest)
        => (\E h \in Handlers : Heading(h, c) /\ env[h] = latest)'
  OBVIOUS
<1> QED BY <1>1, <1>2, <1>3 DEF NewestAt

(* A list numbered anew, by a request or by the registered handler, becomes *)
(* the newest and is above everything numbered before it.                   *)
LEMMA NewestNumbered ==
    ASSUME TypeOK, DeliveryInv, DeliveryInv', NEW c \in Conns,
           latest'.seq = Len(signed) + 1, Issued(latest)', UNCHANGED mem,
           \A e \in Passing(c)' : e \in Passing(c) \/ e = latest',
           \/ latest' \in Passing(c)'
           \/ \E h \in Handlers : Heading(h, c)' /\ env'[h] = latest'
    PROVE  NewestAt(c)'
<1>1. Len(signed) \in Nat /\ mem.seq \in Nat /\ mem.seq <= Len(signed)
  BY SMT DEF TypeOK, DbType, DaemonType, Envelope, DeliveryInv, AppliedAsSigned, SignedAs
<1>2. mem'.seq < latest'.seq BY SMT, <1>1
<1>3. \A e \in Passing(c)' : e.seq <= latest'.seq
  BY SMT, <1>1, PassingNumbered
<1> QED BY <1>2, <1>3 DEF NewestAt

(* A request numbers its list and holds it. *)
LEMMA StampNewest ==
    ASSUME TypeOK, DeliveryInv, DeliveryInv', NEW c \in Conns, NewestAt(c),
           NEW h \in Handlers, Stamp(h)
    PROVE  NewestAt(c)'
<1>1. /\ pc'[h] = "fetch" /\ latest' = env'[h] /\ latest'.seq = Len(signed) + 1
      /\ UNCHANGED <<mem, phase, first, queue, wire>>
  BY DEF Stamp, TypeOK, RequestType, Envelope, NextSeq, linkVars, daemonVars
<1>2. Issued(latest)' BY <1>1 DEF DeliveryInv, HeldSigned, Issued
<1>3. Passing(c)' = Passing(c) BY <1>1 DEF Passing
<1>4. Heading(h, c)' BY <1>1 DEF Heading
<1> QED BY <1>1, <1>2, <1>3, <1>4, NewestNumbered

(* So does the handler of the registered connection; another handler's list *)
(* leaves the newest one as it is.                                          *)
LEMMA StampFirstNewest ==
    ASSUME TypeOK, DeliveryInv, DeliveryInv', NEW c \in Conns, NewestAt(c),
           NEW d \in Conns, StampFirst(d)
    PROVE  NewestAt(c)'
<1>1. /\ phase[d] = "built" /\ phase' = [phase EXCEPT ![d] = "stamped"]
      /\ first' = [first EXCEPT ![d].seq = NextSeq]
      /\ latest' = IF hub = d THEN first'[d] ELSE latest
      /\ UNCHANGED <<hub, dconn, mem, queue, wire, dropped, greeted, pc, env, target>>
      /\ Sign(first[d].keys)
  BY DEF StampFirst, Goto, opVars, daemonVars
<1>2. DOMAIN phase = Conns /\ DOMAIN first = Conns /\ first[d] \in Envelope
  BY DEF TypeOK, LinkType
<1>3. CASE hub # c \/ dconn # c BY <1>1, <1>3 DEF NewestAt, Current
<1>4. CASE hub = c /\ d # c
  <2>1. Issued(latest) => Issued(latest)'
    BY <1>1, <1>2, <1>4, SignKeeps DEF Issued
  <2>2. phase'[c] = phase[c] /\ first'[c] = first[c]
    BY <1>1, <1>2, <1>4
  <2>3. \A h \in Handlers : Heading(h, c) => Heading(h, c)'
    BY <1>1 DEF Heading
  <2> QED BY <1>1, <1>4, <2>1, <2>2, <2>3, NewestKept
<1>5. CASE hub = c /\ d = c
  <2>1. /\ latest' = first'[c] /\ phase'[c] = "stamped" /\ phase[c] # "stamped"
        /\ latest'.seq = Len(signed) + 1
    BY <1>1, <1>2, <1>5 DEF NextSeq, Envelope
  <2>2. Issued(latest)' BY <2>1 DEF DeliveryInv, HeldSigned, Issued
  <2>3. Passing(c)' = Passing(c) \cup {latest'} BY <1>1, <2>1 DEF Passing
  <2> QED BY <1>1, <2>1, <2>2, <2>3, NewestNumbered
<1> QED BY <1>3, <1>4, <1>5

(* A request that finds the connection in the hub will send to it. *)
LEMMA FetchNewest ==
    ASSUME TypeOK, NEW c \in Conns, NewestAt(c), NEW h \in Handlers, Fetch(h)
    PROVE  NewestAt(c)'
<1>1. /\ pc[h] = "fetch"
      /\ UNCHANGED <<hub, dconn, mem, latest, signed, phase, first, queue, wire, dropped, greeted>>
  BY DEF Fetch, dbVars, linkVars, daemonVars, history
<1>2. CASE hub # c BY <1>1, <1>2 DEF NewestAt, Current
<1>3. CASE hub = c
  <2>1. /\ target' = [target EXCEPT ![h] = c] /\ pc' = [pc EXCEPT ![h] = "send"]
        /\ UNCHANGED env
    BY <1>3, ConnAssumption DEF Fetch
  <2>2. DOMAIN target = Handlers /\ DOMAIN pc = Handlers BY DEF TypeOK, RequestType
  <2>3. \A q \in Handlers : Heading(q, c) => Heading(q, c)'
    BY <2>1, <2>2 DEF Heading
  <2>4. Issued(latest) => Issued(latest)' BY <1>1 DEF Issued
  <2> QED BY <1>1, <2>1, <2>3, <2>4, NewestKept
<1> QED BY <1>2, <1>3

(* Its send is queued or, when the channel is full, dropped. *)
LEMMA SendNewest ==
    ASSUME TypeOK, NotAbove, NEW c \in Conns, NewestAt(c), NEW h \in Handlers, Send(h)
    PROVE  NewestAt(c)'
<1>1. /\ pc[h] = "send" /\ target[h] \in Conns /\ env[h] \in Envelope /\ env[h].seq <= latest.seq
      /\ pc' = [pc EXCEPT ![h] = "idle"] /\ env' = [env EXCEPT ![h] = Unsent]
      /\ target' = [target EXCEPT ![h] = NoConn]
      /\ UNCHANGED <<hub, dconn, mem, latest, signed, phase, first, wire, greeted>>
  BY DEF Send, Return, TypeOK, RequestType, NotAbove, dbVars, daemonVars
<1>2. /\ DOMAIN target = Handlers /\ DOMAIN pc = Handlers /\ DOMAIN env = Handlers
      /\ queue \in [Conns -> Seq(Envelope)]
  BY DEF TypeOK, RequestType, LinkType
<1>3. Issued(latest) => Issued(latest)' BY <1>1 DEF Issued
<1>4. \A q \in Handlers : q # h => pc'[q] = pc[q] /\ env'[q] = env[q] /\ target'[q] = target[q]
  BY <1>1, <1>2
<1>5. CASE target[h] # c
  <2>1. queue'[c] = queue[c] /\ (c \in dropped => c \in dropped')
    BY <1>2, <1>5 DEF Send
  <2>2. \A q \in Handlers : Heading(q, c) => Heading(q, c)' /\ env'[q] = env[q]
    BY <1>1, <1>4, <1>5 DEF Heading
  <2> QED BY <1>1, <1>3, <2>1, <2>2, NewestKept
<1>6. CASE target[h] = c /\ Full(c)
  <2>1. UNCHANGED queue /\ c \in dropped' BY <1>6 DEF Send
  <2>2. Passing(c)' = Passing(c) BY <1>1, <2>1 DEF Passing
  <2>3. Current(c)' => Current(c) BY <1>1 DEF Current
  <2> QED BY <1>1, <1>3, <2>1, <2>2, <2>3 DEF NewestAt
<1>7. CASE target[h] = c /\ ~Full(c)
  <2>1. queue'[c] = Append(queue[c], env[h]) /\ UNCHANGED dropped
    BY <1>2, <1>7 DEF Send
  <2>2. Contents(queue'[c]) = Contents(queue[c]) \cup {env[h]}
    BY <1>1, <1>2, <2>1, ContentsAppend
  <2>3. Passing(c)' = Passing(c) \cup {env[h]} BY <1>1, <2>2 DEF Passing
  <2>4. Current(c)' => Current(c) BY <1>1 DEF Current
  <2>5. ASSUME NEW q \in Handlers, Heading(q, c), env[q] = latest
        PROVE  \/ latest' \in Passing(c)'
               \/ \E r \in Handlers : Heading(r, c)' /\ env'[r] = latest'
    <3>1. CASE q = h BY <1>1, <2>3, <2>5, <3>1
    <3>2. CASE q # h
      <4>1. Heading(q, c)' /\ env'[q] = latest' BY <1>1, <1>4, <2>5, <3>2 DEF Heading
      <4> QED BY <4>1
    <3> QED BY <3>1, <3>2
  <2> QED BY <1>1, <1>3, <2>1, <2>3, <2>4, <2>5 DEF NewestAt
<1> QED BY <1>5, <1>6, <1>7

(* The initial snapshot joins what was pushed before it. *)
LEMMA QueueFirstNewest ==
    ASSUME TypeOK, Ungreeted, NEW c \in Conns, NewestAt(c), NEW d \in Conns, QueueFirst(d)
    PROVE  NewestAt(c)'
<1>1. /\ phase[d] = "stamped" /\ phase' = [phase EXCEPT ![d] = "serving"]
      /\ queue' = [queue EXCEPT ![d] = Append(@, first[d])]
      /\ first' = [first EXCEPT ![d] = Unsent] /\ greeted' = greeted \cup {d}
      /\ UNCHANGED <<hub, dconn, mem, latest, signed, wire, dropped, pc, env, target>>
  BY DEF QueueFirst, Goto, opVars, daemonVars, dbVars
<1>2. /\ DOMAIN phase = Conns /\ first \in [Conns -> Envelope]
      /\ queue \in [Conns -> Seq(Envelope)]
  BY DEF TypeOK, LinkType
<1>3. Issued(latest) => Issued(latest)' BY <1>1 DEF Issued
<1>4. \A h \in Handlers : Heading(h, c)' = Heading(h, c) BY <1>1 DEF Heading
<1>5. CASE d # c
  BY <1>1, <1>2, <1>3, <1>4, <1>5, NewestKept
<1>6. CASE d = c
  <2>1. Contents(queue'[c]) = Contents(queue[c]) \cup {first[c]}
    BY <1>1, <1>2, <1>6, ContentsAppend
  <2>2. Passing(c)' = Passing(c) BY <1>1, <1>2, <1>6, <2>1 DEF Passing
  <2>3. Current(c)' => Current(c) BY <1>1, <1>6 DEF Current
  <2> QED BY <1>1, <1>3, <1>4, <2>2, <2>3 DEF NewestAt
<1> QED BY <1>5, <1>6

(* The writer moves a message to the socket of a daemon that is there. *)
LEMMA WriteNewest ==
    ASSUME TypeOK, Attached, NEW c \in Conns, NewestAt(c), NEW d \in Conns, WriteDaemon(d)
    PROVE  NewestAt(c)'
<1>1. /\ queue[d] # <<>> /\ queue' = [queue EXCEPT ![d] = Tail(@)]
      /\ Write(d, <<Head(queue[d])>>)
      /\ UNCHANGED <<hub, dconn, mem, latest, signed, phase, first, dropped, greeted,
                     pc, env, target>>
  BY DEF WriteDaemon, opVars, daemonVars, dbVars, history
<1>2. wire \in [Conns -> Seq(Envelope)] /\ queue \in [Conns -> Seq(Envelope)]
  BY DEF TypeOK, LinkType, DaemonType
<1>3. Issued(latest) => Issued(latest)' BY <1>1 DEF Issued
<1>4. \A h \in Handlers : Heading(h, c)' = Heading(h, c) BY <1>1 DEF Heading
<1>5. CASE dconn # c BY <1>1, <1>5 DEF NewestAt, Current
<1>6. CASE d # c
  <2>1. queue'[c] = queue[c] /\ wire'[c] = wire[c] BY <1>1, <1>2, <1>6 DEF Write
  <2> QED BY <1>1, <1>3, <1>4, <2>1, NewestKept
<1>7. CASE d = c /\ dconn = c
  <2>1. c \notin gone BY <1>7, ConnAssumption DEF Attached
  <2>2. queue'[c] = Tail(queue[c]) /\ wire'[c] = wire[c] \o <<Head(queue[c])>>
    BY <1>1, <1>2, <1>7, <2>1 DEF Write
  <2>3. /\ Head(queue[c]) \in Envelope
        /\ Contents(queue[c]) = Contents(queue'[c]) \cup {Head(queue[c])}
    BY <1>1, <1>2, <1>7, <2>2, ContentsTail
  <2>4. Contents(wire'[c]) = Contents(wire[c]) \cup {Head(queue[c])}
    BY <1>2, <2>2, <2>3, ContentsWrite
  <2>5. Passing(c)' = Passing(c) BY <1>1, <2>3, <2>4 DEF Passing
  <2>6. Current(c)' => Current(c) BY <1>1 DEF Current
  <2> QED BY <1>1, <1>3, <1>4, <2>5, <2>6 DEF NewestAt
<1> QED BY <1>5, <1>6, <1>7

(* The daemon applies the newest list when it reads it, unless it has it. *)
LEMMA ReceiveNewest ==
    ASSUME TypeOK, DeliveryInv, NEW c \in Conns, NewestAt(c), Receive
    PROVE  NewestAt(c)'
<1>1. /\ dconn # NoConn /\ wire[dconn] # <<>> /\ wire' = [wire EXCEPT ![dconn] = Tail(@)]
      /\ mem' = IF Newer(Head(wire[dconn])) THEN Head(wire[dconn]) ELSE mem
      /\ UNCHANGED <<hub, dconn, latest, signed, phase, first, queue, dropped, greeted,
                     pc, env, target>>
  BY DEF Receive, opVars, dbVars, linkVars, history
<1>2. CASE ~Current(c) BY <1>1, <1>2 DEF NewestAt, Current
<1>3. CASE Current(c)
  <2> DEFINE e == Head(wire[c])
  <2>0. dconn = c BY <1>3 DEF Current
  <2>1. wire \in [Conns -> Seq(Envelope)] BY DEF TypeOK, DaemonType
  <2>2. /\ e \in Envelope /\ Contents(wire[c]) = Contents(wire'[c]) \cup {e}
    BY <1>1, <2>0, <2>1, ContentsTail
  <2>3. Passing(c) = Passing(c)' \cup {e} BY <1>1, <2>2 DEF Passing
  <2>4. /\ Issued(e) /\ Issued(latest) /\ e.seq <= latest.seq /\ e.seq \in Nat
        /\ latest \in Envelope /\ latest.seq \in Nat /\ mem.seq \in Nat
        /\ mem.seq < latest.seq \/ mem = latest
    BY <1>3, <2>2, <2>3, PassingNumbered
       DEF NewestAt, TypeOK, BookType, DaemonType, Envelope
  <2>5. e.seq = latest.seq => e = latest
    BY SMT, <2>2, <2>4 DEF Issued, Envelope
  <2>6. mem' = IF e.seq > mem.seq THEN e ELSE mem BY <1>1, <2>0 DEF Newer
  <2> HIDE DEF e
  <2>7. mem'.seq < latest.seq \/ mem' = latest BY SMT, <2>4, <2>5, <2>6
  <2>8. mem = latest \/ e = latest => mem' = latest BY SMT, <2>4, <2>6
  <2>9. Issued(latest)' BY <1>1, <2>4 DEF Issued
  <2>10. \A h \in Handlers : Heading(h, c)' = Heading(h, c) BY <1>1 DEF Heading
  <2> QED BY <1>1, <1>3, <2>3, <2>7, <2>8, <2>9, <2>10 DEF NewestAt
<1> QED BY <1>2, <1>3

(* Every step keeps the newest list on its way. *)
LEMMA StepNewest ==
    ASSUME TypeOK, DeliveryInv, DeliveryInv', Linkage, NEW c \in Conns, NewestAt(c),
           [Next]_vars
    PROVE  NewestAt(c)'
<1> USE DEF Linkage
<1>0. /\ DOMAIN phase = Conns /\ DOMAIN first = Conns /\ DOMAIN queue = Conns
      /\ DOMAIN wire = Conns /\ DOMAIN pc = Handlers /\ DOMAIN env = Handlers
  BY DEF TypeOK, LinkType, DaemonType, RequestType
<1>1. ASSUME ~Current(c)' PROVE NewestAt(c)' BY <1>1 DEF NewestAt
<1>2. ASSUME NEW h \in Handlers, Request(h) \/ Build(h) \/ Abandon(h) PROVE NewestAt(c)'
  <2>1. /\ UNCHANGED <<hub, dconn, mem, latest, signed, phase, first, queue, wire, dropped, greeted>>
        /\ pc[h] \notin {"fetch", "send"}
    BY <1>2 DEF Request, Commit, Refresh, Revoke, Build, Abandon, linkVars, daemonVars, dbVars,
       history
  <2>2. \A q \in Handlers : q # h => pc'[q] = pc[q] /\ env'[q] = env[q] /\ target'[q] = target[q]
    BY <1>0, <1>2 DEF Request, Commit, Refresh, Revoke, Build, Abandon, Return, TypeOK, RequestType
  <2>3. \A q \in Handlers : Heading(q, c) => Heading(q, c)' /\ env'[q] = env[q]
    BY <2>1, <2>2 DEF Heading
  <2>4. Issued(latest) => Issued(latest)' BY <2>1 DEF Issued
  <2> QED BY <2>1, <2>3, <2>4, NewestKept
<1>3. ASSUME UNCHANGED <<pc, env, target, mem, latest, signed, hub, dconn, dropped>>,
             phase'[c] = phase[c], first'[c] = first[c], queue'[c] = queue[c],
             wire'[c] = wire[c], c \in greeted' => c \in greeted
      PROVE  NewestAt(c)'
  <2>1. \A q \in Handlers : Heading(q, c) => Heading(q, c)' /\ env'[q] = env[q]
    BY <1>3 DEF Heading
  <2>2. Issued(latest) => Issued(latest)' BY <1>3 DEF Issued
  <2> QED BY <1>3, <2>1, <2>2, NewestKept
<1>4. ASSUME NEW d \in Conns, Authenticate(d) \/ AuthError(d) \/ BuildFirst(d)
                              \/ SkipCancelled(d) \/ SkipFirst(d) \/ FlushAndClose(d)
      PROVE  NewestAt(c)'
  <2>1. /\ UNCHANGED <<pc, env, target, mem, latest, signed, hub, dconn, dropped, greeted>>
        /\ d # c => /\ phase'[c] = phase[c] /\ first'[c] = first[c]
                    /\ queue'[c] = queue[c] /\ wire'[c] = wire[c]
    BY <1>0, <1>4 DEF Authenticate, AuthError, BuildFirst, SkipCancelled, SkipFirst, NoFirst,
       FlushAndClose, Write, Goto, opVars, dbVars, daemonVars, history
  <2>2. d = c => /\ phase'[c] # "stamped"
                 /\ phase'[c] = "serving" => phase[c] \in {"registered", "built"}
    BY <1>0, <1>4 DEF Authenticate, AuthError, BuildFirst, SkipCancelled, SkipFirst, NoFirst,
       FlushAndClose, Goto
  <2>3. d = c => ~Current(c)' BY <2>1, <2>2 DEF Current, Ungreeted
  <2> QED BY <1>1, <1>3, <2>1, <2>3
<1>5. ASSUME NEW d \in Conns, Register(d) PROVE NewestAt(c)'
  BY <1>0, <1>1, <1>5 DEF Register, Goto, Current
<1>6. ASSUME NEW d \in Conns, Leave(d) PROVE NewestAt(c)'
  <2>1. CASE d = c BY <1>0, <1>1, <1>6, <2>1 DEF Leave, Goto, Current
  <2>2. CASE d # c /\ hub = c
    BY <1>0, <1>3, <1>6, <2>2
       DEF Leave, Unregistered, Goto, opVars, dbVars, daemonVars, history
  <2>3. CASE d # c /\ hub # c
    BY <1>1, <1>6, <2>3, ConnAssumption DEF Leave, Unregistered, Current
  <2> QED BY <2>1, <2>2, <2>3
<1>7. ASSUME NEW d \in Conns, ServerDrop(d) PROVE NewestAt(c)'
  BY <1>3, <1>7 DEF ServerDrop, opVars, dbVars, daemonVars, history
<1>8. ASSUME NEW d \in Conns, Dial(d) PROVE NewestAt(c)'
  BY <1>0, <1>1, <1>8 DEF Dial, Goto, Current
<1>9. CASE ServerCrash BY <1>1, <1>9, ConnAssumption DEF ServerCrash, Current
<1>10. CASE DaemonStart
  BY <1>1, <1>10, ConnAssumption DEF DaemonStart, Attached, Current
<1>11. ASSUME \/ ReceiveUnsaved \/ SeeRejected \/ SeeRejectedUnsaved \/ SeeClosed
              \/ ReadTimeout \/ LinkDrop \/ DaemonCrash
       PROVE  NewestAt(c)'
  <2>1. dconn' = NoConn
    BY <1>11 DEF ReceiveUnsaved, SeeRejected, SeeRejectedUnsaved, SeeClosed, ReadTimeout,
       LinkDrop, DaemonCrash, Hangup
  <2> QED BY <1>1, <2>1, ConnAssumption DEF Current
<1>12. CASE UNCHANGED vars
  BY <1>3, <1>12 DEF vars, opVars, dbVars, linkVars, daemonVars, history
<1> QED
  BY <1>2, <1>4, <1>5, <1>6, <1>7, <1>8, <1>9, <1>10, <1>11, <1>12, StampNewest,
     StampFirstNewest, FetchNewest, SendNewest, QueueFirstNewest, WriteNewest, ReceiveNewest
  DEF Next, HandlerStep, ConnStep, DaemonStep, FaultStep

-----------------------------------------------------------------------------
(* A reconnection on its own.  A quiet connection carries nothing but its   *)
(* initial snapshot, whose list is the current one and whose number is      *)
(* above everything the daemon may hold from before.                        *)
Healing(c) ==
    \E e \in Envelope :
        /\ e.keys = access /\ e.seq > mem.seq
        /\ \/ queue[c] = <<e>> /\ wire[c] = <<>>
           \/ queue[c] = <<>> /\ wire[c] = <<e>>
Healed(c) == queue[c] = <<>> /\ wire[c] = <<>> /\ mem.keys = access
HealAt(c) ==
    c \in quiet /\ dconn = c =>
        /\ phase[c] \in {"registered", "built", "stamped"} => queue[c] = <<>> /\ wire[c] = <<>>
        /\ phase[c] \in {"built", "stamped"} => first[c].keys = access
        /\ phase[c] = "stamped" => first[c].seq > mem.seq
        /\ phase[c] = "serving" /\ c \in greeted => Healing(c) \/ Healed(c)

(* A step that leaves the connection, the list and the copy alone keeps it. *)
LEMMA HealKept ==
    ASSUME NEW c \in Conns, HealAt(c), UNCHANGED <<access, mem>>,
           c \in quiet' => c \in quiet, dconn' = c => dconn = c, c \in greeted' => c \in greeted,
           phase'[c] = phase[c], first'[c] = first[c], queue'[c] = queue[c], wire'[c] = wire[c]
    PROVE  HealAt(c)'
<1>1. Healing(c)' = Healing(c) /\ Healed(c)' = Healed(c) BY DEF Healing, Healed
<1> QED BY <1>1 DEF HealAt

(* The handler of the connection builds, numbers and queues its snapshot.   *)
LEMMA FirstHeals ==
    ASSUME TypeOK, DeliveryInv, Ungreeted, NEW c \in Conns, HealAt(c),
           BuildFirst(c) \/ StampFirst(c) \/ QueueFirst(c)
    PROVE  HealAt(c)'
<1>0. /\ DOMAIN phase = Conns /\ first \in [Conns -> Envelope] /\ Len(signed) \in Nat
      /\ DOMAIN queue = Conns /\ mem.seq \in Nat /\ mem.seq <= Len(signed)
  BY SMT DEF TypeOK, LinkType, DbType, DaemonType, Envelope, DeliveryInv, AppliedAsSigned, SignedAs
<1>1. CASE BuildFirst(c)
  <2>1. /\ phase[c] = "registered" /\ phase'[c] = "built" /\ first'[c].keys = access
        /\ UNCHANGED <<access, mem, queue, wire, quiet, dconn>>
    BY <1>0, <1>1 DEF BuildFirst, ReadAccess, Goto, dbVars, daemonVars, history
  <2> QED BY <2>1 DEF HealAt
<1>2. CASE StampFirst(c)
  <2>1. /\ phase[c] = "built" /\ phase'[c] = "stamped"
        /\ first'[c].keys = first[c].keys /\ first'[c].seq = Len(signed) + 1
        /\ UNCHANGED <<access, mem, queue, wire, quiet, dconn>>
    BY <1>0, <1>2 DEF StampFirst, NextSeq, Goto, Envelope, daemonVars
  <2>2. first'[c].seq > mem'.seq BY SMT, <1>0, <2>1
  <2> QED BY <2>1, <2>2 DEF HealAt
<1>3. CASE QueueFirst(c)
  <2>1. /\ phase[c] = "stamped" /\ phase'[c] = "serving"
        /\ queue'[c] = Append(queue[c], first[c])
        /\ UNCHANGED <<access, mem, wire, quiet, dconn>>
    BY <1>0, <1>3 DEF QueueFirst, Goto, dbVars, daemonVars
  <2>2. ASSUME c \in quiet, dconn = c PROVE Healing(c)'
    <3>1. /\ queue[c] = <<>> /\ wire[c] = <<>>
          /\ first[c].keys = access /\ first[c].seq > mem.seq
      BY <2>1, <2>2 DEF HealAt
    <3>2. queue'[c] = <<first[c]>> BY SMT, <2>1, <3>1
    <3> QED BY <1>0, <2>1, <3>1, <3>2 DEF Healing
  <2> QED BY <2>1, <2>2 DEF HealAt
<1> QED BY <1>1, <1>2, <1>3

(* The writer passes the snapshot on, and the daemon applies it.            *)
LEMMA WriteHeals ==
    ASSUME TypeOK, Attached, NEW c \in Conns, HealAt(c), WriteDaemon(c)
    PROVE  HealAt(c)'
<1>1. /\ phase[c] = "serving" /\ queue[c] # <<>> /\ queue' = [queue EXCEPT ![c] = Tail(@)]
      /\ Write(c, <<Head(queue[c])>>)
      /\ UNCHANGED <<access, mem, phase, first, quiet, greeted, dconn>>
  BY DEF WriteDaemon, dbVars, daemonVars, history
<1>2. wire \in [Conns -> Seq(Envelope)] /\ queue \in [Conns -> Seq(Envelope)]
  BY DEF TypeOK, LinkType, DaemonType
<1>3. ASSUME c \in quiet, dconn = c, c \in greeted PROVE Healing(c)'
  <2>1. c \notin gone BY <1>3, ConnAssumption DEF Attached
  <2>2. queue'[c] = Tail(queue[c]) /\ wire'[c] = wire[c] \o <<Head(queue[c])>>
    BY <1>1, <1>2, <2>1 DEF Write
  <2>3. PICK e \in Envelope : /\ e.keys = access /\ e.seq > mem.seq
                              /\ queue[c] = <<e>> /\ wire[c] = <<>>
    BY <1>1, <1>3 DEF HealAt, Healing, Healed
  <2>4. queue'[c] = <<>> /\ wire'[c] = <<e>> BY SMT, <2>2, <2>3
  <2> QED BY <1>1, <2>3, <2>4 DEF Healing
<1> QED BY <1>1, <1>3 DEF HealAt

(* The daemon applies the snapshot it reads. *)
LEMMA ReceiveHeals ==
    ASSUME TypeOK, NEW c \in Conns, HealAt(c), Receive
    PROVE  HealAt(c)'
<1>1. /\ wire[dconn] # <<>> /\ wire' = [wire EXCEPT ![dconn] = Tail(@)]
      /\ mem' = IF Newer(Head(wire[dconn])) THEN Head(wire[dconn]) ELSE mem
      /\ UNCHANGED <<access, phase, first, queue, quiet, greeted, dconn>>
  BY DEF Receive, dbVars, linkVars, history
<1>2. wire \in [Conns -> Seq(Envelope)] BY DEF TypeOK, DaemonType
<1>3. CASE dconn # c \/ c \notin quiet BY <1>1, <1>3 DEF HealAt
<1>4. CASE dconn = c /\ c \in quiet
  <2>1. phase[c] \notin {"registered", "built", "stamped"}
    BY <1>1, <1>4 DEF HealAt
  <2>2. ASSUME phase[c] = "serving", c \in greeted PROVE Healed(c)'
    <3>1. PICK e \in Envelope : /\ e.keys = access /\ e.seq > mem.seq
                                /\ queue[c] = <<>> /\ wire[c] = <<e>>
      BY <1>1, <1>4, <2>2 DEF HealAt, Healing, Healed
    <3>2. wire'[c] = <<>> /\ mem' = e BY SMT, <1>1, <1>2, <1>4, <3>1 DEF Newer
    <3> QED BY <1>1, <3>1, <3>2 DEF Healed
  <2> QED BY <1>1, <2>1, <2>2 DEF HealAt
<1> QED BY <1>3, <1>4

(* Every step keeps a quiet connection on its way to the current list: a    *)
(* request ends the quiet, and only the connection's own handler and the    *)
(* daemon touch what it carries.                                            *)
LEMMA StepHeal ==
    ASSUME TypeOK, DeliveryInv, Linkage, NEW c \in Conns, HealAt(c), [Next]_vars
    PROVE  HealAt(c)'
<1> USE DEF Linkage
<1>0. /\ DOMAIN phase = Conns /\ DOMAIN first = Conns /\ DOMAIN queue = Conns
      /\ DOMAIN wire = Conns
  BY DEF TypeOK, LinkType, DaemonType
<1>1. ASSUME c \notin quiet' \/ dconn' # c PROVE HealAt(c)' BY <1>1 DEF HealAt
<1>2. ASSUME NEW h \in Handlers, Request(h) PROVE HealAt(c)'
  BY <1>1, <1>2 DEF Request, Commit, Refresh, Revoke
<1>3. ASSUME NEW h \in Handlers, HandlerStep(h) \/ Abandon(h) PROVE HealAt(c)'
  <2>1. pc[h] # "idle" /\ quiet' = quiet
    BY <1>3 DEF HandlerStep, Build, Stamp, Fetch, Send, Abandon, history
  <2> QED BY <1>1, <2>1 DEF QuietIdle, Idle
<1>4. ASSUME UNCHANGED <<access, mem, dconn>>, c \in quiet' => c \in quiet,
             phase'[c] = phase[c], first'[c] = first[c], queue'[c] = queue[c],
             wire'[c] = wire[c], c \in greeted' => c \in greeted
      PROVE  HealAt(c)'
  BY <1>4, HealKept
<1>5. ASSUME NEW d \in Conns, d # c, ConnStep(d) \/ AuthError(d) \/ SkipFirst(d) \/ ServerDrop(d)
      PROVE  HealAt(c)'
  <2>1. /\ UNCHANGED <<access, mem, dconn>> /\ (c \in quiet' => c \in quiet)
        /\ c \in greeted' => c \in greeted
    BY <1>5 DEF ConnStep, Authenticate, Register, BuildFirst, StampFirst, SkipCancelled,
       SkipFirst, NoFirst, QueueFirst, WriteDaemon, Leave, FlushAndClose, AuthError, ServerDrop,
       dbVars, daemonVars, history
  <2>2. /\ phase'[c] = phase[c] /\ first'[c] = first[c]
        /\ queue'[c] = queue[c] /\ wire'[c] = wire[c]
    BY <1>0, <1>5 DEF ConnStep, Authenticate, Register, BuildFirst, StampFirst, SkipCancelled,
       SkipFirst, NoFirst, QueueFirst, WriteDaemon, Leave, FlushAndClose, AuthError, ServerDrop,
       Write, Goto
  <2> QED BY <1>4, <2>1, <2>2
<1>6. ASSUME Authenticate(c) \/ AuthError(c) \/ Leave(c) \/ FlushAndClose(c) PROVE HealAt(c)'
  <2>1. phase'[c] \in {"authed", "rejected", "closing", "closed"}
    BY <1>0, <1>6 DEF Authenticate, AuthError, Leave, FlushAndClose, Goto
  <2> QED BY <2>1 DEF HealAt
<1>7. ASSUME Register(c) PROVE HealAt(c)'
  <2>1. phase[c] = "authed" /\ phase'[c] = "registered" /\ UNCHANGED <<queue, wire>>
    BY <1>0, <1>7 DEF Register, Goto
  <2> QED BY <2>1 DEF Untargeted, HealAt
<1>8. ASSUME SkipCancelled(c) \/ SkipFirst(c) PROVE HealAt(c)'
  <2>1. phase[c] \in {"registered", "built"} /\ phase'[c] = "serving" /\ UNCHANGED greeted
    BY <1>0, <1>8 DEF SkipCancelled, SkipFirst, NoFirst, Goto, history
  <2> QED BY <2>1 DEF Ungreeted, HealAt
<1>9. ASSUME ServerDrop(c) PROVE HealAt(c)'
  BY <1>4, <1>9 DEF ServerDrop, dbVars, daemonVars, history
<1>10. ASSUME NEW d \in Conns, Dial(d) PROVE HealAt(c)'
  BY <1>1, <1>10 DEF Dial
<1>11. CASE ServerCrash
  <2>1. phase'[c] \in {"free", "rejected", "closed"} BY <1>11 DEF ServerCrash
  <2> QED BY <2>1 DEF HealAt
<1>12. CASE DaemonStart
  BY <1>1, <1>12, ConnAssumption DEF DaemonStart, Attached
<1>13. ASSUME \/ ReceiveUnsaved \/ SeeRejected \/ SeeRejectedUnsaved \/ SeeClosed
              \/ ReadTimeout \/ LinkDrop \/ DaemonCrash
       PROVE  HealAt(c)'
  <2>1. dconn' = NoConn
    BY <1>13 DEF ReceiveUnsaved, SeeRejected, SeeRejectedUnsaved, SeeClosed, ReadTimeout,
       LinkDrop, DaemonCrash, Hangup
  <2> QED BY <1>1, <2>1, ConnAssumption
<1>14. CASE UNCHANGED vars
  BY <1>4, <1>14 DEF vars, dbVars, linkVars, daemonVars, history
<1>15. ASSUME NEW d \in Conns, ConnStep(d) \/ AuthError(d) \/ SkipFirst(d) \/ ServerDrop(d)
       PROVE  HealAt(c)'
  BY <1>5, <1>6, <1>7, <1>8, <1>9, <1>15, FirstHeals, WriteHeals DEF ConnStep
<1> QED
  BY <1>2, <1>3, <1>10, <1>11, <1>12, <1>13, <1>14, <1>15, ReceiveHeals
  DEF Next, DaemonStep, FaultStep

-----------------------------------------------------------------------------
(* The link's invariant: the small facts, and the two arguments above for   *)
(* every connection.                                                        *)
LinkInv ==
    /\ HubServes /\ Linkage
    /\ \A c \in Conns : NewestAt(c) /\ HealAt(c)

(* It is inductive beside the types and the signed deliveries. *)
LEMMA LinkInvariant == Spec => [](TypeOK /\ DeliveryInv /\ LinkInv)
<1>1. Init => LinkInv
  BY ConnAssumption DEF Init, LinkInv, Linkage, HubServes, Attached, Ungreeted, NotAbove,
     QuietIdle, Untargeted, NewestAt, Current, HealAt
<1>2. TypeOK /\ DeliveryInv /\ LinkInv /\ [Next]_vars => LinkInv'
  <2> SUFFICES ASSUME TypeOK, DeliveryInv, LinkInv, [Next]_vars PROVE LinkInv'
    OBVIOUS
  <2> USE DEF LinkInv
  <2>1. DeliveryInv' BY NextDelivery
  <2>2. HubServes' BY HubStep
  <2>3. Linkage'
    BY StepAttached, StepUngreeted, StepNotAbove, StepQuietIdle, StepUntargeted DEF Linkage
  <2>4. \A c \in Conns : NewestAt(c)' /\ HealAt(c)' BY <2>1, StepNewest, StepHeal
  <2> QED BY <2>2, <2>3, <2>4
<1> QED BY <1>1, <1>2, DeliveryInvariant, PTL DEF Spec

(* A drained connection that queued its initial snapshot and dropped no     *)
(* push has brought the daemon the newest list, for every number of         *)
(* requests, connections, crashes and lost links before it.                 *)
THEOREM Convergence == Spec => []ConvergesToNewest
<1>1. LinkInv => ConvergesToNewest
  <2> SUFFICES ASSUME LinkInv, NEW c \in Conns, Drained(c), Idle, c \in greeted, c \notin dropped
               PROVE  mem = latest
    BY DEF ConvergesToNewest
  <2>1. NewestAt(c) /\ Current(c) BY DEF LinkInv, Drained, Current
  <2>2. Passing(c) = {} BY ContentsEmpty DEF Drained, Passing
  <2>3. \A h \in Handlers : ~Heading(h, c) BY DEF Idle, Heading
  <2> QED BY <2>1, <2>2, <2>3 DEF NewestAt
<1> QED BY <1>1, LinkInvariant, PTL

(* A connection registered with no request in flight has brought the daemon *)
(* the current access list once it is drained, whatever was dropped before. *)
THEOREM ReconnectionHeals == Spec => []ReconnectHeals
<1>1. LinkInv => ReconnectHeals
  <2> SUFFICES ASSUME LinkInv, NEW c \in Conns, Drained(c), c \in quiet, c \in greeted
               PROVE  mem.keys = access
    BY DEF ReconnectHeals
  <2>1. HealAt(c) BY DEF LinkInv
  <2>2. Healing(c) \/ Healed(c) BY <2>1 DEF HealAt, Drained
  <2>3. ~Healing(c) BY SMT DEF Healing, Drained
  <2> QED BY <2>2, <2>3 DEF Healed
<1> QED BY <1>1, LinkInvariant, PTL
=============================================================================
