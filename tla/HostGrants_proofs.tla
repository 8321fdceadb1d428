-------------------------- MODULE HostGrants_proofs --------------------------
(***************************************************************************)
(* Type correctness of HostGrants, that a host whose pushed list is not    *)
(* the current one is awaited by a handler or recorded as missed, and that *)
(* a request that runs alone leaves no host behind.                        *)
(***************************************************************************)
EXTENDS HostGrants, TLAPS

(* Zenon proves most leaves; one that needs arithmetic, sequences or record *)
(* updates names SMT.                                                       *)
USE Zenon

(* Init gives every variable a value of its type. *)
LEMMA InitTypeOK == Init => TypeOK
  <1> SUFFICES ASSUME Init PROVE TypeOK
    OBVIOUS
  <1>1. PushType
    BY SMT DEF Init, PushType, HostAccessKeys
  <1>2. HandlerType
    BY KindAssumption DEF Init, HandlerType, Place
  <1> QED BY SMT, <1>1, <1>2 DEF Init, TypeOK, Status

(* A handler's move to a place of its program keeps the handlers typed, if   *)
(* it works on the kind of thing that place is for.                          *)
LEMMA AtType ==
  ASSUME HandlerType, NEW p \in Handlers, NEW where \in Place,
         NEW x \in Users \cup Groups \cup Hosts \cup {NoUser}, NEW left \in SUBSET Hosts,
         where \in {"suspend", "remove"} => x \in Users,
         where = "delete" => x \in Groups,
         where \in {"number", "send"} => x \in Hosts,
         At(p, where, x, left)
  PROVE  HandlerType'
  BY DEF HandlerType, Place, At

(* The lists and numbers keep their types where a step leaves them alone.    *)
LEMMA PushKept == ASSUME PushType, UNCHANGED <<paper, hosts>> PROVE PushType'
  BY DEF PushType, paper, hosts

(* A handler that goes on to its next host forgets the list and the number.  *)
LEMMA NextHostType ==
  ASSUME TypeOK, NEW p \in Handlers, NextHost(p)
  PROVE  /\ HandlerType'
         /\ draft' \in [Handlers -> SUBSET Keys] /\ num' \in [Handlers -> Nat]
  <1>1. HandlerType'
    <2>1. "push" \in Place /\ todo[p] \in SUBSET Hosts /\ HandlerType
      BY DEF Place, TypeOK, HandlerType
    <2> QED BY <2>1, AtType DEF NextHost
  <1>2. 0 \in Nat
    BY SMT
  <1> QED BY <1>1, <1>2 DEF NextHost, TypeOK, PushType

(* What a lookup returns is a set of hosts. *)
LEMMA AffectedType == ASSUME NEW x PROVE Affected(x) \in SUBSET Hosts
  BY DEF Affected, GroupHostIDs, UserGrantedHostIDs

(* Every step of the module keeps every variable in its type. *)
LEMMA StepTypeOK == TypeOK /\ [Next]_vars => TypeOK'
  <1> SUFFICES ASSUME TypeOK, [Next]_vars PROVE TypeOK'
    OBVIOUS
  <1> USE KindAssumption, NoGrantAssumption
  <1>0. /\ HandlerType
        /\ {"idle", "read", "push", "suspend", "remove", "delete", "number", "send"} \subseteq Place
        /\ {} \in SUBSET Hosts
        /\ \A q \in Handlers : todo[q] \in SUBSET Hosts
    BY DEF TypeOK, HandlerType, Place
  <1>1. ASSUME NEW p \in Handlers, CreateGrant(p) PROVE TypeOK'
    <2>1. PICK i \in GrantIds, gr \in Grant :
            /\ grants' = [grants EXCEPT ![i] = gr]
            /\ PushGrant(p, gr.target)
      BY <1>1 DEF CreateGrant
    <2>2. gr.target \in Hosts \cup Groups
      BY DEF Grant
    <2>3. CASE gr.target \in Hosts
      BY SMT, <1>0, <1>1, <2>1, <2>3, AtType, PushKept DEF CreateGrant, Request, PushGrant, TypeOK
    <2>4. CASE gr.target \notin Hosts
      BY SMT, <1>0, <1>1, <2>1, <2>2, <2>4, AtType, PushKept DEF CreateGrant, Request, PushGrant, TypeOK
    <2> QED BY <2>3, <2>4
  <1>2. ASSUME NEW p \in Handlers, RevokeGrant(p) PROVE TypeOK'
    <2>1. PICK i \in GrantIds :
            /\ grants[i] # NoGrant
            /\ grants' = [grants EXCEPT ![i] = NoGrant]
            /\ PushGrant(p, grants[i].target)
      BY <1>2 DEF RevokeGrant
    <2>2. grants[i].target \in Hosts \cup Groups
      BY <2>1 DEF Grant, TypeOK
    <2>3. CASE grants[i].target \in Hosts
      BY SMT, <1>0, <1>2, <2>1, <2>3, AtType, PushKept DEF RevokeGrant, Request, PushGrant, TypeOK
    <2>4. CASE grants[i].target \notin Hosts
      BY SMT, <1>0, <1>2, <2>1, <2>2, <2>4, AtType, PushKept DEF RevokeGrant, Request, PushGrant, TypeOK
    <2> QED BY <2>3, <2>4
  <1>3. ASSUME NEW p \in Handlers, ActivateUser(p) PROVE TypeOK'
    BY SMT, <1>0, <1>3, AtType, PushKept DEF ActivateUser, Request, Status, TypeOK
  <1>4. ASSUME NEW p \in Handlers, AddKey(p) PROVE TypeOK'
    BY SMT, <1>0, <1>4, AtType, PushKept DEF AddKey, Request, TypeOK
  <1>5. ASSUME NEW p \in Handlers, DeleteKey(p) PROVE TypeOK'
    BY SMT, <1>0, <1>5, AtType, PushKept DEF DeleteKey, Request, TypeOK
  <1>6. ASSUME NEW p \in Handlers, AddGroupResource(p) PROVE TypeOK'
    BY SMT, <1>0, <1>6, AtType, PushKept DEF AddGroupResource, Request, TypeOK
  <1>7. ASSUME NEW p \in Handlers, RemoveGroupResource(p) PROVE TypeOK'
    BY SMT, <1>0, <1>7, AtType, PushKept DEF RemoveGroupResource, Request, TypeOK
  <1>8. ASSUME NEW p \in Handlers, CreateGroup(p) PROVE TypeOK'
    BY SMT, <1>0, <1>8, AtType, PushKept DEF CreateGroup, Request, HandlerType, TypeOK
  <1>9. ASSUME NEW p \in Handlers, SuspendUser(p) PROVE TypeOK'
    BY SMT, <1>0, <1>9, AtType, AffectedType, PushKept DEF SuspendUser, Begin, Capture, Request, Fault, dbVars, TypeOK
  <1>10. ASSUME NEW p \in Handlers, RemoveUser(p) PROVE TypeOK'
    BY SMT, <1>0, <1>10, AtType, AffectedType, PushKept DEF RemoveUser, Begin, Capture, Request, Fault, dbVars, TypeOK
  <1>11. ASSUME NEW p \in Handlers, DeleteGroup(p) PROVE TypeOK'
    BY SMT, <1>0, <1>11, AtType, AffectedType, PushKept DEF DeleteGroup, Begin, Capture, Request, Fault, dbVars, TypeOK
  <1>12. ASSUME NEW p \in Handlers, ReadHosts(p) PROVE TypeOK'
    BY <1>0, <1>12, AtType, AffectedType, PushKept DEF ReadHosts, dbVars, TypeOK
  <1>13. ASSUME NEW p \in Handlers, CommitSuspend(p) PROVE TypeOK'
    BY <1>0, <1>13, AtType, AffectedType, PushKept DEF CommitSuspend, Overlooked, Status, Cascade, dbVars, TypeOK
  <1>14. ASSUME NEW p \in Handlers, CommitRemove(p) PROVE TypeOK'
    BY <1>0, <1>14, AtType, AffectedType, PushKept DEF CommitRemove, Overlooked, Status, Cascade, dbVars, TypeOK
  <1>15. ASSUME NEW p \in Handlers, CommitDelete(p) PROVE TypeOK'
    BY SMT, <1>0, <1>15, AtType, AffectedType, PushKept DEF CommitDelete, Overlooked, Status, Cascade, dbVars, TypeOK
  <1>16. ASSUME NEW p \in Handlers, BuildSnapshot(p) PROVE TypeOK'
    <2>1. PICK h \in todo[p] :
            /\ draft' = [draft EXCEPT ![p] = HostAccessKeys(h)]
            /\ At(p, "number", h, todo[p] \ {h})
      BY <1>16 DEF BuildSnapshot
    <2>2. HostAccessKeys(h) \in SUBSET Keys /\ h \in Hosts /\ todo[p] \ {h} \in SUBSET Hosts
      BY <1>0 DEF HostAccessKeys
    <2>3. HandlerType'
      <3>1. h \in Users \cup Groups \cup Hosts \cup {NoUser} /\ "number" \in Place
        BY <1>0, <2>2
      <3> QED BY SMT, <1>0, <2>1, <2>2, <3>1, AtType
    <2>4. PushType'
      BY <1>16, <2>1, <2>2 DEF BuildSnapshot, TypeOK, PushType, hosts
    <2> QED BY <1>16, <2>3, <2>4 DEF BuildSnapshot, dbVars, TypeOK
  <1>17. ASSUME NEW p \in Handlers, SnapshotEnvelope(p) PROVE TypeOK'
    <2>1. scope[p] \in Hosts /\ todo[p] \in SUBSET Hosts
      BY <1>17 DEF SnapshotEnvelope, TypeOK, HandlerType
    <2>2. HandlerType'
      BY <1>0, <1>17, <2>1, AtType DEF SnapshotEnvelope
    <2>3. seq[scope[p]] + 1 \in Nat
      BY SMT, <2>1 DEF TypeOK, PushType
    <2>4. PushType'
      BY <1>17, <2>1, <2>3 DEF SnapshotEnvelope, TypeOK, PushType
    <2>5. missed' \in SUBSET Hosts
      BY <1>17, <2>1 DEF SnapshotEnvelope, TypeOK
    <2> QED BY <1>17, <2>2, <2>4, <2>5 DEF SnapshotEnvelope, dbVars, TypeOK
  <1>18. ASSUME NEW p \in Handlers, HubPush(p) PROVE TypeOK'
    <2> DEFINE new == [seq |-> num[p], keys |-> draft[p]]
    <2>1. /\ new \in [seq : Nat, keys : SUBSET Keys]
          /\ view' = view \/ view' = [view EXCEPT ![scope[p]] = new]
      BY <1>18 DEF HubPush, TypeOK, PushType
    <2>2. view' \in [Hosts -> [seq : Nat, keys : SUBSET Keys]]
      <3> HIDE DEF new
      <3> QED BY <2>1 DEF TypeOK, PushType
    <2>3. NextHost(p) /\ seq' = seq
      BY <1>18 DEF HubPush
    <2>4. HandlerType' /\ PushType'
      BY <2>2, <2>3, NextHostType DEF TypeOK, PushType
    <2> QED BY <1>18, <2>4 DEF HubPush, dbVars, TypeOK
  <1>19. ASSUME NEW p \in Handlers, PushFails(p) PROVE TypeOK'
    <2>1. CASE pc[p] = "push"
      <3>1. PICK h \in todo[p] : At(p, "push", NoUser, todo[p] \ {h}) /\ missed' = missed \cup {h}
        BY <1>19, <2>1 DEF PushFails
      <3>2. todo[p] \ {h} \in SUBSET Hosts /\ h \in Hosts
        BY <1>0
      <3>3. HandlerType'
        BY SMT, <1>0, <3>1, <3>2, AtType
      <3>4. PushType' /\ faults' \in Nat
        BY SMT, <1>19, <2>1, PushKept DEF PushFails, Fault, TypeOK
      <3> QED BY <1>19, <3>1, <3>2, <3>3, <3>4 DEF PushFails, dbVars, TypeOK
    <2>2. CASE pc[p] \in {"number", "send"}
      <3>1. NextHost(p) /\ hosts' = hosts /\ missed' = missed \cup {scope[p]}
        BY <1>19, <2>2 DEF PushFails
      <3>2. HandlerType' /\ PushType'
        BY <3>1, NextHostType DEF TypeOK, PushType, hosts
      <3>3. scope[p] \in Hosts
        BY <2>2 DEF TypeOK, HandlerType
      <3>4. missed' \in SUBSET Hosts
        BY <3>1, <3>3 DEF TypeOK
      <3>5. faults' \in Nat
        BY SMT, <1>19 DEF PushFails, Fault, TypeOK
      <3> QED BY <1>19, <3>2, <3>4, <3>5 DEF PushFails, dbVars, TypeOK
    <2> QED BY <1>19, <2>1, <2>2 DEF PushFails
  <1>20. ASSUME NEW p \in Handlers, Finish(p) PROVE TypeOK'
    BY <1>0, <1>20, AtType, PushKept DEF Finish, dbVars, TypeOK
  <1>21. ASSUME NEW p \in Handlers, ReadFails(p) PROVE TypeOK'
    BY SMT, <1>0, <1>21, AtType, AffectedType, PushKept DEF ReadFails, dbVars, Fault, TypeOK
  <1>22. ASSUME NEW p \in Handlers, CommitFails(p) PROVE TypeOK'
    BY SMT, <1>0, <1>22, AtType, PushKept DEF CommitFails, dbVars, Fault, TypeOK
  <1>23. CASE Crash
    <2>1. \A q \in Handlers : Owed(q) \in SUBSET Hosts
      BY AffectedType DEF Owed, TypeOK, HandlerType
    <2>2. missed' \in SUBSET Hosts
      <3>1. ASSUME NEW h \in missed' PROVE h \in Hosts
        <4>1. h \in missed \/ \E q \in Handlers : h \in Owed(q)
          BY <1>23 DEF Crash
        <4> QED BY <2>1, <4>1 DEF TypeOK
      <3> QED BY <3>1
    <2>3. HandlerType' /\ PushType'
      BY SMT, <1>23 DEF Crash, TypeOK, HandlerType, Place, PushType, hosts
    <2>4. faults' \in Nat
      BY SMT, <1>23 DEF Crash, Fault, TypeOK
    <2> QED BY <1>23, <2>2, <2>3, <2>4 DEF Crash, dbVars, TypeOK
  <1>24. CASE UNCHANGED vars
    BY <1>24, PushKept DEF vars, dbVars, TypeOK, HandlerType
  <1> QED
    BY <1>1, <1>2, <1>3, <1>4, <1>5, <1>6, <1>7, <1>8, <1>9, <1>10, <1>11, <1>12, <1>13,
       <1>14, <1>15, <1>16, <1>17, <1>18, <1>19, <1>20, <1>21, <1>22, <1>23, <1>24 DEF Next

(* All reachable states of HostGrants are typed, whatever the numbers of    *)
(* users, hosts, groups, keys, handlers, requests and faults: in particular *)
(* a deleted group keeps no members (handleDeleteGroup).                    *)
THEOREM TypeCorrect == Spec => []TypeOK
  BY InitTypeOK, StepTypeOK, PTL DEF Spec

-----------------------------------------------------------------------------
Scopes == Users \cup Groups \cup Hosts \cup {NoUser}

(* The step leaves the host's access alone and hides it from no lookup.      *)
Unmoved(h) ==
    /\ HostAccessKeys(h)' = HostAccessKeys(h)
    /\ \A x \in Scopes : h \in Affected(x) => h \in Affected(x)'

(* The host holds its current list under its newest number. *)
Settled(h) == view[h].seq = seq[h] /\ view[h].keys = HostAccessKeys(h)

(* The part of one handler in Awaited. *)
Waits(q, h) ==
    \/ pc[q] \in {"push", "number", "send"} /\ h \in todo[q]
    \/ pc[q] = "read" /\ h \in Affected(scope[q])
    \/ Carries(q, h)

(* The inductive form of StaleIsAwaited: a host with a current list may still *)
(* lose it to a list with a newer number, unless it is settled.               *)
Settling == \A h \in Hosts : Settled(h) \/ Awaited(h) \/ h \in missed

(* The numbers on their way are distinct, are no newer than the newest taken *)
(* and differ from the one the host holds.                                   *)
Numbered ==
    /\ \A h \in Hosts : view[h].seq <= seq[h]
    /\ \A q \in Handlers : pc[q] = "send" =>
          num[q] <= seq[scope[q]] /\ num[q] # view[scope[q]].seq
    /\ \A q, r \in Handlers :
          pc[q] = "send" /\ pc[r] = "send" /\ scope[q] = scope[r] /\ num[q] = num[r] => q = r

(* With the tables the queries read unchanged, the queries' results are too. *)
LEMMA SameTables ==
  ASSUME UNCHANGED <<grants, members, ustatus, owner>>
  PROVE  /\ \A h \in Hosts : HostAccessKeys(h)' = HostAccessKeys(h)
         /\ \A x : Affected(x)' = Affected(x)
  BY DEF HostAccessKeys, Affected, GroupHostIDs, UserGrantedHostIDs, Live, Reaches

(* A step that adds or drops only grants that do not reach a host, and       *)
(* touches no user who does, leaves the host unmoved.                        *)
LEMMA Steady ==
  ASSUME NEW h \in Hosts, NEW S,
         Live \ S = Live' \ S,
         \A gr \in S : ~ Reaches(gr, h) /\ ~ Reaches(gr, h)',
         \A gr \in Live \ S : Reaches(gr, h)' <=> Reaches(gr, h),
         \A gr \in Live \ S : Reaches(gr, h) =>
            /\ ustatus'[gr.user] = ustatus[gr.user]
            /\ \A k \in Keys : owner'[k] = gr.user <=> owner[k] = gr.user,
         \A g \in Groups : <<g, h>> \in members => <<g, h>> \in members'
  PROVE  Unmoved(h)
  <1>1. HostAccessKeys(h)' = HostAccessKeys(h)
    BY DEF HostAccessKeys
  <1>2. ASSUME NEW x \in Groups, h \in Affected(x) PROVE h \in Affected(x)'
    BY <1>2 DEF Affected, GroupHostIDs
  <1>3. ASSUME NEW x, x \notin Groups, h \in Affected(x) PROVE h \in Affected(x)'
    <2>1. PICK gr \in Live : gr.user = x /\ Reaches(gr, h)
      BY <1>3 DEF Affected, UserGrantedHostIDs
    <2>2. gr \in Live' /\ Reaches(gr, h)'
      BY <2>1
    <2> QED BY <1>3, <2>1, <2>2 DEF Affected, UserGrantedHostIDs
  <1> QED BY <1>1, <1>2, <1>3 DEF Unmoved

(* What At does to the handler that moves and to the others. *)
LEMMA AtMoves ==
  ASSUME HandlerType, NEW p \in Handlers, NEW where, NEW x, NEW left,
         At(p, where, x, left)
  PROVE  /\ pc'[p] = where /\ scope'[p] = x /\ todo'[p] = left
         /\ \A q \in Handlers \ {p} :
              pc'[q] = pc[q] /\ scope'[q] = scope[q] /\ todo'[q] = todo[q]
  BY DEF HandlerType, At

(* What a handler does for a host it still does, if the step changes neither *)
(* the handler nor what the host is due.                                     *)
LEMMA StillWaits ==
  ASSUME TypeOK, NEW h \in Hosts, Unmoved(h), NEW q \in Handlers, Waits(q, h),
         pc'[q] = pc[q], scope'[q] = scope[q], todo'[q] = todo[q],
         draft'[q] = draft[q], num'[q] = num[q], seq'[h] = seq[h]
  PROVE  Awaited(h)'
  <1>1. CASE pc[q] \in {"push", "number", "send"} /\ h \in todo[q]
    BY <1>1 DEF Awaited
  <1>2. CASE pc[q] = "read" /\ h \in Affected(scope[q])
    <2>1. PICK x \in Scopes : x = scope[q] /\ h \in Affected(x)
      BY <1>2 DEF TypeOK, HandlerType, Scopes
    <2>2. h \in Affected(x)'
      BY <2>1 DEF Unmoved
    <2>3. pc'[q] = "read" /\ scope'[q] = x
      BY <1>2, <2>1
    <2> QED BY <2>2, <2>3 DEF Awaited, Affected, GroupHostIDs, UserGrantedHostIDs
  <1>3. CASE Carries(q, h)
    <2>1. Carries(q, h)'
      BY <1>3 DEF Carries, Unmoved
    <2> QED BY <2>1 DEF Awaited
  <1> QED BY <1>1, <1>2, <1>3 DEF Waits

(* One handler takes a step that leaves what the host is due alone.  If the  *)
(* host does not lose its list, and if what that handler did for the host is *)
(* not lost, the host is still settled, awaited or missed.                   *)
LEMMA HostKept ==
  ASSUME TypeOK, Settling, NEW p \in Handlers, NEW h \in Hosts, Unmoved(h),
         \A q \in Handlers \ {p} :
            /\ pc'[q] = pc[q] /\ scope'[q] = scope[q] /\ todo'[q] = todo[q]
            /\ draft'[q] = draft[q] /\ num'[q] = num[q],
         seq'[h] = seq[h], h \in missed => h \in missed',
         Settled(h) => Settled(h)',
         Waits(p, h) => Settled(h)' \/ Awaited(h)' \/ h \in missed'
  PROVE  Settled(h)' \/ Awaited(h)' \/ h \in missed'
  <1>1. CASE Settled(h) \/ h \in missed
    BY <1>1
  <1>2. CASE Awaited(h)
    <2>1. PICK q \in Handlers : Waits(q, h)
      BY <1>2 DEF Awaited, Waits
    <2>2. CASE q = p
      BY <2>1, <2>2
    <2>3. CASE q # p
      BY <2>1, <2>3, StillWaits
    <2> QED BY <2>2, <2>3
  <1> QED BY <1>1, <1>2 DEF Settling

(* A handler that had nothing to push takes a step: if each host is unmoved, *)
(* awaited afterwards or missed, then no host is forgotten.                  *)
LEMMA Kept ==
  ASSUME TypeOK, Settling, NEW p \in Handlers,
         pc[p] \notin {"push", "read", "number", "send"},
         \A q \in Handlers \ {p} :
            pc'[q] = pc[q] /\ scope'[q] = scope[q] /\ todo'[q] = todo[q],
         UNCHANGED <<paper, hosts>>, missed \subseteq missed',
         \A h \in Hosts : Unmoved(h) \/ Awaited(h)' \/ h \in missed'
  PROVE  Settling'
  <1>1. draft' = draft /\ num' = num /\ seq' = seq /\ view' = view
    BY DEF paper, hosts
  <1>2. ASSUME NEW h \in Hosts, Unmoved(h)
        PROVE  Settled(h)' \/ Awaited(h)' \/ h \in missed'
    <2>1. ~ Waits(p, h)
      BY DEF Waits, Carries
    <2>2. Settled(h) => Settled(h)'
      BY <1>1, <1>2 DEF Settled, Unmoved
    <2> QED BY <1>1, <1>2, <2>1, <2>2, HostKept
  <1> QED BY <1>2 DEF Settling

(* A host target is no group, so only the host itself is reached through it. *)
LEMMA HostTarget ==
  ASSUME TypeOK, NEW gr, gr.target \in Hosts, NEW h \in Hosts
  PROVE  Reaches(gr, h) <=> gr.target = h
  BY KindAssumption DEF TypeOK, Reaches

(* A grant that appears or disappears moves only the hosts it reaches, and   *)
(* those are awaited once PushGrant has run.                                 *)
LEMMA GrantMoves ==
  ASSUME TypeOK, TypeOK', Settling, NEW p \in Handlers, pc[p] = "idle",
         NEW gr \in Grant, Live \ {gr} = Live' \ {gr}, PushGrant(p, gr.target),
         UNCHANGED <<members, ustatus, owner, paper, hosts, missed>>
  PROVE  Settling'
  <1>1. HandlerType /\ gr.target \in Hosts \cup Groups
    BY DEF TypeOK, Grant
  <1>2. ASSUME NEW h \in Hosts, ~ Reaches(gr, h) PROVE Unmoved(h)
    BY <1>2, Steady DEF Reaches
  <1>3. CASE gr.target \in Hosts
    <2>1. At(p, "push", NoUser, {gr.target})
      BY <1>3 DEF PushGrant
    <2>2. ASSUME NEW h \in Hosts, Reaches(gr, h) PROVE Awaited(h)'
      BY SMT, <1>1, <1>3, <2>1, <2>2, HostTarget, AtMoves DEF Awaited
    <2> QED BY <1>1, <1>2, <2>1, <2>2, AtMoves, Kept
  <1>4. CASE gr.target \notin Hosts
    <2>1. At(p, "read", gr.target, {})
      BY <1>4 DEF PushGrant
    <2>2. ASSUME NEW h \in Hosts, Reaches(gr, h) PROVE Awaited(h)'
      BY <1>1, <1>4, <2>1, <2>2, AtMoves
         DEF Awaited, Affected, GroupHostIDs, Reaches
    <2> QED BY <1>1, <1>2, <2>1, <2>2, AtMoves, Kept
  <1> QED BY <1>3, <1>4

(* handleCreateGrant *)
LEMMA CreateGrantKeeps ==
  ASSUME TypeOK, TypeOK', Settling, NEW p \in Handlers, CreateGrant(p)
  PROVE  Settling'
  <1>1. PICK i \in GrantIds, gr \in Grant :
          /\ grants[i] = NoGrant
          /\ grants' = [grants EXCEPT ![i] = gr]
          /\ PushGrant(p, gr.target)
    BY DEF CreateGrant
  <1>2. Live \ {gr} = Live' \ {gr}
    BY SMT, <1>1 DEF Live, TypeOK
  <1> QED BY <1>1, <1>2, GrantMoves DEF CreateGrant, Request

(* handleRevokeGrant: another live row may say the same, and then Live stays. *)
LEMMA RevokeGrantKeeps ==
  ASSUME TypeOK, TypeOK', Settling, NEW p \in Handlers, RevokeGrant(p)
  PROVE  Settling'
  <1>1. PICK i \in GrantIds :
          /\ grants[i] # NoGrant
          /\ grants' = [grants EXCEPT ![i] = NoGrant]
          /\ PushGrant(p, grants[i].target)
    BY DEF RevokeGrant
  <1>2. Live \ {grants[i]} = Live' \ {grants[i]} /\ grants[i] \in Grant
    BY SMT, <1>1 DEF Live, TypeOK
  <1> QED BY <1>1, <1>2, GrantMoves DEF RevokeGrant, Request

(* A step that touches one user and then looks that user's hosts up: hosts   *)
(* outside the lookup are reached by other users only.                       *)
LEMMA UserMoves ==
  ASSUME TypeOK, TypeOK', Settling, NEW p \in Handlers, pc[p] = "idle",
         NEW u \in Users, At(p, "read", u, {}),
         \A v \in Users \ {u} :
            /\ ustatus'[v] = ustatus[v]
            /\ \A k \in Keys : owner'[k] = v <=> owner[k] = v,
         UNCHANGED <<grants, members, paper, hosts, missed>>
  PROVE  Settling'
  <1>1. HandlerType /\ u \notin Groups
    BY KindAssumption DEF TypeOK
  <1>2. ASSUME NEW h \in Hosts PROVE Unmoved(h) \/ Awaited(h)'
    <2>1. CASE h \in UserGrantedHostIDs(u)
      <3>1. h \in Affected(u)'
        BY SMT, <1>1, <2>1 DEF Affected, UserGrantedHostIDs, Live, Reaches
      <3> QED BY SMT, <1>1, <3>1, AtMoves
              DEF Awaited, Affected, UserGrantedHostIDs, GroupHostIDs
    <2>2. CASE h \notin UserGrantedHostIDs(u)
      <3>1. \A gr \in Live : Reaches(gr, h) => gr.user \in Users \ {u}
        BY SMT, <2>2 DEF UserGrantedHostIDs, Live, TypeOK, Grant
      <3>2. Live' = Live /\ \A gr : Reaches(gr, h)' <=> Reaches(gr, h)
        BY SMT DEF Live, Reaches
      <3> QED BY SMT, <3>1, <3>2, Steady
    <2> QED BY <2>1, <2>2
  <1> QED BY <1>1, <1>2, AtMoves, Kept

(* handleActivateUser, handleAddKey and handleDeleteKey *)
LEMMA UserStepKeeps ==
  ASSUME TypeOK, TypeOK', Settling, NEW p \in Handlers,
         ActivateUser(p) \/ AddKey(p) \/ DeleteKey(p)
  PROVE  Settling'
  <1> USE KindAssumption
  <1>1. CASE ActivateUser(p)
    BY <1>1, UserMoves DEF ActivateUser, Request, TypeOK
  <1>2. CASE AddKey(p)
    BY SMT, <1>2, UserMoves DEF AddKey, Request, TypeOK
  <1>3. CASE DeleteKey(p)
    BY SMT, <1>3, UserMoves DEF DeleteKey, Request, TypeOK
  <1> QED BY <1>1, <1>2, <1>3

(* handleAddGroupResource and handleRemoveGroupResource push to the host     *)
(* they name and move no other.                                              *)
LEMMA MemberStepKeeps ==
  ASSUME TypeOK, TypeOK', Settling, NEW p \in Handlers,
         AddGroupResource(p) \/ RemoveGroupResource(p)
  PROVE  Settling'
  <1>1. PICK n \in Hosts :
          /\ At(p, "push", NoUser, {n})
          /\ \A t, h : h # n => (<<t, h>> \in members' <=> <<t, h>> \in members)
    <2>1. CASE AddGroupResource(p)
      <3>1. PICK g \in Groups, n \in Hosts :
              members' = members \cup {<<g, n>>} /\ At(p, "push", NoUser, {n})
        BY <2>1 DEF AddGroupResource
      <3>2. \A t, h : h # n => (<<t, h>> \in members' <=> <<t, h>> \in members)
        BY <3>1
      <3> QED BY <3>1, <3>2
    <2>2. CASE RemoveGroupResource(p)
      <3>1. PICK m \in members :
              members' = members \ {m} /\ At(p, "push", NoUser, {m[2]})
        BY <2>2 DEF RemoveGroupResource
      <3>2. m[2] \in Hosts /\ m = <<m[1], m[2]>>
        BY SMT DEF TypeOK
      <3>3. \A t, h : h # m[2] => (<<t, h>> \in members' <=> <<t, h>> \in members)
        BY SMT, <3>1, <3>2
      <3> QED BY <3>1, <3>2, <3>3
    <2> QED BY <2>1, <2>2
  <1>2. UNCHANGED <<grants, ustatus, owner, paper, hosts, missed>> /\ pc[p] = "idle" /\ HandlerType
    BY DEF AddGroupResource, RemoveGroupResource, Request, TypeOK
  <1>3. ASSUME NEW h \in Hosts PROVE Unmoved(h) \/ Awaited(h)'
    <2>1. CASE h = n
      BY SMT, <1>1, <1>2, <2>1, AtMoves DEF Awaited
    <2>2. CASE h # n
      <3>1. Live' = Live /\ \A gr : Reaches(gr, h)' <=> Reaches(gr, h)
        BY <1>1, <1>2, <2>2 DEF Live, Reaches
      <3>2. \A g \in Groups : <<g, h>> \in members => <<g, h>> \in members'
        BY <1>1, <2>2
      <3> DEFINE S == {}
      <3>3. /\ Live \ S = Live' \ S
            /\ \A gr \in S : ~ Reaches(gr, h) /\ ~ Reaches(gr, h)'
            /\ \A gr \in Live \ S : Reaches(gr, h)' <=> Reaches(gr, h)
            /\ \A gr \in Live \ S : Reaches(gr, h) =>
                 /\ ustatus'[gr.user] = ustatus[gr.user]
                 /\ \A k \in Keys : owner'[k] = gr.user <=> owner[k] = gr.user
        BY <1>2, <3>1
      <3> HIDE DEF S
      <3> QED BY <3>2, <3>3, Steady
    <2> QED BY <2>1, <2>2
  <1> QED BY <1>1, <1>2, <1>3, AtMoves, Kept

(* handleSuspendUser and handleRemoveUser: of the hosts the user reached at   *)
(* the commit, those captured are pushed to and the others are missed.        *)
LEMMA BlockUserKeeps ==
  ASSUME TypeOK, TypeOK', Settling, NEW p \in Handlers,
         CommitSuspend(p) \/ CommitRemove(p)
  PROVE  Settling'
  <1> DEFINE u == scope[p]
             S == {gr \in Live : gr.user = u} \ Live'
  <1>1. /\ HandlerType /\ u \in Users /\ u \notin Groups
        /\ pc[p] \notin {"push", "read", "number", "send"}
    BY KindAssumption DEF TypeOK, HandlerType, CommitSuspend, CommitRemove
  <1>2. /\ At(p, "push", NoUser, todo[p])
        /\ missed' = missed \cup (Affected(u) \ todo[p])
        /\ UNCHANGED <<members, owner, paper, hosts>>
        /\ \A v \in Users \ {u} : ustatus'[v] = ustatus[v]
    BY <1>1 DEF CommitSuspend, CommitRemove, Overlooked, TypeOK
  <1>3. Live' \subseteq Live /\ \A gr \in Live : gr.user # u => gr \in Live'
    <2>1. CASE CommitSuspend(p)
      BY <2>1 DEF CommitSuspend, Live
    <2>2. CASE CommitRemove(p)
      BY <2>2 DEF CommitRemove, Live
    <2> QED BY <2>1, <2>2
  <1>4. ASSUME NEW h \in Hosts PROVE Unmoved(h) \/ Awaited(h)' \/ h \in missed'
    <2>1. CASE h \in Affected(u)
      <3>1. CASE h \in todo[p]
        BY SMT, <1>1, <1>2, <3>1, AtMoves DEF Awaited
      <3>2. CASE h \notin todo[p]
        BY <1>2, <2>1, <3>2
      <3> QED BY <3>1, <3>2
    <2>2. CASE h \notin Affected(u)
      <3>1. \A gr \in Live : Reaches(gr, h) => gr.user \in Users \ {u}
        BY SMT, <1>1, <2>2 DEF Affected, UserGrantedHostIDs, Live, TypeOK, Grant
      <3>2. \A gr : Reaches(gr, h)' <=> Reaches(gr, h)
        BY <1>2 DEF Reaches
      <3>3. /\ Live \ S = Live' \ S
            /\ \A gr \in S : ~ Reaches(gr, h) /\ ~ Reaches(gr, h)'
        BY <1>3, <3>1, <3>2
      <3>4. \A gr \in Live \ S : Reaches(gr, h) =>
              /\ ustatus'[gr.user] = ustatus[gr.user]
              /\ \A k \in Keys : owner'[k] = gr.user <=> owner[k] = gr.user
        BY <1>2, <3>1
      <3>5. \A g \in Groups : <<g, h>> \in members => <<g, h>> \in members'
        BY <1>2
      <3> HIDE DEF S
      <3> QED BY <3>2, <3>3, <3>4, <3>5, Steady
    <2> QED BY <2>1, <2>2
  <1> QED BY <1>1, <1>2, <1>4, AtMoves, Kept

(* handleDeleteGroup: the same for the hosts that are members at the commit.  *)
LEMMA DeleteGroupKeeps ==
  ASSUME TypeOK, TypeOK', Settling, NEW p \in Handlers, CommitDelete(p)
  PROVE  Settling'
  <1> DEFINE g == scope[p]
             S == {gr \in Live : gr.target = g} \ Live'
  <1>1. HandlerType /\ g \in Groups /\ g \notin Hosts /\ pc[p] \notin {"push", "read", "number", "send"}
    BY KindAssumption DEF TypeOK, HandlerType, CommitDelete
  <1>2. CASE gstate[g] = "live"
    <2>1. /\ At(p, "push", NoUser, todo[p])
          /\ missed' = missed \cup (GroupHostIDs(g) \ todo[p])
          /\ members' = {m \in members : m[1] # g}
          /\ UNCHANGED <<ustatus, owner, paper, hosts>>
      BY <1>1, <1>2 DEF CommitDelete, Overlooked, Cascade, Affected
    <2>2. Live' \subseteq Live /\ \A gr \in Live : gr.target # g => gr \in Live'
      <3>1. grants' = [i \in GrantIds |->
                        IF grants[i] # NoGrant /\ grants[i].target = g
                        THEN NoGrant ELSE grants[i]]
        BY <1>2 DEF CommitDelete
      <3> QED BY <3>1 DEF Live
    <2>3. ASSUME NEW h \in Hosts PROVE Unmoved(h) \/ Awaited(h)' \/ h \in missed'
      <3>1. CASE h \in GroupHostIDs(g)
        <4>1. CASE h \in todo[p]
          BY <1>1, <2>1, <4>1, AtMoves DEF Awaited
        <4>2. CASE h \notin todo[p]
          BY <2>1, <3>1, <4>2
        <4> QED BY <4>1, <4>2
      <3>2. CASE h \notin GroupHostIDs(g)
        <4>1. \A t : <<t, h>> \in members' <=> <<t, h>> \in members
          BY <2>1, <3>2 DEF GroupHostIDs
        <4>2. \A gr : Reaches(gr, h)' <=> Reaches(gr, h)
          BY <4>1 DEF Reaches
        <4>3. \A gr \in Live : Reaches(gr, h) => gr.target # g
          BY <1>1, <3>2 DEF Reaches, GroupHostIDs
        <4>4. /\ Live \ S = Live' \ S
              /\ \A gr \in S : ~ Reaches(gr, h) /\ ~ Reaches(gr, h)'
          BY <2>2, <4>2, <4>3
        <4>5. \A gr \in Live \ S : Reaches(gr, h) =>
                /\ ustatus'[gr.user] = ustatus[gr.user]
                /\ \A k \in Keys : owner'[k] = gr.user <=> owner[k] = gr.user
          BY <2>1
        <4>6. \A t \in Groups : <<t, h>> \in members => <<t, h>> \in members'
          BY <4>1
        <4> HIDE DEF S
        <4> QED BY <4>2, <4>4, <4>5, <4>6, Steady
      <3> QED BY <3>1, <3>2
    <2> QED BY <1>1, <2>1, <2>3, AtMoves, Kept
  <1>3. CASE gstate[g] # "live"
    <2>1. At(p, "idle", NoUser, {}) /\ UNCHANGED <<dbVars, missed, paper, hosts>>
      BY <1>3 DEF CommitDelete
    <2>2. \A h \in Hosts : Unmoved(h)
      BY <2>1, SameTables DEF dbVars, Unmoved
    <2> QED BY <1>1, <2>1, <2>2, AtMoves, Kept
  <1> QED BY <1>2, <1>3

(* The lookup after a commit, and the end of a list. *)
LEMMA LookupKeeps ==
  ASSUME TypeOK, Settling, NEW p \in Handlers, ReadHosts(p) \/ ReadFails(p) \/ Finish(p)
  PROVE  Settling'
  <1>1. /\ UNCHANGED <<grants, members, ustatus, owner, draft, num, seq, view>>
        /\ missed \subseteq missed'
    BY DEF ReadHosts, ReadFails, Finish, dbVars, paper, hosts
  <1>2. \A q \in Handlers \ {p} :
          pc'[q] = pc[q] /\ scope'[q] = scope[q] /\ todo'[q] = todo[q]
    BY AtMoves DEF TypeOK, ReadHosts, ReadFails, Finish
  <1>3. ASSUME NEW h \in Hosts PROVE Settled(h)' \/ Awaited(h)' \/ h \in missed'
    <2>1. Unmoved(h)
      BY <1>1, SameTables DEF Unmoved
    <2>2. Settled(h) => Settled(h)'
      BY <1>1, <2>1 DEF Settled, Unmoved
    <2>3. ASSUME Waits(p, h) PROVE Awaited(h)' \/ h \in missed'
      <3>1. CASE ReadHosts(p)
        <4>1. pc[p] = "read" /\ At(p, "push", NoUser, Affected(scope[p])) /\ HandlerType
          BY <3>1 DEF ReadHosts, TypeOK
        <4>2. h \in Affected(scope[p])
          BY <2>3, <4>1 DEF Waits, Carries
        <4> QED BY <4>1, <4>2, AtMoves DEF Awaited
      <3>2. CASE ReadFails(p)
        BY <2>3, <3>2 DEF ReadFails, Waits, Carries
      <3>3. CASE Finish(p)
        BY <2>3, <3>3 DEF Finish, Waits, Carries
      <3> QED BY <3>1, <3>2, <3>3
    <2> QED BY <1>1, <1>2, <2>1, <2>2, <2>3, HostKept
  <1> QED BY <1>3 DEF Settling

(* pushSnapshot reads a host's list: the handler carries it from then on.     *)
LEMMA BuildKeeps ==
  ASSUME TypeOK, Settling, NEW p \in Handlers, BuildSnapshot(p)
  PROVE  Settling'
  <1>1. /\ UNCHANGED <<grants, members, ustatus, owner, num, seq, view, missed>>
        /\ pc[p] = "push" /\ HandlerType
    BY DEF BuildSnapshot, dbVars, hosts, TypeOK
  <1>2. PICK n \in todo[p] :
          /\ draft' = [draft EXCEPT ![p] = HostAccessKeys(n)]
          /\ At(p, "number", n, todo[p] \ {n})
    BY DEF BuildSnapshot
  <1>3. /\ pc'[p] = "number" /\ scope'[p] = n /\ todo'[p] = todo[p] \ {n}
        /\ draft'[p] = HostAccessKeys(n)
        /\ \A q \in Handlers \ {p} :
              /\ pc'[q] = pc[q] /\ scope'[q] = scope[q] /\ todo'[q] = todo[q]
              /\ draft'[q] = draft[q]
    <2>1. draft \in [Handlers -> SUBSET Keys]
      BY DEF TypeOK, PushType
    <2>2. /\ draft'[p] = HostAccessKeys(n)
          /\ \A q \in Handlers \ {p} : draft'[q] = draft[q]
      BY <1>2, <2>1
    <2>3. /\ pc'[p] = "number" /\ scope'[p] = n /\ todo'[p] = todo[p] \ {n}
          /\ \A q \in Handlers \ {p} :
                pc'[q] = pc[q] /\ scope'[q] = scope[q] /\ todo'[q] = todo[q]
      <3>1. HandlerType /\ At(p, "number", n, todo[p] \ {n})
        BY <1>1, <1>2
      <3> QED BY <3>1, AtMoves
    <2> QED BY <2>2, <2>3
  <1>4. ASSUME NEW h \in Hosts PROVE Settled(h)' \/ Awaited(h)' \/ h \in missed'
    <2>1. Unmoved(h)
      BY <1>1, SameTables DEF Unmoved
    <2>2. Settled(h) => Settled(h)'
      BY <1>1, <2>1 DEF Settled, Unmoved
    <2>3. ASSUME Waits(p, h) PROVE Awaited(h)'
      <3>1. h \in todo[p]
        BY <1>1, <2>3 DEF Waits, Carries
      <3>2. CASE h = n
        <4>1. Carries(p, h)'
          BY <1>3, <2>1, <3>2 DEF Carries, Unmoved
        <4> QED BY <4>1 DEF Awaited
      <3>3. CASE h # n
        BY <1>3, <3>1, <3>3 DEF Awaited
      <3> QED BY <3>2, <3>3
    <2> QED BY <1>1, <1>3, <2>1, <2>2, <2>3, HostKept
  <1> QED BY <1>4 DEF Settling

(* snapshotEnvelope: the newest number goes to a current list, or the host is *)
(* missed.                                                                    *)
LEMMA EnvelopeKeeps ==
  ASSUME TypeOK, Settling, NEW p \in Handlers, SnapshotEnvelope(p)
  PROVE  Settling'
  <1> DEFINE n == scope[p]
  <1>1. /\ UNCHANGED <<grants, members, ustatus, owner, draft, view>>
        /\ seq' = [seq EXCEPT ![n] = @ + 1]
        /\ num' = [num EXCEPT ![p] = seq[n] + 1]
        /\ At(p, "send", n, todo[p]) /\ pc[p] = "number" /\ HandlerType
        /\ missed' = IF draft[p] = HostAccessKeys(n) THEN missed \ {n} ELSE missed \cup {n}
    BY DEF SnapshotEnvelope, dbVars, TypeOK
  <1>2. n \in Hosts
    BY <1>1 DEF HandlerType
  <1>3. /\ pc'[p] = "send" /\ scope'[p] = n /\ todo'[p] = todo[p]
        /\ num'[p] = seq[n] + 1 /\ seq'[n] = seq[n] + 1
        /\ \A h \in Hosts \ {n} : seq'[h] = seq[h]
        /\ \A q \in Handlers \ {p} :
              /\ pc'[q] = pc[q] /\ scope'[q] = scope[q] /\ todo'[q] = todo[q]
              /\ num'[q] = num[q]
    <2> HIDE DEF n
    <2>1. seq \in [Hosts -> Nat] /\ num \in [Handlers -> Nat]
      BY DEF TypeOK, PushType
    <2> QED BY <1>1, <1>2, <2>1, AtMoves
  <1>4. ASSUME NEW h \in Hosts PROVE Settled(h)' \/ Awaited(h)' \/ h \in missed'
    <2>1. Unmoved(h)
      BY <1>1, SameTables DEF Unmoved
    <2>2. CASE h = n /\ draft[p] = HostAccessKeys(n)
      <3>1. Carries(p, h)'
        BY <1>1, <1>3, <2>1, <2>2 DEF Carries, Unmoved
      <3> QED BY <3>1 DEF Awaited
    <2>3. CASE h = n /\ draft[p] # HostAccessKeys(n)
      BY <1>1, <2>3
    <2>4. CASE h # n
      <3>1. seq'[h] = seq[h] /\ h \in missed => h \in missed'
        BY <1>1, <1>3, <2>4
      <3>2. Settled(h) => Settled(h)'
        BY <1>1, <1>3, <2>1, <2>4 DEF Settled, Unmoved
      <3>3. ASSUME Waits(p, h) PROVE Awaited(h)'
        <4>1. h \in todo[p]
          BY <1>1, <2>4, <3>3 DEF Waits, Carries
        <4> QED BY <1>3, <4>1 DEF Awaited
      <3> QED BY <1>1, <1>3, <2>1, <2>4, <3>1, <3>2, <3>3, HostKept
    <2> QED BY <2>2, <2>3, <2>4
  <1> QED BY <1>4 DEF Settling

(* What NextHost does to the handler and to the others. *)
LEMMA NextHostMoves ==
  ASSUME TypeOK, NEW p \in Handlers, NextHost(p)
  PROVE  /\ pc'[p] = "push" /\ todo'[p] = todo[p]
         /\ \A q \in Handlers \ {p} :
              /\ pc'[q] = pc[q] /\ scope'[q] = scope[q] /\ todo'[q] = todo[q]
              /\ draft'[q] = draft[q] /\ num'[q] = num[q]
  <1>1. draft \in [Handlers -> SUBSET Keys] /\ num \in [Handlers -> Nat] /\ HandlerType
    BY DEF TypeOK, PushType
  <1>2. At(p, "push", NoUser, todo[p])
    BY DEF NextHost
  <1>3. \A q \in Handlers \ {p} : draft'[q] = draft[q] /\ num'[q] = num[q]
    BY <1>1 DEF NextHost
  <1> QED BY <1>1, <1>2, <1>3, AtMoves

(* Hub.Push: a current list with the newest number settles its host, and a    *)
(* list with an older number leaves a settled host alone.                     *)
LEMMA HubPushKeeps ==
  ASSUME TypeOK, Numbered, Settling, NEW p \in Handlers, HubPush(p)
  PROVE  Settling'
  <1> DEFINE n == scope[p]
             new == [seq |-> num[p], keys |-> draft[p]]
  <1>1. /\ UNCHANGED <<grants, members, ustatus, owner, seq, missed>>
        /\ NextHost(p) /\ pc[p] = "send"
    BY DEF HubPush, dbVars
  <1>2. n \in Hosts /\ num[p] <= seq[n] /\ num[p] # view[n].seq
    BY <1>1 DEF TypeOK, HandlerType, Numbered
  <1>3. num[p] \in Nat /\ seq[n] \in Nat /\ view[n].seq \in Nat /\ view[n].seq <= seq[n]
    BY <1>2 DEF TypeOK, PushType, Numbered
  <1>4. view' = IF num[p] > view[n].seq THEN [view EXCEPT ![n] = new] ELSE view
    BY DEF HubPush, Applies
  <1>5. new.seq = num[p] /\ new.keys = draft[p]
    OBVIOUS
  <1>6. ASSUME NEW h \in Hosts PROVE Settled(h)' \/ Awaited(h)' \/ h \in missed'
    <2> HIDE DEF new
    <2>1. Unmoved(h)
      BY <1>1, SameTables DEF Unmoved
    <2>2. view \in [Hosts -> [seq : Nat, keys : SUBSET Keys]]
      BY DEF TypeOK, PushType
    <2>3. ASSUME Settled(h) PROVE Settled(h)'
      <3>1. view'[h] = view[h]
        <4>1. CASE h = n
          <5>1. ~(num[p] > view[n].seq)
            BY SMT, <1>2, <1>3, <2>3, <4>1 DEF Settled
          <5> QED BY <1>4, <5>1
        <4>2. CASE h # n
          <5> HIDE DEF n
          <5> QED BY <1>4, <2>2, <4>2
        <4> QED BY <4>1, <4>2
      <3> QED BY <1>1, <2>1, <2>3, <3>1 DEF Settled, Unmoved
    <2>4. ASSUME Waits(p, h) PROVE Settled(h)' \/ Awaited(h)'
      <3>1. CASE h \in todo[p]
        BY <1>1, <3>1, NextHostMoves DEF Awaited
      <3>2. CASE Carries(p, h)
        <4>1. h = n /\ draft[p] = HostAccessKeys(h) /\ num[p] = seq[h]
          BY <1>1, <3>2 DEF Carries
        <4>2. num[p] > view[n].seq
          BY SMT, <1>2, <1>3, <4>1
        <4>3. view'[h] = new
          <5> HIDE DEF n
          <5> QED BY <1>2, <1>4, <2>2, <4>1, <4>2
        <4> QED BY <1>1, <1>5, <2>1, <4>1, <4>3 DEF Settled, Unmoved
      <3> QED BY <1>1, <2>4, <3>1, <3>2 DEF Waits
    <2> QED BY <1>1, <2>1, <2>3, <2>4, NextHostMoves, HostKept
  <1> QED BY <1>6 DEF Settling

(* A failed push leaves its host among the missed. *)
LEMMA PushFailsKeeps ==
  ASSUME TypeOK, Settling, NEW p \in Handlers, PushFails(p)
  PROVE  Settling'
  <1>1. UNCHANGED <<grants, members, ustatus, owner, seq, view>>
    BY DEF PushFails, dbVars, hosts
  <1>2. PICK n :
          /\ missed' = missed \cup {n}
          /\ pc[p] \in {"push", "number", "send"}
          /\ pc[p] # "push" => scope[p] = n
          /\ pc'[p] = "push" /\ todo[p] \ {n} \subseteq todo'[p]
          /\ \A q \in Handlers \ {p} :
                /\ pc'[q] = pc[q] /\ scope'[q] = scope[q] /\ todo'[q] = todo[q]
                /\ draft'[q] = draft[q] /\ num'[q] = num[q]
    <2>1. CASE pc[p] = "push"
      <3>1. PICK n \in todo[p] :
              At(p, "push", NoUser, todo[p] \ {n}) /\ missed' = missed \cup {n}
        BY <2>1 DEF PushFails
      <3>2. draft' = draft /\ num' = num /\ HandlerType
        BY <2>1 DEF PushFails, paper, TypeOK
      <3>3. /\ pc'[p] = "push" /\ todo'[p] = todo[p] \ {n}
            /\ \A q \in Handlers \ {p} :
                  pc'[q] = pc[q] /\ scope'[q] = scope[q] /\ todo'[q] = todo[q]
        <4> DEFINE left == todo[p] \ {n}
        <4>1. HandlerType /\ At(p, "push", NoUser, left)
          BY <3>1, <3>2
        <4> HIDE DEF left
        <4>2. /\ pc'[p] = "push" /\ todo'[p] = left
              /\ \A q \in Handlers \ {p} :
                    pc'[q] = pc[q] /\ scope'[q] = scope[q] /\ todo'[q] = todo[q]
          BY <4>1 DEF At, HandlerType
        <4> QED BY <4>2 DEF left
      <3> QED BY <2>1, <3>1, <3>2, <3>3
    <2>2. CASE pc[p] \in {"number", "send"}
      <3>1. NextHost(p) /\ missed' = missed \cup {scope[p]}
        BY <2>2 DEF PushFails
      <3> QED BY <2>2, <3>1, NextHostMoves
    <2> QED BY <2>1, <2>2 DEF PushFails
  <1>3. ASSUME NEW h \in Hosts PROVE Settled(h)' \/ Awaited(h)' \/ h \in missed'
    <2>1. Unmoved(h)
      BY <1>1, SameTables DEF Unmoved
    <2>2. Settled(h) => Settled(h)'
      BY <1>1, <2>1 DEF Settled, Unmoved
    <2>3. ASSUME Waits(p, h), h # n PROVE Awaited(h)'
      <3>1. h \in todo[p]
        BY <1>2, <2>3 DEF Waits, Carries
      <3> QED BY <1>2, <2>3, <3>1 DEF Awaited
    <2> QED BY <1>1, <1>2, <2>1, <2>2, <2>3, HostKept
  <1> QED BY <1>3 DEF Settling

(* A crash leaves what every handler still owed among the missed. *)
LEMMA CrashKeeps == TypeOK /\ Settling /\ Crash => Settling'
  <1> SUFFICES ASSUME TypeOK, Settling, Crash, NEW h \in Hosts
               PROVE  Settled(h)' \/ h \in missed'
    BY DEF Settling
  <1>1. UNCHANGED <<grants, members, ustatus, owner, seq, view>>
    BY DEF Crash, dbVars, hosts
  <1>2. Settled(h) => Settled(h)'
    BY <1>1, SameTables DEF Settled
  <1>3. ASSUME NEW q \in Handlers, Waits(q, h) PROVE h \in Owed(q)
    BY <1>3 DEF Waits, Carries, Owed
  <1>4. missed \subseteq missed' /\ \A q \in Handlers : Owed(q) \subseteq missed'
    BY DEF Crash
  <1> QED BY <1>2, <1>3, <1>4 DEF Settling, Awaited, Waits

(* CreateGroup, the lookups before a commit and a failed commit move no host  *)
(* and the handler had nothing to push.                                       *)
LEMMA NoStepKeeps ==
  ASSUME TypeOK, Settling, NEW p \in Handlers,
         \/ CreateGroup(p) \/ SuspendUser(p) \/ RemoveUser(p)
         \/ DeleteGroup(p) \/ CommitFails(p)
  PROVE  Settling'
  <1>1. /\ UNCHANGED <<grants, members, ustatus, owner, paper, hosts, missed>>
        /\ pc[p] \notin {"push", "read", "number", "send"}
    BY DEF CreateGroup, SuspendUser, RemoveUser, DeleteGroup, CommitFails, Begin, Request, dbVars
  <1>2. \A h \in Hosts : Unmoved(h)
    BY <1>1, SameTables DEF Unmoved
  <1>3. \A q \in Handlers \ {p} :
          pc'[q] = pc[q] /\ scope'[q] = scope[q] /\ todo'[q] = todo[q]
    BY AtMoves DEF TypeOK, CreateGroup, SuspendUser, RemoveUser, DeleteGroup, CommitFails, Begin
  <1> QED BY <1>1, <1>2, <1>3, Kept

(* Every step of the module keeps the hosts settled, awaited or missed.       *)
LEMMA StepSettling ==
  ASSUME TypeOK, TypeOK', Numbered, Settling, [Next]_vars
  PROVE  Settling'
  <1>1. CASE UNCHANGED vars
    <2>1. UNCHANGED <<grants, members, ustatus, owner, pc, scope, todo, draft, num, seq, view, missed>>
      BY <1>1 DEF vars, dbVars, paper, hosts
    <2>2. ASSUME NEW h \in Hosts PROVE Settled(h)' \/ Awaited(h)' \/ h \in missed'
      <3>1. Unmoved(h)
        BY <2>1, SameTables DEF Unmoved
      <3>2. Settled(h) => Settled(h)'
        BY <2>1, <3>1 DEF Settled, Unmoved
      <3>3. \A q \in Handlers : Waits(q, h) => Awaited(h)'
        BY <2>1, <3>1, StillWaits
      <3> QED BY <2>1, <3>2, <3>3 DEF Settling, Awaited, Waits
    <2> QED BY <2>2 DEF Settling
  <1> QED
    BY <1>1, CreateGrantKeeps, RevokeGrantKeeps, UserStepKeeps, MemberStepKeeps,
       BlockUserKeeps, DeleteGroupKeeps, LookupKeeps, BuildKeeps, EnvelopeKeeps,
       HubPushKeeps, PushFailsKeeps, CrashKeeps, NoStepKeeps DEF Next

-----------------------------------------------------------------------------
(* The numbers stay apart when no list is newly on its way and the hosts hold *)
(* what they held.                                                            *)
LEMMA NumberedKept ==
  ASSUME Numbered, seq' = seq, view' = view,
         \A q \in Handlers : pc'[q] = "send" =>
            pc[q] = "send" /\ scope'[q] = scope[q] /\ num'[q] = num[q]
  PROVE  Numbered'
  BY DEF Numbered

(* The same for a handler that moves to another place than "send".            *)
LEMMA NumberedAt ==
  ASSUME TypeOK, Numbered, NEW p \in Handlers, NEW where, NEW x, NEW left,
         At(p, where, x, left), where # "send", seq' = seq, view' = view, num' = num
  PROVE  Numbered'
  <1>1. HandlerType
    BY DEF TypeOK
  <1>2. /\ pc'[p] = where
        /\ \A q \in Handlers \ {p} : pc'[q] = pc[q] /\ scope'[q] = scope[q]
    BY <1>1, AtMoves
  <1>3. \A q \in Handlers : pc'[q] = "send" =>
            pc[q] = "send" /\ scope'[q] = scope[q] /\ num'[q] = num[q]
    BY <1>2
  <1> QED BY <1>3, NumberedKept

(* Every step of the module keeps the numbers apart: snapshotEnvelope takes a *)
(* number above all others, and a number that is pushed is no longer on its   *)
(* way.                                                                       *)
LEMMA StepNumbered == ASSUME TypeOK, Numbered, [Next]_vars PROVE Numbered'
  <1>1. ASSUME NEW p \in Handlers,
               \/ CreateGrant(p) \/ RevokeGrant(p) \/ ActivateUser(p) \/ AddKey(p)
               \/ DeleteKey(p) \/ AddGroupResource(p) \/ RemoveGroupResource(p)
        PROVE  Numbered'
    <2>1. UNCHANGED <<num, seq, view>>
      BY <1>1 DEF CreateGrant, RevokeGrant, ActivateUser, AddKey, DeleteKey,
                  AddGroupResource, RemoveGroupResource, paper, hosts
    <2>2. \E where \in {"read", "push"} : \E x, left : At(p, where, x, left)
      BY <1>1 DEF CreateGrant, RevokeGrant, ActivateUser, AddKey, DeleteKey,
                  AddGroupResource, RemoveGroupResource, PushGrant
    <2> QED BY <2>1, <2>2, NumberedAt
  <1>2. ASSUME NEW p \in Handlers, CreateGroup(p) PROVE Numbered'
    BY <1>2, NumberedKept DEF CreateGroup, paper, hosts
  <1>3. ASSUME NEW p \in Handlers, SuspendUser(p) \/ RemoveUser(p) \/ DeleteGroup(p)
        PROVE  Numbered'
    <2>1. PICK where \in {"suspend", "remove", "delete"}, x \in Users \cup Groups : Begin(p, where, x)
      BY <1>3 DEF SuspendUser, RemoveUser, DeleteGroup
    <2>2. UNCHANGED <<num, seq, view>> /\ \E left : At(p, where, x, left)
      BY <2>1 DEF Begin, paper, hosts
    <2> QED BY <2>2, NumberedAt
  <1>4. ASSUME NEW p \in Handlers,
               \/ ReadHosts(p) \/ CommitSuspend(p) \/ CommitRemove(p) \/ CommitDelete(p)
               \/ Finish(p) \/ ReadFails(p) \/ CommitFails(p)
        PROVE  Numbered'
    <2>1. UNCHANGED <<num, seq, view>>
      BY <1>4 DEF ReadHosts, CommitSuspend, CommitRemove, CommitDelete, Finish, ReadFails,
                  CommitFails, paper, hosts
    <2>2. \E where \in {"push", "idle"} : \E x, left : At(p, where, x, left)
      BY <1>4 DEF ReadHosts, CommitSuspend, CommitRemove, CommitDelete, Finish, ReadFails,
                  CommitFails
    <2> QED BY <2>1, <2>2, NumberedAt
  <1>5. ASSUME NEW p \in Handlers, BuildSnapshot(p) PROVE Numbered'
    BY <1>5, NumberedAt DEF BuildSnapshot, hosts
  <1>6. ASSUME NEW p \in Handlers, SnapshotEnvelope(p) PROVE Numbered'
    <2> DEFINE n == scope[p]
    <2>1. /\ seq' = [seq EXCEPT ![n] = @ + 1] /\ view' = view
          /\ num' = [num EXCEPT ![p] = seq[n] + 1]
          /\ At(p, "send", n, todo[p]) /\ pc[p] = "number"
      BY <1>6 DEF SnapshotEnvelope
    <2>2. n \in Hosts /\ HandlerType
      BY <2>1 DEF TypeOK, HandlerType
    <2>3. /\ seq \in [Hosts -> Nat] /\ num \in [Handlers -> Nat]
          /\ \A h \in Hosts : view[h].seq \in Nat /\ view[h].seq <= seq[h]
      BY DEF TypeOK, PushType, Numbered
    <2>4. /\ pc'[p] = "send" /\ scope'[p] = n
          /\ \A q \in Handlers \ {p} : pc'[q] = pc[q] /\ scope'[q] = scope[q]
      BY <2>1, <2>2, AtMoves
    <2> HIDE DEF n
    <2>5. /\ num'[p] = seq[n] + 1 /\ seq'[n] = seq[n] + 1
          /\ \A q \in Handlers \ {p} : num'[q] = num[q]
          /\ \A h \in Hosts \ {n} : seq'[h] = seq[h]
      BY <2>1, <2>2, <2>3
    <2>6. \A h \in Hosts : view'[h].seq <= seq'[h] /\ seq[h] <= seq'[h]
      BY SMT, <2>1, <2>3, <2>5
    <2>7. ASSUME NEW q \in Handlers, pc'[q] = "send"
          PROVE  num'[q] <= seq'[scope'[q]] /\ num'[q] # view'[scope'[q]].seq
      <3>1. CASE q = p
        BY SMT, <2>1, <2>2, <2>3, <2>4, <2>5, <3>1
      <3>2. CASE q # p
        <4>1. /\ pc[q] = "send" /\ scope'[q] = scope[q] /\ num'[q] = num[q]
              /\ scope[q] \in Hosts
          BY <2>2, <2>4, <2>5, <2>7, <3>2 DEF HandlerType
        <4>2. num[q] <= seq[scope[q]] /\ num[q] # view[scope[q]].seq
          BY <4>1 DEF Numbered
        <4>3. seq'[scope[q]] \in Nat
          BY SMT, <2>1, <2>2, <2>3, <4>1
        <4> QED BY SMT, <2>1, <2>3, <2>6, <4>1, <4>2, <4>3
      <3> QED BY <3>1, <3>2
    <2>8. ASSUME NEW q \in Handlers \ {p}, pc'[q] = "send", scope'[q] = n
          PROVE  num'[q] # num'[p]
      <3>1. pc[q] = "send" /\ scope[q] = n /\ num'[q] = num[q]
        BY <2>4, <2>5, <2>8
      <3>2. num[q] <= seq[n]
        BY <3>1 DEF Numbered
      <3> QED BY SMT, <2>2, <2>3, <2>5, <3>1, <3>2
    <2>9. ASSUME NEW q \in Handlers, NEW r \in Handlers, pc'[q] = "send", pc'[r] = "send",
                 scope'[q] = scope'[r], num'[q] = num'[r]
          PROVE  q = r
      <3>1. CASE q = p \/ r = p
        BY <2>4, <2>8, <2>9, <3>1
      <3>2. CASE q # p /\ r # p
        <4>1. /\ pc[q] = "send" /\ scope[q] = scope'[q] /\ num[q] = num'[q]
              /\ pc[r] = "send" /\ scope[r] = scope'[r] /\ num[r] = num'[r]
          BY <2>4, <2>5, <2>9, <3>2
        <4> QED BY <2>9, <4>1 DEF Numbered
      <3> QED BY <3>1, <3>2
    <2> QED BY <2>6, <2>7, <2>9 DEF Numbered
  <1>7. ASSUME NEW p \in Handlers, HubPush(p) PROVE Numbered'
    <2> DEFINE n == scope[p]
               new == [seq |-> num[p], keys |-> draft[p]]
    <2>1. /\ view' = view \/ view' = [view EXCEPT ![n] = new]
          /\ NextHost(p) /\ seq' = seq /\ pc[p] = "send" /\ new.seq = num[p]
      BY <1>7 DEF HubPush
    <2>2. /\ view \in [Hosts -> [seq : Nat, keys : SUBSET Keys]]
          /\ n \in Hosts /\ num[p] <= seq[n]
      BY <2>1 DEF TypeOK, HandlerType, PushType, Numbered
    <2>3. /\ pc'[p] = "push"
          /\ \A q \in Handlers \ {p} :
                pc'[q] = pc[q] /\ scope'[q] = scope[q] /\ num'[q] = num[q]
      BY <2>1, NextHostMoves
    <2> HIDE DEF n, new
    <2>4. \A h \in Hosts : view'[h] = view[h] \/ (h = n /\ view'[h] = new)
      BY <2>1, <2>2
    <2>5. \A h \in Hosts : view'[h].seq <= seq'[h]
      BY <2>1, <2>2, <2>4 DEF Numbered
    <2>6. ASSUME NEW q \in Handlers, pc'[q] = "send"
          PROVE  num'[q] <= seq'[scope'[q]] /\ num'[q] # view'[scope'[q]].seq
      <3>1. /\ q # p /\ pc[q] = "send" /\ scope'[q] = scope[q] /\ num'[q] = num[q]
            /\ scope[q] \in Hosts
        BY <2>3, <2>6 DEF TypeOK, HandlerType
      <3>2. num[q] <= seq[scope[q]] /\ num[q] # view[scope[q]].seq
        BY <3>1 DEF Numbered
      <3>3. scope[q] = n => num[q] # num[p]
        BY <2>1, <3>1 DEF Numbered, n
      <3> QED BY <2>1, <2>4, <3>1, <3>2, <3>3
    <2>7. ASSUME NEW q \in Handlers, NEW r \in Handlers, pc'[q] = "send", pc'[r] = "send",
                 scope'[q] = scope'[r], num'[q] = num'[r]
          PROVE  q = r
      BY <2>3, <2>7 DEF Numbered
    <2> QED BY <2>5, <2>6, <2>7 DEF Numbered
  <1>8. ASSUME NEW p \in Handlers, PushFails(p) PROVE Numbered'
    <2>1. seq' = seq /\ view' = view
      BY <1>8 DEF PushFails, hosts
    <2>2. CASE pc[p] = "push"
      <3>1. num' = num /\ \E left : At(p, "push", NoUser, left)
        BY <1>8, <2>2 DEF PushFails, paper
      <3> QED BY <2>1, <3>1, NumberedAt
    <2>3. CASE pc[p] \in {"number", "send"}
      <3>1. NextHost(p)
        BY <1>8, <2>3 DEF PushFails
      <3>2. \A q \in Handlers : pc'[q] = "send" =>
              q # p /\ pc[q] = "send" /\ scope'[q] = scope[q] /\ num'[q] = num[q]
        BY <3>1, NextHostMoves
      <3> QED BY <2>1, <3>2, NumberedKept
    <2> QED BY <1>8, <2>2, <2>3 DEF PushFails
  <1>9. CASE Crash
    BY <1>9, NumberedKept DEF Crash, hosts
  <1>10. CASE UNCHANGED vars
    BY <1>10, NumberedKept DEF vars, paper, hosts
  <1> QED
    BY <1>1, <1>2, <1>3, <1>4, <1>5, <1>6, <1>7, <1>8, <1>9, <1>10 DEF Next

(* In all reachable states the hosts are settled, awaited or missed. *)
LEMMA AlwaysSettling == Spec => []Settling
  <1>1. Init => Settling /\ Numbered
    <2> SUFFICES ASSUME Init PROVE Settling /\ Numbered
      OBVIOUS
    <2>1. \A h \in Hosts : view[h].seq = seq[h] /\ view[h].keys = HostAccessKeys(h) /\ seq[h] = 0
      BY SMT DEF Init
    <2>2. \A q \in Handlers : pc[q] = "idle"
      BY DEF Init
    <2> QED BY SMT, <2>1, <2>2 DEF Settling, Settled, Numbered
  <1>2. TypeOK /\ TypeOK' /\ Settling /\ Numbered /\ [Next]_vars => (Settling /\ Numbered)'
    BY StepSettling, StepNumbered
  <1> QED BY <1>1, <1>2, TypeCorrect, PTL DEF Spec

(* However requests overlap and fail, a host that does not hold its current   *)
(* list is awaited by a handler that carries that list or has still to read   *)
(* it, or was missed: by a commit (handleSuspendUser, handleRemoveUser,       *)
(* handleDeleteGroup), by a failure, or because pushSnapshot gave the newest  *)
(* number to a list read before the last change.                              *)
THEOREM StaleAwaited == Spec => []StaleIsAwaited
  <1>1. Settling => StaleIsAwaited
    BY DEF Settling, Settled, StaleIsAwaited
  <1> QED BY <1>1, AlwaysSettling, PTL

-----------------------------------------------------------------------------
(* While one request at most has been made and nothing failed, no host is    *)
(* missed, one handler at most is busy, and what it captured before its      *)
(* commit, or read for a push, is what the tables still say.                 *)
Captured(p) ==
    /\ pc[p] \in {"suspend", "remove", "delete"} => todo[p] = Affected(scope[p])
    /\ pc[p] = "number" => draft[p] = HostAccessKeys(scope[p])
Alone ==
    ops <= 1 /\ faults = 0 =>
        /\ missed = {}
        /\ ops = 0 => Idle
        /\ \A p, q \in Handlers : pc[p] # "idle" /\ pc[q] # "idle" => p = q
        /\ \A p \in Handlers : Captured(p)

(* A handler that moves while the others are idle is the only busy one after *)
(* it, and has captured what matters if it has still to commit.              *)
LEMMA AloneAfter ==
  ASSUME TypeOK, NEW p \in Handlers, \A q \in Handlers \ {p} : pc[q] = "idle",
         NEW where \in Place, NEW x, NEW left, At(p, where, x, left),
         where \in {"suspend", "remove", "delete"} => left = Affected(x)',
         where = "number" => draft'[p] = HostAccessKeys(x)',
         ops' = 1, missed' = {}
  PROVE  Alone'
  <1>1. /\ \A q \in Handlers \ {p} : pc'[q] = "idle"
        /\ pc'[p] = where /\ scope'[p] = x /\ todo'[p] = left
    BY DEF TypeOK, HandlerType, At
  <1>2. Captured(p)'
    BY <1>1 DEF Captured, Affected, GroupHostIDs, UserGrantedHostIDs, HostAccessKeys
  <1>3. \A q \in Handlers \ {p} : Captured(q)'
    BY <1>1 DEF Captured
  <1> QED BY SMT, <1>1, <1>2, <1>3 DEF Alone

(* The first request starts with every handler idle. *)
LEMMA RequestAlone ==
  ASSUME TypeOK, Alone, NEW p \in Handlers, Request(p), ops' <= 1, faults = 0
  PROVE  ops' = 1 /\ missed = {} /\ \A q \in Handlers : pc[q] = "idle"
  BY SMT DEF TypeOK, Request, Alone, Idle

(* A busy handler is the only one, its commit overlooks no host, and the list *)
(* it is about to number is current.                                          *)
LEMMA BusyAlone ==
  ASSUME TypeOK, Alone, NEW p \in Handlers, pc[p] # "idle", ops <= 1, faults = 0
  PROVE  /\ ops = 1 /\ missed = {}
         /\ \A q \in Handlers \ {p} : pc[q] = "idle"
         /\ pc[p] \in {"suspend", "remove", "delete"} => Overlooked(p) = {}
         /\ pc[p] = "number" => draft[p] = HostAccessKeys(scope[p])
  <1>1. ops # 0 /\ ops \in Nat
    BY DEF Alone, Idle, TypeOK
  <1>2. Captured(p) /\ \A q \in Handlers : pc[q] # "idle" => p = q
    BY DEF Alone
  <1> QED BY SMT, <1>1, <1>2 DEF Alone, Captured, Overlooked

(* Every step keeps the request alone. *)
LEMMA StepAlone == TypeOK /\ TypeOK' /\ Alone /\ [Next]_vars => Alone'
  <1> SUFFICES ASSUME TypeOK, TypeOK', Alone, [Next]_vars, ops' <= 1, faults' = 0
               PROVE  Alone'
    BY DEF Alone
  <1>0. /\ {"idle", "read", "push", "suspend", "remove", "delete", "number", "send"} \subseteq Place
        /\ faults \in Nat /\ ops \in Nat
    BY DEF Place, TypeOK
  <1>1. ASSUME NEW p \in Handlers,
               \/ CreateGrant(p) \/ RevokeGrant(p) \/ ActivateUser(p) \/ AddKey(p)
               \/ DeleteKey(p) \/ AddGroupResource(p) \/ RemoveGroupResource(p)
        PROVE  Alone'
    <2>1. Request(p) /\ faults = 0 /\ missed' = missed
      BY <1>1 DEF CreateGrant, RevokeGrant, ActivateUser, AddKey, DeleteKey,
                  AddGroupResource, RemoveGroupResource
    <2>2. \E where \in {"read", "push"} : \E x, left : At(p, where, x, left)
      BY <1>1 DEF CreateGrant, RevokeGrant, ActivateUser, AddKey, DeleteKey,
                  AddGroupResource, RemoveGroupResource, PushGrant
    <2> QED BY <1>0, <2>1, <2>2, RequestAlone, AloneAfter
  <1>2. ASSUME NEW p \in Handlers, CreateGroup(p) PROVE Alone'
    <2>1. Request(p) /\ faults = 0 /\ missed' = missed /\ pc' = pc
      BY <1>2 DEF CreateGroup
    <2> QED BY SMT, <2>1, RequestAlone DEF Alone, Captured
  <1>3. ASSUME NEW p \in Handlers, SuspendUser(p) \/ RemoveUser(p) \/ DeleteGroup(p)
        PROVE  Alone'
    <2>1. PICK where \in {"suspend", "remove", "delete"}, x \in Users \cup Groups :
            Begin(p, where, x)
      BY <1>3 DEF SuspendUser, RemoveUser, DeleteGroup
    <2>2. /\ Request(p) /\ faults = 0 /\ missed' = missed
          /\ At(p, where, x, Affected(x)) /\ UNCHANGED <<grants, members, ustatus, owner>>
      BY SMT, <1>0, <2>1 DEF Begin, Capture, Fault, dbVars
    <2>3. Affected(x) = Affected(x)'
      BY <2>2, SameTables
    <2> QED BY <1>0, <2>2, <2>3, RequestAlone, AloneAfter
  <1>4. ASSUME NEW p \in Handlers, CommitSuspend(p) \/ CommitRemove(p) \/ CommitDelete(p)
        PROVE  Alone'
    <2>1. /\ pc[p] \in {"suspend", "remove", "delete"} /\ ops' = ops /\ faults' = faults
          /\ missed' \in {missed, missed \cup Overlooked(p)}
      BY <1>4 DEF CommitSuspend, CommitRemove, CommitDelete
    <2>2. \E where \in {"idle", "push"} : \E x, left : At(p, where, x, left)
      BY <1>4 DEF CommitSuspend, CommitRemove, CommitDelete
    <2>3. /\ ops = 1 /\ missed = {} /\ Overlooked(p) = {}
          /\ \A q \in Handlers \ {p} : pc[q] = "idle"
      BY <2>1, BusyAlone
    <2> QED BY <1>0, <2>1, <2>2, <2>3, AloneAfter
  <1>5. ASSUME NEW p \in Handlers,
               ReadHosts(p) \/ SnapshotEnvelope(p) \/ HubPush(p) \/ Finish(p)
        PROVE  Alone'
    <2>1. pc[p] # "idle" /\ ops' = ops /\ faults' = faults
      BY <1>5 DEF ReadHosts, SnapshotEnvelope, HubPush, Finish
    <2>2. \E where \in {"idle", "push", "send"} : \E x, left : At(p, where, x, left)
      BY <1>5 DEF ReadHosts, SnapshotEnvelope, HubPush, NextHost, Finish
    <2>3. /\ ops = 1 /\ missed = {}
          /\ \A q \in Handlers \ {p} : pc[q] = "idle"
          /\ pc[p] = "number" => draft[p] = HostAccessKeys(scope[p])
      BY <2>1, BusyAlone
    <2>4. missed' = {}
      BY <1>5, <2>3 DEF ReadHosts, SnapshotEnvelope, HubPush, Finish
    <2> QED BY <1>0, <2>1, <2>2, <2>3, <2>4, AloneAfter
  <1>6. ASSUME NEW p \in Handlers, BuildSnapshot(p) PROVE Alone'
    <2>1. /\ pc[p] = "push" /\ ops' = ops /\ faults' = faults /\ missed' = missed
          /\ UNCHANGED <<grants, members, ustatus, owner>>
      BY <1>6 DEF BuildSnapshot, dbVars
    <2>2. PICK h \in todo[p] : /\ draft' = [draft EXCEPT ![p] = HostAccessKeys(h)]
                               /\ At(p, "number", h, todo[p] \ {h})
      BY <1>6 DEF BuildSnapshot
    <2>3. draft'[p] = HostAccessKeys(h) /\ h \in Hosts
      <3>1. draft \in [Handlers -> SUBSET Keys] /\ todo[p] \in SUBSET Hosts
        BY DEF TypeOK, PushType, HandlerType
      <3> QED BY <2>2, <3>1
    <2>4. draft'[p] = HostAccessKeys(h)'
      BY <2>1, <2>3, SameTables
    <2>5. /\ ops = 1 /\ missed = {}
          /\ \A q \in Handlers \ {p} : pc[q] = "idle"
      BY <2>1, BusyAlone
    <2>6. "number" \in Place /\ ops' = 1 /\ missed' = {}
      BY <1>0, <2>1, <2>5
    <2> QED BY <2>2, <2>4, <2>5, <2>6, AloneAfter
  <1>7. ASSUME NEW p \in Handlers,
               PushFails(p) \/ ReadFails(p) \/ CommitFails(p) \/ Crash
        PROVE  FALSE
    BY SMT, <1>0, <1>7 DEF PushFails, ReadFails, CommitFails, Crash, Fault
  <1>8. CASE Crash
    BY SMT, <1>0, <1>8 DEF Crash, Fault
  <1>9. CASE UNCHANGED vars
    <2>2. UNCHANGED <<pc, scope, todo, missed, ops, faults>>
      BY <1>9 DEF vars
    <2>3. UNCHANGED <<grants, members, ustatus, owner, draft>>
      BY <1>9 DEF vars, dbVars, paper
    <2>4. ASSUME NEW q \in Handlers, Captured(q) PROVE Captured(q)'
      <3>1. Affected(scope[q])' = Affected(scope[q])
        BY <2>2, <2>3 DEF Affected, GroupHostIDs, UserGrantedHostIDs, Live, Reaches
      <3>2. HostAccessKeys(scope[q])' = HostAccessKeys(scope[q])
        BY <2>2, <2>3 DEF HostAccessKeys, Live, Reaches
      <3> QED BY <2>2, <2>3, <2>4, <3>1, <3>2 DEF Captured
    <2> QED BY <2>2, <2>4 DEF Alone, Idle
  <1> QED
    BY <1>1, <1>2, <1>3, <1>4, <1>5, <1>6, <1>7, <1>8, <1>9 DEF Next

(* A request alone and without failures, of whatever kind and from whatever   *)
(* quiet state, leaves every host with the list the tables give it            *)
(* (handleDeleteGroup, handleSuspendUser and handleRemoveUser, which look     *)
(* the hosts up before they commit, and the handlers that do so after).       *)
THEOREM AllPushed == Spec => []PushedEverywhere
  <1>1. Init => Alone
    BY DEF Init, Alone, Idle, Captured
  <1>2. StaleIsAwaited /\ Alone => PushedEverywhere
    BY DEF StaleIsAwaited, Alone, PushedEverywhere, Awaited, Carries, Idle
  <1> QED
    BY <1>1, <1>2, StepAlone, TypeCorrect, StaleAwaited, PTL DEF Spec
=============================================================================
