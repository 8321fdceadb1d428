----------------------------- MODULE HostGrants -----------------------------
(***************************************************************************)
(* Who may log in where, and which hosts are told when that changes: the   *)
(* host.access grants, group membership, users' status and keys, and the   *)
(* handlers that change them and push a snapshot to the affected hosts.    *)
(*                                                                         *)
(* A handler's statements are steps of their own, so other requests run    *)
(* between them: a list may be read before another is and numbered after.  *)
(* A transaction is one step.  What happens to a pushed list on its way to *)
(* the daemon is AccessSync's subject: here the list with the highest      *)
(* number pushed counts.  The caller's permission is taken as given.       *)
(***************************************************************************)
EXTENDS Naturals

CONSTANTS
    Users, Hosts, Groups, Keys,
    NoUser,       \* nobody: the owner of a key not registered
    GrantIds,     \* rows of the grants table that may be live at a time
    NoGrant,      \* a row that is absent or revoked
    Handlers,     \* concurrent HTTP request goroutines
    MaxOps,       \* bound: requests
    MaxFaults     \* bound: failed queries and crashes

ASSUME KindAssumption ==
    /\ Users \cap Groups = {} /\ Hosts \cap Groups = {}
    /\ NoUser \notin Users \cup Groups
ASSUME LimitAssumption == MaxOps \in Nat /\ MaxFaults \in Nat

VARIABLES
    grants,    \* live host.access grants
    members,   \* group_resources of kind host
    gstate,    \* each group is still to be created, live or deleted
    ustatus,   \* users.status
    owner,     \* public_keys.user_id
    pc,        \* where each handler is
    scope,     \* the user, group or host each handler works on
    todo,      \* the hosts each handler still has to push to
    draft,     \* the list each handler has read for the host it works on
    num,       \* the number it has taken for that list
    seq,       \* hosts.last_seq
    view,      \* the list each host holds, and its number
    ops, faults,
    missed     \* history: hosts that a change or a failure left without a push,
               \* or whose newest number went to a list that was out of date

dbVars == <<grants, members, gstate, ustatus, owner>>
paper == <<draft, num>>
hosts == <<seq, view>>
vars == <<dbVars, pc, scope, todo, paper, hosts, ops, faults, missed>>

Grant == [user : Users, target : Hosts \cup Groups]
ASSUME NoGrantAssumption == NoGrant \notin Grant
Status == {"active", "suspended", "removed"}

Place == {"idle", "suspend", "remove", "delete", "read", "push", "number", "send"}

(* A handler stopped before its commit works on a user or on a group, and   *)
(* one in the middle of a push on a host.                                   *)
HandlerType ==
    /\ pc \in [Handlers -> Place]
    /\ scope \in [Handlers -> Users \cup Groups \cup Hosts \cup {NoUser}]
    /\ todo \in [Handlers -> SUBSET Hosts]
    /\ \A p \in Handlers :
        /\ pc[p] \in {"suspend", "remove"} => scope[p] \in Users
        /\ pc[p] = "delete" => scope[p] \in Groups
        /\ pc[p] \in {"number", "send"} => scope[p] \in Hosts

PushType ==
    /\ draft \in [Handlers -> SUBSET Keys] /\ num \in [Handlers -> Nat]
    /\ seq \in [Hosts -> Nat] /\ view \in [Hosts -> [seq : Nat, keys : SUBSET Keys]]

(* The tables, handlers and lists have their shapes, and only live groups   *)
(* have members: handleDeleteGroup leaves no row of group_resources behind. *)
TypeOK ==
    /\ grants \in [GrantIds -> Grant \cup {NoGrant}]
    /\ members \in SUBSET (Groups \X Hosts)
    /\ gstate \in [Groups -> {"new", "live", "deleted"}]
    /\ ustatus \in [Users -> Status]
    /\ owner \in [Keys -> Users \cup {NoUser}]
    /\ HandlerType
    /\ PushType
    /\ ops \in Nat /\ faults \in Nat
    /\ missed \in SUBSET Hosts
    /\ \A m \in members : gstate[m[1]] = "live"

-----------------------------------------------------------------------------
(* The queries.                                                             *)

Live == {grants[i] : i \in GrantIds} \ {NoGrant}
GroupHostIDs(g) == {h \in Hosts : <<g, h>> \in members}
Reaches(gr, h) == gr.target = h \/ <<gr.target, h>> \in members

UserGrantedHostIDs(u) ==
    {h \in Hosts : \E gr \in Live : gr.user = u /\ Reaches(gr, h)}

HostAccessKeys(h) ==
    {k \in Keys : \E gr \in Live :
        /\ owner[k] = gr.user /\ ustatus[gr.user] = "active"
        /\ Reaches(gr, h)}

(* The hosts a handler looks up for the user or group it works on.          *)
Affected(x) == IF x \in Groups THEN GroupHostIDs(x) ELSE UserGrantedHostIDs(x)

(* A group's id is known once the group is created. *)
Known == Hosts \cup {g \in Groups : gstate[g] # "new"}

(* A quiet system: any contents of the tables, every host up to date.       *)
Init ==
    /\ gstate \in [Groups -> {"new", "live", "deleted"}]
    /\ grants \in [GrantIds -> {gr \in Grant : gr.target \in Known} \cup {NoGrant}]
    /\ members \in SUBSET ({g \in Groups : gstate[g] = "live"} \X Hosts)
    /\ ustatus \in [Users -> Status]
    /\ owner \in [Keys -> Users \cup {NoUser}]
    /\ pc = [p \in Handlers |-> "idle"]
    /\ scope = [p \in Handlers |-> NoUser]
    /\ todo = [p \in Handlers |-> {}]
    /\ draft = [p \in Handlers |-> {}] /\ num = [p \in Handlers |-> 0]
    /\ seq = [h \in Hosts |-> 0]
    /\ view = [h \in Hosts |-> [seq |-> 0, keys |-> HostAccessKeys(h)]]
    /\ ops = 0 /\ faults = 0
    /\ missed = {}

Idle == \A p \in Handlers : pc[p] = "idle"
Request(p) == pc[p] = "idle" /\ ops < MaxOps /\ ops' = ops + 1
Fault == faults < MaxFaults /\ faults' = faults + 1
At(p, where, x, left) ==
    /\ pc' = [pc EXCEPT ![p] = where]
    /\ scope' = [scope EXCEPT ![p] = x]
    /\ todo' = [todo EXCEPT ![p] = left]

-----------------------------------------------------------------------------
(* Requests that commit first and look the hosts up afterwards.             *)

(* pushIfHostGrant: a host target is pushed to, a group target looked up.   *)
PushGrant(p, target) ==
    IF target \in Hosts THEN At(p, "push", NoUser, {target})
                        ELSE At(p, "read", target, {})

CreateGrant(p) ==
    /\ Request(p)
    /\ \E i \in GrantIds, gr \in Grant :
        /\ grants[i] = NoGrant
        /\ gr.target \in Known
        /\ grants' = [grants EXCEPT ![i] = gr]
        /\ PushGrant(p, gr.target)
    /\ UNCHANGED <<members, gstate, ustatus, owner, paper, hosts, faults, missed>>

RevokeGrant(p) ==
    /\ Request(p)
    /\ \E i \in GrantIds :
        /\ grants[i] # NoGrant
        /\ grants' = [grants EXCEPT ![i] = NoGrant]
        /\ PushGrant(p, grants[i].target)
    /\ UNCHANGED <<members, gstate, ustatus, owner, paper, hosts, faults, missed>>

(* handleActivateUser does not look at the status it replaces.              *)
ActivateUser(p) ==
    /\ Request(p)
    /\ \E u \in Users :
        /\ ustatus' = [ustatus EXCEPT ![u] = "active"]
        /\ At(p, "read", u, {})
    /\ UNCHANGED <<grants, members, gstate, owner, paper, hosts, faults, missed>>

(* A fingerprint belongs to one user at most. *)
AddKey(p) ==
    /\ Request(p)
    /\ \E u \in Users, k \in Keys :
        /\ owner[k] = NoUser
        /\ owner' = [owner EXCEPT ![k] = u]
        /\ At(p, "read", u, {})
    /\ UNCHANGED <<grants, members, gstate, ustatus, paper, hosts, faults, missed>>

DeleteKey(p) ==
    /\ Request(p)
    /\ \E k \in Keys :
        /\ owner[k] # NoUser
        /\ owner' = [owner EXCEPT ![k] = NoUser]
        /\ At(p, "read", owner[k], {})
    /\ UNCHANGED <<grants, members, gstate, ustatus, paper, hosts, faults, missed>>

ReadHosts(p) ==
    /\ pc[p] = "read"
    /\ At(p, "push", NoUser, Affected(scope[p]))
    /\ UNCHANGED <<dbVars, paper, hosts, ops, faults, missed>>

-----------------------------------------------------------------------------
(* Group membership names the host itself.                                  *)

CreateGroup(p) ==
    /\ Request(p)
    /\ \E g \in Groups :
        /\ gstate[g] = "new"
        /\ gstate' = [gstate EXCEPT ![g] = "live"]
    /\ UNCHANGED <<grants, members, ustatus, owner, pc, scope, todo, paper, hosts, faults, missed>>

(* The foreign key refuses a group that is gone; a member already there is  *)
(* no error.                                                                *)
AddGroupResource(p) ==
    /\ Request(p)
    /\ \E g \in Groups, h \in Hosts :
        /\ gstate[g] = "live"
        /\ members' = members \cup {<<g, h>>}
        /\ At(p, "push", NoUser, {h})
    /\ UNCHANGED <<grants, gstate, ustatus, owner, paper, hosts, faults, missed>>

RemoveGroupResource(p) ==
    /\ Request(p)
    /\ \E m \in members :
        /\ members' = members \ {m}
        /\ At(p, "push", NoUser, {m[2]})
    /\ UNCHANGED <<grants, gstate, ustatus, owner, paper, hosts, faults, missed>>

-----------------------------------------------------------------------------
(* Requests that look the hosts up first and commit afterwards.             *)

CaptureNone(x) == {}
Capture(x) == Affected(x)

(* A failed lookup counts as no hosts, and the request goes on.             *)
Begin(p, where, x) ==
    /\ Request(p)
    /\ \/ At(p, where, x, Capture(x)) /\ UNCHANGED faults
       \/ At(p, where, x, {}) /\ Fault
    /\ UNCHANGED <<dbVars, paper, hosts, missed>>
SuspendUser(p) == \E u \in Users : Begin(p, "suspend", u)
RemoveUser(p)  == \E u \in Users : Begin(p, "remove", u)
DeleteGroup(p) == \E g \in Groups \cap Known : Begin(p, "delete", g)

(* History: the hosts the commit concerns and the handler does not know.    *)
Overlooked(p) == Affected(scope[p]) \ todo[p]

(* Membership rows cascade with their group. *)
CascadeKept(g) == members
Cascade(g) == {m \in members : m[1] # g}

CommitSuspend(p) ==
    /\ pc[p] = "suspend"
    /\ ustatus' = [ustatus EXCEPT ![scope[p]] = "suspended"]
    /\ UNCHANGED <<grants, members, gstate, owner>>
    /\ At(p, "push", NoUser, todo[p])
    /\ missed' = missed \cup Overlooked(p)
    /\ UNCHANGED <<paper, hosts, ops, faults>>

CommitRemove(p) ==
    /\ pc[p] = "remove"
    /\ ustatus' = [ustatus EXCEPT ![scope[p]] = "removed"]
    /\ grants' = [i \in GrantIds |->
                    IF grants[i] # NoGrant /\ grants[i].user = scope[p]
                    THEN NoGrant ELSE grants[i]]
    /\ UNCHANGED <<members, gstate, owner>>
    /\ At(p, "push", NoUser, todo[p])
    /\ missed' = missed \cup Overlooked(p)
    /\ UNCHANGED <<paper, hosts, ops, faults>>

(* A group that is gone already is not found, and nothing is pushed.        *)
CommitDelete(p) ==
    /\ pc[p] = "delete"
    /\ \/ /\ gstate[scope[p]] = "live"
          /\ gstate' = [gstate EXCEPT ![scope[p]] = "deleted"]
          /\ members' = Cascade(scope[p])
          /\ grants' = [i \in GrantIds |->
                          IF grants[i] # NoGrant /\ grants[i].target = scope[p]
                          THEN NoGrant ELSE grants[i]]
          /\ UNCHANGED <<ustatus, owner>>
          /\ At(p, "push", NoUser, todo[p])
          /\ missed' = missed \cup Overlooked(p)
       \/ /\ gstate[scope[p]] # "live"
          /\ At(p, "idle", NoUser, {})
          /\ UNCHANGED <<dbVars, missed>>
    /\ UNCHANGED <<paper, hosts, ops, faults>>

-----------------------------------------------------------------------------
(* pushSnapshot for one host of the list: it reads the list, ...            *)
BuildSnapshot(p) ==
    /\ pc[p] = "push"
    /\ \E h \in todo[p] :
        /\ draft' = [draft EXCEPT ![p] = HostAccessKeys(h)]
        /\ At(p, "number", h, todo[p] \ {h})
    /\ UNCHANGED <<dbVars, num, hosts, ops, faults, missed>>

(* ... takes the host's next number for it (history: the list is current or *)
(* it is not) ...                                                           *)
SnapshotEnvelope(p) ==
    LET h == scope[p] IN
    /\ pc[p] = "number"
    /\ seq' = [seq EXCEPT ![h] = @ + 1]
    /\ num' = [num EXCEPT ![p] = seq[h] + 1]
    /\ At(p, "send", h, todo[p])
    /\ missed' = IF draft[p] = HostAccessKeys(h) THEN missed \ {h} ELSE missed \cup {h}
    /\ UNCHANGED <<dbVars, draft, view, ops, faults>>

(* ... and pushes it.  The daemon drops a list whose number is not above    *)
(* that of the list it holds.                                               *)
AppliesAny(n, h) == TRUE
Applies(n, h) == n > view[h].seq

NextHost(p) ==
    /\ At(p, "push", NoUser, todo[p])
    /\ draft' = [draft EXCEPT ![p] = {}] /\ num' = [num EXCEPT ![p] = 0]

HubPush(p) ==
    LET h == scope[p] IN
    /\ pc[p] = "send"
    /\ view' = IF Applies(num[p], h)
               THEN [view EXCEPT ![h] = [seq |-> num[p], keys |-> draft[p]]] ELSE view
    /\ NextHost(p)
    /\ UNCHANGED <<dbVars, seq, ops, faults, missed>>

(* Every error of pushSnapshot is swallowed, a host that is not connected   *)
(* and a full buffer included.                                              *)
PushFails(p) ==
    /\ Fault
    /\ \/ /\ pc[p] = "push"
          /\ \E h \in todo[p] :
                /\ At(p, "push", NoUser, todo[p] \ {h})
                /\ missed' = missed \cup {h}
          /\ UNCHANGED paper
       \/ /\ pc[p] \in {"number", "send"}
          /\ NextHost(p)
          /\ missed' = missed \cup {scope[p]}
    /\ UNCHANGED <<dbVars, hosts, ops>>

Finish(p) ==
    /\ pc[p] = "push" /\ todo[p] = {}
    /\ At(p, "idle", NoUser, {})
    /\ UNCHANGED <<dbVars, paper, hosts, ops, faults, missed>>

(* A failed lookup after the commit counts as no hosts. *)
ReadFails(p) ==
    /\ pc[p] = "read"
    /\ Fault
    /\ At(p, "push", NoUser, {})
    /\ missed' = missed \cup Affected(scope[p])
    /\ UNCHANGED <<dbVars, paper, hosts, ops>>

(* The commit fails or finds nothing: the request ends and pushes nothing.  *)
CommitFails(p) ==
    /\ pc[p] \in {"suspend", "remove", "delete"}
    /\ Fault
    /\ At(p, "idle", NoUser, {})
    /\ UNCHANGED <<dbVars, paper, hosts, ops, missed>>

(* The process dies: what handlers had still to push is forgotten.          *)
Owed(p) ==
    CASE pc[p] = "push" -> todo[p]
      [] pc[p] \in {"number", "send"} -> todo[p] \cup {scope[p]}
      [] pc[p] = "read" -> Affected(scope[p])
      [] OTHER -> {}

Crash ==
    /\ Fault
    /\ pc' = [p \in Handlers |-> "idle"]
    /\ scope' = [p \in Handlers |-> NoUser]
    /\ todo' = [p \in Handlers |-> {}]
    /\ draft' = [p \in Handlers |-> {}] /\ num' = [p \in Handlers |-> 0]
    /\ missed' = missed \cup UNION {Owed(p) : p \in Handlers}
    /\ UNCHANGED <<dbVars, hosts, ops>>

Next ==
    \/ \E p \in Handlers :
        \/ CreateGrant(p) \/ RevokeGrant(p) \/ ActivateUser(p) \/ AddKey(p)
        \/ DeleteKey(p) \/ CreateGroup(p) \/ AddGroupResource(p)
        \/ RemoveGroupResource(p) \/ SuspendUser(p) \/ RemoveUser(p) \/ DeleteGroup(p)
        \/ ReadHosts(p) \/ CommitSuspend(p) \/ CommitRemove(p) \/ CommitDelete(p)
        \/ BuildSnapshot(p) \/ SnapshotEnvelope(p) \/ HubPush(p) \/ PushFails(p)
        \/ Finish(p) \/ ReadFails(p) \/ CommitFails(p)
    \/ Crash

Spec == Init /\ [][Next]_vars

-----------------------------------------------------------------------------
(* The handler has the host's current list in hand, with no number or with  *)
(* the newest.                                                              *)
Carries(p, h) ==
    /\ scope[p] = h /\ draft[p] = HostAccessKeys(h)
    /\ pc[p] = "number" \/ (pc[p] = "send" /\ num[p] = seq[h])

(* Some handler carries the host's list, or will still read it, or look the *)
(* host up and then read it.                                                *)
Awaited(h) ==
    \E p \in Handlers :
        \/ pc[p] \in {"push", "number", "send"} /\ h \in todo[p]
        \/ pc[p] = "read" /\ h \in Affected(scope[p])
        \/ Carries(p, h)

(* Whatever requests overlap, a host that does not hold its current list is *)
(* awaited by some handler, unless a commit overlooked it, a push to it     *)
(* failed, or its newest number went to a list that was read before the     *)
(* last change: the lookup after the commit (handleActivateUser,            *)
(* handleAddKey, handleDeleteKey, pushIfHostGrant) never loses a host, even *)
(* when grants and groups change before it, and a list that arrives late is *)
(* never put in the place of a current one.                                 *)
StaleIsAwaited ==
    \A h \in Hosts : view[h].keys # HostAccessKeys(h) => Awaited(h) \/ h \in missed

(* A request that runs alone and without failures, from whatever quiet      *)
(* state, has pushed its current list to every host in the end              *)
(* (handleDeleteGroup: "Member hosts, grabbed before deletion so we can     *)
(* push their new snapshots").  That state is quiet again, so the same goes *)
(* for requests one after the other.                                        *)
PushedEverywhere ==
    Idle /\ ops <= 1 /\ faults = 0 => \A h \in Hosts : view[h].keys = HostAccessKeys(h)
=============================================================================
