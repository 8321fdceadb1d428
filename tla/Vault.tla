------------------------------- MODULE Vault -------------------------------
(***************************************************************************)
(* The requests that create, show, change and delete secrets, groups and   *)
(* grants.  A handler checks the caller's permission in one statement and  *)
(* does its work in later ones, so a grant may be revoked, a group deleted *)
(* or a secret removed in between.  A transaction is one step.             *)
(*                                                                         *)
(* The contents of a secret are not modelled: vault.Open either returns    *)
(* what vault.Seal was given or fails.  Everybody is active here.          *)
(***************************************************************************)
EXTENDS Permissions

CONSTANTS
    Asked,       \* what admins ask handleCreateGrant for
    SecretOps,   \* which requests about a secret there are
    Handlers,    \* concurrent HTTP request goroutines
    NoRequest,   \* a handler that is idle
    NoSecret,    \* the null secret_id of a log row
    MaxOps,      \* bound: requests
    MaxFaults    \* bound: failed statements

ASSUME AskedAssumption == Asked \subseteq Grant
ASSUME OpsAssumption == SecretOps \subseteq {"reveal", "update", "delete"}
ASSUME LimitAssumption == MaxOps \in Nat /\ MaxFaults \in Nat

VARIABLES
    request,    \* what each handler is doing
    log,        \* secret_audit_logs
    shown,      \* history: who was shown the fields of which secret
    creator,    \* secrets.created_by; for a group, who created it
    disowned,   \* history: resources an owner's grant on was revoked
    ops, faults

vars == <<tables, request, log, shown, creator, disowned, ops, faults>>

Request == [op : {"create", "reveal", "audit", "update", "updated", "delete",
                  "found", "deleted", "dissolve", "add", "remove"},
            user : Users, on : Rows, to : Rows]
LogRow == [action : {"add", "read", "update", "delete"},
           secret : Secrets \cup {NoSecret}, user : Users]

(* Also: grants are of kinds handleCreateGrant and grantOwner allow, and    *)
(* only groups that are there have members.                                 *)
TypeOK ==
    /\ TablesOK
    /\ \A gr \in Live : gr.permission \in grantablePermissions(gr.target)
    /\ \A m \in members : row[m[1]] = "live"
    /\ request \in [Handlers -> Request \cup {NoRequest}]
    /\ log \subseteq LogRow
    /\ shown \subseteq Users \X Secrets
    /\ DOMAIN creator \subseteq Rows /\ \A x \in DOMAIN creator : creator[x] \in Users
    /\ disowned \subseteq Rows
    /\ ops \in 0..MaxOps /\ faults \in 0..MaxFaults

-----------------------------------------------------------------------------
(* What grantOwner gives the creator of a secret or a group.                *)
grantOwner(u, x) ==
    {[user |-> u, permission |-> p, target |-> x] :
        p \in IF x \in Secrets THEN allSecretPermissions ELSE allGroupPermissions}

(* A quiet system: secrets and groups that users have created, with their   *)
(* owners' grants and some of what admins are asked for, and any members.   *)
Init ==
    /\ ustatus = [u \in Users |-> "active"]
    /\ \E made \in SUBSET (Secrets \cup Groups) :
        /\ row = [x \in Rows |-> IF x \in Hosts \cup Sets \cup made THEN "live" ELSE "new"]
        /\ creator \in [made -> Users]
        /\ \E extra \in SUBSET {gr \in Asked : /\ gr.permission \in grantablePermissions(gr.target)
                                               /\ gr.target = Global \/ row[gr.target] = "live"} :
            grants = SetToBag(extra \cup UNION {grantOwner(creator[x], x) : x \in made})
        /\ members \in SUBSET (LiveRows(Groups) \X LiveRows(Resources))
        /\ log = {[action |-> "add", secret |-> s, user |-> creator[s]] : s \in made \cap Secrets}
    /\ request = [p \in Handlers |-> NoRequest]
    /\ shown = {} /\ disowned = {}
    /\ ops = 0 /\ faults = 0

Begin == ops < MaxOps /\ ops' = ops + 1
At(p, op) == request[p] # NoRequest /\ request[p].op = op
Enter(p, op, u, x, y) ==
    /\ request[p] = NoRequest /\ Begin
    /\ request' = [request EXCEPT ![p] = [op |-> op, user |-> u, on |-> x, to |-> y]]
GoOn(p, op) == request' = [request EXCEPT ![p].op = op]
Reply(p) == request' = [request EXCEPT ![p] = NoRequest]
Fault == faults < MaxFaults /\ faults' = faults + 1

history == <<log, shown, creator, disowned>>

-----------------------------------------------------------------------------
(* Grants: admins only, one transaction with the audit row.                 *)

CreateGrant ==
    /\ \E gr \in Asked :
        /\ validGrant(gr.target, gr.permission)
        /\ gr.target \in {Global} \cup {x \in Rows : row[x] # "new"}
        /\ AddGrants({gr})
    /\ Begin
    /\ UNCHANGED <<members, row, ustatus, request, history, faults>>

(* History: a resource whose owner lost one of the grants on it.            *)
HandleRevokeGrant ==
    /\ \E gr \in Live :
        /\ RevokeGrant(gr)
        /\ disowned' = disowned \cup
             {x \in DOMAIN creator : gr.target = x /\ creator[x] = gr.user}
    /\ Begin
    /\ UNCHANGED <<members, row, ustatus, request, log, shown, creator, faults>>

-----------------------------------------------------------------------------
(* Creation: the row, its audit row and the creator's grants commit         *)
(* together.                                                                *)

Addable(x) == IF x \in Secrets THEN "secret.add" ELSE "group.create"
HandleCreate(p) ==
    /\ \E u \in Users, x \in Secrets \cup Groups :
        /\ canGlobal(u, Addable(x))
        /\ row[x] = "new"
        /\ \A q \in Handlers : At(q, "create") => request[q].on # x
        /\ Enter(p, "create", u, x, x)
    /\ UNCHANGED <<tables, history, faults>>

CreateRow(p) ==
    LET u == request[p].user
        x == request[p].on
    IN  /\ At(p, "create")
        /\ row' = [row EXCEPT ![x] = "live"]
        /\ AddGrants(grantOwner(u, x))
        /\ creator' = [y \in DOMAIN creator \cup {x} |-> IF y = x THEN u ELSE creator[y]]
        /\ log' = log \cup {[action |-> "add", secret |-> s, user |-> u] : s \in Secrets \cap {x}}
        /\ Reply(p)
        /\ UNCHANGED <<members, ustatus, shown, disowned, ops, faults>>

-----------------------------------------------------------------------------
(* Secrets.                                                                 *)

HandleSecret(p) ==
    /\ \E u \in Users, s \in Secrets, op \in SecretOps :
        /\ row[s] # "new"
        /\ canSecret(u, CASE op = "reveal" -> "secret.read"
                          [] op = "update" -> "secret.update"
                          [] op = "delete" -> "secret.delete", s)
        /\ Enter(p, op, u, s, s)
    /\ UNCHANGED <<tables, history, faults>>

(* GetSecret for a reveal, with the fields opened: not found ends it.       *)
OpenSecret(p) ==
    /\ At(p, "reveal")
    /\ IF row[request[p].on] = "live" THEN GoOn(p, "audit") ELSE Reply(p)
    /\ UNCHANGED <<ops, tables, history, faults>>

(* InsertSecretAudit: the row refers to the secret by an id that is no      *)
(* foreign key, so it is written whether or not the secret is still there.  *)
InsertReferenced(action, s, u) ==
    IF s \in LiveRows(Secrets) THEN {[action |-> action, secret |-> s, user |-> u]} ELSE {}
InsertSecretAudit(action, s, u) == {[action |-> action, secret |-> s, user |-> u]}

(* auditSecret drops the error of the insert, and the handler goes on.      *)
auditSecret(p, s, action) ==
    \/ log' = log \cup InsertSecretAudit(action, s, request[p].user)
       /\ UNCHANGED faults
    \/ Fault /\ UNCHANGED log

RevealSecret(p) ==
    /\ At(p, "audit")
    /\ auditSecret(p, request[p].on, "read")
    /\ shown' = shown \cup {<<request[p].user, request[p].on>>}
    /\ Reply(p)
    /\ UNCHANGED <<ops, tables, creator, disowned>>

UpdateSecret(p) ==
    /\ At(p, "update")
    /\ IF row[request[p].on] = "live" THEN GoOn(p, "updated") ELSE Reply(p)
    /\ UNCHANGED <<ops, tables, history, faults>>

(* GetSecret before the delete: not found ends it.                          *)
FindSecret(p) ==
    /\ At(p, "delete")
    /\ IF row[request[p].on] = "live" THEN GoOn(p, "found") ELSE Reply(p)
    /\ UNCHANGED <<ops, tables, history, faults>>

(* DeleteSecret counts no rows; grants and memberships stay behind.         *)
DeleteSecret(p) ==
    /\ At(p, "found")
    /\ row' = [row EXCEPT ![request[p].on] = "gone"]
    /\ GoOn(p, "deleted")
    /\ UNCHANGED <<ops, grants, members, ustatus, history, faults>>

(* The row of a deletion has no secret_id, and keeps the label only.        *)
LogChange(p) ==
    /\ \/ At(p, "updated") /\ auditSecret(p, request[p].on, "update")
       \/ At(p, "deleted") /\ auditSecret(p, NoSecret, "delete")
    /\ Reply(p)
    /\ UNCHANGED <<ops, tables, shown, creator, disowned>>

-----------------------------------------------------------------------------
(* Groups.                                                                  *)

(* A resource is named by an id that need not be there any more.            *)
HandleGroup(p) ==
    /\ \E u \in Users, g \in Groups :
        /\ row[g] # "new"
        /\ canGroup(u, "group.manage", g)
        /\ \/ Enter(p, "dissolve", u, g, g)
           \/ \E x \in Resources, op \in {"add", "remove"} :
                row[x] # "new" /\ Enter(p, op, u, g, x)
    /\ UNCHANGED <<tables, history, faults>>

ChangeGroup(p) ==
    /\ \/ At(p, "dissolve") /\ DeleteGroup(request[p].on)
       \/ At(p, "add") /\ AddGroupResource(request[p].on, request[p].to)
       \/ At(p, "remove") /\ RemoveGroupResource(request[p].on, request[p].to)
    /\ Reply(p)
    /\ UNCHANGED <<ops, history, faults>>

(* The group or the membership is gone: 404, or the foreign key refuses.    *)
GroupRefused(p) ==
    /\ \/ At(p, "dissolve") /\ row[request[p].on] # "live"
       \/ At(p, "add") /\ row[request[p].on] # "live"
       \/ At(p, "remove") /\ ~MemberOf(request[p].on, request[p].to)
    /\ Reply(p)
    /\ UNCHANGED <<ops, tables, history, faults>>

(* Any statement but the audit's may fail: the transaction rolls back and   *)
(* the request ends.                                                        *)
Error(p) ==
    /\ request[p] # NoRequest
    /\ request[p].op \notin {"audit", "updated", "deleted"}
    /\ Fault
    /\ Reply(p)
    /\ UNCHANGED <<ops, tables, history>>

Next ==
    \/ CreateGrant \/ HandleRevokeGrant
    \/ \E p \in Handlers :
        \/ HandleCreate(p) \/ CreateRow(p)
        \/ HandleSecret(p) \/ OpenSecret(p) \/ RevealSecret(p) \/ UpdateSecret(p)
        \/ FindSecret(p) \/ DeleteSecret(p) \/ LogChange(p)
        \/ HandleGroup(p) \/ ChangeGroup(p) \/ GroupRefused(p)
        \/ Error(p)

Spec == Init /\ [][Next]_vars

-----------------------------------------------------------------------------
(* What a list shows a user is what the check of each item would let the    *)
(* user open (handleListSecrets and canSecret, handleListHosts and canHost, *)
(* handleListGroups and canGroup, handleListGroupsForResource, handleMe and *)
(* canGlobal), whatever requests have left behind in grants and groups.     *)
(* The variables keep their types.                                          *)
ListsAgree ==
    /\ TypeOK
    /\ \A u \in Users :
        /\ ListSecrets(u) = {s \in ListAllSecrets : canSecret(u, "secret.read", s)}
        /\ ListSets(u) = {s \in ListAllSets : canSet(u, "set.read", s)}
        /\ ListHosts(u) = {h \in ListAllHosts : canHost(u, "host.access", h)}
        /\ ListGroups(u) = {g \in ListAllGroups : canGroup(u, "group.read", g)}
        /\ \A x \in Resources :
            ListGroupsForResource(u, x) = {g \in ListGroups(u) : x \in ListGroupResources(g)}
        /\ globalPermissionsFor(u) = {p \in allGlobalPermissions : canGlobal(u, p)}

(* Whoever the checks let use a secret is in the audit of who reaches it    *)
(* (handleSecretAccessAudit: "omitting them would make the audit lie about  *)
(* who has access"), and the audit of a host names the users who may log in *)
(* there with a path for each, and a group's list of members whoever may    *)
(* do something with it: the audits join resource_groups where the checks   *)
(* do not, so a deleted group must leave no membership behind.              *)
AuditSeesAll ==
    /\ \A s \in Secrets, u \in Users :
        (\E p \in allSecretPermissions : canSecret(u, p, s)) =>
            \/ u \in ListActiveAdmins
            \/ \E gr \in ListSecretDirectAccess(s) \cup ListSecretGroupAccess(s) : gr.user = u
    /\ \A h \in Hosts :
        {gr.user : gr \in ListHostAccessPathsForUsers(h, ListHostAccessUsers(h))}
            = {u \in Users : UserHasHostPermission(u, "host.access", h)}
    /\ \A g \in Groups, u \in Users, p \in allGroupPermissions :
        row[g] = "live" /\ UserHasGroupPermission(u, p, g) => u \in ListGroupMembers(g)

(* grantOwner: "members own what they create".  From the moment a secret or *)
(* a group exists, its creator has every permission on it, until one of     *)
(* those grants is revoked.                                                 *)
CreatorOwns ==
    \A x \in DOMAIN creator : row[x] = "live" /\ x \notin disowned =>
        IF x \in Secrets THEN \A p \in allSecretPermissions : canSecret(creator[x], p, x)
                         ELSE \A p \in allGroupPermissions : canGroup(creator[x], p, x)

(* handleRevealSecret "logs the read": whoever was shown a secret's fields  *)
(* is in its log, even when the secret was deleted between the two          *)
(* statements, but for one read per insert that failed, whose error         *)
(* auditSecret drops; and a secret is never there without the row of its    *)
(* creation.                                                                *)
ReadsLogged ==
    /\ Cardinality({w \in shown : [action |-> "read", secret |-> w[2], user |-> w[1]]
                                   \notin log}) <= faults
    /\ \A s \in Secrets : row[s] # "new" =>
        [action |-> "add", secret |-> s, user |-> creator[s]] \in log
=============================================================================
