---------------------------- MODULE Permissions ----------------------------
(***************************************************************************)
(* The tables that say who may do what, and every query that reads them:   *)
(* the checks of perms.go (can...), the lists of what a user may see, and  *)
(* the audits of who reaches a secret or a host.  Vault and AccessAudit    *)
(* extend this module with the handlers that change the tables and the     *)
(* ones that read them in several statements.                              *)
(*                                                                         *)
(* A grant's target_kind is the set its target belongs to; rows of grants  *)
(* that agree on user, permission and target are copies in a bag.  A       *)
(* user's role never changes once the account exists.                      *)
(***************************************************************************)
EXTENDS Naturals, FiniteSets, Bags

CONSTANTS
    Users, Admins,                  \* Admins: the users whose role is admin
    Secrets, Sets, Hosts, Groups,
    Global                          \* the target of a global grant

ASSUME KindAssumption ==
    /\ Admins \subseteq Users
    /\ \A pair \in {<<Secrets, Sets>>, <<Secrets, Hosts>>, <<Secrets, Groups>>,
                    <<Sets, Hosts>>, <<Sets, Groups>>, <<Hosts, Groups>>} :
        pair[1] \cap pair[2] = {}
    /\ Global \notin Secrets \cup Sets \cup Hosts \cup Groups

VARIABLES
    grants,    \* a bag: the rows of grants not revoked
    members,   \* group_resources: pairs of a group and a resource
    row,       \* each resource is still to be created, live, or gone; a host
               \* that is gone keeps its row with status revoked
    ustatus    \* users.status

tables == <<grants, members, row, ustatus>>

Resources == Secrets \cup Sets \cup Hosts
Rows == Resources \cup Groups

-----------------------------------------------------------------------------
(* The catalogue.                                                           *)

allGlobalPermissions == {"group.create", "host.add", "secret.add", "set.add"}
allGroupPermissions  == {"group.read", "group.manage"}
allHostPermissions   == {"host.access", "host.audit", "host.revoke", "host.upgrade"}
allSecretPermissions == {"secret.read", "secret.update", "secret.delete"}
allSetPermissions    == {"set.read", "set.manage"}

resourcePermissions == allHostPermissions \cup allSecretPermissions \cup allSetPermissions
grantablePermissions(target) ==
    CASE target = Global    -> allGlobalPermissions
      [] target \in Groups  -> allGroupPermissions \cup resourcePermissions
      [] target \in Hosts   -> allHostPermissions
      [] target \in Secrets -> allSecretPermissions
      [] target \in Sets    -> allSetPermissions

validGrant(target, permission) == permission \in grantablePermissions(target)

Grant == [user : Users, permission : allGlobalPermissions \cup allGroupPermissions
                                     \cup resourcePermissions,
          target : Rows \cup {Global}]

-----------------------------------------------------------------------------
(* The checks.  A group's grants reach the resources that are its members.  *)

Live == BagToSet(grants)
Held(u, p) == {gr \in Live : gr.user = u /\ gr.permission = p}
MemberOf(g, x) == <<g, x>> \in members
Through(gr, x) == gr.target = x \/ (gr.target \in Groups /\ MemberOf(gr.target, x))

UserHasGlobalPermission(u, p)    == \E gr \in Held(u, p) : gr.target = Global
UserHasGroupPermission(u, p, g)  == \E gr \in Held(u, p) : gr.target = g
UserHasHostPermission(u, p, h)   == \E gr \in Held(u, p) : Through(gr, h)
UserHasSecretPermission(u, p, s) == \E gr \in Held(u, p) : Through(gr, s)
UserHasSetPermission(u, p, s)    == \E gr \in Held(u, p) : Through(gr, s)

canGlobal(u, p)    == u \in Admins \/ UserHasGlobalPermission(u, p)
canGroup(u, p, g)  == u \in Admins \/ UserHasGroupPermission(u, p, g)
canHost(u, p, h)   == u \in Admins \/ UserHasHostPermission(u, p, h)
canSecret(u, p, s) == u \in Admins \/ UserHasSecretPermission(u, p, s)
canSet(u, p, s)    == u \in Admins \/ UserHasSetPermission(u, p, s)

-----------------------------------------------------------------------------
(* The lists.                                                               *)

LiveRows(kind) == {x \in kind : row[x] = "live"}

ListAllSecrets == LiveRows(Secrets)
ListReadableDirectly(u) == {s \in LiveRows(Secrets) :
                              \E gr \in Held(u, "secret.read") : gr.target = s}
ListReadableSecrets(u) ==
    {s \in LiveRows(Secrets) : \E gr \in Held(u, "secret.read") :
        gr.target = s \/ gr.target \in {g \in Groups : MemberOf(g, s)}}
ListSecrets(u) == IF u \in Admins THEN ListAllSecrets ELSE ListReadableSecrets(u)

ListAllSets == LiveRows(Sets)
ListReadableSets(u) ==
    {s \in LiveRows(Sets) : \E gr \in Held(u, "set.read") :
        gr.target = s \/ gr.target \in {g \in Groups : MemberOf(g, s)}}
ListSets(u) == IF u \in Admins THEN ListAllSets ELSE ListReadableSets(u)

ListAllHosts == LiveRows(Hosts)
ListReadableHosts(u) ==
    {h \in LiveRows(Hosts) : \E gr \in Held(u, "host.access") :
        gr.target = h \/ gr.target \in {g \in Groups : MemberOf(g, h)}}
ListHosts(u) == IF u \in Admins THEN ListAllHosts ELSE ListReadableHosts(u)

ListAllGroups == LiveRows(Groups)
ListReadableGroups(u) ==
    {g \in LiveRows(Groups) : \E gr \in Held(u, "group.read") : gr.target = g}
ListGroups(u) == IF u \in Admins THEN ListAllGroups ELSE ListReadableGroups(u)

GroupsForResource(x) == {g \in LiveRows(Groups) : MemberOf(g, x)}
ListReadableGroupsForResource(u, x) ==
    {g \in GroupsForResource(x) : \E gr \in Held(u, "group.read") : gr.target = g}
ListGroupsForResource(u, x) ==
    IF u \in Admins THEN GroupsForResource(x) ELSE ListReadableGroupsForResource(u, x)

ListGroupResources(g) == {x \in Resources : MemberOf(g, x)}
ListGroupMembers(g) == {gr.user : gr \in {gr \in Live : gr.target = g}}

(* The permissions /me reports: an admin's come from the table of           *)
(* permissions, a member's from the grants.                                 *)
ListGlobalPermissions == {"secret.add", "group.create", "host.add", "set.add"}
ListUserGlobalPermissions(u) ==
    {gr.permission : gr \in {gr \in Live : gr.user = u /\ gr.target = Global}}
globalPermissionsFor(u) ==
    IF u \in Admins THEN ListGlobalPermissions ELSE ListUserGlobalPermissions(u)

-----------------------------------------------------------------------------
(* The audits: the grants by which a secret or a host is reached.  The      *)
(* group queries join resource_groups, so a group that is gone counts for   *)
(* nothing.                                                                 *)

ListActiveAdmins == {u \in Admins : ustatus[u] = "active"}
ListSecretDirectAccess(s) == {gr \in Live : gr.target = s}
ReadAccessOnly(s) == {gr \in Live : gr.permission = "secret.read"
                                    /\ gr.target \in GroupsForResource(s)}
ListSecretGroupAccess(s) == {gr \in Live : gr.target \in GroupsForResource(s)}

ListHostAccessUsers(h) ==
    {u \in Users : /\ ustatus[u] = "active"
                   /\ \E gr \in Held(u, "host.access") : Through(gr, h)}
DirectPathsForUsers(h, users) ==
    {gr \in Live : gr.user \in users /\ gr.permission = "host.access" /\ gr.target = h}
ListHostAccessPathsForUsers(h, users) ==
    {gr \in Live : /\ gr.user \in users /\ gr.permission = "host.access"
                   /\ gr.target = h \/ gr.target \in GroupsForResource(h)}

-----------------------------------------------------------------------------
(* What the handlers do to the tables.                                      *)

AddGrants(new) == grants' = grants (+) SetToBag(new)
RevokeGrant(gr) == grants' = grants (-) SetToBag({gr})

(* RevokeGroupGrants revokes every copy; the members cascade with the row.  *)
LeaveMembers(g) == members
Cascade(g) == {m \in members : m[1] # g}
RevokeReached(g) ==
    [gr \in {gr \in Live : gr.target # g /\ ~MemberOf(g, gr.target)} |-> grants[gr]]
RevokeGroupGrants(g) == [gr \in {gr \in Live : gr.target # g} |-> grants[gr]]
DeleteGroup(g) ==
    /\ row[g] = "live"
    /\ row' = [row EXCEPT ![g] = "gone"]
    /\ members' = Cascade(g)
    /\ grants' = RevokeGroupGrants(g)
    /\ UNCHANGED ustatus

(* The foreign key wants the group to be there; the resource may be gone.   *)
AddGroupResource(g, x) ==
    /\ row[g] = "live"
    /\ members' = members \cup {<<g, x>>}
    /\ UNCHANGED <<grants, row, ustatus>>
RemoveGroupResource(g, x) ==
    /\ MemberOf(g, x)
    /\ members' = members \ {<<g, x>>}
    /\ UNCHANGED <<grants, row, ustatus>>

TablesOK ==
    /\ IsABag(grants) /\ Live \subseteq Grant
    /\ members \subseteq Groups \X Resources
    /\ row \in [Rows -> {"new", "live", "gone"}]
    /\ ustatus \in [Users -> {"active", "suspended", "removed"}]
=============================================================================
