---------------------------- MODULE AccessAudit ----------------------------
(***************************************************************************)
(* The audits that are read in several statements or over several pages    *)
(* while the tables change: who reaches a secret (three queries), who may  *)
(* log in to a host (pages of users, and for each page their paths), and   *)
(* the logins of a host (pages of a log that grows).                       *)
(*                                                                         *)
(* A request that changes the tables is one step here; Vault has their     *)
(* steps.  Pages carry no filters.  The email order of users is fixed and  *)
(* has no ties, because users.email is unique; log rows are ordered by the *)
(* time the host reported and then by id.  One audit is read at a time,    *)
(* and only the tables it reads change: the audits share no state.         *)
(***************************************************************************)
EXTENDS Permissions

CONSTANTS
    Host, Secret,    \* the host and the secret that are audited
    Email,           \* each user's place in the order of emails
    Wanted,          \* what admins ask for while each of the audits is read
    MaxGrants,       \* bound: rows of grants not revoked
    Limit,           \* the page size
    Times, MaxLogs   \* bounds: the times of log rows, and their number

Readers == {"walk", "report", "scroll"}

ASSUME AuditedAssumption ==
    Host \in Hosts /\ Secret \in Secrets /\ \A r \in Readers : Wanted[r] \subseteq Grant
ASSUME UsersAssumption == IsFiniteSet(Users)
ASSUME EmailAssumption ==
    /\ Email \in [Users -> Nat \ {0}]
    /\ \A u, v \in Users : Email[u] = Email[v] => u = v
ASSUME PageAssumption ==
    /\ MaxGrants \in Nat /\ MaxLogs \in Nat /\ Limit \in Nat \ {0}
    /\ Times \subseteq Nat \ {0}

VARIABLES
    reader,   \* which of the three audits is being read
    walk,     \* a client reading the pages of handleHostAccessAudit
    report,   \* a call of handleSecretAccessAudit
    logs,     \* ssh_access_logs of the host: pairs of a time and an id
    scroll    \* a client reading the pages of handleHostAudit

auditVars == <<tables, reader, walk, report, logs, scroll>>

LogRows == Times \X (1..MaxLogs)

(* steady, kept and start are history: what has been there since the walk,  *)
(* the page, the report or the scroll began.                                *)
AuditTypeOK ==
    /\ reader \in Readers /\ TablesOK /\ \A m \in members : row[m[1]] = "live"
    /\ walk \in [at : {"off", "users", "paths", "done"}, cursor : Nat, page : SUBSET Users,
                 seen : [Users -> Nat], steady : SUBSET Users,
                 kept : SUBSET Grant, split : SUBSET Grant]
    /\ report \in [at : {"off", "direct", "group", "admins", "done"},
                   entries : SUBSET Grant, admins : SUBSET Users,
                   kept : SUBSET Grant, steady : SUBSET Users]
    /\ logs \subseteq LogRows
    /\ scroll \in [at : {"off", "rows", "done"}, cursor : LogRows \cup {<<0, 0>>},
                   start : SUBSET LogRows, seen : [LogRows -> Nat]]

AuditInit ==
    /\ reader \in Readers
    /\ grants = EmptyBag /\ members = {}
    /\ row = [x \in Rows |-> "live"]
    /\ ustatus = [u \in Users |-> "active"]
    /\ walk = [at |-> "off", cursor |-> 0, page |-> {}, seen |-> [u \in Users |-> 0],
               steady |-> {}, kept |-> {}, split |-> {}]
    /\ report = [at |-> "off", entries |-> {}, admins |-> {}, kept |-> {}, steady |-> {}]
    /\ logs = {}
    /\ scroll = [at |-> "off", cursor |-> <<0, 0>>, start |-> {},
                 seen |-> [r \in LogRows |-> 0]]

(* What the history follows: the grants by which the checks let somebody in. *)
SecretAccess == {gr \in Live : Through(gr, Secret)}
HostAccess(users) == {gr \in Live : /\ gr.user \in users /\ gr.permission = "host.access"
                                    /\ Through(gr, Host)}

-----------------------------------------------------------------------------
(* Requests that change the tables.                                         *)

handleCreateGrant ==
    /\ \E gr \in Wanted[reader] : /\ validGrant(gr.target, gr.permission)
                                  /\ BagCardinality(grants) < MaxGrants
                                  /\ AddGrants({gr})
    /\ UNCHANGED <<members, row, ustatus>>
handleRevokeGrant ==
    /\ \E gr \in Live : RevokeGrant(gr)
    /\ UNCHANGED <<members, row, ustatus>>
ChangeMembers ==
    \E g \in Groups :
        \/ DeleteGroup(g)
        \/ \E x \in {Host, Secret} : AddGroupResource(g, x) \/ RemoveGroupResource(g, x)

(* targetUser refuses the caller's own account.  requireAuth looked at the  *)
(* caller's status before the request got here.  Every admin is active at   *)
(* first, so whatever became of them since, any may have a request under    *)
(* way.                                                                     *)
targetUser(caller, u) == caller # u
ChangeUser ==
    \E caller \in Admins, u \in Users :
        /\ targetUser(caller, u)
        /\ \/ \E st \in {"active", "suspended"} :
                ustatus' = [ustatus EXCEPT ![u] = st] /\ UNCHANGED grants
           \/ /\ ustatus' = [ustatus EXCEPT ![u] = "removed"]
              /\ grants' = [gr \in {gr \in Live : gr.user # u} |-> grants[gr]]
        /\ UNCHANGED <<members, row>>

(* The history goes along with each change.                                 *)
ChangeTables ==
    /\ reader # "scroll"
    /\ handleCreateGrant \/ handleRevokeGrant \/ ChangeMembers \/ ChangeUser
    /\ walk' = [walk EXCEPT !.steady = @ \cap ListHostAccessUsers(Host)',
                            !.kept = @ \cap HostAccess(Users)']
    /\ report' = [report EXCEPT !.kept = @ \cap SecretAccess',
                                !.steady = @ \cap ListActiveAdmins']
    /\ UNCHANGED <<reader, logs, scroll>>

-----------------------------------------------------------------------------
(* Who may log in to a host: a page is the Limit first users after the      *)
(* cursor, and the row beyond them tells that there is another page.        *)

StartWalk ==
    /\ reader = "walk" /\ walk.at = "off"
    /\ walk' = [walk EXCEPT !.at = "users", !.steady = ListHostAccessUsers(Host)]
    /\ UNCHANGED <<reader, tables, report, logs, scroll>>

UsersAfter(cursor) == {u \in ListHostAccessUsers(Host) : Email[u] > cursor}
FirstOf(users, n) ==
    {u \in users : Cardinality({v \in users : Email[v] <= Email[u]}) <= n}
LastEmail(users) == CHOOSE e \in {Email[u] : u \in users} : \A u \in users : Email[u] <= e

CursorBeyond(users) == LastEmail(FirstOf(users, Limit + 1))
NextCursor(users) == LastEmail(FirstOf(users, Limit))

ListUsers ==
    LET users == UsersAfter(walk.cursor)
        page == FirstOf(users, Limit)
    IN  /\ walk.at = "users"
        /\ walk' = [walk EXCEPT
                !.at = IF page = {} THEN "done" ELSE "paths",
                !.page = page,
                !.cursor = IF Cardinality(users) > Limit THEN NextCursor(users) ELSE 0,
                !.seen = [u \in Users |-> IF u \in page THEN @[u] + 1 ELSE @[u]],
                !.kept = HostAccess(page)]
        /\ UNCHANGED <<reader, tables, report, logs, scroll>>

ListPaths ==
    /\ walk.at = "paths"
    /\ walk' = [walk EXCEPT
            !.at = IF walk.cursor = 0 THEN "done" ELSE "users",
            !.split = @ \cup (walk.kept \ ListHostAccessPathsForUsers(Host, walk.page)),
            !.kept = {}]
    /\ UNCHANGED <<reader, tables, report, logs, scroll>>

-----------------------------------------------------------------------------
(* Who reaches a secret: three queries, one after the other.                *)

StartReport ==
    /\ reader = "report" /\ report.at = "off"
    /\ report' = [report EXCEPT !.at = "direct", !.kept = SecretAccess,
                                !.steady = ListActiveAdmins]
    /\ UNCHANGED <<reader, tables, walk, logs, scroll>>

ReadAccess ==
    /\ \/ /\ report.at = "direct"
          /\ report' = [report EXCEPT !.at = "group",
                                      !.entries = ListSecretDirectAccess(Secret)]
       \/ /\ report.at = "group"
          /\ report' = [report EXCEPT !.at = "admins",
                                      !.entries = @ \cup ListSecretGroupAccess(Secret)]
       \/ /\ report.at = "admins"
          /\ report' = [report EXCEPT !.at = "done", !.admins = ListActiveAdmins]
    /\ UNCHANGED <<reader, tables, walk, logs, scroll>>

-----------------------------------------------------------------------------
(* The logins of a host, latest first, while hosts report more: a report    *)
(* may carry an old time, and several rows may carry the same one.          *)

Before(r, c) == r[1] < c[1] \/ (r[1] = c[1] /\ r[2] < c[2])
RowsOfEarlierTime(c) == {r \in logs : c = <<0, 0>> \/ r[1] < c[1]}
RowsAfter(c) == {r \in logs : c = <<0, 0>> \/ Before(r, c)}
LatestOf(rows, n) == {r \in rows : Cardinality({q \in rows : r = q \/ Before(r, q)}) <= n}

InsertAccessLog ==
    /\ reader = "scroll"
    /\ \E r \in LogRows : /\ \A q \in logs : q[2] # r[2]
                          /\ logs' = logs \cup {r}
    /\ UNCHANGED <<reader, tables, walk, report, scroll>>

StartScroll ==
    /\ reader = "scroll" /\ scroll.at = "off"
    /\ scroll' = [scroll EXCEPT !.at = "rows", !.start = logs]
    /\ UNCHANGED <<reader, tables, walk, report, logs>>

ListHostAccessLogs ==
    LET rows == RowsAfter(scroll.cursor)
        page == LatestOf(rows, Limit)
        more == Cardinality(rows) > Limit
    IN  /\ scroll.at = "rows"
        /\ scroll' = [scroll EXCEPT
                !.at = IF more THEN "rows" ELSE "done",
                !.cursor = IF more THEN CHOOSE r \in page : \A q \in page : ~Before(q, r)
                           ELSE @,
                !.seen = [r \in LogRows |-> IF r \in page THEN @[r] + 1 ELSE @[r]]]
        /\ UNCHANGED <<reader, tables, walk, report, logs>>

AuditNext ==
    \/ ChangeTables
    \/ StartWalk \/ ListUsers \/ ListPaths
    \/ StartReport \/ ReadAccess
    \/ InsertAccessLog \/ StartScroll \/ ListHostAccessLogs

AuditSpec == AuditInit /\ [][AuditNext]_auditVars

-----------------------------------------------------------------------------
(* A client that reads all pages of handleHostAccessAudit has seen every    *)
(* user who could log in all the while exactly once, and nobody twice,      *)
(* whatever access was given or taken between the pages.                    *)
(* The variables keep their types.                                          *)
WalkedOnce ==
    /\ AuditTypeOK
    /\ \A u \in Users : walk.seen[u] <= 1
    /\ walk.at = "done" => \A u \in walk.steady : walk.seen[u] = 1

(* handleHostAccessAudit: "pagination never splits one user's direct/group  *)
(* access paths across pages".  A path of a user on the page that is there  *)
(* for both of the page's queries is on that page.                          *)
PathsTogether == walk.split = {}

(* handleSecretAccessAudit reports every grant that reached the secret, and *)
(* every admin who was active, from its first query to its last.            *)
KeptPathListed ==
    report.at = "done" => report.kept \subseteq report.entries
                          /\ report.steady \subseteq report.admins

(* A client that reads all pages of handleHostAudit has seen each login     *)
(* recorded before it began exactly once, and none twice, while the host    *)
(* reports more, late ones included.                                        *)
ScrolledOnce ==
    /\ \A r \in LogRows : scroll.seen[r] <= 1
    /\ scroll.at = "done" => \A r \in scroll.start : scroll.seen[r] = 1
=============================================================================
