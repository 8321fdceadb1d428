------------------------- MODULE AccessAudit_proofs -------------------------
(***************************************************************************)
(* Proofs about the readers of AccessAudit, for any users, resources,      *)
(* groups and grants, any number of overlapping requests and any page size. *)
(***************************************************************************)
EXTENDS AccessAudit, FiniteSetTheorems, WellFoundedInduction, TLAPS

(* Zenon proves most leaves; one that needs arithmetic, sequences or record *)
(* updates names SMT.                                                       *)
USE Zenon

-----------------------------------------------------------------------------
(* What the changes to grants do to the rows that are live.                 *)
LEMMA AddedGrants ==
  ASSUME IsABag(grants), NEW S, AddGrants(S)
  PROVE  IsABag(grants') /\ Live' = Live \cup S
  BY SMT DEF AddGrants, IsABag, BagToSet, SetToBag, (+), Live

(* Revoking one row takes no other grant away.                              *)
LEMMA RevokedGrant ==
  ASSUME IsABag(grants), NEW gr, RevokeGrant(gr)
  PROVE  /\ IsABag(grants') /\ Live' \subseteq Live
         /\ \A x \in Live : x # gr => x \in Live'
  BY SMT DEF RevokeGrant, IsABag, BagToSet, SetToBag, (-), Live

(* Keeping some rows with all their copies keeps just those.                *)
LEMMA KeptGrants ==
  ASSUME IsABag(grants), NEW S \in SUBSET Live, grants' = [gr \in S |-> grants[gr]]
  PROVE  IsABag(grants') /\ Live' = S
  BY DEF IsABag, BagToSet, Live

-----------------------------------------------------------------------------
(* A set of naturals that is not empty has a least member.                  *)
LEMMA LeastNat ==
  ASSUME NEW T \in SUBSET Nat, T # {}
  PROVE  \E n \in T : \A m \in T : n <= m
  <1>1. PICK n \in T : \A m \in T : ~(<<m, n>> \in OpToRel(<, Nat))
    BY NatLessThanWellFounded, WFMin
  <1>2. \A m \in T : ~(m < n)
    BY <1>1 DEF OpToRel
  <1> QED BY SMT, <1>2

(* A set of naturals that is not empty and has a bound has a greatest one.  *)
LEMMA GreatestNat ==
  ASSUME NEW b \in Nat, NEW T \in SUBSET (0..b), T # {}
  PROVE  \E n \in T : \A m \in T : m <= n
  <1> DEFINE U == {b - n : n \in T}
  <1>0. \A n \in T : n \in Nat /\ b - n \in Nat
    BY SMT
  <1>1. U \in SUBSET Nat /\ U # {}
    BY <1>0
  <1>2. PICK k \in U : \A m \in U : k <= m
    BY <1>1, LeastNat
  <1>3. PICK n \in T : k = b - n
    BY <1>2
  <1>4. ASSUME NEW m \in T PROVE m <= n
    BY SMT, <1>2, <1>3
  <1> QED BY <1>4

(* The n first elements of a set S that R orders.                           *)
Orders(R, S) ==
    /\ \A x \in S : <<x, x>> \in R
    /\ \A x, y \in S : <<x, y>> \in R /\ <<y, x>> \in R => x = y
    /\ \A x, y \in S : <<x, y>> \in R \/ <<y, x>> \in R
    /\ \A x, y, z \in S : <<x, y>> \in R /\ <<y, z>> \in R => <<x, z>> \in R
UpTo(R, S, x) == {y \in S : <<y, x>> \in R}
Firsts(R, S, n) == {x \in S : Cardinality(UpTo(R, S, x)) <= n}

(* A page is an initial part of what is in order: the n first of a set S    *)
(* that R orders are all of S, or those up to some last one.                *)
LEMMA Page ==
  ASSUME NEW S, IsFiniteSet(S), NEW R, Orders(R, S), NEW n \in Nat \ {0}
  PROVE  /\ Cardinality(S) <= n => Firsts(R, S, n) = S
         /\ S # {} => \E m \in Firsts(R, S, n) : Firsts(R, S, n) = UpTo(R, S, m)
  <1> DEFINE F == Firsts(R, S, n)
  <1>0. /\ \A x \in S : <<x, x>> \in R
        /\ \A x, y \in S : <<x, y>> \in R /\ <<y, x>> \in R => x = y
        /\ \A x, y \in S : <<x, y>> \in R \/ <<y, x>> \in R
        /\ \A x, y, z \in S : <<x, y>> \in R /\ <<y, z>> \in R => <<x, z>> \in R
    BY DEF Orders
  <1> DEFINE Upto(x) == {y \in S : <<y, x>> \in R}
             rank(x) == Cardinality(Upto(x))
  <1>1. \A x \in S : /\ IsFiniteSet(Upto(x)) /\ rank(x) \in Nat /\ rank(x) <= Cardinality(S)
                     /\ Upto(x) \subseteq S /\ x \in Upto(x)
    <2> SUFFICES ASSUME NEW x \in S
                 PROVE  IsFiniteSet(Upto(x)) /\ rank(x) \in Nat /\ rank(x) <= Cardinality(S)
      BY <1>0
    <2>1. Upto(x) \in SUBSET S
      OBVIOUS
    <2> HIDE DEF Upto
    <2>2. IsFiniteSet(Upto(x)) /\ rank(x) <= Cardinality(S)
      BY <2>1, FS_Subset
    <2> QED BY <2>2, FS_CardinalityType
  <1>2. \A x, y \in S : <<x, y>> \in R => Upto(x) \subseteq Upto(y)
    BY <1>0
  <1>3. \A x, y \in S : <<x, y>> \in R => rank(x) <= rank(y)
    <2> SUFFICES ASSUME NEW x \in S, NEW y \in S, <<x, y>> \in R PROVE rank(x) <= rank(y)
      OBVIOUS
    <2>1. Upto(x) \in SUBSET Upto(y) /\ IsFiniteSet(Upto(y))
      BY <1>1, <1>2
    <2> HIDE DEF Upto
    <2> QED BY <2>1, FS_Subset
  <1>4. \A x, y \in S : rank(x) = rank(y) => x = y
    <2> SUFFICES ASSUME NEW x \in S, NEW y \in S, <<x, y>> \in R, rank(x) = rank(y) PROVE x = y
      BY <1>0
    <2>1. Upto(x) \in SUBSET Upto(y) /\ IsFiniteSet(Upto(y)) /\ y \in Upto(y)
      BY <1>1, <1>2
    <2>2. (y \in Upto(x)) => <<y, x>> \in R
      OBVIOUS
    <2> HIDE DEF Upto
    <2>3. Upto(x) = Upto(y)
      BY <2>1, FS_Subset
    <2> QED BY <1>0, <2>1, <2>2, <2>3
  <1>5. Cardinality(S) \in Nat
    BY FS_CardinalityType
  <1>6. F = {x \in S : rank(x) <= n}
    BY DEF Firsts, UpTo
  <1> HIDE DEF F
  <1>7. Cardinality(S) <= n => F = S
    <2> SUFFICES ASSUME Cardinality(S) <= n, NEW x \in S PROVE rank(x) <= n
      BY <1>6
    <2>1. rank(x) \in Nat /\ rank(x) <= Cardinality(S)
      BY <1>1
    <2> HIDE DEF rank
    <2> QED BY SMT, <1>5, <2>1
  <1>8. ASSUME S # {} PROVE \E m \in F : F = Upto(m)
    <2> DEFINE rk == [x \in S |-> rank(x)]
    <2>0. /\ rk \in [S -> Nat] /\ \A x \in S : rk[x] = rank(x)
          /\ \A x, y \in S : <<x, y>> \in R => rk[x] <= rk[y]
          /\ \A x, y \in S : rk[x] = rk[y] => x = y
          /\ F = {x \in S : rk[x] <= n}
      <3> HIDE DEF rank
      <3> QED BY <1>1, <1>3, <1>4, <1>6
    <2> HIDE DEF rank, rk
    <2> DEFINE T == {rk[x] : x \in S}
    <2>1. T \in SUBSET Nat /\ T # {}
      BY SMT, <1>8, <2>0
    <2>2. PICK x0 \in S : \A x \in S : rk[x0] <= rk[x]
      <3>1. PICK k \in T : \A j \in T : k <= j
        <4> HIDE DEF T
        <4> QED BY <2>1, LeastNat
      <3>2. \A x \in S : rk[x] \in T
        OBVIOUS
      <3> QED BY <3>1, <3>2
    <2>3. Upto(x0) = {x0}
      <3>1. \A x \in S : <<x, x0>> \in R => rk[x] = rk[x0]
        BY SMT, <2>0, <2>2
      <3> QED BY <1>1, <2>0, <3>1
    <2>4. rk[x0] = 1
      BY <2>0, <2>3, FS_Singleton DEF rank
    <2>5. x0 \in F
      BY SMT, <2>0, <2>4
    <2> DEFINE V == {rk[x] : x \in F}
    <2>6. V \in SUBSET (0..n) /\ V # {}
      <3>1. \A x \in F : rk[x] \in Nat /\ rk[x] <= n
        BY <2>0
      <3>2. \A x \in F : rk[x] \in 0..n
        BY SMT, <3>1
      <3>3. rk[x0] \in V
        BY <2>5
      <3>4. ASSUME NEW v \in V PROVE v \in 0..n
        <4>1. PICK x \in F : v = rk[x]
          BY <3>4
        <4> QED BY <3>2, <4>1
      <3> QED BY <3>3, <3>4
    <2>7. PICK m \in F : \A x \in F : rk[x] <= rk[m]
      <3>1. PICK k \in V : \A j \in V : j <= k
        <4> HIDE DEF V
        <4> QED BY <2>6, GreatestNat
      <3>2. \A x \in F : rk[x] \in V
        OBVIOUS
      <3>3. PICK m \in F : k = rk[m]
        OBVIOUS
      <3> QED BY <3>1, <3>2, <3>3
    <2>8. m \in S /\ rk[m] <= n
      BY <2>0
    <2>9. ASSUME NEW x \in F PROVE <<x, m>> \in R
      <3>1. x \in S /\ rk[x] <= rk[m]
        BY <2>0, <2>7
      <3>2. <<m, x>> \in R => x = m
        BY SMT, <2>0, <2>8, <3>1
      <3> QED BY <1>0, <2>8, <3>1, <3>2
    <2>10. ASSUME NEW y \in S, <<y, m>> \in R PROVE y \in F
      BY SMT, <2>0, <2>8, <2>10
    <2>11. F \subseteq S
      BY <2>0
    <2> QED BY <2>9, <2>10, <2>11
  <1> QED BY <1>7, <1>8 DEF F, UpTo

-----------------------------------------------------------------------------
(* The audits.  Pages of users: nobody beyond the cursor has been seen, and *)
(* of those before it whoever kept access has; after the last page that is  *)
(* everybody who kept it.                                                   *)
MorePages == walk.at \in {"off", "users"} \/ (walk.at = "paths" /\ walk.cursor # 0)
Walked ==
    /\ walk.at = "off" => walk.cursor = 0
    /\ walk.steady \subseteq ListHostAccessUsers(Host)
    /\ \A u \in Users :
        /\ walk.seen[u] <= 1
        /\ MorePages /\ Email[u] > walk.cursor => walk.seen[u] = 0
        /\ u \in walk.steady /\ (MorePages => Email[u] <= walk.cursor) => walk.seen[u] = 1

(* What was there at a page's first query and still is was never missed.    *)
PathsKept == walk.split = {} /\ walk.kept \subseteq HostAccess(walk.page)

(* What has been there since a report began is there now, and is listed     *)
(* once the query that lists it has run.                                    *)
ReportKept ==
    /\ report.kept \subseteq SecretAccess /\ report.steady \subseteq ListActiveAdmins
    /\ report.at = "group" => \A gr \in report.kept : gr.target = Secret => gr \in report.entries
    /\ report.at \in {"admins", "done"} => report.kept \subseteq report.entries
    /\ report.at = "done" => report.steady \subseteq report.admins

(* Pages of the log: the same with the order of its rows.                   *)
Ahead(r) == scroll.cursor = <<0, 0>> \/ Before(r, scroll.cursor)
Scrolled ==
    /\ IsFiniteSet(logs) /\ scroll.start \subseteq logs
    /\ scroll.at = "off" => scroll.cursor = <<0, 0>>
    /\ \A r \in LogRows :
        /\ scroll.seen[r] <= 1
        /\ scroll.at # "done" /\ Ahead(r) => scroll.seen[r] = 0
        /\ r \in scroll.start /\ (scroll.at # "done" => ~Ahead(r)) => scroll.seen[r] = 1

AuditInv == AuditTypeOK /\ Walked /\ PathsKept /\ ReportKept /\ Scrolled

(* A request on the tables leaves them typed, with members only in groups   *)
(* that are there.                                                          *)
LEMMA AuditedTables ==
  ASSUME AuditInv, handleCreateGrant \/ handleRevokeGrant \/ ChangeMembers \/ ChangeUser
  PROVE  TablesOK' /\ (\A m \in members' : row'[m[1]] = "live")
  <1>1. /\ IsABag(grants) /\ Live \subseteq Grant /\ members \subseteq Groups \X Resources
        /\ row \in [Rows -> {"new", "live", "gone"}]
        /\ ustatus \in [Users -> {"active", "suspended", "removed"}]
        /\ \A m \in members : row[m[1]] = "live"
    BY DEF AuditInv, AuditTypeOK, TablesOK
  <1>2. CASE handleCreateGrant
    <2>1. PICK gr \in Wanted[reader] : AddGrants({gr})
      BY <1>2 DEF handleCreateGrant
    <2>2. gr \in Grant /\ UNCHANGED <<members, row, ustatus>>
      BY <1>2, AuditedAssumption DEF handleCreateGrant, AuditInv, AuditTypeOK
    <2>3. IsABag(grants') /\ Live' = Live \cup {gr}
      BY <1>1, <2>1, AddedGrants
    <2> QED BY <1>1, <2>2, <2>3 DEF TablesOK
  <1>3. CASE handleRevokeGrant
    <2>1. PICK gr \in Live : RevokeGrant(gr)
      BY <1>3 DEF handleRevokeGrant
    <2>2. IsABag(grants') /\ Live' \subseteq Live /\ UNCHANGED <<members, row, ustatus>>
      BY <1>1, <1>3, <2>1, RevokedGrant DEF handleRevokeGrant
    <2> QED BY <1>1, <2>2 DEF TablesOK
  <1>4. ASSUME NEW g \in Groups, DeleteGroup(g)
        PROVE  TablesOK' /\ (\A m \in members' : row'[m[1]] = "live")
    <2>1. /\ row' = [row EXCEPT ![g] = "gone"] /\ ustatus' = ustatus
          /\ members' = {m \in members : m[1] # g}
          /\ grants' = [gr \in {gr \in Live : gr.target # g} |-> grants[gr]]
      BY <1>4 DEF DeleteGroup, Cascade, RevokeGroupGrants
    <2>2. IsABag(grants') /\ Live' = {gr \in Live : gr.target # g}
      BY <1>1, <2>1, KeptGrants
    <2>3. g \in Rows /\ \A m \in members : m[1] \in Rows
      BY <1>1 DEF Rows
    <2>4. /\ row' \in [Rows -> {"new", "live", "gone"}]
          /\ \A m \in members' : row'[m[1]] = "live"
      BY <1>1, <2>1, <2>3
    <2> QED BY <1>1, <2>1, <2>2, <2>4 DEF TablesOK
  <1>5. ASSUME NEW g \in Groups, NEW x \in {Host, Secret},
               AddGroupResource(g, x) \/ RemoveGroupResource(g, x)
        PROVE  TablesOK' /\ (\A m \in members' : row'[m[1]] = "live")
    <2>1. x \in Resources
      BY AuditedAssumption DEF Resources
    <2>2. UNCHANGED <<grants, row, ustatus>> /\ Live' = Live
      BY <1>5 DEF AddGroupResource, RemoveGroupResource, Live
    <2>3. members' \subseteq Groups \X Resources /\ \A m \in members' : row[m[1]] = "live"
      BY SMT, <1>1, <1>5, <2>1 DEF AddGroupResource, RemoveGroupResource
    <2> QED BY <1>1, <2>2, <2>3 DEF TablesOK
  <1>6. CASE ChangeUser
    <2>1. PICK u \in Users :
            /\ UNCHANGED <<members, row>>
            /\ \E st \in {"active", "suspended", "removed"} : ustatus' = [ustatus EXCEPT ![u] = st]
            /\ grants' = grants \/ grants' = [gr \in {gr \in Live : gr.user # u} |-> grants[gr]]
      BY <1>6 DEF ChangeUser
    <2>2. IsABag(grants') /\ Live' \subseteq Live
      BY SMT, <1>1, <2>1, KeptGrants DEF Live
    <2>3. ustatus' \in [Users -> {"active", "suspended", "removed"}]
      BY <1>1, <2>1
    <2> QED BY <1>1, <2>1, <2>2, <2>3 DEF TablesOK
  <1> QED BY <1>2, <1>3, <1>4, <1>5, <1>6 DEF ChangeMembers

(* The history that goes along with a change stays within what is there.    *)
LEMMA AuditedChange ==
  ASSUME AuditInv, ChangeTables
  PROVE  AuditInv'
  <1>1. TablesOK' /\ (\A m \in members' : row'[m[1]] = "live")
    BY AuditedTables DEF ChangeTables
  <1>2. /\ walk' = [walk EXCEPT !.steady = @ \cap ListHostAccessUsers(Host)',
                                !.kept = @ \cap HostAccess(Users)']
        /\ report' = [report EXCEPT !.kept = @ \cap SecretAccess', !.steady = @ \cap ListActiveAdmins']
        /\ UNCHANGED <<reader, logs, scroll>>
    BY DEF ChangeTables
  <1>3. /\ walk \in [at : {"off", "users", "paths", "done"}, cursor : Nat, page : SUBSET Users,
                     seen : [Users -> Nat], steady : SUBSET Users,
                     kept : SUBSET Grant, split : SUBSET Grant]
        /\ report \in [at : {"off", "direct", "group", "admins", "done"},
                       entries : SUBSET Grant, admins : SUBSET Users,
                       kept : SUBSET Grant, steady : SUBSET Users]
    BY DEF AuditInv, AuditTypeOK
  <1> DEFINE W == ListHostAccessUsers(Host)'
             G == HostAccess(Users)'
             A == SecretAccess'
             B == ListActiveAdmins'
  <1>4. /\ walk' = [walk EXCEPT !.steady = walk.steady \cap W, !.kept = walk.kept \cap G]
        /\ report' = [report EXCEPT !.kept = report.kept \cap A, !.steady = report.steady \cap B]
    BY <1>2
  <1> HIDE DEF W, G, A, B
  <1>5. /\ walk'.at = walk.at /\ walk'.cursor = walk.cursor /\ walk'.page = walk.page
        /\ walk'.seen = walk.seen /\ walk'.steady = walk.steady \cap W
        /\ walk'.kept = walk.kept \cap G /\ walk'.split = walk.split
        /\ walk' \in [at : {"off", "users", "paths", "done"}, cursor : Nat, page : SUBSET Users,
                      seen : [Users -> Nat], steady : SUBSET Users,
                      kept : SUBSET Grant, split : SUBSET Grant]
    BY <1>3, <1>4
  <1>6. /\ report'.at = report.at /\ report'.entries = report.entries
        /\ report'.admins = report.admins
        /\ report'.kept = report.kept \cap A /\ report'.steady = report.steady \cap B
        /\ report' \in [at : {"off", "direct", "group", "admins", "done"},
                        entries : SUBSET Grant, admins : SUBSET Users,
                        kept : SUBSET Grant, steady : SUBSET Users]
    BY <1>3, <1>4
  <1>7. AuditTypeOK'
    BY <1>1, <1>2, <1>5, <1>6 DEF AuditInv, AuditTypeOK
  <1>8. Walked'
    BY <1>5 DEF AuditInv, Walked, MorePages, W
  <1>9. PathsKept'
    <2>1. walk'.kept \subseteq HostAccess(Users)'
      BY <1>5 DEF G
    <2>2. \A gr \in walk'.kept : gr.user \in walk.page
      BY <1>5 DEF AuditInv, PathsKept, HostAccess
    <2> QED BY <1>5, <2>1, <2>2 DEF AuditInv, PathsKept, HostAccess
  <1>10. ReportKept'
    BY <1>6 DEF AuditInv, ReportKept, A, B
  <1>11. Scrolled'
    BY <1>2 DEF AuditInv, Scrolled, Ahead
  <1> QED BY <1>1, <1>7, <1>8, <1>9, <1>10, <1>11 DEF AuditInv

(* A page of users is an initial part of those after the cursor.            *)
LEMMA PageOfUsers ==
  ASSUME NEW S \in SUBSET Users
  PROVE  /\ FirstOf(S, Limit) \subseteq S
         /\ Cardinality(S) <= Limit => FirstOf(S, Limit) = S
         /\ S # {} => /\ FirstOf(S, Limit) # {} /\ NextCursor(S) \in Nat
                      /\ \E m \in S : NextCursor(S) = Email[m]
                      /\ \A u \in S : u \in FirstOf(S, Limit) <=> Email[u] <= NextCursor(S)
  <1> DEFINE R == {e \in Users \X Users : Email[e[1]] <= Email[e[2]]}
             F == FirstOf(S, Limit)
  <1>1. \A u \in S : u \in Users /\ Email[u] \in Nat
    BY EmailAssumption
  <1>2. \A u, v \in S : <<v, u>> \in R <=> Email[v] <= Email[u]
    BY <1>1
  <1>3. F = Firsts(R, S, Limit)
    <2> HIDE DEF R
    <2>1. \A u \in S : {v \in S : Email[v] <= Email[u]} = UpTo(R, S, u)
      BY <1>2 DEF UpTo
    <2> QED BY <2>1 DEF FirstOf, Firsts
  <1>4. IsFiniteSet(S) /\ Limit \in Nat \ {0}
    BY UsersAssumption, PageAssumption, FS_Subset
  <1>5. Orders(R, S)
    <2> HIDE DEF R
    <2>1. \A x, y \in S : Email[x] <= Email[y] /\ Email[y] <= Email[x] => x = y
      BY SMT, <1>1, EmailAssumption
    <2> QED BY SMT, <1>1, <1>2, <2>1 DEF Orders
  <1> HIDE DEF R, F
  <1>6. /\ Cardinality(S) <= Limit => F = S
        /\ S # {} => \E m \in F : F = UpTo(R, S, m)
    BY SMT, <1>3, <1>4, <1>5, Page
  <1>7. F \subseteq S
    BY <1>3 DEF Firsts
  <1>8. ASSUME S # {}
        PROVE  /\ F # {} /\ NextCursor(S) \in Nat /\ \E m \in S : NextCursor(S) = Email[m]
               /\ \A u \in S : u \in F <=> Email[u] <= NextCursor(S)
    <2>1. PICK m \in F : F = UpTo(R, S, m)
      BY <1>6, <1>8
    <2>2. m \in S /\ \A u \in S : u \in F <=> Email[u] <= Email[m]
      BY <1>2, <1>7, <2>1 DEF UpTo
    <2>3. NextCursor(S) = CHOOSE e \in {Email[u] : u \in F} : \A u \in F : Email[u] <= e
      BY DEF NextCursor, LastEmail, F
    <2>4. Email[m] \in {Email[u] : u \in F} /\ \A u \in F : Email[u] <= Email[m]
      BY <1>7, <2>2
    <2>5. NextCursor(S) \in {Email[u] : u \in F} /\ \A u \in F : Email[u] <= NextCursor(S)
      BY <2>3, <2>4
    <2>6. NextCursor(S) = Email[m]
      BY SMT, <1>1, <1>7, <2>2, <2>4, <2>5
    <2> QED BY <1>1, <2>2, <2>6
  <1> QED BY <1>6, <1>7, <1>8 DEF F

(* The pages of users.                                                      *)
LEMMA WalkStep ==
  ASSUME AuditInv, StartWalk \/ ListUsers \/ ListPaths
  PROVE  AuditInv'
  <1>1. /\ walk \in [at : {"off", "users", "paths", "done"}, cursor : Nat, page : SUBSET Users,
                     seen : [Users -> Nat], steady : SUBSET Users,
                     kept : SUBSET Grant, split : SUBSET Grant]
        /\ TablesOK /\ Live \subseteq Grant
    BY DEF AuditInv, AuditTypeOK, TablesOK
  <1>2. UNCHANGED <<reader, grants, members, row, ustatus, report, logs, scroll>>
    BY DEF StartWalk, ListUsers, ListPaths, tables
  <1>3. /\ Live' = Live /\ ListHostAccessUsers(Host)' = ListHostAccessUsers(Host)
        /\ SecretAccess' = SecretAccess /\ ListActiveAdmins' = ListActiveAdmins
    BY <1>2 DEF Live, ListHostAccessUsers, Held, Through, MemberOf, SecretAccess, ListActiveAdmins
  <1>4. \A S : HostAccess(S)' = HostAccess(S)
    BY <1>2, <1>3 DEF HostAccess, Through, MemberOf
  <1>5. SUFFICES /\ walk' \in [at : {"off", "users", "paths", "done"}, cursor : Nat, page : SUBSET Users,
                               seen : [Users -> Nat], steady : SUBSET Users,
                               kept : SUBSET Grant, split : SUBSET Grant]
                 /\ Walked' /\ walk'.split = {} /\ walk'.kept \subseteq HostAccess(walk'.page)
    <2>1. TablesOK'
      BY <1>1, <1>2, <1>3 DEF TablesOK
    <2>2. AuditTypeOK' /\ PathsKept'
      BY <1>2, <1>4, <1>5, <2>1 DEF AuditInv, AuditTypeOK, PathsKept
    <2>3. ReportKept' /\ Scrolled'
      BY <1>2, <1>3 DEF AuditInv, ReportKept, Scrolled, Ahead
    <2> QED BY <1>5, <2>2, <2>3 DEF AuditInv
  <1>6. \A u \in Users : Email[u] \in Nat /\ Email[u] > 0 /\ walk.seen[u] \in Nat
    BY SMT, <1>1, EmailAssumption
  <1>7. Walked /\ walk.split = {} /\ walk.kept \subseteq HostAccess(walk.page)
    BY DEF AuditInv, PathsKept
  <1>8. CASE StartWalk
    <2> DEFINE W == ListHostAccessUsers(Host)
    <2>1. walk.at = "off" /\ walk' = [walk EXCEPT !.at = "users", !.steady = W] /\ W \subseteq Users
      BY <1>8 DEF StartWalk, ListHostAccessUsers
    <2> HIDE DEF W
    <2>2. /\ walk'.at = "users" /\ walk'.cursor = walk.cursor /\ walk'.page = walk.page
          /\ walk'.seen = walk.seen /\ walk'.steady = W /\ walk'.kept = walk.kept
          /\ walk'.split = walk.split
          /\ walk' \in [at : {"off", "users", "paths", "done"}, cursor : Nat, page : SUBSET Users,
                        seen : [Users -> Nat], steady : SUBSET Users,
                        kept : SUBSET Grant, split : SUBSET Grant]
      BY <1>1, <2>1
    <2>3. Walked'
      BY SMT, <1>3, <1>6, <1>7, <2>1, <2>2 DEF Walked, MorePages, W
    <2> QED BY <1>7, <2>2, <2>3
  <1>9. CASE ListUsers
    <2> DEFINE S == UsersAfter(walk.cursor)
               P == FirstOf(S, Limit)
               c == IF Cardinality(S) > Limit THEN NextCursor(S) ELSE 0
               f == [u \in Users |-> IF u \in P THEN walk.seen[u] + 1 ELSE walk.seen[u]]
               K == HostAccess(P)
               a == IF P = {} THEN "done" ELSE "paths"
    <2>1. /\ walk.at = "users"
          /\ walk' = [walk EXCEPT !.at = a, !.page = P, !.cursor = c, !.seen = f, !.kept = K]
      BY <1>9 DEF ListUsers
    <2>2. S \subseteq Users /\ \A u \in Users : u \in S <=> u \in ListHostAccessUsers(Host) /\ Email[u] > walk.cursor
      BY DEF UsersAfter, ListHostAccessUsers
    <2>3. /\ P \subseteq S
          /\ Cardinality(S) <= Limit => P = S
          /\ S # {} => /\ P # {} /\ NextCursor(S) \in Nat
                       /\ \E m \in S : NextCursor(S) = Email[m]
                       /\ \A u \in S : u \in P <=> Email[u] <= NextCursor(S)
      BY <2>2, PageOfUsers
    <2>4. IsFiniteSet(S) /\ Cardinality(S) \in Nat /\ Limit \in Nat \ {0}
      BY <2>2, UsersAssumption, PageAssumption, FS_Subset, FS_CardinalityType
    <2>5. S = {} => Cardinality(S) = 0
      BY FS_EmptySet
    <2>6. c \in Nat /\ (Cardinality(S) > Limit => c = NextCursor(S)) /\ (Cardinality(S) <= Limit => c = 0)
      BY SMT, <2>3, <2>4, <2>5
    <2>7. f \in [Users -> Nat] /\ \A u \in Users : f[u] = IF u \in P THEN walk.seen[u] + 1 ELSE walk.seen[u]
      BY SMT, <1>6
    <2>8. K \subseteq Grant /\ P \subseteq Users /\ K = HostAccess(P)
      BY <1>1, <2>2, <2>3 DEF HostAccess
    <2> HIDE DEF S, P, c, f, K
    <2>9. /\ walk'.at = a /\ walk'.cursor = c /\ walk'.page = P
          /\ walk'.seen = f /\ walk'.steady = walk.steady /\ walk'.kept = K
          /\ walk'.split = walk.split
          /\ walk' \in [at : {"off", "users", "paths", "done"}, cursor : Nat, page : SUBSET Users,
                        seen : [Users -> Nat], steady : SUBSET Users,
                        kept : SUBSET Grant, split : SUBSET Grant]
      BY <1>1, <2>1, <2>6, <2>7, <2>8
    <2>10. /\ walk.steady \subseteq ListHostAccessUsers(Host)
           /\ \A u \in Users :
               /\ walk.seen[u] <= 1
               /\ Email[u] > walk.cursor => walk.seen[u] = 0
               /\ u \in walk.steady /\ Email[u] <= walk.cursor => walk.seen[u] = 1
      BY <1>7, <2>1 DEF Walked, MorePages
    <2>11. CASE Cardinality(S) <= Limit
      <3>1. P = S /\ c = 0
        BY <2>3, <2>6, <2>11
      <3>2. \A u \in Users : f[u] <= 1 /\ (u \in walk.steady => f[u] = 1)
        BY SMT, <1>1, <1>6, <2>2, <2>7, <2>10, <3>1
      <3>3. ~MorePages'
        BY <2>9, <3>1 DEF MorePages
      <3> QED BY <1>3, <1>7, <2>8, <2>9, <2>10, <3>2, <3>3 DEF Walked
    <2>12. CASE Cardinality(S) > Limit
      <3>1. S # {} /\ c = NextCursor(S)
        BY SMT, <2>4, <2>5, <2>6, <2>12
      <3>2. PICK m \in S : c = Email[m]
        BY <2>3, <3>1
      <3>3. m \in Users /\ walk.cursor \in Nat /\ c > walk.cursor
        BY <1>1, <2>2, <3>2
      <3>4. ASSUME NEW u \in Users
            PROVE  /\ f[u] <= 1 /\ (Email[u] > c => f[u] = 0)
                   /\ u \in walk.steady /\ Email[u] <= c => f[u] = 1
        <4>1. u \in P <=> u \in S /\ Email[u] <= c
          BY <2>3, <3>1
        <4>2. CASE Email[u] <= walk.cursor
          BY SMT, <1>1, <1>6, <2>2, <2>6, <2>7, <2>10, <3>3, <4>1, <4>2
        <4>3. CASE Email[u] > walk.cursor
          BY SMT, <1>1, <1>6, <2>2, <2>6, <2>7, <2>10, <3>3, <4>1, <4>3
        <4> QED BY SMT, <1>1, <1>6, <4>2, <4>3
      <3>5. walk'.at = "paths" /\ c # 0
        BY SMT, <1>1, <2>3, <2>6, <2>9, <3>1, <3>3
      <3> QED BY SMT, <1>3, <1>7, <2>8, <2>9, <2>10, <3>4, <3>5 DEF Walked, MorePages
    <2> QED BY SMT, <2>4, <2>11, <2>12
  <1>10. CASE ListPaths
    <2> DEFINE a == IF walk.cursor = 0 THEN "done" ELSE "users"
               s == walk.split \cup (walk.kept \ ListHostAccessPathsForUsers(Host, walk.page))
    <2>1. /\ walk.at = "paths"
          /\ walk' = [walk EXCEPT !.at = a, !.split = s, !.kept = {}]
      BY <1>10 DEF ListPaths
    <2>2. HostAccess(walk.page) \subseteq ListHostAccessPathsForUsers(Host, walk.page)
      <3>1. \A g \in Groups : MemberOf(g, Host) => g \in GroupsForResource(Host)
        BY DEF AuditInv, AuditTypeOK, MemberOf, GroupsForResource, LiveRows
      <3> QED BY <3>1 DEF HostAccess, ListHostAccessPathsForUsers, Through
    <2>3. s = {}
      BY <1>7, <2>2
    <2> HIDE DEF s
    <2>4. /\ walk'.at = a /\ walk'.cursor = walk.cursor /\ walk'.page = walk.page
          /\ walk'.seen = walk.seen /\ walk'.steady = walk.steady /\ walk'.kept = {}
          /\ walk'.split = {}
          /\ walk' \in [at : {"off", "users", "paths", "done"}, cursor : Nat, page : SUBSET Users,
                        seen : [Users -> Nat], steady : SUBSET Users,
                        kept : SUBSET Grant, split : SUBSET Grant]
      BY <1>1, <2>1, <2>3
    <2>5. Walked'
      BY SMT, <1>3, <1>7, <2>1, <2>4 DEF Walked, MorePages
    <2> QED BY <2>4, <2>5
  <1> QED BY <1>8, <1>9, <1>10

(* The three queries of a secret's audit.                                   *)
LEMMA ReportStep ==
  ASSUME AuditInv, StartReport \/ ReadAccess
  PROVE  AuditInv'
  <1>1. /\ report \in [at : {"off", "direct", "group", "admins", "done"},
                       entries : SUBSET Grant, admins : SUBSET Users,
                       kept : SUBSET Grant, steady : SUBSET Users]
        /\ TablesOK /\ Live \subseteq Grant /\ ReportKept
    BY DEF AuditInv, AuditTypeOK, TablesOK
  <1>2. UNCHANGED <<reader, grants, members, row, ustatus, walk, logs, scroll>>
    BY DEF StartReport, ReadAccess, tables
  <1>3. /\ Live' = Live /\ ListHostAccessUsers(Host)' = ListHostAccessUsers(Host)
        /\ SecretAccess' = SecretAccess /\ ListActiveAdmins' = ListActiveAdmins
    BY <1>2 DEF Live, ListHostAccessUsers, Held, Through, MemberOf, SecretAccess, ListActiveAdmins
  <1>4. HostAccess(walk.page)' = HostAccess(walk.page)
    BY <1>2, <1>3 DEF HostAccess, Through, MemberOf
  <1>5. SUFFICES /\ report' \in [at : {"off", "direct", "group", "admins", "done"},
                                 entries : SUBSET Grant, admins : SUBSET Users,
                                 kept : SUBSET Grant, steady : SUBSET Users]
                 /\ ReportKept'
    <2>1. TablesOK'
      BY <1>1, <1>2, <1>3 DEF TablesOK
    <2>2. AuditTypeOK' /\ PathsKept'
      BY SMT, <1>2, <1>4, <1>5, <2>1 DEF AuditInv, AuditTypeOK, PathsKept
    <2>3. Walked' /\ Scrolled'
      BY <1>2, <1>3 DEF AuditInv, Walked, MorePages, Scrolled, Ahead
    <2> QED BY <1>5, <2>2, <2>3 DEF AuditInv
  <1> DEFINE A == SecretAccess
             B == ListActiveAdmins
             D == ListSecretDirectAccess(Secret)
             G == ListSecretGroupAccess(Secret)
  <1>6. /\ A \subseteq Grant /\ B \subseteq Users /\ D \subseteq Grant /\ G \subseteq Grant
        /\ \A gr \in A : gr \in D \/ gr \in G
        /\ \A gr \in A : gr.target = Secret => gr \in D
    <2>1. \A g \in Groups : MemberOf(g, Secret) => g \in GroupsForResource(Secret)
      BY DEF AuditInv, AuditTypeOK, MemberOf, GroupsForResource, LiveRows
    <2> QED BY <1>1, <2>1, KindAssumption DEF SecretAccess, ListActiveAdmins, ListSecretDirectAccess,
          ListSecretGroupAccess, Through
  <1>7. /\ report.kept \subseteq A /\ report.steady \subseteq B
        /\ SecretAccess' = A /\ ListActiveAdmins' = B
    BY <1>1, <1>3 DEF ReportKept
  <1>8. CASE StartReport
    <2>1. report' = [report EXCEPT !.at = "direct", !.kept = A, !.steady = B]
      BY <1>8 DEF StartReport
    <2> HIDE DEF A, B, D, G
    <2>2. /\ report'.at = "direct" /\ report'.kept = A /\ report'.steady = B
          /\ report' \in [at : {"off", "direct", "group", "admins", "done"},
                          entries : SUBSET Grant, admins : SUBSET Users,
                          kept : SUBSET Grant, steady : SUBSET Users]
      BY <1>1, <1>6, <2>1
    <2> QED BY <1>7, <2>2 DEF ReportKept
  <1>9. CASE report.at = "direct" /\ report' = [report EXCEPT !.at = "group", !.entries = D]
    <2> HIDE DEF A, B, D, G
    <2>1. /\ report'.at = "group" /\ report'.entries = D
          /\ report'.kept = report.kept /\ report'.steady = report.steady
          /\ report' \in [at : {"off", "direct", "group", "admins", "done"},
                          entries : SUBSET Grant, admins : SUBSET Users,
                          kept : SUBSET Grant, steady : SUBSET Users]
      BY <1>1, <1>6, <1>9
    <2> QED BY <1>6, <1>7, <2>1 DEF ReportKept
  <1>10. CASE /\ report.at = "group"
              /\ report' = [report EXCEPT !.at = "admins", !.entries = report.entries \cup G]
    <2>0. \A gr \in report.kept : gr \in G \/ gr \in report.entries
      BY <1>1, <1>6, <1>7, <1>10 DEF ReportKept, ListSecretDirectAccess
    <2> HIDE DEF A, B, D, G
    <2>1. /\ report'.at = "admins" /\ report'.entries = report.entries \cup G
          /\ report'.kept = report.kept /\ report'.steady = report.steady
          /\ report' \in [at : {"off", "direct", "group", "admins", "done"},
                          entries : SUBSET Grant, admins : SUBSET Users,
                          kept : SUBSET Grant, steady : SUBSET Users]
      BY <1>1, <1>6, <1>10
    <2> QED BY <1>7, <2>0, <2>1 DEF ReportKept
  <1>11. CASE /\ report.at = "admins"
              /\ report' = [report EXCEPT !.at = "done", !.admins = B]
    <2> HIDE DEF A, B, D, G
    <2>1. /\ report'.at = "done" /\ report'.entries = report.entries /\ report'.admins = B
          /\ report'.kept = report.kept /\ report'.steady = report.steady
          /\ report' \in [at : {"off", "direct", "group", "admins", "done"},
                          entries : SUBSET Grant, admins : SUBSET Users,
                          kept : SUBSET Grant, steady : SUBSET Users]
      BY <1>1, <1>6, <1>11
    <2> QED BY <1>1, <1>7, <1>11, <2>1 DEF ReportKept
  <1> QED BY <1>8, <1>9, <1>10, <1>11 DEF ReadAccess

(* A page of the log is an initial part of the rows after the cursor.       *)
LEMMA PageOfRows ==
  ASSUME NEW S \in SUBSET LogRows, IsFiniteSet(S)
  PROVE  LET P == LatestOf(S, Limit)
             c == CHOOSE r \in P : \A q \in P : ~Before(q, r)
         IN  /\ P \subseteq S
             /\ Cardinality(S) <= Limit => P = S
             /\ S # {} => c \in S /\ \A r \in S : r \in P <=> ~Before(r, c)
  <1> DEFINE R == {e \in LogRows \X LogRows : e[1] = e[2] \/ Before(e[2], e[1])}
             P == LatestOf(S, Limit)
             c == CHOOSE r \in P : \A q \in P : ~Before(q, r)
  <1>1. \A r \in S : r \in LogRows /\ r = <<r[1], r[2]>> /\ r[1] \in Nat \ {0} /\ r[2] \in Nat \ {0}
    <2>1. Times \subseteq Nat \ {0} /\ 1..MaxLogs \subseteq Nat \ {0}
      BY SMT, PageAssumption
    <2> DEFINE I == 1..MaxLogs
    <2>2. LogRows = Times \X I
      BY DEF LogRows
    <2> HIDE DEF I
    <2>3. \A r \in LogRows : r = <<r[1], r[2]>> /\ r[1] \in Times /\ r[2] \in I
      BY SMT, <2>2
    <2>4. I \subseteq Nat \ {0}
      BY <2>1 DEF I
    <2> QED BY <2>1, <2>3, <2>4
  <1>2. \A r, q \in S : <<q, r>> \in R <=> r = q \/ Before(r, q)
    BY <1>1
  <1>3. P = Firsts(R, S, Limit)
    <2> HIDE DEF R
    <2>1. \A r \in S : {q \in S : r = q \/ Before(r, q)} = UpTo(R, S, r)
      BY <1>2 DEF UpTo
    <2> QED BY <2>1 DEF LatestOf, Firsts
  <1>4. /\ \A x, y \in S : x = y \/ Before(x, y) \/ Before(y, x)
        /\ \A x, y \in S : ~(Before(x, y) /\ Before(y, x)) /\ ~Before(x, x)
        /\ \A x, y, z \in S : Before(x, y) /\ Before(y, z) => Before(x, z)
    BY SMT, <1>1 DEF Before
  <1>5. Orders(R, S)
    <2> HIDE DEF R
    <2> QED BY <1>2, <1>4 DEF Orders
  <1> HIDE DEF R, P
  <1>6. /\ Cardinality(S) <= Limit => P = S
        /\ S # {} => \E m \in P : P = UpTo(R, S, m)
    BY <1>3, <1>5, PageAssumption, Page
  <1>7. P \subseteq S
    BY <1>3 DEF Firsts
  <1>8. ASSUME S # {} PROVE c \in S /\ \A r \in S : r \in P <=> ~Before(r, c)
    <2>1. PICK m \in P : P = UpTo(R, S, m)
      BY <1>6, <1>8
    <2>2. m \in S /\ \A r \in S : r \in P <=> r = m \/ Before(m, r)
      BY <1>2, <1>7, <2>1 DEF UpTo
    <2>3. \A q \in P : ~Before(q, m)
      BY <1>4, <1>7, <2>2
    <2>4. c \in P /\ \A q \in P : ~Before(q, c)
      BY <2>1, <2>3
    <2>5. c = m
      BY <1>7, <2>2, <2>4
    <2> HIDE DEF c
    <2> QED BY <1>4, <2>2, <2>5
  <1> QED BY <1>6, <1>7, <1>8 DEF P

(* The pages of the log, and the rows that hosts add to it.                 *)
LEMMA ScrollStep ==
  ASSUME AuditInv, InsertAccessLog \/ StartScroll \/ ListHostAccessLogs
  PROVE  AuditInv'
  <1> DEFINE Type == [at : {"off", "rows", "done"}, cursor : LogRows \cup {<<0, 0>>},
                      start : SUBSET LogRows, seen : [LogRows -> Nat]]
  <1>1. scroll \in Type /\ logs \subseteq LogRows /\ Scrolled
    BY DEF AuditInv, AuditTypeOK
  <1>2. UNCHANGED <<reader, grants, members, row, ustatus, walk, report>>
    BY DEF InsertAccessLog, StartScroll, ListHostAccessLogs, tables
  <1>3. SUFFICES scroll' \in Type /\ logs' \subseteq LogRows /\ Scrolled'
    <2>0. scroll' \in Type /\ logs' \subseteq LogRows /\ Scrolled'
      BY <1>3
    <2>1. Live' = Live
      BY <1>2 DEF Live
    <2>2. TablesOK'
      BY <1>2, <2>1 DEF AuditInv, AuditTypeOK, TablesOK
    <2>3. AuditTypeOK'
      BY <1>2, <2>0, <2>2 DEF AuditInv, AuditTypeOK
    <2>4. Walked'
      BY SMT, <1>2, <2>1 DEF AuditInv, Walked, MorePages, ListHostAccessUsers, Held, Through, MemberOf
    <2>5. PathsKept'
      BY <1>2, <2>1 DEF AuditInv, PathsKept, HostAccess, Through, MemberOf
    <2>6. ReportKept'
      BY <1>2, <2>1 DEF AuditInv, ReportKept, SecretAccess, ListActiveAdmins, Through, MemberOf
    <2> QED BY <2>0, <2>3, <2>4, <2>5, <2>6 DEF AuditInv
  <1>4. CASE InsertAccessLog
    <2>1. PICK r \in LogRows : logs' = logs \cup {r}
      BY <1>4 DEF InsertAccessLog
    <2>2. scroll' = scroll
      BY <1>4 DEF InsertAccessLog
    <2>3. IsFiniteSet(logs')
      BY <1>1, <2>1, FS_AddElement DEF Scrolled
    <2> QED BY <1>1, <2>1, <2>2, <2>3 DEF Scrolled, Ahead
  <1>5. CASE StartScroll
    <2>1. /\ scroll.at = "off" /\ logs' = logs
          /\ scroll' = [scroll EXCEPT !.at = "rows", !.start = logs]
      BY <1>5 DEF StartScroll
    <2>2. /\ scroll'.at = "rows" /\ scroll'.start = logs /\ scroll'.cursor = scroll.cursor
          /\ scroll'.seen = scroll.seen /\ scroll' \in Type
      BY <1>1, <2>1
    <2>3. scroll.cursor = <<0, 0>>
      BY <1>1, <2>1 DEF Scrolled
    <2>4. Scrolled'
      BY <1>1, <2>1, <2>2, <2>3 DEF Scrolled, Ahead
    <2> QED BY <1>1, <2>1, <2>2, <2>4
  <1>6. CASE ListHostAccessLogs
    <2> DEFINE S == RowsAfter(scroll.cursor)
               P == LatestOf(S, Limit)
               more == Cardinality(S) > Limit
               m == CHOOSE r \in P : \A q \in P : ~Before(q, r)
               a == IF more THEN "rows" ELSE "done"
               c == IF more THEN m ELSE scroll.cursor
               f == [r \in LogRows |-> IF r \in P THEN scroll.seen[r] + 1 ELSE scroll.seen[r]]
    <2>1. /\ scroll.at = "rows" /\ logs' = logs
          /\ scroll' = [scroll EXCEPT !.at = a, !.cursor = c, !.seen = f]
      BY <1>6 DEF ListHostAccessLogs
    <2>2. S \subseteq logs /\ \A r \in logs : r \in S <=> Ahead(r)
      BY DEF RowsAfter, Ahead
    <2>3. IsFiniteSet(S) /\ Cardinality(S) \in Nat /\ Limit \in Nat \ {0} /\ S \in SUBSET LogRows
      BY <1>1, <2>2, PageAssumption, FS_Subset, FS_CardinalityType DEF Scrolled
    <2>4. /\ P \subseteq S /\ (Cardinality(S) <= Limit => P = S)
          /\ S # {} => m \in S /\ \A r \in S : r \in P <=> ~Before(r, m)
      BY <2>3, PageOfRows
    <2>5. more => S # {}
      BY SMT, <2>3, FS_EmptySet
    <2>6. f \in [LogRows -> Nat]
          /\ \A r \in LogRows : f[r] = IF r \in P THEN scroll.seen[r] + 1 ELSE scroll.seen[r]
      BY SMT, <1>1
    <2>7. /\ scroll.start \subseteq logs
          /\ \A r \in LogRows :
              /\ scroll.seen[r] \in Nat /\ scroll.seen[r] <= 1
              /\ Ahead(r) => scroll.seen[r] = 0
              /\ r \in scroll.start /\ ~Ahead(r) => scroll.seen[r] = 1
      BY <1>1, <2>1 DEF Scrolled
    <2> HIDE DEF S, P, m, f
    <2>8. c \in LogRows \cup {<<0, 0>>}
      BY <1>1, <2>3, <2>4, <2>5
    <2> HIDE DEF c, more
    <2>9. /\ scroll'.at = a /\ scroll'.cursor = c /\ scroll'.start = scroll.start
          /\ scroll'.seen = f /\ scroll' \in Type
      BY <1>1, <2>1, <2>6, <2>8
    <2>10. Scrolled'
      <3>1. CASE ~more
        <4>1. P = S /\ a = "done"
          BY SMT, <2>3, <2>4, <3>1 DEF more
        <4>2. \A r \in LogRows : f[r] <= 1 /\ (r \in scroll.start => f[r] = 1)
          BY SMT, <1>1, <2>2, <2>6, <2>7, <4>1
        <4> QED BY SMT, <1>1, <2>1, <2>7, <2>9, <4>1, <4>2 DEF Scrolled
      <3>2. CASE more
        <4>1. a = "rows" /\ c = m /\ m \in S /\ \A r \in S : r \in P <=> ~Before(r, m)
          BY <2>4, <2>5, <3>2 DEF c
        <4>2. m \in LogRows /\ m # <<0, 0>>
          <5>1. Times \subseteq Nat \ {0}
            BY PageAssumption
          <5> QED BY SMT, <2>3, <4>1, <5>1 DEF LogRows
        <4>3. \A r \in LogRows : Ahead(r)' <=> Before(r, m)
          BY <2>9, <4>1, <4>2 DEF Ahead
        <4>4. \A r \in LogRows : Before(r, m) => Ahead(r)
          <5>1. Ahead(m)
            BY <2>2, <4>1
          <5>2. \A r \in LogRows : r[1] \in Nat /\ r[2] \in Nat
            <6>1. Times \subseteq Nat /\ 1..MaxLogs \subseteq Nat
              BY SMT, PageAssumption
            <6> QED BY <6>1 DEF LogRows
          <5>3. CASE scroll.cursor \in LogRows
            BY SMT, <4>2, <5>1, <5>2, <5>3 DEF Ahead, Before
          <5> QED BY <1>1, <5>3 DEF Ahead
        <4>5. ASSUME NEW r \in LogRows
              PROVE  /\ f[r] <= 1 /\ (Before(r, m) => f[r] = 0)
                     /\ r \in scroll.start /\ ~Before(r, m) => f[r] = 1
          <5>1. CASE r \in P
            <6>1. r \in S /\ ~Before(r, m) /\ Ahead(r)
              BY <2>2, <2>4, <4>1, <5>1
            <6> QED BY SMT, <2>6, <2>7, <5>1, <6>1
          <5>2. CASE r \notin P
            <6>1. f[r] = scroll.seen[r]
              BY <2>6, <5>2
            <6>2. r \in scroll.start /\ ~Before(r, m) => ~Ahead(r)
              BY <2>2, <2>7, <4>1, <5>2
            <6> QED BY <2>7, <4>4, <6>1, <6>2
          <5> QED BY <5>1, <5>2
        <4> QED BY <1>1, <2>1, <2>7, <2>9, <4>1, <4>3, <4>5 DEF Scrolled
      <3> QED BY <3>1, <3>2
    <2> QED BY <1>1, <2>1, <2>9, <2>10
  <1> QED BY <1>4, <1>5, <1>6

-----------------------------------------------------------------------------
(* The invariant of the audits holds at the start and for good.             *)
LEMMA AuditInvariant == AuditSpec => []AuditInv
  <1>1. AuditInit => AuditInv
    <2> SUFFICES ASSUME AuditInit PROVE AuditInv
      OBVIOUS
    <2>1. Live = {} /\ IsABag(grants)
      BY DEF AuditInit, Live, EmptyBag, SetToBag, BagToSet, IsABag
    <2>2. AuditTypeOK
      BY <2>1, PageAssumption DEF AuditInit, AuditTypeOK, TablesOK
    <2>3. Walked
      BY SMT, EmailAssumption DEF AuditInit, Walked, MorePages
    <2>4. PathsKept /\ ReportKept
      BY DEF AuditInit, PathsKept, ReportKept
    <2>5. Scrolled
      BY SMT, FS_EmptySet DEF AuditInit, Scrolled, Ahead
    <2> QED BY <2>2, <2>3, <2>4, <2>5 DEF AuditInv
  <1>2. AuditInv /\ [AuditNext]_auditVars => AuditInv'
    <2> SUFFICES ASSUME AuditInv, [AuditNext]_auditVars PROVE AuditInv'
      OBVIOUS
    <2>1. CASE UNCHANGED auditVars
      <3>1. UNCHANGED <<reader, grants, members, row, ustatus, walk, report, logs, scroll>>
        BY <2>1 DEF auditVars, tables
      <3>2. Live' = Live
        BY <3>1 DEF Live
      <3>3. AuditTypeOK'
        BY <3>1, <3>2 DEF AuditInv, AuditTypeOK, TablesOK
      <3>4. Walked' /\ PathsKept'
        BY SMT, <3>1, <3>2 DEF AuditInv, Walked, MorePages, ListHostAccessUsers, Held, Through, MemberOf,
              PathsKept, HostAccess
      <3>5. ReportKept' /\ Scrolled'
        BY <3>1, <3>2 DEF AuditInv, ReportKept, Scrolled, Ahead, SecretAccess,
              ListActiveAdmins, Through, MemberOf
      <3> QED BY <3>3, <3>4, <3>5 DEF AuditInv
    <2> QED BY <2>1, AuditedChange, WalkStep, ReportStep, ScrollStep DEF AuditNext
  <1> QED BY <1>1, <1>2, PTL DEF AuditSpec

(* WalkedOnce: whoever could log in all the while is on exactly one page of *)
(* handleHostAccessAudit and nobody is on two, for any users and page size, *)
(* whatever changes between the pages.                                      *)
THEOREM WalksAreComplete == AuditSpec => []WalkedOnce
  <1>1. AuditInv => WalkedOnce
    <2> SUFFICES ASSUME AuditInv PROVE WalkedOnce
      OBVIOUS
    <2>1. walk.steady \subseteq Users /\ (walk.at = "done" => ~MorePages)
      BY DEF AuditInv, AuditTypeOK, MorePages
    <2> QED BY <2>1 DEF AuditInv, Walked, WalkedOnce
  <1> QED BY <1>1, AuditInvariant, PTL

(* PathsTogether: "pagination never splits one user's direct/group access   *)
(* paths across pages".                                                     *)
THEOREM PathsNeverSplit == AuditSpec => []PathsTogether
  <1>1. AuditInv => PathsTogether
    BY DEF AuditInv, PathsKept, PathsTogether
  <1> QED BY <1>1, AuditInvariant, PTL

(* KeptPathListed: a grant or an admin that was there for the whole of      *)
(* handleSecretAccessAudit is in its answer.                                *)
THEOREM KeptPathsListed == AuditSpec => []KeptPathListed
  <1>1. AuditInv => KeptPathListed
    BY DEF AuditInv, ReportKept, KeptPathListed
  <1> QED BY <1>1, AuditInvariant, PTL

(* ScrolledOnce: the pages of handleHostAudit show each login recorded      *)
(* before the first page exactly once, and none twice, for any page size    *)
(* and any times the hosts report.                                          *)
THEOREM ScrollsAreComplete == AuditSpec => []ScrolledOnce
  <1>1. AuditInv => ScrolledOnce
    <2> SUFFICES ASSUME AuditInv PROVE ScrolledOnce
      OBVIOUS
    <2>1. scroll.start \subseteq LogRows
      BY DEF AuditInv, AuditTypeOK
    <2> QED BY <2>1 DEF AuditInv, Scrolled, ScrolledOnce
  <1> QED BY <1>1, AuditInvariant, PTL
=============================================================================
