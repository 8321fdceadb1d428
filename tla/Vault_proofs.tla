---------------------------- MODULE Vault_proofs ----------------------------
(***************************************************************************)
(* Proofs about the requests of Vault for any users, resources, groups and *)
(* grants and any number of overlapping handlers.                          *)
(***************************************************************************)
EXTENDS Vault, FiniteSetTheorems, TLAPS

(* Zenon proves most leaves; one that needs arithmetic, sequences or record *)
(* updates names SMT.                                                       *)
USE Zenon

-----------------------------------------------------------------------------
(* The kinds of targets are apart, so a target has one catalogue.           *)
LEMMA Kinds ==
  /\ Admins \subseteq Users
  /\ Secrets \cap Sets = {} /\ Secrets \cap Hosts = {} /\ Secrets \cap Groups = {}
  /\ Sets \cap Hosts = {} /\ Sets \cap Groups = {} /\ Hosts \cap Groups = {}
  /\ Global \notin Rows /\ Resources \cap Groups = {}
  <1> DEFINE P == {<<Secrets, Sets>>, <<Secrets, Hosts>>, <<Secrets, Groups>>,
                   <<Sets, Hosts>>, <<Sets, Groups>>, <<Hosts, Groups>>}
  <1>1. /\ <<Secrets, Sets>> \in P /\ <<Secrets, Hosts>> \in P /\ <<Secrets, Groups>> \in P
        /\ <<Sets, Hosts>> \in P /\ <<Sets, Groups>> \in P /\ <<Hosts, Groups>> \in P
    OBVIOUS
  <1>2. \A pair \in P : pair[1] \cap pair[2] = {}
    BY KindAssumption
  <1> HIDE DEF P
  <1>3. /\ Secrets \cap Sets = {} /\ Secrets \cap Hosts = {} /\ Secrets \cap Groups = {}
        /\ Sets \cap Hosts = {} /\ Sets \cap Groups = {} /\ Hosts \cap Groups = {}
    BY <1>1, <1>2
  <1> QED BY <1>3, KindAssumption DEF Rows, Resources

(* The permissions that can be granted on a target of each kind.            *)
LEMMA Catalogue ==
  /\ grantablePermissions(Global) = allGlobalPermissions
  /\ \A g \in Groups : allGroupPermissions \subseteq grantablePermissions(g)
  /\ \A s \in Secrets : grantablePermissions(s) = allSecretPermissions
  <1>1. grantablePermissions(Global) = allGlobalPermissions
    BY Kinds DEF grantablePermissions, Rows, Resources
  <1>2. ASSUME NEW g \in Groups PROVE allGroupPermissions \subseteq grantablePermissions(g)
    <2>1. g # Global /\ g \notin Hosts /\ g \notin Secrets /\ g \notin Sets
      BY Kinds DEF Rows, Resources
    <2> QED BY <2>1 DEF grantablePermissions
  <1>3. ASSUME NEW s \in Secrets PROVE grantablePermissions(s) = allSecretPermissions
    <2>1. s # Global /\ s \notin Hosts /\ s \notin Groups /\ s \notin Sets
      BY Kinds DEF Rows, Resources
    <2> QED BY <2>1 DEF grantablePermissions
  <1> QED BY <1>1, <1>2, <1>3

-----------------------------------------------------------------------------
(* What the changes to grants do to the rows that are live.                 *)
LEMMA AddedGrants ==
  ASSUME IsABag(grants), NEW S, AddGrants(S)
  PROVE  IsABag(grants') /\ Live' = Live \cup S
  BY SMT DEF AddGrants, IsABag, BagToSet, SetToBag, (+), Live

(* Revoking one row takes no other grant away.                              *)
LEMMA RevokedGrant ==
  ASSUME IsABag(grants), NEW gr, RevokeGrant(gr)
  PROVE  /\ IsABag(grants') /\ Live' \subseteq Live
         /\ \A x \in Live : x # gr => x \in Live'
  BY SMT DEF RevokeGrant, IsABag, BagToSet, SetToBag, (-), Live

(* Keeping some rows with all their copies keeps just those.                *)
LEMMA KeptGrants ==
  ASSUME IsABag(grants), NEW S \in SUBSET Live, grants' = [gr \in S |-> grants[gr]]
  PROVE  IsABag(grants') /\ Live' = S
  BY DEF IsABag, BagToSet, Live

(* The permissions an owner is granted are ones a grant on it may carry.    *)
LEMMA OwnerGrants ==
  ASSUME NEW u \in Users, NEW x \in Secrets \cup Groups
  PROVE  /\ grantOwner(u, x) \subseteq Grant
         /\ \A gr \in grantOwner(u, x) :
                /\ gr.user = u /\ gr.target = x
                /\ gr.permission \in grantablePermissions(gr.target)
  <1> DEFINE P == IF x \in Secrets THEN allSecretPermissions ELSE allGroupPermissions
  <1>1. P \subseteq grantablePermissions(x)
    BY Catalogue
  <1>2. /\ P \subseteq allGlobalPermissions \cup allGroupPermissions \cup resourcePermissions
        /\ x \in Rows \cup {Global}
    BY DEF resourcePermissions, Rows, Resources
  <1>3. grantOwner(u, x) = {[user |-> u, permission |-> p, target |-> x] : p \in P}
    BY DEF grantOwner
  <1> QED BY SMT, <1>1, <1>2, <1>3 DEF Grant

-----------------------------------------------------------------------------
(* What a handler is working on.                                            *)
SecretWork == {"reveal", "audit", "update", "updated", "delete", "found", "deleted"}
Fits(r) ==
    r # NoRequest =>
        /\ r.op \in SecretWork => r.on \in Secrets
        /\ r.op = "create" => r.on \in Secrets \cup Groups
        /\ r.op \in {"dissolve", "add", "remove"} => r.on \in Groups
        /\ r.op = "add" => r.to \in Resources
        /\ r.op # "create" => row[r.on] # "new"
Working == \A p \in Handlers : Fits(request[p])

(* A secret that was created has a creator.                                 *)
Made == \A s \in Secrets : row[s] # "new" => s \in DOMAIN creator

(* Nobody is suspended here.                                                *)
AllActive == \A u \in Users : ustatus[u] = "active"

IInv == TypeOK /\ Working /\ Made /\ AllActive

(* The initial state.                                                       *)
LEMMA InitInv == Init => IInv
  <1> SUFFICES ASSUME Init PROVE IInv
    OBVIOUS
  <1>1. PICK made \in SUBSET (Secrets \cup Groups) :
          /\ row = [x \in Rows |-> IF x \in Hosts \cup Sets \cup made THEN "live" ELSE "new"]
          /\ creator \in [made -> Users]
          /\ \E extra \in SUBSET {gr \in Asked : /\ gr.permission \in grantablePermissions(gr.target)
                                                 /\ gr.target = Global \/ row[gr.target] = "live"} :
              grants = SetToBag(extra \cup UNION {grantOwner(creator[x], x) : x \in made})
          /\ members \in SUBSET (LiveRows(Groups) \X LiveRows(Resources))
          /\ log = {[action |-> "add", secret |-> s, user |-> creator[s]] : s \in made \cap Secrets}
    BY DEF Init
  <1>2. PICK extra \in SUBSET {gr \in Asked : gr.permission \in grantablePermissions(gr.target)} :
          grants = SetToBag(extra \cup UNION {grantOwner(creator[x], x) : x \in made})
    BY <1>1
  <1>3. /\ IsABag(grants)
        /\ Live = extra \cup UNION {grantOwner(creator[x], x) : x \in made}
    BY SMT, <1>2 DEF IsABag, SetToBag, BagToSet, Live
  <1>4. Live \subseteq Grant /\ \A gr \in Live : gr.permission \in grantablePermissions(gr.target)
    <2>1. \A x \in made : creator[x] \in Users /\ x \in Secrets \cup Groups
      BY <1>1
    <2>2. ASSUME NEW gr \in Live PROVE gr \in Grant /\ gr.permission \in grantablePermissions(gr.target)
      <3>1. CASE gr \in extra
        BY <3>1, AskedAssumption
      <3>2. ASSUME NEW x \in made, gr \in grantOwner(creator[x], x)
            PROVE  gr \in Grant /\ gr.permission \in grantablePermissions(gr.target)
        BY <2>1, <3>2, OwnerGrants
      <3> QED BY <1>3, <3>1, <3>2
    <2> QED BY <2>2
  <1>5. TablesOK /\ \A m \in members : row[m[1]] = "live"
    <2>1. members \subseteq Groups \X Resources /\ \A m \in members : row[m[1]] = "live"
      BY <1>1 DEF LiveRows
    <2>2. /\ row \in [Rows -> {"new", "live", "gone"}]
          /\ ustatus \in [Users -> {"active", "suspended", "removed"}]
      BY <1>1 DEF Init
    <2> QED BY <1>3, <1>4, <2>1, <2>2 DEF TablesOK
  <1>6. TypeOK
    <2>1. DOMAIN creator \subseteq Rows /\ \A x \in DOMAIN creator : creator[x] \in Users
      BY <1>1 DEF Rows, Resources
    <2>2. log \subseteq LogRow
      BY SMT, <1>1 DEF LogRow
    <2>3. ops \in 0..MaxOps /\ faults \in 0..MaxFaults
      BY SMT, LimitAssumption DEF Init
    <2> QED BY SMT, <1>4, <1>5, <2>1, <2>2, <2>3 DEF TypeOK, Init
  <1>7. Made
    BY <1>1, Kinds DEF Made, Rows, Resources
  <1> QED BY <1>6, <1>7 DEF IInv, Working, Fits, AllActive, Init

-----------------------------------------------------------------------------
(* A step of one handler that leaves the tables and the creators alone.     *)
LEMMA HandlerStep ==
  ASSUME IInv, NEW p \in Handlers, NEW r \in Request \cup {NoRequest}, Fits(r),
         request' = [request EXCEPT ![p] = r], UNCHANGED <<tables, creator, disowned>>,
         log' \subseteq LogRow, shown' \subseteq Users \X Secrets,
         ops' \in 0..MaxOps, faults' \in 0..MaxFaults
  PROVE  IInv'
  <1>1. Live' = Live /\ UNCHANGED <<grants, members, row, ustatus, creator, disowned>>
    BY DEF tables, Live
  <1>2. TablesOK'
    BY <1>1 DEF IInv, TypeOK, TablesOK
  <1>3. request' \in [Handlers -> Request \cup {NoRequest}]
    BY DEF IInv, TypeOK
  <1>4. TypeOK'
    BY <1>1, <1>2, <1>3 DEF IInv, TypeOK
  <1>5. \A q \in Handlers : request'[q] = request[q] \/ request'[q] = r
    BY DEF IInv, TypeOK
  <1>6. Working'
    BY <1>1, <1>5 DEF IInv, Working, Fits
  <1> QED BY <1>1, <1>4, <1>6 DEF IInv, Made, AllActive

(* A handler's request is one, and stays one at its next step or when it    *)
(* has replied.                                                             *)
LEMMA NextOp ==
  ASSUME IInv, NEW p \in Handlers, request[p] # NoRequest,
         NEW o \in SecretWork, request[p].op \in SecretWork
  PROVE  LET r == [request[p] EXCEPT !.op = o]
         IN  /\ r \in Request /\ r.on = request[p].on /\ Fits(r)
             /\ [request EXCEPT ![p].op = o] = [request EXCEPT ![p] = r]
  <1> DEFINE r == [request[p] EXCEPT !.op = o]
  <1>1. request[p] \in Request /\ Fits(request[p])
    BY DEF IInv, TypeOK, Working
  <1>2. r \in Request /\ r.on = request[p].on /\ r.op = o
    BY <1>1 DEF Request, SecretWork
  <1>3. Fits(r)
    BY <1>1, <1>2 DEF Fits, SecretWork
  <1> QED BY <1>2, <1>3

(* A handler that has replied holds no request.                             *)
LEMMA Replied == Fits(NoRequest)
  BY DEF Fits

(* The counters stay within their bounds.                                   *)
LEMMA Bounded ==
  ASSUME IInv
  PROVE  /\ Begin => ops' \in 0..MaxOps
         /\ Fault => faults' \in 0..MaxFaults
  BY SMT, LimitAssumption DEF IInv, TypeOK, Begin, Fault

(* The audit row of a handler is a row of the log.                          *)
LEMMA AuditType ==
  ASSUME IInv, NEW p \in Handlers, request[p] # NoRequest, NEW s \in Secrets \cup {NoSecret},
         NEW action \in {"read", "update", "delete"}, auditSecret(p, s, action)
  PROVE  /\ log' \subseteq LogRow /\ log \subseteq log'
         /\ faults' \in 0..MaxFaults
  <1>1. request[p].user \in Users
    BY DEF IInv, TypeOK, Request
  <1>2. [action |-> action, secret |-> s, user |-> request[p].user] \in LogRow
    BY <1>1 DEF LogRow
  <1>3. log \subseteq LogRow /\ faults \in 0..MaxFaults
    BY DEF IInv, TypeOK
  <1> QED BY <1>2, <1>3, Bounded DEF auditSecret, InsertSecretAudit

(* The handlers' steps before, between and after their statements.          *)
LEMMA EnterInv ==
  ASSUME IInv, NEW p \in Handlers, HandleCreate(p) \/ HandleSecret(p) \/ HandleGroup(p)
  PROVE  IInv'
  <1>1. PICK o \in {"create", "reveal", "update", "delete", "dissolve", "add", "remove"},
             u \in Users, x \in Rows, y \in Rows :
          /\ Enter(p, o, u, x, y)
          /\ Fits([op |-> o, user |-> u, on |-> x, to |-> y])
    <2>1. CASE HandleCreate(p)
      <3>1. PICK u \in Users, x \in Secrets \cup Groups : Enter(p, "create", u, x, x)
        BY <2>1 DEF HandleCreate
      <3>2. Fits([op |-> "create", user |-> u, on |-> x, to |-> x])
        BY DEF Fits, SecretWork
      <3> QED BY <3>1, <3>2 DEF Rows, Resources
    <2>2. CASE HandleSecret(p)
      <3>1. PICK u \in Users, x \in Secrets, o \in SecretOps :
              row[x] # "new" /\ Enter(p, o, u, x, x)
        BY <2>2 DEF HandleSecret
      <3>2. o \in {"reveal", "update", "delete"}
        BY OpsAssumption
      <3>3. Fits([op |-> o, user |-> u, on |-> x, to |-> x])
        BY <3>1, <3>2 DEF Fits, SecretWork
      <3> QED BY <3>1, <3>2, <3>3 DEF Rows, Resources
    <2>3. CASE HandleGroup(p)
      <3>1. PICK u \in Users, g \in Groups :
              /\ row[g] # "new"
              /\ \/ Enter(p, "dissolve", u, g, g)
                 \/ \E x \in Resources, o \in {"add", "remove"} : Enter(p, o, u, g, x)
        BY <2>3 DEF HandleGroup
      <3>2. Fits([op |-> "dissolve", user |-> u, on |-> g, to |-> g])
        BY <3>1 DEF Fits, SecretWork
      <3>3. \A x \in Resources, o \in {"add", "remove"} :
              Fits([op |-> o, user |-> u, on |-> g, to |-> x])
        BY SMT, <3>1 DEF Fits, SecretWork
      <3> QED BY <3>1, <3>2, <3>3 DEF Rows
    <2> QED BY <2>1, <2>2, <2>3
  <1> DEFINE r == [op |-> o, user |-> u, on |-> x, to |-> y]
  <1>2. r \in Request
    BY DEF Request
  <1>3. request' = [request EXCEPT ![p] = r] /\ ops' \in 0..MaxOps
    BY <1>1, Bounded DEF Enter
  <1>4. UNCHANGED <<tables, history, faults>>
    BY DEF HandleCreate, HandleSecret, HandleGroup
  <1>5. UNCHANGED <<creator, disowned, log, shown>> /\ log' \subseteq LogRow
        /\ shown' \subseteq Users \X Secrets /\ faults' \in 0..MaxFaults
    BY <1>4 DEF history, IInv, TypeOK
  <1>6. Fits(r)
    BY <1>1
  <1> HIDE DEF r
  <1> QED BY <1>2, <1>3, <1>4, <1>5, <1>6, HandlerStep

(* The reads and the rows of the log, and a request that ends.              *)
LEMMA WorkInv ==
  ASSUME IInv, NEW p \in Handlers,
         \/ OpenSecret(p) \/ RevealSecret(p) \/ UpdateSecret(p) \/ FindSecret(p)
         \/ LogChange(p) \/ GroupRefused(p) \/ Error(p)
  PROVE  IInv'
  <1>1. /\ log \subseteq LogRow /\ shown \subseteq Users \X Secrets
        /\ ops \in 0..MaxOps /\ faults \in 0..MaxFaults
    BY DEF IInv, TypeOK
  <1>2. CASE OpenSecret(p) \/ UpdateSecret(p) \/ FindSecret(p)
    <2>1. PICK o \in {"audit", "updated", "found"} :
            /\ request[p] # NoRequest /\ request[p].op \in SecretWork
            /\ GoOn(p, o) \/ Reply(p)
      BY <1>2 DEF OpenSecret, UpdateSecret, FindSecret, At, SecretWork
    <2>2. UNCHANGED <<tables, creator, disowned, log, shown, ops, faults>>
      BY <1>2 DEF OpenSecret, UpdateSecret, FindSecret, history
    <2>3. CASE Reply(p)
      BY <1>1, <2>2, <2>3, Replied, HandlerStep DEF Reply
    <2>4. CASE GoOn(p, o)
      <3> DEFINE r == [request[p] EXCEPT !.op = o]
      <3>1. r \in Request /\ Fits(r) /\ request' = [request EXCEPT ![p] = r]
        BY <2>1, <2>4, NextOp DEF GoOn, SecretWork
      <3> HIDE DEF r
      <3> QED BY <1>1, <2>2, <3>1, HandlerStep
    <2> QED BY <2>1, <2>3, <2>4
  <1>3. CASE RevealSecret(p) \/ LogChange(p)
    <2>1. PICK action \in {"read", "update", "delete"}, s \in {request[p].on, NoSecret} :
            /\ request[p] # NoRequest /\ request[p].op \in SecretWork
            /\ auditSecret(p, s, action)
      BY <1>3 DEF RevealSecret, LogChange, At, SecretWork
    <2>2. request[p].on \in Secrets /\ request[p].user \in Users
      BY <2>1 DEF IInv, TypeOK, Working, Fits, Request
    <2>3. log' \subseteq LogRow /\ faults' \in 0..MaxFaults
      BY <2>1, <2>2, AuditType
    <2>4. /\ shown' \subseteq Users \X Secrets /\ Reply(p)
          /\ UNCHANGED <<ops, tables, creator, disowned>>
      BY SMT, <1>1, <1>3, <2>2 DEF RevealSecret, LogChange
    <2> QED BY <1>1, <2>3, <2>4, Replied, HandlerStep DEF Reply
  <1>4. CASE GroupRefused(p)
    BY <1>1, <1>4, Replied, HandlerStep DEF GroupRefused, Reply, history
  <1>5. CASE Error(p)
    BY <1>1, <1>5, Replied, Bounded, HandlerStep DEF Error, Reply, history
  <1> QED BY <1>2, <1>3, <1>4, <1>5

-----------------------------------------------------------------------------
(* Grants are given and taken.                                              *)
LEMMA GrantInv ==
  ASSUME IInv, CreateGrant \/ HandleRevokeGrant
  PROVE  IInv'
  <1>1. IsABag(grants) /\ Live \subseteq Grant
        /\ \A gr \in Live : gr.permission \in grantablePermissions(gr.target)
    BY DEF IInv, TypeOK, TablesOK
  <1>2. /\ IsABag(grants') /\ Live' \subseteq Grant
        /\ \A gr \in Live' : gr.permission \in grantablePermissions(gr.target)
    <2>1. CASE CreateGrant
      <3>1. PICK gr \in Asked : validGrant(gr.target, gr.permission) /\ AddGrants({gr})
        BY <2>1 DEF CreateGrant
      <3>2. IsABag(grants') /\ Live' = Live \cup {gr}
        BY <1>1, <3>1, AddedGrants
      <3> QED BY <1>1, <3>1, <3>2, AskedAssumption DEF validGrant
    <2>2. CASE HandleRevokeGrant
      <3>1. PICK gr \in Live : RevokeGrant(gr)
        BY <2>2 DEF HandleRevokeGrant
      <3>2. IsABag(grants') /\ Live' \subseteq Live
        BY <1>1, <3>1, RevokedGrant
      <3> QED BY <1>1, <3>2
    <2> QED BY <2>1, <2>2
  <1>3. /\ UNCHANGED <<members, row, ustatus, request, log, shown, creator, faults>>
        /\ Begin /\ disowned' \subseteq Rows
    BY DEF CreateGrant, HandleRevokeGrant, history, IInv, TypeOK
  <1>4. TypeOK'
    BY <1>2, <1>3, Bounded DEF IInv, TypeOK, TablesOK
  <1> QED BY <1>3, <1>4 DEF IInv, Working, Fits, Made, AllActive

(* A row is created with its owner's grants.                                *)
LEMMA CreateInv ==
  ASSUME IInv, NEW p \in Handlers, CreateRow(p)
  PROVE  IInv'
  <1> DEFINE u == request[p].user
             x == request[p].on
  <1>1. u \in Users /\ x \in Secrets \cup Groups /\ x \in Rows
    BY DEF IInv, TypeOK, Working, Fits, CreateRow, At, Request, Rows, Resources
  <1>2. /\ row' = [row EXCEPT ![x] = "live"] /\ AddGrants(grantOwner(u, x))
        /\ creator' = [y \in DOMAIN creator \cup {x} |-> IF y = x THEN u ELSE creator[y]]
        /\ log' = log \cup {[action |-> "add", secret |-> s, user |-> u] : s \in Secrets \cap {x}}
        /\ request' = [request EXCEPT ![p] = NoRequest]
        /\ UNCHANGED <<members, ustatus, shown, disowned, ops, faults>>
    BY DEF CreateRow, Reply
  <1> HIDE DEF u, x
  <1>3. /\ IsABag(grants') /\ Live' \subseteq Grant
        /\ \A gr \in Live' : gr.permission \in grantablePermissions(gr.target)
    <2>1. IsABag(grants') /\ Live' = Live \cup grantOwner(u, x)
      BY <1>2, AddedGrants DEF IInv, TypeOK, TablesOK
    <2>2. \A gr \in grantOwner(u, x) : gr \in Grant /\ gr.permission \in grantablePermissions(gr.target)
      BY <1>1, OwnerGrants
    <2> QED BY <2>1, <2>2 DEF IInv, TypeOK, TablesOK
  <1>4. /\ row' \in [Rows -> {"new", "live", "gone"}]
        /\ \A y \in Rows : row'[y] = IF y = x THEN "live" ELSE row[y]
    BY <1>1, <1>2 DEF IInv, TypeOK, TablesOK
  <1>5. members \subseteq Groups \X Resources /\ \A m \in members : row'[m[1]] = "live"
    <2>1. members \subseteq Groups \X Resources /\ \A m \in members : row[m[1]] = "live"
      BY DEF IInv, TypeOK, TablesOK
    <2>2. \A m \in members : m[1] \in Rows
      BY <2>1 DEF Rows
    <2> QED BY <1>4, <2>1, <2>2
  <1>6. /\ DOMAIN creator' = DOMAIN creator \cup {x}
        /\ DOMAIN creator' \subseteq Rows /\ \A y \in DOMAIN creator' : creator'[y] \in Users
    BY <1>1, <1>2 DEF IInv, TypeOK
  <1>7. log' \subseteq LogRow
    BY SMT, <1>1, <1>2 DEF IInv, TypeOK, LogRow
  <1>8. /\ request' \in [Handlers -> Request \cup {NoRequest}]
        /\ \A q \in Handlers : request'[q] = request[q] \/ request'[q] = NoRequest
    BY <1>2 DEF IInv, TypeOK
  <1>9. TypeOK'
    BY <1>2, <1>3, <1>4, <1>5, <1>6, <1>7, <1>8 DEF IInv, TypeOK, TablesOK
  <1>10. Working'
    <2>1. \A q \in Handlers : request[q] # NoRequest => request[q].on \in Rows
      BY DEF IInv, TypeOK, Request
    <2> QED BY <1>4, <1>8, <2>1 DEF IInv, Working, Fits
  <1>11. Made'
    BY <1>4, <1>6 DEF IInv, Made, Rows, Resources
  <1> QED BY <1>2, <1>9, <1>10, <1>11 DEF IInv, AllActive

(* A secret is deleted: its grants and memberships stay.                    *)
LEMMA DeleteInv ==
  ASSUME IInv, NEW p \in Handlers, DeleteSecret(p)
  PROVE  IInv'
  <1> DEFINE x == request[p].on
             r == [request[p] EXCEPT !.op = "deleted"]
  <1>1. x \in Secrets /\ x \in Rows /\ row[x] # "new"
    BY DEF IInv, TypeOK, Working, Fits, SecretWork, DeleteSecret, At, Rows, Resources
  <1>2. /\ row' = [row EXCEPT ![x] = "gone"]
        /\ UNCHANGED <<grants, members, ustatus, log, shown, creator, disowned, ops, faults>>
    BY DEF DeleteSecret, history
  <1>3. r \in Request /\ Fits(r) /\ request' = [request EXCEPT ![p] = r] /\ r.op = "deleted" /\ r.on = x
    <2>1. request[p] # NoRequest /\ request[p].op \in SecretWork
      BY DEF DeleteSecret, At, SecretWork
    <2>2. request[p] \in Request
      BY <2>1 DEF IInv, TypeOK
    <2>3. "deleted" \in SecretWork
      BY DEF SecretWork
    <2>4. /\ r \in Request /\ r.on = x /\ Fits(r)
          /\ [request EXCEPT ![p].op = "deleted"] = [request EXCEPT ![p] = r]
      BY <2>1, <2>3, NextOp
    <2>5. r.op = "deleted"
      BY <2>2 DEF Request
    <2> QED BY <2>4, <2>5 DEF DeleteSecret, GoOn
  <1> HIDE DEF x, r
  <1>4. /\ row' \in [Rows -> {"new", "live", "gone"}]
        /\ \A y \in Rows : row'[y] = IF y = x THEN "gone" ELSE row[y]
    BY <1>1, <1>2 DEF IInv, TypeOK, TablesOK
  <1>5. \A m \in members : row'[m[1]] = "live"
    <2>1. members \subseteq Groups \X Resources /\ \A m \in members : row[m[1]] = "live"
      BY DEF IInv, TypeOK, TablesOK
    <2>2. \A m \in members : m[1] \in Rows /\ m[1] # x
      BY <1>1, <2>1, Kinds DEF Rows
    <2> QED BY <1>4, <2>1, <2>2
  <1>6. /\ request' \in [Handlers -> Request \cup {NoRequest}]
        /\ \A q \in Handlers : request'[q] = request[q] \/ request'[q] = r
    BY <1>3 DEF IInv, TypeOK
  <1>7. TypeOK'
    <2>1. Live' = Live
      BY <1>2 DEF Live
    <2> QED BY <1>2, <1>4, <1>5, <1>6, <2>1 DEF IInv, TypeOK, TablesOK
  <1>8. Working'
    <2>1. \A q \in Handlers : request[q] # NoRequest => request[q].on \in Rows
      BY DEF IInv, TypeOK, Request
    <2> QED BY <1>1, <1>3, <1>4, <1>6, <2>1 DEF IInv, Working, Fits
  <1>9. Made'
    BY <1>1, <1>2, <1>4 DEF IInv, Made, Rows, Resources
  <1> QED BY <1>2, <1>7, <1>8, <1>9 DEF IInv, AllActive

(* A group is deleted or its members change.                                *)
LEMMA GroupInv ==
  ASSUME IInv, NEW p \in Handlers, ChangeGroup(p)
  PROVE  IInv'
  <1> DEFINE g == request[p].on
             y == request[p].to
  <1>1. /\ request[p] # NoRequest /\ g \in Groups /\ g \in Rows
        /\ request[p].op = "add" => y \in Resources
    BY DEF IInv, TypeOK, Working, Fits, ChangeGroup, At, Rows
  <1>2. /\ request' = [request EXCEPT ![p] = NoRequest] /\ ustatus' = ustatus
        /\ UNCHANGED <<log, shown, creator, disowned, ops, faults>>
    BY DEF ChangeGroup, Reply, history, DeleteGroup, AddGroupResource, RemoveGroupResource
  <1>3. /\ request' \in [Handlers -> Request \cup {NoRequest}]
        /\ \A q \in Handlers : request'[q] = request[q] \/ request'[q] = NoRequest
    BY <1>2 DEF IInv, TypeOK
  <1>4. /\ IsABag(grants) /\ Live \subseteq Grant
        /\ \A gr \in Live : gr.permission \in grantablePermissions(gr.target)
        /\ members \subseteq Groups \X Resources
        /\ \A m \in members : row[m[1]] = "live"
        /\ row \in [Rows -> {"new", "live", "gone"}]
    BY DEF IInv, TypeOK, TablesOK
  <1>5. CASE At(p, "dissolve") /\ DeleteGroup(g)
    <2>1. /\ row[g] = "live" /\ row' = [row EXCEPT ![g] = "gone"]
          /\ members' = {m \in members : m[1] # g}
          /\ grants' = [gr \in {gr \in Live : gr.target # g} |-> grants[gr]]
      BY <1>5 DEF DeleteGroup, Cascade, RevokeGroupGrants
    <2> HIDE DEF g
    <2>2. IsABag(grants') /\ Live' = {gr \in Live : gr.target # g}
      BY <1>4, <2>1, KeptGrants
    <2>3. /\ row' \in [Rows -> {"new", "live", "gone"}]
          /\ \A x \in Rows : row'[x] = IF x = g THEN "gone" ELSE row[x]
      BY <1>1, <1>4, <2>1
    <2>4. \A m \in members' : row'[m[1]] = "live"
      BY <1>4, <2>1, <2>3 DEF Rows
    <2>5. TypeOK'
      BY <1>2, <1>3, <1>4, <2>1, <2>2, <2>3, <2>4 DEF IInv, TypeOK, TablesOK
    <2>6. \A q \in Handlers : request[q] # NoRequest => request[q].on \in Rows
      BY DEF IInv, TypeOK, Request
    <2>7. Working'
      BY <1>3, <2>3, <2>6 DEF IInv, Working, Fits
    <2>8. Made'
      BY <1>2, <2>1, <2>3 DEF IInv, Made, Rows, Resources
    <2> QED BY <1>2, <2>5, <2>7, <2>8 DEF IInv, AllActive
  <1>6. CASE \/ At(p, "add") /\ AddGroupResource(g, y)
             \/ At(p, "remove") /\ RemoveGroupResource(g, y)
    <2>1. UNCHANGED <<grants, row>> /\ Live' = Live
      BY <1>6 DEF AddGroupResource, RemoveGroupResource, Live
    <2>2. members' \subseteq Groups \X Resources /\ \A m \in members' : row[m[1]] = "live"
      BY SMT, <1>1, <1>4, <1>6 DEF AddGroupResource, RemoveGroupResource, At
    <2>3. TypeOK'
      BY <1>2, <1>3, <1>4, <2>1, <2>2 DEF IInv, TypeOK, TablesOK
    <2> QED BY <1>2, <1>3, <2>1, <2>3 DEF IInv, Working, Fits, Made, AllActive
  <1> QED BY <1>5, <1>6 DEF ChangeGroup

-----------------------------------------------------------------------------
(* Every step keeps the invariant.                                          *)
LEMMA NextInv ==
  ASSUME IInv, [Next]_vars
  PROVE  IInv'
  <1>1. CASE UNCHANGED vars
    BY <1>1 DEF vars, tables, IInv, TypeOK, TablesOK, Live, Working, Fits, Made, AllActive
  <1>2. CASE CreateGrant \/ HandleRevokeGrant
    BY <1>2, GrantInv
  <1>3. ASSUME NEW p \in Handlers, HandleCreate(p) \/ HandleSecret(p) \/ HandleGroup(p)
        PROVE  IInv'
    BY <1>3, EnterInv
  <1>4. ASSUME NEW p \in Handlers,
               \/ OpenSecret(p) \/ RevealSecret(p) \/ UpdateSecret(p) \/ FindSecret(p)
               \/ LogChange(p) \/ GroupRefused(p) \/ Error(p)
        PROVE  IInv'
    BY <1>4, WorkInv
  <1>5. ASSUME NEW p \in Handlers, CreateRow(p) \/ DeleteSecret(p) \/ ChangeGroup(p)
        PROVE  IInv'
    BY <1>5, CreateInv, DeleteInv, GroupInv
  <1> QED BY <1>1, <1>2, <1>3, <1>4, <1>5 DEF Next

(* The invariant holds for good.                                            *)
LEMMA Invariant == Spec => []IInv
  <1> QED BY InitInv, NextInv, PTL DEF Spec

-----------------------------------------------------------------------------
(* The lists and the checks read the same rows: for any tables of the right *)
(* type the items a list shows are the ones the check of each lets through. *)
LEMMA ListsMatch ==
  ASSUME TypeOK
  PROVE  ListsAgree
  <1> SUFFICES ASSUME NEW u \in Users
               PROVE  /\ ListSecrets(u) = {s \in ListAllSecrets : canSecret(u, "secret.read", s)}
                      /\ ListSets(u) = {s \in ListAllSets : canSet(u, "set.read", s)}
                      /\ ListHosts(u) = {h \in ListAllHosts : canHost(u, "host.access", h)}
                      /\ ListGroups(u) = {g \in ListAllGroups : canGroup(u, "group.read", g)}
                      /\ \A x \in Resources :
                          ListGroupsForResource(u, x)
                            = {g \in ListGroups(u) : x \in ListGroupResources(g)}
                      /\ globalPermissionsFor(u) = {p \in allGlobalPermissions : canGlobal(u, p)}
    BY DEF ListsAgree
  <1>1. ListSecrets(u) = {s \in ListAllSecrets : canSecret(u, "secret.read", s)}
    BY DEF ListSecrets, ListAllSecrets, ListReadableSecrets, canSecret,
           UserHasSecretPermission, Through
  <1>2. ListSets(u) = {s \in ListAllSets : canSet(u, "set.read", s)}
    BY DEF ListSets, ListAllSets, ListReadableSets, canSet, UserHasSetPermission, Through
  <1>3. ListHosts(u) = {h \in ListAllHosts : canHost(u, "host.access", h)}
    BY DEF ListHosts, ListAllHosts, ListReadableHosts, canHost, UserHasHostPermission, Through
  <1>4. ListGroups(u) = {g \in ListAllGroups : canGroup(u, "group.read", g)}
    BY DEF ListGroups, ListAllGroups, ListReadableGroups, canGroup, UserHasGroupPermission
  <1>5. ASSUME NEW x \in Resources
        PROVE  ListGroupsForResource(u, x) = {g \in ListGroups(u) : x \in ListGroupResources(g)}
    BY DEF ListGroupsForResource, GroupsForResource, ListReadableGroupsForResource,
           ListGroups, ListAllGroups, ListReadableGroups, ListGroupResources, LiveRows
  <1>6. globalPermissionsFor(u) = {p \in allGlobalPermissions : canGlobal(u, p)}
    <2>1. \A gr \in Live : gr.target = Global => gr.permission \in allGlobalPermissions
      BY Catalogue DEF TypeOK
    <2>2. CASE u \in Admins
      BY <2>2 DEF globalPermissionsFor, ListGlobalPermissions, allGlobalPermissions, canGlobal
    <2>3. CASE u \notin Admins
      <3>1. ASSUME NEW p
            PROVE  p \in ListUserGlobalPermissions(u)
                     <=> p \in allGlobalPermissions /\ UserHasGlobalPermission(u, p)
        BY <2>1 DEF ListUserGlobalPermissions, UserHasGlobalPermission, Held
      <3> QED BY <2>3, <3>1 DEF globalPermissionsFor, canGlobal
    <2> QED BY <2>2, <2>3
  <1> QED BY <1>1, <1>2, <1>3, <1>4, <1>5, <1>6

(* ListsAgree: what a list shows is what the checks let the user open, for  *)
(* any users, resources, grants and overlapping requests.                   *)
THEOREM ListsAgreeWithChecks == Spec => []ListsAgree
  <1>1. IInv => ListsAgree
    BY ListsMatch DEF IInv
  <1> QED BY <1>1, Invariant, PTL

(* AuditSeesAll: the audits name everybody whom the checks let in.          *)
THEOREM AuditsComplete == Spec => []AuditSeesAll
  <1> SUFFICES ASSUME IInv PROVE AuditSeesAll
    BY Invariant, PTL
  <1>1. /\ Live \subseteq Grant /\ Admins \subseteq Users
        /\ \A g \in Groups : \A x : MemberOf(g, x) => g \in GroupsForResource(x)
    BY Kinds DEF IInv, TypeOK, TablesOK, MemberOf, GroupsForResource, LiveRows
  <1>2. \A u \in Users : ustatus[u] = "active"
    BY DEF IInv, AllActive
  <1>3. ASSUME NEW s \in Secrets, NEW u \in Users, NEW p \in allSecretPermissions,
               canSecret(u, p, s)
        PROVE  \/ u \in ListActiveAdmins
               \/ \E gr \in ListSecretDirectAccess(s) \cup ListSecretGroupAccess(s) : gr.user = u
    BY <1>1, <1>2, <1>3 DEF canSecret, UserHasSecretPermission, Held, Through, ListActiveAdmins,
          ListSecretDirectAccess, ListSecretGroupAccess
  <1>4. ASSUME NEW h \in Hosts
        PROVE  {gr.user : gr \in ListHostAccessPathsForUsers(h, ListHostAccessUsers(h))}
                 = {u \in Users : UserHasHostPermission(u, "host.access", h)}
    <2>1. ASSUME NEW gr \in ListHostAccessPathsForUsers(h, ListHostAccessUsers(h))
          PROVE  gr.user \in Users /\ UserHasHostPermission(gr.user, "host.access", h)
      BY <2>1 DEF ListHostAccessPathsForUsers, ListHostAccessUsers, UserHasHostPermission
    <2>2. ASSUME NEW u \in Users, UserHasHostPermission(u, "host.access", h)
          PROVE  \E gr \in ListHostAccessPathsForUsers(h, ListHostAccessUsers(h)) : gr.user = u
      <3>1. PICK gr \in Held(u, "host.access") : Through(gr, h)
        BY <2>2 DEF UserHasHostPermission
      <3>2. u \in ListHostAccessUsers(h)
        BY <1>2, <3>1 DEF ListHostAccessUsers
      <3> QED BY <1>1, <3>1, <3>2 DEF Held, Through, ListHostAccessPathsForUsers
    <2> QED BY <2>1, <2>2
  <1>5. ASSUME NEW g \in Groups, NEW u \in Users, NEW p \in allGroupPermissions,
               UserHasGroupPermission(u, p, g)
        PROVE  u \in ListGroupMembers(g)
    BY <1>5 DEF UserHasGroupPermission, Held, ListGroupMembers
  <1> QED BY <1>3, <1>4, <1>5 DEF AuditSeesAll

-----------------------------------------------------------------------------
(* A creator keeps the owner's grants until one of them is revoked.         *)
Owned ==
    \A x \in DOMAIN creator :
        row[x] = "live" /\ x \notin disowned => grantOwner(creator[x], x) \subseteq Live

(* The grants of an owner are that user's, on that resource.                *)
LEMMA OwnersOnly ==
  ASSUME NEW u, NEW x, NEW gr \in grantOwner(u, x)
  PROVE  gr.user = u /\ gr.target = x
  BY SMT DEF grantOwner

(* Only a revocation, which marks the resource, or the deletion of a group  *)
(* takes grants away.                                                       *)
LEMMA OwnedStep ==
  ASSUME IInv, Owned, [Next]_vars
  PROVE  Owned'
  <1>1. IsABag(grants) /\ row \in [Rows -> {"new", "live", "gone"}] /\ DOMAIN creator \subseteq Rows
    BY DEF IInv, TypeOK, TablesOK
  <1>2. CASE UNCHANGED <<tables, creator, disowned>>
    BY <1>2 DEF Owned, tables, Live
  <1>3. CASE CreateGrant
    <2>1. PICK gr : AddGrants({gr})
      BY <1>3 DEF CreateGrant
    <2>2. Live \subseteq Live' /\ UNCHANGED <<row, creator, disowned>>
      BY <1>1, <1>3, <2>1, AddedGrants DEF CreateGrant, history
    <2> QED BY <2>2 DEF Owned
  <1>4. CASE HandleRevokeGrant
    <2>1. PICK gr \in Live :
            /\ RevokeGrant(gr)
            /\ disowned' = disowned \cup {x \in DOMAIN creator : gr.target = x /\ creator[x] = gr.user}
      BY <1>4 DEF HandleRevokeGrant
    <2>2. UNCHANGED <<row, creator>> /\ \A x \in Live : x # gr => x \in Live'
      BY <1>1, <1>4, <2>1, RevokedGrant DEF HandleRevokeGrant
    <2>3. ASSUME NEW x \in DOMAIN creator, row[x] = "live", x \notin disowned'
          PROVE  grantOwner(creator[x], x) \subseteq Live'
      <3>1. grantOwner(creator[x], x) \subseteq Live
        BY <2>1, <2>3 DEF Owned
      <3>2. gr \notin grantOwner(creator[x], x)
        BY SMT, <2>1, <2>3, OwnersOnly
      <3> QED BY <2>2, <3>1, <3>2
    <2> QED BY <2>2, <2>3 DEF Owned
  <1>5. ASSUME NEW p \in Handlers, CreateRow(p) PROVE Owned'
    <2> DEFINE u == request[p].user
               x == request[p].on
    <2>1. /\ row' = [row EXCEPT ![x] = "live"] /\ AddGrants(grantOwner(u, x))
          /\ creator' = [y \in DOMAIN creator \cup {x} |-> IF y = x THEN u ELSE creator[y]]
          /\ disowned' = disowned
      BY <1>5 DEF CreateRow
    <2> HIDE DEF u, x
    <2>2. Live' = Live \cup grantOwner(u, x)
      BY <1>1, <2>1, AddedGrants
    <2>3. \A y \in DOMAIN creator' : y # x => y \in DOMAIN creator /\ creator'[y] = creator[y] /\ row'[y] = row[y]
      BY <1>1, <2>1
    <2>4. x \in DOMAIN creator' /\ creator'[x] = u
      BY <2>1
    <2>5. ASSUME NEW y \in DOMAIN creator', row'[y] = "live", y \notin disowned'
          PROVE  grantOwner(creator'[y], y) \subseteq Live'
      <3>1. CASE y = x
        BY <2>2, <2>4, <3>1
      <3>2. CASE y # x
        BY <2>1, <2>2, <2>3, <2>5, <3>2 DEF Owned
      <3> QED BY <3>1, <3>2
    <2> QED BY <2>5 DEF Owned
  <1>6. ASSUME NEW p \in Handlers, DeleteSecret(p) PROVE Owned'
    <2>1. /\ \A x \in Rows : row'[x] = "live" => row[x] = "live"
          /\ Live' = Live /\ UNCHANGED <<creator, disowned>>
      BY <1>1, <1>6 DEF DeleteSecret, Live, history
    <2> QED BY <1>1, <2>1 DEF Owned
  <1>7. ASSUME NEW p \in Handlers, ChangeGroup(p) PROVE Owned'
    <2> DEFINE g == request[p].on
    <2>0. UNCHANGED <<creator, disowned>>
      BY <1>7 DEF ChangeGroup, history
    <2>1. CASE DeleteGroup(g)
      <3>0. /\ row[g] = "live" /\ row' = [row EXCEPT ![g] = "gone"]
            /\ grants' = [gr \in {gr \in Live : gr.target # g} |-> grants[gr]]
        BY <2>1 DEF DeleteGroup, RevokeGroupGrants
      <3> HIDE DEF g
      <3>1. Live' = {gr \in Live : gr.target # g}
        BY <1>1, <3>0, KeptGrants
      <3>2. \A x \in Rows : row'[x] = "live" => row[x] = "live" /\ x # g
        BY <1>1, <3>0
      <3>3. ASSUME NEW x \in DOMAIN creator, row'[x] = "live", x \notin disowned
            PROVE  grantOwner(creator[x], x) \subseteq Live'
        <4>1. grantOwner(creator[x], x) \subseteq Live /\ x # g
          BY <1>1, <3>2, <3>3 DEF Owned
        <4> QED BY SMT, <3>1, <4>1, OwnersOnly
      <3> QED BY <2>0, <3>3 DEF Owned
    <2>2. CASE UNCHANGED <<grants, row>>
      BY <2>0, <2>2 DEF Owned, Live
    <2> QED BY <1>7, <2>1, <2>2 DEF ChangeGroup, AddGroupResource, RemoveGroupResource
  <1>8. ASSUME NEW p \in Handlers,
               \/ HandleCreate(p) \/ HandleSecret(p) \/ HandleGroup(p)
               \/ OpenSecret(p) \/ RevealSecret(p) \/ UpdateSecret(p) \/ FindSecret(p)
               \/ LogChange(p) \/ GroupRefused(p) \/ Error(p)
        PROVE  UNCHANGED <<tables, creator, disowned>>
    BY <1>8 DEF HandleCreate, HandleSecret, HandleGroup, OpenSecret, RevealSecret, UpdateSecret,
          FindSecret, LogChange, GroupRefused, Error, history
  <1>9. CASE UNCHANGED vars
    BY <1>2, <1>9 DEF vars
  <1> QED BY SMT, <1>2, <1>3, <1>4, <1>5, <1>6, <1>7, <1>8, <1>9 DEF Next

(* CreatorOwns: "members own what they create", until a grant of theirs on  *)
(* it is revoked.                                                           *)
THEOREM CreatorsOwn == Spec => []CreatorOwns
  <1>1. Init => Owned
    <2> SUFFICES ASSUME Init PROVE Owned
      OBVIOUS
    <2>1. PICK made \in SUBSET (Secrets \cup Groups) :
            /\ creator \in [made -> Users]
            /\ \E extra : grants = SetToBag(extra \cup UNION {grantOwner(creator[x], x) : x \in made})
      BY DEF Init
    <2>2. UNION {grantOwner(creator[x], x) : x \in made} \subseteq Live
      BY <2>1 DEF SetToBag, BagToSet, Live
    <2> QED BY <2>1, <2>2 DEF Owned
  <1>2. IInv /\ Owned => CreatorOwns
    <2> SUFFICES ASSUME IInv, Owned, NEW x \in DOMAIN creator, row[x] = "live", x \notin disowned
                 PROVE  IF x \in Secrets THEN \A p \in allSecretPermissions : canSecret(creator[x], p, x)
                                         ELSE \A p \in allGroupPermissions : canGroup(creator[x], p, x)
      BY DEF CreatorOwns
    <2> DEFINE P == IF x \in Secrets THEN allSecretPermissions ELSE allGroupPermissions
    <2>1. \A p \in P : [user |-> creator[x], permission |-> p, target |-> x] \in Held(creator[x], p)
      BY DEF Owned, grantOwner, Held
    <2> QED BY <2>1 DEF canSecret, canGroup, UserHasSecretPermission, UserHasGroupPermission, Through
  <1> QED BY <1>1, <1>2, Invariant, OwnedStep, PTL DEF Spec

-----------------------------------------------------------------------------
(* The reads without a row in the log are no more than the failed inserts,  *)
(* and a secret has the row of its creation.                                *)
Unlogged == {w \in shown : [action |-> "read", secret |-> w[2], user |-> w[1]] \notin log}
FewUnlogged == IsFiniteSet(Unlogged) /\ Cardinality(Unlogged) <= faults
CreationsLogged ==
    \A s \in Secrets : row[s] # "new" =>
        [action |-> "add", secret |-> s, user |-> creator[s]] \in log

(* A set within a finite one is finite and has no more members.             *)
LEMMA FewerUnlogged ==
  ASSUME IInv, FewUnlogged, Unlogged' \subseteq Unlogged, faults' \in Nat, faults <= faults'
  PROVE  FewUnlogged'
  <1>1. IsFiniteSet(Unlogged') /\ Cardinality(Unlogged') <= Cardinality(Unlogged)
    BY FS_Subset DEF FewUnlogged
  <1>2. Cardinality(Unlogged) \in Nat /\ Cardinality(Unlogged') \in Nat /\ faults \in Nat
    BY SMT, <1>1, FS_CardinalityType DEF FewUnlogged, IInv, TypeOK
  <1> QED BY SMT, <1>1, <1>2 DEF FewUnlogged

(* A reveal is logged or costs a fault; nothing else shows a secret.        *)
LEMMA ReadStep ==
  ASSUME IInv, FewUnlogged, [Next]_vars
  PROVE  FewUnlogged'
  <1>1. faults \in Nat /\ MaxFaults \in Nat
    BY SMT, LimitAssumption DEF IInv, TypeOK
  <1>2. ASSUME shown' = shown, log \subseteq log', faults' = faults \/ Fault
        PROVE  FewUnlogged'
    <2>1. Unlogged' \subseteq Unlogged
      BY <1>2 DEF Unlogged
    <2>2. faults' \in Nat /\ faults <= faults'
      BY SMT, <1>1, <1>2 DEF Fault
    <2> QED BY <2>1, <2>2, FewerUnlogged
  <1>3. ASSUME NEW p \in Handlers, RevealSecret(p) PROVE FewUnlogged'
    <2> DEFINE w == <<request[p].user, request[p].on>>
    <2>1. shown' = shown \cup {w} /\ auditSecret(p, request[p].on, "read")
      BY <1>3 DEF RevealSecret
    <2>2. CASE log' = log \cup {[action |-> "read", secret |-> w[2], user |-> w[1]]} /\ faults' = faults
      <3>1. Unlogged' \subseteq Unlogged
        BY <2>1, <2>2 DEF Unlogged
      <3> QED BY SMT, <1>1, <2>2, <3>1, FewerUnlogged
    <2>3. CASE log' = log /\ Fault
      <3>1. Unlogged' \subseteq Unlogged \cup {w}
        BY <2>1, <2>3 DEF Unlogged
      <3> HIDE DEF w
      <3>2. /\ IsFiniteSet(Unlogged \cup {w}) /\ Cardinality(Unlogged) \in Nat
            /\ \/ Cardinality(Unlogged \cup {w}) = Cardinality(Unlogged)
               \/ Cardinality(Unlogged \cup {w}) = Cardinality(Unlogged) + 1
        BY FS_AddElement, FS_CardinalityType DEF FewUnlogged
      <3>3. IsFiniteSet(Unlogged') /\ Cardinality(Unlogged') <= Cardinality(Unlogged \cup {w})
        BY <3>1, <3>2, FS_Subset
      <3>4. Cardinality(Unlogged') \in Nat
        BY <3>3, FS_CardinalityType
      <3>5. faults' = faults + 1 /\ Cardinality(Unlogged) <= faults
        BY <2>3 DEF Fault, FewUnlogged
      <3> QED BY SMT, <1>1, <3>2, <3>3, <3>4, <3>5 DEF FewUnlogged
    <2>4. w[1] = request[p].user /\ w[2] = request[p].on
      OBVIOUS
    <2> QED BY <2>1, <2>2, <2>3, <2>4 DEF auditSecret, InsertSecretAudit
  <1>4. ASSUME NEW p \in Handlers, LogChange(p)
        PROVE  shown' = shown /\ log \subseteq log' /\ (faults' = faults \/ Fault)
    BY <1>4 DEF LogChange, auditSecret
  <1>5. ASSUME NEW p \in Handlers,
               \/ HandleCreate(p) \/ HandleSecret(p) \/ HandleGroup(p) \/ CreateRow(p)
               \/ OpenSecret(p) \/ UpdateSecret(p) \/ FindSecret(p) \/ DeleteSecret(p)
               \/ ChangeGroup(p) \/ GroupRefused(p) \/ Error(p)
        PROVE  shown' = shown /\ log \subseteq log' /\ (faults' = faults \/ Fault)
    BY <1>5 DEF HandleCreate, HandleSecret, HandleGroup, CreateRow, OpenSecret, UpdateSecret,
          FindSecret, DeleteSecret, ChangeGroup, GroupRefused, Error, history
  <1>6. CASE CreateGrant \/ HandleRevokeGrant \/ UNCHANGED vars
    BY <1>2, <1>6 DEF CreateGrant, HandleRevokeGrant, history, vars
  <1> QED BY <1>2, <1>3, <1>4, <1>5, <1>6 DEF Next

(* A secret's creator is set together with the log's row.                   *)
LEMMA CreationStep ==
  ASSUME IInv, CreationsLogged, [Next]_vars
  PROVE  CreationsLogged'
  <1>1. row \in [Rows -> {"new", "live", "gone"}] /\ Secrets \subseteq Rows
    BY DEF IInv, TypeOK, TablesOK, Rows, Resources
  <1>2. ASSUME creator' = creator, log \subseteq log',
               \A s \in Secrets : row'[s] # "new" => row[s] # "new"
        PROVE  CreationsLogged'
    BY <1>2 DEF CreationsLogged
  <1>3. ASSUME NEW p \in Handlers, CreateRow(p) PROVE CreationsLogged'
    <2> DEFINE u == request[p].user
               x == request[p].on
    <2>1. /\ row' = [row EXCEPT ![x] = "live"]
          /\ creator' = [y \in DOMAIN creator \cup {x} |-> IF y = x THEN u ELSE creator[y]]
          /\ log' = log \cup {[action |-> "add", secret |-> s, user |-> u] : s \in Secrets \cap {x}}
      BY <1>3 DEF CreateRow
    <2> HIDE DEF u, x
    <2>2. ASSUME NEW s \in Secrets, row'[s] # "new"
          PROVE  [action |-> "add", secret |-> s, user |-> creator'[s]] \in log'
      <3>1. CASE s = x
        BY <2>1, <3>1
      <3>2. CASE s # x
        <4>1. row[s] # "new"
          BY <1>1, <2>1, <2>2, <3>2
        <4>2. s \in DOMAIN creator
          BY <4>1 DEF IInv, Made
        <4> QED BY <2>1, <3>2, <4>1, <4>2 DEF CreationsLogged
      <3> QED BY <3>1, <3>2
    <2> QED BY <2>2 DEF CreationsLogged
  <1>4. ASSUME NEW p \in Handlers, DeleteSecret(p)
        PROVE  creator' = creator /\ log \subseteq log' /\ \A s \in Secrets : row'[s] # "new" => row[s] # "new"
    <2>1. row[request[p].on] # "new"
      BY <1>4 DEF IInv, Working, Fits, DeleteSecret, At
    <2> QED BY <1>1, <1>4, <2>1 DEF DeleteSecret, history
  <1>5. ASSUME NEW p \in Handlers, ChangeGroup(p)
        PROVE  creator' = creator /\ log \subseteq log' /\ \A s \in Secrets : row'[s] # "new" => row[s] # "new"
    BY <1>1, <1>5 DEF ChangeGroup, DeleteGroup, AddGroupResource, RemoveGroupResource, history
  <1>6. ASSUME NEW p \in Handlers,
               \/ HandleCreate(p) \/ HandleSecret(p) \/ HandleGroup(p)
               \/ OpenSecret(p) \/ RevealSecret(p) \/ UpdateSecret(p) \/ FindSecret(p)
               \/ LogChange(p) \/ GroupRefused(p) \/ Error(p)
        PROVE  creator' = creator /\ log \subseteq log' /\ row' = row
    BY <1>6 DEF HandleCreate, HandleSecret, HandleGroup, OpenSecret, RevealSecret, UpdateSecret,
          FindSecret, LogChange, GroupRefused, Error, auditSecret, history, tables
  <1>7. CASE CreateGrant \/ HandleRevokeGrant \/ UNCHANGED vars
    BY <1>2, <1>7 DEF CreateGrant, HandleRevokeGrant, history, vars, tables
  <1> QED BY <1>2, <1>3, <1>4, <1>5, <1>6, <1>7 DEF Next

(* ReadsLogged: handleRevealSecret "logs the read", but for one read per    *)
(* insert that failed, and every secret has the row of its creation.        *)
THEOREM RevealsLogged == Spec => []ReadsLogged
  <1>1. Init => FewUnlogged /\ CreationsLogged
    <2> SUFFICES ASSUME Init PROVE FewUnlogged /\ CreationsLogged
      OBVIOUS
    <2>1. Unlogged = {} /\ faults = 0
      BY DEF Init, Unlogged
    <2>2. FewUnlogged
      BY SMT, <2>1, FS_EmptySet DEF FewUnlogged
    <2>3. PICK made \in SUBSET (Secrets \cup Groups) :
            /\ row = [x \in Rows |-> IF x \in Hosts \cup Sets \cup made THEN "live" ELSE "new"]
            /\ log = {[action |-> "add", secret |-> s, user |-> creator[s]] : s \in made \cap Secrets}
      BY DEF Init
    <2>4. \A s \in Secrets : s \in Rows /\ s \notin Hosts /\ s \notin Sets
      BY Kinds DEF Rows, Resources
    <2> QED BY <2>2, <2>3, <2>4 DEF CreationsLogged
  <1>2. FewUnlogged /\ CreationsLogged => ReadsLogged
    BY DEF FewUnlogged, CreationsLogged, ReadsLogged, Unlogged
  <1> QED BY <1>1, <1>2, Invariant, ReadStep, CreationStep, PTL DEF Spec
=============================================================================
