-------------------------- MODULE Accounts_proofs ---------------------------
(***************************************************************************)
(* Accounts: proofs about Sessions, for any numbers of requests, reset     *)
(* links, sessions, tokens and failures, and about Invitations, for any    *)
(* numbers of invitations, addresses, links and overlapping acceptances.   *)
(***************************************************************************)
EXTENDS Sessions, Invitations, TLAPS

(* Zenon proves most leaves; one that needs arithmetic, sequences or record *)
(* updates names SMT.                                                       *)
USE Zenon

(* Sessions and tokens are numbered in the order in which they are made,    *)
(* and no two sessions ever have the same token.                            *)
Numbered ==
    /\ ended \subseteq 1..made
    /\ \A s \in Sess : session[s].token <= minted
    /\ \A s \in Sess : session[s].state # "none" => s <= made /\ session[s].token # 0
    /\ \A s, u \in Sess :
        session[s].token = session[u].token /\ session[s].token # 0 => s = u

(* A refresh that found a session holds a token that nobody but that        *)
(* session has ever had.                                                    *)
Owned ==
    \A p \in Requests : req[p].step = "rotate" =>
        /\ req[p].session \in Sess /\ req[p].token \in 1..minted
        /\ \A s \in Sess : session[s].token = req[p].token => s = req[p].session

(* A confirmation that found a link holds a link.                           *)
Linked == \A p \in Requests : req[p].step = "reset" => req[p].link \in Resets

(* Only tokens that were minted have been exchanged.                        *)
Exchanged == \A t \in Tokens : uses[t] > 0 => t <= minted

(* The failures in a row are in the counter, and in what a login read that  *)
(* began after the last of them; nobody begins while the account is locked. *)
Counting ==
    /\ ~locked => streak <= failed /\ (streak > 0 => recent)
    /\ \A p \in Requests : req[p].fresh =>
        ~locked /\ streak <= IF req[p].recent THEN req[p].failed ELSE 0

(* An action on the user that is still to revoke the sessions.              *)
Revoking == \E p \in Requests : req[p].step = "revoke"

EndedInv == \A s \in ended : Live(s) => Revoking

-----------------------------------------------------------------------------
(* Types.                                                                   *)

USE SessionsAssumption

(* What a request record may hold.                                          *)
Record ==
    [step : {"idle", "fail", "pass", "session", "rotate", "reset", "revoke"},
     failed : 0..(MaxFailures - 1), recent : BOOLEAN, fresh : BOOLEAN,
     session : Sess \cup {0}, token : Tokens \cup {0}, link : Resets \cup {0}]

(* A row of sessions.                                                       *)
Row == [state : {"none", "live", "revoked", "expired"},
        token : Tokens \cup {0}, access : BOOLEAN]

(* What the updates of a row leave.                                         *)
LEMMA RowType ==
    ASSUME NEW r \in Row
    PROVE  /\ \A t \in Tokens : [r EXCEPT !.token = t, !.access = TRUE] \in Row
           /\ \A x \in {"revoked", "expired"} : [r EXCEPT !.state = x] \in Row
           /\ [r EXCEPT !.access = FALSE] \in Row
  BY DEF Row

(* What the updates of a request record leave.                              *)
LEMMA RecordType ==
    ASSUME NEW x \in Record
    PROVE  /\ [x EXCEPT !.fresh = FALSE] \in Record
           /\ [x EXCEPT !.recent = FALSE] \in Record
           /\ [x EXCEPT !.step = "session"] \in Record
  BY DEF Record

(* The type invariant speaks of records.                                    *)
LEMMA RequestType == TypeOK => req \in [Requests -> Record]
  BY DEF TypeOK, Record

(* A returned request is one.                                               *)
LEMMA IdleType == Idle \in Record
  BY SMT DEF Idle, Record

(* Login and recordFailedLogin.                                             *)
LEMMA LoginType ==
    ASSUME TypeOK, NEW p \in Requests,
           (\E w \in 0..writes \cup {Wrong} : Login(p, w))
               \/ RecordFailedLogin(p) \/ ResetLoginFailures(p)
    PROVE  TypeOK'
  <1>1. CASE \E w \in 0..writes \cup {Wrong} : Login(p, w)
    <2>1. PICK w : Login(p, w)
      BY <1>1
    <2>2. [Idle EXCEPT !.step = IF w = hash THEN "pass" ELSE "fail",
                       !.failed = failed, !.recent = recent, !.fresh = TRUE] \in Record
      BY DEF Idle, Record, TypeOK
    <2>3. req' \in [Requests -> Record]
      BY <2>1, <2>2 DEF Login, TypeOK, Record
    <2> QED BY <2>1, <2>3 DEF Login, TypeOK, Record, identity, ghosts
  <1>2. CASE RecordFailedLogin(p)
    <2>1. CASE exists
      <3>1. \A q \in Requests : [req[q] EXCEPT !.fresh = FALSE] \in Record
        BY RequestType, RecordType
      <3>2. req' \in [Requests -> Record]
        BY <1>2, <2>1, <3>1, IdleType DEF RecordFailedLogin
      <3>3. Counted(p).failed \in 0..(MaxFailures - 1) /\ Counted(p).locked \in BOOLEAN
        BY SMT DEF Counted, TypeOK
      <3>4. streak' \in 0..MaxFailures
        BY SMT, <1>2, <2>1 DEF RecordFailedLogin, TypeOK
      <3> QED BY <1>2, <2>1, <3>2, <3>3, <3>4 DEF RecordFailedLogin, TypeOK, Record
    <2>2. CASE ~exists
      BY SMT, <1>2, <2>2, IdleType DEF RecordFailedLogin, Return, TypeOK, Record
    <2> QED BY <2>1, <2>2
  <1>3. CASE ResetLoginFailures(p)
    <2>1. [req[p] EXCEPT !.step = "session"] \in Record
      BY RequestType, RecordType
    <2>2. req' \in [Requests -> Record]
      BY <1>3, <2>1, RequestType DEF ResetLoginFailures
    <2>3. 0 \in 0..(MaxFailures - 1) /\ 0 \in 0..MaxFailures
      BY SMT
    <2> QED BY <1>3, <2>2, <2>3 DEF ResetLoginFailures, TypeOK, Record
  <1> QED BY <1>1, <1>2, <1>3

(* CreateSession and refresh.                                               *)
LEMMA SessionType ==
    ASSUME TypeOK, Owned, NEW p \in Requests,
           CreateSession(p) \/ (\E t \in 1..minted : Refresh(p, t)) \/ RotateSessionToken(p)
    PROVE  TypeOK'
  <1>1. CASE CreateSession(p)
    <2>1. [state |-> "live", token |-> minted + 1, access |-> TRUE] \in Row
      BY SMT, <1>1 DEF CreateSession, TypeOK, Tokens, Row
    <2>2. session' \in [Sess -> Row]
      BY <1>1, <2>1 DEF CreateSession, TypeOK, Row
    <2>3. req' \in [Requests -> Record]
      BY <1>1, IdleType DEF CreateSession, Return, TypeOK, Record
    <2>4. made' \in 0..MaxSessions /\ minted' \in 0..MaxTokens
      BY SMT, <1>1 DEF CreateSession, TypeOK
    <2> QED BY <1>1, <2>2, <2>3, <2>4
            DEF CreateSession, TypeOK, Record, Row, identity, ghosts
  <1>2. CASE \E t \in 1..minted : Refresh(p, t)
    <2>1. PICK t \in 1..minted : Refresh(p, t)
      BY <1>2
    <2>2. PICK s \in Sess : req' = [req EXCEPT ![p] = [Idle EXCEPT !.step = "rotate",
                                                          !.session = s, !.token = t]]
      BY <2>1 DEF Refresh, GetSessionByTokenHash
    <2>a. t \in Tokens
      BY SMT DEF TypeOK, Tokens
    <2>3. [Idle EXCEPT !.step = "rotate", !.session = s, !.token = t] \in Record
      BY <2>a, IdleType DEF Record
    <2> QED BY <2>1, <2>2, <2>3 DEF Refresh, TypeOK, Record, identity, ghosts
  <1>3. CASE RotateSessionToken(p)
    <2>a. minted + 1 \in Tokens /\ req[p].token \in Tokens /\ req[p].session \in Sess
      BY SMT, <1>3 DEF RotateSessionToken, TypeOK, Tokens, Owned
    <2>b. session[req[p].session] \in Row
      BY <2>a DEF TypeOK, Row
    <2>1. session' \in [Sess -> Row]
      BY <1>3, <2>a, <2>b, RowType DEF RotateSessionToken, Rotated, TypeOK, Row
    <2>2. uses' \in [Tokens -> Nat]
      <3>1. uses \in [Tokens -> Nat] /\ uses' = [uses EXCEPT ![req[p].token] = @ + 1]
        BY <1>3 DEF RotateSessionToken, TypeOK
      <3> QED BY SMT, <2>a, <3>1
    <2> QED BY SMT, <1>3, <2>1, <2>2, IdleType
            DEF RotateSessionToken, Return, TypeOK, Record, Row, identity
  <1> QED BY <1>1, <1>2, <1>3

(* A revocation leaves rows.                                                *)
LEMMA RevokedType ==
    ASSUME TypeOK, NEW S
    PROVE  Revoked(S) \in [Sess -> Row]
  <1>1. \A s \in Sess : session[s] \in Row
    BY DEF TypeOK, Row
  <1>2. \A s \in Sess : [session[s] EXCEPT !.state = "revoked"] \in Row
    BY <1>1, RowType
  <1> QED BY <1>1, <1>2 DEF Revoked

(* Resets, suspensions, and what fails.                                     *)
LEMMA AccountType ==
    ASSUME TypeOK, Linked, NEW p \in Requests,
           \/ \E r \in Resets : GetPasswordReset(p, r)
           \/ ConfirmPasswordReset(p) \/ HandleSuspendUser(p) \/ SuspendRevokes(p) \/ Error(p)
    PROVE  TypeOK'
  <1>1. CASE \E r \in Resets : GetPasswordReset(p, r)
    <2>1. PICK r \in Resets : GetPasswordReset(p, r)
      BY <1>1
    <2>2. [Idle EXCEPT !.step = "reset", !.link = r] \in Record
      BY IdleType DEF Record
    <2> QED BY <2>1, <2>2 DEF GetPasswordReset, TypeOK, Record, identity, ghosts
  <1>2. CASE ConfirmPasswordReset(p)
    <2>1. session' \in [Sess -> Row]
      BY <1>2, RevokedType DEF ConfirmPasswordReset, RevokeAllUserSessions
    <2>2. writes' \in 0..MaxWrites /\ hash' \in Passwords
      BY SMT, <1>2 DEF ConfirmPasswordReset, TypeOK, Passwords, Wrong
    <2>3. req[p].link \in Resets
      BY <1>2 DEF ConfirmPasswordReset, Linked
    <2>4. link' \in [Resets -> {"none", "open", "used", "expired"}] /\ sets' \in [Resets -> Nat]
      BY SMT, <1>2, <2>3 DEF ConfirmPasswordReset, MarkPasswordResetUsed, TypeOK
    <2>5. req' \in [Requests -> Record]
      BY <1>2, IdleType DEF ConfirmPasswordReset, Return, TypeOK, Record
    <2> QED BY <1>2, <2>1, <2>2, <2>4, <2>5
            DEF ConfirmPasswordReset, AllEnd, TypeOK, Record, Row
  <1>3. CASE HandleSuspendUser(p)
    <2>1. [Idle EXCEPT !.step = "revoke"] \in Record
      BY IdleType DEF Record
    <2> QED BY <1>3, <2>1 DEF HandleSuspendUser, AllEnd, TypeOK, Record, identity
  <1>4. CASE SuspendRevokes(p)
    BY <1>4, RevokedType, IdleType
       DEF SuspendRevokes, RevokeAllUserSessions, Return, TypeOK, Record, Row, identity, ghosts
  <1>5. CASE Error(p)
    <2>1. [req[p] EXCEPT !.step = "session"] \in Record
      BY SMT DEF TypeOK, Record
    <2>2. req' \in [Requests -> Record]
      BY SMT, <1>5, <2>1, IdleType DEF Error, Return, TypeOK, Record
    <2>3. errors' \in 0..MaxErrors
      BY SMT, <1>5 DEF Error, TypeOK
    <2>4. ended' \in SUBSET Sess
      BY <1>5 DEF Error, TypeOK
    <2> QED BY <1>5, <2>2, <2>3, <2>4 DEF Error, TypeOK, Record, identity
  <1> QED BY <1>1, <1>2, <1>3, <1>4, <1>5

(* What needs no request: logout, the admin, links and time.                *)
LEMMA TimeType ==
    ASSUME TypeOK,
           \/ \E s \in Sess : HandleLogout(s) \/ SessionExpires(s)
           \/ \E r \in Resets : StartPasswordReset(r) \/ LinkExpires(r)
           \/ HandleActivateUser \/ HandleRemoveUser \/ LockExpires \/ WindowPasses
    PROVE  TypeOK'
  <1>1. ASSUME NEW s \in Sess, HandleLogout(s) PROVE TypeOK'
    BY <1>1, RevokedType DEF HandleLogout, TypeOK, Row, identity
  <1>2. ASSUME NEW s \in Sess, SessionExpires(s) PROVE TypeOK'
    <2>1. session[s] \in Row
      BY DEF TypeOK, Row
    <2>2. session' \in [Sess -> Row]
      <3>1. /\ [session[s] EXCEPT !.state = "expired"] \in Row
            /\ [session[s] EXCEPT !.access = FALSE] \in Row
        BY <2>1, RowType
      <3> QED BY <1>2, <3>1 DEF SessionExpires, TypeOK, Row
    <2> QED BY <1>2, <2>2 DEF SessionExpires, TypeOK, Row, identity, ghosts
  <1>3. ASSUME NEW r \in Resets, StartPasswordReset(r) \/ LinkExpires(r) PROVE TypeOK'
    BY <1>3 DEF StartPasswordReset, LinkExpires, TypeOK, identity, ghosts
  <1>4. CASE HandleActivateUser
    BY <1>4 DEF HandleActivateUser, TypeOK, identity, ghosts
  <1>5. CASE HandleRemoveUser
    BY <1>5, RevokedType DEF HandleRemoveUser, RevokeAllUserSessions, AllEnd, TypeOK, Row
  <1>6. CASE LockExpires
    <2>1. 0 \in 0..MaxFailures
      BY SMT
    <2> QED BY <1>6, <2>1 DEF LockExpires, TypeOK
  <1>7. CASE WindowPasses
    <2>1. streak' \in 0..MaxFailures
      BY SMT, <1>7 DEF WindowPasses, TypeOK
    <2>2. \A p \in Requests : [req[p] EXCEPT !.recent = FALSE] \in Record
      BY RequestType, RecordType
    <2> QED BY <1>7, <2>1, <2>2 DEF WindowPasses, TypeOK, Record
  <1> QED BY <1>1, <1>2, <1>3, <1>4, <1>5, <1>6, <1>7

-----------------------------------------------------------------------------
(* Tokens.                                                                  *)

(* No live session has a token that was exchanged.                          *)
TokensDead == \A t \in Tokens : uses[t] > 0 => GetSessionByTokenHash(t) = {}

TokenInv == Numbered /\ Owned /\ Exchanged /\ TokensDead

(* A step that mints nothing, makes no row live and starts no refresh.      *)
Fading ==
    /\ made' = made /\ minted' = minted /\ uses' = uses /\ ended' \subseteq 1..made
    /\ \A s \in Sess :
        /\ session'[s].token = session[s].token
        /\ session'[s].state = session[s].state
               \/ (session'[s].state \in {"revoked", "expired"} /\ session[s].state # "none")
    /\ \A p \in Requests : req'[p].step = "rotate" =>
        /\ req[p].step = "rotate"
        /\ req'[p].session = req[p].session /\ req'[p].token = req[p].token

(* Such a step disturbs nothing about tokens.                               *)
LEMMA FadingTokens ==
    ASSUME TypeOK, TokenInv, Fading
    PROVE  TokenInv'
  <1>1. Numbered'
    BY SMT DEF Numbered, TokenInv, Fading
  <1>2. Owned'
    BY SMT DEF Owned, TokenInv, Fading
  <1>3. Exchanged'
    BY DEF Exchanged, TokenInv, Fading
  <1>4. TokensDead'
    BY SMT DEF TokensDead, TokenInv, Fading, GetSessionByTokenHash, Live
  <1> QED BY <1>1, <1>2, <1>3, <1>4 DEF TokenInv

(* login's session gets a token of its own.                                 *)
LEMMA CreateTokens ==
    ASSUME TypeOK, TokenInv, NEW p \in Requests, CreateSession(p)
    PROVE  TokenInv'
  <1>1. /\ made + 1 \in Sess /\ minted' = minted + 1 /\ made' = made + 1
        /\ uses' = uses /\ ended' = ended
        /\ made \in Nat /\ minted \in Nat
    BY SMT DEF CreateSession, TypeOK, Sess, ghosts
  <1>2. /\ session'[made + 1] = [state |-> "live", token |-> minted + 1, access |-> TRUE]
        /\ \A s \in Sess : s # made + 1 => session'[s] = session[s]
    BY <1>1 DEF CreateSession, TypeOK
  <1>3. \A s \in Sess : session[s].token \in Nat
    BY SMT DEF TypeOK, Tokens
  <1>4. \A q \in Requests : req'[q].step = "rotate" => req'[q] = req[q]
    BY DEF CreateSession, Return, Idle, TypeOK
  <1>5. Numbered'
    <2>1. ended' \subseteq 1..made'
      BY SMT, <1>1 DEF TokenInv, Numbered
    <2>2. \A s \in Sess : session'[s].token <= minted'
      BY SMT, <1>1, <1>2, <1>3 DEF TokenInv, Numbered
    <2>3. \A s \in Sess : session'[s].state # "none" => s <= made' /\ session'[s].token # 0
      BY SMT, <1>1, <1>2, <1>3 DEF TokenInv, Numbered, Sess
    <2>4. ASSUME NEW s \in Sess, NEW u \in Sess,
                 session'[s].token = session'[u].token, session'[s].token # 0
          PROVE  s = u
      BY SMT, <1>1, <1>2, <1>3, <2>4 DEF TokenInv, Numbered
    <2> QED BY <2>1, <2>2, <2>3, <2>4 DEF Numbered
  <1>6. Owned'
    <2> SUFFICES ASSUME NEW q \in Requests, req'[q].step = "rotate"
                 PROVE  /\ req'[q].session \in Sess /\ req'[q].token \in 1..minted'
                        /\ \A s \in Sess : session'[s].token = req'[q].token
                                            => s = req'[q].session
      BY DEF Owned
    <2>1. req'[q] = req[q] /\ req[q].token \in 1..minted /\ req[q].session \in Sess
      BY <1>4 DEF TokenInv, Owned
    <2>2. \A s \in Sess : session'[s].token = req[q].token => session[s].token = req[q].token
      BY SMT, <1>1, <1>2, <2>1
    <2> QED BY SMT, <1>1, <1>4, <2>1, <2>2 DEF TokenInv, Owned
  <1>7. Exchanged'
    BY SMT, <1>1 DEF TokenInv, Exchanged, TypeOK, Tokens
  <1>8. TokensDead'
    BY SMT, <1>1, <1>2 DEF TokenInv, TokensDead, Exchanged, GetSessionByTokenHash, Live, Tokens
  <1> QED BY <1>5, <1>6, <1>7, <1>8 DEF TokenInv

(* A refresh finds the only session its token ever had.                     *)
LEMMA RefreshTokens ==
    ASSUME TypeOK, TokenInv, NEW p \in Requests, NEW t \in 1..minted, Refresh(p, t)
    PROVE  TokenInv'
  <1>1. PICK s \in Sess :
            /\ session[s].token = t
            /\ req' = [req EXCEPT ![p] = [Idle EXCEPT !.step = "rotate",
                                                      !.session = s, !.token = t]]
    BY DEF Refresh, GetSessionByTokenHash
  <1>2. /\ session' = session /\ made' = made /\ minted' = minted
        /\ uses' = uses /\ ended' = ended
    BY DEF Refresh, ghosts
  <1>3. t \in Nat \ {0}
    BY SMT DEF TypeOK
  <1>4. Numbered' /\ Exchanged' /\ TokensDead'
    BY <1>2 DEF TokenInv, Numbered, Exchanged, TokensDead, GetSessionByTokenHash, Live
  <1>5. Owned'
    <2> SUFFICES ASSUME NEW q \in Requests, req'[q].step = "rotate"
                 PROVE  /\ req'[q].session \in Sess /\ req'[q].token \in 1..minted'
                        /\ \A u \in Sess : session'[u].token = req'[q].token
                                            => u = req'[q].session
      BY DEF Owned
    <2>1. CASE q = p
      <3>1. req'[q].session = s /\ req'[q].token = t
        BY <1>1, <2>1 DEF TypeOK, Idle
      <3> QED BY <1>1, <1>2, <1>3, <3>1 DEF TokenInv, Numbered
    <2>2. CASE q # p
      <3>1. req'[q] = req[q]
        BY <1>1, <2>2 DEF TypeOK
      <3> QED BY <1>2, <3>1 DEF TokenInv, Owned
    <2> QED BY <2>1, <2>2
  <1> QED BY <1>4, <1>5 DEF TokenInv

(* Rotating takes the exchanged token from the only session that has it,    *)
(* whatever other refreshes found it too.                                   *)
LEMMA RotateTokens ==
    ASSUME TypeOK, TokenInv, NEW p \in Requests, RotateSessionToken(p)
    PROVE  TokenInv'
  <1> DEFINE s == req[p].session
             t == req[p].token
  <1>1. /\ s \in Sess /\ t \in 1..minted
        /\ \A u \in Sess : session[u].token = t => u = s
    BY DEF RotateSessionToken, TokenInv, Owned
  <1>2. /\ minted' = minted + 1 /\ made' = made /\ ended' = ended /\ minted \in Nat
        /\ minted + 1 \in Tokens /\ t \in Tokens
    BY SMT, <1>1 DEF RotateSessionToken, TypeOK, Tokens
  <1>3. /\ session'[s].token = minted + 1 /\ session'[s].state = session[s].state
        /\ \A u \in Sess : u # s => session'[u] = session[u]
    BY SMT, <1>1 DEF RotateSessionToken, Rotated, TypeOK
  <1>4. \A u \in Tokens : u # t => uses'[u] = uses[u]
    BY <1>2 DEF RotateSessionToken, TypeOK
  <1>5. \A u \in Sess : session[u].token \in Nat
    BY SMT DEF TypeOK, Tokens
  <1>6. \A q \in Requests : req'[q].step = "rotate" => req'[q] = req[q]
    BY DEF RotateSessionToken, Return, Idle, TypeOK
  <1> HIDE DEF s, t
  <1>7. Numbered'
    <2>1. ended' \subseteq 1..made'
      BY <1>2 DEF TokenInv, Numbered
    <2>2. \A u \in Sess : session'[u].token <= minted'
      BY SMT, <1>2, <1>3, <1>5 DEF TokenInv, Numbered
    <2>3. \A u \in Sess : session'[u].state # "none" => u <= made' /\ session'[u].token # 0
      BY SMT, <1>2, <1>3, <1>5 DEF TokenInv, Numbered
    <2>4. ASSUME NEW v \in Sess, NEW u \in Sess,
                 session'[v].token = session'[u].token, session'[v].token # 0
          PROVE  v = u
      BY SMT, <1>2, <1>3, <1>5, <2>4 DEF TokenInv, Numbered
    <2> QED BY <2>1, <2>2, <2>3, <2>4 DEF Numbered
  <1>8. Owned'
    <2> SUFFICES ASSUME NEW q \in Requests, req'[q].step = "rotate"
                 PROVE  /\ req'[q].session \in Sess /\ req'[q].token \in 1..minted'
                        /\ \A u \in Sess : session'[u].token = req'[q].token
                                            => u = req'[q].session
      BY DEF Owned
    <2>1. req'[q] = req[q] /\ req[q].token \in 1..minted /\ req[q].session \in Sess
      BY <1>6 DEF TokenInv, Owned
    <2>2. \A u \in Sess : session'[u].token = req[q].token => session[u].token = req[q].token
      BY SMT, <1>2, <1>3, <2>1
    <2> QED BY SMT, <1>2, <1>6, <2>1, <2>2 DEF TokenInv, Owned
  <1>9. Exchanged'
    BY SMT, <1>1, <1>2, <1>4 DEF TokenInv, Exchanged, Tokens
  <1>10. TokensDead'
    <2> SUFFICES ASSUME NEW x \in Tokens, uses'[x] > 0, NEW u \in Sess,
                        session'[u].state = "live", session'[u].token = x
                 PROVE  FALSE
      BY DEF TokensDead, GetSessionByTokenHash, Live
    <2>1. x <= minted
      BY SMT, <1>1, <1>2, <1>4 DEF TokenInv, Exchanged, Tokens
    <2>2. u # s
      BY SMT, <1>2, <1>3, <2>1 DEF Tokens
    <2>3. x # t
      BY <1>1, <1>3, <2>2
    <2> QED BY <1>3, <1>4, <2>2, <2>3 DEF TokenInv, TokensDead, GetSessionByTokenHash, Live
  <1> QED BY <1>7, <1>8, <1>9, <1>10 DEF TokenInv

(* The steps that leave the sessions alone.                                 *)
Apart ==
    \/ \E p \in Requests :
        \/ \E w \in 0..writes \cup {Wrong} : Login(p, w)
        \/ RecordFailedLogin(p) \/ ResetLoginFailures(p)
        \/ \E r \in Resets : GetPasswordReset(p, r)
    \/ \E r \in Resets : StartPasswordReset(r) \/ LinkExpires(r)
    \/ HandleActivateUser \/ LockExpires \/ WindowPasses

(* They take no revocation and no refresh forward or back.                  *)
LEMMA ApartFrame ==
    ASSUME TypeOK, Apart
    PROVE  /\ UNCHANGED <<session, made, minted, uses, ended>>
           /\ \A p \in Requests : req'[p].step = "rotate" =>
                /\ req[p].step = "rotate"
                /\ req'[p].session = req[p].session /\ req'[p].token = req[p].token
           /\ \A p \in Requests : req[p].step = "revoke" => req'[p].step = "revoke"
  <1> DEFINE Goal == /\ UNCHANGED <<session, made, minted, uses, ended>>
                     /\ \A q \in Requests : req'[q].step = "rotate" =>
                          /\ req[q].step = "rotate"
                          /\ req'[q].session = req[q].session
                          /\ req'[q].token = req[q].token
                     /\ \A q \in Requests : req[q].step = "revoke" => req'[q].step = "revoke"
  <1>1. ASSUME NEW p \in Requests, NEW w \in 0..writes \cup {Wrong}, Login(p, w)
        PROVE  Goal
    BY SMT, <1>1 DEF Login, Idle, TypeOK, ghosts
  <1>2. ASSUME NEW p \in Requests, RecordFailedLogin(p) PROVE Goal
    <2>1. UNCHANGED <<session, made, minted, uses, ended>> /\ req[p].step = "fail"
      BY <1>2 DEF RecordFailedLogin
    <2>2. CASE exists
      <3>1. /\ req'[p] = Idle
            /\ \A q \in Requests : q # p => req'[q] = [req[q] EXCEPT !.fresh = FALSE]
        BY <1>2, <2>2 DEF RecordFailedLogin
      <3>a. \A r \in Record : LET f == [r EXCEPT !.fresh = FALSE] IN
                f.step = r.step /\ f.session = r.session /\ f.token = r.token
        BY DEF Record
      <3>b. \A q \in Requests : req[q] \in Record
        BY DEF TypeOK, Record
      <3>2. \A q \in Requests : q # p => /\ req'[q].step = req[q].step
                                         /\ req'[q].session = req[q].session
                                         /\ req'[q].token = req[q].token
        BY <3>1, <3>a, <3>b
      <3>3. req'[p].step = "idle"
        BY SMT, <3>1 DEF Idle
      <3> QED BY <2>1, <3>2, <3>3
    <2>3. CASE ~exists
      <3>1. req' = [req EXCEPT ![p] = Idle]
        BY <1>2, <2>3 DEF RecordFailedLogin, Return
      <3> QED BY <2>1, <3>1 DEF Idle, TypeOK
    <2> QED BY <2>2, <2>3
  <1>3. ASSUME NEW p \in Requests, ResetLoginFailures(p) PROVE Goal
    BY <1>3 DEF ResetLoginFailures, TypeOK
  <1>4. ASSUME NEW p \in Requests, NEW r \in Resets, GetPasswordReset(p, r) PROVE Goal
    BY SMT, <1>4 DEF GetPasswordReset, Idle, TypeOK, ghosts
  <1>5. ASSUME NEW r \in Resets, StartPasswordReset(r) \/ LinkExpires(r) PROVE Goal
    BY <1>5 DEF StartPasswordReset, LinkExpires, ghosts
  <1>6. CASE HandleActivateUser \/ LockExpires
    BY <1>6 DEF HandleActivateUser, LockExpires, ghosts
  <1>7. CASE WindowPasses
    BY SMT, <1>7 DEF WindowPasses, TypeOK
  <1> QED BY <1>1, <1>2, <1>3, <1>4, <1>5, <1>6, <1>7 DEF Apart

(* The steps that end sessions or fail.                                     *)
Ending ==
    \/ \E p \in Requests :
        ConfirmPasswordReset(p) \/ HandleSuspendUser(p) \/ SuspendRevokes(p) \/ Error(p)
    \/ \E s \in Sess : HandleLogout(s) \/ SessionExpires(s)
    \/ HandleRemoveUser

(* What a revocation does to the rows.                                      *)
LEMMA RevokedRows ==
    ASSUME TypeOK, NEW S
    PROVE  \A s \in Sess :
            /\ Revoked(S)[s].token = session[s].token
            /\ Revoked(S)[s].state = session[s].state
                 \/ (Revoked(S)[s].state = "revoked" /\ session[s].state # "none")
            /\ s \in S => Revoked(S)[s].state # "live"
  BY SMT DEF Revoked, TypeOK

(* All of these fade, and sessions that were live are old ones.             *)
LEMMA EndingFades ==
    ASSUME TypeOK, TokenInv, Ending
    PROVE  Fading
  <1>0. \A s \in Sess : Live(s) => s \in 1..made
    BY SMT DEF TokenInv, Numbered, Live, Sess, TypeOK
  <1>1. ASSUME NEW p \in Requests, ConfirmPasswordReset(p) PROVE Fading
    <2>1. /\ made' = made /\ minted' = minted /\ uses' = uses
          /\ session' = Revoked({s \in Sess : Live(s)})
          /\ req' = [req EXCEPT ![p] = Idle]
      BY <1>1 DEF ConfirmPasswordReset, RevokeAllUserSessions, Return
    <2>2. ended' \subseteq 1..made
      BY <1>0, <1>1 DEF ConfirmPasswordReset, AllEnd, TokenInv, Numbered
    <2> QED BY SMT, <2>1, <2>2, RevokedRows DEF Fading, Idle, TypeOK
  <1>2. ASSUME NEW p \in Requests, HandleSuspendUser(p) PROVE Fading
    BY <1>0, <1>2 DEF HandleSuspendUser, AllEnd, Fading, Idle, TypeOK, TokenInv, Numbered
  <1>3. ASSUME NEW p \in Requests, SuspendRevokes(p) PROVE Fading
    BY SMT, <1>3, RevokedRows
       DEF SuspendRevokes, RevokeAllUserSessions, Fading, Return, Idle, TypeOK, TokenInv,
           Numbered, ghosts
  <1>4. ASSUME NEW p \in Requests, Error(p) PROVE Fading
    BY SMT, <1>4 DEF Error, Fading, Return, Idle, TypeOK, TokenInv, Numbered
  <1>5. ASSUME NEW s \in Sess, HandleLogout(s) PROVE Fading
    BY <1>0, <1>5, RevokedRows DEF HandleLogout, Authorized, Fading, TokenInv, Numbered
  <1>6. ASSUME NEW s \in Sess, SessionExpires(s) PROVE Fading
    <2>1. UNCHANGED <<made, minted, uses, ended, req>> /\ session[s].state = "live"
      BY <1>6 DEF SessionExpires, Live, ghosts
    <2>2. \A u \in Sess : session'[u].token = session[u].token
      BY SMT, <1>6 DEF SessionExpires, TypeOK
    <2>3. \A u \in Sess : session'[u].state = session[u].state
                           \/ (u = s /\ session'[u].state = "expired")
      BY SMT, <1>6 DEF SessionExpires, TypeOK
    <2> QED BY <2>1, <2>2, <2>3 DEF Fading, TokenInv, Numbered
  <1>7. CASE HandleRemoveUser
    BY <1>0, <1>7, RevokedRows
       DEF HandleRemoveUser, RevokeAllUserSessions, AllEnd, Fading, TokenInv, Numbered
  <1> QED BY <1>1, <1>2, <1>3, <1>4, <1>5, <1>6, <1>7 DEF Ending

(* Every step keeps the tokens in order.                                    *)
LEMMA TokenStep ==
    ASSUME TypeOK, TokenInv, Next
    PROVE  TokenInv'
  <1>1. CASE Apart
    <2>1. Fading
      BY <1>1, ApartFrame DEF Fading, TokenInv, Numbered
    <2> QED BY <2>1, FadingTokens
  <1>2. CASE Ending
    BY <1>2, EndingFades, FadingTokens
  <1>3. ASSUME NEW p \in Requests,
               CreateSession(p) \/ (\E t \in 1..minted : Refresh(p, t)) \/ RotateSessionToken(p)
        PROVE  TokenInv'
    BY <1>3, CreateTokens, RefreshTokens, RotateTokens
  <1> QED BY <1>1, <1>2, <1>3 DEF Next, Apart, Ending

-----------------------------------------------------------------------------
(* Ended sessions.                                                          *)

(* Nothing makes an ended session live: a login takes a number nobody has   *)
(* had, a rotation keeps the state, and a suspension that gives up its      *)
(* second statement has ended nothing.                                      *)
LEMMA EndedStep ==
    ASSUME TypeOK, TokenInv, EndedInv, Next
    PROVE  EndedInv'
  <1>1. CASE Apart
    BY <1>1, ApartFrame DEF EndedInv, Revoking, Live
  <1>2. ASSUME NEW p \in Requests, CreateSession(p) PROVE EndedInv'
    <2>1. made + 1 \notin ended /\ ended' = ended /\ ended \subseteq Sess
      BY SMT, <1>2 DEF CreateSession, TokenInv, Numbered, TypeOK, ghosts
    <2>2. \A s \in ended : session'[s] = session[s]
      BY <1>2, <2>1 DEF CreateSession, TypeOK
    <2>3. \A q \in Requests : req[q].step = "revoke" => req'[q].step = "revoke"
      BY <1>2 DEF CreateSession, Return, TypeOK
    <2> QED BY <2>1, <2>2, <2>3 DEF EndedInv, Revoking, Live
  <1>3. ASSUME NEW p \in Requests, NEW t \in 1..minted, Refresh(p, t) PROVE EndedInv'
    <2>1. session' = session /\ ended' = ended /\ req[p] = Idle
      BY <1>3 DEF Refresh, ghosts
    <2>2. \A q \in Requests : req[q].step = "revoke" => req'[q].step = "revoke"
      BY SMT, <1>3, <2>1 DEF Refresh, Idle, TypeOK
    <2> QED BY <2>1, <2>2 DEF EndedInv, Revoking, Live
  <1>4. ASSUME NEW p \in Requests, RotateSessionToken(p) PROVE EndedInv'
    <2>1. \A s \in Sess : session'[s].state = session[s].state
      BY SMT, <1>4 DEF RotateSessionToken, Rotated, TypeOK
    <2>2. \A q \in Requests : req[q].step = "revoke" => req'[q].step = "revoke"
      BY <1>4 DEF RotateSessionToken, Return, TypeOK
    <2>3. ended' = ended /\ ended \subseteq Sess
      BY <1>4 DEF RotateSessionToken, TypeOK
    <2> QED BY <2>1, <2>2, <2>3 DEF EndedInv, Revoking, Live
  <1>5. ASSUME session' = Revoked({s \in Sess : Live(s)}), ended' \subseteq Sess PROVE EndedInv'
    <2>1. \A s \in Sess : session'[s].state # "live"
      BY <1>5, RevokedRows DEF Live
    <2> QED BY <1>5, <2>1 DEF EndedInv, Live
  <1>6. ASSUME NEW p \in Requests, ConfirmPasswordReset(p) \/ SuspendRevokes(p) PROVE EndedInv'
    BY <1>5, <1>6 DEF ConfirmPasswordReset, SuspendRevokes, RevokeAllUserSessions, AllEnd,
                      TypeOK, ghosts
  <1>7. CASE HandleRemoveUser
    BY <1>5, <1>7 DEF HandleRemoveUser, RevokeAllUserSessions, AllEnd, TypeOK
  <1>8. ASSUME NEW p \in Requests, HandleSuspendUser(p) PROVE EndedInv'
    <2>1. req'[p].step = "revoke"
      BY <1>8 DEF HandleSuspendUser, Idle, TypeOK
    <2> QED BY <2>1 DEF EndedInv, Revoking
  <1>9. ASSUME NEW p \in Requests, Error(p) PROVE EndedInv'
    <2>1. session' = session
      BY <1>9 DEF Error
    <2>2. CASE req[p].step = "revoke"
      BY <1>9, <2>1, <2>2 DEF Error, EndedInv, Live
    <2>3. CASE req[p].step # "revoke"
      <3>1. ended' = ended
        BY <1>9, <2>3 DEF Error
      <3>2. \A q \in Requests : q # p => req'[q] = req[q]
        BY <1>9 DEF Error, Return, TypeOK
      <3> QED BY <2>1, <2>3, <3>1, <3>2 DEF EndedInv, Revoking, Live
    <2> QED BY <2>2, <2>3
  <1>10. ASSUME NEW s \in Sess, HandleLogout(s) PROVE EndedInv'
    <2>1. /\ session' = Revoked({s}) /\ ended' = ended \cup {s} /\ req' = req
          /\ ended' \subseteq Sess
      BY <1>10 DEF HandleLogout, TypeOK
    <2> QED BY <2>1, RevokedRows DEF EndedInv, Revoking, Live
  <1>11. ASSUME NEW s \in Sess, SessionExpires(s) PROVE EndedInv'
    <2>1. ended' = ended /\ req' = req /\ ended \subseteq Sess
      BY <1>11 DEF SessionExpires, TypeOK, ghosts
    <2>2. \A u \in Sess : session'[u].state = "live" => session[u].state = "live"
      BY <1>11 DEF SessionExpires, Live, TypeOK
    <2> QED BY <2>1, <2>2 DEF EndedInv, Revoking, Live
  <1> QED BY <1>1, <1>2, <1>3, <1>4, <1>6, <1>7, <1>8, <1>9, <1>10, <1>11 DEF Next, Apart

-----------------------------------------------------------------------------
(* The failure counter.                                                     *)

(* The steps that leave the counter alone and begin no login.               *)
LEMMA CountingFrame ==
    ASSUME Counting, UNCHANGED <<failed, recent, locked, streak>>,
           \A q \in Requests : req'[q].fresh =>
               /\ req[q].fresh
               /\ req'[q].recent = req[q].recent /\ req'[q].failed = req[q].failed
    PROVE  Counting'
  BY DEF Counting

(* A login reads the counter as it is.                                      *)
LEMMA CountingLogin ==
    ASSUME TypeOK, Counting, NEW p \in Requests, NEW w, Login(p, w)
    PROVE  Counting'
  <1>1. UNCHANGED <<failed, recent, locked, streak>> /\ ~locked
    BY DEF Login, identity, ghosts
  <1>2. req'[p].failed = failed /\ req'[p].recent = recent
    BY DEF Login, Idle, TypeOK
  <1>3. \A q \in Requests : q # p => req'[q] = req[q]
    BY DEF Login, TypeOK
  <1>4. streak <= IF recent THEN failed ELSE 0
    BY SMT, <1>1 DEF Counting, TypeOK
  <1> QED BY <1>1, <1>2, <1>3, <1>4 DEF Counting

(* A failure is counted, and makes every login under way a late one.        *)
LEMMA CountingFailure ==
    ASSUME TypeOK, Counting, NEW p \in Requests, RecordFailedLogin(p)
    PROVE  Counting'
  <1>1. CASE exists
    <2>1. /\ failed' = Counted(p).failed /\ locked' = Counted(p).locked /\ recent' = TRUE
          /\ streak' = IF ~req[p].fresh THEN 1
                       ELSE IF streak < MaxFailures THEN streak + 1 ELSE streak
      BY <1>1 DEF RecordFailedLogin
    <2>2. \A q \in Requests : ~req'[q].fresh
      <3>1. \A r \in Record : ~[r EXCEPT !.fresh = FALSE].fresh
        BY DEF Record
      <3>2. \A q \in Requests : req[q] \in Record
        BY DEF TypeOK, Record
      <3>3. req'[p] = Idle
            /\ \A q \in Requests : q # p => req'[q] = [req[q] EXCEPT !.fresh = FALSE]
        BY <1>1 DEF RecordFailedLogin
      <3>4. ~Idle.fresh
        BY DEF Idle
      <3> QED BY <3>1, <3>2, <3>3, <3>4
    <2> DEFINE count == IF req[p].recent THEN req[p].failed + 1 ELSE 1
    <2>3. count \in Nat /\ count >= 1
      BY SMT DEF TypeOK
    <2>4. streak' <= count
      <3>1. CASE req[p].fresh
        <4>1. streak <= IF req[p].recent THEN req[p].failed ELSE 0
          BY <3>1 DEF Counting
        <4> QED BY SMT, <2>1, <3>1, <4>1 DEF TypeOK
      <3>2. CASE ~req[p].fresh
        BY <2>1, <2>3, <3>2
      <3> QED BY <3>1, <3>2
    <2>5. ~locked' => failed' = count
      BY <2>1 DEF Counted
    <2> QED BY <2>1, <2>2, <2>4, <2>5 DEF Counting
  <1>2. CASE ~exists
    <2>1. UNCHANGED <<failed, recent, locked, streak>> /\ req' = [req EXCEPT ![p] = Idle]
      BY <1>2 DEF RecordFailedLogin, Return
    <2>2. \A q \in Requests : req'[q].fresh => req'[q] = req[q]
      BY <2>1 DEF Idle, TypeOK
    <2> QED BY <2>1, <2>2, CountingFrame
  <1> QED BY <1>1, <1>2

(* A success and the passing of time start the count again.                 *)
LEMMA CountingRestart ==
    ASSUME TypeOK, Counting,
           (\E p \in Requests : ResetLoginFailures(p)) \/ LockExpires \/ WindowPasses
    PROVE  Counting'
  <1>1. \A q \in Requests : req[q].failed \in Nat
    BY SMT DEF TypeOK
  <1>2. ASSUME NEW p \in Requests, ResetLoginFailures(p) PROVE Counting'
    <2>1. failed' = 0 /\ locked' = FALSE /\ streak' = 0
      BY <1>2 DEF ResetLoginFailures
    <2>2. \A q \in Requests : req'[q].failed = req[q].failed
      BY <1>2 DEF ResetLoginFailures, TypeOK
    <2> QED BY SMT, <1>1, <2>1, <2>2 DEF Counting
  <1>3. CASE LockExpires
    <2>1. failed \in Nat
      BY SMT DEF TypeOK
    <2> QED BY SMT, <1>1, <1>3, <2>1 DEF LockExpires, Counting
  <1>4. CASE WindowPasses
    <2>1. locked' = locked /\ failed' = failed /\ failed \in Nat
          /\ streak' = IF locked THEN streak ELSE 0
      BY SMT, <1>4 DEF WindowPasses, TypeOK
    <2>2. \A q \in Requests : req'[q].fresh = req[q].fresh /\ req'[q].failed = req[q].failed
      BY SMT, <1>4 DEF WindowPasses, TypeOK
    <2> QED BY SMT, <1>1, <2>1, <2>2 DEF Counting
  <1> QED BY <1>2, <1>3, <1>4

(* Every step keeps the count.                                              *)
LEMMA CountingStep ==
    ASSUME TypeOK, Counting, Next
    PROVE  Counting'
  <1> DEFINE Kept == /\ UNCHANGED <<failed, recent, locked, streak>>
                     /\ \A q \in Requests : req'[q].fresh =>
                          /\ req[q].fresh
                          /\ req'[q].recent = req[q].recent /\ req'[q].failed = req[q].failed
  <1>1. ASSUME NEW p \in Requests, CreateSession(p) \/ RotateSessionToken(p) PROVE Kept
    BY SMT, <1>1 DEF CreateSession, RotateSessionToken, Return, Idle, TypeOK, identity, ghosts
  <1>2. ASSUME NEW p \in Requests, NEW t \in 1..minted, Refresh(p, t) PROVE Kept
    <2>1. UNCHANGED <<failed, recent, locked, streak>>
      BY <1>2 DEF Refresh, identity, ghosts
    <2>2. PICK s : req' = [req EXCEPT ![p] = [Idle EXCEPT !.step = "rotate",
                                                !.session = s, !.token = t]]
      BY <1>2 DEF Refresh
    <2> QED BY <2>1, <2>2 DEF Idle, TypeOK
  <1>3. ASSUME NEW p \in Requests, NEW r \in Resets, GetPasswordReset(p, r) PROVE Kept
    BY <1>3 DEF GetPasswordReset, Idle, TypeOK, identity, ghosts
  <1>4. ASSUME NEW p \in Requests, ConfirmPasswordReset(p) PROVE Kept
    BY <1>4 DEF ConfirmPasswordReset, Return, Idle, TypeOK
  <1>5. ASSUME NEW p \in Requests, HandleSuspendUser(p) \/ SuspendRevokes(p) PROVE Kept
    BY SMT, <1>5 DEF HandleSuspendUser, SuspendRevokes, Return, Idle, TypeOK, identity, ghosts
  <1>6. ASSUME NEW p \in Requests, Error(p) PROVE Kept
    <2>1. CASE req[p].step = "pass"
      BY SMT, <1>6, <2>1 DEF Error, TypeOK, identity
    <2>2. CASE req[p].step # "pass"
      BY SMT, <1>6, <2>2 DEF Error, Return, Idle, TypeOK, identity
    <2> QED BY <2>1, <2>2
  <1>7. ASSUME NEW s \in Sess, HandleLogout(s) \/ SessionExpires(s) PROVE Kept
    BY <1>7 DEF HandleLogout, SessionExpires, identity, ghosts
  <1>8. ASSUME NEW r \in Resets, StartPasswordReset(r) \/ LinkExpires(r) PROVE Kept
    BY <1>8 DEF StartPasswordReset, LinkExpires, identity, ghosts
  <1>9. CASE HandleActivateUser \/ HandleRemoveUser
    <2>1. Kept
      BY <1>9 DEF HandleActivateUser, HandleRemoveUser, identity, ghosts
    <2> QED BY <2>1, CountingFrame
  <1>10. Kept => Counting'
    BY CountingFrame
  <1> HIDE DEF Kept
  <1> QED BY <1>1, <1>2, <1>3, <1>4, <1>5, <1>6, <1>7, <1>8, <1>9, <1>10,
             CountingLogin, CountingFailure, CountingRestart DEF Next

-----------------------------------------------------------------------------
(* Reset links.                                                             *)

LinksDead == \A r \in Resets : sets[r] > 0 => link[r] = "used"

(* A used link stays used, and what a confirmation holds is a link.         *)
LEMMA LinkStep ==
    ASSUME TypeOK, Linked, LinksDead, Next
    PROVE  Linked' /\ LinksDead'
  <1>1. ASSUME NEW p \in Requests, NEW r \in Resets, GetPasswordReset(p, r)
        PROVE  Linked' /\ LinksDead'
    BY <1>1 DEF GetPasswordReset, Idle, Linked, LinksDead, TypeOK, ghosts
  <1>2. ASSUME NEW p \in Requests, ConfirmPasswordReset(p) PROVE Linked' /\ LinksDead'
    <2>1. /\ req[p].link \in Resets /\ req' = [req EXCEPT ![p] = Idle]
          /\ link' = [link EXCEPT ![req[p].link] = "used"]
          /\ sets' = [sets EXCEPT ![req[p].link] = @ + 1]
      BY <1>2 DEF ConfirmPasswordReset, MarkPasswordResetUsed, Return, Linked
    <2>2. Linked'
      BY <2>1 DEF Linked, Idle, TypeOK
    <2>3. LinksDead'
      BY <2>1 DEF LinksDead, TypeOK
    <2> QED BY <2>2, <2>3
  <1>3. ASSUME NEW r \in Resets, StartPasswordReset(r) \/ LinkExpires(r)
        PROVE  Linked' /\ LinksDead'
    BY <1>3 DEF StartPasswordReset, LinkExpires, Linked, LinksDead, TypeOK, ghosts
  <1> DEFINE Kept == /\ UNCHANGED <<link, sets>>
                     /\ \A q \in Requests : req'[q].step = "reset" =>
                          req[q].step = "reset" /\ req'[q].link = req[q].link
  <1>4. ASSUME NEW p \in Requests, NEW w, Login(p, w) PROVE Kept
    BY <1>4 DEF Login, Idle, TypeOK, ghosts
  <1>5. ASSUME NEW p \in Requests, RecordFailedLogin(p) PROVE Kept
    <2>1. UNCHANGED <<link, sets>> /\ req[p].step = "fail"
      BY <1>5 DEF RecordFailedLogin
    <2>2. /\ req'[p] = Idle
          /\ \A q \in Requests : q # p =>
                req'[q] = req[q] \/ req'[q] = [req[q] EXCEPT !.fresh = FALSE]
      BY <1>5 DEF RecordFailedLogin, Return, TypeOK
    <2>3. \A r \in Record : [r EXCEPT !.fresh = FALSE].step = r.step
                            /\ [r EXCEPT !.fresh = FALSE].link = r.link
      BY DEF Record
    <2>4. \A q \in Requests : req[q] \in Record
      BY DEF TypeOK, Record
    <2>5. Idle.step # "reset"
      BY DEF Idle
    <2> QED BY <2>1, <2>2, <2>3, <2>4, <2>5
  <1>6. ASSUME NEW p \in Requests, ResetLoginFailures(p) PROVE Kept
    BY <1>6 DEF ResetLoginFailures, TypeOK
  <1>7. ASSUME NEW p \in Requests, CreateSession(p) \/ RotateSessionToken(p) PROVE Kept
    BY SMT, <1>7 DEF CreateSession, RotateSessionToken, Return, Idle, TypeOK, ghosts
  <1>8. ASSUME NEW p \in Requests, NEW t \in 1..minted, Refresh(p, t) PROVE Kept
    <2>1. UNCHANGED <<link, sets>>
      BY <1>8 DEF Refresh, ghosts
    <2>2. PICK s : req' = [req EXCEPT ![p] = [Idle EXCEPT !.step = "rotate",
                                                !.session = s, !.token = t]]
      BY <1>8 DEF Refresh
    <2> QED BY <2>1, <2>2 DEF Idle, TypeOK
  <1>9. ASSUME NEW p \in Requests, HandleSuspendUser(p) \/ SuspendRevokes(p) PROVE Kept
    BY SMT, <1>9 DEF HandleSuspendUser, SuspendRevokes, Return, Idle, TypeOK, ghosts
  <1>10. ASSUME NEW p \in Requests, Error(p) PROVE Kept
    <2>1. CASE req[p].step = "pass"
      BY <1>10, <2>1 DEF Error, TypeOK
    <2>2. CASE req[p].step # "pass"
      BY SMT, <1>10, <2>2 DEF Error, Return, Idle, TypeOK
    <2> QED BY <2>1, <2>2
  <1>11. ASSUME NEW s \in Sess, HandleLogout(s) \/ SessionExpires(s) PROVE Kept
    BY <1>11 DEF HandleLogout, SessionExpires, ghosts
  <1>12. (HandleActivateUser \/ HandleRemoveUser \/ LockExpires) => Kept
    BY DEF HandleActivateUser, HandleRemoveUser, LockExpires, ghosts
  <1>13. WindowPasses => Kept
    BY SMT DEF WindowPasses, TypeOK
  <1>14. Kept => Linked' /\ LinksDead'
    BY DEF Linked, LinksDead
  <1> HIDE DEF Kept
  <1> QED BY <1>1, <1>2, <1>3, <1>4, <1>5, <1>6, <1>7, <1>8, <1>9, <1>10, <1>11, <1>12,
             <1>13, <1>14 DEF Next

-----------------------------------------------------------------------------
(* The theorems.                                                            *)

IInv == TypeOK /\ TokenInv /\ EndedInv /\ Counting /\ Linked /\ LinksDead

(* The initial state.                                                       *)
LEMMA InitInv == Init => IInv
  <1> SUFFICES ASSUME Init PROVE IInv
    OBVIOUS
  <1>1. TypeOK
    <2>1. session \in [Sess -> Row]
      BY DEF Init, NoSession, Row
    <2>2. req \in [Requests -> Record]
      BY IdleType DEF Init
    <2>3. /\ hash \in Passwords /\ failed \in 0..(MaxFailures - 1) /\ streak \in 0..MaxFailures
          /\ made \in 0..MaxSessions /\ minted \in 0..MaxTokens /\ writes \in 0..MaxWrites
          /\ errors \in 0..MaxErrors
      BY SMT DEF Init, Passwords, Wrong
    <2>4. uses \in [Tokens -> Nat] /\ sets \in [Resets -> Nat]
      BY DEF Init
    <2>5. /\ status \in {"active", "suspended", "removed"} /\ exists \in BOOLEAN
          /\ recent \in BOOLEAN /\ locked \in BOOLEAN /\ ended \in SUBSET Sess
          /\ link \in [Resets -> {"none", "open", "used", "expired"}]
      BY DEF Init
    <2> QED BY <2>1, <2>2, <2>3, <2>4, <2>5 DEF TypeOK, Row, Record
  <1>2. TokenInv
    BY SMT DEF Init, TokenInv, Numbered, Owned, Exchanged, TokensDead, GetSessionByTokenHash,
           Live, NoSession, Idle
  <1>3. EndedInv /\ Linked /\ LinksDead
    BY SMT DEF Init, EndedInv, Linked, LinksDead, Idle
  <1>4. Counting
    BY SMT DEF Init, Counting, Idle
  <1> QED BY <1>1, <1>2, <1>3, <1>4 DEF IInv

(* A step that changes nothing.                                             *)
LEMMA StutterInv == IInv /\ UNCHANGED vars => IInv'
  BY SMT DEF IInv, vars, identity, ghosts, TypeOK, TokenInv, Numbered, Owned, Exchanged,
         TokensDead, GetSessionByTokenHash, Live, EndedInv, Revoking, Counting, Linked, LinksDead

(* Every step, conjunct by conjunct.                                        *)
LEMMA NextInv == IInv /\ Next => IInv'
  <1> SUFFICES ASSUME IInv, Next PROVE IInv'
    OBVIOUS
  <1>1. TypeOK'
    BY LoginType, SessionType, AccountType, TimeType DEF IInv, TokenInv, Next
  <1>2. TokenInv' /\ EndedInv' /\ Counting' /\ Linked' /\ LinksDead'
    BY TokenStep, EndedStep, CountingStep, LinkStep DEF IInv
  <1> QED BY <1>1, <1>2 DEF IInv

(* The inductive invariant holds in every state.                            *)
THEOREM Invariant == Spec => []IInv
  BY InitInv, StutterInv, NextInv, PTL DEF Spec

(* EndedStayEnded: a session that a logout, a reset, a removal or a         *)
(* suspension ended is not live again, whatever refreshes, logins and       *)
(* failures overlap.                                                        *)
THEOREM SessionsStayEnded == Spec => []EndedStayEnded
  <1>1. IInv => EndedStayEnded
    BY DEF IInv, EndedInv, Revoking, EndedStayEnded
  <1> QED BY <1>1, Invariant, PTL

(* LocksOut: as many failures in a row as the threshold, each begun after   *)
(* the one before was recorded, leave the account locked (recordFailedLogin *)
(* counts from what the login read).                                        *)
THEOREM ThresholdLocks == Spec => []LocksOut
  <1>1. IInv => LocksOut
    BY SMT DEF IInv, Counting, TypeOK, LocksOut
  <1> QED BY <1>1, Invariant, PTL

(* SpentIsDead: an exchanged refresh token finds no session, and a link     *)
(* that set a password stays used.                                          *)
THEOREM SpentStaysDead == Spec => []SpentIsDead
  <1>1. IInv => SpentIsDead
    BY DEF IInv, TokenInv, TokensDead, LinksDead, SpentIsDead
  <1> QED BY <1>1, Invariant, PTL

-----------------------------------------------------------------------------
(* An invitation makes at most one account.                                 *)

USE InvitationsAssumption

(* What an acceptance looked up: a link of an invitation that exists, with  *)
(* the address it still has.                                                *)
Found ==
    \A p \in Accepts : accept[p] # NoAccept =>
        /\ accept[p].invite \in Invites /\ accept[p].link \in Links
        /\ accept[p].email \in Emails
        /\ invite[accept[p].invite].state # "none"
        /\ accept[p].email = invite[accept[p].invite].email

(* An account has the address of the invitation it was made from.           *)
Addressed ==
    \A u \in users : u.email = invite[u.by].email

(* An invitation that exists has an address.                                *)
Sent ==
    \A i \in Invites : invite[i].state # "none" => invite[i].email \in Emails

(* An account and the mark on its invitation come together, but for a       *)
(* cancellation.                                                            *)
Marked ==
    \A i \in Invites :
        /\ invite[i].state = "accepted" => \E u \in users : u.by = i
        /\ (\E u \in users : u.by = i) => invite[i].state \in {"accepted", "cancelled"}

InviteInv == InviteTypeOK /\ Sent /\ Found /\ Addressed /\ Marked

-----------------------------------------------------------------------------
(* The initial state.                                                       *)
LEMMA InitInvite == InviteInit => InviteInv
  <1> SUFFICES ASSUME InviteInit PROVE InviteInv
    OBVIOUS
  <1>1. InviteTypeOK
    <2>1. /\ NoInvite \in [state : {"none", "pending", "expired", "accepted", "cancelled"},
                           email : Emails \cup {None}, link : 0..MaxLinks]
          /\ NoAccept \in [invite : Invites \cup {None}, email : Emails \cup {None},
                       link : 0..MaxLinks]
      BY SMT DEF NoInvite, NoAccept
    <2> QED BY <2>1 DEF InviteInit, InviteTypeOK
  <1>2. Sent /\ Found /\ Addressed /\ Marked
    BY DEF InviteInit, Sent, Found, Addressed, Marked, NoInvite
  <1> QED BY <1>1, <1>2 DEF InviteInv

(* An admin's action or an expiry changes one invitation that made no       *)
(* account, and not its address once it has one.                            *)
LEMMA AdminStep ==
    ASSUME InviteInv, NEW i \in Invites,
           NEW r \in [state : {"pending", "expired", "cancelled"},
                      email : Emails, link : 0..MaxLinks],
           invite' = [invite EXCEPT ![i] = r],
           sent' \in SUBSET (Invites \X Links), UNCHANGED <<users, accept>>,
           invite[i].state \in {"none", "pending", "expired"},
           invite[i].state # "none" => r.email = invite[i].email
    PROVE  InviteInv'
  <1>1. InviteTypeOK'
    BY DEF InviteInv, InviteTypeOK
  <1>2. invite'[i] = r /\ \A j \in Invites : j # i => invite'[j] = invite[j]
    BY DEF InviteInv, InviteTypeOK
  <1>3. \A u \in users : u.by # i /\ u.by \in Invites
    BY DEF InviteInv, Marked, InviteTypeOK
  <1>4. Sent'
    BY <1>2 DEF InviteInv, Sent
  <1>5. Found'
    BY SMT, <1>2 DEF InviteInv, Found
  <1>6. Addressed'
    BY <1>2, <1>3 DEF InviteInv, Addressed
  <1>7. Marked'
    BY <1>2, <1>3 DEF InviteInv, Marked
  <1> QED BY <1>1, <1>4, <1>5, <1>6, <1>7 DEF InviteInv

(* Accepting makes the account and marks the invitation, or finds the       *)
(* address taken and does nothing.                                          *)
LEMMA AcceptStep ==
    ASSUME InviteInv, NEW p \in Accepts, AcceptInvitation(p)
    PROVE  InviteInv'
  <1> DEFINE a == accept[p]
             i == a.invite
             n == [email |-> a.email, by |-> a.invite, link |-> a.link]
  <1>1. /\ i \in Invites /\ a.link \in Links /\ a.email \in Emails
        /\ invite[i].state # "none" /\ a.email = invite[i].email
    BY DEF AcceptInvitation, InviteInv, Found
  <1>2. /\ accept' \in [Accepts -> [invite : Invites \cup {None}, email : Emails \cup {None},
                                    link : 0..MaxLinks]]
        /\ \A q \in Accepts : accept'[q] # NoAccept => accept'[q] = accept[q]
        /\ sent' = sent
    <2>1. accept' = [accept EXCEPT ![p] = NoAccept] /\ sent' = sent
      BY DEF AcceptInvitation
    <2>2. NoAccept \in [invite : Invites \cup {None}, email : Emails \cup {None},
                    link : 0..MaxLinks]
      BY SMT DEF NoAccept
    <2> QED BY <2>1, <2>2 DEF InviteInv, InviteTypeOK
  <1>3. CASE ~AddressFree(a.email)
    <2>1. UNCHANGED <<users, invite>>
      BY <1>3 DEF AcceptInvitation
    <2> QED BY SMT, <1>2, <2>1 DEF InviteInv, InviteTypeOK, Sent, Found, Addressed, Marked
  <1>4. CASE AddressFree(a.email)
    <2>1. /\ users' = users \cup {n}
          /\ invite' = [invite EXCEPT ![i].state = IF @ = "cancelled" THEN @ ELSE "accepted"]
      BY <1>4 DEF AcceptInvitation
    <2>2. /\ invite'[i].state = IF invite[i].state = "cancelled" THEN "cancelled" ELSE "accepted"
          /\ \A j \in Invites : j # i => invite'[j] = invite[j]
          /\ \A j \in Invites : invite'[j].email = invite[j].email
          /\ invite' \in [Invites -> [state : {"none", "pending", "expired", "accepted",
                                               "cancelled"},
                                      email : Emails \cup {None}, link : 0..MaxLinks]]
      BY SMT, <1>1, <2>1 DEF InviteInv, InviteTypeOK
    <2>3. n \in [email : Emails, by : Invites, link : Links] /\ n.by = i /\ n.email = a.email
      BY <1>1
    <2> HIDE DEF n, i, a
    <2>4. \A u, v \in users' : u.email = v.email => u = v
      BY <1>4, <2>1, <2>3 DEF AddressFree, InviteInv, InviteTypeOK
    <2>5. InviteTypeOK'
      BY <1>2, <2>1, <2>2, <2>3, <2>4 DEF InviteInv, InviteTypeOK
    <2>6. \A u \in users : u.by \in Invites
      BY DEF InviteInv, InviteTypeOK
    <2>7. Sent' /\ Found'
      BY SMT, <1>1, <1>2, <2>2 DEF InviteInv, Sent, Found
    <2>8. Addressed'
      BY SMT, <1>1, <2>1, <2>2, <2>3, <2>6 DEF InviteInv, Addressed
    <2>9. Marked'
      BY SMT, <1>1, <2>1, <2>2, <2>3 DEF InviteInv, Marked
    <2> QED BY <2>5, <2>7, <2>8, <2>9 DEF InviteInv
  <1> QED BY <1>3, <1>4

(* Every step.                                                              *)
LEMMA NextInvite == InviteInv /\ [InviteNext]_inviteVars => InviteInv'
  <1> SUFFICES ASSUME InviteInv, [InviteNext]_inviteVars PROVE InviteInv'
    OBVIOUS
  <1> DEFINE InviteRow == [state : {"pending", "expired", "cancelled"},
                     email : Emails, link : 0..MaxLinks]
  <1>1. ASSUME NEW i \in Invites, NEW e \in Emails, CreateInvitation(i, e)
        PROVE  InviteInv'
    <2> DEFINE r == [state |-> "pending", email |-> e, link |-> 1]
    <2>1. r \in InviteRow /\ 1 \in Links
      BY SMT DEF Links
    <2>2. /\ invite[i].state = "none" /\ invite' = [invite EXCEPT ![i] = r]
          /\ UNCHANGED <<users, accept>>
      BY SMT, <1>1 DEF CreateInvitation, NoInvite
    <2>3. sent' \in SUBSET (Invites \X Links)
      BY SMT, <1>1, <2>1 DEF CreateInvitation, SendInvite, InviteInv, InviteTypeOK
    <2> HIDE DEF r
    <2> QED BY <2>1, <2>2, <2>3, AdminStep
  <1>2. ASSUME NEW i \in Invites, ResendInvitation(i) PROVE InviteInv'
    <2> DEFINE r == [state |-> "pending", email |-> invite[i].email,
                     link |-> invite[i].link + 1]
    <2>1. invite[i].email \in Emails /\ invite[i].link + 1 \in Links
      BY SMT, <1>2 DEF ResendInvitation, InviteInv, Sent, InviteTypeOK, Links
    <2>2. r \in InviteRow /\ r.email = invite[i].email
      BY SMT, <2>1 DEF Links
    <2>3. sent' \in SUBSET (Invites \X Links)
      BY SMT, <1>2, <2>1 DEF ResendInvitation, SendInvite, InviteInv, InviteTypeOK
    <2> QED BY <1>2, <2>2, <2>3, AdminStep DEF ResendInvitation
  <1>3. ASSUME NEW i \in Invites, CancelInvitation(i) \/ Expire(i) PROVE InviteInv'
    <2> DEFINE r(x) == [invite[i] EXCEPT !.state = x]
    <2>1. invite[i].email \in Emails
      BY <1>3 DEF CancelInvitation, Expire, InviteInv, Sent
    <2>2. \A x \in {"expired", "cancelled"} : r(x) \in InviteRow /\ r(x).email = invite[i].email
      BY SMT, <2>1 DEF InviteInv, InviteTypeOK
    <2>3. sent' \in SUBSET (Invites \X Links)
      BY <1>3 DEF CancelInvitation, Expire, InviteInv, InviteTypeOK
    <2> QED BY <1>3, <2>2, <2>3, AdminStep DEF CancelInvitation, Expire
  <1>4. ASSUME NEW p \in Accepts, NEW i \in Invites, NEW n \in Links,
               GetInvitationByTokenHash(p, i, n)
        PROVE  InviteInv'
    <2> DEFINE a == [invite |-> i, email |-> invite[i].email, link |-> n]
    <2>1. invite[i].email \in Emails /\ invite[i].state # "none"
      BY <1>4 DEF GetInvitationByTokenHash, InviteInv, Sent
    <2>2. /\ accept' = [accept EXCEPT ![p] = a] /\ UNCHANGED <<invite, sent, users>>
          /\ a \in [invite : Invites \cup {None}, email : Emails \cup {None},
                    link : 0..MaxLinks]
      BY SMT, <1>4, <2>1 DEF GetInvitationByTokenHash, Links
    <2>3. InviteTypeOK'
      BY <2>2 DEF InviteInv, InviteTypeOK
    <2>4. Found'
      BY <2>1, <2>2 DEF InviteInv, Found, InviteTypeOK
    <2> QED BY <2>2, <2>3, <2>4 DEF InviteInv, Sent, Addressed, Marked
  <1>5. ASSUME NEW p \in Accepts, GiveUp(p) PROVE InviteInv'
    <2>1. NoAccept \in [invite : Invites \cup {None}, email : Emails \cup {None},
                    link : 0..MaxLinks]
      BY SMT DEF NoAccept
    <2>2. accept' = [accept EXCEPT ![p] = NoAccept] /\ UNCHANGED <<invite, sent, users>>
      BY <1>5 DEF GiveUp
    <2>3. InviteTypeOK'
      BY <2>1, <2>2 DEF InviteInv, InviteTypeOK
    <2>4. Found'
      BY <2>2 DEF InviteInv, Found, InviteTypeOK
    <2> QED BY <2>2, <2>3, <2>4 DEF InviteInv, Sent, Addressed, Marked
  <1>6. CASE UNCHANGED inviteVars
    BY <1>6 DEF inviteVars, InviteInv, InviteTypeOK, Sent, Found, Addressed, Marked
  <1>7. ASSUME NEW p \in Accepts, AcceptInvitation(p) PROVE InviteInv'
    BY <1>7, AcceptStep
  <1> QED BY <1>1, <1>2, <1>3, <1>4, <1>5, <1>6, <1>7 DEF InviteNext

-----------------------------------------------------------------------------
(* The inductive invariant holds in every state.                            *)
THEOREM InviteInvariant == InviteSpec => []InviteInv
  BY InitInvite, NextInvite, PTL DEF InviteSpec

(* AcceptedMadeOne: an invitation makes at most one account, and is marked  *)
(* accepted with it or was cancelled while it was made: two accounts of one *)
(* invitation would share an address.                                       *)
THEOREM OneAccountEach == InviteSpec => []AcceptedMadeOne
  <1>1. ASSUME InviteInv PROVE AcceptedMadeOne
    <2>1. ASSUME NEW i \in Invites, NEW u \in users, NEW v \in users, u.by = i, v.by = i
          PROVE  u = v
      BY SMT, <1>1, <2>1 DEF InviteInv, Addressed, InviteTypeOK
    <2> QED BY <1>1, <2>1 DEF InviteInv, Marked, AcceptedMadeOne
  <1> QED BY <1>1, InviteInvariant, PTL
=============================================================================
