------------------------------ MODULE Sessions ------------------------------
(***************************************************************************)
(* One account's logins and sessions: the password identity with its       *)
(* failure counter and lock, sessions with their rotating refresh tokens,  *)
(* password resets, and what suspending, activating and removing the user  *)
(* do to them.                                                             *)
(*                                                                         *)
(* Every handler reads outside the transaction that writes, so a step of   *)
(* another request may come between; each step here is one statement or    *)
(* one transaction.  Time is a set of events: a lock, a window, a token or *)
(* a session runs out.                                                     *)
(***************************************************************************)
EXTENDS Naturals, FiniteSets

CONSTANTS
    Requests,      \* requests served at the same time
    Resets,        \* password reset links
    MaxFailures,   \* maxLoginFailures
    MaxSessions,   \* bound: logins that succeed
    MaxTokens,     \* bound: refresh tokens minted
    MaxWrites,     \* bound: passwords set by resets
    MaxErrors      \* bound: statements that fail

ASSUME SessionsAssumption ==
    /\ MaxFailures \in Nat \ {0}
    /\ MaxSessions \in Nat /\ MaxTokens \in Nat
    /\ MaxWrites \in Nat /\ MaxErrors \in Nat

Sess == 1..MaxSessions
Tokens == 1..MaxTokens
Wrong == MaxWrites + 1      \* a password that is never set
Passwords == 0..Wrong

VARIABLES
    status,        \* users.status
    exists,        \* the password identity is there
    hash,          \* its password_hash
    failed,        \* failed_logins
    recent,        \* last_failed_at is within the window
    locked,        \* locked_until is in the future
    session,       \* the sessions, by id
    made, minted,  \* sessions and refresh tokens created so far
    writes,        \* passwords set so far
    link,          \* password_resets: none, open, used or expired
    req,           \* what each request has read and does next
    uses,          \* how often each refresh token has been exchanged
    sets,          \* how often each reset link has set a password
    streak,        \* failures in a row, each login begun after the one before
    ended,         \* sessions that a logout, reset, suspension or removal ended
    errors

identity == <<exists, hash, failed, recent, locked>>
ghosts == <<uses, sets, streak, ended>>
vars == <<status, identity, session, made, minted, writes, link, req, ghosts, errors>>

(* A session row: the refresh token it accepts and whether it has an access *)
(* token that has not run out.                                              *)
NoSession == [state |-> "none", token |-> 0, access |-> FALSE]
Live(s) == session[s].state = "live"

(* fresh: no failure has been recorded since this login began.              *)
Idle == [step |-> "idle", failed |-> 0, recent |-> FALSE, fresh |-> FALSE,
         session |-> 0, token |-> 0, link |-> 0]

TypeOK ==
    /\ status \in {"active", "suspended", "removed"}
    /\ exists \in BOOLEAN /\ hash \in Passwords
    /\ failed \in 0..(MaxFailures - 1)
    /\ recent \in BOOLEAN /\ locked \in BOOLEAN
    /\ session \in [Sess -> [state : {"none", "live", "revoked", "expired"},
                             token : Tokens \cup {0}, access : BOOLEAN]]
    /\ made \in 0..MaxSessions /\ minted \in 0..MaxTokens /\ writes \in 0..MaxWrites
    /\ link \in [Resets -> {"none", "open", "used", "expired"}]
    /\ req \in [Requests -> [step : {"idle", "fail", "pass", "session", "rotate",
                                     "reset", "revoke"},
                             failed : 0..(MaxFailures - 1), recent : BOOLEAN,
                             fresh : BOOLEAN, session : Sess \cup {0},
                             token : Tokens \cup {0}, link : Resets \cup {0}]]
    /\ uses \in [Tokens -> Nat] /\ sets \in [Resets -> Nat]
    /\ streak \in 0..MaxFailures /\ ended \in SUBSET Sess /\ errors \in 0..MaxErrors

Init ==
    /\ status = "active" /\ exists = TRUE /\ hash = 0 /\ failed = 0
    /\ recent = FALSE /\ locked = FALSE
    /\ session = [s \in Sess |-> NoSession] /\ made = 0 /\ minted = 0 /\ writes = 0
    /\ link = [r \in Resets |-> "none"]
    /\ req = [p \in Requests |-> Idle]
    /\ uses = [t \in Tokens |-> 0] /\ sets = [r \in Resets |-> 0]
    /\ streak = 0 /\ ended = {} /\ errors = 0

Return(p) == req' = [req EXCEPT ![p] = Idle]

-----------------------------------------------------------------------------
(* login: the identity is read once.                                        *)
Login(p, w) ==
    /\ req[p] = Idle /\ exists /\ ~locked
    /\ req' = [req EXCEPT ![p] =
                 [Idle EXCEPT !.step = IF w = hash THEN "pass" ELSE "fail",
                              !.failed = failed, !.recent = recent, !.fresh = TRUE]]
    /\ UNCHANGED <<status, identity, session, made, minted, writes, link, ghosts, errors>>

(* recordFailedLogin counts from what the login read, and the update writes *)
(* the counter and the lock together.                                       *)
NoThreshold(p) ==
    [failed |-> IF req[p].recent THEN req[p].failed + 1 ELSE 1, locked |-> FALSE]

Counted(p) ==
    LET count == IF req[p].recent THEN req[p].failed + 1 ELSE 1 IN
    [failed |-> IF count >= MaxFailures THEN 0 ELSE count,
     locked |-> count >= MaxFailures]

RecordFailedLogin(p) ==
    /\ req[p].step = "fail"
    /\ IF exists
       THEN /\ failed' = Counted(p).failed /\ locked' = Counted(p).locked
            /\ recent' = TRUE
            /\ streak' = IF ~req[p].fresh THEN 1
                         ELSE IF streak < MaxFailures THEN streak + 1 ELSE streak
            /\ req' = [q \in Requests |-> IF q = p THEN Idle
                                          ELSE [req[q] EXCEPT !.fresh = FALSE]]
       ELSE Return(p) /\ UNCHANGED <<failed, locked, recent, streak>>
    /\ UNCHANGED <<status, exists, hash, session, made, minted, writes, link, uses, sets,
                   ended, errors>>

ResetLoginFailures(p) ==
    /\ req[p].step = "pass"
    /\ failed' = 0 /\ locked' = FALSE /\ streak' = 0
    /\ req' = [req EXCEPT ![p].step = "session"]
    /\ UNCHANGED <<status, exists, hash, recent, session, made, minted, writes, link, uses,
                   sets, ended, errors>>

(* CreateSession and mintAccessToken, committed together.                   *)
CreateSession(p) ==
    /\ req[p].step = "session" /\ made < MaxSessions /\ minted < MaxTokens
    /\ made' = made + 1 /\ minted' = minted + 1
    /\ session' = [session EXCEPT ![made + 1] =
                     [state |-> "live", token |-> minted + 1, access |-> TRUE]]
    /\ Return(p)
    /\ UNCHANGED <<status, identity, writes, link, ghosts, errors>>

-----------------------------------------------------------------------------
(* refresh: the session is found by its token, then rotated by its id.      *)
GetSessionByTokenHash(t) == {s \in Sess : Live(s) /\ session[s].token = t}

Refresh(p, t) ==
    /\ req[p] = Idle
    /\ \E s \in GetSessionByTokenHash(t) :
        req' = [req EXCEPT ![p] = [Idle EXCEPT !.step = "rotate", !.session = s,
                                               !.token = t]]
    /\ UNCHANGED <<status, identity, session, made, minted, writes, link, ghosts, errors>>

Revive(s, t) ==
    [session EXCEPT ![s] = [@ EXCEPT !.state = "live", !.token = t, !.access = TRUE]]

KeepToken(s, t) == [session EXCEPT ![s] = [@ EXCEPT !.access = TRUE]]

Rotated(s, t) ==
    [session EXCEPT ![s] = [@ EXCEPT !.token = t, !.access = TRUE]]

RotateSessionToken(p) ==
    /\ req[p].step = "rotate" /\ minted < MaxTokens
    /\ minted' = minted + 1
    /\ session' = Rotated(req[p].session, minted + 1)
    /\ uses' = [uses EXCEPT ![req[p].token] = @ + 1]
    /\ Return(p)
    /\ UNCHANGED <<status, identity, made, writes, link, sets, streak, ended, errors>>

-----------------------------------------------------------------------------
(* requireAuth (GetAccessContext and the user's status), then the handler.  *)
Authorized(s) == Live(s) /\ session[s].access /\ status = "active"

Revoked(S) ==
    [s \in Sess |-> IF s \in S /\ session[s].state # "none"
                    THEN [session[s] EXCEPT !.state = "revoked"] ELSE session[s]]

HandleLogout(s) ==
    /\ Authorized(s)
    /\ session' = Revoked({s}) /\ ended' = ended \cup {s}
    /\ UNCHANGED <<status, identity, made, minted, writes, link, req, uses, sets, streak,
                   errors>>

RevokeAllUserSessions == Revoked({s \in Sess : Live(s)})

AllEnd == ended' = ended \cup {s \in Sess : Live(s)}

-----------------------------------------------------------------------------
(* Password resets.                                                         *)
StartPasswordReset(r) ==
    /\ link[r] = "none" /\ link' = [link EXCEPT ![r] = "open"]
    /\ UNCHANGED <<status, identity, session, made, minted, writes, req, ghosts, errors>>

GetPasswordReset(p, r) ==
    /\ req[p] = Idle /\ link[r] = "open"
    /\ req' = [req EXCEPT ![p] = [Idle EXCEPT !.step = "reset", !.link = r]]
    /\ UNCHANGED <<status, identity, session, made, minted, writes, link, ghosts, errors>>

MarkPasswordResetUsed(r) == [link EXCEPT ![r] = "used"]

(* The transaction: a new password, the link used, every session revoked.   *)
ConfirmPasswordReset(p) ==
    LET r == req[p].link IN
    /\ req[p].step = "reset" /\ writes < MaxWrites
    /\ writes' = writes + 1 /\ hash' = IF exists THEN writes + 1 ELSE hash
    /\ link' = MarkPasswordResetUsed(r) /\ sets' = [sets EXCEPT ![r] = @ + 1]
    /\ session' = RevokeAllUserSessions /\ AllEnd
    /\ Return(p)
    /\ UNCHANGED <<status, exists, failed, recent, locked, made, minted, uses, streak,
                   errors>>

-----------------------------------------------------------------------------
(* The admin's actions on the user.  Suspending is two statements, and the  *)
(* error of the second is ignored.                                          *)
HandleSuspendUser(p) ==
    /\ req[p] = Idle
    /\ status' = "suspended" /\ AllEnd
    /\ req' = [req EXCEPT ![p] = [Idle EXCEPT !.step = "revoke"]]
    /\ UNCHANGED <<identity, session, made, minted, writes, link, uses, sets, streak,
                   errors>>

SuspendRevokes(p) ==
    /\ req[p].step = "revoke"
    /\ session' = RevokeAllUserSessions
    /\ Return(p)
    /\ UNCHANGED <<status, identity, made, minted, writes, link, ghosts, errors>>

HandleActivateUser ==
    /\ status' = "active"
    /\ UNCHANGED <<identity, session, made, minted, writes, link, req, ghosts, errors>>

HandleRemoveUser ==
    /\ status' = "removed" /\ exists' = FALSE
    /\ session' = RevokeAllUserSessions /\ AllEnd
    /\ UNCHANGED <<hash, failed, recent, locked, made, minted, writes, link, req, uses,
                   sets, streak, errors>>

(* A statement or a transaction fails and the handler returns; clearing the *)
(* failure counter is the one step whose error is passed over.  A           *)
(* suspension whose second statement failed has ended no session.           *)
Error(p) ==
    /\ req[p] # Idle /\ errors < MaxErrors /\ errors' = errors + 1
    /\ IF req[p].step = "pass" THEN req' = [req EXCEPT ![p].step = "session"]
                               ELSE Return(p)
    /\ ended' = IF req[p].step = "revoke" THEN {s \in ended : ~Live(s)} ELSE ended
    /\ UNCHANGED <<status, identity, session, made, minted, writes, link, uses, sets,
                   streak>>

-----------------------------------------------------------------------------
(* Time.                                                                    *)
LockExpires ==
    /\ locked /\ locked' = FALSE /\ streak' = 0
    /\ UNCHANGED <<status, exists, hash, failed, recent, session, made, minted, writes,
                   link, req, uses, sets, ended, errors>>

WindowPasses ==
    /\ recent /\ recent' = FALSE /\ streak' = IF locked THEN streak ELSE 0
    /\ req' = [p \in Requests |-> [req[p] EXCEPT !.recent = FALSE]]
    /\ UNCHANGED <<status, exists, hash, failed, locked, session, made, minted, writes,
                   link, uses, sets, ended, errors>>

SessionExpires(s) ==
    /\ Live(s)
    /\ \/ session' = [session EXCEPT ![s].state = "expired"]
       \/ session[s].access /\ session' = [session EXCEPT ![s].access = FALSE]
    /\ UNCHANGED <<status, identity, made, minted, writes, link, req, ghosts, errors>>

LinkExpires(r) ==
    /\ link[r] = "open" /\ link' = [link EXCEPT ![r] = "expired"]
    /\ UNCHANGED <<status, identity, session, made, minted, writes, req, ghosts, errors>>

Next ==
    \/ \E p \in Requests :
        \/ \E w \in 0..writes \cup {Wrong} : Login(p, w)
        \/ RecordFailedLogin(p) \/ ResetLoginFailures(p) \/ CreateSession(p)
        \/ \E t \in 1..minted : Refresh(p, t)
        \/ RotateSessionToken(p)
        \/ \E r \in Resets : GetPasswordReset(p, r)
        \/ ConfirmPasswordReset(p)
        \/ HandleSuspendUser(p) \/ SuspendRevokes(p) \/ Error(p)
    \/ \E s \in Sess : HandleLogout(s) \/ SessionExpires(s)
    \/ \E r \in Resets : StartPasswordReset(r) \/ LinkExpires(r)
    \/ HandleActivateUser \/ HandleRemoveUser \/ LockExpires \/ WindowPasses

Spec == Init /\ [][Next]_vars

-----------------------------------------------------------------------------
(* "a revoked session is rejected immediately", and for good: a session     *)
(* that a logout, a reset ("any stolen session dies with the reset"), a     *)
(* removal or a suspension ended is not live again, whatever refreshes were *)
(* under way, except that a suspension has its second statement still to    *)
(* run.                                                                     *)
(* The variables keep their types.                                          *)
EndedStayEnded ==
    /\ TypeOK
    /\ \A s \in ended : Live(s) => \E p \in Requests : req[p].step = "revoke"

(* "locks the account once it crosses the threshold" (recordFailedLogin):   *)
(* as many failures as maxLoginFailures, with no success and no pause       *)
(* between them, leave the account locked, if each login began when the     *)
(* failure before it had been recorded.  Logins that overlap count from the *)
(* same value, so a late one takes failures, or the lock, back.             *)
LocksOut == streak >= MaxFailures => locked

(* "one-time use - the old token stops working" (refresh) and "consumes the *)
(* token" (confirmPasswordReset): a refresh token that was exchanged finds  *)
(* no session any more and a link that set a password opens no other reset. *)
(* A second use can only come from a request that had found the row before. *)
SpentIsDead ==
    /\ \A t \in Tokens : uses[t] > 0 => GetSessionByTokenHash(t) = {}
    /\ \A r \in Resets : sets[r] > 0 => link[r] = "used"
=============================================================================
