# Custos: TLA+ models, checks and proofs

Custos is a control plane (Go over Postgres) that decides which SSH keys may log in on which hosts and
which secrets they are given, and a daemon on every host that enforces it. This directory models how a
decision is made and changed, which hosts are told, how the new list or bundle reaches the daemon, how
hosts enroll and are upgraded, what comes back as logs, and how people log in to the control plane.

## The system and its parts

| Part | Code | Here |
|---|---|---|
| Daemon websocket endpoint and hub | `internal/controlplane/daemon_ws.go`, `hub.go` | `AccessSync`, `SecretSets`, `DaemonLink`, `Upgrade` |
| Building, numbering and pushing snapshots | `daemon_ws.go`, `grants.go` | `AccessSync` |
| Refresh, revoke and decommission a host | `hosts.go` | `AccessSync`, `Enrollment` |
| Daemon link, cache, last-known-good file | `internal/daemon/client.go`, `cache.go`, `store.go` | `AccessSync`, `DaemonLink`, abstractly `AccessRegister` |
| Which copy answers sshd | `internal/daemon/authkeys.go` | `AccessSync`, `DaemonLink` |
| Grants, groups, users' status, keys | `grants.go`, `groups.go`, `users.go`, `keys.go` | `HostGrants`, `Vault`, `AccessAudit`, `Sessions` |
| Permission checks, lists, audits | `perms.go`, `access_audit.go`, `db/*.sql.go` | `Permissions`, `Vault`, `AccessAudit` |
| Secrets and secret sets | `secrets.go`, `secret_sets.go` | `Vault`, `SecretSets` |
| Daemon secret store, secret socket, exec | `internal/daemon/secret*.go`, `cmd/daemon/exec.go` | `SecretSets` |
| Access logs, secret reads | `client.go`, `daemon_ws.go`, `hosts.go` | `DaemonLink`, `AccessAudit` |
| Enrollment, decommissioning on the host | `enroll.go`, `enroll_tokens.go`, `internal/daemon/enroll.go`, `cmd/daemon/uninstall.go` | `Enrollment` |
| Staged upgrades | `upgrades.go`, `internal/daemon/update.go`, `cmd/daemon/applyupdate.go` | `Upgrade` |
| Login, sessions, lockout, resets | `auth.go`, `middleware.go`, `password_reset.go` | `Sessions` |
| Invitations | `invitations.go` | `Invitations` |
| Rate limiter, HTTP plumbing, cryptography, mail, command-line tools | | not modelled: no state of their own to interleave, or time only |

An admin request changes the tables and then pushes: it works out the affected hosts (`HostGrants`),
and for each one reads the list, takes the host's next number, signs, and hands the envelope to the
hub, which puts it on the connection's channel (`AccessSync`). Secret sets take the same way with a
number of their own (`SecretSets`), and so does an upgrade, without a number (`Upgrade`). The daemon
applies a list or a bundle only when its number is higher than the one it has. On the same connection
logins and secret reads travel back (`DaemonLink`) into the tables the audits page through
(`AccessAudit`).

## Modules

Two conventions hold throughout: a transaction is one step, and so is a statement outside one, at
READ COMMITTED; a definition ending in a form like `...Any`, `No...` or `...Early` just before
another is a broken variant of it, which the specification does not use.

### AccessSync
One host. `access` is what the query `HostAccessKeys` returns and `signed` is every list signed so
far, so `hosts.last_seq` is `Len(signed)`.

* Requests: `Commit` (any handler that changes access), `Refresh` and `Revoke` start a handler; then
  `Build` (read the list), `Stamp` (number and sign it), `Fetch` (look the connection up under the
  hub's lock) and `Send` (without blocking, after releasing the lock) are steps of their own.
  `Abandon` is a failed query or an ended request. `Send` puts `disconnect`'s last envelope and its
  cancel in one step: a write between the two shows as one more flushed envelope.
* Connections: `Authenticate`, `Register`, `BuildFirst`, `StampFirst`, `QueueFirst` (blocks on a full
  channel), `WriteDaemon`, `Leave`, `FlushAndClose`, with `AuthError`, `SkipFirst`, `SkipCancelled` and
  `ServerDrop` for the error exits. `ServerCrash` loses all memory and keeps the database.
* Daemon: `Dial`, `Receive`, `SeeRejected` (purge), `SeeClosed`, `ReadTimeout`, `LinkDrop`,
  `DaemonCrash`, `DaemonStart`, and the `Unsaved` forms in which the disk write fails.
* `dropped`, `greeted`, `quiet` and `latest` are history variables that only properties read.

### AccessRegister
What all that machinery promises a host: numbered lists are issued, the memory copy adopts them whole
and in increasing order, may be cleared, and is set back to the file by a restart.
`AccessSync!ImplementsRegister` is the refinement, with `signed`, `mem` and `disk` for the three
variables.

### HostGrants
Users, hosts, groups, keys and the rows of the grants table. A push is three steps, between which
other requests run: `BuildSnapshot` reads the list, `SnapshotEnvelope` takes the host's next number,
`HubPush` hands it over, and the host keeps it if the number is above the one it has. The way from there
to the daemon is `AccessSync`'s subject. Handlers differ in when they look up the hosts to push to:

* after the commit: `CreateGrant`, `RevokeGrant`, `ActivateUser`, `AddKey`, `DeleteKey` (then `ReadHosts`);
* not at all, the request names the host: `AddGroupResource`, `RemoveGroupResource`;
* before the commit: `SuspendUser`, `RemoveUser`, `DeleteGroup` (then `CommitSuspend`, `CommitRemove`,
  `CommitDelete`).

`missed` records the hosts a commit concerned but its handler had not looked up, those whose push
failed, and those whose newest number went to a list that was out of date by then, until a current list
is numbered. Only `host.access` grants are modelled; no other permission changes the list. Each transaction
is one step: the statements inside one can be interleaved with another request only in ways that equal
running that request before or after. Two live rows may say the same (the table has no uniqueness
constraint), so rows are a function from row ids and revoking one may change nothing. A group's id is
unknown before the group is created.

### SecretSets
The handlers of `secret_sets.go` on sets, entries and bindings (`CreateSet`, `UpdateSet`, `DeleteSet`,
`BindSet`, `UnbindSet`, `UpsertEntry`, `DeleteEntry` and their `Commit...`), the bundle that each change
and each connection builds (`StartBuild` runs SetsForHost, `ReadEntries` one GetSetEntries per set,
`SecretSetsEnvelope` seals and numbers, `Send`), the daemon's store, which a restart forgets, and
`custosd exec` (`HandleSecret` looks the set up, `ReadyReply` asks whether the store is ready).
`past` is every state a transaction left a set in; `calm` says that since the daemon connected no two
handlers overlapped, nothing failed and nothing was dropped. A caller's permission and a peer's user
are given; rows of `set_audit_logs` are left out. A host has one connection at a time.

### DaemonLink
The goroutines of `client.go`: per connection a reader, a writer and a forwarder, which end at different
times, so those of an old connection may run beside those of the next. A report goes from the
buffers (`RecordAccess`, `RecordSecretRead`) to a forwarder, the send channel, the wire and the tables
(`ReadDaemon`); `lost` collects it wherever the code gives it up.

### Enrollment
Tokens, the enroll command with its request, the statements of the control plane's transaction, the
three files the box writes one by one (`Save`), the daemon that loads two of them and its cache
(`LoadConfig`, `LoadIdentity`), connections that bring numbered lists, revocation, decommissioning and
`uninstall --purge`, which removes one file at a time and may stop midway (`Purge`, `RemoveFile`,
`PurgeEnds`). Nothing keeps commands of one box apart: any number of enroll commands and a purge run
beside each other. One run of the command generates one pair of keys and at most one host row, so the
attempt stands for all three. `stragglers` (the commands that had been accepted before a host and were
still at work when its row was created), `swept` (the commands a purge ran beside or after) and `found`
(the number a daemon connected with) are history variables.

### Upgrade
One host. `HandleUpgradeHost`, `SetHostDesiredVersion` and `PushUpgrade` are the request;
`AuthenticateDaemon`, `Register` and `Repush` the connection; `HandleUpgrade`, `StageUpgrade` and
`ErrRestart` the daemon; `Start` to `RemoveMeta` are the single file operations of apply-update, with
`Crash`, `StageFails`, `CheckFails`, `CopyFails` and `SwapFails` between them. `RegisterFails` is the
dropped error of `SetHostVersion`: the connection goes on and the version column lags behind. A file holds the version it was built
from, nothing, or `Torn`. A fleet upgrade is the same push to each host in turn.

### Sessions
One account: login with its failure counter and lock, sessions with rotating refresh tokens, access
tokens (whose session is looked up on each use), resets, and the revocations of suspend and remove.
Time is a set of events: a lock, a window, a link or a session runs out. `uses`, `sets`, `streak` and
`ended` are history variables.

### Invitations
Create, send (which may fail), resend, cancel, expire and accept. Accepting reads the invitation outside
the transaction that creates the account.

### Permissions, Vault and AccessAudit
`Permissions` holds the tables (`grants` as a bag of rows, group members, rows of resources) and every
query over them as an operator: the checks, the lists, the audits. `Vault` extends it with the handlers
that create, reveal, update and delete secrets and change groups and grants, in which the check, the
work and the log entry are separate steps. `AccessAudit` extends it with the reports that take several
queries or pages while the tables change: a host's users and their paths (`ListUsers`, `ListPaths`), a
secret's audit (`ReadAccess`, three times), a host's log (`ListHostAccessLogs`). In `Vault` everybody
is active and the contents of secrets are left out; in `AccessAudit` a request is one step, pages have
no filters, and a run reads one of the three reports, since they share no state. Of `ChangeUser` the
caller may be any admin but the target: `requireAuth` read their status before, and it may have changed.

The `MC...` modules add symmetry sets and the grants the instances ask for.

## Runs

| Run | Shows | Distinct states |
|---|---|---|
| `access_sync` | `ConvergesToNewest`, `ReconnectHeals`, `AppliedAsSigned`, `DiskBehindMemory`, `ImplementsRegister`, `TypeOK` | 1,307,847 |
| `access_purge` | `RevokedHostPurged` (liveness) | 88,369 |
| `access_revoke_race` | ends in a counterexample to `RevokedStaysOut` | |
| `grants_overlap` | `StaleIsAwaited`, `PushedEverywhere`, `TypeOK` | 3.01 million |
| `secret_sets` | `SetsAreWhole`, `Reconciled`, `NamesApart` | 2.8 million |
| `daemon_link` | `Accounted`, `Reported`, `Reconnects` (the last two liveness) | 33,500 |
| `enroll_box` | `OneActivePerMachine`, `ActiveConfigWorks`, `Recovers`, `IdentityKept`, `TypeOK` | 653,000 |
| `upgrade` | `InstalledWorks`, `StagedIsDescribed`, `ReconnectDelivers`, `PrevKept`, `Converges` (liveness), `UpgradeTypeOK` | 761,000 |
| `sessions` | `EndedStayEnded`, `LocksOut`, `SpentIsDead` | 1.65 million |
| `invitations` | `AcceptedMadeOne` | 7,700 |
| `vault` | `ListsAgree`, `AuditSeesAll`, `CreatorOwns`, `ReadsLogged` | 605,000 |
| `audits` | `WalkedOnce`, `PathsTogether`, `KeptPathListed`, `ScrolledOnce` | 1.17 million |

Where no type invariant is listed it is a conjunct of the first property.

`access_revoke_race` refutes `hosts.go:192`, "status is set first so the daemon can't reconnect": a
connection that authenticated before the status changed registers after `hub.disconnect` has looked.

### What the properties leave open
Several comments promise more than the code does. The properties state what does hold, and each
exception below is written into a property, except where the last column says otherwise.

| Comment | What happens | Where |
|---|---|---|
| `grants.go:153` "takes effect immediately" | of two overlapping pushes the older list may get the higher number | `ConvergesToNewest` speaks of the newest number, `ReconnectHeals` of a quiet reconnect; `missed` in `StaleIsAwaited` |
| `groups.go:294` "grabbed before deletion" | a host becomes reachable between lookup and commit | `missed` in `StaleIsAwaited`; `PushedEverywhere` for requests alone |
| `secret_sets.go:301` "re-pushes a changed set to every host" | bundles overtake each other like lists | `calm` in `Reconciled` |
| `exec.go:18` "a missing set can never launch the app with half its environment" | a set deleted between its row and its entries is sent with no values | `Vanished` in `SetsAreWhole` |
| `machine-secrets.md:84` "detect a changed set" | new values may come under the version before | `AsCommitted`: values at least as new as the version |
| `client.go:100` "reconnecting ... whenever the link drops" | the reader blocks on a pong once the writer is gone and the channel full | `Stuck` in `Reconnects` and `Reported` |
| `protocol.go:181` "nothing is lost while the connection is down" | a full buffer drops the report | `lost` in `Accounted` |
| `daemon/enroll.go:57` "this is how a revoked host recovers" | the old file's number hides the new row's lists until they have passed it | `found` in `Recovers` |
| `daemon/enroll.go:91` "Save the keys first" | a command accepted earlier writes its files over those of the host enrolled since | `stragglers` in `ActiveConfigWorks` and `IdentityKept` |
| `uninstall.go:16` "Best-effort and idempotent" | a purge beside or after an enroll command leaves some of its files | `swept` in `ActiveConfigWorks` and `IdentityKept` |
| `upgrades.go:159` "offline hosts pick it up on reconnect" | a version written between authentication and registration waits for the connection after | `conn.desired = desired` in `ReconnectDelivers` |
| `applyupdate.go:51` "Keep the outgoing binary" | a crash after the swap makes the next start keep the new one twice | `crashes > 0` in `PrevKept` |
| `auth.go:129` "locks the account" | overlapping failures are counted once | `streak` in `LocksOut` |
| `auth.go:177` "one-time use" | two overlapping refreshes, or confirmations of a reset, both found the row | `SpentIsDead` speaks of later requests |
| `secrets.go:193` "logs the read" | the error of the insert is dropped | `faults` in `ReadsLogged` |
| `invitations.go:195` "The previous link stops working." | an acceptance under way completes | `AcceptedMadeOne` speaks of accounts, not links |
| `client.go:124` "rejected us (revoked/unknown)" | any failed query during authentication closes with the same code | in the model (`AuthError`), no property |
| `hub.go:17` "tracks live daemon connections" | a dead connection's handler may register last | in the model (`Register`), no property |
| `protocol.go:17` "single-use" token | two overlapping enrollments of different machines both succeed | in the model (`CreateHost`), no property |
| `password_reset.go:112` "any stolen session dies with the reset" | a login that compared the old password opens its session afterwards | in the model (`CreateSession`), no property |
| `applyupdate.go:134` "isn't retried every restart" | the refused version stays desired and is staged again | in the model (`Repush`), no property |
| `upgrades.go:158` "records the desired version" | not when the host already reports it | in the model (`SetHostDesiredVersion`), no property |
| `users.go:78` "permanently blocks a user" | activating does not look at the old status | in the model (`ActivateUser`), no property |
| `users.go:125` "refuses self-targeting" | two admins whose requests overlap suspend each other, and no active one is left | in the model (`ChangeUser`), no property |
| `secretsocket.go:90` "retrying transient failures" | a first bundle between the two looks turns "still syncing" into a refusal | in the model (`ReadyReply`), no property |
| `access_audit.go:35` "one path by which a user reaches a secret" | a grant of another kind on the group is listed too | `AuditSeesAll` is an inclusion |

### Bounds
* `Keys = {k1}` in `AccessSync`: the properties compare whole lists; granted and not tell them apart.
* Two connections: the one in use and the one it replaced; identifiers are reused once dead.
* Channels and buffers of one slot (two in `Upgrade`, so that one upgrade can queue behind another), so
  a second message already finds them full. The code's sizes only need longer traces for the same cases.
* Two handlers and two requests overlap in every order in `access_sync`, with one fault; the properties
  of it that speak of faults are proved for any number.
* `HostGrants`, `SecretSets` and `Vault` start from every quiet content of their tables, so the requests
  before it need not be counted. In `HostGrants` three requests, two of them at a time, set up and run each race, and
  `PushedEverywhere` needs one: it ends in a quiet state again. In `SecretSets` one request
  runs at a time beside the handler of a connection, twice; in `Vault` two requests overlap.
* `Enrollment` has one box, two attempts, two tokens, one stop of the daemon and three numbers per host:
  enough to overlap two commands and to enroll again with a number left in the cache; purges and
  revocations are not bounded, and any number of attempts and boxes is what the proofs cover.
* `Upgrade` has three versions, of which one does not run, three requests, and one each of lost
  connections, crashes and failures; `Sessions` the threshold 3, two requests, and one session that is
  refreshed twice; `AccessAudit` three users, pages of one, and up to four log rows with equal times.
* `Max...` constants bound requests, connections, failures and counters.

Deadlock is not checked: a connected system with no request pending, or one whose bounds are used up,
may rest.

### Fairness
* `access_purge`: weak fairness of each request's and each connection's own steps (runnable goroutines
  run) and of the daemon's (its loop reconnects with a capped delay, and systemd restarts it).
* `daemon_link`: weak fairness of each goroutine of a connection, of the control plane's read loop and of
  `Run`, which dials until it succeeds. A step that waits on a channel is only enabled when it can go on.
* `upgrade`: weak fairness of the start-up steps (`Restart=always` in the unit `cmd/daemon/install.go`
  writes), of the connection (Run dials again, a read times out), of staging, and of a request that
  has begun.

No request, login, ping or fault is assumed to happen.

## Proofs

Checked by TLAPS for all values of the constants, from the named assumptions of the modules: the
absent connection is no connection, capacities are positive and bounds are naturals; users, hosts and
nobody are not groups or users; the absent row is not a grant; `None` and `Torn` are no versions and the
first version runs; no address or invitation is `None`, an invitation can have a link, and the login
threshold is positive; a set that is not there has no name of its own and no request is a host; the kinds
of targets of a grant are apart; users are finitely many with distinct positive emails (the order of the
pages), and a page holds at least one row; log-ins and reads are different reports, a pong is neither, and none of them is
the name of a state of a goroutine.

Leaves are proved by Zenon unless they cite SMT, which is named where a step needs arithmetic, sequences
or record updates.

* `AccessSync_proofs`: `TypeCorrect`, for which `TypeOK` is inductive as it stands, with one lemma per
  action; `InFlightAsSigned`, `CopiesAsSigned`, `FileBehind`, `NumberForward`,
  `EntryKept`, and `Refinement` (every step of `AccessSync` is a step of the register or a stutter). The
  inductive invariant `DeliveryInv` joins what each copy holds to what is in flight: a copy can only be
  right because everything a handler holds, a channel queues or a socket carries was signed under its
  number. `EntryKept` needs besides that the registered connection is in a phase its handler can be in.
  `InFlightSigned`, `SeqForward` and `EntryOutlivesOthers` are proved only, with no run of their own.
  `Convergence` (`ConvergesToNewest`) rests on `NewestAt`: from its initial snapshot on, the newest list of
  a connection is in the daemon's memory, or still passing on the connection, or held by a handler that
  will look the connection up or send to it, unless a full channel dropped a list. `ReconnectionHeals`
  (`ReconnectHeals`) rests on `HealAt`: a connection during which nothing was requested carries its initial
  snapshot and nothing else, with the current list and a number above the daemon's. Both need `Linkage`,
  what the two ends know of each other: a connected daemon runs and its connection lives, nothing is on
  its way to a connection before it registers, what a request has numbered is not above the newest list,
  and every request is idle while a connection is quiet.
* `HostGrants_proofs`: `TypeCorrect`, `StaleAwaited` and `AllPushed`. `StaleIsAwaited` is not inductive: a
  host may hold its current list under an old number while an outdated list with a newer one is on its
  way. `Settling` says instead that a host has its current list under its newest number (`Settled`), or is
  awaited, or is in `missed`; it needs `Numbered`, that the numbers on
  their way to a host are distinct, not above its newest and not the one it holds.
  The tables are one lemma, `Steady`: a step that adds or drops only grants that do not reach a host,
  and touches no user who does, changes neither the host's list nor any lookup that would find it. So
  every host a step moves is one its handler will read again, will look up, or is recorded as missed.
  `AllPushed` (`PushedEverywhere`) adds `Alone`: with one request and no fault one handler is busy at most,
  the hosts it captured before its commit are still the affected ones (`Captured`), and the list it has
  read is still current when it is numbered, so none is missed.
* `Enrollment_proofs`: `TypeCorrect`, `OneHostPerMachine`, `ConfigAlwaysWorks`, `WorkingIdentityKept`,
  `RevokedHostsRecover`. The files cannot be right by themselves: the invariant follows an attempt from the
  answer it was given (`Linked`, `Progress`) over the files it has written so far (`Written`), says that a
  command at work on a box with an active host is that host's own or one of its stragglers (`Late`), and that a
  purge has marked every command of its box (`Marked`), and so what may lie beside a config (`Kept`) and
  what a starting daemon has loaded (`Loaded`). `RevokedHostsRecover` (`Recovers`) is inductive with it: a push
  to one box leaves the other boxes' hosts alone, because two connected boxes never share a host (`LinksApart`).
* `Daemon_proofs`, about `Upgrade`: `TypeCorrect`, `BinaryAlwaysWorks`, `StagedAlwaysDescribed`, `ConnectionDelivers`. `Steps`
  says what each file holds at each step of apply-update, so that a crash at any of them leaves a
  start that works; `Serving` and `Delivering` follow an upgrade from the row through the channel to the
  handler that stages it. `ReplacedBinaryKept` (`PrevKept`) rests on `Rollback`: a torn `custosd.prev` is left
  only by a crash, beside a staged binary that runs, so that the next start copies again; and before any
  crash what is staged differs from what is installed.
* `Daemon_proofs`, about `DaemonLink`: `ReportsAccounted` (`Accounted`). The property counts positions; the
  proof follows containers. A report that was made sits in exactly one container (`Sits`, `Located`), no
  container holds it twice (`Tidy`), and only a dialled connection has goroutines (`Undialled`). One lemma, `Move`, then covers every action: it says which reports go to which
  container, and that all others stay.
* `Accounts_proofs`, about `Sessions`: `SessionsStayEnded`, `ThresholdLocks`, `SpentStaysDead`. Tokens are minted once, and a
  refresh under way holds one that only its session ever had (`Numbered`, `Owned`), so rotating it neither
  revives another session nor brings a spent token back. `Counting` ties the failures in a row to the
  counter and to what each login that began after them has read.
* `Accounts_proofs`, about `Invitations`: `OneAccountEach`. Nothing in an acceptance looks at the other acceptances; what
  keeps them to one account is that each still has the address of its invitation (`Found`), every account
  has the address of the invitation that made it (`Addressed`), and addresses are unique.
* `SecretSets_proofs`: `SetsStayWhole`, `StoresLoseNoSet`, `BundlesReconcile`. The first two follow a set from
  the tables through the rows a handler has read, the bundle it builds, the channel and the store
  (`Carried`, `Distinct`): every piece was already whole before the step that passes it on, and what was
  committed stays in the history (`Grown`), so it is still whole after it. They need that a set is created
  once under an id of its own (`Born`) and that the last state of the history is the one in the tables
  (`Latest`). `BundlesReconcile` needs `Calm`: while nothing overlapped, one handler at most is busy, the
  numbers on the channel rise above the store's, and the last bundle sent is the tables', or that handler
  is on its way to send it (`Due`) and what it has built so far agrees with the tables (`Faithful`).
* `Vault_proofs`: `ListsAgreeWithChecks`, `AuditsComplete`, `CreatorsOwn`, `RevealsLogged`.
  Lists and checks are different queries, so `ListsMatch` compares them for any contents of the tables
  that keep a deleted group without grants or members (`IInv`). `RevealsLogged` counts: a read that is not
  in the log belongs to a handler that is about to insert it or to an insert that failed.
* `AccessAudit_proofs`: `WalksAreComplete`, `PathsNeverSplit`, `KeptPathsListed`,
  `ScrollsAreComplete`. Both kinds of pages rest on one lemma, `Page`: the first n elements
  of a finite ordered set are all of it, or exactly those up to a last one. So everything up to the cursor
  has been seen once, and what is steady is behind the cursor or still to come (`Walked`, `Scrolled`).

Model-checked only: `RevokedHostPurged`, `Reported`, `Reconnects` and `Converges`, since liveness under
fairness is out of this prover's reach. Every other property of a passing run is a theorem.

## Not modelled

* The unsigned mode (no signing key): every envelope has number 0 and is applied.
* The close code the websocket library sends when a read is cut by its context; the model takes
  a connection torn down that way as an ordinary close.
* Corrupt or unreadable `cache.json`, signature failures and malformed messages.
* `ApplyGrant` and `ApplyRevoke` of the cache: nothing calls them.
* Rows of `set_audit_logs`; peer credentials and process hardening of exec, where a refusal is a
  nondeterministic failure; the per-account filter of the authorized-keys command.
* Renaming hosts and groups, editing profiles, filters of the paged reports: no other state depends on
  them.
* Generated query plumbing, routing, encoding and configuration; cryptography (a valid signature and an
  exact round trip are assumed), mail, and the rate limiter, whose only state is time.
