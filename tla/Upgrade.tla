------------------------------ MODULE Upgrade ------------------------------
(***************************************************************************)
(* Upgrading a daemon: an admin asks for a version, the control plane      *)
(* records it and pushes it or keeps it for the next connection, the       *)
(* daemon stages the build and exits, and the service's root pre-start     *)
(* step swaps the binary.                                                  *)
(*                                                                         *)
(* One host.  A fleet upgrade is the same push to each host in turn, with  *)
(* the agent version its list query read.  The content of a file is the    *)
(* version it was built from, None if the file is absent, or Torn if a     *)
(* copy did not finish.                                                    *)
(***************************************************************************)
EXTENDS Naturals, Sequences

CONSTANTS
    Versions,    \* releases
    First,       \* the release installed at the start
    Sane,        \* releases whose binary runs and reports its own version
    Requests,    \* admin requests served at the same time
    None, Torn,
    ChanCap,     \* capacity of a connection's send channel
    MaxOps,      \* bound: upgrade requests
    MaxDrops,    \* bound: lost connections
    MaxCrashes,  \* bound: crashes of the box or kills of the service
    MaxFails     \* bound: failing downloads, copies and statements

ASSUME UpgradeAssumption ==
    /\ First \in Versions /\ First \in Sane /\ Sane \subseteq Versions
    /\ None \notin Versions /\ Torn \notin Versions /\ None # Torn
    /\ ChanCap \in Nat \ {0}

VARIABLES
    agent, desired,          \* hosts.agent_version and hosts.desired_version
    req,                     \* each request: step, target and the agent version read
    conn,                    \* the daemon's connection, as the control plane sees it
    chan,                    \* upgrades queued on it
    phase,                   \* the service: off, a step of apply-update, or run
    self,                    \* the version the running daemon was built as
    upgrading,               \* Client.upgrading, or the version being staged
    bin, prev, staged, meta, \* custosd, custosd.prev, custosd.staged, staged.json
    out,                     \* the binary the latest real swap replaced
    refused,                 \* releases apply-update has judged and discarded
    failed,                  \* what failed on this connection: recording the version,
                             \* or a re-push or a staging
    ops, drops, crashes, fails

db == <<agent, desired>>
files == <<bin, prev, staged, meta, out, refused>>
bounds == <<ops, drops, crashes, fails>>
upgradeVars == <<db, req, conn, chan, phase, self, upgrading, files, failed, bounds>>

Content == Versions \cup {None, Torn}
Idle == [step |-> "idle", target |-> None, current |-> None]
Down == [step |-> "down", desired |-> None]

UpgradeTypeOK ==
    /\ agent \in Versions /\ desired \in Versions \cup {None}
    /\ req \in [Requests -> [step : {"idle", "record", "deliver"},
                             target : Versions \cup {None},
                             current : Versions \cup {None}]]
    /\ conn \in [step : {"down", "authed", "online", "up"},
                 desired : Versions \cup {None}]
    /\ chan \in Seq(Versions) /\ Len(chan) <= ChanCap
    /\ phase \in {"off", "check", "backup", "copy", "swap", "clear", "clearmeta", "run"}
    /\ self \in Versions \cup {None} /\ upgrading \in Versions \cup {None}
    /\ bin \in Content /\ prev \in Content /\ staged \in Content /\ meta \in Content
    /\ out \in Versions \cup {None} /\ refused \in SUBSET Versions
    /\ failed \subseteq {"record", "push"}

UpgradeInit ==
    /\ agent = First /\ desired = None
    /\ req = [p \in Requests |-> Idle]
    /\ conn = Down /\ chan = <<>>
    /\ phase = "run" /\ self = First /\ upgrading = None
    /\ bin = First /\ prev = None /\ staged = None /\ meta = None
    /\ out = None /\ refused = {} /\ failed = {}
    /\ ops = 0 /\ drops = 0 /\ crashes = 0 /\ fails = 0

box == <<phase, self, upgrading, files, failed>>
Online == conn.step \in {"online", "up"}
QueueAlways(v) == chan' = Append(chan, v)

(* A push never blocks: a full channel drops it.                            *)
Queue(v) == chan' = IF Len(chan) < ChanCap THEN Append(chan, v) ELSE chan

-----------------------------------------------------------------------------
(* handleUpgradeHost: the host row is read, the release's checksums are     *)
(* resolved, then pushUpgrade runs.                                         *)
HandleUpgradeHost(p, v) ==
    /\ req[p] = Idle /\ ops < MaxOps /\ ops' = ops + 1
    /\ req' = [req EXCEPT ![p] = [step |-> "record", target |-> v, current |-> agent]]
    /\ UNCHANGED <<db, conn, chan, box, drops, crashes, fails>>

Return(p) == req' = [req EXCEPT ![p] = Idle]

SetHostDesiredVersion(p) ==
    /\ req[p].step = "record"
    /\ IF req[p].current = req[p].target
       THEN Return(p) /\ UNCHANGED desired
       ELSE /\ desired' = req[p].target
            /\ req' = [req EXCEPT ![p].step = "deliver"]
    /\ UNCHANGED <<agent, conn, chan, box, bounds>>

PushUpgrade(p) ==
    /\ req[p].step = "deliver"
    /\ IF Online THEN Queue(req[p].target) ELSE UNCHANGED chan
    /\ Return(p)
    /\ UNCHANGED <<db, conn, box, bounds>>

(* The release cannot be resolved or the statement fails: nothing recorded. *)
RequestFails(p) ==
    /\ req[p].step = "record" /\ fails < MaxFails /\ fails' = fails + 1
    /\ req' = [req EXCEPT ![p] = Idle]
    /\ UNCHANGED <<db, conn, chan, box, ops, drops, crashes>>

-----------------------------------------------------------------------------
(* handleDaemon: authentication reads the row, registering makes pushes     *)
(* reach the connection, and the version read at authentication decides     *)
(* whether the upgrade is pushed again.                                     *)
AuthenticateDaemon ==
    /\ phase = "run" /\ conn = Down
    /\ conn' = [step |-> "authed", desired |-> desired]
    /\ failed' = {}
    /\ UNCHANGED <<db, req, chan, phase, self, upgrading, files, bounds>>

Register ==
    /\ conn.step = "authed"
    /\ agent' = self
    /\ conn' = [conn EXCEPT !.step = "online"]
    /\ UNCHANGED <<desired, req, chan, box, bounds>>

(* The error of SetHostVersion is dropped: the old version stays recorded.  *)
RegisterFails ==
    /\ conn.step = "authed"
    /\ fails < MaxFails /\ fails' = fails + 1
    /\ conn' = [conn EXCEPT !.step = "online"] /\ failed' = failed \cup {"record"}
    /\ UNCHANGED <<db, req, chan, phase, self, upgrading, files, ops, drops, crashes>>

NoRepush ==
    /\ conn.step = "online"
    /\ conn' = [conn EXCEPT !.step = "up"]
    /\ UNCHANGED <<db, req, chan, box, bounds>>

Repush ==
    /\ conn.step = "online"
    /\ conn.desired \notin {None, self} => Len(chan) < ChanCap
    /\ conn' = [conn EXCEPT !.step = "up"]
    /\ IF conn.desired \notin {None, self}
       THEN chan' = Append(chan, conn.desired) ELSE UNCHANGED chan
    /\ UNCHANGED <<db, req, box, bounds>>

(* The checksums of the release cannot be resolved: nothing is pushed.      *)
RepushFails ==
    /\ conn.step = "online" /\ conn.desired \notin {None, self}
    /\ fails < MaxFails /\ fails' = fails + 1
    /\ conn' = [conn EXCEPT !.step = "up"] /\ failed' = failed \cup {"push"}
    /\ UNCHANGED <<db, req, chan, phase, self, upgrading, files, ops, drops, crashes>>

(* The channel is full before anybody empties it, and the handler waits for *)
(* good: the daemon, which hears nothing for readTimeout, dials again.      *)
ReadTimeout ==
    /\ conn.step = "online" /\ conn.desired \notin {None, self}
    /\ Len(chan) = ChanCap
    /\ conn' = Down /\ chan' = <<>>
    /\ UNCHANGED <<db, req, box, bounds>>

Drop ==
    /\ conn # Down /\ drops < MaxDrops /\ drops' = drops + 1
    /\ conn' = Down /\ chan' = <<>>
    /\ UNCHANGED <<db, req, box, ops, crashes, fails>>

-----------------------------------------------------------------------------
(* handleUpgrade and stageUpgrade.                                          *)
HandleUpgrade ==
    /\ conn.step = "up" /\ phase = "run" /\ chan # <<>>
    /\ chan' = Tail(chan)
    /\ upgrading' = IF Head(chan) = self \/ upgrading # None THEN upgrading
                    ELSE Head(chan)
    /\ UNCHANGED <<db, req, conn, phase, self, files, failed, bounds>>

StageFails ==
    /\ phase = "run" /\ upgrading # None /\ staged = None
    /\ fails < MaxFails /\ fails' = fails + 1
    /\ upgrading' = None /\ failed' = failed \cup {"push"}
    /\ UNCHANGED <<db, req, conn, chan, phase, self, files, ops, drops, crashes>>

(* staged.json is written first, the verified binary renamed in last.       *)
Unstaged == phase = "run" /\ upgrading # None /\ staged = None

BinaryFirst ==
    \/ Unstaged /\ staged' = upgrading /\ UNCHANGED <<bin, prev, meta, out, refused>>
    \/ /\ phase = "run" /\ upgrading # None /\ staged # None
       /\ meta' = upgrading /\ UNCHANGED <<bin, prev, staged, out, refused>>

StageFiles ==
    \/ /\ Unstaged /\ meta # upgrading
       /\ meta' = upgrading /\ UNCHANGED <<bin, prev, staged, out, refused>>
    \/ /\ Unstaged /\ meta = upgrading
       /\ staged' = upgrading /\ UNCHANGED <<bin, prev, meta, out, refused>>

StageUpgrade ==
    /\ StageFiles
    /\ UNCHANGED <<db, req, conn, chan, phase, self, upgrading, failed, bounds>>

GoOff ==
    /\ phase' = "off" /\ self' = None /\ upgrading' = None
    /\ conn' = Down /\ chan' = <<>>

(* The restart channel is closed: Run returns ErrRestart, the process ends. *)
ErrRestart ==
    /\ phase = "run" /\ upgrading # None /\ staged = upgrading
    /\ GoOff
    /\ UNCHANGED <<db, req, files, failed, bounds>>

Crash ==
    /\ phase # "off" /\ crashes < MaxCrashes /\ crashes' = crashes + 1
    /\ GoOff
    /\ UNCHANGED <<db, req, files, failed, ops, drops, fails>>

-----------------------------------------------------------------------------
(* The service starts: apply-update, then run.                              *)
host == <<db, req, conn, chan, upgrading, failed>>
Start == phase' = "run" /\ self' = bin

Boot ==
    /\ phase = "off"
    /\ IF staged = None THEN Start ELSE phase' = "check" /\ UNCHANGED self
    /\ UNCHANGED <<host, files, bounds>>

(* readMeta, the checksum and the smoke test.                               *)
NoSmokeTest == staged # Torn

Trusted == meta = staged /\ staged \in Sane

Check ==
    /\ phase = "check"
    /\ IF Trusted THEN phase' = "backup" /\ UNCHANGED refused
                  ELSE phase' = "clear" /\ refused' = refused \cup {staged}
    /\ UNCHANGED <<host, self, bin, prev, staged, meta, out, bounds>>

(* The metadata or the binary cannot be read, or not be run: an update that *)
(* may be good is discarded too.                                            *)
CheckFails ==
    /\ phase = "check" /\ phase' = "clear"
    /\ fails < MaxFails /\ fails' = fails + 1
    /\ UNCHANGED <<host, self, files, ops, drops, crashes>>

(* copyFile truncates custosd.prev and then fills it.  If the copy fails    *)
(* the update goes on.                                                      *)
Truncate ==
    /\ phase = "backup" /\ phase' = "copy" /\ prev' = Torn
    /\ UNCHANGED <<host, self, bin, staged, meta, out, refused, bounds>>

CopyResumed ==
    /\ phase = "copy" /\ phase' = "swap"
    /\ UNCHANGED <<host, self, files, bounds>>

CopyFile ==
    /\ phase = "copy" /\ phase' = "swap" /\ prev' = bin
    /\ UNCHANGED <<host, self, bin, staged, meta, out, refused, bounds>>

CopyFails ==
    /\ phase = "copy" /\ phase' = "swap"
    /\ fails < MaxFails /\ fails' = fails + 1
    /\ UNCHANGED <<host, self, files, ops, drops, crashes>>

(* replaceExecutable copies to custosd.new and renames it over custosd.     *)
ReplaceExecutable ==
    /\ phase = "swap" /\ phase' = "clear"
    /\ bin' = staged
    /\ out' = IF staged # bin THEN bin ELSE out
    /\ UNCHANGED <<host, self, prev, staged, meta, refused, bounds>>

SwapFails ==
    /\ phase = "swap" /\ phase' = "off"
    /\ fails < MaxFails /\ fails' = fails + 1
    /\ UNCHANGED <<host, self, files, ops, drops, crashes>>

(* Both an applied and a discarded update end with the two removals.        *)
RemoveStaged ==
    /\ phase = "clear" /\ phase' = "clearmeta" /\ staged' = None
    /\ UNCHANGED <<host, self, bin, prev, meta, out, refused, bounds>>

RemoveMeta ==
    /\ phase = "clearmeta" /\ meta' = None /\ Start
    /\ UNCHANGED <<host, bin, prev, staged, out, refused, bounds>>

Apply ==
    \/ Boot \/ Check \/ Truncate \/ CopyFile \/ ReplaceExecutable
    \/ RemoveStaged \/ RemoveMeta
Serve == AuthenticateDaemon \/ Register \/ Repush \/ ReadTimeout
Stage == HandleUpgrade \/ StageUpgrade \/ ErrRestart
Admin(p) == SetHostDesiredVersion(p) \/ PushUpgrade(p)

UpgradeNext ==
    \/ Apply \/ Serve \/ Stage
    \/ \E p \in Requests : Admin(p) \/ RequestFails(p)
    \/ \E p \in Requests, v \in Versions : HandleUpgradeHost(p, v)
    \/ Drop \/ RegisterFails \/ RepushFails \/ StageFails \/ Crash
    \/ CheckFails \/ CopyFails \/ SwapFails

(* The service manager restarts the service (Restart=always), Run dials     *)
(* again, a read times out, a handler that has begun goes on.               *)
UpgradeFairness ==
    /\ WF_upgradeVars(Apply) /\ WF_upgradeVars(Serve) /\ WF_upgradeVars(Stage)
    /\ \A p \in Requests : WF_upgradeVars(Admin(p))

UpgradeSpec == UpgradeInit /\ [][UpgradeNext]_upgradeVars /\ UpgradeFairness

-----------------------------------------------------------------------------
(* "so a corrupt/wrong-arch binary never replaces a working one": across    *)
(* crashes and failures at any step, the installed binary is complete and   *)
(* is the first one or one that passed the smoke test, and a running daemon *)
(* runs what is installed.                                                  *)
InstalledWorks ==
    /\ bin \in Sane
    /\ phase = "run" => self = bin

(* "Rename the binary in last; apply-update keys off its presence": a       *)
(* staged binary always lies beside the metadata of that same binary, so    *)
(* the checks never condemn a sane update; only an error in reading or      *)
(* running it discards one.                                                 *)
StagedIsDescribed ==
    /\ staged # None => meta = staged
    /\ refused \cap Sane = {}

(* "A host still behind its desired version gets the upgrade re-pushed on   *)
(* connect": a connection that read the version now desired, and whose      *)
(* queue has been handled, leaves the daemon on that version or staging     *)
(* some version, unless the re-push or a staging has failed.                *)
ReconnectDelivers ==
    conn.step = "up" /\ chan = <<>> /\ conn.desired = desired /\ desired # None =>
        self = desired \/ upgrading # None \/ "push" \in failed

(* "Converge": once every request has returned and a connection has read    *)
(* the version desired, a release that runs is in the end what the daemon   *)
(* reports, whatever crashes come between, unless its push, its staging or  *)
(* its recording failed, which is tried again on the next connection only.  *)
Settled ==
    /\ ops = MaxOps /\ \A p \in Requests : req[p] = Idle
    /\ conn.step # "down" /\ conn.desired = desired /\ desired \in Sane

Converges == Settled ~> (agent = desired \/ failed # {})

(* "Keep the outgoing binary so a bad release can be rolled back": unless   *)
(* an operation on the files failed, a running daemon has the binary it     *)
(* replaced beside it; only a crash in between can leave a second copy of   *)
(* the installed one instead, and never half of a binary.                   *)
PrevKept ==
    phase = "run" /\ fails = 0 => prev = out \/ (crashes > 0 /\ prev = bin)
=============================================================================
