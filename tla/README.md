# Miaominal in TLA+

Miaominal is a terminal client (SSH, SFTP, port forwarding, remote desktop, an
AI agent) for desktop and Android. This project models first the part in which a
bug silently destroys a user's data: the synchronisation of sessions, proxies,
snippets, keys and settings between devices, through a GitHub Gist or a file on
a WebDAV server, encrypted with a passphrase. Then the parts in which concurrent
tasks, several windows or a failing step could do something a user would not
see: tunnels nobody can close, connections nobody consented to, files and
secrets lost while they are replaced or moved.

| module | models | about |
|---|---|---|
| `SyncEngine` | `miaominal-sync/src/sync/{engine,store,webdav,github_gist,providers,payload}.rs`, the setters of `settings_service.rs` | several devices, their operations and configurations, one or more remotes |
| `AutoSync` | `miaominal-services/src/services/{auto_sync,sync_service}.rs`, the glue in `ui/application.rs` and `ui/features/settings/controller.rs` | one device: the background task, its timers and commands, the user and the application |
| `PortForward` | `miaominal-services/src/services/port_forward_manager.rs`, the worker in `miaominal-ssh/src/ssh/forwarding.rs`, the application that starts and stops rules and stores their flag | one rule, its sessions, connections and handlers, the user |
| `BridgeApproval` | `miaominal-services/src/services/ssh_bridge_service.rs`, the policy store, the switch in the settings | the tasks that serve clients, the pending requests, the policy, the vault, the service |
| `SftpTransfer` | `miaominal-sftp/src/sftp/{transfer,session,local}.rs`, the page in `ui/features/sftp` | the transfers of a session, the files they replace, the page |
| `FileReplacement` | | what a transfer promises of the files it replaces; `SftpTransfer` implements it |
| `LocalVault` | `miaominal-secrets`, `settings_service.rs`, `credential_migration.rs`, the vault controllers of `miaominal-ui`, `miaominal-android/src/data.rs` | the secrets in the keyring and in the vault, the operations that move them |
| `DataDirectory` | `miaominal-paths/src/lib.rs`, the start in `src/src/main.rs`, the instance lock | the directories the files may be in, the processes that find and move them |
| `MCSyncEngine`, `MCAutoSync`, `MCPortForward`, `MCBridgeApproval`, `MCSftpTransfer`, `MCLocalVault`, `MCDataDirectory` | | the instances for TLC |
| `SyncEngineProofs`, `AutoSyncProofs`, `PortForwardProofs`, `BridgeApprovalProofs`, `SftpTransferProofs`, `LocalVaultProofs`, `DataDirectoryProofs`, `DataDirectoryMovesProofs` | | the theorems about each component, and their proofs |

`PROJECT.json` maps every definition to the lines it stands for. Paths below
are relative to `src/crates/` unless they say otherwise.

## Inventory

### Synchronisation

**Engine** (`miaominal-sync/src/sync/engine.rs`). State: the sync configuration
it was given (a copy), nothing else. Operations: push (automatic, manual,
forced), pull (automatic with an expected local revision, manual, forced),
remote state. Each is one conditional GET, a three-way comparison of local
revision, remote revision and recorded baseline, then an upload or an
application, then a conditional write of the configuration. Hard: the window
between GET and PUT, other devices in it, lost replies and late uploads,
servers without strong tags or without preconditions, a crash at any await, the
configuration changing meanwhile. Correct when nobody's edit is overwritten
unseen, and when the baseline (the only evidence of what was synchronised) is
always true.

**Configuration store** (`store.rs`, `model.rs`). State: a TOML file with a
revision number, secrets in a credential store. Operations: `update`,
`update_if_revision`, `sync_from_disk`, setters. Everybody keeps copies of it:
the engine inside an operation, the scheduler, the application. Hard: an update
that changes nothing keeps the revision; two files (configuration and
credentials) are not written together. Correct when a conditional write
succeeds only if nobody decided otherwise in between.

**Remotes** (`webdav.rs`, `github_gist.rs`, `providers.rs`). Conditional GET,
PUT/PATCH with `If-Match` or `If-None-Match`, POST for a new Gist, read-back
when a server sends no tag. Hard: a server may ignore preconditions, refuse all
of them, send weak tags, change tags for the same bytes, or store an upload
after the client gave up.

**Applying a payload** (`payload.rs`). Several files, the secret store and the
settings are written one after another; a failure restores a snapshot. Hard: a
crash in the middle, a failing rollback.

**Scheduler** (`auto_sync.rs`). State: phase, dirty, remote missing, pending
conflict, retry deadline and action, debounce deadline, capability verdict, its
copy of the engine. Input: a command queue, a retry timer, a debounce timer, a
tick, a file watcher. Hard: every handler awaits several times; commands queue
up meanwhile with configurations that are stale when they are taken; checks are
cancelled through a shared generation counter; phases double as state. Correct
when it never works while it must not (off, locked, backing off, conflict), and
when it does not silently stop working while it should.

**Capability probe** (`capability.rs`). Puts a disposable file next to the
configured one to see whether the server honours preconditions. Hard:
cancellation, cleanup of a file whose creation was not confirmed, its deadline.

**Application and settings page** (`ui/application.rs`,
`ui/features/settings/controller.rs`). A copy of the configuration, replaced by
newer snapshots of the scheduler, sent back with commands; the switch, the
manual buttons, vault locking.

They interact through: function calls (settings to store), an unbounded command
queue (application to scheduler), a watch channel of snapshots (scheduler to
application), a process-wide lock (scheduler and manual operations around the
engine), the configuration file (all of them), HTTP (engine to remote).

### The rest of the program

| component | state, and what makes it hard | correct when | plan |
|---|---|---|---|
| Port-forward manager (`services/port_forward_manager.rs`) | sessions per rule with a generation; start, stop, restart requests; events of dead sessions, delayed cleanup; the application stores a flag per rule and hands the catalog back | one connection per rule, none that nobody can close; events of an old generation change nothing; no finished session stays for good; the flag follows the runtime; the last of start and stop wins | `PortForward` |
| SSH bridge service (`services/ssh_bridge_service.rs`) | pending approvals, policy generations, a vault wait, connection slots, a desired state | every connection has the consent the policy in force asks for; a waiting request can be answered and ends; limits hold; a bridge that is off serves nobody | `BridgeApproval` |
| SFTP transfers (`miaominal-sftp/src/sftp/transfer.rs`) | pause, resume, cancel flags and one notification, a concurrency permit, three renames to replace a file | a whole file is always found under the destination or its backup; what is reported is what happened; every transfer ends | `SftpTransfer` |
| Applying a payload, in detail (`payload.rs`) | order of the writes, snapshot and restore | after a failure the stores are what they were | `SyncApply` |
| Credential backends, local vault (`credential_backend.rs`, `credential_migration.rs`, two UI controllers) | copy, store the mode, delete, on a worker and on the thread of the interface; several windows; a lock timer | no secret is lost whatever step fails; session and disk agree | `LocalVault` |
| Data directory (`miaominal-paths`) | a move in eight phases over three places, resumed or rolled back by the next start | whatever step fails or is the last, the next start finds every file as it was saved | `DataDirectory` |
| Single instance (`src/src/app/instance.rs`) | lock file, socket, stale files | at most one instance, and a stale lock never locks out all | the lock, in `DataDirectory`; the socket later |
| Agent (`miaominal-agent`) | terminal execution leases, cancellation, jobs, approvals | a lease has one owner; cancelled work releases it | later |
| SSH sessions, forwarding, monitor (`miaominal-ssh`) | reconnect loops over russh | | the worker of a port forward, in `PortForward` |
| Terminal emulator, RDP launcher, OpenSSH files, stores, user interface, Android and its bindings | text, presentation, whole-file storage, a second front end | | not planned; reasons in `PROJECT.json` |

## SyncEngine

Each device has its local content, a configuration (`cfg`: target, stored
passphrase marker, base, payload id, tag, revision), the passphrase in the
credential store, a half-done passphrase change (`pend`), and at most one
operation (`op`), because all operations of a process take one lock. A remote
resource holds a version number; `body` says what each version is: content,
payload id, passphrase, resource. Entity tags are version numbers, so "same
tag" is "same version", and a server that retags gives the same payload a new
version. `wire` holds the uploads that were sent and may still land.

An operation moves through its awaits: begin (the request), answered,
uploading, written or refused, verified, recorded. Between any two of them
other devices write, the user edits and changes settings, and the process
crashes. `GetAnswered`, `Land`, `Refuse` and `Timeout` are what the network
does; everything else is a continuation of `push_internal`, `pull_internal`,
`remote_state` or `remote_payload_state` up to its next await, with the early
returns in the order of the code. An `Outcome` is the returned `SyncStatus`.

`setup` fixes what does not change in a run: provider, whether the server sends
tags, honours preconditions, or refuses every conditional upload, and consent
to upload without preconditions.

Properties:

- `TypeOK`.
- `IInv`, the inductive invariant (see Proofs). Its heart is `BaselineTruth`:
  the baseline of every device is the content of the payload its configuration
  names, on the target it names.
- `PushKeepsForeignContent`: a guarded upload replaces nothing or what its
  device compared with, even when it lands after its sender gave up.
- `UnguardedPushComparesContent`: an upload without precondition loses only what
  was written in the window after its GET.
- `PullKeepsLocalEdits`: an automatic pull never overwrites an edit.
- `RefusalMeansRemoteChanged`: another device is never blamed for a server that
  refuses every conditional upload.
- `UpToDateMeansRemoteHasIt`.
- `OperationsEnd`: every operation ends, so the process lock is given back.
- `BaselineReadable`: violated, see Findings.

## AutoSync

`t` is the task: the fields of `AutoSyncTask`, plus `at`, the await it is
suspended in, `then`, what its caller does when a capability probe passes, and
the locals that live across the await. A handler is a chain of steps, one per
await; the operators between (`PushIfDirty`, `PollRemote`, `OnTick`,
`EnsureCapability`) are functions of the task's record, so that a step is the
whole synchronous stretch. Commands are taken only when the task is idle, in
order, before timers (the `select!` is `biased`).

`disk`, `app.cfg`, `t.cfg` and the `cfg` inside queued commands and the
published snapshot are the copies of the configuration; each has a `rev`. The
shared cancellation generation is `gen`, and a token is the generation it was
made in. `slot` is `CheckRequests`. The engine is atomic at its answer: what
`push`, `pull` and `remote_state` can return for the contents and the baseline
at that moment (`PushOutcome`, `PullOutcome`, `PollMissing`, `PollUnchanged`,
`PollUpdated`), or an error, or the detection that the configuration moved
since the operation began. `SyncEngine` models what happens inside.

Properties:

- `TypeOK`: no baseline, seen or expected content outside its range, whichever
  answer comes after which.
- `WorkIsPermitted`: at every request automatic sync is on, the vault unlocked,
  no backoff running and, for uploads, no intervention pending.
- `OneLiveCheck`: at most one check that was not cancelled is queued or served.
- `KeepsPolling`, `Converges`, `FollowsSwitch`: liveness, see Fairness.
- `StaysOff`: violated, see Findings.

## PortForward

One rule. `session` is `ManagerState.sessions` at its key, `profiles` the
manager's copy of the rule, `published` the watch channel and `news` whether the
application has yet to look at it. Generation `g` is a start: its worker thread
(`worker[g]`), the bounded channel of its events (`events[g]`), its handler task
(`pc[g]`) and its delayed removal (`g \in cleanups`). The user interface thread
is process `UI`. `pc` and `held` are where a process stands, and what it carries,
in the gaps where the manager's lock is released: between reading the catalog,
reserving the session, launching the connection and attaching its commands;
between marking a session as stopping and closing its connection; between the
decision to restart and the restart; between the four parts of
`replace_catalogs`. `start` and `stop` are the same chain whoever calls them.

The worker is reduced to what the manager sees of it: connecting, ready,
waiting to reconnect, with an `Error` or a `Closed` to send. `told` is the
cancellation token. A connection counts until its future is dropped, which
aborts its listener (`forwarding.rs:86`). What it forwards is left out: an edited
rule that cannot be put into effect is a failure like any other. The events that
change no state (notices, bound ports, prompts) are left out too.

Properties:

- `TypeOK`, with the bounds on attempts and on the event channel.
- `OneConnection`: two starts never have a connection at the same time.
- `NoOrphan`: a connection nobody told to close belongs to the live session,
  whose commands are attached or about to be; a stopping one is being told.
- `PublishedFresh`: the snapshot is the session, but for an end about to be
  replaced by a restart, also when that restart fails.
- `FinishedIsRemoved`: an ended session has a removal scheduled or a handler
  that is restarting it.
- `FlagFollowsRuntime`: with every snapshot observed and no save pending, the
  stored flag says whether the rule runs. Before the first snapshot it may be
  wrong: a new rule is stored as enabled without being started.

## BridgeApproval

The bridge lets `ssh` reach saved hosts through a local socket. `client[c]` is
the task that serves a client: where it stands, the policy generation it was
authorised under (`allowed`), the generation of the credentials it has seen.
`desk[c]` is its entry in the map of pending requests with the channel of events
behind it: whoever takes an entry out (the user, a policy, a deleted host, the
end of the service) sends the reason on that channel, and the entry's guard
takes it out when the task ends. `policy` and `store` are the policy in memory
and on disk, which another instance of the application may write.
`reconcile_desired_state`, which one caller at a time executes, is `op`; the
accept loop and its cancellation are in `service`; `publish_running` reads and
writes the status in two steps. A task's step ends where it awaits, releases a
lock or reads something shared a second time.

Properties:

- `ConnectsWithConsent`: when a connection to a host begins, the policy on disk
  asks for no consent or the user consented to this request under this policy.
- `Answerable`: a waiting task has an entry on the page or a reason on its way;
  no entry outlives its task or the policy it was made under, and no more are
  pending than may be.
- `NoLostUnlock`, `StoppedIsQuiet` (nothing is served or
  pending once the accept loop has ended, and the count of connections is right).
- `RequestsEnd`, `StopsListening`: liveness.
- `TypeOK`.

## SftpTransfer and FileReplacement

A transfer is a task that moves its files one after the other: an upload writes
a temporary file on the server and puts it in place with `rename`, by way of a
backup when the server refuses to replace; a download does the same with local
files. `files` holds what is under each destination and each transfer's
temporary and backup names; a file is named by the transfer that brings it, so
that two transfers to one destination can be told apart. Before each step a task
looks at its `control` (paused, cancelled, one notification) and may give up or
wait for its permit: `waiting` is the semaphore's queue. A download closes the
remote file last: after its file is in place (`Close`) and after it was given up
(`Release`), where a close that fails turns a cancelled download into a failed
one. `session` executes
commands in order; `page` is what the user sees and the two channels it is fed
from, events and progress, which are not ordered with one another. A fault is a
request refused or a lost connection, after which the request may have been
executed or not.

`FileReplacement` is the abstract specification: for each destination the set of
whole files found there or in its backups, what each transfer has brought, and
what was reported. A file gives way only to one that was transferred, a transfer
is told done only when all its files are in place, cancelled only when one is
not. `ReplacesFiles` is that specification under the refinement mapping
`Kept`, checked as a property: every step of every task is one of its steps or a
stutter.

The other properties: `NothingLeft` (no temporary file or backup without a
fault, and no permit with a task that waits), `FinishedStaysFinished` (late
progress reopens no row), `TransfersEnd` (cancelled ones, too), `TypeOK`.

## LocalVault

`keyring` and `file` are the two places secrets are kept in; `enabled` is the
setting that says which one the next start will use; `app` is the store the
running application uses; `saved` is what the user has saved, a history variable
the properties compare with. An operation (`op`) is a worker thread (`Open`,
`Copy`, `Rotate`, `Discard`) followed by its end on the thread of the user
interface (`Finish...`, `Delete`, `Erase`, `Failed`, `Relock`), during which
nothing else runs there; only a crash comes between. `busy` are the flags a
window refuses a second operation by. On Android one lock makes an operation
exclude everything but a crash; a portable installation has no keyring, and an
empty vault counts as disabled.

Properties:

- `NoSecretLost`: a secret the user has saved is where the application would
  look for it if it started now, at every moment of every operation.
- `SessionMatchesDisk`: between operations the running application and the next
  start agree on the store, and an unlocked session has the passphrase the file
  opens with.
- `NothingBehind`: without failures no copy stays in the place that was left, and
  a removed secret does not come back. (With failures it does: a vault file that
  could not be erased is filled up again by the next enable.)
- `OperationsEnd`: the flags are cleared. `TypeOK`.

## DataDirectory

`dirs` are the directories (the default one, that of older releases, those the
user may choose), each with its files, the migration marker and, in the
bootstrap, `data_location.toml`; `stages` are the copies beside the target.
`proc` holds for each process where its start is, the location it read and the
directory it works in; `saved` and `wish` are what the user saved and chose last,
history variables. The content of a file is its version.

A start is a sequence of actions, one for each operation on the file system with
the reading that leads to it: `Inspect` and `RenameLegacy` (the directory of
older releases), `ReadLocation`, then, for a move, `PrepareTarget`, `MakeStage`,
`CopyFile`, `MarkStage`, `PlaceStage`, `Activate` (or `MoveEntry` when the files
go back to the bootstrap), `Recheck`, `Switch`, `Cleanup`, `Unmark`, `Done`; on
an error before the switch `DropStage`, `Recreate`, `Forget`; and last `Lock`.
Removing a directory is `RemoveEntry` for each entry, in any order, and
`Cleared`: a source that is already gone is as good as removed, a target to be
rolled back that another process removed first may be an error. Every operation
may fail (`Failed`), a write of `data_location.toml` before or after the file was
replaced; `Crash` comes between any two.

Properties:

- `NothingLost`: the directory the next start would work in holds every file as
  it was saved last, at every moment.
- `MovesSettle`: without failures, however often it was interrupted, a start that
  gets to run works where the next one will, where the user wanted unless an
  interrupted start gave the move up, and has left no marker, no old file and no
  file in a stage. (An empty stage stays when the process ends before the last
  step of moving files back to the default directory.)
- `TypeOK`; `data_location.toml` is in a bootstrap only.

## Runs

| run | instance | shows | distinct states |
|---|---|---|---|
| `engine_safety` | two devices on four kinds of remote with one fault; two devices, up to three contents on a WebDAV server whose preconditions do not work, with automatic (consented) and manual pushes; one device whose passphrase and target change, with automatic and forced pushes, manual and forced pulls and a server that retags | `TypeOK`, `IInv`, `PushKeepsForeignContent`, `UnguardedPushComparesContent`, `PullKeepsLocalEdits`, `RefusalMeansRemoteChanged`, `UpToDateMeansRemoteHasIt` | 997 000 |
| `engine_live` | one device, two resources, WebDAV and Gist, deletions, lost replies | `OperationsEnd` | 34 500 |
| `engine_passphrase` | one device, first push, two passphrases | violates `BaselineReadable` | |
| `autosync_safety` | WebDAV or Gist, one command of any kind, one edit, one fault, in every order and from every initial configuration; and four presses of switch and recheck on servers with and without preconditions | `TypeOK`, `WorkIsPermitted`, `OneLiveCheck` | 2 066 000 |
| `autosync_live` | WebDAV or Gist, one press of the switch, one edit here or elsewhere | `KeepsPolling`, `Converges`, `FollowsSwitch` | 210 000 |
| `autosync_off` | the smallest instance that shows a finding | violates `StaysOff` | |
| `port_forward` | two starts, two other commands, two rules, one failed save, one reconnection attempt, event channel of two | the six properties of `PortForward` | 1 260 000 |
| `bridge` | one client amid a new policy, new credentials and a change of hosts or switch; the same around two changes of the switch; two clients of one host; three of three hosts | the seven properties of `BridgeApproval` | 81 700 |
| `sftp` | two uploads to one destination with faults; an upload and a download for one permit, two buttons pressed; a directory that fails and is cancelled; a download that reports | the five properties of `SftpTransfer`, with the refinement of `FileReplacement` | 359 000 |
| `local_vault` | a desktop, a phone and a portable installation, two secrets, two passphrases, two saves or removals, two failing steps, one end | the five properties of `LocalVault` | 242 000 |
| `data_directory` | one process from any home, two files, two saves, two moves, two failing steps other than the legacy rename and the record of the switch, two ends; with the rename failing and no move; with the record failing and no save; two processes and no move | the three properties of `DataDirectory` | 873 000 |
| `data_directory_switch` | the record of the switch fails, then a file is saved | violates `NothingLost` | |

Every passing property has a mutant of the code in `PROJECT.json` that it
catches under the run's own bounds.

### Bounds

Every bound is a field of the record that fixes a run (`setup` in `SyncEngine`,
the members of `Scenarios` elsewhere) or a constant of `PortForward`. A run is
the union of several such instances: what one question needs is large where
that question is asked and small elsewhere.

- `versions` bounds what is ever stored on remotes. Three let a device upload,
  another overwrite and the first return: the shortest history in which a stale
  version is neither the first nor the last. One device needs two.
- Three contents (half of instance `Broken`, with two versions) make "edited
  here", "edited there" and "what it was" different. Where no property tells the
  latter two apart, two contents do, and going back to an earlier content is then
  the common case.
- Two devices: the properties speak of a device and what others did; a second
  device stands for all others. One where they speak of settings only.
- `mishaps` is 1 in `SyncEngine`: each property is about one fault at any point.
  Lost replies are not counted among them.
- `asks` is 4 in `Checks`: request, cancel, request again, cancel again, with
  the first still finishing. `asks`, `edits` and `faults` are 1 in `Mixed`: the
  initial states are all configurations (on or off, with or without baseline,
  consent, exemption, locked or not, any two contents), so a run does not need
  commands to get anywhere, and one command, one edit and one fault meet at
  every await of every handler.
- `PortForward`: two starts are what a restart takes; two commands are a stop
  and the edit, deletion or refresh that meets it. One reconnection attempt
  distinguishes "again" from "too often", and a channel of two fills up when a
  handler is busy with a restart.
- `BridgeApproval`: limits of two pending requests in all and one for a host,
  so that three clients meet both; there are as many connections as clients, so
  the semaphore refuses nobody. One change of each
  kind around one client is every change at every one of its steps; two changes
  of the switch are off and on while a client of the first run is still leaving.
- `SftpTransfer`: two faults where a rename does not replace: one breaks the
  installation, the other its rollback. On a server whose rename replaces, one:
  see Findings for what two do. Two presses are pause and resume, or pause and
  cancel. Two files are the least in which an earlier one is already in place
  when the transfer fails.
- `LocalVault`: two failing steps, such as a copy and the removal of what was
  copied, and one end of the application anywhere, among two writes and any
  number of operations. One window, and no write while an operation runs on a
  desktop: with either `NoSecretLost` fails (see Findings; instances `Windows`
  and `Meanwhile`).
- `DataDirectory`: two moves are there and back, or on to a third directory; two
  failures are a step and its rollback; two ends are one in the move and one in
  what resumes it. What is kept out of `Alone` is where `NothingLost` fails
  (`SwitchFails`, `RenameFails`, `Overlap`, see Findings), and is checked as far
  as it holds: the two steps fail where nothing is saved or moved, two processes
  start where nothing is moved.
- Symmetry (contents, devices, passphrases, clients, ...) is used only in runs
  without liveness properties.
- `CHECK_DEADLOCK FALSE`: with the bounds exhausted, or nobody doing anything,
  the system really stops. (In `DataDirectory` it never does: the application can
  always be started.)

### Fairness

`SyncEngine!FairSpec` asks weak fairness of `EngineStep(d)` only: an operation
that is under way goes on. HTTP clients have connect and request timeouts
(`webdav.rs:47-64`, `http_client.rs`), so a request that is never answered ends
too (`Timeout`). Nothing is assumed of the user, of other devices or of the
server.

`AutoSync!FairSpec` asks weak fairness of the handlers (same reason; the probe
has a deadline of its own), of taking commands, of ticks, of the second half of
turning the switch off and of the delivery of snapshots; and strong fairness of
the retry, the debounce and the watcher. These three may be disabled again and
again by a tick in progress, but a minute lies between two ticks and a tick
ends, so in every gap an expired timer is served. The user, edits and failures
are not fair: they may stop, and are bounded.

`BridgeApproval!FairSpec`: tasks are scheduled; a request that waits for its
user, for the vault or for the host ends by its deadline (`Fails`), which is the
only thing that must happen to it; the loop that starts and stops the service
and the publication of its status finish what they began. Nobody has to answer,
unlock or disconnect.

`SftpTransfer!FairSpec`: a task that can go on does. Requests to the server have
a timeout in the client library; a paused transfer, or one without a permit,
cannot go on. Buttons, the page and the closing of tabs are not fair.

`LocalVault!FairSpec`: the worker of an operation ends (file system and keyring
calls return) and the interface takes its result.

## Proofs

Each component has a module `...Proofs` with its theorems. They hold for every
value of the constants: any number of devices, windows, clients, transfers,
processes, files, secrets or contents, every bound and every scenario, the
instances of the runs among them. The constants' assumptions type them; what
they ask beyond that is in the table. Every safety property of a passing run is
a theorem.

| module | theorems | asked of the constants |
|---|---|---|
| `SyncEngineProofs` | `Invariant`, `TypeCorrect`, `BaselineCorrect`, `PushSafe`, `PullSafe`, `UpToDateSafe`, `Answers`, `WindowSafe`, `RefusalSafe` | markers are no values |
| `AutoSyncProofs` | `TypeCorrect`, `WorkPermitted`, `OneCheck` | there is some content |
| `PortForwardProofs` | `TypeCorrect`, `OneConnectionAtATime`, `NoOrphans`, `SnapshotsAreFresh`, `FinishedAreRemoved`, `FlagFollows` | the event channel has room for one event |
| `BridgeApprovalProofs` | `Invariant`, `TypeCorrect`, `Answered`, `NoUnlockLost`, `StoppedQuiet`, `ConsentFirst` | finitely many clients, limits of at least one |
| `SftpTransferProofs` | `TypeCorrect`, `LeavesNothing`, `Implements`, `FinishedStays` | a transfer has files, no two for one destination (`SftpAssumption`; the names in a directory differ) |
| `LocalVaultProofs` | `TypeCorrect`, `SecretsKept`, `SessionAgrees`, `NothingStaysBehind` | markers are no values |
| `DataDirectoryProofs`, `DataDirectoryMovesProofs` | `TypeCorrect`, `FilesKept`, `MovesAreSettled` | the default and the older directory are not among those one may choose |

TLC has checked every inductive invariant below on all reachable states of the
component's safety run (the counts under Runs) before it was proved.

All proofs have one shape: lemmas about the operators and about what a kind of
step leaves alone, one lemma per action, one that the initial state satisfies
the invariant, a case split over `Next`, and a temporal step at the end.

### SyncEngine

`BaselineTruth` is what the comparisons rest on and is not inductive: a device
records what its operation remembers, so the operation must have remembered the
truth. `IInv` adds:

- `ServerInv`: equal payload ids are equal payloads and a resource serves its
  own. Needed because a payload "recognised" by its id is not looked at again.
- `OperationInv`: while the configuration has not moved, what an operation
  asked, got and wrote belongs to it. Needed by every record, and it is where
  the revision check of `update_if_revision` is used: the flag `moved` is what
  that check sees.
- `UploadInv`: the precondition of a guarded upload names a version with the
  content that was compared. It holds for uploads that outlive their sender,
  so it speaks of `wire` and not of operations.

The argument: `ServerStep`, `BaselineStep`, `OperationStep` and `UploadStep`
show one conjunct each for every step, from lemmas that say what a kind of step
leaves alone (`OnlyRemoteStores`, `ConfigChanges`, `EndedFits`, ...) and what it
can change. `TruthLasts` says that new versions never falsify an old baseline.
`PushSafe`: only `Land` changes a remote's version; `Accepts` compares the
precondition with the version replaced; `UploadInv` says what that version
holds. `PullSafe`: only the last step of a pull writes, under the comparison
that local content equals the baseline, which is true. `UpToDateSafe` splits
over the steps that return `UpToDate`.

The last two properties speak of what lies between a GET and its answer, so they
need a second invariant (`Answers`). `SentInv`: a device
awaits at most one upload, does nothing else meanwhile, and a strict push sent
it under the tag it compared with. `ComparedInv`: an unforced upload knows the
content of the version it compared with, and its resource has since held that
version, newer ones or nothing: without "newer" a deleted and recreated resource
could show older content to an upload that arrives late. `WindowSafe` and
`RefusalSafe` follow: the second because a strict refusal with the resource
unchanged would have met the condition that was sent.

### AutoSync

`Permitted` is what makes `WorkIsPermitted` inductive: from its first await to
its last, a handler that works for automatic synchronisation has the task
enabled and unlocked, no retry pending and, when it pushes, no conflict. The
property looks at requests only; the invariant also covers the awaits on a file
or on the probe that lie before one. It holds because only the task changes
these fields, and takes no command while a handler runs. `AtRest` says the same
of the moment between handlers. `CheckInv` is about cancellation: tokens never
exceed the shared generation, and the one that equals it occupies
`slot.pending`, is in the queue once, and not at all once the task holds it. A
cancellation that comes between any two awaits moves the generation past all of
them at once.

The handlers share their fragments (`PushIfDirty`, `PollRemote`,
`EnsureCapability`, `OnTick`...), which are functions of the task's record: the
lemmas state for each that it returns a sane task that follows the one it was
given (`Follows`), and the actions cite them.

### PortForward

`OneConnection` needs `ConnectionIsLive`: only the live session's generation
has a connection. For that, a start under way must be the session's, with its
worker not begun and its handler not there (`StartsAlone`), an end on its way to
the handler must be one of a connection that is gone (`EndsAreLast`), and what
is not reserved yet must be blank (`Later`). `Counted` bounds the generations:
each is a start that was asked for, and one asked for is a process about to
reserve or a restart the stopping session remembers. `FreshInv` and
`FinishedIsRemoved` name who repairs the snapshot, or removes the session, when
the step that ended it did not. `FlagInv` names the only place where the flag
may lag with nothing unread: a disconnection that stored it first and is bound
to publish again.

### BridgeApproval

`Good` speaks of one client at a time. `Waiter`: a waiter whose entry is gone
has the reason last in its channel, and an entry that is there was made under
the policy in force. The case that needs care is a task that wakes: between
reading an event and dropping its entry anybody may take the entry, which is why
`Waiter` looks at the last event and not at the first. `Consent` ties a
request to the policy on disk: equal generations mean the same level, and a
later generation makes the request start over. `Wakes` is the generation of
the secrets a waiting task has seen. `Limits`, `Counts` and `Locked` are about
the service: what the holder of the operation lock may find the accept loop
doing. That there are finitely many clients is used to count the tasks.

### SftpTransfer

`Own` is the invariant of one task: what it has brought is what its place in the
transfer says (`Course`), the names of backups it has still to make are free
(`Free`), and, while nothing failed, it leaves nothing behind (`Tidy`).
`QueuedOnce` and `Announced` relate the command queue and the channel of events
to it: a second "queued" would reset a row that has ended.

The refinement needs more, because whether a removal or a rename loses the last
whole file depends on the other transfers to the destination. `Covered`: where a
backup is about to be removed, a transferred file is in place or in a backup
that is not. `Single`, for a server whose rename replaces: only the one fault
can have sent a task into the dance with the backup, so it dances alone, and
what its rollback restores is a file that was transferred or the old one. Each
action is then shown to be a step of `FileReplacement` or a stutter under the
mapping `Kept` (`Implements`). The hypothesis `Keeps` excludes two faults on
such a server: there the rollback does lose a file (see Findings).

### LocalVault

What may be lost, `NoSecretLost`, depends on how far the worker has come.
`Goes` says it for each kind of operation: while it copies, the target holds
every saved secret but those still to do; from the switch of `enabled` on it
holds all; the source is touched only after that. `ModeMatches` relates the
running application to the settings and the file, with the exception of a change
of passphrase that has rotated the file and not yet the session (`Rotated`).
`OneOperation` is what the flags are for. `CleanInv`, valid as long as nothing
failed or ended, adds the converse of `Goes`: the target holds nothing but what
was copied, and the place that was left is being emptied.

`Exclusive` is the hypothesis of all three: Android, or one window and nothing
saved while an operation runs. Both exclusions are findings: without them the
properties are false.

### DataDirectory

The disk is `Old`, with everything in the directory of older releases, or
`New`: what `data_location.toml` says is consistent (the active directory is the
source of a copy and the target of a cleanup), the active directory has every
file, and a target that carries the marker of the move has only files of the
source. The last is what makes an interrupted move resumable: a start that finds
the marker takes the target for complete and compares only which files there
are. `Fine` says what each place of a start implies: `Copied`, what the copies
hold so far and that they are complete when the switch is recorded; `Emptied`,
that what is left of a directory being removed is still to go; `Works`, that
whoever runs has all files where the next start will look.

`MovesAreSettled` needs to know where files and markers may *not* be, which
`Inv` does not say once something failed. `Settles` says it as long as nothing
did, for the disk and for each process:

- `Tidy`: without a move only the active directory has files, and no marker; in
  phase "cleanup" only the source and the target have, and no stage; in phase
  "copy" also the stage, and `Begun` says what an interrupted start may have left:
  a target other than the default directory is bare or `Complete`, because the
  stage replaces it in one rename; the default directory is filled entry by
  entry and may be half full; and once the target is complete the stage is empty,
  which is why a later start that goes straight to the switch leaves nothing
  behind.
- `Orderly`: how far the start has come. `Fills`: the target is not complete
  while the stage is made, and the stage covers the source and is marked when
  it takes the target's place; `Sweeps`: what is still to be removed is exactly
  what the directory holds; `Empties`: every entry of the source is in the
  target or in the stage, not in both; `Ends`: the source is bare when the move
  is recorded as done.

A start that nothing fails gives a move up only if the target is gone: `Stands`
says that the target is there unless a start was interrupted (between removing
it and putting the stage in its place), which is why the user's wish is kept
when none was, and why `Recreate` is never reached. The one way back is then
`DropStage`, which finds no marker, and `Forget`.

Both theorems are under `Safe`, which excludes three combinations: two processes
and a move, a failing rename of the older directory and a move, a failing record
of the switch and a save. Each loses files, and TLC shows how (see Findings);
`Safe` holds of every scenario of the run.

## Only model-checked

- Liveness, which is outside what the prover does: `OperationsEnd` (twice),
  `KeepsPolling`, `Converges`, `FollowsSwitch`, `RequestsEnd`, `StopsListening`,
  `TransfersEnd`.
- What the theorems' hypotheses exclude is not open: there the properties fail.

## Findings

1. **A passphrase changed during the first push is not pushed**
   (`engine_passphrase`). `persist_sync_passphrase` clears the baseline to force
   a push; before the first push there is none to clear, the update is a no-op,
   the revision stays, and the push under way records success under the old
   passphrase.
2. **Turning the switch off while it is being turned on** (`autosync_off`).
   Storing "off" over "off" does not advance the revision the task's write is
   conditional on. The `SetEngine` that would follow is not sent either,
   because nothing changed.
3. **A switch of the data directory that could not be recorded is undone later,
   with what was saved since** (`data_directory_switch`). The start that fails to
   write `data_location.toml` goes on in the new directory, since phase and
   directory changed in memory first (`miaominal-paths/src/lib.rs:846-850`), and
   says that only the cleanup is left to do. The next start reads "copy": it
   cannot replace the target, rolls back, and removes the directory because it
   carries the marker of the move.

Seen while modelling, and shown by TLC when `AutoSync_off.cfg` or
`DataDirectory_switch.cfg` is given the instance and the property named here:

- Polling stops after a failed read of the local revision (`KeepsPolling` under
  `OneFault`, with `FairSpec`). The retry leaves phase `RetryBackoff` behind
  (`auto_sync.rs:878`), and ticks skip the poll in that phase (1106), although
  `src/.github/README.md:168` says that "remote updates are checked
  periodically". Any push, command or edit ends it.
- An old configuration replaces a newer one (`Converges` under `SettingAndEdit`,
  with `FairSpec`). `apply_engine` (`auto_sync.rs:722`) does not compare
  revisions: a command sent while a push completes brings back the baseline from
  before it, and an edit back to that content is not pushed.
- Two starts move the same files (`NothingLost` under `Overlap`): `main` moves
  them (211) before it takes the instance lock (251). One finds the target gone,
  as the other is about to rename the stage to it, rolls back, and removes the
  directory the other has switched to, when the old files are gone as well.
- The directory of older releases cannot be renamed, a move from it is chosen,
  and at the next start the rename succeeds (`NothingLost` under `RenameFails`):
  `data_location.toml` names a source that is gone. The move is given up, and the
  start goes on in the recorded active directory, which it creates anew, empty;
  the files are in the default directory.

Seen while modelling, without a document that says otherwise:

- A recheck that fails for the network schedules a poll while a conflict is
  pending, and the poll then runs.
- Locking the vault sends the engine first and the lock second, so the task may
  run one tick in between with the vault already locked for the user.
- Locking while automatic sync is off shows "paused, vault locked".
- Cancelling a check records the cancelled verdict for a Gist as well, and
  drops a pending retry.
- With `"lock"` among the commands of `autosync_live`, `FollowsSwitch` fails the
  way of the old configuration above: locking sends the application's copy, from before it heard
  that the task turned automatic sync on.
- A lost reply to the POST that creates a Gist leads to a second Gist.
- The last of start and stop does not always win in the port-forward manager. A
  `Connected` queued before a stop makes the stopping session `Running` again, so
  a start asks for no restart and the `Closed` that follows ends it. A stop
  between the decision to restart and the restart is lost. A hand-over of the
  catalog while a session is stopping drops the restart that was asked for.
- A bridge request that was cancelled as the vault was unlocked may connect all
  the same: on `secrets_changed` the task goes back to the top of its loop and
  does not look at the events it was sent (`ssh_bridge_service.rs:1169`).
- `publish_running` compares the status and sends it in two steps
  (`ssh_bridge_service.rs:632`): a bridge that failed or stopped in between is
  shown as running.
- An answer to pause that arrives after the end of a transfer leaves its row
  "paused" for good (`sftp/controller.rs:3969`): the rows of events are not
  guarded against going back, those of progress are.
- When the second rename of a replacement fails on a server whose rename
  replaces, the rollback puts the backup over whatever is there by then, which
  may be a file another transfer has just brought (`transfer.rs:946`). It takes
  two faults and two transfers to one destination.
- A secret saved while the vault is being enabled or disabled is written to the
  store that is being left, after it was copied, and deleted with it
  (`settings_service.rs:302`). `.github/README.md:163` says that enabling the
  vault "migrates those credentials". Android does not have the gap.
- Two windows that enable the vault at once each see it disabled; the second
  writes a vault file over the first, from a keyring the first has already
  emptied (`local_vault_root.rs:664`). The flag that refuses a second operation
  belongs to a window.
- A vault file that could not be erased when the vault was disabled is used again
  by the next enable: it needs its old passphrase, and secrets removed since come
  back.
- A change of passphrase that ends after the vault locked itself unlocks it.

## Not modelled, within the modelled parts

Engine: payloads without payload id or content revision (older formats), an
upload answered with an unchanged version, deletion of a Gist, provider
"None", `last_sync_at` (nothing decides on it), the merge of configuration
fields changed in memory and never written. The local stores are one value;
"torn" content stands for a half-applied pull.

Port forwarding: prompts and their answers, the tabs and the commands they keep
(a tab also sends rules to its connection), logs, bound ports, revision numbers,
`replace_secrets`, `stop_all` when the application quits, poisoned locks. The
port of an aborted listener may stay bound for a moment after the abort;
`OneConnection` does not see that.

Bridge: the protocol of the local socket, the bytes relayed, the audit log,
counts, what the prompts say. The connection to the host is one step that may
fail.

Transfers: child rows of a directory, listing and creating directories, symbolic
links, pasting between two servers, speeds. The bytes of a file are `chunks`
steps; a file is whole or it is not.

Vault: keys split over several keyring entries, the key of the chat database,
`reset_local_data`, the cache of decrypted documents and the revocation of a
passphrase in memory, closing a window in the middle of an operation (which
drops the result of its worker). Cryptography is "opens with the passphrase it
was written with".

Data directory: portable and embedded mode, `reset_local_data`, links and
permissions, names (a target inside the source), temporary files of an
interrupted write, the lock file among the files, a start that ends because it
cannot create a directory, saves while the application quits, the protocol by
which a second instance activates the first.

Scheduler: the cleanup file a probe may leave; a change of endpoint or
credentials, which resets the capability verdict; the missing-passphrase check
before enabling; notices, messages and results; `SetSettingsStore`, `Wake` (a
tick), `Shutdown`. A manual operation waits for the process lock; while it
waits it changes nothing, so it is modelled as happening when the lock is free.

## Plan

In this order, the most valuable first:

1. `RuleSession`, an abstract specification of a rule (wanted or not), which the
   port-forward manager implements but for the three races under Findings; the
   prompts.
2. `SyncApply`: snapshot, writes, restore; shown to implement the three
   outcomes `SyncEngine` gives a pull (`PullApply`, `PullApplyFails`,
   `CrashWhileApplying`). `CapabilityProbe`: crash at every step.
3. The abstract specification of synchronisation as one register with
   compare-and-swap per remote, implemented by `SyncEngine` for guarded pushes:
   `PushSafe` and `Answers` are most of its proof.
4. The agent: terminal leases, cancellation and approvals.

Runs of new modules stay under two devices or sessions and one or two faults;
runs that ask the same question of the same instance are merged.
