# Plop in TLA+

Models of [plop](https://github.com/alex-vit/plop), a tray application around the
Syncthing library: what runs concurrently in it, what it keeps on disk and what
other processes do to these files meanwhile. The modules are checked with TLC on
small instances; every safety property they are checked for, and the refinements, are
proved with TLAPS for every value of the constants.

Paths and line numbers refer to the repository's files (`src/...`).

    tlc -config MCStatusService.cfg MCStatusService      # model-check
    tlapm StatusService_proofs.tla                       # check the proofs

A definition whose name ends in `Mut` is a wrong variant of the definition that
follows it (a dropped guard, a missing reset, a swapped order). No specification uses
one: they show that each property would notice such a mistake.

## The system

| Part | Code | State | Operations |
|---|---|---|---|
| Engine | `engine/engine.go` | certificate, Syncthing app, config wrapper, the services below | `New`, `Start`, `Stop`, `Wait` |
| Status service | `engine/status_service.go` | last snapshot, channel of capacity one, stop and done channels | `Start`, `Stop`, `run`, `refresh`, `setSnapshot`, `publish`, `Snapshot` |
| Status heartbeat | `engine/status_file.go`, `cmd_status.go` | `status.json`, its temporary file, the last error | `Start`, `Stop`, `run`, `writeSnapshot`; `plop status` |
| Tray | `tray/status_monitor.go`, `tray/tray.go` | status item, ten peer items, icon | receive a snapshot, show it, leave |
| peers.txt | `engine/peers.go` | a text file that people edit | parse, write, append, ensure |
| Pairing | `cmd_pair.go`, `engine.New` (`--peer`) | none | append an ID that is not listed |
| Peer configuration | `engine/config.go`, `syncPeersConfig` | device list and folder sharing of Syncthing's configuration | `NewConfig`, `AddPeer`, `RemovePeer`, `syncPeersConfig` |
| Watcher | `engine.watchPeers`, `syncPeers` | event channel of capacity one, debounce timer | receive, arm, fire, read, modify, recreate |
| Certificate | `engine/cert.go` | `cert.pem`, `key.pem`: the device ID | load, generate |
| Migration | `migrateFolderName`, `paths/migrate.go`, `SaveConfig` | the names of the sync folder and of the data directory, `config.xml` | look, rename, save |
| Updater | `update_windows.go`, `update_darwin.go`, `update_shared.go` | executable or bundle, `.old`, download | check, download, swap, roll back, clean |
| Command line | `cli.go`, `cmd_*.go`, `main.go` | none | dispatch, print |
| Rest | autostart, icons, redirection, installer, scripts | none that interleaves | |

How they interact:

- `Engine.Start` starts Syncthing, then the status service, the heartbeat writer and
  the watcher, each in a goroutine of its own; `Engine.Stop` stops them in the order
  watcher, writer, service, Syncthing, event logger.
- The status service reads Syncthing on a tick, or when Syncthing's event logger
  announces something, stores the snapshot (read by the writer through `Snapshot()`)
  and publishes it on `Updates()` (read by the tray) if it has changed.
- The writer replaces `status.json` every three seconds; `plop status`, another
  process, believes a file whose snapshot is at most fifteen seconds old.
- `plop pair`, the user's editor, `New` and the watcher all write `peers.txt` without
  a lock. The watcher carries its content into the running configuration.
- Every command renames the data directory first, if it still has its old name; the
  daemon and `plop id` then load the certificate, or generate one if there is none.
- `New` renames the sync folder if it has its old name and saves `config.xml`; `Stop`
  tries the same again. The running Syncthing saves its own copy of the configuration
  to `config.xml` whenever it has been modified.
- The updater replaces the executable or bundle of the running process for the next
  launch. Several instances (with different `--home`) update from the same files.

What is hard: the reader of `Updates()` is free to receive between any two selects of
`publish`; Syncthing changes while a snapshot of it is read; a debounced goroutine is
not stopped by stopping its timer; events are dropped when a channel is full; processes
are killed between two renames; several processes share files without locks. The list
`hazards` of `PROJECT.json` has each of these at its line.

What makes each part correct:

- status service: one run at a time, nothing left after `Stop`, no lost update,
  growing `UpdatedAt`, the stored snapshot never behind the published one;
- tray: what it shows belongs together, and ends up being the truth;
- heartbeat: whole, recent, gone after `Stop`, nothing left beside it, failures logged
  but not at every tick, retried;
- `peers.txt`: parsed as documented; a paired peer stays listed; nothing saved is lost;
- configuration: exactly the peers of the file, in both lists; names applied; stable;
- watcher: no edit goes unnoticed; a deleted file comes back; no sync after the end;
- certificate: the ID that peers have been given stays the device's;
- migration: the folder that is synced is the user's, never an empty one beside it (which
  would look like every file deleted); `config.xml` can always be read;
- updater: something to launch at all times, whole, and never older than before.

## The modules

### Status: Mailbox, StatusService, StatusDisplay, StatusHeartbeat

`Mailbox` is the abstract specification of `Updates()`: a box for one snapshot, replaced
in a single step, each with a later `UpdatedAt`.

`StatusService` is the goroutine. Its state is that of `statusService` (`running`,
`stopCh`, `doneCh`, `snapshot`, `published`, `updates`), one program counter per run
goroutine and one for the caller of `Stop`. `Stop` is three steps (forget the channels
under the lock, close, wait), `publish` is three steps, one per select, and the two
deferred calls of `run` are two. What `computeSnapshot` reads is left open: any compared
part, any `NeedPaths`, any reading of the clock.

`StatusDisplay` opens `computeSnapshot`: each call into Syncthing is a step, and every
part of Syncthing's state may change between two of them. It ends with the tray's items.
It takes `publish` as the single step that `StatusService` shows it to be. A row is put
where it belongs when it has been read (`Inserted`), instead of sorting all of them in the
end: nobody looks at the snapshot in between. `Ranked` is the order stated independently.

`StatusHeartbeat` has the writer's calls (create the temporary file, fill it, rename),
each of which may fail, the deferred removal of the temporary file, which may fail, too
(`unremoved`), and the life of the process: launched, stopped, killed anywhere, launched
again beside the files of the last one. Time is kept as ages. An error is its text: the
call, the cause and, from `os.CreateTemp` on, the random name of the temporary file, which
is another one at each write. The writer compares texts, and so do `LogSaysOnce`, which
holds, and `FirstFailureOnly`, which does not.

### Peers: PeersText, PairCommand, PeerConfig, PeerWatch, PeersEndToEnd

`PeersText` is the file format: a file is a sequence of lines of five kinds and whether
the last one is ended; the parser is the fold of the scanner's loop. `PairCommand` adds
the processes that read and write the file: `plop pair`, a starting daemon (`--peer`
flags, then the template), the user. Looking, opening and writing are steps of their own.
A write to a file opened with `O_APPEND` goes to the end of what the file is by then; that
of the template goes to the beginning, over what has been appended since `os.WriteFile`
emptied the file (`Overlaid`). The user saves in place or by renaming a new file over
`peers.txt`; a process that has opened the old one (`unlinked`) then writes where nobody
looks. The commands take a file they cannot read for an empty one, and so do `Pair` and
`StartDaemon`.

`PeerConfig` has the algorithms that make the configuration agree with the file, on
sequences, as the loops of the code work on slices. `Prepared` is what Syncthing does to a
configuration it loads or modifies (external).

`PeerWatch` is the path of an edit: the file system's report, notify's offer to the
channel, the timer, the goroutine of `syncPeers` with its reading, `Modify`, `Stat` and
recreation. `PeersEndToEnd` extends it by `plop pair` commands of other processes, which
look for the ID and append it later. There a file is the set of peers it lists.

The path is not safe in every interleaving. What goes wrong is recorded in a variable
`upset` that nothing reads: an ID glued to an unended line, overwritten by the template or
written to an unlinked file (`PairCommand`); a failing reading in `New`, which ignores the error and removes every
peer, a watch that cannot be set up, a change before it, an event that finds the channel
full with one of another file, a reading taken while an older one is yet to be applied, a
failing call of a sync (`PeerWatch`). `OnlyAccidents` says that nothing else does harm;
the violation runs state what the documents promise without that condition. A second
history variable, `clobbered`, is set when the daemon recreates a deleted file over one
that a command or the user has created since it looked.

### Disk: FolderMigration, Identity

`FolderMigration` is `New` and `Stop` as the disk sees them: each reading, renaming and
writing is a step of its own, any process may be killed in between, and two may share the
home. `fold` is a file system that takes `plop` and `Plop` for one name (macOS, Windows).
A directory is the user's (`ours`), an empty one of `New`'s making (`bare`) or a foreign
one. `path` is the folder of `New`'s `cfg`, `wrapped` that of the wrapper's copy, which
differ from each other and from `config.xml` at times.

`Identity` is what every command does before anything else: rename the data directory,
load or generate the pair of files. Each command is a process of its own; an ID stands for
a certificate and its key.

Both have an `upset`, too. `FolderMigration`: killed while writing `config.xml`, two
writing it at once, a file or folder that is there but cannot be opened, a folder that has
been taken away, one process renaming the folder under another. `Identity`: killed while
generating, a call of `NewCertificate` that fails half-way, a certificate or key that
cannot be read, two commands at once, `plop init` in a directory in use, a directory that
could not be renamed, a key deleted by the user.

### Update: Release, Update, UpdateWindows, UpdateMac

`Release` compares versions. `Update` is what both updaters promise: the installed
release is replaced in one step by a complete, later one. Neither platform has such a
step; each renames twice and rolls back on failure. The refinement mapping takes the
`.old` file for the installed one as long as there is no other, and `void` is the history
variable that says that instances have got in each other's way.

`UpdateWindows` has three files and any number of instances, each somewhere in
`autoUpdate`. Windows keeps the image of a running process from being removed or replaced
(but not from being renamed) and a file that is open for writing from being removed or
renamed (but not from being truncated); these rules are external, and they carry most of
the safety. `trampled` records that an instance has begun its download over one that
another was writing or about to install. `Launchable` and `OldKept` do not depend on it.

`UpdateMac` has no such locks. What protects the bundle is that the archive has checksums,
that each instance extracts it to a directory of its own, and that a directory is not
renamed onto another one. `InstalledWhole` therefore holds though instances share the
archive; the refinement holds as long as none shares it, replaces a bundle other than its
own or removes the only one there is.

In both, calls may fail, processes are killed anywhere, and the latest release may change
either way.

## The runs

| Run | What it shows | Bounds |
|---|---|---|
| `status_service` | No update is lost, `UpdatedAt` grows for the reader, `Stop` leaves nothing, the channel implements `Mailbox` | 2 starts, `UpdatedAt` to 3 with 3 clock readings |
| `status_display` | Status item and peer items agree, an uninterrupted refresh is exact, the tray ends up right | 2 peers, 2 changes |
| `status_heartbeat` | `status.json` is whole, recent, gone after `Stop`; litter only from a kill or a failed removal; the log says how the last write ended, no line twice in a row; the writer retries | `MaxAge` 2, 2 causes, 2 temporary names |
| `pair_command` | The parser is as documented; from no file on, whatever is edited or deleted, a paired peer is listed but for the three accidents, and no entry disturbed by an append | 2 processes (symmetric), 2 lines before a new command |
| `peer_config` | Exactly the desired peers, idempotent, names applied | 2 other devices, 3 names, 2 entries |
| `peers_end_to_end` | No change of `peers.txt` goes unnoticed but by the six accidents; without them live reload, a deleted file comes back and a paired peer ends up in the configuration; no sync starts after the watcher's end | 2 peers, 2 syncs at a time, 1 edit, 2 commands |
| `folder_migration` | No start makes an empty folder beside the user's, `config.xml` is whole, but for named accidents | 2 processes |
| `identity` | An ID that has been shown stays, whatever is killed, fails or cannot be read; no start is refused but for a file that cannot be read or one broken by a kill, a failed write or a race | 2 processes, 3 IDs, symmetric in both |
| `update_windows` | Something to launch, the old executable kept, one step to a later release unless trampled on | 2 instances, 4 releases |
| `update_mac` | Something to launch, whole, one step to a later release unless instances get in each other's way | 2 instances, 3 releases |

Runs that end in a violation show where the code does not do what its documents say:

| Run | What happens |
|---|---|
| `pair_unended` | The ID is glued to a last line that has no newline: "Paired with", but not listed. `UnendedIsListed` excludes the other accidents |
| `heartbeat_flood` | The same call fails for the same cause at two writes, and both failures are logged, as their texts name different temporary files; `notes/2026-02-26-internal-status-architecture.md` promises the first only |

Other divergences appear in the models as accidents or are left as the code has them, and
have no run of their own:

- The first peer appended to a fresh template is named after the template's example
  comment, as the parser takes a comment line for the name of the ID below it.
- A name deleted from `peers.txt` stays in the configuration; `NamesApplied` is about
  names the file gives.
- The live reload (`notes/2026-02-26-peer-status-menu.md:55`) misses an edit between `New`'s
  reading and the watcher's `Add` (`engine.go:328`): it waits for the next event of the
  file (`early` of `PeerWatch`; `unread` is `New`'s ignored error, `engine.go:79`).
- `Stop` waits neither for the watcher nor for a sync under way. `NoSyncAfterExit` is about
  syncs that start, not about one that modifies a configuration being torn down.
- "If anything goes wrong the old path is kept" (`paths/migrate.go:14`): if the rename of
  the data directory fails, the new path is used all the same, with a new certificate in
  it (`stranded` of `Identity`).
- `New` creates the sync folder and its `.stfolder` at every start, which defeats
  Syncthing's check for a disk that is not mounted (`away` and `unread` of
  `FolderMigration`).
- Recreating a deleted `peers.txt` may overwrite what is saved between `Stat` and
  `WriteFile` (`clobbered`). `LiveReload` holds nevertheless, as the empty file is synced
  like any other edit.
- On Windows an instance truncates the download that another one installs (`trampled`).

Why the bounds are enough. Two runs of the status service are what it takes for an old
one to meet a new one; four values of `UpdatedAt` give a snapshot in the reader, one in
the channel, one thrown out of it and one being published; fewer clock readings than
stamps force ties and steps back. Two changes of Syncthing put one before and one after
any read, and two peers can be connected, sorted and counted differently. `MaxAge` 2
tells fresh, older and stale apart, two causes tell a repeated one from a new one, and two
temporary names are enough where only the last failure's is compared. A file of two lines
holds a comment and an ID or two IDs, and grows by an append of each process (with three,
`pair_command` has 384109 states and takes twice as long, and holds as well). Two entries of
`peers.txt` can be equal, differ in name only, or include the own ID. One edit and two
commands are three changes of the file: before, during and after a sync, or a deletion
with two commands writing a new file beside the daemon; two syncs are enough to overlap.
Two edits and one command hold as well. Two processes on one home, like two instances of
the updater, meet in every pair of places; three IDs are the device's own and one that
each command generates. Three releases, numbered so that text and number order
differ, allow one to be overtaken; on Windows it takes a fourth for an instance to find a
release in place that is newer than the one it has downloaded, and macOS has been checked
with four as well.

Deadlock is checked everywhere but in the update runs: there all instances may be down
with nothing left to launch, which `Launchable` describes. `StatusService` and
`PeerWatch` have a `Rest` step for a service that stays stopped.

## Fairness

- `StatusDisplay`: weak fairness of the refresh goroutine (the ticker ticks, no read
  blocks for ever) and of the tray goroutine. Nothing is assumed of Syncthing, which may
  stay as it is or go on changing up to the bound.
- `StatusHeartbeat`: weak fairness of the writer's tick and calls. That calls succeed is
  not assumed, nor that the service refreshes, nor that `Stop` is called; hence
  `KeepsRetrying` is about attempts.
- `PeerWatch` and `PeersEndToEnd`: weak fairness of the watcher's goroutine, of notify's
  delivery and of each sync. A timer is armed for 500 ms and goes off unless it is stopped
  first; edits and commands are bounded, so that it does. A `plop pair` command has no
  fairness: it may be killed before it appends.

Goroutines are scheduled by the Go runtime, timers and tickers by its clock: each enabled
step of these is taken in the end. User, other processes and crashes have no fairness. The
updaters, `Identity` and `FolderMigration` state none: nothing is promised of a process
that may be killed at any step.

## The proofs

| Theorem | Says |
|---|---|
| `StatusService_proofs!Invariance` | `IInv` is inductive |
| `...!TypeCorrect`, `SingleRun`, `LatestDelivered`, `StoreBeforePublish`, `StopReleases`, `OrderedDelivery` | `TypeOK`, `OneRun`, `NoLostUpdate`, `NeverAhead`, `StoppedMeansReleased`, `DeliveredInOrder` |
| `...!Refinement` | `StatusService` implements `Mailbox` |
| `StatusViews_proofs!Invariance`, `ReadsWhole`, `GoneAfterStop`, `RecentlyComputed` | `IInv`, `NeverHalf`, `StoppedMeansGone`, `BelievedIsRecent` of the heartbeat |
| `...!WritesTidyUp`, `LastLineTells` | `NoLitter`, `LogSaysOnce`, for any causes and any temporary names |
| `...!DisplayInvariance`, `CountsMatchRowsAlways`, `UntornAlways` | `DisplayInv`, `CountsMatchRows`, `Untorn` of the display, for any number of peers and of changes between any two reads |
| `Peers_proofs!ParsedIsDocumented` | whatever the lines of a file, the parser finds what is documented: an entry for each ID line, in order, named on the line or by the comment right above it |
| `...!PairInvariance`, `ParsesAsDocumentedAlways`, `OnlyAccidentsAlways`, `AppendKeepsEntriesAlways` | `PairInv`, `ParsesAsDocumented`, `OnlyAccidents`, `AppendKeepsEntries`, for any number of processes and files of any length |
| `...!SyncIs` | what one reconciliation makes of any configuration and any list of entries |
| `...!ConfigInvariance`, `ExactlyDesiredAlways`, `IdempotentAlways`, `NamesAppliedAlways` | `ConfigInv`, `ExactlyDesired`, `Idempotent`, `NamesApplied`, for any set of IDs and names and any length of peers.txt |
| `PeersEndToEnd_proofs!TypeCorrect`, `SyncsEnd` | `TypeOK`, `NoSyncAfterExit` of the watcher alone, whatever disturbs it |
| `...!Invariance`, `NoEditUnnoticed` | `IInv` and `OnlyAccidents` of the watcher alone, for any number of syncs at a time |
| `...!PairInvariance`, `NoAppendUnnoticed`, `PairSyncsEnd` | the same three with any number of `plop pair` commands beside it |
| `...!StaysListed` | `PairedListed` |
| `FolderMigration_proofs!Invariance`, `NoEmptyFolder`, `NoTornConfig` | `IInv`, `NeverBeside`, `ConfigWhole`, for any number of processes |
| `Identity_proofs!Invariance`, `IdentityStays`, `RefusedOnlyBroken` | `IInv`, `IdentityKept`, `NeverRefused`, for any number of commands and IDs |
| `UpdateWindows_proofs!NewerIsLater` (and `UpdateMac_proofs`) | what `isNewer` accepts came out later |
| `UpdateWindows_proofs!Invariance`, `SomethingToLaunch`, `NothingLost`, `Refinement` | `IInv`, `Launchable`, `OldKept`, `ImplementsUpdate`, for any number of instances and releases |
| `UpdateMac_proofs!Invariance`, `SomethingToLaunch`, `InstalledIsWhole`, `Refinement` | `IInv`, `Launchable`, `InstalledWhole`, `ImplementsUpdate`, likewise |

They assume the named assumptions on the constants only: sizes are natural numbers, the
bounds of time, runs and edits are arbitrary, special values are or are not members of a
set. `OrderAssumption` says that releases are numbered in the order in which they come
out; it is what "newer" means, and the code has no other notion of it. `FilesAssumption`
says that what an editor leaves is a text file, `SelfAssumption` that the own ID is one of
the IDs, `DisplayAssumption` that peers are numbered in the order of their labels.

The arguments:

- Status service. `OneRun` is not inductive: that an old run is over when a new one is
  spawned follows from where the caller of `Stop` is. `Handshake` ties the newest run's
  place to the caller's, and says that every older run is done. `InFlight` orders all
  snapshots there are: shown before the one in the channel, that one not after the stored
  one, and a publishing run publishes the stored one while all others are older. With both,
  each select of `publish` keeps `NoLostUpdate`. For the refinement, the box of `Mailbox` is
  the channel, except between the second and the third select, where it is what the second
  select took out: the third select is the `Put`.
- Heartbeat. `BelievedIsRecent` needs an order of ages: the file and the temporary file
  are no younger than the snapshot, and the snapshot no younger than the daemon
  (`Ordered`). `StoppedMeansGone` needs that the writer is through before the removal
  (`Through`). `NoLitter` is inductive as it stands, `LogSaysOnce` together with `IInv`: a
  line is another one than the last because the last one tells the last failure, and a
  failure whose text is the same is not logged.
- Display. `Untorn` and `CountsMatchRows` speak of the end of a refresh; `DisplayInv`
  follows it there. `Reads`: the rows read so far are in order, one for each peer that is
  no longer to be read (`InsertedIs` shows that a row put in its place keeps that). `Fresh`:
  as long as `since = changes`, every part read so far is what Syncthing would answer now,
  and each device is in the rows, half read, or still to be read; so at the end the rows are
  those of all devices in their order (`RanksAre`). `Shown`: every snapshot that waits or is
  shown counts its own rows, whatever moments they come from.
- Lines and entries. The parser, the filter `Without` and the loops over slices are folds.
  The library defines a fold by recursion over sets of positions; `FoldExists` shows that
  this recursion has a solution, which makes the fold the last value of a function that
  gives the value after each element. A statement about all these values is proved by
  `BoundedInduction`, where it is given as the set of the lengths it holds for. Thus
  `ParseRuns` says what the scanner has after each line (the entries so far, and the comment
  that would name the next ID), `WithoutRuns`, `AddRuns` and `RemoveRuns` what the loops over
  devices have after each element. `AppendToFile` is what makes the append safe: behind an
  ended line it adds one entry and leaves the others. `PairInv` needs only the types,
  that who is about to append has something left, and that a file that is open and has not
  been unlinked is there (`HasWork`).
- Configuration. `ExactlyDesired` alone does not make `Idempotent` hold: the second
  reconciliation would change a name if the first had not applied it. `NamesAgree` in
  `ConfigInv` says that it has, for the entry that counts if peers.txt lists an ID twice.
  Only `Prepared` stands between two reconciliations, and it leaves IDs, shares and names as
  they are (`PreparedInv`).
- Watcher and commands. `Caught` follows a sync through its stages: what it has read is
  still what the file lists, or the change is announced and there will be another sync. It
  is claimed only as long as `upset` is empty: each accident is the step that breaks it.
  `Quiet` says that nothing happens before the watch and that no timer is armed behind it,
  from which `NoSyncAfterExit` follows. A command's append leaves the trace an edit does,
  and no other step of a command touches the watcher, so `IInv` carries over.
- Migration. That `New` may create the folder it names (`Safe`) is not kept by a rename of
  another process: who has read the old name may still follow it. `Leads` is weaker, and
  holds of `config.xml` and every copy of it: the name is safe, or migrating it ends at
  the user's folder. A process has a `Safe` name from the moment it has migrated.
- Identity. Each part is claimed as long as no accident that breaks it has happened:
  `Alone` (who generates a pair is alone with the files), `Whole` (files nobody is writing
  match, unless a generation was cut short or a call of it failed), `Known` (who generates a
  pair has found none, and nobody has been shown an ID; a kill, a failing call or an
  unreadable file does not change that).
- Updates. On Windows `InUse` says that the file a process runs from is there, which lets
  the file locks speak; from it, `OneSwap`: two instances are never between their renames
  at once, so `Launchable` and `OldKept` hold whatever else goes wrong. `Onward` (an
  instance is after a later release than its own) and, unless trampled, `Apart` (what is
  about to be installed is whole and its own) make the second rename an `Upgrade`. On macOS
  `Whole` takes the place of the locks, `Apart` that of `OneSwap`.

Every inductive invariant has been checked by TLC before it was proved, four of them in the
runs (`status_service`, `status_heartbeat`, `peers_end_to_end`, `folder_migration`); those
of `PeerConfig` and `StatusDisplay` were checked under the constants of their runs.

Model-checked only: liveness (`EndsUpRight`, `KeepsRetrying`, `LiveReload`, `Recreated`,
`PairedReaches`), since TLAPS does not reason about fairness. The two violation runs are
counterexamples, which need no proof.

## Not modelled

- Syncthing itself (external); the models have the values it returns, its events and
  what it does to a configuration.
- Icons, autostart, menu actions, log redirection, printing, arguments, installer and
  scripts: no state that interleaves with anything. Updates on Linux: two empty functions.
- A wall clock that is set back: `plop status` would believe a dead heartbeat until the
  clock has caught up.
- The GUI address (a free port, picked once), the API key and `.stignore` (written once),
  the `config.xml` that `plop init` writes, and `WritePeersFile`, which only tests call.
- The entries of an update archive: an archive is whole or not.
- The four retries of `RobustRename` on Windows: one attempt that fails or does not. A
  retry differs from a later attempt only in its time.

## The plan

Done, in the order of importance: the status service with its abstract specification,
peers.txt and pairing, the configuration, the watcher with the commands beside it, the
display, the heartbeat, the folder migration, the certificate, the updaters with their
abstract specification; proofs of every safety property that a run checks.

Next:

1. `EngineLifecycle`: `New` step by step with every early return (what is left running or
   on disk when it fails), `Start`, and the order of `Stop`; composed with `StatusService`
   and `PeerWatch` for the guarantees they get from that order.
2. The GUI address: a port that was free when it was picked may be taken at the next start.
