# Laputa in TLA+

Laputa is a small Linux distribution for aarch64 and x86_64: a package manager,
an init and supervisor, a seat broker, privilege and device daemons, signed
trust and package updates, and a host-side launcher that boots generations of
the system and falls back when one does not come up. Most of it is written in
XSH scripts, the daemons in Rust. This directory holds TLA+ models of the parts
whose correctness depends on the order of steps (crashes, power cuts, races,
restarts, stale messages), the TLC configurations that check them, and TLAPS
proofs of what matters most.

The C and header files of the repository are, but for the small programs listed under
Not modelled, generated or third-party sources kept under `packages/` for package builds
(kernel tables, parsers produced by bison and flex, patches). They are data to the
recipes and are not modelled; the maps in `PROJECT.json` point into the `.xsh`
and `.rs` files, which hold the program's own logic.

## Inventory

| Part | State it keeps | Operations | What is hard | What makes it correct |
|------|----------------|------------|--------------|-----------------------|
| Activation (`system/activation.xsh`, `system/launcher.xsh`) | `activation.json`, `activation.next`, `images/<id>`, the writer lock | publish, install, update policy, stage, select, confirm, fail, collect | a kill or a power cut between any two file operations; late guest reports; publication outside the lock | the record is always readable, boots are counted durably, only pinned generations boot, the fallback is kept |
| xinit service scanner (`xinit/xinit.xsh`, `scan_units`) | unit table, desired states, readiness, backoff, request inbox, status files | reconcile, child exits, kill and stop, requests, readiness | exits racing requests, gates read from a snapshot of the pass, backoff at its cap | a running unit is wanted, a gated unit starts only after its needs, no exit is lost, backoff is bounded |
| xinit commands (`xinit/xinit.xsh`, start, stop, restart, boot) | status files, scanner marker, inbox | start a plan, stop, restart, boot, post a request | marker and status files read before they are acted on, pids used again | one instance per service, a stop ends what it names and nothing else |
| xinit inittab engine (`run_pid1`) | entries and their processes | boot phases, spawn, reap, respawn, shut down | reaping while spawning, pids used again, shutdown during boot | no entry runs twice, no foreign group is signalled, nothing that could be stopped is left when the system goes down |
| seatd-rs sessions (`session.rs`, `device.rs`, `vt.rs`, `effect.rs`, `loop.rs`) | seat, clients, devices, the terminals | connect, open, switch, acknowledge, open and close devices, disconnect, VT signals | switches crossing acknowledgements and hang-ups; failing revokes and ioctls | one holder, no assertion fires, authority over devices follows the seat |
| seatd-rs socket (`main.rs`, `admit.rs`, `shutdown.rs`) | the socket path and the startup lock | start, probe, reclaim, bind, shut down | several daemons starting, being killed and shutting down around one path | no start takes the path from a live daemon, a dead one's path can be had |
| Trust store (`trust/store.xsh`, `trust/update.xsh`) | generations, active link, journal, accepted mark, time floor | seed, stage, commit, activate, persist, recover | a crash between any two writes, clocks set wrong | clients read a whole release, nothing rolls back, a killed update can be repeated |
| pm builds and store (`pm/execute.xsh`, `pm/store.xsh`) | scheduler state, store directories, locks | schedule, build, commit, collect garbage | two builders of one key, kills between the writes, collections | a stored artifact is whole and of one build, a node starts after its dependencies, at most `jobs` run |
| pm publication and snapshots (`pm/repo.xsh`, `pm/remote.xsh`, `pm/repo_snapshot.xsh`, `mirror/src/packages.rs`) | objects and index on the mirror, snapshots, the accepted floor | upload, index, sign, publish, verify, plan, persist | publishers and clients at once, interrupted uploads, expired snapshots | rows have their objects, nothing goes back, the floor covers every plan |
| xinfra locks (`xinfra/lib/xinfra/lock.xsh`, `driver.xsh`, `cli.xsh`) | a lock directory with an owner record on each host | acquire, reclaim, apply, release, force | killed runs, lost sessions, reboots, users with locks of their own | of the runs that share a lock one applies to a host, locks do not stay |
| mdevd-rs (daemon and `mdevd-coldplug`) | device nodes, rules, sockets | handle an event, reload, coldplug | sockets that overrun, events that look alike, junk, reloads | a helper that ends well has had every device handled, losses are noticed |
| pm generations and roots, pm planning, doas-rs, tinyland, installer, images, QEMU control, ntpd-rs, recipes | | | | not modelled, see below |

Parts interact mainly through files: the scanner and the xinit commands through
request, status, marker and readiness files, activation through its record and
bundles, trust and package updates through links and files that are replaced by
rename. The launcher reads what activation decides; guests report health to the
host, which confirms through activation; xinit runs the daemons (seatd, mdevd)
and reaps them; PID 1 spawns the scanner as one of its entries.

## Modules

| Module | Models | Instance, proofs |
|--------|--------|------------------|
| `Activation` | `system/activation.xsh` and `launcher_select` | `MCActivation`, `ActivationProofs` |
| `Scanner` | the scan loop of `xinit/xinit.xsh` with its clients, children and clock | `MCScanner`, `ScannerProofs` |
| `Seat` | what a seat promises its sessions: an abstract specification | |
| `Seatd` | the session machine of seatd-rs with devices and terminals; implements `Seat` | `MCSeatd`, `SeatdProofs` |
| `SeatSocket` | how seatd processes get the socket path and give it back | `MCSeatSocket`, `SeatdProofs` |
| `Trust` | journalled trust updates and their recovery | `MCTrust`, `ActivationProofs` |
| `Inittab` | PID 1 on an inittab | `MCInittab`, `InittabProofs` |
| `Control` | `xinit start`, `stop`, `restart` and `boot`, beside a scanner or without | `MCControl`, `InittabProofs` |
| `Builds` | the build scheduler, its children, the store and its garbage collection | `MCBuilds`, `BuildsProofs` |
| `Repository` | publishers, the mirror, the signer and the machines that plan | `MCRepository`, `RepositoryProofs` |
| `ApplyLock` | the host locks of `xinfra apply` | `MCApplyLock`, `ApplyLockProofs` |
| `Hotplug` | mdevd, its netlink socket and the coldplug helper | `MCHotplug`, `HotplugProofs` |

`Control` contains what the commands see of a scanner; `Repository` composes the
publisher, the mirror and the client; `Hotplug` the daemon and the helper. The other
parts meet only through data that is not modelled on both sides.

**Circumstances.** A real system is exposed to different things at different times:
one builder or two, kills or power cuts, a scanner that is there or comes up. Most
modules therefore have a constant `Worlds` and a variable `world` that is chosen in
the initial state and never changes (in `SeatSocket` it is `strict`, in `Control`
`setting`). One run covers all
circumstances listed in its MC module. A property that does not hold in some of
them begins with what it excludes, and its comment says why; these exclusions are
the section Observations below.

### Activation

One action per exported procedure: `activation_install`,
`activation_update_policy`, `activation_stage`, `activation_confirm_health`,
`activation_confirm_guest_health`, `activation_boot_failed`,
`activation_collect_images`. `activation_select_image` (and
`activation_begin_boot`, the same decision without the image) is split by its
branches: `SelectCurrent` writes nothing, `SelectPending` counts an attempt or
falls back, `SelectRefused` closes the health window. Each of them takes the
lock, reads, decides, and leaves in `operation` the record to write;
`WriteCreate`, `WriteFill`, `WriteRename`, `WriteFsync` are `activation_write`.
`WriteFsync` is also the return to the caller: the policy is acknowledged and
the launcher starts its guest. `PublishRename`/`PublishFsync` are the two
visible steps of `activation_publish_image`, which holds no lock.

The disk is modelled by what a reader sees (`record`, `images`) and by the set
of contents a power cut may leave (`recordOnDisk`, `imagesOnDisk`): a rename
adds to the set, an fsync of the directory reduces it to one element.
`Kill` (process death or a failed step after the rename), `WriteFails` (the
`errdefer` path), `PublisherDies`, `PowerCut` and `Damage` are the failures.

`guests`, `healthy`, `ackedRevision` and `lost` are history: every boot
started, every receipt installed or reported healthy, the newest policy
revision a caller was told of, and the ids of bundles that unsynced steps can
cost (a publication not fsynced before a power cut, or a bundle collected while
two replacements of the record were both still unsynced).

### Scanner

`scan_units` is one loop, and the control state `pc` says where it is:

| `pc` | Code | Actions |
|------|------|---------|
| `top`, `drain`, `grace`, `remove` | `drain_inbox`, `apply_one`, `kill_unit` | `DrainInbox` lists the inbox, `ApplyOne` reads and applies a request up to the first call that blocks, `StopUnit` is what follows the grace period, `RemoveRequest` deletes the file |
| `reconcile` | `reconcile_all`, `reconcile_one` | `ReconcileAll` takes the snapshot; `ReconcileOne` is one unit: readiness, spawn of a longrun, run of a oneshot, or nothing; `EndPass` returns or computes `next_wait_ms` |
| `wait`, `reap` | `unix.wait_pid1_event` and the branches on its result, `reconcile_child_exits` | `WaitTimeout`, `WaitHup`, `WaitChildren`, `WaitTerm`; `ReconcileChildExit` is a round for a unit's own child, `IgnoreChildExit` one for any other |
| `shutdown` | `shutdown_all`, `shutdown_process_groups` | `ShutdownOne`, `CleanupGroups` |
| `done`, `failed` | return, or an error that leaves `scan_units` | `Returned`; `Abort` |

The scanner is single threaded; what interleaves with it are the clients
(`RequestDesired`, which replaces the request file), the children (`Exit`,
`Fork`, `TailExit`: a process group is a leader and perhaps descendants), the
signals (`SendTerm`, `WaitHup`) and the clock (`Tick`). Steps of the scanner that
touch nothing the others can touch are merged; it is split wherever it blocks
or reads and later deletes. Processes and the `unix.*` calls are external
to the script and are modelled from how it uses them: a wait returns any
non-empty set of exited children, and a group cleanup may reap others too.

The clock is a countdown: `due` is `next_ms` minus now, `age` the time since
the start. `sleep` is what is left of the wait. `owed` is history: starts minus
runs of `finish()`. Exit codes, which matter only to `mark_unit_dead`, are
chosen when the child is handled.

`Abort` is every error that leaves `scan_units`: a request that cannot be read or
removed, a failing hook or spawn, a group that survives its cleanup. The scanner
starts without status files or processes of an earlier one; what a killed scanner leaves
is the subject of `Control`.

### Seat and Seatd

The daemon has one thread, so a handler is one action. Operators take the state
before a call to the state after it (`Now`, then `Becomes`), in the order of the
code: what `session.rs` does on open, switch, acknowledgement and removal, the
devices it activates and deactivates, the terminal it sets up. The kernel's side
is `tty` (foreground terminal, a switch that waits for the release, signals) and
`auth` (who holds an unrevoked descriptor or is DRM master); it is external.
Peers send any request at any time, hang up or stop reading; ioctls, opens and
revokes fail as `world.faults` says. `leaked` and `told` are history.

`Seat` says what sessions may rely on: one holder at a time; a holder that is
still connected loses the seat only after it was asked and answered; only a
member holds it. `Seatd!Broker` is the refinement mapping: the members are
`seat.clients`, the holder `active_client`, `asked` is that the holder is
`PendingDisable`, and `answer` is the client whose DISABLE_SEAT the daemon handled in
the last step (`answered`, which only `HandleDisableSeat` sets). `Seat` lets anyone
answer at any time, but passes the seat of a connected holder only in a step with that
holder's own answer to a request.

### SeatSocket

Every system call on the path is a step: the look before the lock, `probe_live`, the
unlink, the lock file, bind, the second probe under the lock, chmod and listen, and in
shutdown the comparison and the unlink. `strict` are processes with `-z`.

### Trust

`mem` is the store as processes see it, `disk` what was last synced, `sync` the
directories an update is about to fsync. `run.todo` is the list of writes that are
left, so that a kill or a power failure can fall between any two. `Begin` starts
an update (or refuses), recovery and reconciliation come first as in the code.
After a power failure each directory falls back or keeps what was written. A staging
directory is removed in one step, although the removal is recursive: an update removes
one that its journal no longer names, so a kill inside it leaves a directory nobody looks
at; a recovery that is killed inside it is the second crash, which `Recoverable` and
`Converges` leave out. The module shares its proof module with `Activation`, hence names such as `TrustSpec`, `GiveUp` (the
`fail` of the code), `KillUpdate` and `PowerFails`.

### Inittab

`run_pid1` as control states: the phases, the pass that spawns, the blocking wait, the
marking of children, the way down, finalize. Children exit, orphans are adopted,
pids are used again as soon as they are reaped. `tails` are the groups in which descendants
of a leader run; they may outlive it. `ShutdownRuntime` signals the groups of the pids
the entries still name: a leader that was marked dead takes its descendants out of it, and in
a world with `stuck` processes any of those signalled may survive the KILL, since
what `shutdown_process_groups` returns is not looked at. `DownClean` says what is left of
"after owned process groups stop".

### Control

A command looks for the scanner marker, then either posts a request or acts. A direct stop
looks for running dependents (`Dependents`), reads the status (`Read`), sends TERM,
waits, sends KILL to the pid it has read, and writes the status; a start reads the
status, spawns, and writes it. Each of those is a step, so that processes, the scanner
and other commands come in between. A process is identified by its start time (`born`). A
command reads the start time of its child after the spawn and writes it into the status
file (`cmd[c].start`); the scanner writes none. `cmd[c].seen` is history: how many
processes had been started when the stop read the file.

The scanner's start of a service is three steps: `ScannerSpawn`, then `ScannerFile` writes
`starting` for a service that announces its readiness (`Notify`) and later `running`, or
`running` at once. `start_one_service` spares only `running`, so what a scanner leaves that
is killed in between ("killStarting") gets a second instance, and `Lone` leaves that out
of `OneInstance`, along with commands at once, a scanner that comes up, and a boot beside
one. A signal that hits a scanner whose pid was used again takes the scanner's units with
it (`UnitsWithout`), although its children and files stay.

`SignalsSpare` looks at the TERM and at the KILL: with a start time in the file they hit a
process of the service or one that was started after the file was read. `StopEnds` is the
other side: when a stop that runs alone writes `down`, no instance is left. The module
shares its proof module with `Inittab`; its process table is `table` and its pids
`PidSpace`.

### Builds

A scheduler keeps pending and waiting nodes as the code does, starts up to `Jobs`
children and handles their ends; a child takes the lock of its node, stages payload and
receipt in a temporary directory and renames it, or fails at one of these and removes
the directory (`StageFails`). An artifact is whole if payload
and receipt are of one build. Kills of children, schedulers and collections and a
power loss (what is `unsynced` may be lost) are the failures. A collection starts only
when no build and no child of one runs (`Quiet`), which is how the Makefile documents it
(`Makefile:177-179`, "Run it between builds, never during one"); a child that
outlives its killed scheduler counts as a build.

### Repository

`repo publish` uploads the objects of its packages one by one and then puts the index with
their rows; a row is replaced by a newer version or by a rebuild of the same one under
another key. `publish-snapshot` reads the index, fetches the published snapshot and
compares generations, puts the copy of the index under its digest, then `snapshot.json`,
then `snapshot.sig`. Every put is a step. `Prior` is the fetch; `MissPrior` is a fetch that
fails, which the code takes for "none published", and `job[p].seen` tells the two
apart. The signer issues generations in order, but a snapshot may carry an earlier time
than the one before it (`Sign`). A client fetches metadata, signature and index, verifies
them against its clock and the accepted floor, and persists before it plans. `durable` is
what a power loss leaves.

### ApplyLock

A run opens its sessions and locks host after host: mkdir, creating and
writing the owner file are three steps; so are the two of release. Which directory it
locks is `PathOf`: `/run/xinfra.lock` for root and for users that may elevate, one in the
home directory for others. `Volatile` are those a boot empties. A lost session, a
reboot, a kill, a failed write, a removal that fails (`ReleaseFails`), a reclaiming run and
`unlock --force` come at any time, as `world` says.

### Hotplug

A netlink socket holds `world.buffer` events, is congested when one finds it full,
and reports a loss once. The daemon reads, makes a node and publishes; a HUP makes
it load the file again. A datagram that is invalid, empty or from user space is junk:
`DropJunk` counts an overrun that came before it, and only `Handle` reports the count. The
helper triggers entry after entry and waits for the last one. A write to a uevent file that
fails counts like one that does not (`TriggerFails`), a directory that cannot be read ends
the helper (`ScanFails`), and the listing may name a device twice, under its class and its
bus.

## Runs

One run per question, named after what it checks. Its properties are conjunctions
of the statements in the section before, each with its own comment.

| Run | Question | Bounds |
|-----|----------|--------|
| `activation` | can any order of operations, reports, policy changes and one outage make the record unreadable or unsound (`RecordSound`), lose a counted boot or an acknowledged policy (`PastKept`), remove what can boot (`BootableImagesKept`), accept a stale report or boot a revoked generation (`BootsAuthorized`)? Is a pending generation resolved (`PendingResolves`)? | 2 generations, cap 2 (the code's), serials up to 3 so that a second candidate follows a first, 2 policy revisions, 1 outage |
| `scanner` | can exits, requests, backoff and a shutdown, in any order, unpair hooks, falsify the status or oversleep (`UnitsSound`), lose an exit or double an instance (`ProcessesOwned`), start before a need (`OrderKept`)? Does a dead unit respawn (`UnitsStart`), TERM end it (`ShutsDown`)? | 3 units: one that becomes ready gradually with a growing delay, one with a `stop()` hook that needs it, a oneshot that uses it; 2 pids, which are used again; delays up to 2 |
| `seatd` | one holder, a next session that waits, events that agree (`SeatSound`); authority over devices follows (`DevicesFollow`); the promise of `Seat` is kept (`KeepsPromise`) | 3 clients without devices; 2 with peers that stop reading, with a card handed on, with failing opens and revokes, on terminals with failing ioctls |
| `seatd_switching` | does an accepted switch reach its target (`SwitchReachesTarget`); is the kernel's wait for a release always answered (`ReleaseAnswered`)? | 2 clients that answer or hang up; 1 that never answers on 3 terminals |
| `seat_socket` | does a start spare live sockets (`LiveSpared`), can the last one recover the path (`Recovers`)? | 3 daemons, any of them with `-z`, one refused its user |
| `trust` | is the store whole, durable and settled (`StoreSound`), recoverable (`Recoverable`), does trust only advance (`TrustAdvances`), does repeating an update converge (`Converges`)? | 3 releases, one reissued after it expired; 2 crashes, kills or power failures or one of each; clock up to 2 with jumps; with and without seed |
| `inittab` | is every process the one its entry names (`ProcessesOwned`), does the system end as asked (`EndsAsAsked`), are entries respawned (`Respawns`)? | all actions, one entry of each; 3 pids; HUP and USR2; failing spawns, or failing commands with processes that survive a KILL |
| `control` | one instance (`ServicesSound`), a stop spares others (`StopSpares`) and ends what it was asked to (`StopEnds`) | 2 services, one needing the other; 3 pids, 4 processes in all; 6 circumstances: a command alone, beside a scanner that is killed, also while it starts a service, with one that comes up; two commands at once, with and without a scanner |
| `builds` | whole artifacts, complete roots, jobs bound, complete ends (`BuildsSound`); artifacts stay (`FinalStays`); repeated builds complete (`Resumes`) | plans of 3 and 4 nodes, 2 builders or 1, 2 jobs, 1 failure, which may be one of staging |
| `repository` | rows have objects, plans are covered, the floor is signed (`RepositorySound`); the mirror and the floor only advance (`MirrorAdvances`, `FloorHolds`); clients follow (`Follows`) | 7 circumstances with up to 2 packages, publishers, clients and generations, and 3 keys of 2 versions; 1 kill, power loss, failed fetch or clock change |
| `apply_lock` | of the runs that share a lock one applies, and has it (`HostsExclusive`); ended runs leave none (`LocksReleased`); all end (`Ends`) | 2 runs, 2 hosts, 2 faults; both as root, both as a user, one of each, and one that reclaims |
| `hotplug` | is what the helper reports true (`HelperSound`), does the daemon notice what it missed (`DaemonSound`), does everybody end (`HelperEnds`)? | 8 circumstances: listings of 2 and 3 entries, with plain ones and with one twice, sockets of 1 to 3 events, up to 3 plugs, junk datagrams, edits, signals or failures |

The bounds are the smallest in which each case listed in the MC module happens: a
dependency and a dependent, a previous holder and a next one, a pid that is used
again, a release after one that expired, a second crash during the recovery from the
first. Between them the runs take every action of every module.

Deadlock checking is on for `scanner`, `trust` and `inittab`, which stop only where the
program ends. It is off where a bound on faults, versions or
processes, or the end of all processes, lets the model run out of things to do.

Symmetry is used where no liveness is checked: the clients of `seatd` and the
commands of `control` are interchangeable.

### Fairness

Fairness is what the code's scheduling gives: a process that is not killed keeps
taking steps (weak). Beyond that:

* `activation`: the launcher is run until it finds the non-blocking lock free
  (strong). This is an assumption about the host, which boots the machine again;
  the code does not retry.
* `scanner`, `inittab`: time passes again and again while the loop blocks, and a pending
  signal is what some later wait returns (strong, because other events may end
  each wait). Nothing is assumed of children or clients.
* `seatd_switching`: the daemon serves signals, hang-ups and dead clients that poll reports;
  clients answer or hang up where `world.answer` says so.
* `seat_socket`: a process that starts goes on. `apply_lock`: a run goes on.
* `trust`: the clock moves on, and the operator runs the newest release again until it is
  applied (strong).
* `builds`: schedulers, children and orphans go on, and a build that did not end well is started
  again.
* `repository`: publishers and clients go on, somebody signs when the index is newer than
  the snapshot, a wrong clock is set right, publication and planning are tried again
  (strong for those that others can disable).
* `hotplug`: daemon and helper go on; the helper's time-out is longer than the daemon
  needs for what is queued.

## Proofs

`ActivationProofs` proves, for every set of ids, digests, hashes and pin lists,
every attempt cap, and any number of outages, all safety properties of
Activation. Assumptions: the constants' types and
that the model values differ from the data (`ActivationAssumptions`).

* `TypeCorrect`. `TypeOK` says that readers never see a half-written record; it
  is inductive only together with `SiblingWritten` (a writer about to rename
  has filled the sibling).
* The other theorems follow from `SafetyInv`, which says of every record the
  disk may hold, and of the record a lock holder is about to write, that it is
  `Sound` (readable, under the cap, healthy current and fallback) and `Covers`
  the past (no boot of a candidate and no acknowledged policy is newer than it).
  The properties alone are not inductive: they must also hold of the record in
  flight, and the boot in flight must be tied to it (`BootSound`).
* `BootableImagesAreKept` (`BootableImagesKept`) rests on `KeepInv`. A collection
  reads one record, but a power cut may bring back another. The argument is that
  what any record on the disk may boot is `Retained` by the one that replaced it
  (`Precedes`), so a collection that reads the newer one spares it; this stops at one
  replacement, and with two unsynced ones (`ThreeRecords`) the collection counts
  as one that costs the bundle (`lost`). `WriterKept` says the same of the record in
  flight, `CollectorKept` that what is being removed is still not retained.

The second half of `ActivationProofs` proves all safety properties of Trust for any
releases, staging names, crashes and clock moves: `StoreIsSound` (`StoreSound`),
`AlwaysRecoverable` (`Recoverable`) and `TrustOnlyAdvances` (`TrustAdvances`). The invariant
`TrustInv` has four parts:

* `Typed`, and `Stages`: the list of writes that is left says how far the store is. Every
  list an update can have left is named (`Adopt1`, `Resume2`, ...), with what its earlier
  writes have done to pointer, record and floor.
* `StoreInv`: the store is `Good` in memory. Pointer, record and floor agree (`Steady`), or
  a journal names a generation that recovery goes on with (`Pending`), or nothing has been
  seeded; and neither pointer nor record is behind what was reported. With power failures
  every mix of what is in memory and what was synced must be `Good` as well (`GoodMixes`),
  which needs that what is not about to be synced has been (`Synced`).
* `RecoverInv`: before the first crash nothing is left over but by the step an update
  is in, so one kill leaves a journal that recovery can act on.

`StoreSound` alone is not inductive, because it is silent about the lists of writes and
about the disk. The proof found that the properties of the pointer need one kind of
crash (`OneKind`): recovery removes the staging directory of a killed update and adopts
generations without syncing what that update had written, and a later power
failure may keep a part of it. TLC has the circumstance since; `accepted` and the floor advance there
too. Assumption: `TrustAssumption` (the constants' types, a positive end of time).

`ScannerProofs` proves all safety and action properties of Scanner that its
passing runs check, for every number of units, every dependency graph in plan
order, all restart settings, any requests and any number of processes.
Assumptions: `UnitsAssumption` and `ServicesAssumption`, the constants' types,
needs before their dependents (what `plan_service_start` computes), and a delay
cap of zero or at least the delay (what `service_from_record` accepts).

The inductive invariant `Inv` has five parts, because the properties lean on
each other:

* `TypeOK` and `PlaceInv`, what the control state says of the rest (the reap
  queue is empty outside of `reap`; a stop works on a unit that is up; the units
  the shutdown has passed are stopped; a unit with a pid is up).
* `UnitInv`: `FinishOncePerStart`, `StatusHonest` and `BackoffCapped`. Lemma
  `UnitSteps` first reduces every step to one of seven things that can happen to
  one unit; each property is then a case split over those seven.
* `OwnInv`: `NoExitLost` with `PidsDistinct`, `GroupsFormed`, `GroupsOwned` (a
  live group belongs to the unit that has its pid, except what a `stop()` hook
  left), `ShutdownHolds` and `RequestsKnown`. `OneInstance` and `CleanExit` follow
  from `GroupsOwned`; neither is inductive alone.
* `TimeInv`: `WakesOnTime`, and `SnapInv`, that a unit running in the snapshot
  of the pass is still running, from which `NeedsFirst` follows.

`InittabProofs` proves `ProcessesAreOwned` (`ProcessesOwned`) for every inittab, delay,
launch limit, set of pids and choice of failures, stuck processes and surviving descendants
among them. Its invariant adds to the three
properties `QueueReaped` (an exit that is not marked yet has been reaped) and
`ProcessesSpawned` (only entries that spawn have processes); without the first a pid
in the queue could belong to a newer child. Assumption: `InittabAssumption`.

Its second half proves all properties of Control, for any services, needs and plans, any
pids and any finite number of commands: `ServicesAreSound` (`ServicesSound`),
`StopSparesOthers` (`StopSpares`) and `StopsEnd` (`StopEnds`). The invariant `ControlInv` is

* `ControlTyped`, with what each command knows where it is (`CmdOK`) and that a status file
  has a pid if it says running (`StatusOK`);
* `Ledger`: a start time in a status file, or in a command about to write or to signal it,
  belongs to a process of that service or to none (`Dated`, `AimedBy`), and a pid the scanner
  keeps is its child's. This is all `SignalsSpare` needs, and it holds for commands at once
  as well;
* `Marked`: the marker names the scanner, and where none comes up later a command beside
  one is still looking for it or has found it;
* `LoneInv`: where commands run one at a time and nobody else starts services, a process of
  a service is in its status file (`Filed`), or a command (`AboutToFile`) or the scanner
  (`Tended`) is about to write it, and a command between its reading and its signals knows
  what runs (`HeldBy`). `OneInstance` is not inductive without it: that
  `start_one_service` may trust the file is what keeps it; nor is `StopEnds`, because
  the pid that is signalled was read earlier.

The proof changed the model in two places. The start time used to be looked up when the
status file is written, by which time the pid could have been another's in the model; the
code's child is a zombie until then, so the command now keeps the time of its own child.
And a scanner hit by a signal used to leave its units behind. Assumption:
`ControlAssumption` (the constants' types; commands are finite, pids are positive and
there is one).

`ApplyLockProofs` proves `HostsAreExclusive` (`HostsExclusive`) for any number of runs
and hosts, any choice of lock directories, and any kills, lost sessions, reboots, failed
writes and failed removals. Its invariant is
`TypeOK`, `Placed` (a run that takes locks is at the host after those it has) and
`Safe`: unless locks are reclaimed or forced, an owner record names the run that made its
directory, and over a live session the directories a run works on or has locked
are its own. Exclusion of the runs that lock one directory follows because a directory
has one maker; it is not inductive without the steps between mkdir and the owner record. Assumption:
`ApplyLockAssumption` (runs have distinct positive tokens, the inventory lists
a host once and is not empty).

It also proves `LocksAreReleased` (`LocksReleased`), with a second invariant on top of
the first, `AllReturn`: while a run has lost no session and failed no removal, the directories it has made
are those it counts as acquired, with its record in them, and the one it is locking;
while it releases, only those not yet reached. That the release finds its own
token in each needs `Safe`.

`SeatdProofs` proves all safety properties of Seatd for any clients, devices and
terminals, whatever peers do and whichever opens, revokes and ioctls fail: `SeatIsSound`
(`SeatSound`), `DevicesAlwaysFollow` (`DevicesFollow`), and `Implements`
(`KeepsPromise`), that every step is a step of `Seat` or a stutter. The invariant `IInv` is
about one record, the state of the daemon between two handlers: `Sound` (the list has no
client twice and just those in a session; the holder is listed and is the only one that is
active or owes an answer; a client that reads was told what it is; authority that was not
leaked is over active devices of the active client, and over all of them if revokes
succeed) and `NextPending` (a session is next only while the holder owes its answer).
Handlers call each other several levels deep and break parts of `Sound` on the way, so
`Sound(x, E)` excludes the clients `E` that a call is working on, and each operator of
the model has a lemma from its state before to its state after. The same lemmas say
which of three things happened to the seat (`Asks`, `Passes`, `Attends`), which is
the step simulation; a step that passes the seat of a connected holder is shown to be
`HandleDisableSeat` of that holder. `NextPending` is kept apart from `Sound` because a
removal breaks it between taking the holder off the list and passing the seat on; it
is also half of `NextWaits`. Assumption: `SeatdAssumption`.

For SeatSocket, the same module proves `LockHolds` (`LockHeld`) and `LiveIsSpared`
(`LiveSpared`) for any number of processes, with or without `-z`, any of them killed at any
step. The invariant `SocketInv` is `SocketTypeOK`, `LockHeld` (one process has the lock
from bind to listen, and what it found stale stays stale), `LockFreed` (a holder of the
lock is between those two) and `StrictAvoids` (with `-z` everywhere nobody reaches the
unlocked unlink). `LockHeld` alone is not enough: that only the holder's steps can
matter needs that the lock of a process that ended or was killed is free. Assumption:
`SocketAssumption`, the values for an empty path and a plain file are not daemons.

`BuildsProofs` proves `BuildsAlwaysSound` (`BuildsSound`) and `FinalNeverReplaced`
(`FinalStays`) for every plan in dependency order, any builders and jobs, any kills
of schedulers and children. The invariant has three parts. `PlansHold`, of each
scheduler: no node is in two places (`Apart`) and none is lost (`Accounted`): one
that waits does so for nodes that are done, running or before it in its list, and when one
waits some child runs, which is why no build gets stuck. `LocksHold` and `StagedOwn`, of
the store: a child between its lock and its rename has the lock of its node, and
what it has staged is its own; two builds of one node cannot mix their files.
`Stored`: what a running build has done is in the store. `RootsComplete` follows: the
nodes done are closed under dependencies, and `Closure`, the least set closed under
runtime dependencies, is contained in every closed set. Assumption: `BuildsAssumption`
(nodes are finite, plans list each node once and after what it waits for).

The proof needed the precondition of a collection: without `Quiet`, `LocksHold` is not
inductive, and TLC shows why: a collection removes the lock file of a child whose
scheduler was killed, the next build locks another file, and both stage into one directory.

`RepositoryProofs` proves `RepositoryIsSound` (`RepositorySound`), `MirrorOnlyAdvances`
(`MirrorAdvances`) and `FloorAlwaysHolds` (`FloorHolds`) for any packages, keys and
versions, any finite number of publishers, any clients, and any kills, failed fetches, power
losses and clock changes. The invariant has two halves. On the client, `SignedOnly` (what is published or
fetched was signed) and `FloorKept` (the state on the disk is the accepted one or one it may
follow, and a client about to plan has its snapshot accepted); `FloorHolds` needs the
second because a power loss brings the disk's state back. On the mirror, `MirrorKept`:
while publishers take turns at most one is at work, every row of every index, archived
ones too, has its object, and what that publisher is about to write fits the mirror it has
read (`JobFits`). Without `JobFits` a publisher between the object and the index could
write a row that is older than the one there. Assumption:
`RepositoryAssumption` (the constants' types, publishers are finite).

`HotplugProofs` proves `HelperIsSound` (`HelperSound`) and `DaemonIsSound` (`DaemonSound`)
for every listing, any socket sizes, and any plugs, junk, edits, signals and failures. The
invariant follows an event from the kernel to the helper. `DaemonInv`: the rules are valid
and those of the file unless a HUP is still to be taken, and a loss is reported, counted or
still to be read. `PublishInv`: what is or will be published has been handled.
`ScanInv`: where the helper is in the listing, and that every event on its way was triggered
or plugged. `OrderInv`: as long as nothing was lost, every triggered device has been handled or
has its event in the daemon's queue (`Ahead`), and the event the helper waits for, if it
is sent only once (`Alone`), is behind it at every stage (`Behind`). `SyncInv`: the event of a
triggered device is on its way until the helper takes it (`Awaited`), or excused.
`SyncHandled` alone is not inductive because it speaks only of the end.
Assumption: `HotplugAssumption` (the constants' types).

Every safety and action property of the runs is stated by a theorem. Checked by TLC only:
the liveness properties (`PendingResolves`, `UnitsStart`, `ShutsDown`,
`SwitchReachesTarget`, `ReleaseAnswered`, `Recovers`, `Converges`, `EndsAsAsked`,
`Respawns`, `Resumes`, `Follows`, `Ends`, `HelperEnds`) and with them every use of fairness,
which are out of the prover's reach. `Spec`s with fairness have the theorems of those
without, since they imply them.

## Observations

Places where the code does something else than a document or comment says. Each is an
exclusion named in a property's comment: dropping it, or adding the circumstances to
the MC module, makes TLC show the steps.

Activation (`system/activation.xsh`):

* Line 283: `activation_stage` sets the fallback to the current generation, as
  `docs/QEMU.md:316` says ("Staging retains the current healthy generation as fallback");
  the comment at line 266 says "without changing the current or fallback generation".
  `HealthyFallback` holds with the code's assignment; what the comment says would
  keep the fallback of an earlier update.

Scanner and init (`xinit/xinit.xsh`):

* Line 1845: a request that replaces `inbox/SERVICE` while the previous one is applied is
  removed with it; `INIT.md:168-170` says a posted request is applied on the next pass.
* Line 1764: `down` for a unit that is dead or pending writes no status, so the JSON keeps
  saying `dead`; `SUPERVISION.md:15-16` and `:50` say state cannot go stale.
* Line 421: PID 1 waits without a timeout, so a respawn entry that is not due when a child
  exits stays down until the next event; `INIT.md:35`, `SUPERVISION.md:86`.
* Line 463: a shutdown command that fails skips the finalize step; `INIT.md:36` and
  `:40-41`.
* Lines 326-329 and 377: what runs on the way down. `mark_dead` forgets a leader that exited
  together with its descendants, and `shutdown_runtime` drops the result of
  `shutdown_process_groups`, so descendants, or processes that survive a KILL, may run beside
  the shutdown commands; `INIT.md:38` has these "after owned process groups stop".
* Lines 1268 and 1310: start and stop look for the marker and then act, so a scanner that comes
  up, or a second command, can start a second instance; `INIT.md:153` and `:167-170`.
  `boot` does not look for the marker at all, and a scanner that comes up does not look for
  instances that run.
* Lines 1222 and 1310: only `running` counts. A scanner that is killed after it wrote
  `starting` (1557) leaves a child beside which a direct start makes a second instance, and
  which does not count as a dependent.
* Line 1310: the dependents, the status and the signals of a stop are looked at and sent one
  after the other, so a dependent that a second command starts in between loses what it needs.
* Line 1323: the KILL goes to the pid that was read before the grace period, without another
  look at the start time; it may hit a process that was started in the meantime.
  `SignalsSpare` says that it hits nothing else.
* Line 1459: status files of a killed scanner have no start time, so a pid that is used again
  passes for the service; `SUPERVISION.md:80-82`.

seatd-rs:

* `session.rs:283`: a client that leaves while it owes its answer, after another took the
  seat, leaves the terminal in graphics mode; `runtime.md:49-50`.
* `session.rs:279`: a removal tries one waiting session, not the next; `recovery.md:40-41`.
* `session.rs:307`: a full output ring drops DISABLE_SEAT; `harness/storm.rs:233`.
* `main.rs:56`: the path is probed and unlinked before the startup lock is taken;
  `runtime.md:36-39`.
* `shutdown.rs:28`: the socket is compared and then unlinked by name; `recovery.md:7-8`.

Trust (`CERTIFICATE-TRUST.md`):

* `store.xsh:579`: a kill while the seed is written in place leaves a store that later updates
  refuse (`:287`).
* `update.xsh:451`: so does a kill of a recovery between removing the staging directory and
  clearing the journal (`:176-178`, `:287`); and one inside the recursive removal
  (`store.xsh:318`), once the owner token has gone and the directory has not.
* `store.xsh:376`, `update.xsh:486`: `staging/` is not synced before the journal names it, and
  recovery adopts a generation without syncing `generations/` (`:96-99`). After a kill and
  then a power failure the active pointer may go back or name a generation that is not
  there, although the accepted one stays (`OneKind`).

Packages (`PM.md`):

* `store.xsh:640`: a killed collection leaves a directory without its payload, which the
  comment at `store.xsh:519` takes to be complete.
* `store.xsh:642`: a collection removes the lock file of each artifact it removes. The Makefile
  says never to run it during a build, and nothing in the code enforces that.
* `store.xsh:361`: a commit is renamed without fsync (`:301-305`).
* `repo.xsh:250`: publishers at once lose each other's index rows (`:298-299`), and the
  later of two `publish-snapshot` may put the older generation.
* `mirror/src/packages.rs:295`: If-None-Match is checked before the body is stored (`:349`).
* `repo.xsh:336-345`: a fetch of the published snapshot that fails for whatever reason (a
  time-out, a 5xx) counts as "none published", and an older generation of the same index can
  then replace a newer one; the comment before `publish_snapshot` says that it "requires a
  generation advance over any published snapshot". Clients keep their floor.

xinfra (`operations.md`):

* `lock.xsh:94`: an owner file that is still empty looks stale to a reclaiming run (`:88-89`).
* `lock.xsh:121`: release reads the owner and then removes the directory by name (`:85-86`).
* `lock.xsh:85`: when the owner cannot be written the directory stays (`:93-94`).
* `driver.xsh:162-185`: the lock directory depends on the login user and on whether it may
  elevate, so runs as different users do not exclude each other.
* `cli.xsh:1214`: a release that fails is ignored, and the lock stays.

mdevd-rs:

* `mdevd.rs:579`: overruns are reported only after an event was handled. One that is counted
  before an invalid, empty or user-space datagram stays unreported until the next event;
  `docs/testing.md:37` says that loss "stays observable".
* `mdevd-coldplug.rs:306`: an earlier event of the same device, which is listed under its class
  and its bus or plugged in meanwhile, ends the wait (`:4-5`).
* `mdevd-coldplug.rs:146`: a last entry without a uevent file is waited for although nothing was
  triggered (`:238-239`), and so is one whose write failed (156-159).

## Not modelled

* The numbering of seatd's slots (`sweep_dead` compacts the vectors), its byte rings, wire
  format and device policy; service-file parsing, log rotation and the order of a start
  plan in xinit; parsing of inittab, rules, releases and snapshots; signatures.
* pm generations and roots: written aside and published by one rename, by one writer. pm
  planning and metadata: sequential computation over recipe data. pm sources, remotes,
  toolchain drivers and command line: I/O around the modelled parts.
* doas-rs: one process per command; its only state is a time stamp file.
* tinyland (a Wayland compositor on a library's dispatch), the installer and image builders
  (sequential use of external tools), QEMU command construction and first boot, the vendored
  ntpd-rs, recipes, profiles, seed scripts and end-to-end qualification.
* C written for the project, short sequential programs: `guest/asterinas/initramfs/init.c`;
  the probes and peers of tests, `guest/asterinas/device/device-probe.c`,
  `guest/asterinas/clock/ntp-peer.c`, `ntp-probe.c` and `ntp-oracle.c`,
  `guest/asterinas/dhcp/tcp-client.c` and `peer-tcp.c`, `mdevd-rs/tools/combined-seat-client.c`
  and `udev-consumer.c`, `seatd-rs/harness/vm-probe.c`, the fixtures under `tests/`
  (`ntp-frequency-check.c`, `probe.c`, `hello.c`); and
  `packages/linux/files/x86-jump-label-patch.c`. Everything else in C is generated or
  third-party.

## Plan

1. Start planning (`visit_plan`) and the graph order of pm as operators checked against
   a reference definition, which would justify `ServicesAssumption` and the plans given
   as constants.
2. The root change of pm with its interruptions; the time stamps of doas-rs.
