# zima-vm-extras in TLA+

A verification development for the `zima-vm-extras` daemon
(`src/cmd/zima-vm-extras`, `src/internal/...`): TLA+ modules translated from the
Go source, TLC configurations that check them on small instances, and TLAPS
proofs for every value of the constants.

## 1. The system

One Go daemon beside ZimaOS' own VM manager (ZVM). It serves an HTTP API, keeps
small JSON stores, and drives libvirt through the `virsh` command. Nothing
protects a VM against the *other* writers of its state: the official UI, the
user, the guest, and the daemon's own goroutines.

```
 browser (app.js) --HTTP--> handlers ---+--> stores (mutex + JSON file)
                                        |        ^
                                        |        | All(), once per pass
       tickers: usb, pci, vnc, tpm reconcilers, watchdog, scheduler
                                        |
                                        +--> virsh (10 s timeout) --> libvirtd
 official ZVM UI, user, guest ----------------------------------------^
```

Every request is a goroutine; each reconciler, `autostart.Run` and
`RunWatchdog` are goroutines of their own. A store's mutex is held for one
store call only. No lock is held across two calls, and none over virsh.

### Inventory

| component | state | operations | what makes it correct |
|---|---|---|---|
| USB, PCI pins (`internal/usb`, `internal/pci`) | map of pins + file | POST attaches and pins, DELETE unpins and detaches, `Reconcile` re-attaches every 60 s | an acknowledged pin is never lost; it is restored; a deleted device does not come back |
| VNC pins (`internal/vnc`, `virsh/vnc.go`) | password, listen address, port per VM + file | POST, DELETE; `Reconcile` repairs the document by dumpxml/define | never an exposed console without a password; a stripped password is restored; the pinned password is the one in force; repairing ends |
| Autostart and watchdog (`internal/autostart`) | entry per VM + file, run marker on tmpfs | PUT, DELETE, `Run` at boot, `RunWatchdog` every 30 s | every enabled VM starts once per boot; the watchdog waits for `Run`; a watched VM is never left down; a VM shut down by hand stays down |
| TPM pins (`internal/tpm`, `virsh/tpm.go`) | boolean per VM + file | POST, DELETE, `Reconcile` | as VNC; does not undo another edit of the same document |
| Snapshots (`virsh.go`, handlers) | libvirt's snapshot tree, external files | create, revert, delete | names survive the round trip; no file is left behind (names only, in `Schedule`) |
| Scheduler (`internal/schedule`) | schedules with last run + file | upsert, delete, tick every 10 minutes, prune | the interval is kept; pruning keeps the newest N and touches only its own |
| Backup (`internal/backup`) | list of jobs, in memory | start, run, prune list | a listed job ends once; the list holds the newest fifty |
| Mounts (`internal/mounts`) | shares + file, mount table | create, edit, mount, unmount, delete, mount all at start | mounts do not pile up on a point; a password survives every edit; at start every entry is mounted or shows an error |
| Interfaces (`virsh.go`) | the domain document | switch network | no other editor takes the interface away |
| Settings (`internal/settings`) | one record + file | get, set, remember after a backup or snapshot | the file is never torn; only what was put or used is remembered |
| Gateway (`internal/gateway`) | back-off | register, retry, refresh every 5 minutes | the route comes back (not modelled) |
| Boot units, storage list, metrics, config, UI | none of their own | read-only, or written once | not modelled |

Interactions: handlers call stores and virsh one after the other without a
common lock; reconcilers take a copy of a store and then call virsh entry by
entry; VNC, TPM, USB, PCI and interfaces all edit *the same* domain document;
`Run` and the watchdog share only a file.

What is hard here, and what `hazards` in `PROJECT.json` lists line by line:
decisions on stale copies (a pass works on the list it began with), read-modify-
write over two virsh commands, a command killed by its timeout that took effect
all the same, an error that is dropped, a restart between a change and its
save or between orchestration and its marker, and liveness against a user
interface that keeps undoing the work.

## 2. The modules

| module | models | code |
|---|---|---|
| `World` | which outside events an instance admits, the outcomes of a virsh command | `run` in `virsh.go` |
| `Libvirt` | external: power state, persistent and live document, dumpxml and define | how `internal/virsh` uses it |
| `PinStore` | the map behind a mutex with its JSON file: `Save`, `Reload`, each one step | `store.go` of usb, pci, vnc, tpm, autostart; `schedule.go`, `mounts.go` |
| `StoreFile` | the same store as it works: change in memory, temporary file, write, rename, under a mutex, with a stop of the daemon anywhere | `internal/settings/store.go` |
| `AtomicStore` | what a store promises; built from the actions of `PinStore` | - (abstract) |
| `HostdevPins` | USB and PCI pins (one program over two kinds of identifier) | `usb/store.go`, `pci/store.go`, `usbDomain`, `pciDomain`, `virsh.go` |
| `VncPins` | pinned passwords and listen addresses | `vnc/store.go`, `virsh/vnc.go`, `vncDomain` |
| `TpmPins` | pinned TPM devices | `tpm/store.go`, `virsh/tpm.go`, `tpmDomain` |
| `Autostart` | boot orchestration, watchdog, power requests | `autostart/store.go`, `autostartItem`, the power handler |
| `Schedule` | periodic snapshots and their pruning, beside snapshots made and deleted by hand | `schedule/schedule.go`, `scheduleItem`, `snapshotHandler`, `snapshotCreate` |
| `Mounts` | entries, mount table, requests and the automount of the start | `mounts/mounts.go`, `mountsCollection`, `mountsItem` |
| `Settings` | the remembered directories and the requests that read and write them, over `StoreFile` | `settings/store.go`, `settingsHandler`, `backupItem`, `snapshotCreate` |
| `BackupJob` | what a reader of the list of backups may rely on | - (abstract) |
| `Backup` | jobs, list and goroutines, on top of `Settings` | `backup/backup.go`, `backupItem` |
| `DomainEdits` | every editor of one document together: tabs, reconcilers, interfaces, ZVM | `SetVNCPassword`, `SetTPM`, `AttachDeviceXML`, `DetachDeviceXML`, `SwitchInterface`, `netDomain` |
| `MCHostdevPins`, `MCAutostart`, `MCSchedule`, `MCMounts`, `MCBackup` | values of the constants for TLC | - |
| `HostdevPins_proofs`, `VncPins_proofs`, `TpmPins_proofs`, `Autostart_proofs`, `Schedule_proofs`, `Mounts_proofs`, `Backup_proofs`, `DomainEdits_proofs` | theorems and proofs | - |

HostdevPins, VncPins, TpmPins, Autostart, Schedule and Mounts extend `PinStore`;
the first three edit documents and extend `Libvirt` as well. `Settings` extends
`StoreFile`, which has the steps that `PinStore` makes one of; that this is
sound is the refinement `StoreIsAtomic`, stated in `Backup` as
`INSTANCE AtomicStore WITH Contents <- Data, mem <- Seen, disk <- file`. `Backup`
composes jobs and settings, since it is the start of a job that remembers a directory.

The components run beside each other and share nothing but the domain document.
`DomainEdits` is that composition: the *details* of each part (password, address,
emulator, spelling) stay in the modules of the components; there, a part is in
the document or not, and the question is what its editors do to the other parts.
`TpmPins` and `HostdevPins` implement it (`EditsImplemented`): the first for each VM, with
the TPM as the one `Defined` part, the second for each VM and device, with the device as
the one `Attached` part. The mappings (`ConfigOf`, `PinsOf`, `RequestsOf`, `PassesOf`) are at
the end of the two modules. `VncPins` has no such mapping: one of its requests edits two
attributes of the document (password and address) and pins them together, which is neither
one part nor two.

### How state and actions correspond to the code

*Granularity.* A step is what one goroutine does up to and including its next
virsh command or store call. A store call holds the mutex until the file is
renamed, so it is atomic; a virsh command is atomic in libvirtd. Everything in
between interleaves.

*virsh.* `Outcome`: "ok" (done, and answered in time), "error" (nothing
happened) and "timeout" (`virsh.go:34-47` kills the command after ten seconds
while libvirtd carries on: done, but reported as failed). The last two are
admitted by the event "virsh"; an error of a command that cannot succeed
(the domain is gone, the device is already there) needs no event.

*Stores.* `mem` is the map, `disk` the file, `unsaved` a history variable that
says the last save failed. All stores write a temporary file and rename it. A
failed write leaves the change in memory, as in the code. `Reload` is
`NewStore` in a daemon that starts again: requests, passes and `Run` of the old
process are lost.

*Handlers.* `job[c]` is where request `c` is in its handler, with the local
variables it carries; a request ends by going back to `Idle`. *Reconcilers,
Run, watchdog.* `rec`, `run`, `dog` likewise; `todo` holds the entries copied
by `All()`. Map iteration and `sort.Slice` on equal orders are a free choice
among `todo` (Autostart: among the least of `todo`). The reconciler's start pass
and its ticks are the same action: the ticker has no other effect than time.

*HostdevPins.* A pin is a VM and an identifier as it was spelled; `Canon` is the
lower case in which `HostdevXML` writes it, the two kinds of USB and PCI
identifiers differ in nothing else. `Scope` is the flags of `AttachDeviceXML`:
without `--live` and `--config` virsh changes the live domain only. The
`State` error that the code drops (`state, _ :=`) reads as "not running".

*VncPins.* The document is reduced to the graphics tag's password, listen address
and port, and whether there is a tag at all. `NoEntry` is the zero `Entry`.
`Task.route` is the branch a POST takes after the empty-password rule: set
both, set the address alone, or (DELETE) clear.

*TpmPins.* The document is reduced to the TPM it may have: none, the emulator that
the daemon adds, or one that the operator configured. A request and a pass
carry the `dump` they edit, so that the define writes what was read, however old.
SetTPM defines the document even when it changes nothing in it; so does the model.
The configurations of TpmPins, VncPins and DomainEdits instantiate the modules themselves.

*Autostart.* `marker` is the file in `/run`; `HostReboot` empties it.
`byHand` (history) are the VMs the user has shut down. A
negative delay is made zero by `Set` (`Normalised`). `up` says libvirt answers;
`native` is libvirt's own autostart flag, cleared by PUT, DELETE and `Run`.

*Mounts.* `table` is the host's mount table, for each mount point the shares mounted on it,
topmost first; `CanMount` is external (the kernel refuses a share over itself, and
mounts another one over it). `job` has one actor per request and one, `Boot`, for
the goroutine of `MountAllAuto`. `Lookup` is the read under the lock, `Check` the
look at `/proc/mounts`, `DoMount` and `DoUnmount` the command, `Report` is
`setError` under the lock again. Mount options, the kind of share and the
credentials file are inside one mount command. An `Entry` holds what the
properties tell apart; a command that is killed after twenty seconds uses the same
`Outcome` as virsh.

*StoreFile, Settings.* `lock` says who holds the mutex, how far the save is, and what
was in memory `before`; `Readable` is a reader that gets the mutex. `Seen` is
what a reader can know: during a save that is the old contents, since `Get` waits. Paths
are model values with `BaseOf` and `Under` for `filepath.Dir` and `filepath.Join`;
`Bad` are those that `forbiddenSnapshotDir` refuses. `used` is history.

*Backup.* `Accepted` is `Start` up to the mutex (state, document, disks, directory
and clock are read, or `Refused` ends the request), `Insert` is the part under it
with `pruneLocked`, and `work[j]` is where the goroutine of job `j` is. `Keeps`
is the sort and the cut as a choice: any set of the newest `MaxJobs`, ties
in any order, as `sort.Slice` over a map gives. `state` "lost" is a job whose
daemon stopped. The power state of the VM decides only between Accepted and Refused.

*DomainEdits.* `config` is the persistent document: for every part whether it is there,
and the interfaces with the MAC address in question. `dump` is what dumpxml answered,
`seen` (history) what the document was; they are equal because every dump asks for
`--security-info`. `Defined` parts (VNC, TPM) are dumped and defined, `Attached`
ones (USB, PCI) attached and detached. `DefineDoc` brings back a domain that was deleted after the dump. `Official` are the parts
that the official interface can configure as well (the TPM). `Attach` may fail although the
document allows it (`fits`): a request changes a running domain too. A restart leaves the pins
alone, or, where saves may fail, finds those of an earlier time.

*Schedule.* `tick` is where the scheduler is: `TickBegin` is the part under the
lock (every due entry is claimed by moving its run clock, then one save whose
error is dropped); then, for one claim after the other, `TickState` (`State`
and the directory), `TickCreate`, `TickList` and one `TickPrune` per name. Ticks
do not overlap, because `Run` calls `tick` itself. Time is `clock`, in hours;
`Interval` is the product `time.Duration(hours) * time.Hour` with its overflow,
at a small `Span`. A name is `AutoPrefix` and a time, or a name of the user's;
among the first kind the order of `sort.Strings` is the order of the times.
`zone` is what the local time, in which names are written, adds to `clock`:
it is set back at a restart. The end of summer time sets it back without one;
for the properties the two are the same. `CreateSnapshot` asks for disks
and power state before it creates; all of it is one outcome here. History:
`made` in a snapshot (the tick it is of, 0 for the user), `taken`, `tried`.

## 3. What the runs check

Every definition listed here has its own comment in the modules. `Events` names
what the outside may do in an instance.

| run | instance | shows |
|---|---|---|
| `hostdev_restart` | 1 VM, 2 requests, 2 spellings of one device; power, pause, failing saves, restarts; 1.4 M states | `AckedPinSurvives`: a pin answered 201 stays in memory and file until a DELETE names it; `SavedUnlessFailed`; `TypeOK`: only canonical identifiers reach a config |
| `hostdev_live` | 2 VMs, 1 request; deletion, re-saves, failing virsh; 13 k states | `EveryPinRestored`: a pin of a VM that exists comes back for ever, whatever happens to other VMs; `DeletedIsUnpinned`; `EditsImplemented` (refinement of `DomainEdits` for each VM and device) |
| `hostdev_stale_pass` | 1 VM, 1 request, no outside event | finding 1: `DeletedStaysOut` is violated |
| `vnc_live` | 1 VM, 1 request; failing virsh, re-saves, console removed, deletion, restarts; 24 k states | `ExposedEntryHasPassword`: no entry, in memory, in the file or in the hands of a request, asks for all interfaces without a password; `PinnedConsoleProtected`, `PinnedListenRestored`, `ReconcilerSettles`: the reconciler repairs, and then stops writing |
| `vnc_lost_update` | 1 VM, 1 request, 2 passwords, re-saves | finding 2: `PinnedPasswordApplied` is violated under fairness |
| `tpm_live` | 1 VM, 2 requests, every event; 15 k states | `OperatorsTpmKept`: the operator's device is replaced only by a define of an old dump; `PinnedTpmRestored`, `ReconcilerSettles`; `EditsImplemented` (refinement of `DomainEdits` for each VM); `TypeOK`: never two TPMs |
| `autostart_boot` | 1 VM, every event; 14 k states | `WatchdogDormant`, `OrchestratedOnce`, `TypeOK` (no negative delay reaches the file) |
| `autostart_live` | 2 VMs of equal order, one watched; guest crashes, pauses, deletion; 53 k states | `EnabledVMStarts`, `KeepAlive` |
| `schedule_prune` | 1 VM, five schedules to put, one name of the user's; failing virsh and saves, restarts, zone; 585 k states | `SpacedApart`: two claims of a schedule are an interval apart; `NewestSpared`: a snapshot is pruned only after `keep` later ones; `TypeOK`: no negative keep |
| `mounts_live` | 2 entries, 2 shares, 2 mount points of which one is read-only, 1 request beside the automount; failing and late mounts, restarts, reboots; 553 k states | `StackBounded`: never more mounts on a point than concurrent callers; `PasswordNeverBlanked`; `AutoMounted`: a listed entry is mounted or shows an error; `TypeOK` |
| `backup_live` | 2 requests, 2 jobs, a list of one, one disk, a clock that may go back; failing saves and a stop at any step; 1.4 M states | `StoreIsAtomic` and `JobsEnd` (refinements, the latter with liveness); `RememberedWasUsed`, `BackupDirValid`, `NewestListed`; `TypeOK`: the file is never torn |
| `domain_edits` | one part of each kind, 2 networks, 1 request and both reconcilers; failing virsh, re-saves, deletion, restarts; 74 k states | `OthersPartsKept`: no editor changes the part of another, or the interface, except by defining an outdated dump; `RemovedOnRequest`: a part is taken out only by a DELETE of it, from outside, or by such a define; `RepairsConverge`: the reconcilers end with every pinned part in the document |

### Bounds, and why they are enough

The state is finite without counters except `run.tries`, bounded by `Tries` (2
instead of 12: one retry that is not the last, and the last). Two requests show
every pairwise interleaving of handlers; with the reconciler that is three
actors over one VM, and VMs interact only through the list of a pass: hence two
VMs in the runs whose question is about a pass (`hostdev_live`,
`autostart_live`), and one elsewhere. Two spellings are the least with an alias.
In `vnc_live` one password suffices, since the properties ask whether
there is one; the lost update needs two to tell old from new. No port is
needed where the property is about the address; `Port = {}` leaves autoport. The
sets `PutBoot` and `PutWatch` hold an early entry with a delay, a late watched
one whose delay is negative, and a disabled one. In `schedule_prune` `Horizon` is 3, the least with which an interval of two
hours is over, or three snapshots meet a `keep` of two; `Span` is 4, so that an
interval of 5 hours overflows and is due at once; `Shift` is 2, so that a name
may sort before every earlier one. Schedules share nothing but the tick, one at a
time, so one VM. In `mounts_live` the request and the automount are the two callers
that a pile needs, and two entries with the same mount point the two shares. In
`backup_live` `MaxJobs` is 1 and the clock has two values, so that an insert
may find a newer, an older or an equally old job on a full list; two requests
are one more than the mutex lets save. In `domain_edits` one part of each kind is
enough for a stale define to undo an attachment and a repair; two `Defined` parts and no
attached one (85 k states) were checked as well and pass. Two requests on one VNC
pin are not in a run: theorem `ExposedIsProtected` covers any number.
Requests are interchangeable, so `hostdev_restart`, which checks no liveness, uses symmetry. The proved invariants hold for
every size anyway (section 4). Deadlock is checked in every run.

### Fairness, and why the code justifies it

* The reconciler, `Run` and the watchdog go on: weak fairness of `Pass`,
  `Orchestrate`, `Watch`. Each is a goroutine around a `time.Ticker` or a loop
  with finite delays, and every virsh call is ended by a ten-second timeout.
* In VncPins, TpmPins, Mounts and DomainEdits a request that has begun ends (`WF` of `Continue`), for the same
  reason; no fairness makes requests *begin*. HostdevPins needs none.
* Mounts: `WF` of every caller and of the automount: a mount or umount is ended by its
  twenty-second timeout. `Backup`: `WF` of every job's goroutine, none of whose steps
  waits (qemu-img is killed after six hours). Neither needs a command to succeed.
* Strong fairness of *successful* virsh calls of a pass (HostdevPins, VncPins, TpmPins,
  DomainEdits) is an assumption about the
  host, not about the code: libvirt, asked the same again and again, does not
  refuse for ever. `WF` of `LibvirtUp` (libvirt answers in the end) is another.
* No user, guest or official-UI action, and no restart, is fair.

### Findings

1. **A pass re-attaches a deleted device** (`hostdev_stale_pass`). "Unpin first
   so the reconciler will not immediately re-add it"
   (`internal/handlers/handlers.go:724` and `:829`): the pass that is already under way
   holds its own list. The device is back in the config without a pin. Theorem
   `OnlyOldPassReattaches` shows that no pass that begins later can do it.
2. **An old password can stay** (`vnc_lost_update`). A pass that has dumped the
   document to restore the old password may define it after a POST has defined the
   new one; from then on `VNCHasPassword` is content with the wrong one.
   "Keep pinned VNC console passwords applied" (`main.go:174`).
Met while modelling, and deliberately outside the instances of the passing runs:

* A restart of the daemon before `Run` has written its marker (it does so when it ends,
  after all delays) orchestrates again and starts a VM that was shut down by hand
  meanwhile, against `internal/autostart/store.go:142-144`. `OrchestratedOnce` and theorem `HandStops` begin with the marker.
* `prune` goes by the prefix alone and `snapshotCreate` accepts `auto-...` as a user's
  name, so such a snapshot may be pruned; "manual snapshots are never touched"
  (`internal/schedule/schedule.go:18-20`). Theorems `NewestKept` and `ManualSnapshotsStay` name the assumption.
* `KeepAlive` fails when libvirt does not answer all of `Run`'s tries: `Run` ends
  without the marker, and the watchdog stays dormant for the whole boot.
  `autostart_live` therefore admits no "slow libvirt", and no failing virsh.
* `DeletedIsUnpinned` fails when the save of a DELETE fails and the daemon
  restarts, when a device is pinned under two spellings (the pin under the
  other one stays), and when a POST for the device is under way beside the
  DELETE. `hostdev_live` has one spelling, one request and no failing
  saves; theorem `DeletedStaysUnpinned` names these three as assumptions.
* A POST with a password alone replaces the whole entry, so a pinned address
  is dropped from the store (it stays in the document).
* `virsh define` creates a domain that was deleted between dumpxml and define.
  `Redefine` models it, no property forbids it, and theorem `DeletedStaysDeleted` says that nothing else does.
* A define of a listen address from an outdated dump takes a new password out again, until the
  next pass; theorem `ConsoleKeepsPassword` names this case.
* When the local clock is set back (zone, end of summer time), the names of new
  snapshots sort before the old ones and `prune` deletes the newest, even the
  one it has just taken. `NewestSpared` has the premise `zone = 0`.
* An `interval_hours` of 2562048 or more overflows and may make the schedule due at
  every tick. `SpacedApart` has the premise `hours < Span`.
* A tick prunes with the `keep` it copied: a PUT that raises `keep` meanwhile comes too
  late for that tick. `NewestSpared` speaks of the copied one.
* A daemon that stops between the saved run clock and the snapshot loses
  the snapshot of that interval.
* Mounts: a PUT creates an entry when a DELETE comes between its look and its write
  (`handlers.go:165`); a mount point that cannot be made leaves no `LastError`; `setError`
  after a DELETE leaves an error of an entry that is gone; a PUT that moves the
  mount point, a failed umount, or a mount that is under way during a DELETE leaves a mount
  without an entry; PUT with `auto_mount` does not mount, POST does. Two callers may
  mount two shares on one point, and one umount takes off one.
* Settings: of two requests that read, change and write, one loses its change
  (`settings/store.go:82`). An external snapshot in `/<vm>` makes `/` the remembered base
  (`handlers.go:590-601`), which `settingsHandler` would refuse ("a bad one saved here would come
  back as a pre-filled default", `handlers.go:846-849`); hence `BackupDirValid` speaks of backups only.
* Backup: the VM may be started during the copy; two backups of one VM in the
  same second share a directory; the manifest's error is dropped; `domain.xml` is dumped
  without `--security-info` and `--inactive` (`virsh.go:154`), so it lacks the VNC password.
* Interfaces: when attach-interface fails the interface is gone, and the retry is a 404; a
  stale define that falls between detach and attach gives two interfaces of one
  MAC address, or takes the new one away. A part that was removed comes back by a stale define
  of another tab. All of this is in the model of `DomainEdits`.

## 4. What is proved

Each `*_proofs` module proves, for every value of the constants (any number of
VMs and requests, any events, any number of steps):

| theorem | module | statement |
|---|---|---|
| `TypeCorrect` | all eight | `Spec => []TypeOK` |
| `AckedPinsSurvive` | `HostdevPins_proofs` | `Spec => []AckedPinSurvives` |
| `MemoryIsSaved` | the six over `PinStore` | `Spec => []SavedUnlessFailed` |
| `StoreIsAtomic` | the six over `PinStore` | `Spec => Store!Spec`, with `Store` the `AtomicStore` of what the component keeps |
| `DeletedStaysUnpinned` | `HostdevPins_proofs` | `[]DeletedIsUnpinned` under three assumptions: saves succeed, one spelling per device, one request at a time |
| `OnlyOldPassReattaches` | `HostdevPins_proofs` | `Spec => PassesKeepToList` under the same assumptions: only the pass that was under way at the DELETE can bring the device back |
| `EditsOneDocument` | `HostdevPins_proofs` | `Spec => EditsImplemented` (refinement of `DomainEdits`), when a device has one spelling |
| `ExposedIsProtected` | `VncPins_proofs` | `Spec => []ExposedEntryHasPassword` |
| `RepairsReadBack` | `VncPins_proofs` | `Spec => RepairsAreReadBack`: the next check finds what a repair defined |
| `ConsoleKeepsPassword` | `VncPins_proofs` | `Spec => PasswordsStay`: a document loses its password only by DELETE, from outside, or by an outdated define of an address |
| `OperatorKeepsTpm` | `TpmPins_proofs` | `Spec => OperatorsTpmKept` |
| `EditsOneDocument` | `TpmPins_proofs` | `Spec => EditsImplemented` (refinement of `DomainEdits`) |
| `WatchdogWaitsForRun` | `Autostart_proofs` | `Spec => []WatchdogDormant` |
| `OneRunPerBoot` | `Autostart_proofs` | `Spec => []OrchestratedOnce` |
| `HandStops` | `Autostart_proofs` | `Spec => HandStopsRespected`: with the marker, what was shut down by hand stays down but for the user, a watchdog that was about to start it, and a reboot |
| `EveryVMHasOneTurn` | `Autostart_proofs` | `Spec => EachVMOnce`: `Run` gives no VM a second turn |
| `IntervalRespected` | `Schedule_proofs` | `Spec => SpacedApart` |
| `ScheduledSnapshots` | `Schedule_proofs` | `Spec => SnapshotsAreClaimed`: a snapshot is the one of the last claim, so that `SpacedApart` is true of snapshots |
| `ManualSnapshotsStay` | `Schedule_proofs` | `Spec => ManualUntouched`, assuming `HandNamesApart`: no step of the scheduler removes a snapshot made by hand |
| `NamesAreUnique` | `Schedule_proofs` | `Spec => []OnePerName` |
| `NewestKept` | `Schedule_proofs` | `Spec => NewestSpared`, assuming that no user's name begins with `auto-` (`HandNamesApart`) |
| `MountsDoNotPileUp` | `Mounts_proofs` | `Spec => []StackBounded` |
| `PasswordsKept` | `Mounts_proofs` | `Spec => PasswordNeverBlanked` |
| `RequestsRemove` | `Mounts_proofs` | `Spec => OnlyRequestsRemove`: the automount takes no entry and no mount away |
| `StoreImplementsAtomic` | `Backup_proofs` | `Spec => StoreIsAtomic` (refinement) |
| `OnlyUsedRemembered` | `Backup_proofs` | `Spec => []RememberedWasUsed` |
| `BackupDefaultValid` | `Backup_proofs` | `Spec => []BackupDirValid` |
| `ListHoldsNewest` | `Backup_proofs` | `Spec => []NewestListed` |
| `JobsEndOnce` | `Backup_proofs` | `Spec => JobView!Init /\ [][JobView!Next]_View`, the safety part of `JobsEnd` |
| `EditorsKeepToTheirPart` | `DomainEdits_proofs` | `Spec => OthersPartsKept` |
| `OnlyDeleteRemoves` | `DomainEdits_proofs` | `Spec => RemovedOnRequest` |
| `DeletedStaysDeleted` | `DomainEdits_proofs` | `Spec => RevivedByDefine`: a deleted domain comes back only from outside or by an outdated define |

Assumptions on the constants: `CanonAssumption` (`strings.ToLower` is
idempotent), `PasswordAssumption` and `PortAssumption` ("" and 0 stand for
"none"), `PutAssumption`, `TriesAssumption`, `HandNameAssumption` (what a name is),
`TimeAssumption`, `OfficialAssumption`, `FormAssumption`, `PointAssumption`, `ActorAssumption`
(finitely many requests), `DirAssumption`, `IdAssumption`, `JobsAssumption`. TLC evaluates all of them.

The properties `PassesKeepToList`, `RepairsAreReadBack`, `PasswordsStay`, `HandStopsRespected`,
`EachVMOnce`, `ManualUntouched`, `SnapshotsAreClaimed`, `OnePerName`, `OnlyRequestsRemove` and `RevivedByDefine`
are stated beside their theorems, and no configuration lists them.

What the parts say together. Each component over `PinStore` implements `AtomicStore` (`StoreIsAtomic`), and the
step-by-step save, failing or cut short anywhere, implements it as well (`StoreImplementsAtomic`): this is why the
modules may make a save one step. `TpmPins` and `HostdevPins` implement `DomainEdits` (`EditsOneDocument`), so that
what is proved there of any number of parts (`OthersPartsKept`, `RemovedOnRequest`, `RevivedByDefine`) is true of the
document as these handlers and reconcilers edit it. The last step is taken on paper: the prover does
not carry a temporal theorem through an instance that has a parameter.

The arguments:

* *AckedPinsSurvive.* By itself not inductive only in types: an add keeps
  every acked pin in memory and file (a failed save acks nothing and leaves the file), a remove takes
  its own pin out of `acked`, a failed save leaves the file a superset, and a
  restart loads a file that holds all acked pins.
* *DeletedStaysUnpinned.* Strengthened by what requests carry: memory and file are equal,
  and the pin a DELETE is about to report as gone is not in memory.
* *StoreIsAtomic, MemoryIsSaved.* `StoreSteps` finds for every action the contents it saves, or that it
  leaves the store alone or reads it again; a restart changes memory only after a failed save.
* *OnlyOldPassReattaches.* `Carried` is what a pass has still on its list or in its hands. It is memory at the begin, where
  `DeletedIsUnpinned` says that nothing deleted is in it; every later step shortens it (`PassShortens`), and what
  is attached is in it (`PassAttaches`).
* *EditsOneDocument.* Each action is shown to be a step of `DomainEdits` on the VM (and device) it is about, and a
  stutter on every other. Types are not enough: a pass must not have on its list what it is at work on
  (`ListedOnce`), a deleted domain must leave nothing behind for the next one of its name (`GoneIsBlank`), and what a
  restart loses a failed save must have lost (`SavedUnlessFailed`, `FailedSave`). With two spellings one device would have two
  pins, and one pass two turns for it; hence the assumption in `HostdevPins`.
* *ExposedIsProtected.* The invariant alone is not inductive: a request for an
  address alone reads the pinned password in one lock and writes the entry in a
  later one, when the password may be gone. The strengthening `AddressAlone` says that a
  request on that route carries the local address, so that whatever password it
  reads, the entry it writes is safe.
* *OperatorKeepsTpm.* Only a define replaces a device (`RedefineReplaces`), and `SetTPM`
  makes the emulator of anything but the operator's device; so what was dumped
  was another document (`RequestTakesOver`, `PassTakesOver`).
* *RepairsReadBack, ConsoleKeepsPassword.* `WhatIsDefined` says what the defines that are on their way write: that of a request
  that sets a password writes the password of its entry, and that of a repair has a console and the password or the
  address of its entry. It was read two commands earlier, and stays what it is while the current document changes.
* *WatchdogWaitsForRun, OneRunPerBoot.* One inductive invariant, `MarkerDivides`:
  while `Run` is not idle there is no marker, and while the watchdog is in a
  pass there is one. Its delicate steps are `RunMark` (`Run` ends and the
  marker appears in one step), a restart (the pass is lost, the marker is
  read) and a reboot.
* *HandStops.* From `MarkerDivides` and `LibvirtAnswered` (nobody has shut down a VM by hand before libvirt
  answered): with the marker `Run` is idle, and libvirt's own autostart is over, so that only the user, the watchdog
  and a reboot are left.
* *EveryVMHasOneTurn.* `OneEntryPerVM`: the copy `Run` works on has one entry for a VM, and none for the one whose turn it is.
* *ScheduledSnapshots.* `ClaimsAreTried`: what a tick has still to do was claimed by this tick, or deleted since.
* *ManualSnapshotsStay.* `AutoIsOfATick`: a snapshot with the prefix is of a tick, and `excess` holds only such names.
* *IntervalRespected.* The invariant `RunClockKept` says that a schedule claimed
  since its run clock was last lost has that time as its run clock (and, so that a
  restart keeps it, that memory and file differ only after a failed save). An edit keeps
  the clock, so a claim is due by the same clock; `IntervalFits` shows that below `Span`
  the product does not overflow, so being due means that the interval is over.
* *NewestKept.* The invariant `RetentionInv`: while the zone is 0 the names with the
  prefix are the times of ticks that took a snapshot (`NamesAreTimes`), and every name
  on the list of an ongoing prune has at least `keep` later ticks behind it
  (`ExcessIsOld`). A deletion by hand removes names but not `taken`, so the
  second part survives it; at `TickList` it follows by an injection from names to times.

* *MountsDoNotPileUp.* Not inductive by itself: a caller that has found the point free is about to
  add. `CallersBound` bounds the mounts on a point *plus* the callers that are about to mount
  there by the number of actors: a caller joins the second group only when it finds the point
  free, so that nothing but callers is counted, and a mount moves it into the first.
* *PasswordsKept.* An edit with an empty password takes the one in memory, in the same step; a
  restart keeps it because memory and file differ only after a failed save.
* *RequestsRemove.* `BootMounts`: the goroutine of the start looks entries up only to mount them, so that it is never
  at a step of a DELETE or an umount; an edit never writes what stands for no entry.
* *StoreImplementsAtomic.* `TmpWhole` says that at the rename the temporary file holds what is in
  memory. `Acquire`, `Truncate` and `Write` map to stutters because `Seen` does not change
  before the mutex is free; `Rename` maps to a `Save` that succeeds, `Fail` to one that fails, and
  `Stop` to `Reload`, wherever the save was.
* *OnlyUsedRemembered, BackupDefaultValid.* `DirInv` carries the claim through every place a directory
  is in: memory, file, temporary file, the record before the save, and the requests.
* *ListHoldsNewest.* `ListInv` adds that the jobs on the list have started and that those pushed
  off are others; the cut leaves every job it drops no newer than every one it keeps.
* *JobsEndOnce.* A job's goroutine ends it once because its `work` is `None` from then on;
  an insert maps to `Start`, whatever it prunes, a step of an unlisted job to a stutter.
* *EditorsKeepToTheirPart.* `EditInv` says that a pass works on the part of its own reconciler and that a
  dump is the document as it was (`DumpIsSeen`); a define that is not outdated is then an edit of the
  current document (`EditChangesOne`).
* *OnlyDeleteRemoves, DeletedStaysDeleted.* From the same invariant: an edit of the current document takes a part out only when it is
  that of a DELETE (`EditTakesOut`), and what was dumped is a document, hence not the current one when the domain is gone.

Only model-checked: all liveness properties (`EveryPinRestored`,
`PinnedConsoleProtected`, `PinnedListenRestored`, `PinnedTpmRestored`,
`ReconcilerSettles`, `EnabledVMStarts`, `KeepAlive`, `AutoMounted`, `RepairsConverge`, and the liveness part of `JobsEnd`), which are beyond the prover because of
fairness and ENABLED. The violated properties are refuted, not proved.

## 5. Not modelled, and why

* Listings and metrics (`lsusb`, `lspci`, `domstats`, storage targets): they read
  the host and change nothing.
* Validation of identifiers, names and passwords: requests carry valid ones; an
  invalid one is answered 400 before any state is touched.
* Time: tickers, delays and timeouts appear as the order of events only.
* `internal/watchdog` (writes two systemd units once), config, build information,
  the browser code.
* The file system itself: a rename is atomic and a renamed file survives a
  stop of the daemon. Power loss in the middle of a rename is not modelled (the code does not sync).
* Files of backups and snapshots, and the copy of a disk: `qemu-img` either succeeds or fails.
* The snapshot tree: revert, children, and the columns of `snapshot-list`. Snapshots are
  a set of names in `Schedule`; the tree is libvirt's, and what the daemon adds to it is parsing.
* The gateway's retry loop (`gateway.go:97-135`): one goroutine that posts the same route again; its only state is the delay, which is compared before it is doubled and
  so reaches 32 seconds instead of the 30 of `maxDelay`.

## 6. What could be added

1. `Snapshots`: the tree and the files of external snapshots, revert, deletion with
   children, and the name that survives the round trip through the columns of
   `snapshot-list`; composed with `Schedule`.
2. Pure algorithms as functions: editing the graphics tag, snapshot file names,
   against reference definitions over bounded inputs.
3. A mapping of VncPins to `DomainEdits` with two parts for one pin: `DomainEdits` would need requests that
   edit several parts before they pin.
4. A lock over dumpxml and define would remove the outdated defines: the premise `Stale` of
   `OthersPartsKept` shows where.
