# A TLA+ model of sigmond

sigmond runs an unattended HF receiving station: it installs and starts the
client recorders of an RX-888 software radio, keeps the radio's USB link and
its `radiod` alive, brings the station's software to a release, decides who may
upload, and keeps the disks from filling. This directory models the parts of it
that act while nobody watches, or in several steps that may be cut short: the
ones that cut USB power, restart services, stop clients, move checkouts and
write switches.

## 1. Inventory

| Part | State it keeps | Operations | Talks to |
|---|---|---|---|
| SDR recovery (`bin/sigmond-sdr-recover`, timer every 30 s, and the `--ensure-present` gate of bring-up) | `sdr-recover.json`: learned port, absence, cooldown, latch, alarm mark | learn, blip an underspeed link, decide, reset a port, classify, restart the station, alarm | USB bus (sysfs, uhubctl), radiod's journal, lifecycle lock, event record |
| Manual hold (`--off`, `--on`, same file) | `sdr-hold.json` | take a card down under a hold, bring it back | recovery timer and watchdog read the hold |
| radiod watchdog (`bin/sigmond-radiod-watchdog`, `timing_judge.py`) | cooldown stamps in `/run`, the honoured stamp | honour a restart request once, restart a wedged radiod | hold file, hf-timestd's request, systemd |
| Consumer hook (`smd admin radiod restart-stale-consumers`, `radiod_ready.py`) | none; it compares start times | wait for radiod, revive and restart the consumers older than it, look again | lifecycle lock, systemd |
| Storage ledger (`lib/sigmond/storage/`, every two minutes) | `state.json`: trim records, stops, stages, du cache, alarm book | measure, decide, ask clients to trim, stop a client, raise and clear alarms | clients (subprocess calls), systemd, `storage.toml`, the journal |
| Alignment (`smd align --apply`) | checkouts, pins, build stamps, `aligned.json` | fetch, check out, pin, build, roll back, re-exec, record, restart, check | git, systemd, lifecycle lock |
| Sink switches (`sink_carryover.py`, `sink_levers.py`, `sink_mirror.py`, `commands/uploader.py`, `commands/config.py`) | the carry-over's marker, `[uploads]`, env files, the uploader's link record | carry over, repair the mirror, late clients, levers, site orders | hs-uploader's `site.toml` and client files, install lock, systemd |
| FFT wisdom (`sigmond-wisdom.service`, `wisdom.py`) | wisdom file and sidecar, suspend marker in `/run` | suspend the station, plan, install, resume | `smd start`, `stop`, `restart`, systemd |
| Safe writes (`safe_write.py`) | the file it replaces | write a temporary, sync, own, rename, sync the directory | root-owned state files |
| Lifecycle (`lifecycle.py`, `install_lock.py`, `unit_intent.py`) | the lifecycle lock, unit intent | ordered start and stop of units | every command of `smd` |
| SDR events, radiod rename and migration | event log | record, assess episodes; rewrite configuration once | recovery, watchdog |
| Sink writer (`hamsci_sink/`) | spool | buffer, carry over | uploaders |
| Install, update, manifests | component state, manifests | git and package steps | `smd` |
| Coordination, topology, catalog, harmonize | TOML files | parse, merge, render | everything |
| Timing watchdogs, heartbeat, snapshot, fleet, TUI, discovery, CPU placement, Proxmox scripts | little or none | report, probe, render | everything |

What is hard in these parts:

* **Files read once and written back whole.** The recovery helper's state file,
  the hold file and the ledger's state file are each loaded at the start of a
  run or command and rewritten later, without a lock on the file (the ledger
  has one). Runs last from seconds to minutes.
* **Two programs, one switch, and one of them takes no lock.** A site order and
  the manifest step write the same switch; only the step takes the install lock.
* **Death between two steps.** A run killed with the port off, a command killed
  between hold, stop and cut, a pass that faults after it stopped a client, an
  alignment killed between checkout, build and record, a carry-over before its
  marker, a planner between the wisdom and its sidecar, power lost inside a
  replace.
* **Words before memory.** Journal lines go out before the state that remembers
  them; a request's stamp goes out before the restart it stands for.
* **Stale evidence.** Bus paths that name another port after a reboot, stall
  lines from before the last reset, cached disk figures, a hold or a hands-off
  mark read minutes before it matters, recorded link targets, start times.
* **A world that does not stand still.** radiod starts again under the hook that
  answers its last start; an operator starts services while the planner plans.
* **Timers that must not loop and must not starve.** Grace, cooldowns, latch,
  boot grace; demand deadline, grace for unmanaged clients, stale records.

`PROJECT.json` lists every hazard at its line, with the properties that cover
it or the reason none does.

## 2. Modules

| Module | Models |
|---|---|
| `SdrRecover` | the automatic path of `sigmond-sdr-recover` |
| `SdrRecoverProofs` | its theorems |
| `SdrHold` | `--off`, `--on`, the hold file, the lifecycle lock, and the recovery timer and watchdog as far as they meet the hold |
| `SdrHoldProofs` | its theorems |
| `StorageStages` | `store_stage`: levels, projection, hysteresis |
| `StorageLedger` | the ledger's pass over `StorageStages` |
| `StorageLedgerProofs` | its theorems |
| `MCStorageLedger` | the registrations (client and store pairs) its runs use |
| `StorageAlarms` | the alarm book over `StorageStages`, in the passes that use it |
| `Align` | one release brought to the station by runs of `smd align --apply` |
| `AlignProofs` | its theorems |
| `MCAlign` | the plan, services and dependencies its run uses |
| `SinkSwitch` | the manifest step and the site order on the sink switches |
| `SinkSwitchProofs` | its theorems |
| `UploaderLinks` | the lever on a linked `wspr-uploader` and its record |
| `ConsumerHook` | the hook of every radiod start |
| `RadiodWatchdog` | the watchdog's pass |
| `WisdomPlan` | the planner's unit and the lifecycle commands around it |
| `SafeWrite` | `write_owned` step by step |
| `AtomicFile` | what a caller of it may count on; `SafeWrite` implements it |
| `Parts` | `UploaderLinks`, `SafeWrite`, `StorageAlarms`, `RadiodWatchdog` and `WisdomPlan` side by side, each with its own variables and constants, and their safety properties by name |
| `LinksFilesProofs` | the theorems of `UploaderLinks` and `SafeWrite` |
| `AlarmsProofs` | the theorems of `StorageAlarms` |
| `RadiodProofs` | the theorems of `RadiodWatchdog` and `WisdomPlan` |
| `MCParts` | `Parts` with `ConsumerHook` and a small `StorageLedger`: seven instances in one run |

### SdrRecover

`disk` is the state file and `run[r]` a live run of kind `"timer"` or `"gate"`
with its copy `st` of the file. `StartPlain`/`StartBlip` are the beginning of
`main` (device_present, load_state, now, and the off half of `promote_link`);
`BlipBack` is its other half. `main` from the learn step to the decision
changes nothing but the run's own copy, so its stages are operators on that
copy (`Learned`, `Tracked`, `Wedged`, `Braked`, `Cycles`, `ResetCanHelp`,
`Targets`, `Clean`) and the five ways out are one action each: `DecideNothing`
(no hub, no unit, not switchable), `DecideHold`, `DecideAlarm`, `DecideRefuse`
and `DecideReset`, each with the save the code makes on that path. `DecideReset`
only decides, stamps and saves; the off half of `cycle_port` is a step of its
own, `PortsOff`, so that a device may arrive, a run be killed or the host reboot
between `partition_targets` and the cut. `PortsOn`, `DeviceBack`/`NeverBack`,
`ClassifyRecovered`/`ClassifyLatched` and `RestartOk`/`RestartFailed` are the
rest of a reset. On a ganged hub (`Ppps = FALSE`) a switch of any port, which the
helper makes by its retry under `-f`, is a switch of all (`Ganged`), and
`bootstrap_locations` finds no port. A device on a dark port is off the bus, so
nobody sees it there (`Occupied`).

Time is kept as ages: a stamp is "how long ago", `Tick` ages every stamp, and
an age saturates where no guard of the code tells larger ones apart. A run's
`now` is the age of its own clock reading, so `now - stamp` is
`stamp - run.now`. The code bounds each waiting step, and `MayTick` lets time
pass in it only that long.

Data left out: hub and port names are `"here"` (the card's jack),
`"elsewhere"` or `"stale"` (a path that names no hub); the two halves of a jack
are one port with a `reach` (`"none"`, `"usb2"`, `"ss"`: what uhubctl can
switch); the journal is the age and number of its newest stall lines with
restart evidence. The card itself is moved by hand only outside the seconds
between a run's look at the bus and its switching of the port; other devices
come and go at any moment.

World actions (the card vanishing, appearing, loading firmware, replugged;
other devices; stalls; kills; reboots that renumber buses) are bounded by
`MaxFaults` faults of the kinds in `FaultKinds`.

### SdrHold

`file` is what a reader of `sdr-hold.json` finds. `save_hold` uses
`Path.write_text`, so a write is two steps, truncation (`OffTruncate`,
`OnClear`) and write (`OffWrite`, `OnWrite`), or fails and is only logged
(`OffSaveFails`, `OnSaveFails`). `man[c]` is the command at work on card `c`
with the holds it loaded; `tick` is a run of the recovery timer, which reads
the hold once (`TickStart`) and then may or may not find a reset due (that is
`SdrRecover`'s subject); `wd` is a pass of the watchdog. `OffStopFails` is
`_stop_station` whose `systemctl stop` fails or times out, of which `--off` takes
no notice; `OnBlip` and `OnBlipBack` are the one blip of `wait_for_running_card`
for a card that comes back below SuperSpeed. `put` is history: the jacks `--off`,
or that blip, put down. Each card's hub switches its port alone.

A run of `smd` that holds the lifecycle lock is not a process of its own here.
Every hold `--off` writes names its radiod unit, so the blanket case of
`_held_units_detail` is left out.

### StorageLedger

`disk` is the ledger's state file, `pass` the live pass with its copy.
`PassStart` reads configuration and state, drops stale records and those of
clients an operator started; `PassDecide` measures, computes stages, asks
(`_act_trims`), and collects the stops that survive the answers; `StopSpares`,
`StopClient` and `StopFails` are the stop loop, one client after the other;
`PassEnd` is record upkeep and the write. `PassFault` is `_fault` (the old
state with this pass's stops), `PassKilled` a pass that writes nothing.

One unit of time is one period of the timer and a pass is shorter than that.
Bytes are abstracted: `over` says which client is over its target on which
store, and a measurement is a copy of that, perhaps from the du cache. A
client's `answer` says which of its calls succeed. A run's pool limit, clean-up,
rates and status file are left out: they do not feed back into who is asked or
stopped, except through `over`, `short` and `soon`, which are free. The alarms
are `StorageAlarms`' subject.
Which of a client's stores a stop names is left open.
`since`, `down`, `quiet` and `lately` (how long ago a client was last over its
target on a store) are history for the properties. A du entry is a verdict
against the target, so a target is taken to stand for the half hour an entry
lives. `_fault`'s own write of the state file does not fail here; the code
swallows such a failure (`tick.py:910`).

### StorageAlarms

`disk` is the stage and the book of the state file, `said` what the journal
last said of each key. `Begin` reads the state, `Run` computes the stage and brings
the book up to date (`AlarmBook.update`: `Raises`, `Reminds`, clear), `Say` writes
the journal lines that gave (`Lines`), `Write` and `Status` write the files. The
book changes before its lines go out, and `journal()` may raise at any of them: a
pass that faults, there or elsewhere, goes through `_fault` (`Faults`, `FaultSay`,
`WriteFault`): every other alarm is held as the book has it, the fault's own
lines may be lost in turn, and the old state is written with the new book. The keys are the fill alarm of
one store, with its three severities, and `ledger-fault`; the other keys take
the same path. `since`, texts and the status rows are left out. `astray` (the
keys whose line was refused, or whose state was lost after its line) and `seen`
are history.

### Align

One run at a time holds the lifecycle lock (`run`). `ItemCurrent`, `ItemRefused`,
`ItemLeft`, `ItemCheckout`, `ItemPin`, `ItemInstall`, `ItemUndo`, `ItemRebuild`,
`ItemClone` and `ItemFresh` are what `align_apply` does with one component of
the plan; `ItemsDone`, `BringUp`, `Record`, `PlanRestarts`, `RestartRadiod`,
`RestartOne` and `Check` are the rest of `_align_apply` in `bin/smd`, with the
re-exec when sigmond itself moves. `Kill` ends a run anywhere; `Crash` and
`Restart` are services that die or are started by somebody else.

A commit is a number, an ancestor of every larger one, and a release pins every
component at one commit. Staleness, which the code reads from start times and
reflogs, is kept as what it can tell: `moved`, `built`, `behind`. `aligned.json`
is rewritten in place: a `Record` that is killed or fails part way (kind `torn`)
leaves a file nobody can read. Each move is taken to touch an install trigger. Left out: byte budgets, signatures, the
read-only report, `--only`. `torn` (left between two commits) and `reported`
(named as down by a finished run of the release) are history.

### SinkSwitch

`StepCarry`, `StepStanding` and `StepAside` begin the manifest step, according
to the gate and the marker; `StepMirror` and `StepLate` are the work under a
standing marker; `StepWriteSite`, `StepWrite`, `StepRead`, the levers and
`StepMark` are the carry-over, marker last. `OrderBegin`, `OrderRead`,
`OrderSet` and `OrderPatch` are `_site_change`, which runs the levers before it
writes the switch. `LeverWrite`, `LeverRestart`, `LeverVerify` and
`RestartStale` are shared. `Kill` ends either of them
anywhere; `Hands` is what operators and updates do to the files.

A sender is armed by its env file (`env`) and runs with the one it was started
under (`proc`); `old` are processes that run the writer from before the switch.
Levers, their verification and the restart of stale writers reach the clients
the topology enables (`Enabled`, `Reached`) and no others, as `_units_of` does;
the topology does not change in a behaviour. `blind` marks a step that could not
read the time of `writer.py` (kind `writer`), took nothing for stale and went on.
Left out: the mirror in `site-profile.toml`, the magnetometer's TOML lever,
failing feature probes, `_close_doors`, all rendering. `touched` and `last` are
history. Lock waits are left out: one manifest step runs at a time.

### UploaderLinks

The enablement links of the unit, the record and what each process has read.
`LeverBegin`, `LeverRecord`, `LeverUnlink`, `LeverStop` take the links away,
`RestoreBegin`, `RestoreLink`, `RestoreDone`, `RestoreRecord` put them back.
Operators enable, disable, link, follow the printed remedy and change the level.
`owed` is history: what a lever took and nobody has had back.

### ConsumerHook

`HookReady`, `HookLock`, `HookRead`, `HookRevive`, `HookRestart`, `HookRecheck`
and `HookExit` are the command; `HookRetry` is `Restart=on-failure`. radiod may
start again at every step; its start starts the hook's unit, or merges into the
hook that is running. Left out: exit 4 (no catalog) and `--dry-run`. systemd is
external.

### RadiodWatchdog

`Stamp`, `HonourRestart`, `HonourMark` handle a request (stamp first, then the
restart, then the cooldown), `List` and `Check` are the hold filter, cooldown
and both detectors, `Stop` and `Start` the restart. systemd is external:
`Settles` finishes a stop whose client timed out and runs a queued start. Times
are ticks, capped where no guard tells larger ones apart; a pass reads the clock
once and may then last up to `PassLength` of them (`Drags`), so its mark in the
cooldown is older than the restart it stands for. `honoured`, `spaced` (the time
since the watchdog's last restart of a unit, marked or not) and `unmarked` (the
units whose last restart was a request's that never came to its mark) are
history. The judge's evidence for a request is hf-timestd's, which does not use an
id twice. A `systemctl start` that fails is left to systemd (`Restart=`).

### WisdomPlan

`Needed` to `ResumeStart` are the unit: `ExecCondition`, `suspend`, marker,
plan, install, sidecar, and `resume` as `ExecStopPost`. `CmdStart`,
`CmdRestart`, `CmdStop` and `CmdStep` are an operator's `smd` command, one
`systemctl` call per step, in `order_units` order. `Boot` clears `/run`.
`c1` stands for the services that need radiod. `owed` is history: what suspend
stopped and nobody has started or stopped since; `failed` are those of them for
which resume's own `cmd_start` ended in an error, be it a service that fails or
a refusal before any start, with the marker already gone. Every service is taken
to be installed and configured (`cmd_start` passes over the others). Left out: adoption of bundles,
CPU placement, the frequency boost, and `resume`'s own branch for a shutdown,
after which nothing is started: `Boot` is the other side of it.

### SafeWrite and AtomicFile

`Create`, `Write`, `Fsync`, `Own`, `Replace`, `DirSync` are `write_owned`;
`Fails` is an error of any call, with the clean-up it makes. The file system is
external: an inode that was not synced may be torn by a power loss, and the
directory may name any inode it named since its last sync. `AtomicFile` has a
version that grows by one and a durable one behind it. The mapping takes the
version of the inode the path names and the oldest one the disk may name; an
inode that is torn, or not yet its owner's, is no version. `fchown` and `fchmod`
come after the `fsync` and are taken to be durable no later than the rename, which
is true of a journalling file system with ordered metadata. The refusals on links,
owners and sizes are single checks before the first step and are left out.

### Parts and MCParts

`Parts` instantiates five modules in one vocabulary, so that what TLC checks and
what the theorems state are the same definitions: `Uploader!Spec`,
`OwedIsRecorded` and so on, with the constants free in the theorems and given
values in `MCParts.cfg`. The parts share nothing but the count of faults.

In `MCParts`, `part`, chosen in `Init`, says whose behaviour this is;
the others stay in one of their initial states. It is one run in place of
seven, and each behaviour of each part is a behaviour of it. Each part keeps
its own fairness.

## 3. Runs

Every passing run explores all states of its instance. Deadlock is checked
except in `SinkSwitch` and `MCParts`: there orders, moves and faults are
bounded and a part comes to rest when they are spent (the switches settle, the
hook ends, a file is written).

| Run | Shows | Instance |
|---|---|---|
| `SdrRecover_live` | `TypeOK`; `DarkPortRelit`, `LossIsAnswered`: a port left dark is lit, a lost card is answered | timer and gate together on per-port hubs, one fault of seven kinds, with fairness |
| `SdrRecover_timer` | `OneAlarmPerEpisode`, `ResetSpacing`, `LatchStopsResets`; `WedgeResetIsFresh`: no reset on stalls from before the last one; `DarkPortRelit` again, through blips | the timer alone on ganged hubs, jacks with a SuperSpeed companion, reached in both halves or one, one fault of seven kinds, with fairness |
| `SdrHold_ops` | `DarkIsHeld`: a jack put down is under a hold; `PutIsRestored`: `--on` finds it | two cards, one operator, every automatic path, one fault of five kinds |
| `SdrHold_lock` | `RadiodStopsFirst`: after a stop that worked, no power cut under a running radiod | two operators and the timer, failing and killed writes |
| `StorageLedger_faults` | `StopStaysRecorded`, `HungIsStopped` | one client that may be stopped and one never, faulting passes, failing stops, every directive of the operator |
| `StorageLedger_episodes` | `EpisodeEarnsTerm`, `OutageEarnsTerm`, `StartEarnsTerm`, `AnsweredIsSpared`: what a record may be held against | fills around the hysteresis band, missed and killed passes, a client that answers, dies, is started |
| `Align_runs` | `ReleaseRuns`: a run that ends well leaves the release built and running; `ConsumersFollow`; `DownIsLoud`: no later run calls the station aligned while a reported service is down | sigmond, a library, radiod and a client; two faults of fourteen kinds, one change by hand |
| `SinkSwitch_settles` | `OrderStands`, `MarkerMeansQuiet`, `MarkerMeansFresh`, `Settles` | three clients: one under a stop order, one installed late, one not enabled; one site order, one fault of fifteen kinds |
| `MCParts`, hook | `CatchesUp`: once radiod serves for good no consumer is older than it | two consumers, three radiod starts, two faults |
| `MCParts`, links | `OwedIsRecorded`, `OperatorWins`, `LinksComeBack` | two links, two targets, four faults and moves |
| `MCParts`, file | `ReplacesAtomically` (the refinement), `ReturnedIsDurable` | two writers, three versions, two faults |
| `MCParts`, alarms | `BookIsJournal`, `HoverHolds`, `AlarmIsSaid` | four fills around the levels, three moves, two faults |
| `MCParts`, watchdog | `HonouredOnce`, `StoppedIsStarted`, `DetectorsAreSpaced` | one radiod, two requests, three faults |
| `MCParts`, wisdom | `PlansAlone`, `ServicesComeBack`, `CurrentIsCurrent` | radiod and its clients, one missing size, two commands, two faults |
| `MCParts`, ledger | `StopIsRecent`: a client is stopped for what it held within the du cache's time | a client on two stores that turns unmanaged and back, du cached for two periods |

The timings are the smallest that keep the code's order: grace, cooldown, wedge
cooldown and window at 1, 2, 3 and 1 units keep every comparison on both sides
of its boundary; a deadline, a grace and a stale limit of one to three periods
do the same for the ledger (600, 900 and 3600 s in the code). The fault bound
is one where a fault opens a long recovery in which every later step interleaves
with others (recovery, hold, ledger, switches) and two to four in the smaller
parts, so that a fault in the recovery from a fault is reached there. Two faults
in the alignment reach a kill followed by a failure in the run that repairs it.
Device numbers are reused at once, so an enumeration is never known by its number
alone. The theorems of section 5 have no bounds.

The violation runs compare a sentence of the repository with what the code
does; each finding in `PROJECT.json` quotes its sentence:

| Run | The sentence | What the code does |
|---|---|---|
| `SdrRecover_v_latch` | the latch clears only with radiod healthy | inside the boot grace a wedge is not looked for |
| `StorageLedger_v_final` | a client that answers ok in this very pass is not stopped | a failing final call hides the ok trim |
| `SinkSwitch_v_order` | an off order always lands | a manifest step that planned before the order writes its own site state after it |

`AnsweredIsSpared` also has a passing run, on an instance without the event that
breaks it: a final call that fails after an ok trim. `OrderStands` is what
remains of `OrderLands`: an order that landed with no step's write under way is
never taken back.

Other properties hold only without some kind of fault. The module has that kind,
TLC finds the property violated with it, and the run's cfg excludes it; the
hazards name the lines:

| Property | Fails with | Because |
|---|---|---|
| `DarkIsHeld` | two operators; `write`, `torn` | commands write back the holds they loaded; an empty file is no hold |
| `ResetSpacing`, `LatchStopsResets`, `OneAlarmPerEpisode`, `WedgeResetIsFresh` | the gate | two runs each decide from the copy they loaded, and each writes its own back |
| `WedgeResetIsFresh` | `uhubctl` | a failing cycle of stale paths alone takes the cooldown stamp back, the earlier reset's with it |
| `RadiodStopsFirst` | the watchdog; `locktimeout`; `stop` | the watchdog takes no lock; a lock that is not free is given up on; `--off` does not look at what its `systemctl stop` answered |
| `StopStaysRecorded` | `kill` | a pass killed after a stop writes nothing |
| `StartEarnsTerm` | `fault` | a fault in the pass that notices a start restores the old record |
| `StoppedIsStarted` | `dark` | a watchdog killed between its stop and its start |
| `CatchesUp` | `window` | a radiod start merges into a hook that is past its last look |
| `ReleaseRuns`, `ConsumersFollow` | `midrun` | a radiod that somebody starts between checkout and build, or after the restart stage has looked at it |
| `OwedIsRecorded`, `OperatorWins` | `stale`, `link`, `race`; `Procs` with `"order"` | a known line keeps its old target; an operator steps between a lever's read and its write; an order's lever takes no lock |
| `PlansAlone` | `restart`, `inflight` | `smd restart` asks no marker; a start under way asked before it stood, or when it could not be written |
| `ServicesComeBack` | `mark`, `unmarked` | no marker, so nothing to resume |

In other cases the kind is in the run, and the property itself leaves out what the
code cannot do:

| Property | Leaves out | Because |
|---|---|---|
| `DarkPortRelit` | a latched card; on a ganged hub, a card whose path was never learned | the latch brake refuses every reset, so a latched card that is blipped by a run that dies stays dark until it is replugged; `bootstrap_locations` sees no ganged hub, and the blip comes before the learning |
| `ReleaseRuns` | the build of components in `torn` | a kill between checkout and build, or a failed rollback, leaves nothing a later run could see it by, but for a build stamp |
| `DownIsLoud` | what was reported before `aligned.json` was torn | the report is lost with the file |
| `MarkerMeansQuiet`, `Settles` | the senders of clients that are not enabled | they have no units, so the lever neither lowers nor verifies them |
| `MarkerMeansFresh` | the same clients; a step that could not read the time of `writer.py` | nothing counts as stale then, and nobody is restarted |
| `BookIsJournal` | keys in `astray` | `journal()` refused the key's line, or its line was said and the state then lost; the next line that is said and kept ends it |
| `DetectorsAreSpaced` | the cooldown (not the warm-up) after an unmarked restart; the length of a pass | a pass killed, or a client timed out, before the mark; the mark bears the time the pass began |
| `ServicesComeBack` | services in `failed` | resume's `cmd_start` ended in an error for them, with its marker gone |

And some of the code's ways are followed without a property of their own:
a device that comes to a port between `partition_targets` and the cut is cut with
it, and a ganged hub takes every device down (`_uhubctl_sees` says why that is
accepted); `promote_link` looks neither at the latch nor for foreign devices; a pass whose
every learned path is stale keeps its cooldown; a recovery run that passed the
hold's check goes on under a hold written since; a restart request is honoured
under a hold; `final_since` is kept for managed clients; a hands-off mark set
during a pass does not hold back its stops; `align --no-restart` drops the failed list it carried.

## 4. Fairness

* `SdrRecover`: time passes; systemd starts the timer's run again and again
  (`OnUnitActiveSec`); a run that is not killed goes on (every wait in it has a
  timeout). Nothing is assumed of the card, of people, or of the gate.
* `SdrHold`: commands and runs under way go on, a lit jack brings its card
  back, and the operator runs `--on` again until it succeeds (strong fairness
  on `OnLoad`, since other commands may be in the way). This is an assumption
  about the operator, and it is what `PutIsRestored` is about: `--on` must find
  a hold to release.
* `StorageLedger`, `StorageAlarms`: the timer fires, a pass starts and goes on.
  Calls have timeouts, so a hung client does not stop a pass.
* `SinkSwitch`: a step or an order under way goes on, and the manifest step is
  run again (it is part of every order, apply and update). Orders are not fair.
* `UploaderLinks`: levers and raises go on and are run again, as above.
* `ConsumerHook`: the hook goes on and systemd retries it (`Restart=on-failure`),
  a starting radiod serves (it is external, and `CatchesUp` is about a radiod
  that does), and another holder gives up the lock.
* `RadiodWatchdog`: the timer fires and a pass goes on, time passes, systemd
  finishes the jobs it accepted.
* `WisdomPlan`: the unit and a command go on, systemd starts what a boot queued.
  No command is assumed to be given.

Fault counts are bounded, so a liveness property says what happens when faults
stop.

## 5. Proofs

The theorems have no bounds: they hold for any number of cards, clients,
stores, writers, links and sizes, every timing, and any number of faults of the
kinds a theorem does not exclude. What they take for granted of the constants is
named: `TimesAssumption`, `KindsAssumption`, `HoldAssumption`,
`LedgerAssumption`, `LevelsAssumption`, `AlignAssumption`, `SinkAssumption` (a
client that is not enabled starts at `fill`) in the modules, and in
the proof modules `Bounds` and `Sensible` (with the part's name before it where
a module has two), which say that times and bounds are numbers, that a
host has a radiod and that `"none"` is no link target. `AlignAssumption` says
that a service runs from components of the plan, that radiod runs from its own
alone and is not stamped by an install (`BUILT_COMPONENTS` holds radiod only), and
that radiod is no consumer of itself. Every other hypothesis
leaves out a kind of fault or a second actor, and section 3 shows what goes wrong
with it; it is a fact about the code, not a convenience of the proof.

Each module has `TypeCorrect`, one step per action. The theorems of the parts in
`Parts` are about `Uploader!Spec`, `SafeFile!Spec` and so on: each part alone, as
`MCParts` runs them. The other theorems:

| Theorem | States | Leaves out | Inductive invariant |
|---|---|---|---|
| `SdrRecover`: `ResetsAreSpaced`, `LatchedIsLeftAlone` | `ResetSpacing`, `LatchStopsResets` | the gate | `TimerInv` |
| `AlarmsOncePerEpisode` | `OneAlarmPerEpisode` | the gate | `TimerInv`, `AlarmInv` |
| `WedgeResetsAreFresh` | `WedgeResetIsFresh` | the gate, `uhubctl` | `TimerInv`, `StampInv`, `FreshInv` |
| `SdrHold`: `DarkJacksAreHeld` | `DarkIsHeld` | a second operator; `write`, `torn` (`SafeWrites`) | `JackInv`, `OperatorInv` |
| `RadiodIsDownFirst` | `RadiodStopsFirst` | the watchdog; `locktimeout`, `stop` (`Serialised`) | `JackInv`, `LockInv` |
| `StorageLedger`: `StopsAreRecorded` | `StopStaysRecorded` | `kill` | `DownInv` |
| `StopsAreRecent` | `StopIsRecent` | nothing | `RecentInv` |
| `EpisodesEarnTerms` | `EpisodeEarnsTerm` | nothing | `UpkeepInv`, `TermInv("calm")` |
| `OutagesEarnTerms` | `OutageEarnsTerm` | nothing | `UpkeepInv`, `TermInv("resumed")` |
| `StartsEarnTerms` | `StartEarnsTerm` | `fault` | `StartInv` |
| `AnswersSpare` | `AnsweredIsSpared` | a final call that fails after an ok trim | `AnswerInv` |
| `SinkSwitch`: `LandedOrderStands` | `OrderStands` | nothing | `StandInv` |
| `MarkedIsQuiet`, `MarkedIsFresh` | `MarkerMeansQuiet`, `MarkerMeansFresh` | nothing | `PathInv`, `CarryInv` |
| `Align`: `ReportedIsLoud` | `DownIsLoud` | nothing | `ItemInv`, `DownInv` |
| `ConsumersAreFresh` | `ConsumersFollow` | `midrun` (`NoMidrun`) | `ItemInv`, `RestartInv` |
| `ReleaseIsLive` | `ReleaseRuns` | `midrun` (`NoMidrun`) | `ItemInv`, `PlanInv`, `CodeInv`, `RestartInv` |
| `StorageAlarms`: `BookAgreesWithJournal` | `BookIsJournal` | nothing | `JournalInv` |
| `NoFlapping` | `HoverHolds` | nothing | `HoverInv` |
| `UploaderLinks`: `RecordIsKept`, `OperatorKeepsTheirSay` | `OwedIsRecorded`, `OperatorWins` | a second process; `race`, `stale`, `link` (`Undisturbed`) | `RecordInv` |
| `RadiodWatchdog`: `RequestsAreHonouredOnce` | `HonouredOnce` | nothing | `StampInv` |
| `CooldownIsKept` | `DetectorsAreSpaced` | nothing | `CooldownInv` |
| `WisdomPlan`: `VerdictIsTrue` | `CurrentIsCurrent` | nothing | `SideInv` |
| `PlannerIsAlone` | `PlansAlone` | `restart`, `inflight` (`Heeded`) | `AloneInv` |
| `SafeWrite`: `ReturnIsKept` | `ReturnedIsDurable` | nothing | `FileInv` |
| `WritesAtomically` | `ReplacesAtomically`: `SafeWrite` implements `AtomicFile` | nothing | `FileInv`, `HasOldest` |

Why the properties do not carry themselves, and what the invariants add:

* `TimerInv`: a decision is made from the run's copy, and a spacing of file
  stamps says nothing about real cuts unless copy and file agree (`CopyIsFile`)
  and the stamp is never older than the last cut (`SpacingInv`). Between stamp and
  cut the run has only what it decided on (`CutInv`): the reset before is a
  cooldown away, the file bears its stamp and is not latched. The gate is
  left out because it writes back a copy that may predate the timer's stamp.
* `AlarmInv`: the alarm mark must also survive in the copy a run carries through
  a reset, and only a card at SuperSpeed makes a decision forget it. `StampInv`:
  a reset that switched a port stays stamped. It is false with a failing
  uhubctl, which is how the `WedgeResetIsFresh` row of section 3 was found.
  `FreshInv` carries the stall lines of the decision to the cut.
* `OperatorInv`: what `--on` writes back is its copy from the start of the
  command; at most one command is busy, its copy is still the file, the copy
  has every dark jack while the file is torn, and `--on` has lit its jack before
  it drops the hold.
* `JackInv`: what is put down is dark, and nothing on the bus is. `LockInv`: a
  command between its stop and its cut holds the lock and its radiod is down.
* `DownInv`: a client held down does not run (or a pass would take it for one an
  operator started) and is on the list that is written next, the file's or the
  live pass's.
* `RecentInv`: what an unexpired du entry says was so no longer ago than the
  entry's age, on file and in the live pass, so putting an older file back after a
  fault cannot make an old figure look new; and what a pass is about to stop was
  over its target within the cache's time.
* `TermInv(k)`: no record, in the file or in the live pass, is older than the
  client's last reprieve of kind `k`, and what the pass is about to stop has had
  its term since. A file that outlived an outage is the exception: its older
  records stand until the next pass drops them. `UpkeepInv` says that a record
  on file was touched by the last pass that ended well. `StartInv` and
  `AnswerInv` are the same idea for starts, where a stopped client keeps its old
  record until a pass notices it runs, and for answers. The hypothesis
  `k \in Reprieves` of these theorems only says that the history variable keeps
  ages of that kind; it is no condition on the system.
* `StandInv`: what could take a landed order back is a site write of the manifest
  step, and none is planned while the order stands: a repair needs `site.toml`
  missing, and a carry-over needs the marker gone, which falls only while the
  gate is away.
* `CarryInv`: the carry-over plans once and writes its marker many steps later.
  For every client nobody else changed meanwhile, it knows which files are still
  to be written and who will read below upload or off once they are (`Knows`);
  the enabled ones of those are quiet after `verify_levers`, and after
  `restart_stale_writers`, unless it was blind, no enabled process predates the writer it needs (`Fresh`). `PathInv` says where each kind
  of step may be, so that only a carry-over that has written everything comes to
  the marker.
* `PlanInv`: what is installed is what is checked out, but for the item in work
  and what a kill tore (`InstInv`), and while nothing failed, what the plan has
  behind it is at the release (`HeadInv`). `CodeInv` ties the evidence the code
  reads to the commits that run: a process runs what lies in its checkouts, or its
  component is marked as moved and, for radiod, the binary as built.
  `RestartInv`: the restarts still to do cover whatever is stale, so a run whose
  restarts all succeeded has left nothing stale. It is false with `midrun`.
* `DownInv`: every service reported down is named by the live block of
  `aligned.json`, and by the copy of it a run carries while it is to rewrite it.
* `JournalInv`: for each key that is not astray, the book in memory is the journal
  once the pending lines are in it, and the book on disk is the journal unless this
  pass has said a line of the key. What it has said is right even for a key that was
  astray, which is how such a key is brought back.
  `HoverInv`: a stage above the store's own was left with the fill
  `Hysteresis` below its level; this rests on lemmas about `StoreStage`, for all
  levels in order.
* `RecordInv`: a line of the record agrees with its link while the link stands,
  the record is written before the links go, and the raise drops no line of a
  link it still owes.
* `StampInv` of the watchdog: while a restart is pending its stamp is on file,
  and a request still standing after its restart is the stamped one.
  `CooldownInv`: but for an unmarked restart, the stamp the detectors read is at
  most a pass older than the last restart, and a radiod that is up has not been up
  for longer than that restart is ago, so that the warm-up covers the unmarked ones.
* `SideInv`: the sidecar speaks for the file whatever the verdict, and between
  the rename and the sidecar it says what the unit knows and has not written.
  `AloneInv`: the suspend step leaves nothing of a boot's queue, and a command
  begun under the marker does not start radiod.
* `FileInv`: every inode the path names or the disk may name is whole, synced
  and given to its owner, and none is older than what was promised. `HasOldest`
  gives the refinement mapping its oldest version without an induction over
  versions. The refinement is proved step by step: a rename is a `Replace`,
  a directory sync a `Settle`, a power loss a `PowerLoss`, all else a stutter.

Only model-checked: every liveness property (`DarkPortRelit`, `LossIsAnswered`, `PutIsRestored`,
`HungIsStopped`, `Settles`, `CatchesUp`, `LinksComeBack`, `AlarmIsSaid`,
`StoppedIsStarted`, `ServicesComeBack`): reasoning under fairness and about
`ENABLED` is beyond the proof system here.

## 6. What is not modelled

`PROJECT.json` names every component and why. Most of the repository's 76,000
lines have no control to model: configuration is parsed, merged and rendered,
screens are drawn, hosts are probed and provisioned once, reports are printed.
The modules cover the programs and commands that keep state across steps; a
model of the rest would be a transliteration of data. What remains with a
protocol of its own: the sink's writer and spool, the steps of `storage_migrate`,
and radiod's rename and migration.

Within the modelled parts: `--probe` and `--dry-run` of the recovery helper;
uhubctl answers that mean neither yes nor no; saves of `sdr-recover.json` that
fail or are cut off; wall clocks that step; the ledger's allotment arithmetic
(floating point), clean-up, pool limit and status file; two `rewrite_owned`
calls that lose one another's update; and what section 2 says is left out.

## 7. Plan

1. Theorems with weaker hypotheses: `OwedIsRecorded` with a race only where the
   code reads and writes without a lock, `ResetSpacing` with a gate that starts
   after the timer's save, `ReleaseRuns` for the components a start by somebody
   else does not concern.
2. `SdrRecover`: saves that fail and the `--probe` run.
3. New modules: the sink's writer, `storage_migrate`, radiod's migration.
