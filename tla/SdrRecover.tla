------------------------------ MODULE SdrRecover ------------------------------
(***************************************************************************)
(* sigmond-sdr-recover: the automatic recovery of the station's RX-888.    *)
(*                                                                         *)
(* A run of the helper (systemd timer every 30 s, or the --ensure-present  *)
(* gate of bring-up) reads the state file once, may blip an underspeed     *)
(* link, learns the card's hub port, decides, and in the end switches the  *)
(* port off and on and restarts the station.  A run works on its own copy  *)
(* of the state file and writes the whole copy back, so two runs can       *)
(* overwrite each other; a run can be killed at any point; the host can    *)
(* reboot, and a reboot can renumber the bus.                              *)
(*                                                                         *)
(* Time is kept as ages: "now - last_cycle_at" is the field lastCycle,     *)
(* which every Tick increments.  An age saturates at MaxAge, the largest   *)
(* value a guard of the code can tell apart.  None (-1) is an unset stamp. *)
(* Holds (sdr-hold.json) are the subject of SdrHold.                       *)
(***************************************************************************)
EXTENDS Integers, FiniteSets

CONSTANTS
  Grace,          \* ABSENT_GRACE_S
  CycleCooldown,  \* CYCLE_COOLDOWN_S
  WedgeCooldown,  \* WEDGE_RESET_COOLDOWN_S
  WedgeWindow,    \* WEDGE_WINDOW_S
  BootGrace,      \* sdr_events.BOOT_GRACE_S
  DeviceWait,     \* wait_for_device's timeout
  GateWait,       \* --wait-seconds of --ensure-present
  Runs,           \* which kinds of run exist: a subset of RunKinds
  Reaches,        \* what uhubctl may reach of a jack: a subset of ReachKinds
  Peered,         \* the jack has a SuperSpeed companion (sysfs peer)
  Ppps,           \* the hub switches each port alone (it is not ganged)
  OtherPorts,     \* the station has another device-less switchable port
  DataOnly,       \* [radiod] recover_port_data_only
  Explicit,       \* [radiod] recover_hub / recover_port are set
  MaxDev,         \* device numbers wrap after this many enumerations
  FaultKinds,     \* the faults that can happen: a subset of AllFaults
  MaxFaults       \* bound on their number

RunKinds == {"timer", "gate"}
ReachKinds == {"none", "usb2", "ss"}
AllFaults == {"vanish", "stall", "kill", "reboot", "replug", "foreign",
              "uhubctl", "kernel", "restart", "gate"}

ASSUME TimesAssumption ==
  /\ Grace \in Nat \ {0} /\ CycleCooldown \in Nat \ {0} /\ WedgeCooldown \in Nat \ {0}
  /\ WedgeWindow \in Nat \ {0} /\ BootGrace \in Nat \ {0}
  /\ DeviceWait \in Nat /\ GateWait \in Nat /\ MaxFaults \in Nat
  /\ MaxDev \in Nat \ {0}
  /\ Grace <= CycleCooldown /\ WedgeWindow < WedgeCooldown
  /\ CycleCooldown <= WedgeCooldown

ASSUME KindsAssumption ==
  /\ Runs \subseteq RunKinds
  /\ Reaches \subseteq ReachKinds /\ Reaches # {}
  /\ FaultKinds \subseteq AllFaults
  /\ Peered \in BOOLEAN /\ Ppps \in BOOLEAN /\ OtherPorts \in BOOLEAN
  /\ DataOnly \in BOOLEAN /\ Explicit \in BOOLEAN

VARIABLES
  disk,        \* sdr-recover.json
  run,         \* the live runs: program counter and their copy of the state
  card,        \* the RX-888 on the bus
  devnum,      \* its device number, new on every enumeration
  reach,       \* what uhubctl reaches of the jack the card is plugged into
  dark,        \* ports that are switched off
  foreign,     \* ports that hold some other device
  radiod,      \* the station's radiod
  stall,       \* the newest stall + restart lines in its journal
  unit,        \* a radiod unit is configured
  uptime,      \* since boot, saturating
  faults,      \* faults so far
  \* history, for the properties only
  alarms,      \* needs-replug alarms for a card that has not been at SuperSpeed since
  attempt      \* age, by its run's clock, of the last reset that switched a port

vars == <<disk, run, card, devnum, reach, dark, foreign, radiod, stall, unit,
          uptime, faults, alarms, attempt>>
world == <<card, devnum, reach, dark, foreign, radiod, stall, unit, uptime>>
ghosts == <<alarms, attempt>>

None == -1
\* A run's `now` is at most this old when the run compares it with a stamp.
MaxRun == GateWait + 1
MaxAge == WedgeCooldown + MaxRun
Ages == -1 .. MaxAge

\* card: off the bus; 04b4:00f3 (480 Mb/s); 00f1 below SuperSpeed; 00f1 at 5000.
Cards == {"gone", "boot", "usb2", "ss"}
\* A port as the helper can name it: the card's own jack, some other port, or
\* a bus path that names no hub on this boot.
Ports == {"here", "elsewhere", "stale"}
LivePorts == {"here", "elsewhere"}

StateFile == [hub: Ports \union {"none"}, reach: ReachKinds \union {"unset"},
              absentSince: Ages, lastCycle: Ages, cardReturn: Ages,
              devnum: 0 .. MaxDev, usb2Key: 0 .. MaxDev,
              latched: BOOLEAN, alarmed: BOOLEAN]

EmptyState == [hub |-> IF Explicit THEN "here" ELSE "none", reach |-> "unset",
               absentSince |-> None, lastCycle |-> None, cardReturn |-> None,
               devnum |-> 0, usb2Key |-> 0, latched |-> FALSE, alarmed |-> FALSE]

PCs == {"idle", "gatewait", "blip", "decide", "cut", "off", "waiting", "classify", "restart"}

Run == [pc: PCs, st: StateFile, now: 0 .. MaxRun, present: BOOLEAN,
        off: SUBSET Ports, live: BOOLEAN, ok: BOOLEAN, wait: 0 .. DeviceWait + 1]

Idle == [pc |-> "idle", st |-> EmptyState, now |-> 0, present |-> FALSE,
         off |-> {}, live |-> FALSE, ok |-> TRUE, wait |-> 0]

TypeOK ==
  /\ disk \in StateFile
  /\ run \in [Runs -> Run]
  /\ card \in Cards
  /\ devnum \in 1 .. MaxDev
  /\ reach \in ReachKinds
  /\ dark \subseteq LivePorts
  /\ foreign \subseteq LivePorts
  /\ radiod \in {"serving", "wedged", "down"}
  /\ stall \in [age: Ages, hits: 0 .. 2]
  /\ unit \in BOOLEAN
  /\ uptime \in 0 .. BootGrace
  /\ faults \in 0 .. MaxFaults
  /\ alarms \in 0 .. 2
  /\ attempt \in Ages

Init ==
  /\ disk = EmptyState
  /\ run = [r \in Runs |-> Idle]
  /\ card \in {"gone", "boot", "ss"}
  /\ devnum = 1
  /\ reach \in Reaches
  /\ dark = {}
  /\ foreign \in SUBSET (LivePorts \ {"here"})
  /\ radiod = IF card = "ss" THEN "serving" ELSE "down"
  /\ stall = [age |-> None, hits |-> 0]
  /\ unit \in BOOLEAN
  /\ uptime = 0
  /\ faults = 0
  /\ alarms = 0
  /\ attempt = None

(***************************************************************************)
(* A run's bookkeeping                                                     *)
(***************************************************************************)

\* What switches together: under -f a ganged hub switches every port it has.
Ganged(ps) == IF Ppps \/ ps = {} THEN ps ELSE LivePorts

\* A device on a dark port is off the bus: nobody sees it there.
Occupied == foreign \ dark

Smaller(a, b) == IF a < b THEN a ELSE b

\* A card that is healthy on the bus ends the episode.
CardBecomes(c) ==
  /\ card' = c
  /\ alarms' = IF c = "ss" THEN 0 ELSE alarms

Fault(kind) == kind \in FaultKinds /\ faults < MaxFaults /\ faults' = faults + 1

Quit(r) == run' = [run EXCEPT ![r] = Idle]

\* save_state: the run's whole copy replaces the file.
Save(s) == disk' = s

\* now - stamp, for a run whose `now` was read n ago.
Since(stamp, n) == stamp - n

\* A card that is on the bus, running its firmware, below SuperSpeed, on a
\* jack that offers SuperSpeed.
LinkUnderspeed == card = "usb2" /\ Peered

(***************************************************************************)
(* Start of a run: device_present, load_state, now; then the gate waits,   *)
(* and a present card that is underspeed is blipped (both halves off).     *)
(***************************************************************************)

Loaded(pc) == [Idle EXCEPT !.pc = pc, !.st = disk, !.present = (card # "gone")]

StartGate ==
  /\ "gate" \in Runs
  /\ run["gate"].pc = "idle"
  /\ Fault("gate")
  /\ card = "gone"
  /\ run' = [run EXCEPT !["gate"] = Loaded("gatewait")]
  /\ UNCHANGED <<disk, ghosts, world>>

GateSees ==
  /\ "gate" \in Runs
  /\ run["gate"].pc = "gatewait"
  /\ card # "gone"
  /\ Quit("gate")
  /\ UNCHANGED <<disk, ghosts, world, faults>>

GateGivesUpWaiting ==
  /\ "gate" \in Runs
  /\ run["gate"].pc = "gatewait"
  /\ run["gate"].now >= GateWait
  /\ card = "gone"
  /\ run' = [run EXCEPT !["gate"].pc = "decide"]
  /\ UNCHANGED <<disk, ghosts, world, faults>>

Blips == LinkUnderspeed /\ ~Explicit

StartPlain(r) ==
  /\ r = "timer"
  /\ run[r].pc = "idle"
  /\ ~Blips
  /\ run' = [run EXCEPT ![r] = Loaded("decide")]
  /\ UNCHANGED <<disk, ghosts, world, faults>>

\* promote_link switches both halves off without asking what else is there,
\* by force on a ganged hub.  uhubctl reaches them or the blip changes nothing.
StartBlip(r) ==
  /\ r = "timer"
  /\ run[r].pc = "idle"
  /\ Blips
  /\ run' = [run EXCEPT ![r] = [Loaded("blip") EXCEPT
                                  !.off = IF reach = "none" THEN {} ELSE {"here"}]]
  /\ dark' = IF reach = "none" THEN dark ELSE dark \union Ganged({"here"})
  /\ card' = IF reach = "none" THEN card ELSE "gone"
  /\ UNCHANGED <<disk, ghosts, devnum, reach, foreign, radiod, stall, unit, uptime, faults>>

\* The blip ends: the port goes on and the card re-enumerates, promoted or
\* not, or does not come back.  A port that did not go on is not noticed.
BlipBack(r) ==
  /\ run[r].pc = "blip"
  /\ run' = [run EXCEPT ![r].pc = "decide", ![r].off = {}]
  /\ \/ /\ dark' = dark \ Ganged(run[r].off)
        /\ IF run[r].off = {}
             THEN UNCHANGED <<card, devnum, alarms>>
             ELSE /\ \E c \in {"gone", "usb2", "ss"} : CardBecomes(c)
                  /\ devnum' = (devnum % MaxDev) + 1
        /\ UNCHANGED faults
     \/ /\ run[r].off # {} /\ Fault("uhubctl")
        /\ UNCHANGED <<dark, card, devnum, alarms>>
  /\ UNCHANGED <<disk, attempt, reach, foreign, radiod, stall, unit, uptime>>

(***************************************************************************)
(* The decision.  Each operator is the state after one stage of main().    *)
(***************************************************************************)

\* The learn step.  Re-asking uhubctl about an unmoved card gives the same
\* answer, so the model learns on every run that saw the card.
Learned(r) ==
  IF run[r].present /\ ~Explicit
    THEN [run[r].st EXCEPT !.hub = "here", !.reach = reach]
    ELSE run[r].st

\* bootstrap_locations: device-less ports of listed hubs whose other half is
\* empty too.  The card's own jack is one of them when the card is off the bus.
Bootstrap ==
  IF ~Ppps THEN {}
  ELSE {p \in LivePorts \ Occupied : \/ p = "here" /\ card = "gone" /\ reach # "none"
                                     \/ p = "elsewhere" /\ OtherPorts}

Bootstrapped(r) == Learned(r).hub = "none" /\ ~run[r].present /\ Bootstrap # {}

\* The returns before any decision is taken.
NothingToDo(r) ==
  \/ Learned(r).hub = "none" /\ ~Bootstrapped(r)
  \/ ~unit /\ ~Bootstrapped(r)
  \/ Learned(r).reach = "none" /\ ~Explicit

\* Mutant: the absence starts anew on every run.
TrackedForgetsStart(r) ==
  LET s == Learned(r)
      seen == run[r].present /\ card # "gone"
  IN [s EXCEPT !.absentSince = IF run[r].present THEN None ELSE run[r].now,
               !.devnum = IF seen THEN devnum ELSE @]

\* absent_since, card_return_at and devnum, after this run's look at the bus.
Tracked(r) ==
  LET s == Learned(r)
      n == run[r].now
      seen == run[r].present /\ card # "gone"
      moved == seen /\ s.devnum # 0 /\ s.devnum # devnum
      returned == run[r].present /\ s.absentSince # None
  IN [s EXCEPT
        !.absentSince = IF run[r].present THEN None ELSE IF @ = None THEN n ELSE @,
        !.cardReturn = IF returned \/ moved THEN n ELSE @,
        !.devnum = IF seen THEN devnum ELSE @]

\* The journal is read from the latest of: the window, the last reset, the
\* card's last return.
JournalReach(s, n) ==
  LET back(stamp) == IF stamp = None THEN WedgeWindow ELSE Since(stamp, n)
  IN Smaller(WedgeWindow, Smaller(back(s.lastCycle), back(s.cardReturn)))

BelowSuperSpeed == card \in {"boot", "usb2"}

\* radiod_is_wedged: nothing inside the boot grace; one stall line is enough
\* for a card below SuperSpeed in the same enumeration as at the last run.
Wedged(r) ==
  /\ r = "timer" /\ run[r].present /\ unit
  /\ uptime >= BootGrace
  /\ stall.age # None
  /\ LET s == Tracked(r)
         usb2 == BelowSuperSpeed /\ s.usb2Key = devnum
     IN /\ Since(stall.age, run[r].now) <= JournalReach(s, run[r].now)
        /\ stall.hits >= IF usb2 THEN 1 ELSE 2

\* The latch brake and its release, and the usb2 key of this run.
Braked(r) ==
  LET s == Tracked(r)
      key == IF run[r].present /\ BelowSuperSpeed THEN devnum ELSE 0
      release == r = "timer" /\ s.latched /\ run[r].present /\ card = "ss" /\ ~Wedged(r)
  IN [s EXCEPT !.usb2Key = key,
               !.latched = @ /\ ~release, !.alarmed = @ /\ ~release]

\* Mutant: a card that was reset once is never reset again.
ShouldCycleOnce(r) ==
  /\ ~run[r].present
  /\ Since(Tracked(r).absentSince, run[r].now) >= Grace
  /\ Tracked(r).lastCycle = None

ShouldCycle(r) ==
  LET s == Tracked(r)
      n == run[r].now
  IN /\ ~run[r].present
     /\ Since(s.absentSince, n) >= Grace
     /\ s.lastCycle = None \/ Since(s.lastCycle, n) >= CycleCooldown

\* Mutant: a wedge waits for the shorter cooldown only.
WedgeCycleShort(r) ==
  /\ Wedged(r)
  /\ LET s == Tracked(r)
     IN s.lastCycle = None \/ Since(s.lastCycle, run[r].now) >= CycleCooldown

WedgeCycle(r) ==
  /\ Wedged(r)
  /\ LET s == Tracked(r)
     IN s.lastCycle = None \/ Since(s.lastCycle, run[r].now) >= WedgeCooldown

\* Mutant: no latch brake.
CyclesUnbraked(r) ==
  \/ r = "gate"
  \/ r = "timer" /\ (ShouldCycle(r) \/ WedgeCycle(r))

Cycles(r) ==
  \/ r = "gate"
  \/ r = "timer" /\ ~Tracked(r).latched /\ (ShouldCycle(r) \/ WedgeCycle(r))

\* port_power and reset_can_help.
ResetCanHelp(r) ==
  LET trigger == IF ~run[r].present THEN "absent"
                 ELSE IF card = "ss" THEN "wedge" ELSE "latched"
  IN IF DataOnly THEN trigger = "wedge"
     ELSE Explicit \/ Learned(r).reach # "usb2"

Targets(r) ==
  LET named == IF Bootstrapped(r) THEN Bootstrap ELSE {Learned(r).hub}
  IN named \union (IF run[r].present THEN {} ELSE Bootstrap)

\* partition_targets: ports that hold anything else drop out.
Clean(r) == Targets(r) \ Occupied

\* Mutant: the alarm leaves no latch and no mark behind.
RaiseReplugAlarmUnmarked(s) ==
  /\ Save(s)
  /\ alarms' = IF s.alarmed \/ card = "ss" THEN alarms ELSE Smaller(alarms + 1, 2)

RaiseReplugAlarm(s) ==
  /\ Save([s EXCEPT !.latched = TRUE, !.alarmed = TRUE])
  /\ alarms' = IF s.alarmed \/ card = "ss" THEN alarms ELSE Smaller(alarms + 1, 2)

(***************************************************************************)
(* The five ways a run leaves its decision                                 *)
(***************************************************************************)

DecideNothing(r) ==
  /\ run[r].pc = "decide"
  /\ NothingToDo(r)
  /\ Save(Learned(r))
  /\ Quit(r)
  /\ UNCHANGED <<world, faults, ghosts>>

DecideHold(r) ==
  /\ run[r].pc = "decide"
  /\ ~NothingToDo(r) /\ ~Cycles(r)
  /\ Save(Braked(r))
  /\ Quit(r)
  /\ UNCHANGED <<world, faults, ghosts>>

DecideAlarm(r) ==
  /\ run[r].pc = "decide"
  /\ ~NothingToDo(r) /\ Cycles(r)
  /\ ~Bootstrapped(r) /\ ~ResetCanHelp(r)
  /\ RaiseReplugAlarm(Braked(r))
  /\ Quit(r)
  /\ UNCHANGED <<world, faults, attempt>>

MayReset(r) ==
  /\ ~NothingToDo(r) /\ Cycles(r)
  /\ Bootstrapped(r) \/ ResetCanHelp(r)

DecideRefuse(r) ==
  /\ run[r].pc = "decide"
  /\ MayReset(r)
  /\ Clean(r) = {}
  /\ Save(Braked(r))
  /\ Quit(r)
  /\ UNCHANGED <<world, faults, ghosts>>

\* Mutant: nothing is stamped before the port goes off.
StampedNot(r) == Braked(r)

\* Mutant: the stamp is computed from an unset one.
StampedFromNone(r) == [Braked(r) EXCEPT !.lastCycle = Since(None, run[r].now)]

Stamped(r) == [Braked(r) EXCEPT !.lastCycle = run[r].now]

\* The stamp is saved before anything is switched off, with the targets that
\* were clean when partition_targets looked.
DecideReset(r) ==
  /\ run[r].pc = "decide"
  /\ MayReset(r)
  /\ Clean(r) # {}
  /\ Save(Stamped(r))
  /\ run' = [run EXCEPT ![r] = [@ EXCEPT !.pc = "cut", !.st = Stamped(r), !.off = Clean(r),
                                          !.live = (Clean(r) \ {"stale"} # {})]]
  /\ UNCHANGED <<world, faults, ghosts>>

\* cycle_port, the off half.  What has come to a target since is not asked for,
\* and a ganged hub is retried under -f.  A port uhubctl does not know ("stale")
\* answers "no compatible devices", which is not a failure of the cycle; any
\* other error is.
PortsOff(r) ==
  /\ run[r].pc = "cut"
  /\ \E bad \in SUBSET run[r].off :
       LET cut == run[r].off \ (bad \union {"stale"}) IN
       /\ IF bad = {} THEN UNCHANGED faults ELSE Fault("uhubctl")
       /\ run' = [run EXCEPT ![r] = [Idle EXCEPT !.pc = "off", !.st = run[r].st, !.off = cut,
                                                 !.live = run[r].live, !.ok = (bad = {})]]
       /\ dark' = dark \union Ganged(cut)
       /\ \/ card' = IF "here" \in Ganged(cut) THEN "gone" ELSE card
          \/ "here" \in Ganged(cut) /\ (DataOnly \/ reach # "ss") /\ UNCHANGED card
       /\ attempt' = IF cut = {} THEN attempt ELSE run[r].now
  /\ UNCHANGED <<disk, devnum, reach, foreign, radiod, stall, unit, uptime, alarms>>

(***************************************************************************)
(* The rest of a reset: ports on, wait for the card, classify, restart     *)
(***************************************************************************)

\* A port uhubctl fails to switch back on stays dark.
PortsOn(r) ==
  /\ run[r].pc = "off"
  /\ \E stuck \in SUBSET run[r].off :
       LET back == run[r].off \ stuck
           ok == run[r].ok /\ stuck = {}
       IN /\ IF stuck = {} THEN UNCHANGED faults ELSE Fault("uhubctl")
          /\ dark' = dark \ Ganged(back)
          /\ IF "here" \in Ganged(back) /\ card = "gone"
               THEN /\ card' \in {"gone", "boot"}
                    /\ devnum' = IF card' = "gone" THEN devnum ELSE (devnum % MaxDev) + 1
               ELSE UNCHANGED <<card, devnum>>
          /\ IF ok
               THEN /\ run' = [run EXCEPT ![r].pc = "waiting", ![r].off = {},
                                          ![r].st.cardReturn = 0, ![r].wait = 0]
                    /\ UNCHANGED disk
               ELSE /\ Quit(r)
                    /\ IF run[r].live THEN UNCHANGED disk
                       ELSE Save([run[r].st EXCEPT !.lastCycle = None])
  /\ UNCHANGED <<ghosts, reach, foreign, radiod, stall, unit, uptime>>

DeviceBack(r) ==
  /\ run[r].pc = "waiting"
  /\ card # "gone"
  /\ run' = [run EXCEPT ![r].pc = "classify", ![r].wait = 0]
  /\ UNCHANGED <<disk, world, faults, ghosts>>

NeverBack(r) ==
  /\ run[r].pc = "waiting"
  /\ card = "gone"
  /\ run[r].wait >= DeviceWait
  /\ RaiseReplugAlarm(run[r].st)
  /\ Quit(r)
  /\ UNCHANGED <<world, faults, attempt>>

\* classify_return: "recovered" is 00f1 on a SuperSpeed path with no -71/-110
\* in the kernel log.  The run waits a moment for the firmware to start.
ClassifyRecovered(r) ==
  /\ run[r].pc = "classify"
  /\ card = "ss"
  /\ IF unit THEN /\ run' = [run EXCEPT ![r].pc = "restart"]
                  /\ UNCHANGED disk
             ELSE /\ Quit(r)
                  /\ Save(run[r].st)
  /\ UNCHANGED <<world, faults, ghosts>>

ClassifyLatched(r) ==
  /\ run[r].pc = "classify"
  /\ card \in {"usb2", "ss"} \/ run[r].wait >= 1
  /\ IF card = "ss" THEN Fault("kernel") ELSE UNCHANGED faults    \* kernel errors
  /\ RaiseReplugAlarm(run[r].st)
  /\ Quit(r)
  /\ UNCHANGED <<world, attempt>>

\* restart_station succeeded: radiod first, ready, then every consumer.
RestartOk(r) ==
  /\ run[r].pc = "restart"
  /\ card = "ss"
  /\ radiod' = "serving"
  /\ Save([run[r].st EXCEPT !.latched = FALSE, !.alarmed = FALSE])
  /\ Quit(r)
  /\ UNCHANGED <<card, devnum, reach, dark, foreign, stall, unit, uptime, faults, ghosts>>

RestartFailed(r) ==
  /\ run[r].pc = "restart"
  /\ IF card = "ss" THEN Fault("restart") ELSE UNCHANGED faults
  /\ radiod' \in IF card = "ss" THEN {"serving", "wedged", "down"} ELSE {"wedged", "down"}
  /\ Quit(r)
  /\ UNCHANGED <<disk, card, devnum, reach, dark, foreign, stall, unit, uptime, ghosts>>

(***************************************************************************)
(* The world                                                               *)
(***************************************************************************)

Vanish ==
  /\ Fault("vanish")
  /\ card # "gone"
  /\ CardBecomes("gone")
  /\ UNCHANGED <<disk, run, devnum, reach, dark, foreign, radiod, stall, unit, uptime, attempt>>

\* The bootloader shows up by itself, on a port that is not dark.
Appear ==
  /\ card = "gone" /\ "here" \notin dark
  /\ CardBecomes("boot")
  /\ devnum' = (devnum % MaxDev) + 1
  /\ UNCHANGED <<disk, run, reach, dark, foreign, radiod, stall, unit, uptime, faults, attempt>>

Firmware ==
  /\ card = "boot"
  /\ \E c \in {"usb2", "ss"} : CardBecomes(c)
  /\ devnum' = (devnum % MaxDev) + 1
  /\ UNCHANGED <<disk, run, reach, dark, foreign, radiod, stall, unit, uptime, faults, attempt>>

\* A hand replug, perhaps into another jack: then every learned path that
\* named the card's jack names some other port.
Replug ==
  /\ Fault("replug")
  /\ \E moved \in BOOLEAN :
       LET seen(s) == IF moved /\ s.hub = "here" THEN [s EXCEPT !.hub = "elsewhere"] ELSE s
       IN /\ reach' \in IF moved THEN Reaches ELSE {reach}
          /\ disk' = seen(disk)
          /\ run' = [r \in Runs |-> [run[r] EXCEPT !.st = seen(@)]]
          /\ foreign' = IF moved THEN foreign \ {"here"} ELSE foreign
          /\ dark' = IF moved THEN dark \ {"here"} ELSE dark
          /\ CardBecomes(IF "here" \in dark' THEN "gone" ELSE "boot")
          /\ devnum' = (devnum % MaxDev) + 1
  /\ \A r \in Runs : run[r].pc \notin {"blip", "decide", "cut", "off"}
  /\ UNCHANGED <<radiod, stall, unit, uptime, attempt>>

\* Somebody plugs in or pulls out another device.
ForeignChanges ==
  /\ Fault("foreign")
  /\ foreign' \in SUBSET LivePorts
  /\ foreign' # foreign
  /\ foreign' \ foreign \subseteq LivePorts \ dark
  /\ UNCHANGED <<disk, run, card, devnum, reach, dark, radiod, stall, unit, uptime, ghosts>>

\* radiod's journal gains stall lines with restart evidence beside them.
Stall ==
  /\ unit
  /\ IF radiod = "wedged" THEN UNCHANGED faults ELSE Fault("stall")
  /\ radiod' = "wedged"
  /\ \E h \in 1 .. 2 : stall' = [age |-> 0, hits |-> h]
  /\ UNCHANGED <<disk, run, card, devnum, reach, dark, foreign, unit, uptime, ghosts>>

\* systemd's own Restart= brings radiod up once the card can serve.
RadiodStarts ==
  /\ unit /\ radiod # "serving" /\ card = "ss"
  /\ radiod' = "serving"
  /\ UNCHANGED <<disk, run, card, devnum, reach, dark, foreign, stall, unit, uptime, faults, ghosts>>

\* Bring-up configures a radiod instance.
ConfigureRadiod ==
  /\ ~unit
  /\ unit' = TRUE
  /\ UNCHANGED <<disk, run, card, devnum, reach, dark, foreign, radiod, stall, uptime, faults, ghosts>>

\* A run is killed: its copy of the state is lost, the ports stay as they are.
Kill(r) ==
  /\ Fault("kill")
  /\ run[r].pc # "idle"
  /\ Quit(r)
  /\ UNCHANGED <<disk, world, ghosts>>

\* A reboot ends every run, starts the boot grace, and may renumber the buses.
Reboot ==
  /\ Fault("reboot")
  /\ run' = [r \in Runs |-> Idle]
  /\ uptime' = 0
  /\ \/ UNCHANGED disk
     \/ /\ disk.hub # "none"
        /\ \E p \in Ports : disk' = [disk EXCEPT !.hub = p]
  /\ dark' \in {dark, {}}
  /\ \E c \in IF "here" \in dark' THEN {"gone"} ELSE {"gone", "boot"} : CardBecomes(c)
  /\ devnum' = (devnum % MaxDev) + 1
  /\ radiod' = "down"
  /\ UNCHANGED <<reach, foreign, stall, unit, attempt>>

\* Ages saturate where no guard tells larger ones apart.
Older(a, enough) == IF a = None THEN None ELSE Smaller(a + 1, enough + MaxRun)

OlderState(s) == [s EXCEPT !.absentSince = Older(@, Grace),
                           !.lastCycle = Older(@, WedgeCooldown),
                           !.cardReturn = Older(@, WedgeWindow)]

\* The steps of a run that the code bounds: the gate's wait, a blip, the
\* seconds before the decision and the cut, the off time, wait_for_device, the moment
\* given to the firmware.
MayTick(r) ==
  CASE run[r].pc = "gatewait" -> run[r].now < GateWait
    [] run[r].pc \in {"blip", "decide", "cut"} -> run[r].wait < 1 /\ run[r].now < MaxRun
    [] run[r].pc \in {"off", "classify"} -> run[r].wait < 1
    [] run[r].pc = "waiting" -> run[r].wait < DeviceWait
    [] OTHER -> TRUE

OlderRun(q) ==
  IF q.pc = "idle" THEN q
  ELSE [q EXCEPT !.st = OlderState(@),
                 !.now = IF q.pc \in {"gatewait", "blip", "decide", "cut"} THEN @ + 1 ELSE @,
                 !.wait = IF q.pc \in {"blip", "decide", "cut", "off", "waiting", "classify"}
                            THEN @ + 1 ELSE @]

Tick ==
  /\ \A r \in Runs : MayTick(r)
  /\ disk' = OlderState(disk)
  /\ run' = [r \in Runs |-> OlderRun(run[r])]
  /\ stall' = [stall EXCEPT !.age = Older(@, WedgeWindow + 1)]
  /\ uptime' = Smaller(uptime + 1, BootGrace)
  /\ attempt' = Older(attempt, WedgeCooldown)
  /\ UNCHANGED <<card, devnum, reach, dark, foreign, radiod, unit, faults, alarms>>

(***************************************************************************)
(* Specification                                                           *)
(***************************************************************************)

RunStep(r) ==
  \/ BlipBack(r)
  \/ DecideNothing(r) \/ DecideHold(r) \/ DecideAlarm(r) \/ DecideRefuse(r) \/ DecideReset(r)
  \/ PortsOff(r) \/ PortsOn(r) \/ DeviceBack(r) \/ NeverBack(r)
  \/ ClassifyRecovered(r) \/ ClassifyLatched(r)
  \/ RestartOk(r) \/ RestartFailed(r)

Start(r) == StartPlain(r) \/ StartBlip(r)

Environment ==
  \/ Vanish \/ Appear \/ Firmware \/ Replug \/ ForeignChanges
  \/ Stall \/ RadiodStarts \/ ConfigureRadiod \/ Reboot

Next ==
  \/ StartGate \/ GateSees \/ GateGivesUpWaiting
  \/ \E r \in Runs : Start(r) \/ RunStep(r) \/ Kill(r)
  \/ Environment
  \/ Tick

Spec == Init /\ [][Next]_vars

\* Time passes, systemd starts the timer's run again and again, and a run
\* that is not killed goes on.  Nothing is assumed of the card or of people.
Fairness ==
  /\ WF_vars(Tick)
  /\ WF_vars(\E r \in Runs \intersect {"timer"} : Start(r))
  /\ \A r \in Runs : WF_vars(RunStep(r))
  /\ WF_vars(GateSees \/ GateGivesUpWaiting)

FairSpec == Spec /\ Fairness

(***************************************************************************)
(* Properties                                                              *)
(***************************************************************************)

\* Run r switches its targets off (cycle_port).
Resets(r) == run[r].pc = "cut" /\ run'[r].pc = "off"

\* The cooldown stamp is written before the port is switched off, so neither
\* a run killed in the middle of a reset nor a reboot lets the timer reset
\* again within CYCLE_COOLDOWN_S of the last reset that switched anything.
ResetSpacing ==
  [][\A r \in Runs \intersect {"timer"} :
       Resets(r) => attempt = None \/ Since(attempt, run[r].now) >= CycleCooldown]_vars

\* A latched card is left alone by the timer until the latch is cleared.
LatchStopsResets ==
  [][\A r \in Runs \intersect {"timer"} : Resets(r) => ~disk.latched]_vars

\* "A present card with a healthy radiod is never reset": a card that is on
\* the bus is reset only for stall lines that are newer than the last reset,
\* and at most once per WEDGE_RESET_COOLDOWN_S.
WedgeResetIsFresh ==
  [][\A r \in Runs \intersect {"timer"} :
       Resets(r) /\ run[r].present =>
         /\ stall.age # None
         /\ attempt = None \/ (/\ stall.age <= attempt
                               /\ Since(attempt, run[r].now) >= WedgeCooldown)]_vars

\* _raise_replug_alarm: one alarm per episode.  A card off its SuperSpeed path
\* is alarmed a second time only when it has been back on it in between.
OneAlarmPerEpisode == alarms <= 1

\* A jack the helper left dark (killed between off and on, in a reset or in a
\* blip, or uhubctl failed) is switched on again once a radiod is configured.
\* Two cases are out of its reach: a latched card, for which the brake stops
\* every reset, so that the dark jack waits with the card for the hand replug
\* that was asked for; and a ganged hub, which bootstrap_locations does not see,
\* before the card's path was ever learned (the blip comes before the learning).
DarkPortRelit ==
  ("here" \in dark /\ unit)
    ~> ("here" \notin dark \/ disk.latched \/ (~Ppps /\ disk.hub = "none"))

\* A vanished card does not stay unanswered: it comes back, or the replug
\* alarm stands, or another device on the jack forbids the reset.
LossIsAnswered ==
  (card = "gone" /\ unit) ~> (card # "gone" \/ disk.alarmed \/ "here" \in foreign)

(***************************************************************************)
(* What the helper's docstring and comments say, where the code differs    *)
(***************************************************************************)

\* "The latch clears only when the card is back as 00f1 at SuperSpeed with
\* radiod healthy, so a reboot does not forget that a hand replug is owed."
\* radiod is not healthy while it is wedged and the journal the helper reads
\* already says so.
LatchClearsOnlyHealthy ==
  [][disk.latched /\ ~disk'.latched =>
       card = "ss" /\ ~(/\ radiod = "wedged" /\ stall.hits = 2
                        /\ stall.age <= JournalReach(disk, 0))]_vars
=============================================================================
