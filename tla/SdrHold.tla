------------------------------- MODULE SdrHold -------------------------------
(***************************************************************************)
(* The manual hold: sigmond-sdr-recover --off and --on, and the two        *)
(* automatic paths that must stand down for it, the recovery timer and the *)
(* radiod watchdog.                                                        *)
(*                                                                         *)
(* sdr-hold.json is read once by each command and written back whole, with *)
(* Path.write_text: the file is empty between the truncation and the       *)
(* write, and a reader that meets it then reads "no hold".  The recovery   *)
(* timer's decision (when a reset is due) is the subject of SdrRecover;    *)
(* here a run that found no hold may go on or stop.                        *)
(***************************************************************************)
EXTENDS Naturals, FiniteSets

CONSTANTS
  Cards,        \* the station's RX-888s; each has a jack and a radiod unit
  Designated,   \* the card of [radiod].unit, which the timer restarts
  OneOperator,  \* manual commands run one after the other
  Automatic,    \* the automatic paths that run: a subset of AllAutomatic
  FaultKinds,   \* the faults that can happen: a subset of AllFaults
  MaxFaults     \* bound on their number

AllAutomatic == {"tick", "watchdog", "request"}
AllFaults == {"kill", "torn", "write", "vanish", "uhubctl", "locktimeout", "stop"}

ASSUME HoldAssumption ==
  /\ Designated \in Cards
  /\ OneOperator \in BOOLEAN
  /\ Automatic \subseteq AllAutomatic
  /\ FaultKinds \subseteq AllFaults
  /\ MaxFaults \in Nat

VARIABLES
  file,     \* the cards a reader of sdr-hold.json finds held
  man,      \* per card, the manual command at work on it
  tick,     \* the live run of the recovery timer (or of the bring-up gate)
  wd,       \* the live pass of the radiod watchdog
  bus,      \* the cards on the bus
  dark,     \* the jacks that are switched off
  radiod,   \* the radiods systemd has been told to run
  lock,     \* the lifecycle lock
  faults,   \* faults so far
  \* history, for the properties only
  put       \* the jacks a command has switched off and nobody has switched on since

vars == <<file, man, tick, wd, bus, dark, radiod, lock, faults, put>>

Free == [kind |-> "free"]
Locks == {Free} \union [kind: {"man"}, card: Cards]

ManPCs == {"idle", "checked", "offTorn", "stop", "cut", "confirm",
           "light", "await", "blip", "settle", "restart", "clear", "onTorn"}
Manual == [pc: ManPCs, holds: SUBSET Cards]
NoManual == [pc |-> "idle", holds |-> {}]

TickRun == [pc: {"idle", "decide", "off", "restart"}, present: BOOLEAN, jacks: SUBSET Cards]
NoTick == [pc |-> "idle", present |-> FALSE, jacks |-> {}]

\* units are still to be checked; unit is the one being restarted.
Pass == [pc: {"idle", "request", "check", "start"}, units: SUBSET Cards,
         unit: SUBSET Cards]
NoPass == [pc |-> "idle", units |-> {}, unit |-> {}]

TypeOK ==
  /\ file \subseteq Cards
  /\ man \in [Cards -> Manual]
  /\ tick \in TickRun
  /\ wd \in Pass
  /\ bus \subseteq Cards
  /\ dark \subseteq Cards
  /\ radiod \subseteq Cards
  /\ lock \in Locks
  /\ faults \in 0 .. MaxFaults
  /\ put \subseteq Cards

Init ==
  /\ file = {}
  /\ man = [c \in Cards |-> NoManual]
  /\ tick = NoTick
  /\ wd = NoPass
  /\ bus = Cards
  /\ dark = {}
  /\ radiod = Cards
  /\ lock = Free
  /\ faults = 0
  /\ put = {}

Fault(kind) == kind \in FaultKinds /\ faults < MaxFaults /\ faults' = faults + 1

Goto(c, pc) == man' = [man EXCEPT ![c].pc = pc]
Done(c) == man' = [man EXCEPT ![c] = NoManual]

\* A manual command may start on card c.
MayCommand(c) ==
  /\ man[c].pc = "idle"
  /\ OneOperator => \A d \in Cards : man[d].pc = "idle"

(***************************************************************************)
(* --off                                                                   *)
(***************************************************************************)

\* _select_card, load_hold and the refusals: the card is on the bus, it is
\* not held, every half of its jack can be switched and holds nothing else.
OffLoad(c) ==
  /\ MayCommand(c)
  /\ c \in bus
  /\ c \notin file
  /\ man' = [man EXCEPT ![c] = [pc |-> "checked", holds |-> file]]
  /\ UNCHANGED <<file, tick, wd, bus, dark, radiod, lock, faults, put>>

\* save_hold truncates the file ...
OffTruncate(c) ==
  /\ man[c].pc = "checked"
  /\ file' = {}
  /\ Goto(c, "offTorn")
  /\ UNCHANGED <<tick, wd, bus, dark, radiod, lock, faults, put>>

\* Mutants: only this card's hold is written; the copy is saved before the
\* hold is added.
WithHoldAlone(c) == {c}
WithHoldForgotten(c) == man[c].holds

\* The dictionary this command loaded, with this card's hold added.
WithHold(c) == man[c].holds \union {c}

\* ... and writes what this command loaded plus its own hold.
OffWrite(c) ==
  /\ man[c].pc = "offTorn"
  /\ file' = WithHold(c)
  /\ Goto(c, "stop")
  /\ UNCHANGED <<tick, wd, bus, dark, radiod, lock, faults, put>>

\* The file cannot be opened, or not written: save_hold logs the error and
\* --off goes on as if the hold were on file.
OffSaveFails(c) ==
  /\ man[c].pc \in {"checked", "offTorn"}
  /\ Fault("write")
  /\ Goto(c, "stop")
  /\ UNCHANGED <<file, tick, wd, bus, dark, radiod, lock, put>>

\* _with_lifecycle_lock: taken, or given up on after LIFECYCLE_LOCK_WAIT_S.
TakeLock(c) ==
  \/ lock = Free /\ lock' = [kind |-> "man", card |-> c] /\ UNCHANGED faults
  \/ lock # Free /\ Fault("locktimeout") /\ UNCHANGED lock

\* _stop_station: consumers, then radiod.
OffStop(c) ==
  /\ man[c].pc = "stop"
  /\ TakeLock(c)
  /\ radiod' = radiod \ {c}
  /\ Goto(c, "cut")
  /\ UNCHANGED <<file, tick, wd, bus, dark, put>>

\* systemctl stop fails or times out: its outcome is not looked at, and --off
\* goes on to the cut with radiod running.
OffStopFails(c) ==
  /\ man[c].pc = "stop"
  /\ lock = Free
  /\ lock' = [kind |-> "man", card |-> c]
  /\ Fault("stop")
  /\ Goto(c, "cut")
  /\ UNCHANGED <<file, tick, wd, bus, dark, radiod, put>>

ReleaseLock(c) == lock' = IF lock = [kind |-> "man", card |-> c] THEN Free ELSE lock

\* Both halves off; uhubctl may fail, and then the card stays.
OffCut(c) ==
  /\ man[c].pc = "cut"
  /\ \/ /\ dark' = dark \union {c}
        /\ bus' = bus \ {c}
        /\ put' = put \union {c}
        /\ UNCHANGED faults
     \/ /\ Fault("uhubctl")
        /\ UNCHANGED <<dark, bus, put>>
  /\ ReleaseLock(c)
  /\ Goto(c, "confirm")
  /\ UNCHANGED <<file, tick, wd, radiod>>

\* The card has left the bus, or has not in 10 s: either way the hold stays.
OffConfirm(c) ==
  /\ man[c].pc = "confirm"
  /\ Done(c)
  /\ UNCHANGED <<file, tick, wd, bus, dark, radiod, lock, faults, put>>

(***************************************************************************)
(* --on                                                                    *)
(***************************************************************************)

\* load_hold; refused unless a hold for this card is on file.
OnLoad(c) ==
  /\ MayCommand(c)
  /\ c \in file
  /\ man' = [man EXCEPT ![c] = [pc |-> "light", holds |-> file]]
  /\ UNCHANGED <<file, tick, wd, bus, dark, radiod, lock, faults, put>>

\* Both halves on, SuperSpeed first; a failure leaves port and hold as they are.
OnLight(c) ==
  /\ man[c].pc = "light"
  /\ \/ /\ dark' = dark \ {c}
        /\ put' = put \ {c}
        /\ Goto(c, "await")
        /\ UNCHANGED faults
     \/ /\ Fault("uhubctl")
        /\ Done(c)
        /\ UNCHANGED <<dark, put>>
  /\ UNCHANGED <<file, tick, wd, bus, radiod, lock>>

\* wait_for_running_card: the card is back at SuperSpeed ...
OnReady(c) ==
  /\ man[c].pc \in {"await", "settle"}
  /\ c \in bus
  /\ Goto(c, "restart")
  /\ UNCHANGED <<file, tick, wd, bus, dark, radiod, lock, faults, put>>

\* ... or it is back below it, and promote_link blips it, once: off ...
OnBlip(c) ==
  /\ man[c].pc = "await"
  /\ c \in bus
  /\ dark' = dark \union {c}
  /\ bus' = bus \ {c}
  /\ put' = put \union {c}
  /\ Goto(c, "blip")
  /\ UNCHANGED <<file, tick, wd, radiod, lock, faults>>

\* ... and on again; whether uhubctl did it is not looked at.
OnBlipBack(c) ==
  /\ man[c].pc = "blip"
  /\ \/ dark' = dark \ {c} /\ put' = put \ {c} /\ UNCHANGED faults
     \/ Fault("uhubctl") /\ UNCHANGED <<dark, put>>
  /\ Goto(c, "settle")
  /\ UNCHANGED <<file, tick, wd, bus, radiod, lock>>

\* It is not back, or not at SuperSpeed, when the time is up: the hold stays.
OnGivesUp(c) ==
  /\ man[c].pc \in {"await", "settle"}
  /\ Done(c)
  /\ UNCHANGED <<file, tick, wd, bus, dark, radiod, lock, faults, put>>

\* Mutant: restart_station without the lifecycle lock.
LockedNot == UNCHANGED faults

\* restart_station runs under the lifecycle lock and gives it back.
Locked ==
  \/ lock = Free /\ UNCHANGED faults
  \/ lock # Free /\ Fault("locktimeout")

OnRestart(c) ==
  /\ man[c].pc = "restart"
  /\ Locked
  /\ radiod' = radiod \union {c}
  /\ Goto(c, "clear")
  /\ UNCHANGED <<file, tick, wd, bus, dark, lock, put>>

\* The hold goes last.  What is left of the copy loaded at the start is
\* written back; with nothing left the file is unlinked.
OnClear(c) ==
  /\ man[c].pc = "clear"
  /\ file' = {}
  /\ IF man[c].holds = {c} THEN Done(c) ELSE Goto(c, "onTorn")
  /\ UNCHANGED <<tick, wd, bus, dark, radiod, lock, faults, put>>

OnWrite(c) ==
  /\ man[c].pc = "onTorn"
  /\ file' = man[c].holds \ {c}
  /\ Done(c)
  /\ UNCHANGED <<tick, wd, bus, dark, radiod, lock, faults, put>>

\* The same failure at the end of --on: the hold stays on file.
OnSaveFails(c) ==
  /\ man[c].pc \in {"clear", "onTorn"}
  /\ Fault("write")
  /\ Done(c)
  /\ UNCHANGED <<file, tick, wd, bus, dark, radiod, lock, put>>

\* A command is killed.  The lock goes with the process.  A kill between
\* truncation and write is a fault of its own.
Kill(c) ==
  /\ man[c].pc # "idle"
  /\ Fault(IF man[c].pc \in {"offTorn", "onTorn"} THEN "torn" ELSE "kill")
  /\ ReleaseLock(c)
  /\ Done(c)
  /\ UNCHANGED <<file, tick, wd, bus, dark, radiod, put>>

(***************************************************************************)
(* The recovery timer: the hold is read once, at the start of the run      *)
(***************************************************************************)

TickStart ==
  /\ "tick" \in Automatic
  /\ tick.pc = "idle"
  /\ file = {}
  /\ tick' = [pc |-> "decide", present |-> (bus # {}), jacks |-> {}]
  /\ UNCHANGED <<file, man, wd, bus, dark, radiod, lock, faults, put>>

TickHolds ==
  /\ tick.pc = "decide"
  /\ tick' = NoTick
  /\ UNCHANGED <<file, man, wd, bus, dark, radiod, lock, faults, put>>

\* cycle_port, off: the port of the one card the helper watches, or, when no
\* card was on the bus, every device-less port.
TickCut ==
  /\ tick.pc = "decide"
  /\ \E jacks \in IF tick.present THEN {{c} : c \in bus} ELSE {Cards \ bus} :
       /\ jacks # {}
       /\ tick' = [tick EXCEPT !.pc = "off", !.jacks = jacks]
       /\ dark' = dark \union jacks
       /\ bus' = bus \ jacks
  /\ UNCHANGED <<file, man, wd, radiod, lock, faults, put>>

TickLight ==
  /\ tick.pc = "off"
  /\ dark' = dark \ tick.jacks
  /\ put' = put \ tick.jacks
  /\ tick' = [tick EXCEPT !.pc = "restart"]
  /\ UNCHANGED <<file, man, wd, bus, radiod, lock, faults>>

\* The card came back healthy: restart_station on the designated unit.
TickRestart ==
  /\ tick.pc = "restart"
  /\ bus # {}
  /\ Locked
  /\ radiod' = radiod \union {Designated}
  /\ tick' = NoTick
  /\ UNCHANGED <<file, man, wd, bus, dark, lock, put>>

\* The card never returned, or returned unhealthy: the alarm, no restart.
TickAlarm ==
  /\ tick.pc = "restart"
  /\ tick' = NoTick
  /\ UNCHANGED <<file, man, wd, bus, dark, radiod, lock, faults, put>>

(***************************************************************************)
(* The radiod watchdog: a restart request first, then the hold, then the   *)
(* active units that are not held, one after the other                     *)
(***************************************************************************)

\* process_restart_request finds the unit it names active ...
WdRequest(c) ==
  /\ "request" \in Automatic
  /\ wd.pc = "idle"
  /\ c \in radiod
  /\ wd' = [pc |-> "request", units |-> {}, unit |-> {c}]
  /\ UNCHANGED <<file, man, tick, bus, dark, radiod, lock, faults, put>>

\* ... and restarts it.
WdHonor ==
  /\ wd.pc = "request"
  /\ radiod' = radiod \union wd.unit
  /\ wd' = NoPass
  /\ UNCHANGED <<file, man, tick, bus, dark, lock, faults, put>>

\* _held_units_detail: every hold --off writes names its radiod unit.
Unheld == radiod \ file

WdStart ==
  /\ "watchdog" \in Automatic
  /\ wd.pc = "idle"
  /\ Unheld # {}
  /\ wd' = [pc |-> "check", units |-> Unheld, unit |-> {}]
  /\ UNCHANGED <<file, man, tick, bus, dark, radiod, lock, faults, put>>

\* check_unit finds nothing wrong with c, or is still in warm-up or cooldown.
WdHealthy(c) ==
  /\ wd.pc = "check"
  /\ c \in wd.units
  /\ wd' = IF wd.units = {c} THEN NoPass ELSE [wd EXCEPT !.units = @ \ {c}]
  /\ UNCHANGED <<file, man, tick, bus, dark, radiod, lock, faults, put>>

\* _restart: the stop, whose outcome does not matter; the USB reset.
WdStop(c) ==
  /\ wd.pc = "check"
  /\ c \in wd.units
  /\ radiod' = radiod \ {c}
  /\ wd' = [wd EXCEPT !.pc = "start", !.units = @ \ {c}, !.unit = {c}]
  /\ UNCHANGED <<file, man, tick, bus, dark, lock, faults, put>>

\* The start, unconditional; then the units that are left.
WdStartUnit ==
  /\ wd.pc = "start"
  /\ radiod' = radiod \union wd.unit
  /\ wd' = IF wd.units = {} THEN NoPass ELSE [wd EXCEPT !.pc = "check", !.unit = {}]
  /\ UNCHANGED <<file, man, tick, bus, dark, lock, faults, put>>

(***************************************************************************)
(* The cards                                                               *)
(***************************************************************************)

CardReturns(c) ==
  /\ c \notin bus /\ c \notin dark
  /\ bus' = bus \union {c}
  /\ UNCHANGED <<file, man, tick, wd, dark, radiod, lock, faults, put>>

CardVanishes(c) ==
  /\ Fault("vanish")
  /\ c \in bus
  /\ bus' = bus \ {c}
  /\ UNCHANGED <<file, man, tick, wd, dark, radiod, lock, put>>

(***************************************************************************)
(* Specification                                                           *)
(***************************************************************************)

OffStep(c) ==
  \/ OffTruncate(c) \/ OffWrite(c) \/ OffSaveFails(c)
  \/ OffStop(c) \/ OffStopFails(c) \/ OffCut(c) \/ OffConfirm(c)
OnStep(c) ==
  \/ OnLight(c) \/ OnReady(c) \/ OnBlip(c) \/ OnBlipBack(c) \/ OnGivesUp(c)
  \/ OnRestart(c)
  \/ OnClear(c) \/ OnWrite(c) \/ OnSaveFails(c)
TickStep == TickHolds \/ TickCut \/ TickLight \/ TickRestart \/ TickAlarm
WdStep == WdHonor \/ (\E c \in Cards : WdHealthy(c) \/ WdStop(c)) \/ WdStartUnit

Next ==
  \/ \E c \in Cards :
       \/ OffLoad(c) \/ OnLoad(c) \/ OffStep(c) \/ OnStep(c) \/ Kill(c)
       \/ WdRequest(c)
       \/ CardReturns(c) \/ CardVanishes(c)
  \/ TickStart \/ TickStep
  \/ WdStart \/ WdStep

Spec == Init /\ [][Next]_vars

\* Commands and runs that are under way go on, a lit jack brings its card
\* back, and the operator, having looked at the LED, runs --on.
Fairness ==
  /\ \A c \in Cards : WF_vars(OffStep(c) \/ OnStep(c))
  /\ \A c \in Cards : SF_vars(OnLoad(c))
  /\ \A c \in Cards : WF_vars(CardReturns(c))
  /\ WF_vars(TickStep)
  /\ WF_vars(WdStep)

FairSpec == Spec /\ Fairness

(***************************************************************************)
(* Properties                                                              *)
(***************************************************************************)

\* Some command is between truncating the file and writing c's hold to it.
Rewriting(c) ==
  \E d \in Cards : \/ man[d].pc = "offTorn" /\ c \in man[d].holds
                   \/ man[d].pc = "onTorn" /\ c \in man[d].holds \ {d}

\* A jack that --off, or the blip of --on, has switched off and nobody has
\* switched on again is under a hold, wherever a command was killed: the hold
\* is written before anything is touched and cleared after everything is
\* restored.
DarkIsHeld == \A c \in put : c \in file \/ Rewriting(c)

\* "radiod must stop FIRST": between its stop and the power cut nothing
\* starts radiod again, since every restart_station takes the lifecycle lock.
\* This needs a stop that worked: without the kind "stop" (_stop_station does
\* not look at systemctl's answer), and without "locktimeout" and the
\* watchdog, which takes no lock.
RadiodStopsFirst ==
  [][\A c \in Cards : man[c].pc = "cut" /\ c \in dark' \ dark => c \notin radiod]_vars

\* A jack a command switched off does not stay off for want of a hold to
\* release, also when --on is killed in the middle of its blip.
PutIsRestored == \A c \in Cards : (c \in put) ~> (c \notin put)
=============================================================================
