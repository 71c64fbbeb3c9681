--------------------------- MODULE SdrRecoverProofs ---------------------------
(***************************************************************************)
(* Theorems about SdrRecover, for every value of its constants.            *)
(***************************************************************************)
EXTENDS SdrRecover, TLAPS

\* The copies of the state file a decision passes through are state files.
LEMMA StagesType ==
  ASSUME TypeOK, NEW r \in Runs, run[r].pc = "decide"
  PROVE  /\ Learned(r) \in StateFile
         /\ Tracked(r) \in StateFile
         /\ Braked(r) \in StateFile
         /\ Stamped(r) \in StateFile
<1> USE TimesAssumption, KindsAssumption
<1>0. /\ run[r] \in Run /\ run[r].st \in StateFile /\ run[r].now \in 0 .. MaxRun
      /\ run[r].present \in BOOLEAN /\ devnum \in 1 .. MaxDev /\ reach \in ReachKinds
  BY DEF TypeOK, Run
<1>1. Learned(r) \in StateFile
  BY <1>0 DEF Learned, StateFile, Ports
<1>2. 0 .. MaxRun \subseteq Ages /\ None \in Ages
  BY DEF Ages, MaxAge, MaxRun, None
<1>3. Tracked(r) \in StateFile
  <2> DEFINE s == Learned(r)
             n == run[r].now
             seen == run[r].present /\ card # "gone"
             moved == seen /\ s.devnum # 0 /\ s.devnum # devnum
             returned == run[r].present /\ s.absentSince # None
             a == IF run[r].present THEN None ELSE IF s.absentSince = None THEN n ELSE s.absentSince
             c == IF returned \/ moved THEN n ELSE s.cardReturn
             d == IF seen THEN devnum ELSE s.devnum
  <2>1. /\ s.absentSince \in Ages /\ s.cardReturn \in Ages /\ s.devnum \in 0 .. MaxDev
    BY <1>1 DEF StateFile
  <2>2. a \in Ages
    BY <2>1, <1>0, <1>2
  <2>3. c \in Ages
    BY <2>1, <1>0, <1>2
  <2>4. d \in 0 .. MaxDev
    BY <2>1, <1>0
  <2>5. Tracked(r) = [s EXCEPT !.absentSince = a, !.cardReturn = c, !.devnum = d]
    BY DEF Tracked
  <2> HIDE DEF s, a, c, d
  <2>6. s \in StateFile
    BY <1>1 DEF s
  <2> QED BY <2>2, <2>3, <2>4, <2>5, <2>6 DEF StateFile
<1>4. Braked(r) \in StateFile
  <2> DEFINE s == Tracked(r)
             key == IF run[r].present /\ BelowSuperSpeed THEN devnum ELSE 0
             release == r = "timer" /\ s.latched /\ run[r].present /\ card = "ss" /\ ~Wedged(r)
             l == s.latched /\ ~release
             m == s.alarmed /\ ~release
  <2>1. key \in 0 .. MaxDev
    BY <1>0
  <2>2. l \in BOOLEAN /\ m \in BOOLEAN
    OBVIOUS
  <2>3. Braked(r) = [s EXCEPT !.usb2Key = key, !.latched = l, !.alarmed = m]
    BY DEF Braked
  <2> HIDE DEF s, key, l, m
  <2>4. s \in StateFile
    BY <1>3 DEF s
  <2> QED BY <2>1, <2>2, <2>3, <2>4 DEF StateFile
<1>5. Stamped(r) \in StateFile
  BY <1>0, <1>2, <1>4 DEF Stamped, StateFile
<1> QED BY <1>1, <1>3, <1>4, <1>5

\* A run that is not running, and an empty state file, are well typed.
LEMMA IdleType == EmptyState \in StateFile /\ Idle \in Run
<1> USE TimesAssumption, KindsAssumption
<1>1. EmptyState \in StateFile
  BY DEF EmptyState, StateFile, Ages, MaxAge, MaxRun, None, Ports
<1>2. Idle \in Run
  BY <1>1 DEF Idle, Run, MaxRun, PCs
<1> QED BY <1>1, <1>2

\* A run that has just read the state file is well typed.
LEMMA LoadedType ==
  ASSUME TypeOK, NEW pc \in PCs
  PROVE  Loaded(pc) \in Run
BY IdleType DEF Loaded, TypeOK, Run

\* Ages stay ages when time passes.
LEMMA OlderType ==
  ASSUME NEW a \in Ages, NEW enough \in 0 .. WedgeCooldown
  PROVE  Older(a, enough) \in Ages
BY TimesAssumption DEF Older, Ages, MaxAge, MaxRun, None, Smaller

\* A state file that grows older is a state file.
LEMMA OlderStateType ==
  ASSUME NEW s \in StateFile
  PROVE  OlderState(s) \in StateFile
<1> DEFINE a == Older(s.absentSince, Grace)
           b == Older(s.lastCycle, WedgeCooldown)
           c == Older(s.cardReturn, WedgeWindow)
<1>1. s.absentSince \in Ages /\ s.lastCycle \in Ages /\ s.cardReturn \in Ages
  BY DEF StateFile
<1>2. Grace \in 0 .. WedgeCooldown /\ WedgeWindow \in 0 .. WedgeCooldown
      /\ WedgeCooldown \in 0 .. WedgeCooldown
  BY TimesAssumption
<1>3. a \in Ages /\ b \in Ages /\ c \in Ages
  BY <1>1, <1>2, OlderType
<1>4. OlderState(s) = [s EXCEPT !.absentSince = a, !.lastCycle = b, !.cardReturn = c]
  BY DEF OlderState
<1> HIDE DEF a, b, c
<1> QED BY <1>3, <1>4 DEF StateFile

\* A run that may wait one more moment is still well typed after it.
LEMMA OlderRunType ==
  ASSUME TypeOK, NEW r \in Runs, MayTick(r)
  PROVE  OlderRun(run[r]) \in Run
<1> DEFINE q == run[r]
           s == OlderState(q.st)
           n == IF q.pc \in {"gatewait", "blip", "decide", "cut"} THEN q.now + 1 ELSE q.now
           w == IF q.pc \in {"blip", "decide", "cut", "off", "waiting", "classify"}
                  THEN q.wait + 1 ELSE q.wait
<1>1. q \in Run
  BY DEF TypeOK
<1>2. CASE q.pc = "idle"
  BY <1>1, <1>2 DEF OlderRun
<1>3. CASE q.pc # "idle"
  <2>1. s \in StateFile
    BY <1>1, OlderStateType DEF Run
  <2>2. q.now \in 0 .. MaxRun /\ q.wait \in 0 .. DeviceWait + 1
    BY <1>1 DEF Run
  <2>3. n \in 0 .. MaxRun
    BY <2>2, TimesAssumption DEF MayTick, MaxRun
  <2>4. w \in 0 .. DeviceWait + 1
    BY <2>2, TimesAssumption DEF MayTick
  <2>5. OlderRun(q) = [q EXCEPT !.st = s, !.now = n, !.wait = w]
    BY <1>3 DEF OlderRun
  <2> HIDE DEF s, n, w, q
  <2>6. OlderRun(q) \in Run
    BY <1>1, <2>1, <2>3, <2>4, <2>5 DEF Run
  <2> QED BY <2>6 DEF q
<1> QED BY <1>2, <1>3

\* The replug alarm writes a state file and counts at most to two.
LEMMA AlarmType ==
  ASSUME TypeOK, NEW s \in StateFile, RaiseReplugAlarm(s)
  PROVE  disk' \in StateFile /\ alarms' \in 0 .. 2
<1>1. [s EXCEPT !.latched = TRUE, !.alarmed = TRUE] \in StateFile
  BY DEF StateFile
<1>2. alarms \in 0 .. 2
  BY DEF TypeOK
<1>3. alarms' = alarms \/ alarms' = Smaller(alarms + 1, 2)
  BY DEF RaiseReplugAlarm
<1> QED BY <1>1, <1>2, <1>3 DEF RaiseReplugAlarm, Save, Smaller

\* Every reachable state is well typed: in particular every stamp a run writes
\* to sdr-recover.json is a stamp, whatever two runs overwrite of each other.
THEOREM TypeCorrect == Spec => []TypeOK
<1> USE TimesAssumption, KindsAssumption
<1>1. Init => TypeOK
  BY IdleType DEF Init, TypeOK, Cards, LivePorts, Ages, MaxAge, MaxRun, None
<1>2. TypeOK /\ [Next]_vars => TypeOK'
  <2> SUFFICES ASSUME TypeOK, [Next]_vars PROVE TypeOK'
    OBVIOUS
  <2> USE IdleType
  <2>1. CASE StartGate
    BY <2>1, LoadedType DEF TypeOK, StartGate, ghosts, world, Fault, PCs
  <2>2. CASE GateSees
    BY <2>2 DEF TypeOK, GateSees, ghosts, world, Quit
  <2>3. CASE GateGivesUpWaiting
    BY <2>3 DEF TypeOK, GateGivesUpWaiting, ghosts, world, Run, PCs
  <2>4. ASSUME NEW r \in Runs, StartPlain(r) PROVE TypeOK'
    BY <2>4, LoadedType DEF TypeOK, StartPlain, ghosts, world, PCs
  <2>5. ASSUME NEW r \in Runs, StartBlip(r) PROVE TypeOK'
    <3>1. Loaded("blip") \in Run
      BY LoadedType DEF PCs
    <3>2. run' \in [Runs -> Run]
      BY <2>5, <3>1 DEF TypeOK, StartBlip, Run, Ports
    <3> QED BY <2>5, <3>2 DEF TypeOK, StartBlip, ghosts, LivePorts, Cards, Ganged
  <2>6. ASSUME NEW r \in Runs, BlipBack(r) PROVE TypeOK'
    <3>1. [run[r] EXCEPT !.pc = "decide", !.off = {}] \in Run
      BY TypeOK DEF TypeOK, Run, PCs
    <3>2. run' = [run EXCEPT ![r] = [run[r] EXCEPT !.pc = "decide", !.off = {}]]
      BY <2>6 DEF BlipBack, TypeOK
    <3>3. run' \in [Runs -> Run]
      BY <3>1, <3>2 DEF TypeOK
    <3>4. dark' \subseteq dark /\ card' \in Cards /\ devnum' \in 1 .. MaxDev
          /\ alarms' \in 0 .. 2 /\ faults' \in 0 .. MaxFaults
      BY <2>6 DEF BlipBack, CardBecomes, Fault, TypeOK, Cards
    <3> QED BY <2>6, <3>3, <3>4 DEF TypeOK, BlipBack
  <2>7. ASSUME NEW r \in Runs, DecideNothing(r) PROVE TypeOK'
    BY <2>7, StagesType DEF TypeOK, DecideNothing, Save, Quit, ghosts, world
  <2>8. ASSUME NEW r \in Runs, DecideHold(r) PROVE TypeOK'
    BY <2>8, StagesType DEF TypeOK, DecideHold, Save, Quit, ghosts, world
  <2>9. ASSUME NEW r \in Runs, DecideAlarm(r) PROVE TypeOK'
    <3>1. Braked(r) \in StateFile
      BY <2>9, StagesType DEF DecideAlarm
    <3>2. disk' \in StateFile /\ alarms' \in 0 .. 2
      BY <2>9, <3>1, AlarmType DEF DecideAlarm
    <3> QED BY <2>9, <3>2 DEF TypeOK, DecideAlarm, Quit, world
  <2>10. ASSUME NEW r \in Runs, DecideRefuse(r) PROVE TypeOK'
    BY <2>10, StagesType DEF TypeOK, DecideRefuse, Save, Quit, ghosts, world
  <2>11. ASSUME NEW r \in Runs, DecideReset(r) PROVE TypeOK'
    <3>1. Stamped(r) \in StateFile /\ run[r] \in Run
      BY <2>11, StagesType DEF DecideReset, TypeOK
    <3>2. Clean(r) \subseteq Ports
      <4>1. Learned(r).hub \in Ports \union {"none"}
        BY <2>11, StagesType DEF DecideReset, StateFile
      <4>2. Bootstrapped(r) \/ Learned(r).hub # "none"
        BY <2>11 DEF DecideReset, MayReset, NothingToDo
      <4>3. Bootstrap \subseteq LivePorts
        BY DEF Bootstrap
      <4> QED BY <4>1, <4>2, <4>3 DEF Clean, Targets, Ports, LivePorts
    <3>3. ASSUME NEW c \in SUBSET Ports, NEW l \in BOOLEAN, NEW s \in StateFile
          PROVE  [run[r] EXCEPT !.pc = "cut", !.st = s, !.off = c, !.live = l] \in Run
      BY <3>1 DEF Run, PCs
    <3>4. run' \in [Runs -> Run]
      BY <2>11, <3>1, <3>2, <3>3 DEF DecideReset, TypeOK
    <3> QED BY <2>11, <3>1, <3>4 DEF TypeOK, DecideReset, Save, ghosts, world
  <2>31. ASSUME NEW r \in Runs, PortsOff(r) PROVE TypeOK'
    <3>1. PICK bad \in SUBSET run[r].off :
            LET cut == run[r].off \ (bad \union {"stale"}) IN
            /\ IF bad = {} THEN UNCHANGED faults ELSE Fault("uhubctl")
            /\ run' = [run EXCEPT ![r] = [Idle EXCEPT !.pc = "off", !.st = run[r].st, !.off = cut,
                                                      !.live = run[r].live, !.ok = (bad = {})]]
            /\ dark' = dark \union Ganged(cut)
            /\ \/ card' = IF "here" \in Ganged(cut) THEN "gone" ELSE card
               \/ "here" \in Ganged(cut) /\ (DataOnly \/ reach # "ss") /\ UNCHANGED card
            /\ attempt' = IF cut = {} THEN attempt ELSE run[r].now
      BY <2>31 DEF PortsOff
    <3> DEFINE cut == run[r].off \ (bad \union {"stale"})
               ok == bad = {}
    <3>2. /\ run[r] \in Run /\ run[r].st \in StateFile /\ run[r].live \in BOOLEAN
          /\ run[r].now \in 0 .. MaxRun /\ run[r].off \subseteq Ports
      BY DEF TypeOK, Run
    <3>3. cut \subseteq LivePorts /\ ok \in BOOLEAN
      BY <3>2 DEF Ports, LivePorts
    <3>4. run' = [run EXCEPT ![r] = [Idle EXCEPT !.pc = "off", !.st = run[r].st, !.off = cut,
                                                 !.live = run[r].live, !.ok = ok]]
      BY <3>1
    <3>5. dark' = dark \union Ganged(cut) /\ attempt' = (IF cut = {} THEN attempt ELSE run[r].now)
          /\ card' \in {card, "gone"} /\ faults' \in 0 .. MaxFaults
      BY <3>1 DEF Fault, TypeOK
    <3> HIDE DEF cut, ok
    <3>6. run' \in [Runs -> Run]
      <4>1. [Idle EXCEPT !.pc = "off", !.st = run[r].st, !.off = cut, !.live = run[r].live, !.ok = ok]
              \in Run
        BY <3>2, <3>3 DEF Run, PCs, Ports, LivePorts
      <4> QED BY <3>4, <4>1 DEF TypeOK
    <3>7. attempt' \in Ages
      BY <3>2, <3>5 DEF TypeOK, Ages, MaxAge, MaxRun
    <3>8. dark' \subseteq LivePorts
      BY <3>3, <3>5 DEF TypeOK, Ganged
    <3> QED BY <2>31, <3>5, <3>6, <3>7, <3>8 DEF TypeOK, PortsOff, Cards
  <2>12. ASSUME NEW r \in Runs, PortsOn(r) PROVE TypeOK'
    <3>1. run[r] \in Run /\ run[r].st \in StateFile
      BY DEF TypeOK, Run
    <3>2. disk' \in StateFile
      <4>1. [run[r].st EXCEPT !.lastCycle = None] \in StateFile
        BY <3>1 DEF StateFile, Ages, MaxAge, MaxRun, None
      <4> QED BY <2>12, <4>1 DEF PortsOn, Save, TypeOK
    <3>3. run' \in [Runs -> Run]
      <4>1. [run[r].st EXCEPT !.cardReturn = 0] \in StateFile
        BY <3>1 DEF StateFile, Ages, MaxAge, MaxRun
      <4> DEFINE s == [run[r].st EXCEPT !.cardReturn = 0]
                 q == [run[r] EXCEPT !.pc = "waiting", !.off = {}, !.st = s, !.wait = 0]
      <4>2. run' = [run EXCEPT ![r] = q] \/ run' = [run EXCEPT ![r] = Idle]
        BY <2>12, <3>1 DEF PortsOn, Quit, TypeOK, Run
      <4>3. q \in Run
        <5>1. s \in StateFile /\ 0 \in 0 .. DeviceWait + 1 /\ {} \in SUBSET Ports
          BY <4>1
        <5> HIDE DEF s
        <5>2. "waiting" \in PCs
          BY DEF PCs
        <5> QED BY <3>1, <5>1, <5>2 DEF Run
      <4> HIDE DEF q
      <4> QED BY <4>2, <4>3 DEF TypeOK
    <3>4. dark' \subseteq dark
      BY <2>12 DEF PortsOn
    <3>5. card' \in Cards /\ devnum' \in 1 .. MaxDev /\ faults' \in 0 .. MaxFaults
      BY <2>12 DEF PortsOn, Cards, TypeOK, Fault
    <3>6. UNCHANGED <<ghosts, reach, foreign, radiod, stall, unit, uptime>>
      BY <2>12 DEF PortsOn
    <3> QED BY <3>2, <3>3, <3>4, <3>5, <3>6 DEF TypeOK, ghosts
  <2>13. ASSUME NEW r \in Runs, DeviceBack(r) PROVE TypeOK'
    <3>0. 0 \in 0 .. DeviceWait + 1 /\ "classify" \in PCs /\ run[r] \in Run
      BY DEF PCs, TypeOK
    <3>1. [run[r] EXCEPT !.pc = "classify", !.wait = 0] \in Run
      BY <3>0 DEF Run
    <3>2. run' = [run EXCEPT ![r] = [run[r] EXCEPT !.pc = "classify", !.wait = 0]]
      BY <2>13 DEF DeviceBack, TypeOK
    <3>3. run' \in [Runs -> Run]
      BY <3>1, <3>2 DEF TypeOK
    <3> QED BY <2>13, <3>3 DEF TypeOK, DeviceBack, ghosts, world
  <2>14. ASSUME NEW r \in Runs, NeverBack(r) PROVE TypeOK'
    <3>1. disk' \in StateFile /\ alarms' \in 0 .. 2
      BY <2>14, AlarmType DEF NeverBack, TypeOK, Run
    <3> QED BY <2>14, <3>1 DEF TypeOK, NeverBack, Quit, world
  <2>15. ASSUME NEW r \in Runs, ClassifyRecovered(r) PROVE TypeOK'
    <3>1. run[r] \in Run /\ run[r].st \in StateFile
      BY DEF TypeOK, Run
    <3>2. [run[r] EXCEPT !.pc = "restart"] \in Run
      BY <3>1 DEF Run, PCs
    <3>3. run' \in [Runs -> Run] /\ disk' \in StateFile
      BY <2>15, <3>1, <3>2 DEF TypeOK, ClassifyRecovered, Save, Quit
    <3> QED BY <2>15, <3>3 DEF TypeOK, ClassifyRecovered, ghosts, world
  <2>16. ASSUME NEW r \in Runs, ClassifyLatched(r) PROVE TypeOK'
    <3>1. disk' \in StateFile /\ alarms' \in 0 .. 2
      BY <2>16, AlarmType DEF ClassifyLatched, TypeOK, Run
    <3> QED BY <2>16, <3>1 DEF TypeOK, ClassifyLatched, Quit, world, Fault
  <2>17. ASSUME NEW r \in Runs, RestartOk(r) PROVE TypeOK'
    BY <2>17 DEF TypeOK, RestartOk, Save, Quit, Run, StateFile, ghosts
  <2>18. ASSUME NEW r \in Runs, RestartFailed(r) PROVE TypeOK'
    BY <2>18 DEF TypeOK, RestartFailed, Quit, Fault, ghosts
  <2>19. ASSUME NEW r \in Runs, Kill(r) PROVE TypeOK'
    BY <2>19 DEF TypeOK, Kill, Quit, Fault, ghosts, world
  <2>20. CASE Vanish
    BY <2>20 DEF TypeOK, Vanish, Fault, CardBecomes, Cards
  <2>21. CASE Appear
    BY <2>21 DEF TypeOK, Appear, CardBecomes, Cards
  <2>22. CASE Firmware
    BY <2>22 DEF TypeOK, Firmware, CardBecomes, Cards
  <2>23. CASE Replug
    <3>1. PICK moved \in BOOLEAN :
            LET seen(s) == IF moved /\ s.hub = "here" THEN [s EXCEPT !.hub = "elsewhere"] ELSE s
            IN /\ reach' \in IF moved THEN Reaches ELSE {reach}
               /\ disk' = seen(disk)
               /\ run' = [r \in Runs |-> [run[r] EXCEPT !.st = seen(@)]]
               /\ foreign' = IF moved THEN foreign \ {"here"} ELSE foreign
               /\ dark' = IF moved THEN dark \ {"here"} ELSE dark
               /\ CardBecomes(IF "here" \in dark' THEN "gone" ELSE "boot")
               /\ devnum' = (devnum % MaxDev) + 1
      BY <2>23 DEF Replug
    <3> DEFINE seen(s) == IF moved /\ s.hub = "here" THEN [s EXCEPT !.hub = "elsewhere"] ELSE s
    <3>2. ASSUME NEW s \in StateFile PROVE seen(s) \in StateFile
      BY DEF StateFile, Ports
    <3>3. disk' = seen(disk) /\ run' = [r \in Runs |-> [run[r] EXCEPT !.st = seen(run[r].st)]]
      BY <3>1
    <3> HIDE DEF seen
    <3>4. run' \in [Runs -> Run]
      <4> SUFFICES ASSUME NEW r \in Runs
                   PROVE  [run[r] EXCEPT !.st = seen(run[r].st)] \in Run
        BY <3>3
      <4>1. run[r] \in Run /\ run[r].st \in StateFile
        BY DEF TypeOK, Run
      <4> QED BY <4>1, <3>2 DEF Run
    <3>5. disk' \in StateFile
      BY <3>2, <3>3 DEF TypeOK
    <3> QED BY <2>23, <3>1, <3>4, <3>5 DEF TypeOK, Replug, CardBecomes, Fault, Cards
  <2>24. CASE ForeignChanges
    BY <2>24 DEF TypeOK, ForeignChanges, Fault, ghosts, LivePorts
  <2>25. CASE Stall
    BY <2>25 DEF TypeOK, Stall, Fault, ghosts, Ages, MaxAge, MaxRun
  <2>26. CASE RadiodStarts
    BY <2>26 DEF TypeOK, RadiodStarts, ghosts
  <2>27. CASE ConfigureRadiod
    BY <2>27 DEF TypeOK, ConfigureRadiod, ghosts
  <2>28. CASE Reboot
    <3>1. disk' \in StateFile
      BY <2>28 DEF Reboot, TypeOK, StateFile
    <3> QED BY <2>28, <3>1 DEF TypeOK, Reboot, CardBecomes, Fault, Cards
  <2>29. CASE Tick
    <3>1. run' \in [Runs -> Run]
      BY <2>29, OlderRunType DEF Tick
    <3>2. disk' \in StateFile
      BY <2>29, OlderStateType DEF Tick, TypeOK
    <3>3. stall' \in [age: Ages, hits: 0 .. 2]
      BY <2>29, OlderType DEF Tick, TypeOK
    <3>4. attempt' \in Ages
      BY <2>29, OlderType DEF Tick, TypeOK
    <3> QED BY <2>29, <3>1, <3>2, <3>3, <3>4 DEF TypeOK, Tick, Smaller
  <2>30. CASE UNCHANGED vars
    BY <2>30 DEF TypeOK, vars
  <2> QED
    BY <2>1, <2>2, <2>3, <2>4, <2>5, <2>6, <2>7, <2>8, <2>9, <2>10, <2>11, <2>12,
       <2>13, <2>14, <2>15, <2>16, <2>17, <2>18, <2>19, <2>20, <2>21, <2>22, <2>23,
       <2>24, <2>25, <2>26, <2>27, <2>28, <2>29, <2>30, <2>31
    DEF Next, Start, RunStep, Environment
<1> QED BY <1>1, <1>2, PTL DEF Spec

(***************************************************************************)
(* One timer, no overlapping gate.  systemd never starts a second instance *)
(* of the timer's oneshot service, so the copy of the state file a run     *)
(* decides on is still the file.                                           *)
(***************************************************************************)

Deciding == run["timer"].pc \in {"blip", "decide"}
Acting == run["timer"].pc \in {"cut", "off", "waiting", "classify", "restart"}

CopyIsFile == Deciding => run["timer"].st = disk

\* The stamp in the file is never older than the last reset that switched a
\* port; without a stamp that reset is past its cooldown, now and at the time
\* the live run read the clock.
SpacingInv ==
  /\ attempt # None => IF disk.lastCycle = None THEN attempt >= CycleCooldown
                       ELSE disk.lastCycle <= attempt
  /\ Deciding /\ disk.lastCycle = None /\ attempt # None
       => Since(attempt, run["timer"].now) >= CycleCooldown
  /\ Acting => disk.lastCycle # None /\ run["timer"].st.lastCycle = disk.lastCycle
  /\ run["timer"].pc = "off" /\ ~run["timer"].live
       => attempt = None \/ attempt >= CycleCooldown

\* Between its stamp and the cut a run has what it decided on: the reset before
\* is a cooldown away, the file bears this run's stamp and is not latched.
CutInv ==
  LET q == run["timer"] IN
  q.pc = "cut" =>
    /\ attempt = None \/ Since(attempt, q.now) >= CycleCooldown
    /\ disk.lastCycle = q.now /\ ~disk.latched
    /\ q.live \/ q.off \subseteq {"stale"}

TimerInv == CopyIsFile /\ SpacingInv /\ CutInv

\* No stage of the decision before the stamp touches the cooldown stamp, and
\* learning and tracking do not touch the latch.
LEMMA StagesKeep ==
  ASSUME TypeOK, NEW r \in Runs, run[r].pc = "decide"
  PROVE  /\ Learned(r).lastCycle = run[r].st.lastCycle
         /\ Tracked(r).lastCycle = run[r].st.lastCycle
         /\ Braked(r).lastCycle = run[r].st.lastCycle
         /\ Stamped(r).lastCycle = run[r].now
         /\ Tracked(r).latched = run[r].st.latched
<1>1. run[r].st \in StateFile
  BY DEF TypeOK, Run
<1>2. Learned(r) \in StateFile /\ Tracked(r) \in StateFile /\ Braked(r) \in StateFile
  BY StagesType
<1>3. Learned(r).lastCycle = run[r].st.lastCycle /\ Learned(r).latched = run[r].st.latched
  BY <1>1 DEF Learned, StateFile
<1>4. Tracked(r).lastCycle = Learned(r).lastCycle /\ Tracked(r).latched = Learned(r).latched
  BY <1>2 DEF Tracked, StateFile
<1>5. Braked(r).lastCycle = Tracked(r).lastCycle
  BY <1>2 DEF Braked, StateFile
<1>6. Stamped(r).lastCycle = run[r].now
  BY <1>2 DEF Stamped, StateFile
<1> QED BY <1>3, <1>4, <1>5, <1>6

\* A timer that decides to reset has its last stamp behind it by a cooldown.
LEMMA CyclesCooled ==
  ASSUME TypeOK, "timer" \in Runs, run["timer"].pc = "decide", Cycles("timer")
  PROVE  /\ ~run["timer"].st.latched
         /\ \/ run["timer"].st.lastCycle = None
            \/ Since(run["timer"].st.lastCycle, run["timer"].now) >= CycleCooldown
<1>1. /\ Tracked("timer").lastCycle = run["timer"].st.lastCycle
      /\ Tracked("timer").latched = run["timer"].st.latched
  BY StagesKeep
<1>2. ~Tracked("timer").latched /\ (ShouldCycle("timer") \/ WedgeCycle("timer"))
  BY DEF Cycles
<1>3. run["timer"].st.lastCycle \in Ages /\ run["timer"].now \in 0 .. MaxRun
  BY DEF TypeOK, Run, StateFile
<1>4. CASE ShouldCycle("timer")
  BY <1>1, <1>2, <1>4 DEF ShouldCycle
<1>5. CASE WedgeCycle("timer")
  BY <1>1, <1>2, <1>3, <1>5, TimesAssumption
  DEF WedgeCycle, Since, Ages, MaxAge, MaxRun, None
<1> QED BY <1>2, <1>4, <1>5

\* A run that ends without a new stamp keeps the invariant.
LEMMA EndKeeps ==
  ASSUME TypeOK, SpacingInv, run'["timer"].pc = "idle",
         disk'.lastCycle = disk.lastCycle, attempt' = attempt
  PROVE  TimerInv'
BY DEF TimerInv, CopyIsFile, SpacingInv, CutInv, Deciding, Acting

\* When the timer decides on a reset, what it reset last is a cooldown away and
\* the file is not latched.
LEMMA ResetCooled ==
  ASSUME Runs = {"timer"}, TypeOK, TimerInv, DecideReset("timer")
  PROVE  /\ attempt = None \/ Since(attempt, run["timer"].now) >= CycleCooldown
         /\ ~disk.latched
<1> USE TimesAssumption
<1>1. run["timer"].pc = "decide" /\ Cycles("timer")
  BY DEF DecideReset, MayReset
<1>2. run["timer"].st = disk
  BY <1>1 DEF TimerInv, CopyIsFile, Deciding
<1>3. ~disk.latched /\ (disk.lastCycle = None \/ Since(disk.lastCycle, run["timer"].now) >= CycleCooldown)
  BY <1>1, <1>2, CyclesCooled
<1>4. disk.lastCycle \in Ages /\ attempt \in Ages /\ run["timer"].now \in 0 .. MaxRun
  BY DEF TypeOK, Run, StateFile
<1>5. CASE disk.lastCycle = None
  BY <1>1, <1>3, <1>5 DEF TimerInv, SpacingInv, Deciding
<1>6. CASE disk.lastCycle # None
  <2>1. attempt = None \/ disk.lastCycle <= attempt
    BY <1>6 DEF TimerInv, SpacingInv
  <2> QED BY <1>3, <1>4, <1>6, <2>1 DEF Since, Ages, MaxAge, MaxRun, None
<1> QED BY <1>5, <1>6

\* Time passes over both ages alike, and never below a cooldown.
LEMMA OlderKeeps ==
  ASSUME NEW a \in Ages, NEW b \in Ages
  PROVE  /\ (Older(a, WedgeCooldown) = None) <=> (a = None)
         /\ a # None /\ b # None /\ a <= b => Older(a, WedgeCooldown) <= Older(b, WedgeCooldown)
         /\ a # None /\ a >= CycleCooldown => Older(a, WedgeCooldown) >= CycleCooldown
         /\ \A n \in 0 .. MaxRun :
              a # None /\ n + 1 <= MaxRun /\ a - n >= CycleCooldown
                => Older(a, WedgeCooldown) - (n + 1) >= CycleCooldown
         /\ \A n \in 0 .. MaxRun :
              a # None /\ n + 1 <= MaxRun /\ a - n >= WedgeCooldown
                => Older(a, WedgeCooldown) - (n + 1) >= WedgeCooldown
         /\ a # None /\ a + 1 <= MaxRun => Older(a, WedgeCooldown) = a + 1
BY TimesAssumption DEF Older, Ages, MaxAge, MaxRun, None, Smaller

\* Time passing keeps the timer's invariant: stamp and reset age together.
LEMMA TickKeeps ==
  ASSUME Runs = {"timer"}, TypeOK, TypeOK', TimerInv, Tick
  PROVE  TimerInv'
<1> USE TimesAssumption
<1> DEFINE q == run["timer"]
<1>1. q \in Run /\ disk \in StateFile /\ attempt \in Ages
  BY DEF TypeOK
<1>2. q.st \in StateFile /\ disk.lastCycle \in Ages /\ q.st.lastCycle \in Ages /\ q.now \in 0 .. MaxRun
  BY <1>1 DEF Run, StateFile
<1>3. /\ disk' = OlderState(disk)
      /\ run'["timer"] = OlderRun(q)
      /\ attempt' = Older(attempt, WedgeCooldown)
  BY DEF Tick
<1>4. disk'.lastCycle = Older(disk.lastCycle, WedgeCooldown)
  BY <1>1, <1>3 DEF OlderState, StateFile
<1>5. /\ run'["timer"].pc = q.pc
      /\ run'["timer"].live = q.live
      /\ q.pc # "idle" => run'["timer"].st = OlderState(q.st)
      /\ Deciding \/ q.pc = "cut" => run'["timer"].now = q.now + 1
      /\ run'["timer"].off = q.off
  BY <1>1, <1>3 DEF OlderRun, Run, Deciding
<1>6. run'["timer"].now \in 0 .. MaxRun
  BY DEF TypeOK, Run
<1>7. /\ Deciding' <=> Deciding
      /\ Acting' <=> Acting
  BY <1>5 DEF Deciding, Acting
<1>8. CopyIsFile'
  BY <1>3, <1>5, <1>7 DEF CopyIsFile, TimerInv, Deciding
<1>9. Acting => run'["timer"].st.lastCycle = Older(q.st.lastCycle, WedgeCooldown)
  BY <1>2, <1>5 DEF Acting, OlderState, StateFile
<1>10. attempt' # None =>
         IF disk'.lastCycle = None THEN attempt' >= CycleCooldown ELSE disk'.lastCycle <= attempt'
  BY <1>1, <1>2, <1>3, <1>4, OlderKeeps DEF TimerInv, SpacingInv
<1>11. Deciding /\ disk'.lastCycle = None /\ attempt' # None
         => attempt' - run'["timer"].now >= CycleCooldown
  <2> SUFFICES ASSUME Deciding, disk'.lastCycle = None, attempt' # None
               PROVE  attempt' - run'["timer"].now >= CycleCooldown
    OBVIOUS
  <2>1. disk.lastCycle = None /\ attempt # None
    BY <1>1, <1>2, <1>3, <1>4, OlderKeeps
  <2>2. attempt - q.now >= CycleCooldown
    BY <2>1 DEF TimerInv, SpacingInv, Since
  <2>3. run'["timer"].now = q.now + 1 /\ q.now + 1 <= MaxRun
    BY <1>5, <1>6 DEF MaxRun
  <2> HIDE DEF q
  <2> QED BY <1>1, <1>2, <1>3, <2>1, <2>2, <2>3, OlderKeeps
<1>12. Acting => disk'.lastCycle # None /\ run'["timer"].st.lastCycle = disk'.lastCycle
  BY <1>2, <1>4, <1>9, OlderKeeps DEF TimerInv, SpacingInv
<1>13. q.pc = "off" /\ ~q.live => attempt' = None \/ attempt' >= CycleCooldown
  BY <1>1, <1>3, OlderKeeps DEF TimerInv, SpacingInv
<1>14. CutInv'
  <2> SUFFICES ASSUME q.pc = "cut" PROVE CutInv'
    BY <1>5 DEF CutInv
  <2>1. /\ attempt = None \/ attempt - q.now >= CycleCooldown
        /\ disk.lastCycle = q.now /\ ~disk.latched /\ (q.live \/ q.off \subseteq {"stale"})
    BY DEF TimerInv, CutInv, Since
  <2>2. run'["timer"].now = q.now + 1 /\ q.now + 1 <= MaxRun
    BY <1>5, <1>6 DEF MaxRun
  <2>3. disk'.latched = disk.latched
    BY <1>1, <1>3 DEF OlderState, StateFile
  <2>4. q.now # None /\ q.now \in Ages
    BY <1>2, <2>1 DEF None, MaxRun
  <2> HIDE DEF q
  <2>5. disk'.lastCycle = q.now + 1
    BY <1>4, <2>1, <2>2, <2>4, OlderKeeps
  <2>6. attempt' = None \/ attempt' - (q.now + 1) >= CycleCooldown
    BY <1>1, <1>2, <1>3, <2>1, <2>2, OlderKeeps
  <2> QED BY <1>5, <2>1, <2>2, <2>3, <2>5, <2>6 DEF CutInv, Since, q
<1> QED BY <1>5, <1>7, <1>8, <1>10, <1>11, <1>12, <1>13, <1>14 DEF TimerInv, SpacingInv, Since

\* Deciding on a reset keeps it: the stamp is as young as the run.
LEMMA StampKeeps ==
  ASSUME Runs = {"timer"}, TypeOK, TimerInv, DecideReset("timer")
  PROVE  TimerInv'
<1> USE TimesAssumption
<1> DEFINE q == run["timer"]
<1>1. (attempt = None \/ Since(attempt, q.now) >= CycleCooldown) /\ ~disk.latched
  BY ResetCooled
<1>2. /\ q \in Run /\ q.now \in 0 .. MaxRun /\ attempt \in Ages /\ attempt' = attempt
      /\ q.pc = "decide" /\ q.st = disk
  BY DEF TypeOK, Run, DecideReset, ghosts, TimerInv, CopyIsFile, Deciding
<1>3. disk' = Stamped("timer") /\ Stamped("timer").lastCycle = q.now /\ ~Stamped("timer").latched
  <2>1. Stamped("timer").latched => Tracked("timer").latched
    <3>1. Tracked("timer") \in StateFile /\ Braked("timer") \in StateFile
      BY <1>2, StagesType
    <3>2. Stamped("timer").latched = Braked("timer").latched
      BY <3>1 DEF Stamped, StateFile
    <3>3. Braked("timer").latched => Tracked("timer").latched
      BY <3>1 DEF Braked, StateFile
    <3> QED BY <3>2, <3>3
  <2> QED BY <1>1, <1>2, <2>1, StagesKeep DEF DecideReset, Save
<1>4. /\ run'["timer"].pc = "cut" /\ run'["timer"].st = Stamped("timer") /\ run'["timer"].now = q.now
      /\ run'["timer"].off = Clean("timer")
      /\ run'["timer"].live = (Clean("timer") \ {"stale"} # {})
  BY <1>2 DEF DecideReset, TypeOK, Run
<1>5. run'["timer"].live \/ run'["timer"].off \subseteq {"stale"}
  BY <1>4
<1> QED BY <1>1, <1>2, <1>3, <1>4, <1>5
        DEF TimerInv, CopyIsFile, SpacingInv, CutInv, Deciding, Acting, Since, Ages, MaxAge, MaxRun, None

\* The cut keeps it: the stamp on file is as young as the reset.
LEMMA CutKeeps ==
  ASSUME Runs = {"timer"}, TypeOK, TimerInv, PortsOff("timer")
  PROVE  TimerInv'
<1> USE TimesAssumption
<1> DEFINE q == run["timer"]
<1>1. /\ q.pc = "cut" /\ q \in Run /\ q.now \in 0 .. MaxRun /\ attempt \in Ages /\ disk' = disk
  BY DEF PortsOff, TypeOK, Run
<1>2. /\ attempt = None \/ Since(attempt, q.now) >= CycleCooldown
      /\ disk.lastCycle = q.now /\ (q.live \/ q.off \subseteq {"stale"})
      /\ q.st.lastCycle = disk.lastCycle
  BY <1>1 DEF TimerInv, CutInv, SpacingInv, Acting
<1>3. PICK bad \in SUBSET q.off :
        LET cut == q.off \ (bad \union {"stale"}) IN
        /\ run' = [run EXCEPT !["timer"] = [Idle EXCEPT !.pc = "off", !.st = q.st, !.off = cut,
                                                       !.live = q.live, !.ok = (bad = {})]]
        /\ attempt' = IF cut = {} THEN attempt ELSE q.now
  BY DEF PortsOff
<1>4. /\ run'["timer"].pc = "off" /\ run'["timer"].st = q.st /\ run'["timer"].live = q.live
      /\ attempt' = attempt \/ attempt' = q.now
      /\ q.live \/ attempt' = attempt
  <2>1. run \in [{"timer"} -> Run]
    BY DEF TypeOK
  <2>2. q.off \subseteq {"stale"} => q.off \ (bad \union {"stale"}) = {}
    OBVIOUS
  <2> QED BY <1>2, <1>3, <2>1, <2>2 DEF Idle
<1> HIDE DEF q
<1> QED BY <1>1, <1>2, <1>4
        DEF TimerInv, CopyIsFile, SpacingInv, CutInv, Deciding, Acting, Since, Ages, MaxAge, MaxRun, None

\* Every step of one timer and its world keeps the timer's invariant.
LEMMA TimerInvInductive ==
  ASSUME Runs = {"timer"}, TypeOK, TypeOK', TimerInv, [Next]_vars
  PROVE  TimerInv'
<1> USE TimesAssumption
<1> DEFINE q == run["timer"]
<1>1. run \in [{"timer"} -> Run] /\ q \in Run /\ q.st \in StateFile /\ disk \in StateFile
  BY DEF TypeOK, Run
<1>2. Idle.pc = "idle"
  BY DEF Idle
<1>3. ASSUME UNCHANGED <<disk, run, attempt>> PROVE TimerInv'
  BY <1>3 DEF TimerInv, CopyIsFile, SpacingInv, CutInv, Deciding, Acting
<1>4. ASSUME Quit("timer"), disk'.lastCycle = disk.lastCycle, attempt' = attempt PROVE TimerInv'
  <2>1. run'["timer"].pc = "idle"
    BY <1>1, <1>2, <1>4 DEF Quit
  <2> QED BY <1>4, <2>1, EndKeeps DEF TimerInv
<1>5. CASE StartPlain("timer") \/ StartBlip("timer")
  <2>1. /\ run'["timer"].pc \in {"blip", "decide"}
        /\ run'["timer"].st = disk /\ run'["timer"].now = 0
        /\ disk' = disk /\ attempt' = attempt
    <3>1. ASSUME NEW p \in {"blip", "decide"}
          PROVE  Loaded(p).pc = p /\ Loaded(p).st = disk /\ Loaded(p).now = 0
      BY DEF Loaded, Idle
    <3>2. ASSUME NEW p \in {"blip", "decide"}, NEW o
          PROVE  LET l == [Loaded(p) EXCEPT !.off = o] IN l.pc = p /\ l.st = disk /\ l.now = 0
      BY DEF Loaded, Idle
    <3>3. CASE StartPlain("timer")
      BY <1>1, <3>1, <3>3 DEF StartPlain, ghosts
    <3>4. CASE StartBlip("timer")
      BY <1>1, <3>2, <3>4 DEF StartBlip, ghosts
    <3> QED BY <1>5, <3>3, <3>4
  <2>2. attempt \in Ages
    BY DEF TypeOK
  <2> QED BY <2>1, <2>2 DEF TimerInv, CopyIsFile, SpacingInv, CutInv, Deciding, Acting, Since, Ages, MaxAge
<1>6. CASE BlipBack("timer")
  <2>1. /\ run'["timer"].pc = "decide" /\ q.pc = "blip"
        /\ run'["timer"].st = q.st /\ run'["timer"].now = q.now
        /\ disk' = disk /\ attempt' = attempt
    BY <1>1, <1>6 DEF BlipBack, Run
  <2> QED BY <2>1 DEF TimerInv, CopyIsFile, SpacingInv, CutInv, Deciding, Acting
<1>7. CASE DecideNothing("timer") \/ DecideHold("timer") \/ DecideRefuse("timer") \/ DecideAlarm("timer")
  <2>1. q.pc = "decide"
    BY <1>7 DEF DecideNothing, DecideHold, DecideRefuse, DecideAlarm
  <2>2. q.st = disk
    BY <2>1 DEF TimerInv, CopyIsFile, Deciding
  <2>3. Learned("timer").lastCycle = disk.lastCycle /\ Braked("timer").lastCycle = disk.lastCycle
        /\ Braked("timer") \in StateFile
    BY <2>1, <2>2, StagesKeep, StagesType
  <2>4. disk'.lastCycle = disk.lastCycle
    BY <1>7, <2>3 DEF DecideNothing, DecideHold, DecideRefuse, DecideAlarm, RaiseReplugAlarm,
       Save, StateFile
  <2>5. Quit("timer") /\ attempt' = attempt
    BY <1>7 DEF DecideNothing, DecideHold, DecideRefuse, DecideAlarm, ghosts
  <2> QED BY <1>4, <2>4, <2>5
<1>8. CASE DecideReset("timer")
  BY <1>8, StampKeeps
<1>19. CASE PortsOff("timer")
  BY <1>19, CutKeeps
<1>9. CASE PortsOn("timer")
  <2>1. q.pc = "off" /\ attempt' = attempt
    BY <1>9 DEF PortsOn, ghosts
  <2>2. disk.lastCycle # None /\ q.st.lastCycle = disk.lastCycle
    BY <2>1 DEF TimerInv, SpacingInv, Acting
  <2>3. \/ run' = [run EXCEPT !["timer"].pc = "waiting", !["timer"].off = {},
                               !["timer"].st.cardReturn = 0, !["timer"].wait = 0]
           /\ disk' = disk
        \/ Quit("timer") /\ disk' = disk
        \/ Quit("timer") /\ ~q.live /\ disk' = [q.st EXCEPT !.lastCycle = None]
    BY <1>9 DEF PortsOn, Save
  <2>4. CASE disk' = disk /\ run' = [run EXCEPT !["timer"].pc = "waiting", !["timer"].off = {},
                                              !["timer"].st.cardReturn = 0, !["timer"].wait = 0]
    <3>1. run'["timer"].pc = "waiting" /\ run'["timer"].st.lastCycle = q.st.lastCycle
      BY <1>1, <2>4 DEF Run, StateFile
    <3> QED BY <2>1, <2>2, <2>4, <3>1 DEF TimerInv, CopyIsFile, SpacingInv, CutInv, Deciding, Acting
  <2>5. CASE Quit("timer") /\ ~q.live /\ disk' = [q.st EXCEPT !.lastCycle = None]
    <3>1. run'["timer"].pc = "idle" /\ disk'.lastCycle = None
      BY <1>1, <1>2, <2>5 DEF Quit, StateFile
    <3>2. attempt = None \/ attempt >= CycleCooldown
      BY <2>1, <2>5 DEF TimerInv, SpacingInv
    <3> QED BY <2>1, <3>1, <3>2 DEF TimerInv, CopyIsFile, SpacingInv, CutInv, Deciding, Acting
  <2> QED BY <1>4, <2>1, <2>3, <2>4, <2>5
<1>10. CASE DeviceBack("timer")
  <2>1. /\ q.pc = "waiting" /\ run'["timer"].pc = "classify" /\ run'["timer"].st = q.st
        /\ disk' = disk /\ attempt' = attempt
    BY <1>1, <1>10 DEF DeviceBack, ghosts, Run
  <2> QED BY <2>1 DEF TimerInv, CopyIsFile, SpacingInv, CutInv, Deciding, Acting
<1>11. CASE ClassifyRecovered("timer") /\ unit
  <2>1. /\ q.pc = "classify" /\ run'["timer"].pc = "restart" /\ run'["timer"].st = q.st
        /\ disk' = disk /\ attempt' = attempt
    BY <1>1, <1>11 DEF ClassifyRecovered, ghosts, Run
  <2> QED BY <2>1 DEF TimerInv, CopyIsFile, SpacingInv, CutInv, Deciding, Acting
<1>12. CASE NeverBack("timer") \/ (ClassifyRecovered("timer") /\ ~unit) \/ ClassifyLatched("timer")
            \/ RestartOk("timer") \/ RestartFailed("timer")
  <2>1. q.st.lastCycle = disk.lastCycle
    BY <1>12 DEF NeverBack, ClassifyRecovered, ClassifyLatched, RestartOk, RestartFailed,
       TimerInv, SpacingInv, Acting
  <2>2. disk' = disk \/ disk' = q.st \/ (\E l, a \in BOOLEAN :
              disk' = [q.st EXCEPT !.latched = l, !.alarmed = a])
    BY <1>12 DEF NeverBack, ClassifyRecovered, ClassifyLatched, RestartOk, RestartFailed,
       RaiseReplugAlarm, Save
  <2>3. disk'.lastCycle = disk.lastCycle
    BY <1>1, <2>1, <2>2 DEF StateFile
  <2>4. Quit("timer") /\ attempt' = attempt
    BY <1>12 DEF NeverBack, ClassifyRecovered, ClassifyLatched, RestartOk, RestartFailed, ghosts
  <2> QED BY <1>4, <2>3, <2>4
<1>13. CASE Kill("timer")
  BY <1>4, <1>13 DEF Kill, ghosts
<1>14. CASE Reboot
  <2>1. run'["timer"].pc = "idle" /\ attempt' = attempt
    BY <1>2, <1>14 DEF Reboot
  <2>2. disk'.lastCycle = disk.lastCycle
    BY <1>1, <1>14 DEF Reboot, StateFile
  <2> QED BY <2>1, <2>2, EndKeeps DEF TimerInv
<1>15. CASE Replug
  <2>1. q.pc \notin {"blip", "decide", "cut", "off"} /\ attempt' = attempt
    BY <1>15 DEF Replug
  <2>2. disk'.lastCycle = disk.lastCycle
    BY <1>1, <1>15 DEF Replug, StateFile
  <2>3. run'["timer"].pc = q.pc /\ run'["timer"].st.lastCycle = q.st.lastCycle
    BY <1>1, <1>15 DEF Replug, Run, StateFile
  <2> QED BY <2>1, <2>2, <2>3 DEF TimerInv, CopyIsFile, SpacingInv, CutInv, Deciding, Acting
<1>16. CASE Vanish \/ Appear \/ Firmware \/ ForeignChanges \/ Stall \/ RadiodStarts
            \/ ConfigureRadiod \/ UNCHANGED vars
  BY <1>3, <1>16 DEF Vanish, Appear, Firmware, ForeignChanges, Stall, RadiodStarts,
     ConfigureRadiod, ghosts, vars
<1>17. CASE Tick
  BY <1>17, TickKeeps
<1>18. ~StartGate /\ ~GateSees /\ ~GateGivesUpWaiting
  BY DEF StartGate, GateSees, GateGivesUpWaiting
<1> QED
  BY <1>5, <1>6, <1>7, <1>8, <1>9, <1>10, <1>11, <1>12, <1>13, <1>14, <1>15, <1>16, <1>17, <1>18, <1>19
  DEF Next, Start, RunStep, Environment

\* It holds before the first run.
LEMMA TimerInvInit ==
  ASSUME Runs = {"timer"}, Init
  PROVE  TimerInv
BY DEF Init, TimerInv, CopyIsFile, SpacingInv, CutInv, Deciding, Acting, Idle

\* For every timing constant, port topology and fault: the timer never resets
\* a port within CYCLE_COOLDOWN_S of the last reset that switched anything,
\* killed runs and reboots included (save_state before cycle_port).
THEOREM ResetsAreSpaced ==
  ASSUME Runs = {"timer"}
  PROVE  Spec => ResetSpacing
<1>1. Init => TimerInv
  BY TimerInvInit
<1>2. TypeOK /\ TypeOK' /\ TimerInv /\ [Next]_vars => TimerInv'
  BY TimerInvInductive
<1>3. TypeOK /\ TimerInv /\ [Next]_vars =>
        [\A r \in Runs \intersect {"timer"} :
           Resets(r) => attempt = None \/ Since(attempt, run[r].now) >= CycleCooldown]_vars
  <2> SUFFICES ASSUME TypeOK, TimerInv, Next, NEW r \in Runs \intersect {"timer"}, Resets(r)
               PROVE  attempt = None \/ Since(attempt, run[r].now) >= CycleCooldown
    OBVIOUS
  <2>1. r = "timer"
    OBVIOUS
  <2>2. run["timer"].pc = "cut"
    BY <2>1 DEF Resets
  <2> QED BY <2>1, <2>2 DEF TimerInv, CutInv
<1> QED BY <1>1, <1>2, <1>3, TypeCorrect, PTL DEF Spec, ResetSpacing

\* For every timing constant, port topology and fault: the timer never resets
\* while the state file says the card is latched.
THEOREM LatchedIsLeftAlone ==
  ASSUME Runs = {"timer"}
  PROVE  Spec => LatchStopsResets
<1>1. Init => TimerInv
  BY TimerInvInit
<1>2. TypeOK /\ TypeOK' /\ TimerInv /\ [Next]_vars => TimerInv'
  BY TimerInvInductive
<1>3. TypeOK /\ TimerInv /\ [Next]_vars =>
        [\A r \in Runs \intersect {"timer"} : Resets(r) => ~disk.latched]_vars
  <2> SUFFICES ASSUME TypeOK, TimerInv, Next, NEW r \in Runs \intersect {"timer"}, Resets(r)
               PROVE  ~disk.latched
    OBVIOUS
  <2>1. r = "timer"
    OBVIOUS
  <2>2. run["timer"].pc = "cut"
    BY <2>1 DEF Resets
  <2> QED BY <2>2 DEF TimerInv, CutInv
<1> QED BY <1>1, <1>2, <1>3, TypeCorrect, PTL DEF Spec, LatchStopsResets

(***************************************************************************)
(* One alarm per episode                                                   *)
(***************************************************************************)

\* An alarm that was raised is in the file, and in the copy a run carries
\* through a reset, for as long as the card has not been back at SuperSpeed.
AlarmInv ==
  /\ alarms <= 1
  /\ card = "ss" => alarms = 0
  /\ alarms > 0 => disk.alarmed
  /\ Acting => run["timer"].st.alarmed = disk.alarmed

\* Only the latch's release, which needs the card at SuperSpeed, makes a
\* decision forget the alarm.
LEMMA StagesKeepAlarmed ==
  ASSUME TypeOK, NEW r \in Runs, run[r].pc = "decide"
  PROVE  /\ Learned(r).alarmed = run[r].st.alarmed
         /\ card # "ss" => Braked(r).alarmed = run[r].st.alarmed
         /\ Braked(r).alarmed => run[r].st.alarmed
         /\ Stamped(r).alarmed = Braked(r).alarmed
<1>1. run[r].st \in StateFile
  BY DEF TypeOK, Run
<1>2. Learned(r) \in StateFile /\ Tracked(r) \in StateFile /\ Braked(r) \in StateFile
  BY StagesType
<1>3. Learned(r).alarmed = run[r].st.alarmed
  BY <1>1 DEF Learned, StateFile
<1>4. Tracked(r).alarmed = Learned(r).alarmed
  BY <1>2 DEF Tracked, StateFile
<1>5. \E release \in BOOLEAN :
        /\ release => card = "ss"
        /\ Braked(r).alarmed = (Tracked(r).alarmed /\ ~release)
  <2> DEFINE release == r = "timer" /\ Tracked(r).latched /\ run[r].present /\ card = "ss" /\ ~Wedged(r)
  <2>1. Braked(r).alarmed = (Tracked(r).alarmed /\ ~release)
    BY <1>2 DEF Braked, StateFile
  <2> QED BY <2>1
<1>6. Tracked(r).alarmed \in BOOLEAN
  BY <1>2 DEF StateFile
<1>7. Stamped(r).alarmed = Braked(r).alarmed
  BY <1>2 DEF Stamped, StateFile
<1> QED BY <1>3, <1>4, <1>5, <1>6, <1>7

\* Raising the alarm from a copy that knows of the earlier one counts once.
LEMMA RaiseKeeps ==
  ASSUME TypeOK, AlarmInv, NEW s \in StateFile, RaiseReplugAlarm(s),
         card # "ss" => s.alarmed = disk.alarmed,
         card' = card, run'["timer"].pc = "idle"
  PROVE  AlarmInv'
<1>1. alarms \in 0 .. 2 /\ disk.alarmed \in BOOLEAN /\ s.alarmed \in BOOLEAN
  BY DEF TypeOK, StateFile
<1>2. disk'.alarmed
  BY DEF RaiseReplugAlarm, Save, StateFile
<1>3. ~Acting'
  BY DEF Acting
<1>4. CASE card = "ss"
  BY <1>1, <1>2, <1>3, <1>4 DEF AlarmInv, RaiseReplugAlarm
<1>5. CASE card # "ss"
  <2>1. alarms' <= 1
    <3>1. CASE s.alarmed
      BY <1>1, <1>5, <3>1 DEF AlarmInv, RaiseReplugAlarm
    <3>2. CASE ~s.alarmed
      <4>1. alarms = 0
        BY <1>1, <1>5, <3>2 DEF AlarmInv
      <4> QED BY <1>5, <3>2, <4>1 DEF RaiseReplugAlarm, Smaller
    <3> QED BY <3>1, <3>2
  <2> QED BY <1>2, <1>3, <1>5, <2>1 DEF AlarmInv
<1> QED BY <1>4, <1>5

\* Every step of one timer and its world keeps the alarm's invariant.
LEMMA AlarmInvInductive ==
  ASSUME Runs = {"timer"}, TypeOK, TypeOK', CopyIsFile, AlarmInv, [Next]_vars
  PROVE  AlarmInv'
<1> DEFINE q == run["timer"]
<1>1. /\ run \in [{"timer"} -> Run] /\ q \in Run /\ q.st \in StateFile /\ disk \in StateFile
      /\ alarms \in 0 .. 2
  BY DEF TypeOK, Run
<1>2. Idle.pc = "idle"
  BY DEF Idle
<1>3. Quit("timer") => run'["timer"].pc = "idle"
  BY <1>1, <1>2 DEF Quit
<1>4. ASSUME disk'.alarmed = disk.alarmed,
             Acting' => Acting /\ run'["timer"].st.alarmed = q.st.alarmed,
             \/ alarms' = alarms /\ (card' = "ss" => card = "ss")
             \/ CardBecomes(card')
      PROVE  AlarmInv'
  BY <1>1, <1>4 DEF AlarmInv, CardBecomes
<1>5. CASE StartPlain("timer") \/ StartBlip("timer")
  <2>1. ASSUME NEW p \in {"blip", "decide"}, NEW o
        PROVE  Loaded(p).pc = p /\ [Loaded(p) EXCEPT !.off = o].pc = p
    BY DEF Loaded, Idle
  <2>2. run'["timer"].pc \in {"blip", "decide"}
    BY <1>1, <1>5, <2>1 DEF StartPlain, StartBlip
  <2>3. disk' = disk /\ alarms' = alarms /\ (card' = "ss" => card = "ss")
    BY <1>5 DEF StartPlain, StartBlip, ghosts, world
  <2> QED BY <1>4, <2>2, <2>3 DEF Acting
<1>6. CASE BlipBack("timer")
  <2>1. run'["timer"].pc = "decide" /\ disk' = disk
    BY <1>1, <1>6 DEF BlipBack, Run
  <2>2. (card' = card /\ alarms' = alarms) \/ CardBecomes(card')
    BY <1>6 DEF BlipBack, CardBecomes
  <2> QED BY <1>4, <2>1, <2>2 DEF Acting
<1>7. CASE DecideNothing("timer")
  <2>1. q.pc = "decide" /\ q.st = disk
    BY <1>7 DEF DecideNothing, CopyIsFile, Deciding
  <2>2. disk'.alarmed = disk.alarmed
    BY <1>7, <2>1, StagesKeepAlarmed DEF DecideNothing, Save
  <2>3. run'["timer"].pc = "idle" /\ alarms' = alarms /\ card' = card
    BY <1>3, <1>7 DEF DecideNothing, ghosts, world
  <2> QED BY <1>4, <2>2, <2>3 DEF Acting
<1>8. CASE DecideHold("timer") \/ DecideRefuse("timer")
  <2>1. q.pc = "decide" /\ q.st = disk
    BY <1>8 DEF DecideHold, DecideRefuse, CopyIsFile, Deciding
  <2>2. card # "ss" => disk'.alarmed = disk.alarmed
    BY <1>8, <2>1, StagesKeepAlarmed DEF DecideHold, DecideRefuse, Save
  <2>3. run'["timer"].pc = "idle" /\ alarms' = alarms /\ card' = card
    BY <1>3, <1>8 DEF DecideHold, DecideRefuse, ghosts, world
  <2> QED BY <1>1, <2>2, <2>3 DEF AlarmInv, Acting
<1>9. CASE DecideAlarm("timer")
  <2>1. q.pc = "decide" /\ q.st = disk
    BY <1>9 DEF DecideAlarm, CopyIsFile, Deciding
  <2>2. Braked("timer") \in StateFile /\ (card # "ss" => Braked("timer").alarmed = disk.alarmed)
    BY <2>1, StagesType, StagesKeepAlarmed
  <2>3. RaiseReplugAlarm(Braked("timer")) /\ run'["timer"].pc = "idle" /\ card' = card
    BY <1>3, <1>9 DEF DecideAlarm, world
  <2> QED BY <2>2, <2>3, RaiseKeeps
<1>10. CASE DecideReset("timer")
  <2>1. q.pc = "decide" /\ q.st = disk
    BY <1>10 DEF DecideReset, CopyIsFile, Deciding
  <2>2. card # "ss" => Stamped("timer").alarmed = disk.alarmed
    BY <2>1, StagesKeepAlarmed
  <2>3. disk' = Stamped("timer") /\ alarms' = alarms /\ card' = card
    BY <1>10 DEF DecideReset, Save, world, ghosts
  <2>4. run'["timer"].st = Stamped("timer")
    BY <1>1, <1>10 DEF DecideReset, Run
  <2> QED BY <1>1, <2>2, <2>3, <2>4 DEF AlarmInv
<1>22. CASE PortsOff("timer")
  <2>1. q.pc = "cut" /\ disk' = disk /\ alarms' = alarms /\ (card' = "ss" => card = "ss")
    BY <1>22 DEF PortsOff
  <2>2. run'["timer"].st = q.st
    BY <1>1, <1>22 DEF PortsOff, Idle
  <2> QED BY <1>4, <2>1, <2>2 DEF Acting
<1>11. CASE PortsOn("timer")
  <2>1. q.pc = "off" /\ alarms' = alarms
    BY <1>11 DEF PortsOn, ghosts
  <2>2. q.st.alarmed = disk.alarmed
    BY <2>1 DEF AlarmInv, Acting
  <2>3. card' = "ss" => card = "ss"
    BY <1>11 DEF PortsOn
  <2>4. \/ run' = [run EXCEPT !["timer"].pc = "waiting", !["timer"].off = {},
                               !["timer"].st.cardReturn = 0, !["timer"].wait = 0]
           /\ disk' = disk
        \/ Quit("timer") /\ disk' = disk
        \/ Quit("timer") /\ disk' = [q.st EXCEPT !.lastCycle = None]
    BY <1>11 DEF PortsOn, Save
  <2>5. disk'.alarmed = disk.alarmed
    BY <1>1, <2>2, <2>4 DEF StateFile
  <2>6. Acting' => run'["timer"].st.alarmed = q.st.alarmed
    <3>1. CASE Quit("timer")
      BY <1>3, <3>1 DEF Acting
    <3>2. CASE run' = [run EXCEPT !["timer"].pc = "waiting", !["timer"].off = {},
                               !["timer"].st.cardReturn = 0, !["timer"].wait = 0]
      BY <1>1, <3>2 DEF Run, StateFile
    <3> QED BY <2>4, <3>1, <3>2
  <2> QED BY <1>4, <2>1, <2>3, <2>5, <2>6 DEF Acting
<1>12. CASE DeviceBack("timer") \/ (ClassifyRecovered("timer") /\ unit)
  <2>1. /\ q.pc \in {"waiting", "classify"} /\ run'["timer"].st = q.st
        /\ disk' = disk /\ alarms' = alarms /\ card' = card
    BY <1>1, <1>12 DEF DeviceBack, ClassifyRecovered, ghosts, world, Run
  <2> QED BY <1>4, <2>1 DEF Acting
<1>13. CASE NeverBack("timer") \/ ClassifyLatched("timer")
  <2>1. q.st.alarmed = disk.alarmed
    BY <1>13 DEF NeverBack, ClassifyLatched, AlarmInv, Acting
  <2>2. RaiseReplugAlarm(q.st) /\ run'["timer"].pc = "idle" /\ card' = card
    BY <1>3, <1>13 DEF NeverBack, ClassifyLatched, world
  <2> QED BY <1>1, <2>1, <2>2, RaiseKeeps
<1>14. CASE (ClassifyRecovered("timer") /\ ~unit) \/ RestartOk("timer")
  <2>1. card = "ss" /\ card' = card /\ alarms' = alarms /\ run'["timer"].pc = "idle"
    BY <1>3, <1>14 DEF ClassifyRecovered, RestartOk, ghosts, world
  <2> QED BY <2>1 DEF AlarmInv, Acting
<1>15. CASE RestartFailed("timer") \/ Kill("timer")
  <2>1. card' = card /\ alarms' = alarms /\ disk' = disk /\ run'["timer"].pc = "idle"
    BY <1>3, <1>15 DEF RestartFailed, Kill, ghosts, world
  <2> QED BY <1>4, <2>1 DEF Acting
<1>16. CASE Reboot
  <2>1. run'["timer"].pc = "idle" /\ CardBecomes(card')
    BY <1>2, <1>16 DEF Reboot, CardBecomes
  <2>2. disk'.alarmed = disk.alarmed
    BY <1>1, <1>16 DEF Reboot, StateFile
  <2> QED BY <1>4, <2>1, <2>2 DEF Acting
<1>17. CASE Replug
  <2>1. CardBecomes(card')
    BY <1>17 DEF Replug, CardBecomes
  <2>2. disk'.alarmed = disk.alarmed
    BY <1>1, <1>17 DEF Replug, StateFile
  <2>3. run'["timer"].pc = q.pc /\ run'["timer"].st.alarmed = q.st.alarmed
    BY <1>1, <1>17 DEF Replug, Run, StateFile
  <2> QED BY <1>4, <2>1, <2>2, <2>3 DEF Acting
<1>18. CASE Vanish \/ Appear \/ Firmware
  <2>1. disk' = disk /\ run' = run /\ CardBecomes(card')
    BY <1>18 DEF Vanish, Appear, Firmware, CardBecomes
  <2> QED BY <1>4, <2>1 DEF Acting
<1>19. CASE ForeignChanges \/ Stall \/ RadiodStarts \/ ConfigureRadiod \/ UNCHANGED vars
  <2>1. disk' = disk /\ run' = run /\ card' = card /\ alarms' = alarms
    BY <1>19 DEF ForeignChanges, Stall, RadiodStarts, ConfigureRadiod, ghosts, vars
  <2> QED BY <1>4, <2>1 DEF Acting
<1>20. CASE Tick
  <2>1. disk'.alarmed = disk.alarmed
    BY <1>1, <1>20 DEF Tick, OlderState, StateFile
  <2>2. run'["timer"] = OlderRun(q)
    BY <1>20 DEF Tick
  <2>3. OlderRun(q).pc = q.pc /\ OlderRun(q).st.alarmed = q.st.alarmed
    BY <1>1 DEF OlderRun, OlderState, Run, StateFile
  <2>4. card' = card /\ alarms' = alarms
    BY <1>20 DEF Tick
  <2> QED BY <1>4, <2>1, <2>2, <2>3, <2>4 DEF Acting
<1>21. ~StartGate /\ ~GateSees /\ ~GateGivesUpWaiting
  BY DEF StartGate, GateSees, GateGivesUpWaiting
<1> QED
  BY <1>5, <1>6, <1>7, <1>8, <1>9, <1>10, <1>11, <1>12, <1>13, <1>14, <1>15, <1>16, <1>17,
     <1>18, <1>19, <1>20, <1>21, <1>22
  DEF Next, Start, RunStep, Environment

\* For every timing constant, port topology and fault: the timer raises the
\* needs-replug alarm at most once for a card that has not been back at
\* SuperSpeed since (_raise_replug_alarm), killed runs, reboots and hand
\* replugs included.
THEOREM AlarmsOncePerEpisode ==
  ASSUME Runs = {"timer"}
  PROVE  Spec => []OneAlarmPerEpisode
<1>1. Init => TimerInv /\ AlarmInv
  BY TimerInvInit DEF Init, AlarmInv, Acting, Idle
<1>2. TypeOK /\ TypeOK' /\ TimerInv /\ AlarmInv /\ [Next]_vars => TimerInv' /\ AlarmInv'
  BY TimerInvInductive, AlarmInvInductive DEF TimerInv
<1>3. AlarmInv => OneAlarmPerEpisode
  BY DEF AlarmInv, OneAlarmPerEpisode
<1> QED BY <1>1, <1>2, <1>3, TypeCorrect, PTL DEF Spec

(***************************************************************************)
(* A present card is reset for fresh stalls alone                          *)
(***************************************************************************)

\* While uhubctl does not fail, a reset that switched a port stays stamped.
\* A failed cycle of a stale path alone takes the stamp back, and with it the
\* stamp of the reset before.
StampInv ==
  /\ attempt # None => disk.lastCycle # None
  /\ Acting /\ run["timer"].pc # "cut" => run["timer"].ok

\* A run about to cut the port of a present card has stall lines younger than
\* the last reset, which is a wedge cooldown away.
FreshInv ==
  LET q == run["timer"] IN
  q.pc = "cut" /\ q.present =>
    /\ stall.age # None
    /\ attempt = None \/ (stall.age <= attempt /\ Since(attempt, q.now) >= WedgeCooldown)

\* Every step of one timer and its world keeps it.
LEMMA StampInvInductive ==
  ASSUME Runs = {"timer"}, "uhubctl" \notin FaultKinds, TypeOK, TypeOK', TimerInv, StampInv, [Next]_vars
  PROVE  StampInv'
<1> USE TimesAssumption
<1> DEFINE q == run["timer"]
<1>1. /\ run \in [{"timer"} -> Run] /\ q \in Run /\ q.st \in StateFile /\ disk \in StateFile
      /\ attempt \in Ages /\ disk.lastCycle \in Ages
  BY DEF TypeOK, Run, StateFile
<1>2. Idle.pc = "idle" /\ (Quit("timer") => run'["timer"].pc = "idle")
  BY <1>1 DEF Idle, Quit
<1>3. ASSUME disk'.lastCycle = disk.lastCycle, attempt' = attempt,
             Acting' /\ run'["timer"].pc # "cut" =>
               Acting /\ q.pc # "cut" /\ run'["timer"].ok = q.ok
      PROVE  StampInv'
  BY <1>3 DEF StampInv
<1>4. CASE StartPlain("timer") \/ StartBlip("timer")
  <2>1. ASSUME NEW p \in {"blip", "decide"}, NEW o
        PROVE  Loaded(p).pc = p /\ [Loaded(p) EXCEPT !.off = o].pc = p
    BY DEF Loaded, Idle
  <2>2. run'["timer"].pc \in {"blip", "decide"}
    <3>1. CASE StartPlain("timer")
      BY <1>1, <2>1, <3>1 DEF StartPlain
    <3>2. CASE StartBlip("timer")
      BY <1>1, <2>1, <3>2 DEF StartBlip
    <3> QED BY <1>4, <3>1, <3>2
  <2> QED BY <1>3, <1>4, <2>2 DEF StartPlain, StartBlip, ghosts, Acting
<1>5. CASE BlipBack("timer")
  <2>1. run'["timer"].pc = "decide"
    BY <1>1, <1>5 DEF BlipBack, Run
  <2> QED BY <1>3, <1>5, <2>1 DEF BlipBack, Acting
<1>6. CASE DecideNothing("timer") \/ DecideHold("timer") \/ DecideRefuse("timer") \/ DecideAlarm("timer")
  <2>1. q.pc = "decide"
    BY <1>6 DEF DecideNothing, DecideHold, DecideRefuse, DecideAlarm
  <2>2. q.st = disk
    BY <2>1 DEF TimerInv, CopyIsFile, Deciding
  <2>3. Learned("timer").lastCycle = disk.lastCycle /\ Braked("timer").lastCycle = disk.lastCycle
        /\ Braked("timer") \in StateFile
    BY <2>1, <2>2, StagesKeep, StagesType
  <2>4. disk'.lastCycle = disk.lastCycle
    BY <1>6, <2>3 DEF DecideNothing, DecideHold, DecideRefuse, DecideAlarm, RaiseReplugAlarm,
       Save, StateFile
  <2>5. run'["timer"].pc = "idle" /\ attempt' = attempt
    BY <1>2, <1>6 DEF DecideNothing, DecideHold, DecideRefuse, DecideAlarm, ghosts
  <2> QED BY <1>3, <2>4, <2>5 DEF Acting
<1>7. CASE DecideReset("timer")
  <2>1. disk' = Stamped("timer") /\ Stamped("timer").lastCycle = q.now /\ q.now \in 0 .. MaxRun
    BY <1>1, <1>7, StagesKeep DEF DecideReset, Save, Run
  <2>2. disk'.lastCycle # None
    BY <2>1 DEF None, MaxRun
  <2>3. run'["timer"].pc = "cut"
    BY <1>1, <1>7 DEF DecideReset, Run
  <2> QED BY <2>2, <2>3 DEF StampInv
<1>17. CASE PortsOff("timer")
  <2>1. disk' = disk /\ q.pc = "cut"
    BY <1>17 DEF PortsOff
  <2>2. disk.lastCycle # None
    BY <2>1 DEF TimerInv, SpacingInv, Acting
  <2>3. PICK bad \in SUBSET q.off :
          LET cut == q.off \ (bad \union {"stale"}) IN
          /\ IF bad = {} THEN UNCHANGED faults ELSE Fault("uhubctl")
          /\ run' = [run EXCEPT !["timer"] = [Idle EXCEPT !.pc = "off", !.st = q.st, !.off = cut,
                                                         !.live = q.live, !.ok = (bad = {})]]
    BY <1>17 DEF PortsOff
  <2>4. bad = {}
    BY <2>3 DEF Fault
  <2>5. run'["timer"].ok
    BY <1>1, <2>3, <2>4 DEF Idle
  <2> QED BY <2>1, <2>2, <2>5 DEF StampInv
<1>8. CASE PortsOn("timer")
  <2>1. q.ok /\ attempt' = attempt /\ q.pc = "off"
    BY <1>8 DEF PortsOn, ghosts, StampInv, Acting
  <2>2. /\ run' = [run EXCEPT !["timer"].pc = "waiting", !["timer"].off = {},
                              !["timer"].st.cardReturn = 0, !["timer"].wait = 0]
        /\ disk' = disk
    BY <1>8, <2>1 DEF PortsOn, Fault
  <2>3. run'["timer"].ok = q.ok
    BY <1>1, <2>2 DEF Run
  <2> QED BY <1>3, <2>1, <2>2, <2>3 DEF Acting
<1>9. CASE DeviceBack("timer") \/ (ClassifyRecovered("timer") /\ unit)
  <2>1. /\ q.pc \in {"waiting", "classify"} /\ run'["timer"].ok = q.ok
        /\ disk' = disk /\ attempt' = attempt
    BY <1>1, <1>9 DEF DeviceBack, ClassifyRecovered, ghosts, Run
  <2> QED BY <1>3, <2>1 DEF Acting
<1>10. CASE NeverBack("timer") \/ (ClassifyRecovered("timer") /\ ~unit) \/ ClassifyLatched("timer")
            \/ RestartOk("timer") \/ RestartFailed("timer")
  <2>1. q.st.lastCycle = disk.lastCycle
    BY <1>10 DEF NeverBack, ClassifyRecovered, ClassifyLatched, RestartOk, RestartFailed,
       TimerInv, SpacingInv, Acting
  <2>2. disk' = disk \/ disk' = q.st \/ (\E l, a \in BOOLEAN :
              disk' = [q.st EXCEPT !.latched = l, !.alarmed = a])
    BY <1>10 DEF NeverBack, ClassifyRecovered, ClassifyLatched, RestartOk, RestartFailed,
       RaiseReplugAlarm, Save
  <2>3. disk'.lastCycle = disk.lastCycle
    BY <1>1, <2>1, <2>2 DEF StateFile
  <2>4. run'["timer"].pc = "idle" /\ attempt' = attempt
    BY <1>2, <1>10 DEF NeverBack, ClassifyRecovered, ClassifyLatched, RestartOk, RestartFailed, ghosts
  <2> QED BY <1>3, <2>3, <2>4 DEF Acting
<1>11. CASE Kill("timer")
  BY <1>2, <1>3, <1>11 DEF Kill, ghosts, Acting
<1>12. CASE Reboot
  <2>1. run'["timer"].pc = "idle" /\ attempt' = attempt
    BY <1>2, <1>12 DEF Reboot
  <2>2. disk'.lastCycle = disk.lastCycle
    BY <1>1, <1>12 DEF Reboot, StateFile
  <2> QED BY <1>3, <2>1, <2>2 DEF Acting
<1>13. CASE Replug
  <2>1. disk'.lastCycle = disk.lastCycle
    BY <1>1, <1>13 DEF Replug, StateFile
  <2>2. run'["timer"].pc = q.pc /\ run'["timer"].ok = q.ok
    BY <1>1, <1>13 DEF Replug, Run
  <2> QED BY <1>3, <1>13, <2>1, <2>2 DEF Replug, Acting
<1>14. CASE Vanish \/ Appear \/ Firmware \/ ForeignChanges \/ Stall \/ RadiodStarts
            \/ ConfigureRadiod \/ UNCHANGED vars
  BY <1>3, <1>14 DEF Vanish, Appear, Firmware, ForeignChanges, Stall, RadiodStarts,
     ConfigureRadiod, ghosts, vars, Acting
<1>15. CASE Tick
  <2>1. disk'.lastCycle = Older(disk.lastCycle, WedgeCooldown) /\ attempt' = Older(attempt, WedgeCooldown)
    BY <1>1, <1>15 DEF Tick, OlderState, StateFile
  <2>2. run'["timer"] = OlderRun(q)
    BY <1>15 DEF Tick
  <2>3. OlderRun(q).pc = q.pc /\ OlderRun(q).ok = q.ok
    BY <1>1 DEF OlderRun, Run
  <2>4. attempt' # None => disk'.lastCycle # None
    BY <1>1, <2>1, OlderKeeps DEF StampInv
  <2> QED BY <2>2, <2>3, <2>4 DEF StampInv, Acting
<1>16. ~StartGate /\ ~GateSees /\ ~GateGivesUpWaiting
  BY DEF StartGate, GateSees, GateGivesUpWaiting
<1> QED
  BY <1>4, <1>5, <1>6, <1>7, <1>8, <1>9, <1>10, <1>11, <1>12, <1>13, <1>14, <1>15, <1>16, <1>17
  DEF Next, Start, RunStep, Environment

\* A present card that is reset has stall lines younger than the last stamp,
\* and that stamp is a wedge cooldown old.
LEMMA WedgeIsFresh ==
  ASSUME Runs = {"timer"}, TypeOK, TimerInv, StampInv, DecideReset("timer"), run["timer"].present
  PROVE  /\ stall.age # None
         /\ attempt = None \/ (/\ stall.age <= attempt
                               /\ Since(attempt, run["timer"].now) >= WedgeCooldown)
<1> USE TimesAssumption
<1> DEFINE n == run["timer"].now
           l == disk.lastCycle
<1>1. run["timer"].pc = "decide" /\ Cycles("timer")
  BY DEF DecideReset, MayReset
<1>2. run["timer"].st = disk
  BY <1>1 DEF TimerInv, CopyIsFile, Deciding
<1>3. WedgeCycle("timer")
  BY <1>1 DEF Cycles, ShouldCycle
<1>4. Tracked("timer").lastCycle = l
  BY <1>1, <1>2, StagesKeep
<1>5. /\ stall.age # None
      /\ Since(stall.age, n) <= JournalReach(Tracked("timer"), n)
      /\ l = None \/ Since(l, n) >= WedgeCooldown
  BY <1>3, <1>4 DEF WedgeCycle, Wedged
<1>6. /\ l \in Int /\ attempt \in Int /\ n \in Int /\ stall.age \in Int
      /\ Tracked("timer").cardReturn \in Int
  <2>1. Tracked("timer") \in StateFile
    BY <1>1, StagesType
  <2> QED BY <2>1 DEF TypeOK, Run, StateFile, Ages, MaxAge, MaxRun
<1>7. CASE attempt = None
  BY <1>5, <1>7
<1>8. CASE attempt # None
  <2>1. l # None /\ l <= attempt
    BY <1>8 DEF StampInv, TimerInv, SpacingInv
  <2>2. JournalReach(Tracked("timer"), n) <= Since(l, n)
    <3>1. JournalReach(Tracked("timer"), n) =
            Smaller(WedgeWindow, Smaller(Since(l, n),
              IF Tracked("timer").cardReturn = None THEN WedgeWindow
              ELSE Since(Tracked("timer").cardReturn, n)))
      BY <1>4, <2>1 DEF JournalReach
    <3> QED BY <1>6, <3>1 DEF Smaller, Since
  <2>3. JournalReach(Tracked("timer"), n) \in Int
    BY <1>4, <1>6 DEF JournalReach, Smaller, Since
  <2> HIDE DEF n, l
  <2>4. stall.age <= attempt /\ Since(attempt, n) >= WedgeCooldown
    BY <1>5, <1>6, <2>1, <2>2, <2>3 DEF Since
  <2> QED BY <1>5, <2>4 DEF n
<1> QED BY <1>7, <1>8

\* Until the cut nothing ages past it: more stall lines only make them younger.
LEMMA FreshInvInductive ==
  ASSUME Runs = {"timer"}, TypeOK, TypeOK', TimerInv, StampInv, FreshInv, [Next]_vars
  PROVE  FreshInv'
<1> USE TimesAssumption
<1> DEFINE q == run["timer"]
<1>1. /\ run \in [{"timer"} -> Run] /\ q \in Run /\ attempt \in Ages /\ stall.age \in Ages
      /\ q.now \in 0 .. MaxRun
  BY DEF TypeOK, Run
<1>2. Idle.pc = "idle" /\ (Quit("timer") => run'["timer"].pc = "idle")
  BY <1>1 DEF Idle, Quit
<1>3. ASSUME run'["timer"].pc # "cut" PROVE FreshInv'
  BY <1>3 DEF FreshInv
<1>4. ASSUME UNCHANGED <<run, attempt>>, stall' = stall \/ stall'.age = 0 PROVE FreshInv'
  BY <1>1, <1>4 DEF FreshInv, Ages, MaxAge, MaxRun, None
<1>5. CASE StartPlain("timer") \/ StartBlip("timer")
  <2>1. ASSUME NEW p \in {"blip", "decide"}, NEW o
        PROVE  Loaded(p).pc = p /\ [Loaded(p) EXCEPT !.off = o].pc = p
    BY DEF Loaded, Idle
  <2>2. run'["timer"].pc \in {"blip", "decide"}
    <3>1. CASE StartPlain("timer")
      BY <1>1, <2>1, <3>1 DEF StartPlain
    <3>2. CASE StartBlip("timer")
      BY <1>1, <2>1, <3>2 DEF StartBlip
    <3> QED BY <1>5, <3>1, <3>2
  <2> QED BY <1>3, <2>2
<1>6. CASE BlipBack("timer") \/ DeviceBack("timer") \/ (ClassifyRecovered("timer") /\ unit)
  <2>1. run'["timer"].pc \in {"decide", "classify", "restart"}
    BY <1>1, <1>6 DEF BlipBack, DeviceBack, ClassifyRecovered, Run
  <2> QED BY <1>3, <2>1
<1>7. CASE DecideReset("timer")
  <2>1. /\ run'["timer"].present = q.present /\ run'["timer"].now = q.now
        /\ attempt' = attempt /\ stall' = stall
    BY <1>1, <1>7 DEF DecideReset, Run, ghosts, world
  <2> QED BY <1>7, <2>1, WedgeIsFresh DEF FreshInv
<1>8. CASE PortsOff("timer")
  <2>1. run'["timer"].pc = "off"
    BY <1>1, <1>8 DEF PortsOff, Idle
  <2> QED BY <1>3, <2>1
<1>9. CASE PortsOn("timer")
  <2>1. \/ Quit("timer")
        \/ run' = [run EXCEPT !["timer"].pc = "waiting", !["timer"].off = {},
                              !["timer"].st.cardReturn = 0, !["timer"].wait = 0]
    BY <1>9 DEF PortsOn
  <2>2. run'["timer"].pc \in {"idle", "waiting"}
    BY <1>1, <1>2, <2>1 DEF Run
  <2> QED BY <1>3, <2>2
<1>10. CASE \/ DecideNothing("timer") \/ DecideHold("timer") \/ DecideRefuse("timer")
            \/ DecideAlarm("timer") \/ NeverBack("timer") \/ (ClassifyRecovered("timer") /\ ~unit)
            \/ ClassifyLatched("timer") \/ RestartOk("timer") \/ RestartFailed("timer")
            \/ Kill("timer")
  BY <1>2, <1>3, <1>10 DEF DecideNothing, DecideHold, DecideRefuse, DecideAlarm, NeverBack,
     ClassifyRecovered, ClassifyLatched, RestartOk, RestartFailed, Kill
<1>11. CASE Reboot
  BY <1>2, <1>3, <1>11 DEF Reboot
<1>12. CASE Replug
  <2>1. run'["timer"].pc = q.pc /\ q.pc # "cut"
    BY <1>1, <1>12 DEF Replug, Run
  <2> QED BY <1>3, <2>1
<1>13. CASE Vanish \/ Appear \/ Firmware \/ ForeignChanges \/ Stall \/ RadiodStarts
            \/ ConfigureRadiod \/ UNCHANGED vars
  BY <1>4, <1>13 DEF Vanish, Appear, Firmware, ForeignChanges, Stall, RadiodStarts,
     ConfigureRadiod, ghosts, vars
<1>14. CASE Tick
  <2> DEFINE a == stall.age
  <2>1. /\ run'["timer"] = OlderRun(q) /\ attempt' = Older(attempt, WedgeCooldown)
        /\ stall'.age = Older(a, WedgeWindow + 1)
    BY <1>14 DEF Tick, TypeOK
  <2>2. /\ OlderRun(q).pc = q.pc /\ OlderRun(q).present = q.present
        /\ q.pc = "cut" => OlderRun(q).now = q.now + 1
    BY <1>1 DEF OlderRun, Run
  <2>3. SUFFICES ASSUME q.pc = "cut", q.present
                 PROVE  /\ stall'.age # None
                        /\ attempt' = None \/ (/\ stall'.age <= attempt'
                                               /\ attempt' - (q.now + 1) >= WedgeCooldown)
    BY <2>1, <2>2 DEF FreshInv, Since
  <2>4. /\ a # None
        /\ attempt = None \/ (a <= attempt /\ attempt - q.now >= WedgeCooldown)
    BY <2>3 DEF FreshInv, Since
  <2>5. q.now + 1 <= MaxRun
    <3>1. run'["timer"].now \in 0 .. MaxRun
      BY DEF TypeOK, Run
    <3> QED BY <1>1, <2>1, <2>2, <2>3, <3>1 DEF MaxRun
  <2> HIDE DEF q, a
  <2>6. Older(a, WedgeWindow + 1) # None
    BY <1>1, <2>4 DEF a, Older, Smaller, None, Ages, MaxAge, MaxRun
  <2>7. attempt # None => Older(a, WedgeWindow + 1) <= Older(attempt, WedgeCooldown)
    BY <1>1, <2>4 DEF a, Older, Smaller, None, Ages, MaxAge, MaxRun
  <2>8. attempt # None => Older(attempt, WedgeCooldown) - (q.now + 1) >= WedgeCooldown
    BY <1>1, <2>4, <2>5, OlderKeeps
  <2>9. attempt = None => attempt' = None
    BY <2>1 DEF Older
  <2> QED BY <2>1, <2>6, <2>7, <2>8, <2>9
<1>15. ~StartGate /\ ~GateSees /\ ~GateGivesUpWaiting
  BY DEF StartGate, GateSees, GateGivesUpWaiting
<1> QED
  BY <1>5, <1>6, <1>7, <1>8, <1>9, <1>10, <1>11, <1>12, <1>13, <1>14, <1>15
  DEF Next, Start, RunStep, Environment

\* For every timing constant and port topology, and every fault but a failing
\* uhubctl: a card on the bus is reset only for stall lines newer than the
\* last reset that switched a port, and once per WEDGE_RESET_COOLDOWN_S
\* (radiod_is_wedged, wedge_cycle).
THEOREM WedgeResetsAreFresh ==
  ASSUME Runs = {"timer"}, "uhubctl" \notin FaultKinds
  PROVE  Spec => WedgeResetIsFresh
<1>1. Init => TimerInv /\ StampInv /\ FreshInv
  BY TimerInvInit DEF Init, StampInv, FreshInv, Acting, Idle
<1>2. TypeOK /\ TypeOK' /\ TimerInv /\ StampInv /\ FreshInv /\ [Next]_vars
        => TimerInv' /\ StampInv' /\ FreshInv'
  BY TimerInvInductive, StampInvInductive, FreshInvInductive
<1>3. FreshInv /\ [Next]_vars =>
        [\A r \in Runs \intersect {"timer"} :
           Resets(r) /\ run[r].present =>
             /\ stall.age # None
             /\ attempt = None \/ (/\ stall.age <= attempt
                                   /\ Since(attempt, run[r].now) >= WedgeCooldown)]_vars
  BY DEF FreshInv, Resets
<1> QED BY <1>1, <1>2, <1>3, TypeCorrect, PTL DEF Spec, WedgeResetIsFresh
=============================================================================
