---------------------------- MODULE SdrHoldProofs ----------------------------
(***************************************************************************)
(* Theorems about SdrHold, for every set of cards.                         *)
(***************************************************************************)
EXTENDS SdrHold, TLAPS

\* Every reachable state is well typed.
THEOREM TypeCorrect == Spec => []TypeOK
<1> USE HoldAssumption
<1>1. Init => TypeOK
  BY DEF Init, TypeOK, Manual, NoManual, ManPCs, TickRun, NoTick, Pass, NoPass, Locks
<1>2. TypeOK /\ [Next]_vars => TypeOK'
  <2> SUFFICES ASSUME TypeOK, [Next]_vars PROVE TypeOK'
    OBVIOUS
  <2> USE DEF TypeOK, Manual, ManPCs
  <2>1. NoManual \in Manual /\ NoTick \in TickRun /\ NoPass \in Pass
    BY DEF NoManual, NoTick, TickRun, NoPass, Pass
  <2>2. ASSUME NEW c \in Cards, NEW pc \in ManPCs, Goto(c, pc) PROVE man' \in [Cards -> Manual]
    BY <2>2 DEF Goto
  <2>3. ASSUME NEW c \in Cards, Done(c) PROVE man' \in [Cards -> Manual]
    BY <2>1, <2>3 DEF Done
  <2>4. ASSUME NEW c \in Cards, TakeLock(c) \/ ReleaseLock(c) PROVE lock' \in Locks
    BY <2>4 DEF TakeLock, ReleaseLock, Locks, Free
  <2>5. ASSUME NEW c \in Cards, OffLoad(c) \/ OnLoad(c) PROVE TypeOK'
    BY <2>5 DEF OffLoad, OnLoad
  <2>6. ASSUME NEW c \in Cards, OffTruncate(c) \/ OffWrite(c) \/ OffSaveFails(c) PROVE TypeOK'
    BY <2>2, <2>6 DEF OffTruncate, OffWrite, OffSaveFails, WithHold, Fault
  <2>7. ASSUME NEW c \in Cards, OffStop(c) PROVE TypeOK'
    <3>1. man' \in [Cards -> Manual] /\ lock' \in Locks
      BY <2>2, <2>4, <2>7 DEF OffStop
    <3> QED BY <2>7, <3>1 DEF OffStop, TakeLock, Fault
  <2>7a. ASSUME NEW c \in Cards, OffStopFails(c) PROVE TypeOK'
    BY <2>2, <2>7a DEF OffStopFails, Fault, Locks
  <2>8. ASSUME NEW c \in Cards, OffCut(c) PROVE TypeOK'
    <3>1. man' \in [Cards -> Manual] /\ lock' \in Locks
      BY <2>2, <2>4, <2>8 DEF OffCut
    <3> QED BY <2>8, <3>1 DEF OffCut, Fault
  <2>9. ASSUME NEW c \in Cards, OffConfirm(c) \/ OnReady(c) \/ OnGivesUp(c) PROVE TypeOK'
    BY <2>2, <2>3, <2>9 DEF OffConfirm, OnReady, OnGivesUp
  <2>10. ASSUME NEW c \in Cards, OnLight(c) PROVE TypeOK'
    <3>1. man' \in [Cards -> Manual]
      BY <2>2, <2>3, <2>10 DEF OnLight
    <3> QED BY <2>10, <3>1 DEF OnLight, Fault
  <2>10a. ASSUME NEW c \in Cards, OnBlip(c) \/ OnBlipBack(c) PROVE TypeOK'
    BY <2>2, <2>10a DEF OnBlip, OnBlipBack, Fault
  <2>11. ASSUME NEW c \in Cards, OnRestart(c) PROVE TypeOK'
    <3>1. man' \in [Cards -> Manual]
      BY <2>2, <2>11 DEF OnRestart
    <3> QED BY <2>11, <3>1 DEF OnRestart, Locked, Fault
  <2>12. ASSUME NEW c \in Cards, OnClear(c) \/ OnWrite(c) \/ OnSaveFails(c) PROVE TypeOK'
    <3>1. man' \in [Cards -> Manual]
      BY <2>2, <2>3, <2>12 DEF OnClear, OnWrite, OnSaveFails
    <3> QED BY <2>12, <3>1 DEF OnClear, OnWrite, OnSaveFails, Fault
  <2>13. ASSUME NEW c \in Cards, Kill(c) PROVE TypeOK'
    <3>1. man' \in [Cards -> Manual] /\ lock' \in Locks
      BY <2>3, <2>4, <2>13 DEF Kill
    <3> QED BY <2>13, <3>1 DEF Kill, Fault
  <2>14. CASE TickStart \/ TickHolds \/ TickCut \/ TickLight \/ TickRestart \/ TickAlarm
    <3>0. CASE TickStart
      <4> DEFINE present == bus # {}
      <4>1. present \in BOOLEAN /\ tick' = [pc |-> "decide", present |-> present, jacks |-> {}]
        BY <3>0 DEF TickStart
      <4> HIDE DEF present
      <4>2. tick' \in TickRun
        BY <4>1 DEF TickRun
      <4> QED BY <3>0, <4>2 DEF TickStart
    <3>1. CASE TickHolds \/ TickAlarm
      BY <2>1, <3>1 DEF TickHolds, TickAlarm
    <3>2. CASE TickCut
      <4>1. PICK jacks \in SUBSET Cards : /\ tick' = [tick EXCEPT !.pc = "off", !.jacks = jacks]
                                          /\ dark' = dark \union jacks
                                          /\ bus' = bus \ jacks
        <5>1. CASE tick.present
          <6>1. PICK jacks \in {{c} : c \in bus} :
                  /\ tick' = [tick EXCEPT !.pc = "off", !.jacks = jacks]
                  /\ dark' = dark \union jacks
                  /\ bus' = bus \ jacks
            BY <3>2, <5>1 DEF TickCut
          <6>2. jacks \in SUBSET Cards
            BY <6>1
          <6> QED BY <6>1, <6>2
        <5>2. CASE ~tick.present
          BY <3>2, <5>2 DEF TickCut
        <5> QED BY <5>1, <5>2
      <4>2. tick' \in TickRun
        BY <4>1 DEF TickRun
      <4> QED BY <3>2, <4>1, <4>2 DEF TickCut
    <3>3. CASE TickLight
      BY <3>3 DEF TickLight, TickRun
    <3>4. CASE TickRestart
      BY <2>1, <3>4 DEF TickRestart, Locked, Fault
    <3> QED BY <2>14, <3>0, <3>1, <3>2, <3>3, <3>4
  <2>15. ASSUME NEW c \in Cards, WdRequest(c) \/ WdHealthy(c) \/ WdStop(c) PROVE TypeOK'
    <3>1. wd' \in Pass
      <4>1. CASE WdRequest(c)
        BY <4>1 DEF WdRequest, Pass
      <4>2. CASE WdHealthy(c)
        BY <2>1, <4>2 DEF WdHealthy, Pass
      <4>3. CASE WdStop(c)
        BY <4>3 DEF WdStop, Pass
      <4> QED BY <2>15, <4>1, <4>2, <4>3
    <3> QED BY <2>15, <3>1 DEF WdRequest, WdHealthy, WdStop
  <2>16. CASE WdHonor \/ WdStart \/ WdStartUnit
    <3>1. wd' \in Pass
      <4>1. CASE WdStart
        <5>1. Unheld \subseteq Cards
          BY DEF Unheld
        <5> QED BY <4>1, <5>1 DEF WdStart, Pass
      <4>2. CASE WdStartUnit
        <5>1. [wd EXCEPT !.pc = "check", !.unit = {}] \in Pass
          BY DEF Pass
        <5> QED BY <2>1, <4>2, <5>1 DEF WdStartUnit
      <4> QED BY <2>1, <2>16, <4>1, <4>2 DEF WdHonor
    <3>2. wd.unit \subseteq Cards
      BY DEF Pass
    <3> QED BY <2>16, <3>1, <3>2 DEF WdHonor, WdStart, WdStartUnit
  <2>17. ASSUME NEW c \in Cards, CardReturns(c) \/ CardVanishes(c) PROVE TypeOK'
    BY <2>17 DEF CardReturns, CardVanishes, Fault
  <2>18. CASE UNCHANGED vars
    BY <2>18 DEF vars
  <2> QED
    BY <2>5, <2>6, <2>7, <2>7a, <2>8, <2>9, <2>10, <2>10a, <2>11, <2>12, <2>13, <2>14, <2>15, <2>16, <2>17, <2>18
    DEF Next, OffStep, OnStep, TickStep, WdStep
<1> QED BY <1>1, <1>2, PTL DEF Spec

(***************************************************************************)
(* One operator: the copy a command loaded is still the file when it       *)
(* writes it back, and every jack it left dark is in that copy.            *)
(***************************************************************************)

Busy(c) == man[c].pc # "idle"

CommandInv(c) ==
  /\ man[c].pc \in {"checked", "light", "await", "blip", "settle", "restart", "clear"}
       => man[c].holds = file
  /\ man[c].pc \in {"stop", "cut", "light", "await", "blip", "settle", "restart", "clear"}
       => c \in file
  /\ man[c].pc \in {"await", "restart", "clear", "onTorn"} => c \notin put
  /\ man[c].pc \in {"offTorn", "onTorn"} => put \subseteq man[c].holds

OperatorInv ==
  /\ \A c, d \in Cards : Busy(c) /\ Busy(d) => c = d
  /\ \A c \in Cards : CommandInv(c)
  /\ (\A c \in Cards : man[c].pc \notin {"offTorn", "onTorn"}) => put \subseteq file

\* save_hold always writes, and is not killed in the middle of a write.
SafeWrites == {"write", "torn"} \intersect FaultKinds = {}

\* A jack a command left off is off, and a card on the bus has its jack on.
JackInv == put \subseteq dark /\ bus \intersect dark = {}

\* Every step keeps the jacks and the bus in agreement.
LEMMA JackInvInductive ==
  ASSUME TypeOK, JackInv, [Next]_vars
  PROVE  JackInv'
<1>1. CASE UNCHANGED <<bus, dark>> /\ put' = put
  BY <1>1 DEF JackInv
<1>2. ASSUME NEW c \in Cards, OffCut(c) \/ OnLight(c) \/ OnBlip(c) \/ OnBlipBack(c) PROVE JackInv'
  BY <1>2 DEF OffCut, OnLight, OnBlip, OnBlipBack, JackInv
<1>3. ASSUME NEW c \in Cards, CardReturns(c) \/ CardVanishes(c) PROVE JackInv'
  BY <1>3 DEF CardReturns, CardVanishes, JackInv
<1>4. CASE TickCut
  <2>1. PICK jacks : dark' = dark \union jacks /\ bus' = bus \ jacks /\ put' = put
    BY <1>4 DEF TickCut
  <2> QED BY <2>1 DEF JackInv
<1>5. CASE TickLight
  BY <1>5 DEF TickLight, JackInv
<1> QED
  BY <1>1, <1>2, <1>3, <1>4, <1>5
  DEF Next, OffStep, OnStep, TickStep, WdStep, OffLoad, OnLoad, OffTruncate, OffWrite, OffSaveFails,
      OffStop, OffStopFails, OffConfirm, OnReady, OnGivesUp, OnRestart, OnClear, OnWrite, OnSaveFails,
      Kill, TickStart, TickHolds, TickRestart, TickAlarm, WdRequest, WdHonor, WdStart, WdHealthy,
      WdStop, WdStartUnit, vars

\* Every step of one operator, the automatic paths and the cards keeps it.
LEMMA OperatorInvInductive ==
  ASSUME OneOperator = TRUE, SafeWrites, TypeOK, JackInv, OperatorInv, [Next]_vars
  PROVE  OperatorInv'
<1>1. ASSUME NEW x \in Cards, NEW q \in Manual, man' = [man EXCEPT ![x] = q],
             MayCommand(x) \/ Busy(x)
      PROVE  /\ \A c, d \in Cards : Busy(c)' /\ Busy(d)' => c = d
             /\ man'[x] = q
             /\ \A c \in Cards : c # x => man'[c].pc = "idle"
  BY <1>1 DEF TypeOK, OperatorInv, Busy, MayCommand
<1>2. ASSUME NEW x \in Cards, Busy(x) PROVE \A c \in Cards : c # x => man[c].pc = "idle"
  BY <1>2 DEF OperatorInv, Busy
<1>3. ASSUME man' = man, file' = file, put' \subseteq put PROVE OperatorInv'
  BY <1>3 DEF OperatorInv, CommandInv, Busy
<1>4. ASSUME NEW x \in Cards, NEW pc \in ManPCs, Goto(x, pc)
      PROVE  man' = [man EXCEPT ![x] = [man[x] EXCEPT !.pc = pc]]
             /\ [man[x] EXCEPT !.pc = pc] \in Manual
             /\ [man[x] EXCEPT !.pc = pc].pc = pc
             /\ [man[x] EXCEPT !.pc = pc].holds = man[x].holds
  BY <1>4 DEF TypeOK, Goto, Manual
<1>4a. ASSUME NEW x \in Cards, NEW pc \in ManPCs, Goto(x, pc), Busy(x)
       PROVE  /\ man'[x].pc = pc /\ man'[x].holds = man[x].holds
              /\ \A c, d \in Cards : Busy(c)' /\ Busy(d)' => c = d
              /\ \A c \in Cards : c # x => man'[c].pc = "idle"
  <2> DEFINE q == [man[x] EXCEPT !.pc = pc]
  <2>1. man' = [man EXCEPT ![x] = q] /\ q \in Manual /\ q.pc = pc /\ q.holds = man[x].holds
    BY <1>4, <1>4a
  <2> HIDE DEF q
  <2> QED BY <1>1, <1>4a, <2>1
<1>5. NoManual \in Manual /\ NoManual.pc = "idle"
  BY DEF NoManual, Manual, ManPCs
<1>6. ASSUME NEW x \in Cards, Busy(x), Done(x), file' = file, put' = put, put \subseteq file
      PROVE  OperatorInv'
  <2>1. \A c \in Cards : man'[c].pc = "idle"
    BY <1>1, <1>5, <1>6 DEF Done
  <2> QED BY <1>6, <2>1 DEF OperatorInv, CommandInv, Busy
<1>7. ASSUME NEW x \in Cards, Busy(x), man[x].pc \notin {"offTorn", "onTorn"} PROVE put \subseteq file
  BY <1>2, <1>7 DEF OperatorInv
<1>8. ASSUME NEW x \in Cards, OffLoad(x) \/ OnLoad(x) PROVE OperatorInv'
  <2>1. \A c \in Cards : man[c].pc = "idle"
    BY <1>8 DEF OffLoad, OnLoad, MayCommand
  <2>2. put \subseteq file
    BY <2>1 DEF OperatorInv
  <2>3. PICK q \in Manual : /\ man' = [man EXCEPT ![x] = q] /\ q.holds = file
                            /\ q.pc = "checked" \/ (q.pc = "light" /\ x \in file)
    BY <1>8 DEF OffLoad, OnLoad, Manual, ManPCs, TypeOK
  <2>4. MayCommand(x) /\ file' = file /\ put' = put
    BY <1>8 DEF OffLoad, OnLoad
  <2>5. man'[x] = q /\ (\A c, d \in Cards : Busy(c)' /\ Busy(d)' => c = d)
        /\ \A c \in Cards : c # x => man'[c].pc = "idle"
    BY <1>1, <2>3, <2>4
  <2> QED BY <2>2, <2>3, <2>4, <2>5 DEF OperatorInv, CommandInv
<1>9. ASSUME NEW x \in Cards, OffTruncate(x) PROVE OperatorInv'
  <2>1. Busy(x) /\ man[x].pc = "checked" /\ Goto(x, "offTorn") /\ put' = put
    BY <1>9 DEF OffTruncate, Busy
  <2>2. put \subseteq man[x].holds
    BY <1>7, <2>1 DEF OperatorInv, CommandInv
  <2>3. "offTorn" \in ManPCs
    BY DEF ManPCs
  <2>4. man'[x].pc = "offTorn" /\ man'[x].holds = man[x].holds
        /\ (\A c, d \in Cards : Busy(c)' /\ Busy(d)' => c = d)
        /\ \A c \in Cards : c # x => man'[c].pc = "idle"
    BY <1>4a, <2>1, <2>3
  <2> QED BY <2>1, <2>2, <2>4 DEF OperatorInv, CommandInv
<1>10. ASSUME NEW x \in Cards, OffWrite(x) PROVE OperatorInv'
  <2>1. Busy(x) /\ man[x].pc = "offTorn" /\ Goto(x, "stop") /\ put' = put
        /\ file' = man[x].holds \union {x}
    BY <1>10 DEF OffWrite, Busy, WithHold
  <2>2. put \subseteq man[x].holds
    BY <2>1 DEF OperatorInv, CommandInv
  <2>3. "stop" \in ManPCs
    BY DEF ManPCs
  <2>4. man'[x].pc = "stop"
        /\ (\A c, d \in Cards : Busy(c)' /\ Busy(d)' => c = d)
        /\ \A c \in Cards : c # x => man'[c].pc = "idle"
    BY <1>4a, <2>1, <2>3
  <2> QED BY <2>1, <2>2, <2>4 DEF OperatorInv, CommandInv
<1>11. ASSUME NEW x \in Cards, OffStop(x) \/ OffStopFails(x) \/ OffCut(x) PROVE OperatorInv'
  <2>1. PICK pc \in {"cut", "confirm"} : Goto(x, pc)
    BY <1>11 DEF OffStop, OffStopFails, OffCut
  <2>2. Busy(x) /\ man[x].pc \in {"stop", "cut"} /\ file' = file /\ put' \subseteq put \union {x}
    BY <1>11 DEF OffStop, OffStopFails, OffCut, Busy
  <2>3. put \subseteq file /\ x \in file
    BY <1>7, <2>2 DEF OperatorInv, CommandInv
  <2>4. pc \in ManPCs
    BY DEF ManPCs
  <2>5. man'[x].pc = pc
        /\ (\A c, d \in Cards : Busy(c)' /\ Busy(d)' => c = d)
        /\ \A c \in Cards : c # x => man'[c].pc = "idle"
    BY <1>4a, <2>1, <2>2, <2>4
  <2> QED BY <2>2, <2>3, <2>5 DEF OperatorInv, CommandInv
<1>12. ASSUME NEW x \in Cards, OffConfirm(x) \/ OnGivesUp(x) \/ Kill(x) PROVE OperatorInv'
  <2>1. Busy(x) /\ Done(x) /\ file' = file /\ put' = put /\ man[x].pc \notin {"offTorn", "onTorn"}
    BY <1>12 DEF OffConfirm, OnGivesUp, Kill, Busy, Fault, SafeWrites
  <2> QED BY <1>6, <1>7, <2>1
<1>12a. ASSUME NEW x \in Cards PROVE ~OffSaveFails(x) /\ ~OnSaveFails(x)
  BY DEF OffSaveFails, OnSaveFails, Fault, SafeWrites
<1>13. ASSUME NEW x \in Cards, OnLight(x) PROVE OperatorInv'
  <2>1. Busy(x) /\ man[x].pc = "light" /\ file' = file
    BY <1>13 DEF OnLight, Busy
  <2>2. put \subseteq file /\ x \in file /\ man[x].holds = file
    BY <1>7, <2>1 DEF OperatorInv, CommandInv
  <2>3. CASE Done(x) /\ put' = put
    BY <1>6, <2>1, <2>2, <2>3
  <2>4. CASE Goto(x, "await") /\ put' = put \ {x}
    <3>1. "await" \in ManPCs
      BY DEF ManPCs
    <3>2. man'[x].pc = "await" /\ man'[x].holds = man[x].holds
          /\ (\A c, d \in Cards : Busy(c)' /\ Busy(d)' => c = d)
          /\ \A c \in Cards : c # x => man'[c].pc = "idle"
      BY <1>4a, <2>1, <2>4, <3>1
    <3> QED BY <2>1, <2>2, <2>4, <3>2 DEF OperatorInv, CommandInv
  <2> QED BY <1>13, <2>3, <2>4 DEF OnLight
<1>13a. ASSUME NEW x \in Cards, OnBlip(x) \/ OnBlipBack(x) PROVE OperatorInv'
  <2>1. PICK pc \in {"blip", "settle"} : Goto(x, pc)
    BY <1>13a DEF OnBlip, OnBlipBack
  <2>2. /\ Busy(x) /\ man[x].pc \in {"await", "blip"} /\ file' = file
        /\ put' \subseteq put \union {x}
    BY <1>13a DEF OnBlip, OnBlipBack, Busy
  <2>3. put \subseteq file /\ x \in file /\ man[x].holds = file
    BY <1>7, <2>2 DEF OperatorInv, CommandInv
  <2>4. pc \in ManPCs
    BY DEF ManPCs
  <2>5. man'[x].pc = pc /\ man'[x].holds = man[x].holds
        /\ (\A c, d \in Cards : Busy(c)' /\ Busy(d)' => c = d)
        /\ \A c \in Cards : c # x => man'[c].pc = "idle"
    BY <1>4a, <2>1, <2>2, <2>4
  <2> QED BY <2>2, <2>3, <2>5 DEF OperatorInv, CommandInv
<1>14. ASSUME NEW x \in Cards, OnReady(x) \/ OnRestart(x) PROVE OperatorInv'
  <2>1. PICK pc \in {"restart", "clear"} : Goto(x, pc)
    BY <1>14 DEF OnReady, OnRestart
  <2>2. /\ Busy(x) /\ man[x].pc \in {"await", "settle", "restart"} /\ file' = file /\ put' = put
        /\ man[x].pc # "restart" => x \in bus
    BY <1>14 DEF OnReady, OnRestart, Busy
  <2>3. put \subseteq file /\ x \in file /\ man[x].holds = file /\ x \notin put
    BY <1>7, <2>2 DEF OperatorInv, CommandInv, JackInv
  <2>4. pc \in ManPCs
    BY DEF ManPCs
  <2>5. man'[x].pc = pc /\ man'[x].holds = man[x].holds
        /\ (\A c, d \in Cards : Busy(c)' /\ Busy(d)' => c = d)
        /\ \A c \in Cards : c # x => man'[c].pc = "idle"
    BY <1>4a, <2>1, <2>2, <2>4
  <2> QED BY <2>2, <2>3, <2>5 DEF OperatorInv, CommandInv
<1>15. ASSUME NEW x \in Cards, OnClear(x) PROVE OperatorInv'
  <2>1. Busy(x) /\ man[x].pc = "clear" /\ file' = {} /\ put' = put
    BY <1>15 DEF OnClear, Busy
  <2>2. put \subseteq man[x].holds \ {x}
    BY <1>7, <2>1 DEF OperatorInv, CommandInv
  <2>3. CASE Done(x) /\ man[x].holds = {x}
    <3>1. \A c \in Cards : man'[c].pc = "idle"
      BY <1>1, <1>5, <2>1, <2>3 DEF Done
    <3>2. put = {}
      BY <2>2, <2>3
    <3> QED BY <2>1, <3>1, <3>2 DEF OperatorInv, CommandInv, Busy
  <2>4. CASE Goto(x, "onTorn")
    <3>1. "onTorn" \in ManPCs
      BY DEF ManPCs
    <3>2. man'[x].pc = "onTorn" /\ man'[x].holds = man[x].holds
          /\ (\A c, d \in Cards : Busy(c)' /\ Busy(d)' => c = d)
          /\ \A c \in Cards : c # x => man'[c].pc = "idle"
      BY <1>4a, <2>1, <2>4, <3>1
    <3> QED BY <2>1, <2>2, <3>2 DEF OperatorInv, CommandInv
  <2> QED BY <1>15, <2>3, <2>4 DEF OnClear
<1>16. ASSUME NEW x \in Cards, OnWrite(x) PROVE OperatorInv'
  <2>1. Busy(x) /\ man[x].pc = "onTorn" /\ file' = man[x].holds \ {x} /\ put' = put /\ Done(x)
    BY <1>16 DEF OnWrite, Busy
  <2>2. put \subseteq file'
    BY <2>1 DEF OperatorInv, CommandInv
  <2>3. \A c \in Cards : man'[c].pc = "idle"
    BY <1>1, <1>5, <2>1 DEF Done
  <2> QED BY <2>1, <2>2, <2>3 DEF OperatorInv, CommandInv, Busy
<1>17. CASE \/ TickStart \/ TickStep \/ WdStart \/ WdStep \/ UNCHANGED vars
            \/ \E c \in Cards : WdRequest(c) \/ CardReturns(c) \/ CardVanishes(c)
  BY <1>3, <1>17 DEF TickStart, TickStep, TickHolds, TickCut, TickLight, TickRestart, TickAlarm,
     WdStart, WdStep, WdHonor, WdHealthy, WdStop, WdStartUnit, WdRequest, CardReturns,
     CardVanishes, vars
<1> QED
  BY <1>8, <1>9, <1>10, <1>11, <1>12, <1>12a, <1>13, <1>13a, <1>14, <1>15, <1>16, <1>17
  DEF Next, OffStep, OnStep

\* For every number of cards, one operator at a time: a jack a command left
\* dark is under a hold, or its hold is just being rewritten, wherever between
\* two writes a command was killed and whatever the timer and the watchdog do
\* meanwhile, as long as the file can be written.
THEOREM DarkJacksAreHeld ==
  ASSUME OneOperator = TRUE, SafeWrites
  PROVE  Spec => []DarkIsHeld
<1>1. Init => OperatorInv
  BY DEF Init, OperatorInv, CommandInv, Busy, NoManual
<1>1a. Init => JackInv
  BY DEF Init, JackInv
<1>2. TypeOK /\ JackInv /\ OperatorInv /\ [Next]_vars => OperatorInv'
  BY OperatorInvInductive
<1>2a. TypeOK /\ JackInv /\ [Next]_vars => JackInv'
  BY JackInvInductive
<1>3. TypeOK /\ OperatorInv => DarkIsHeld
  <2> SUFFICES ASSUME TypeOK, OperatorInv, NEW c \in put, c \notin file PROVE Rewriting(c)
    BY DEF DarkIsHeld
  <2>1. PICK d \in Cards : man[d].pc \in {"offTorn", "onTorn"}
    BY DEF OperatorInv
  <2>2. c \in man[d].holds /\ (man[d].pc = "onTorn" => c # d)
    BY <2>1 DEF OperatorInv, CommandInv
  <2> QED BY <2>1, <2>2 DEF Rewriting
<1> QED BY <1>1, <1>1a, <1>2, <1>2a, <1>3, TypeCorrect, PTL DEF Spec

(***************************************************************************)
(* The lifecycle lock keeps radiod down until the power is cut             *)
(***************************************************************************)

\* A command between its stop and its cut holds the lock, and its radiod is
\* down; no pass of the watchdog, which takes no lock, is live.
LockInv ==
  /\ \A c \in Cards : man[c].pc = "cut" => lock = [kind |-> "man", card |-> c] /\ c \notin radiod
  /\ wd.pc = "idle"

\* Every restart of radiod goes through the lock, none gives up on it, and a
\* stop of radiod stops it.
Serialised == Automatic \subseteq {"tick"} /\ {"locktimeout", "stop"} \intersect FaultKinds = {}

\* Every step of any number of operators and of the timer keeps it.
LEMMA LockInvInductive ==
  ASSUME Serialised, TypeOK, LockInv, [Next]_vars
  PROVE  LockInv'
<1>1. man \in [Cards -> Manual]
  BY DEF TypeOK
<1>2. NoManual.pc = "idle" /\ \A c \in Cards : Free # [kind |-> "man", card |-> c]
  BY DEF NoManual, Free
<1>3. ASSUME NEW x \in Cards, NEW q \in Manual, man' = [man EXCEPT ![x] = q], q.pc # "cut",
             lock' = lock, radiod' = radiod, wd' = wd
      PROVE  LockInv'
  <2>1. \A c \in Cards : man'[c].pc = "cut" => man[c].pc = "cut"
    BY <1>1, <1>3
  <2> QED BY <1>3, <2>1 DEF LockInv
<1>4. ASSUME NEW x \in Cards, NEW pc \in ManPCs, Goto(x, pc)
      PROVE  \A c \in Cards : man'[c].pc = IF c = x THEN pc ELSE man[c].pc
  BY <1>1, <1>4 DEF Goto, Manual
<1>5. ASSUME NEW x \in Cards, Done(x)
      PROVE  \A c \in Cards : man'[c].pc = IF c = x THEN "idle" ELSE man[c].pc
  BY <1>1, <1>2, <1>5 DEF Done
<1>6. ASSUME \A c \in Cards : man'[c].pc = "cut" => man[c].pc = "cut",
             lock' = lock, wd' = wd,
             radiod' \subseteq radiod \/ lock = Free
      PROVE  LockInv'
  BY <1>2, <1>6 DEF LockInv
<1>7. ASSUME NEW x \in Cards, OffLoad(x) \/ OnLoad(x) PROVE LockInv'
  <2>1. \A c \in Cards : man'[c].pc = "cut" => man[c].pc = "cut"
    BY <1>1, <1>7 DEF OffLoad, OnLoad
  <2> QED BY <1>6, <1>7, <2>1 DEF OffLoad, OnLoad
<1>8. ASSUME NEW x \in Cards,
             OffTruncate(x) \/ OffWrite(x) \/ OffSaveFails(x) \/ OnReady(x)
      PROVE  LockInv'
  <2>1. PICK pc \in {"offTorn", "stop", "restart"} : Goto(x, pc)
    BY <1>8 DEF OffTruncate, OffWrite, OffSaveFails, OnReady
  <2>2. pc \in ManPCs
    BY DEF ManPCs
  <2>3. \A c \in Cards : man'[c].pc = "cut" => man[c].pc = "cut"
    BY <1>4, <2>1, <2>2
  <2> QED BY <1>6, <1>8, <2>3 DEF OffTruncate, OffWrite, OffSaveFails, OnReady
<1>9. ASSUME NEW x \in Cards, OffStop(x) PROVE LockInv'
  <2>1. lock = Free /\ lock' = [kind |-> "man", card |-> x] /\ radiod' = radiod \ {x} /\ wd' = wd
    BY <1>9 DEF OffStop, TakeLock, Fault, Serialised
  <2>2. "cut" \in ManPCs /\ Goto(x, "cut")
    BY <1>9 DEF ManPCs, OffStop
  <2>3. \A c \in Cards : man'[c].pc = "cut" => c = x \/ man[c].pc = "cut"
    BY <1>4, <2>2
  <2>4. \A c \in Cards : man'[c].pc = "cut" => c = x
    BY <1>2, <2>1, <2>3 DEF LockInv
  <2> QED BY <2>1, <2>4 DEF LockInv
<1>9a. ASSUME NEW x \in Cards PROVE ~OffStopFails(x)
  BY DEF OffStopFails, Fault, Serialised
<1>10. ASSUME NEW x \in Cards, OffCut(x) \/ Kill(x) PROVE LockInv'
  <2>1. ReleaseLock(x) /\ radiod' = radiod /\ wd' = wd
    BY <1>10 DEF OffCut, Kill
  <2>2. "confirm" \in ManPCs /\ (Goto(x, "confirm") \/ Done(x))
    BY <1>10 DEF ManPCs, OffCut, Kill
  <2>3. \A c \in Cards : man'[c].pc = "cut" => c # x /\ man[c].pc = "cut"
    BY <1>4, <1>5, <2>2
  <2>4. ASSUME NEW c \in Cards, man'[c].pc = "cut" PROVE lock' = [kind |-> "man", card |-> c]
    <3>1. lock = [kind |-> "man", card |-> c] /\ c # x
      BY <2>3, <2>4 DEF LockInv
    <3> QED BY <2>1, <3>1 DEF ReleaseLock
  <2> QED BY <2>1, <2>3, <2>4 DEF LockInv
<1>11. ASSUME NEW x \in Cards, OffConfirm(x) \/ OnGivesUp(x) \/ OnWrite(x) \/ OnSaveFails(x) PROVE LockInv'
  <2>1. \A c \in Cards : man'[c].pc = "cut" => man[c].pc = "cut"
    BY <1>5, <1>11 DEF OffConfirm, OnGivesUp, OnWrite, OnSaveFails
  <2> QED BY <1>6, <1>11, <2>1 DEF OffConfirm, OnGivesUp, OnWrite, OnSaveFails
<1>12. ASSUME NEW x \in Cards, OnLight(x) \/ OnBlip(x) \/ OnBlipBack(x) \/ OnClear(x) PROVE LockInv'
  <2>1. {"await", "blip", "settle", "onTorn"} \subseteq ManPCs
    BY DEF ManPCs
  <2>2. Done(x) \/ \E pc \in {"await", "blip", "settle", "onTorn"} : Goto(x, pc)
    BY <1>12 DEF OnLight, OnBlip, OnBlipBack, OnClear
  <2>3. \A c \in Cards : man'[c].pc = "cut" => man[c].pc = "cut"
    BY <1>4, <1>5, <2>1, <2>2
  <2> QED BY <1>6, <1>12, <2>3 DEF OnLight, OnBlip, OnBlipBack, OnClear
<1>13. ASSUME NEW x \in Cards, OnRestart(x) PROVE LockInv'
  <2>1. lock = Free /\ lock' = lock /\ wd' = wd
    BY <1>13 DEF OnRestart, Locked, Fault, Serialised
  <2>2. "clear" \in ManPCs /\ Goto(x, "clear")
    BY <1>13 DEF ManPCs, OnRestart
  <2>3. \A c \in Cards : man'[c].pc = "cut" => man[c].pc = "cut"
    BY <1>4, <2>2
  <2> QED BY <1>6, <2>1, <2>3
<1>14. CASE TickRestart
  <2>1. lock = Free /\ lock' = lock /\ wd' = wd /\ man' = man
    BY <1>14 DEF TickRestart, Locked, Fault, Serialised
  <2> QED BY <1>6, <2>1
<1>15. CASE \/ TickStart \/ TickHolds \/ TickCut \/ TickLight \/ TickAlarm \/ UNCHANGED vars
            \/ \E c \in Cards : CardReturns(c) \/ CardVanishes(c)
  BY <1>6, <1>15 DEF TickStart, TickHolds, TickCut, TickLight, TickAlarm, CardReturns, CardVanishes, vars
<1>16. ~WdStart /\ ~WdStep /\ \A c \in Cards : ~WdRequest(c)
  BY DEF WdStart, WdStep, WdHonor, WdHealthy, WdStop, WdStartUnit, WdRequest, LockInv, Serialised
<1> QED
  BY <1>7, <1>8, <1>9, <1>9a, <1>10, <1>11, <1>12, <1>13, <1>14, <1>15, <1>16
  DEF Next, OffStep, OnStep, TickStep

\* "radiod must stop FIRST": for every number of cards and of operators at
\* work at once, no radiod runs on a card whose power --off cuts, because
\* --off keeps the lifecycle lock from the stop to the cut.  The watchdog is
\* excluded, which takes no lock, and so are a lock given up on and a stop of
\* radiod that did not stop it, whose outcome --off does not look at.
THEOREM RadiodIsDownFirst ==
  ASSUME Serialised
  PROVE  Spec => RadiodStopsFirst
<1>1. Init => LockInv
  BY DEF Init, LockInv, NoManual, NoPass
<1>2. TypeOK /\ LockInv /\ [Next]_vars => LockInv'
  BY LockInvInductive
<1>3. LockInv /\ [Next]_vars =>
        [\A c \in Cards : man[c].pc = "cut" /\ c \in dark' \ dark => c \notin radiod]_vars
  BY DEF LockInv
<1> QED BY <1>1, <1>2, <1>3, TypeCorrect, PTL DEF Spec, RadiodStopsFirst
=============================================================================
