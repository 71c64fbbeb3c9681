---------------------------- MODULE RadiodProofs ----------------------------
(***************************************************************************)
(* Theorems about radiod's watchdog (RadiodWatchdog), for any radiods,     *)
(* requests and times, and about the wisdom planner (WisdomPlan), for any  *)
(* clients and sizes: a request is honoured at most once, the detectors keep *)
(* the warm-up of every restart and the cooldown of the marked ones, wisdom *)
(* judged current is, and the planner never runs beside radiod.            *)
(***************************************************************************)
EXTENDS Parts, TLAPS

(***************************************************************************)
(* The watchdog                                                            *)
(***************************************************************************)

\* A host with a radiod, times and bounds that are numbers, and a warm-up no
\* longer than the cooldown.
WatchdogSensible ==
  /\ Units # {}
  /\ Warmup \in Nat /\ Grace \in Nat /\ Silence \in Nat /\ Cooldown \in Nat /\ FreshFor \in Nat
  /\ PassLength \in Nat /\ Warmup <= Cooldown
  /\ MaxWatchdogFaults \in Nat

RadiodStates == [up: {"active", "stopping", "down"}, queued: BOOLEAN, age: 0 .. Watchdog!Cap,
               quiet: 0 .. Watchdog!Cap, quit: 0 .. Watchdog!NoQuit]
Passes == [pc: {"idle", "request", "restart", "mark", "list", "check", "stop", "start"},
           age: 0 .. PassLength, todo: SUBSET Units, asked: Requests \union {"none"}, unit: Units]

\* A capped counter stays within its cap and goes up.
LEMMA IncType ==
  ASSUME NEW cap \in Nat, NEW n \in 0 .. cap
  PROVE  Watchdog!Inc(n, cap) \in 0 .. cap
BY DEF Watchdog!Inc

\* The values the actions start from.
LEMMA Values ==
  ASSUME WatchdogSensible
  PROVE  /\ Watchdog!Cap \in Nat /\ Watchdog!NoQuit \in Nat /\ Watchdog!Never \in Nat
         /\ Watchdog!Fresh \in RadiodStates /\ Watchdog!Rest \in Passes
         /\ Watchdog!NoRequest \in [id: Requests \union {"none"}, unit: Units, age: 0 .. FreshFor + 1]
<1>1. Watchdog!Cap \in Nat /\ Watchdog!NoQuit \in Nat /\ Watchdog!Never \in Nat
  BY DEF WatchdogSensible, Watchdog!Cap, Watchdog!NoQuit, Watchdog!Never
<1>2. (CHOOSE u \in Units : TRUE) \in Units
  BY DEF WatchdogSensible
<1>3. Watchdog!Fresh \in RadiodStates
  BY <1>1 DEF Watchdog!Fresh, RadiodStates
<1>4. Watchdog!Rest \in Passes
  BY <1>2 DEF Watchdog!Rest, Passes, WatchdogSensible
<1>5. Watchdog!NoRequest \in [id: Requests \union {"none"}, unit: Units, age: 0 .. FreshFor + 1]
  BY <1>2 DEF Watchdog!NoRequest, WatchdogSensible
<1> QED BY <1>1, <1>3, <1>4, <1>5

\* The first state is well typed.
LEMMA InitTyped ==
  ASSUME WatchdogSensible, Watchdog!Init
  PROVE  Watchdog!TypeOK
<1>1. radiods \in [Units -> RadiodStates]
  BY Values DEF Watchdog!Init
<1>2. check \in Passes /\ request \in [id: Requests \union {"none"}, unit: Units, age: 0 .. FreshFor + 1]
  BY Values DEF Watchdog!Init
<1>3. last \in [Units -> 0 .. Watchdog!Never] /\ spaced \in [Units -> 0 .. Watchdog!Never]
  BY Values DEF Watchdog!Init
<1>4. honoured \in [Requests -> 0 .. 2] /\ faults \in 0 .. MaxWatchdogFaults
  BY DEF Watchdog!Init, WatchdogSensible
<1>5. held \subseteq Units /\ unmarked \subseteq Units /\ stamp \in Requests \union {"none"}
  BY DEF Watchdog!Init
<1> QED BY <1>1, <1>2, <1>3, <1>4, <1>5 DEF Watchdog!TypeOK, RadiodStates, Passes

\* What the world does keeps the types.
LEMMA WorldTyped ==
  ASSUME WatchdogSensible, Watchdog!TypeOK,
         \/ Watchdog!Tick \/ Watchdog!Drags
         \/ \E u \in Units : Watchdog!Logs(u) \/ Watchdog!Quits(u) \/ Watchdog!Hold(u) \/ Watchdog!Settles(u) \/ \E r \in Requests : Watchdog!Asks(r, u)
  PROVE  Watchdog!TypeOK'
<1>0. /\ radiods \in [Units -> RadiodStates] /\ check \in Passes
      /\ Watchdog!Cap \in Nat /\ Watchdog!NoQuit \in Nat /\ Watchdog!Never \in Nat /\ Watchdog!Fresh \in RadiodStates
  BY Values DEF Watchdog!TypeOK, RadiodStates, Passes
<1>1. ASSUME NEW kind, Watchdog!Fault(kind) PROVE faults' \in 0 .. MaxWatchdogFaults
  BY <1>1 DEF Watchdog!Fault, Watchdog!TypeOK, WatchdogSensible
<1>2. CASE Watchdog!Tick \/ Watchdog!Drags
  <2>0. Watchdog!TimePasses
    BY <1>2 DEF Watchdog!Tick, Watchdog!Drags
  <2>1. radiods' \in [Units -> RadiodStates]
    <3>1. \A u \in Units : /\ Watchdog!Inc(radiods[u].age, Watchdog!Cap) \in 0 .. Watchdog!Cap /\ Watchdog!Inc(radiods[u].quiet, Watchdog!Cap) \in 0 .. Watchdog!Cap
                           /\ radiods[u].quit # Watchdog!NoQuit => Watchdog!Inc(radiods[u].quit, Watchdog!NoQuit - 1) \in 0 .. Watchdog!NoQuit
      <4> SUFFICES ASSUME NEW u \in Units
                   PROVE  /\ Watchdog!Inc(radiods[u].age, Watchdog!Cap) \in 0 .. Watchdog!Cap /\ Watchdog!Inc(radiods[u].quiet, Watchdog!Cap) \in 0 .. Watchdog!Cap
                          /\ radiods[u].quit # Watchdog!NoQuit => Watchdog!Inc(radiods[u].quit, Watchdog!NoQuit - 1) \in 0 .. Watchdog!NoQuit
        OBVIOUS
      <4>1. radiods[u].age \in 0 .. Watchdog!Cap /\ radiods[u].quiet \in 0 .. Watchdog!Cap /\ radiods[u].quit \in 0 .. Watchdog!NoQuit
        BY <1>0 DEF RadiodStates
      <4> QED BY <1>0, <4>1 DEF Watchdog!Inc, Watchdog!NoQuit, WatchdogSensible
    <3> QED BY <1>0, <2>0, <3>1 DEF Watchdog!TimePasses, RadiodStates
  <2>2. last' \in [Units -> 0 .. Watchdog!Never] /\ spaced' \in [Units -> 0 .. Watchdog!Never]
    BY <1>0, <2>0, IncType DEF Watchdog!TimePasses, Watchdog!TypeOK
  <2>3. request' \in [id: Requests \union {"none"}, unit: Units, age: 0 .. FreshFor + 1]
    <3>1. Watchdog!Inc(request.age, FreshFor + 1) \in 0 .. FreshFor + 1
      BY DEF Watchdog!TypeOK, WatchdogSensible, Watchdog!Inc
    <3> QED BY <2>0, <3>1 DEF Watchdog!TimePasses, Watchdog!TypeOK
  <2>4. check' \in Passes
    <3>1. CASE Watchdog!Tick
      BY <1>0, <3>1 DEF Watchdog!Tick, Passes
    <3>2. CASE Watchdog!Drags
      <4>1. check.age + 1 \in 0 .. PassLength
        BY <1>0, <3>2 DEF Watchdog!Drags, Passes, WatchdogSensible
      <4> QED BY <1>0, <3>2, <4>1 DEF Watchdog!Drags, Passes
    <3> QED BY <1>2, <3>1, <3>2
  <2> QED BY <2>0, <2>1, <2>2, <2>3, <2>4 DEF Watchdog!TimePasses, Watchdog!TypeOK, RadiodStates, Passes
<1>3. ASSUME NEW u \in Units, Watchdog!Logs(u) \/ Watchdog!Quits(u) PROVE Watchdog!TypeOK'
  <2>1. radiods' \in [Units -> RadiodStates]
    BY <1>0, <1>3 DEF Watchdog!Logs, Watchdog!Quits, RadiodStates
  <2> QED BY <1>1, <1>3, <2>1 DEF Watchdog!Logs, Watchdog!Quits, Watchdog!TypeOK, RadiodStates
<1>4. ASSUME NEW u \in Units, Watchdog!Settles(u) PROVE Watchdog!TypeOK'
  <2>1. radiods' \in [Units -> RadiodStates]
    BY <1>0, <1>4 DEF Watchdog!Settles, RadiodStates
  <2> QED BY <1>4, <2>1 DEF Watchdog!Settles, Watchdog!TypeOK, RadiodStates
<1>5. ASSUME NEW u \in Units, Watchdog!Hold(u) PROVE Watchdog!TypeOK'
  BY <1>1, <1>5 DEF Watchdog!Hold, Watchdog!TypeOK
<1>6. ASSUME NEW u \in Units, NEW r \in Requests, Watchdog!Asks(r, u) PROVE Watchdog!TypeOK'
  BY <1>1, <1>6 DEF Watchdog!Asks, Watchdog!TypeOK, WatchdogSensible
<1> QED BY <1>2, <1>3, <1>4, <1>5, <1>6

\* What a pass does keeps the types.
LEMMA PassTyped ==
  ASSUME WatchdogSensible, Watchdog!TypeOK, Watchdog!Works \/ Watchdog!Kill
  PROVE  Watchdog!TypeOK'
<1>0. /\ radiods \in [Units -> RadiodStates] /\ check \in Passes
      /\ Watchdog!Never \in Nat /\ Watchdog!Fresh \in RadiodStates /\ Watchdog!Rest \in Passes
  BY Values DEF Watchdog!TypeOK, RadiodStates, Passes
<1>1. ASSUME NEW kind, Watchdog!Fault(kind) PROVE faults' \in 0 .. MaxWatchdogFaults
  BY <1>1 DEF Watchdog!Fault, Watchdog!TypeOK, WatchdogSensible
<1>0a. check.age \in 0 .. Watchdog!Never
  BY <1>0 DEF Passes, Watchdog!Never, WatchdogSensible
<1>2. ASSUME NEW pc \in {"idle", "request", "restart", "mark", "list", "check", "stop", "start"}, Watchdog!Goes(pc)
      PROVE  check' \in Passes
  BY <1>0, <1>2 DEF Watchdog!Goes, Passes
<1>3. CASE Watchdog!Stamp
  <2>1. check' \in Passes
    <3>1. Watchdog!Honours => check' \in Passes
      BY <1>0 DEF Watchdog!Honours, Passes, Watchdog!TypeOK
    <3> QED BY <1>2, <1>3, <3>1 DEF Watchdog!Stamp
  <2>2. faults' \in 0 .. MaxWatchdogFaults /\ stamp' \in Requests \union {"none"}
    BY <1>1, <1>3 DEF Watchdog!Stamp, Watchdog!TypeOK
  <2> QED BY <1>3, <2>1, <2>2 DEF Watchdog!Stamp, Watchdog!TypeOK, Passes
<1>4. CASE Watchdog!HonourRestart
  <2>1. radiods' \in [Units -> RadiodStates]
    BY <1>0, <1>4 DEF Watchdog!HonourRestart, Watchdog!Restarted, RadiodStates, Passes
  <2>2. honoured' \in [Requests -> 0 .. 2]
    <3>1. honoured' = [honoured EXCEPT ![check.asked] = Watchdog!Inc(honoured[check.asked], 2)]
      BY <1>4 DEF Watchdog!HonourRestart
    <3>2. check.asked \in Requests => Watchdog!Inc(honoured[check.asked], 2) \in 0 .. 2
      BY DEF Watchdog!TypeOK, Watchdog!Inc
    <3> QED BY <3>1, <3>2 DEF Watchdog!TypeOK
  <2>3. check' \in Passes /\ faults' \in 0 .. MaxWatchdogFaults
    BY <1>1, <1>2, <1>4 DEF Watchdog!HonourRestart, Watchdog!TypeOK
  <2>4. spaced' \in [Units -> 0 .. Watchdog!Never] /\ unmarked' \subseteq Units
    BY <1>0, <1>4 DEF Watchdog!HonourRestart, Watchdog!TypeOK, Passes
  <2> QED BY <1>4, <2>1, <2>2, <2>3, <2>4 DEF Watchdog!HonourRestart, Watchdog!TypeOK, RadiodStates,
             Passes
<1>5. CASE Watchdog!HonourMark
  <2>1. last' \in [Units -> 0 .. Watchdog!Never] /\ unmarked' \subseteq Units
    BY <1>0, <1>0a, <1>5 DEF Watchdog!HonourMark, Watchdog!TypeOK
  <2>2. check' \in Passes
    BY <1>2, <1>5 DEF Watchdog!HonourMark
  <2> QED BY <1>5, <2>1, <2>2 DEF Watchdog!HonourMark, Watchdog!TypeOK, Passes
<1>6. CASE Watchdog!List
  <2>1. check' \in Passes
    BY <1>0, <1>6 DEF Watchdog!List, Passes, Watchdog!Active
  <2> QED BY <1>6, <2>1 DEF Watchdog!List, Watchdog!TypeOK, Passes
<1>7. CASE Watchdog!Check
  <2>1. check' \in Passes
    BY <1>0, <1>7 DEF Watchdog!Check, Passes
  <2>2. last' \in [Units -> 0 .. Watchdog!Never]
    <3>1. UNCHANGED last \/ \E u \in check.todo : last' = [last EXCEPT ![u] = check.age]
      BY <1>7 DEF Watchdog!Check
    <3> QED BY <1>0a, <3>1 DEF Watchdog!TypeOK
  <2> QED BY <1>7, <2>1, <2>2 DEF Watchdog!Check, Watchdog!TypeOK, Passes
<1>8. CASE Watchdog!Stop
  <2>1. radiods' \in [Units -> RadiodStates]
    BY <1>0, <1>8 DEF Watchdog!Stop, RadiodStates, Passes
  <2>2. spaced' \in [Units -> 0 .. Watchdog!Never] /\ unmarked' \subseteq Units
    BY <1>0, <1>8 DEF Watchdog!Stop, Watchdog!TypeOK
  <2>3. check' \in Passes /\ faults' \in 0 .. MaxWatchdogFaults
    BY <1>1, <1>2, <1>8 DEF Watchdog!Stop, Watchdog!TypeOK
  <2> QED BY <1>8, <2>1, <2>2, <2>3 DEF Watchdog!Stop, Watchdog!TypeOK, RadiodStates, Passes
<1>9. CASE Watchdog!Start
  <2>1. radiods' \in [Units -> RadiodStates]
    BY <1>0, <1>9 DEF Watchdog!Start, RadiodStates, Passes
  <2>2. check' \in Passes
    BY <1>2, <1>9 DEF Watchdog!Start
  <2> QED BY <1>9, <2>1, <2>2 DEF Watchdog!Start, Watchdog!TypeOK, RadiodStates, Passes
<1>10. CASE Watchdog!Kill
  BY <1>0, <1>1, <1>10 DEF Watchdog!Kill, Watchdog!TypeOK, Passes
<1> QED BY <1>3, <1>4, <1>5, <1>6, <1>7, <1>8, <1>9, <1>10 DEF Watchdog!Works

\* Every reachable state is well typed.
THEOREM WatchdogTypeCorrect ==
  ASSUME WatchdogSensible
  PROVE  Watchdog!Spec => []Watchdog!TypeOK
<1>1. Watchdog!Init => Watchdog!TypeOK
  BY InitTyped
<1>2. Watchdog!TypeOK /\ UNCHANGED Watchdog!vars => Watchdog!TypeOK'
  BY DEF Watchdog!TypeOK, Watchdog!vars
<1>3. Watchdog!TypeOK /\ [Watchdog!Next]_(Watchdog!vars) => Watchdog!TypeOK'
  BY <1>2, WorldTyped, PassTyped DEF Watchdog!Next
<1> QED BY <1>1, <1>3, PTL DEF Watchdog!Spec

\* Where each step of a pass leaves it.
LEMMA PassGoes ==
  ASSUME Watchdog!TypeOK
  PROVE  /\ Watchdog!Stamp => check'.pc \in {"restart", "list"}
         /\ Watchdog!HonourRestart => check'.pc \in {"mark", "list"}
         /\ Watchdog!HonourMark => check'.pc = "list"
         /\ Watchdog!List => check'.pc = "check"
         /\ Watchdog!Check => check'.pc \in {"idle", "check", "stop"}
         /\ Watchdog!Stop => check'.pc = "start"
         /\ Watchdog!Start => check'.pc = "check"
         /\ Watchdog!Kill => check'.pc = "idle"
<1>1. \A pc : Watchdog!Goes(pc) => check'.pc = pc
  BY DEF Watchdog!Goes, Watchdog!TypeOK
<1>2. Watchdog!Honours => check'.pc = "restart"
  BY DEF Watchdog!Honours, Watchdog!TypeOK
<1>3. Watchdog!Stamp => check'.pc \in {"restart", "list"}
  BY <1>1, <1>2 DEF Watchdog!Stamp
<1>4. Watchdog!HonourRestart => check'.pc \in {"mark", "list"}
  BY <1>1 DEF Watchdog!HonourRestart
<1>5. Watchdog!List => check'.pc = "check"
  BY DEF Watchdog!List, Watchdog!TypeOK
<1>6. Watchdog!Check => check'.pc \in {"idle", "check", "stop"}
  <2> SUFFICES ASSUME Watchdog!Check PROVE check'.pc \in {"idle", "check", "stop"}
    OBVIOUS
  <2>1. CASE check' = Watchdog!Rest
    BY <2>1 DEF Watchdog!Rest
  <2>2. ASSUME NEW u, \/ check' = [check EXCEPT !.pc = "stop", !.todo = @ \ {u}, !.unit = u]
                      \/ check' = [check EXCEPT !.todo = @ \ {u}]
        PROVE  check'.pc \in {check.pc, "stop"}
    BY <2>2 DEF Watchdog!TypeOK
  <2> QED BY <2>1, <2>2 DEF Watchdog!Check
<1> QED BY <1>1, <1>3, <1>4, <1>5, <1>6 DEF Watchdog!HonourMark, Watchdog!Stop, Watchdog!Start,
           Watchdog!Kill, Watchdog!Rest

(***************************************************************************)
(* A request is honoured once.  The property is not inductive: what keeps  *)
(* a second restart away is the stamp, so the invariant says what the      *)
(* stamp shows while a restart is pending, and what it shows of a request  *)
(* that still stands after its restart.                                    *)
(***************************************************************************)

StampInv ==
  /\ HonouredOnce
  /\ check.pc = "restart" =>
       check.asked \in Requests /\ stamp = check.asked /\ honoured[check.asked] = 0
  /\ \A r \in Requests : request.id = r /\ honoured[r] > 0 => stamp = r

\* Every step keeps it: the stamp goes first, and a request whose restart was
\* tried is not written again under its id.
LEMMA StampInvInductive ==
  ASSUME WatchdogSensible, Watchdog!TypeOK, StampInv, [Watchdog!Next]_(Watchdog!vars)
  PROVE  StampInv'
<1> USE DEF StampInv, HonouredOnce, Watchdog!HonouredOnce
<1>1. CASE Watchdog!Stamp
  <2>1. \A r \in Requests : honoured'[r] = honoured[r]
    BY <1>1 DEF Watchdog!Stamp
  <2>2. request' = request
    BY <1>1 DEF Watchdog!Stamp
  <2>3. CASE Watchdog!Actionable /\ stamp' = request.id /\ Watchdog!Honours
    <3>1. request.id \in Requests /\ honoured[request.id] = 0
      BY <2>3 DEF Watchdog!Actionable, Watchdog!TypeOK
    <3>2. check'.asked = request.id
      BY <2>3 DEF Watchdog!Honours, Watchdog!TypeOK
    <3> QED BY <2>1, <2>2, <2>3, <3>1, <3>2
  <2>4. CASE Watchdog!Goes("list") /\ UNCHANGED stamp
    BY <2>1, <2>2, <2>4 DEF Watchdog!Goes, Watchdog!TypeOK
  <2> QED BY <1>1, <2>3, <2>4 DEF Watchdog!Stamp
<1>2. CASE Watchdog!HonourRestart
  <2>1. /\ check.asked \in Requests /\ stamp = check.asked /\ honoured[check.asked] = 0
        /\ UNCHANGED <<request, stamp>> /\ check'.pc \in {"mark", "list"}
        /\ honoured' = [honoured EXCEPT ![check.asked] = Watchdog!Inc(honoured[check.asked], 2)]
    BY <1>2 DEF Watchdog!HonourRestart, Watchdog!Goes, Watchdog!TypeOK
  <2>2. \A r \in Requests : honoured'[r] = IF r = check.asked THEN 1 ELSE honoured[r]
    BY <2>1 DEF Watchdog!TypeOK, Watchdog!Inc
  <2> QED BY <2>1, <2>2
<1>3. CASE Watchdog!HonourMark \/ Watchdog!List \/ Watchdog!Check \/ Watchdog!Stop \/ Watchdog!Start \/ Watchdog!Kill
  <2>1. UNCHANGED <<request, stamp, honoured>>
    BY <1>3 DEF Watchdog!HonourMark, Watchdog!List, Watchdog!Check, Watchdog!Stop, Watchdog!Start,
       Watchdog!Kill
  <2>2. check'.pc # "restart"
    BY <1>3, PassGoes
  <2> QED BY <2>1, <2>2
<1>4. CASE Watchdog!Tick \/ Watchdog!Drags
  <2>1. UNCHANGED <<stamp, honoured>> /\ request'.id = request.id
    BY <1>4 DEF Watchdog!Tick, Watchdog!Drags, Watchdog!TimePasses, Watchdog!TypeOK
  <2>2. check'.pc = "request" \/ (check'.pc = check.pc /\ check'.asked = check.asked)
    BY <1>4 DEF Watchdog!Tick, Watchdog!Drags, Watchdog!TypeOK
  <2> QED BY <2>1, <2>2
<1>5. ASSUME NEW u \in Units, NEW r \in Requests, Watchdog!Asks(r, u) PROVE StampInv'
  <2>1. UNCHANGED <<stamp, honoured, check>> /\ request'.id = r /\ honoured[r] = 0
    BY <1>5 DEF Watchdog!Asks
  <2> QED BY <2>1
<1>6. ASSUME NEW u \in Units, Watchdog!Logs(u) \/ Watchdog!Quits(u) \/ Watchdog!Hold(u) \/ Watchdog!Settles(u) PROVE StampInv'
  <2>1. UNCHANGED <<request, stamp, honoured, check>>
    BY <1>6 DEF Watchdog!Logs, Watchdog!Quits, Watchdog!Hold, Watchdog!Settles
  <2> QED BY <2>1
<1>7. CASE UNCHANGED Watchdog!vars
  BY <1>7 DEF Watchdog!vars
<1> QED BY <1>1, <1>2, <1>3, <1>4, <1>5, <1>6, <1>7 DEF Watchdog!Next, Watchdog!Works

\* "a crash mid-restart can never lead to honoring the same request twice":
\* through kills, stamps that fail and restarts that outlast their client, no
\* request restarts its radiod a second time.
THEOREM RequestsAreHonouredOnce ==
  ASSUME WatchdogSensible
  PROVE  Watchdog!Spec => []HonouredOnce
<1>1. Watchdog!Init => StampInv
  <2> SUFFICES ASSUME Watchdog!Init PROVE StampInv
    OBVIOUS
  <2>1. \A r \in Requests : honoured[r] = 0
    BY DEF Watchdog!Init
  <2>2. check.pc = "idle"
    BY DEF Watchdog!Init, Watchdog!Rest
  <2> QED BY <2>1, <2>2 DEF StampInv, HonouredOnce, Watchdog!HonouredOnce
<1>2. Watchdog!TypeOK /\ StampInv /\ [Watchdog!Next]_(Watchdog!vars) => StampInv'
  BY StampInvInductive
<1>3. StampInv => HonouredOnce
  BY DEF StampInv
<1> QED BY <1>1, <1>2, <1>3, WatchdogTypeCorrect, PTL DEF Watchdog!Spec

(***************************************************************************)
(* The cooldown.  A mark is as old as its pass, so it may be older than    *)
(* the restart by a pass's length at most, or younger (a pass killed after *)
(* the mark); what the detectors ask of it, and of the time radiod has     *)
(* been up, carries over to the restart itself.                            *)
(***************************************************************************)

CooldownInv ==
  /\ \A u \in Units :
       /\ u \notin unmarked => last[u] <= spaced[u] + PassLength
       /\ radiods[u].up = "active" => radiods[u].age <= spaced[u] \/ Warmup <= spaced[u]
  /\ check.pc = "stop" =>
       /\ last[check.unit] <= PassLength
       /\ last[check.unit] <= check.age
       /\ Warmup <= spaced[check.unit]
       /\ check.unit \notin unmarked => spaced[check.unit] + PassLength > Cooldown

\* Every step keeps it.
LEMMA CooldownInvInductive ==
  ASSUME WatchdogSensible, Watchdog!TypeOK, CooldownInv, [Watchdog!Next]_(Watchdog!vars)
  PROVE  CooldownInv'
<1>0. /\ last \in [Units -> Nat] /\ spaced \in [Units -> Nat]
      /\ \A u \in Units : last[u] <= Watchdog!Never /\ spaced[u] <= Watchdog!Never
      /\ radiods \in [Units -> RadiodStates] /\ check \in Passes /\ check.unit \in Units
      /\ check.age \in Nat /\ check.age <= PassLength
      /\ \A u \in Units : radiods[u].age \in Nat
      /\ Watchdog!Never \in Nat /\ Watchdog!Cap \in Nat
      /\ Watchdog!Never = Cooldown + PassLength + 1
      /\ Warmup \in Nat /\ Cooldown \in Nat /\ PassLength \in Nat /\ Warmup <= Cooldown
  <2>1. Watchdog!Never \in Nat /\ Watchdog!Cap \in Nat
    BY Values
  <2>2. radiods \in [Units -> RadiodStates] /\ check \in Passes
    BY DEF Watchdog!TypeOK, RadiodStates, Passes
  <2>3. last \in [Units -> 0 .. Watchdog!Never] /\ spaced \in [Units -> 0 .. Watchdog!Never]
    BY DEF Watchdog!TypeOK
  <2>4. \A u \in Units : radiods[u].age \in Nat
    BY <2>1, <2>2 DEF RadiodStates
  <2>5. check.unit \in Units /\ check.age \in Nat /\ check.age <= PassLength
    BY <2>2 DEF Passes, WatchdogSensible
  <2> QED BY <2>1, <2>2, <2>3, <2>4, <2>5 DEF WatchdogSensible, Watchdog!Never
<1>0a. Watchdog!Fresh.up = "active" /\ Watchdog!Fresh.age = 0
  BY DEF Watchdog!Fresh
<1>1. CASE Watchdog!Tick \/ Watchdog!Drags
  <2>0. Watchdog!TimePasses /\ unmarked' = unmarked
    BY <1>1 DEF Watchdog!Tick, Watchdog!Drags, Watchdog!TimePasses
  <2>1. \A u \in Units : /\ last'[u] = Watchdog!Inc(last[u], Watchdog!Never)
                         /\ spaced'[u] = Watchdog!Inc(spaced[u], Watchdog!Never)
                         /\ radiods'[u].up = radiods[u].up
                         /\ radiods'[u].age = Watchdog!Inc(radiods[u].age, Watchdog!Cap)
    BY <1>0, <2>0 DEF Watchdog!TimePasses, RadiodStates
  <2>2. ASSUME NEW u \in Units
        PROVE  /\ u \notin unmarked => last'[u] <= spaced'[u] + PassLength
               /\ radiods[u].up = "active" => radiods'[u].age <= spaced'[u] \/ Warmup <= spaced'[u]
               /\ spaced[u] <= spaced'[u]
               /\ last'[u] <= last[u] + 1
               /\ spaced'[u] \in Nat /\ last'[u] \in Nat
    <3>1. /\ u \notin unmarked => last[u] <= spaced[u] + PassLength
          /\ radiods[u].up = "active" => radiods[u].age <= spaced[u] \/ Warmup <= spaced[u]
      BY DEF CooldownInv
    <3> QED BY <1>0, <2>1, <3>1 DEF Watchdog!Inc
  <2>3. CASE Watchdog!Tick
    <3>1. check'.pc = "request"
      BY <1>0, <2>3 DEF Watchdog!Tick, Passes
    <3> QED BY <2>0, <2>1, <2>2, <3>1 DEF CooldownInv
  <2>4. CASE Watchdog!Drags
    <3>1. check'.pc = check.pc /\ check'.unit = check.unit /\ check'.age = check.age + 1 /\ check.age < PassLength
      BY <1>0, <2>4 DEF Watchdog!Drags, Passes
    <3>2. ASSUME check.pc = "stop"
          PROVE  /\ last'[check.unit] <= PassLength /\ last'[check.unit] <= check'.age
                 /\ Warmup <= spaced'[check.unit]
                 /\ check.unit \notin unmarked => spaced'[check.unit] + PassLength > Cooldown
      <4>1. /\ last[check.unit] <= check.age /\ Warmup <= spaced[check.unit]
            /\ check.unit \notin unmarked => spaced[check.unit] + PassLength > Cooldown
        BY <3>2 DEF CooldownInv
      <4> QED BY <1>0, <2>2, <3>1, <4>1
    <3> QED BY <2>0, <2>1, <2>2, <3>1, <3>2 DEF CooldownInv
  <2> QED BY <1>1, <2>3, <2>4
<1>2. CASE Watchdog!HonourMark
  <2>1. /\ check'.pc = "list" /\ last' = [last EXCEPT ![check.unit] = check.age]
        /\ unmarked' = unmarked \ {check.unit} /\ UNCHANGED <<spaced, radiods>>
    BY <1>0, <1>2, PassGoes DEF Watchdog!HonourMark
  <2> QED BY <1>0, <2>1 DEF CooldownInv
<1>2a. CASE Watchdog!HonourRestart
  <2>1. /\ check'.pc \in {"mark", "list"} /\ spaced' = [spaced EXCEPT ![check.unit] = 0]
        /\ unmarked' = unmarked \union {check.unit} /\ last' = last
    BY <1>2a, PassGoes DEF Watchdog!HonourRestart
  <2>2. \A u \in Units : \/ u # check.unit /\ radiods'[u] = radiods[u]
                         \/ u = check.unit /\ (radiods'[u].up = "active" => radiods'[u].age = 0)
    BY <1>0, <1>0a, <1>2a DEF Watchdog!HonourRestart, Watchdog!Restarted, RadiodStates
  <2> QED BY <1>0, <2>1, <2>2 DEF CooldownInv
<1>3. CASE Watchdog!Check
  <2>0. UNCHANGED <<radiods, spaced, unmarked>>
    BY <1>3 DEF Watchdog!Check
  <2>1. CASE UNCHANGED last /\ check'.pc # "stop"
    BY <2>0, <2>1 DEF CooldownInv
  <2>2. ASSUME NEW u \in check.todo, Watchdog!Wedged(u), last' = [last EXCEPT ![u] = check.age],
               check' = [check EXCEPT !.pc = "stop", !.todo = @ \ {u}, !.unit = u]
        PROVE  CooldownInv'
    <3>1. u \in Units /\ check'.unit = u /\ check'.pc = "stop" /\ check'.age = check.age
      BY <1>0, <2>2 DEF Passes
    <3>2. /\ radiods[u].up = "active" /\ radiods[u].age >= Warmup /\ last[u] > Cooldown
      BY <1>0, <2>2, <3>1 DEF Watchdog!Wedged, Watchdog!Active
    <3>3. /\ Warmup <= spaced[u]
          /\ u \notin unmarked => spaced[u] + PassLength > Cooldown
      BY <1>0, <3>1, <3>2 DEF CooldownInv
    <3> QED BY <1>0, <2>0, <2>2, <3>1, <3>3 DEF CooldownInv
  <2>3. \/ UNCHANGED last /\ check'.pc # "stop"
        \/ \E u \in check.todo : /\ Watchdog!Wedged(u) /\ last' = [last EXCEPT ![u] = check.age]
                                /\ check' = [check EXCEPT !.pc = "stop", !.todo = @ \ {u}, !.unit = u]
    <3>1. CASE check' = Watchdog!Rest /\ UNCHANGED last
      BY <3>1 DEF Watchdog!Rest
    <3>2. ASSUME NEW u \in check.todo, check' = [check EXCEPT !.todo = @ \ {u}]
          PROVE  check'.pc = check.pc
      BY <3>2 DEF Watchdog!TypeOK
    <3> QED BY <1>3, <3>1, <3>2 DEF Watchdog!Check
  <2> QED BY <2>1, <2>2, <2>3
<1>4. CASE Watchdog!Stop
  <2>1. check'.pc = "start" /\ last' = last /\ check.pc = "stop"
    BY <1>4, PassGoes DEF Watchdog!Stop
  <2>2. CASE UNCHANGED <<radiods, spaced, unmarked>>
    BY <2>1, <2>2 DEF CooldownInv
  <2>3. ASSUME NEW x \in {"down", "stopping"}, radiods' = [radiods EXCEPT ![check.unit].up = x],
               spaced' = [spaced EXCEPT ![check.unit] = 0], unmarked' = unmarked \ {check.unit}
        PROVE  CooldownInv'
    <3>1. \A u \in Units : \/ u # check.unit /\ radiods'[u] = radiods[u]
                           \/ u = check.unit /\ radiods'[u].up # "active"
      BY <1>0, <2>3 DEF RadiodStates
    <3> QED BY <1>0, <2>1, <2>3, <3>1 DEF CooldownInv
  <2> QED BY <1>4, <2>2, <2>3 DEF Watchdog!Stop
<1>5. CASE Watchdog!Stamp \/ Watchdog!List \/ Watchdog!Kill
  <2>1. UNCHANGED <<radiods, last, spaced, unmarked>>
    BY <1>5 DEF Watchdog!Stamp, Watchdog!List, Watchdog!Kill
  <2>2. check'.pc # "stop"
    BY <1>5, PassGoes
  <2> QED BY <2>1, <2>2 DEF CooldownInv
<1>6. ASSUME UNCHANGED <<last, spaced, unmarked>>, UNCHANGED check \/ check'.pc # "stop",
             NEW u \in Units,
             \A v \in Units : v # u => radiods'[v] = radiods[v],
             radiods'[u].up = "active" => \/ radiods'[u].age = 0
                                          \/ radiods[u].up = "active" /\ radiods'[u].age = radiods[u].age
      PROVE  CooldownInv'
  <2>1. ASSUME NEW v \in Units, radiods'[v].up = "active"
        PROVE  radiods'[v].age <= spaced[v] \/ Warmup <= spaced[v]
    <3>1. CASE v # u
      BY <1>6, <2>1, <3>1 DEF CooldownInv
    <3>2. CASE v = u
      BY <1>0, <1>6, <2>1, <3>2 DEF CooldownInv
    <3> QED BY <3>1, <3>2
  <2> QED BY <1>6, <2>1 DEF CooldownInv
<1>7. CASE Watchdog!Start
  <2>1. check'.pc # "stop" /\ UNCHANGED <<last, spaced, unmarked>>
    BY <1>7, PassGoes DEF Watchdog!Start
  <2>2. /\ \A v \in Units : v # check.unit => radiods'[v] = radiods[v]
        /\ radiods'[check.unit] =
             CASE radiods[check.unit].up = "down" -> Watchdog!Fresh
               [] radiods[check.unit].up = "stopping" -> [radiods[check.unit] EXCEPT !.queued = TRUE]
               [] OTHER -> radiods[check.unit]
    BY <1>0, <1>7 DEF Watchdog!Start
  <2>3. radiods'[check.unit].up = "active" =>
          \/ radiods'[check.unit].age = 0
          \/ radiods[check.unit].up = "active" /\ radiods'[check.unit].age = radiods[check.unit].age
    <3>1. radiods[check.unit] \in RadiodStates
      BY <1>0
    <3> QED BY <1>0a, <2>2, <3>1 DEF RadiodStates
  <2> QED BY <1>0, <1>6, <2>1, <2>2, <2>3
<1>8. ASSUME NEW u \in Units, Watchdog!Logs(u) \/ Watchdog!Quits(u) \/ Watchdog!Settles(u)
      PROVE  CooldownInv'
  <2>1. UNCHANGED <<last, spaced, unmarked, check>>
    BY <1>8 DEF Watchdog!Logs, Watchdog!Quits, Watchdog!Settles
  <2>2. /\ \A v \in Units : v # u => radiods'[v] = radiods[v]
        /\ radiods'[u].up = "active" => \/ radiods'[u].age = 0
                                        \/ radiods[u].up = "active" /\ radiods'[u].age = radiods[u].age
    BY <1>0, <1>0a, <1>8 DEF Watchdog!Logs, Watchdog!Quits, Watchdog!Settles, RadiodStates
  <2> QED BY <1>6, <2>1, <2>2
<1>9. ASSUME NEW u \in Units, Watchdog!Hold(u) \/ \E r \in Requests : Watchdog!Asks(r, u)
      PROVE  CooldownInv'
  <2>1. UNCHANGED <<radiods, last, spaced, unmarked, check>>
    BY <1>9 DEF Watchdog!Hold, Watchdog!Asks
  <2> QED BY <2>1 DEF CooldownInv
<1>10. CASE UNCHANGED Watchdog!vars
  BY <1>10 DEF Watchdog!vars, CooldownInv
<1> QED BY <1>1, <1>2, <1>2a, <1>3, <1>4, <1>5, <1>7, <1>8, <1>9, <1>10 DEF Watchdog!Next, Watchdog!Works

\* "Share the wedge-detectors' cooldown so they leave the freshly restarted unit
\* alone through warm-up": for every warm-up, cooldown and length of a pass, no
\* detector stops a radiod within the warm-up of the watchdog's last restart of
\* it, its own or a request's, killed passes included, nor, a pass's length
\* short, within the cooldown of a restart that was marked.
THEOREM CooldownIsKept ==
  ASSUME WatchdogSensible
  PROVE  Watchdog!Spec => DetectorsAreSpaced
<1>1. Watchdog!Init => CooldownInv
  <2> SUFFICES ASSUME Watchdog!Init PROVE CooldownInv
    OBVIOUS
  <2>1. Watchdog!Never \in Nat /\ Warmup \in Nat /\ Warmup <= Watchdog!Never /\ PassLength \in Nat
    BY Values DEF WatchdogSensible, Watchdog!Never
  <2>2. check.pc = "idle" /\ \A u \in Units : last[u] = Watchdog!Never /\ spaced[u] = Watchdog!Never
    BY DEF Watchdog!Init, Watchdog!Rest
  <2> QED BY <2>1, <2>2 DEF CooldownInv
<1>2. Watchdog!TypeOK /\ CooldownInv /\ [Watchdog!Next]_(Watchdog!vars) => CooldownInv'
  BY CooldownInvInductive
<1>3. Watchdog!TypeOK /\ CooldownInv =>
        (\A u \in Units : check.pc = "stop" /\ check'.pc = "start" /\ check.unit = u =>
           /\ spaced[u] >= Warmup
           /\ u \notin unmarked => spaced[u] + PassLength > Cooldown)
  <2> SUFFICES ASSUME Watchdog!TypeOK, CooldownInv, NEW u \in Units, check.pc = "stop", check.unit = u
               PROVE  /\ spaced[u] >= Warmup
                      /\ u \notin unmarked => spaced[u] + PassLength > Cooldown
    OBVIOUS
  <2>1. Watchdog!Never \in Nat
    BY Values
  <2>2. spaced[u] \in Nat /\ Warmup \in Nat
    BY <2>1 DEF Watchdog!TypeOK, WatchdogSensible
  <2> QED BY <2>2 DEF CooldownInv
<1> QED BY <1>1, <1>2, <1>3, WatchdogTypeCorrect, PTL DEF Watchdog!Spec, DetectorsAreSpaced,
           Watchdog!DetectorsAreSpaced

(***************************************************************************)
(* The wisdom planner                                                      *)
(***************************************************************************)

\* The bounds are numbers.
WisdomBounds == MaxCommands \in Nat /\ MaxWisdomFaults \in Nat

PlannerStates == [pc: {"idle", "needed", "suspend", "mark", "plan", "run", "install", "side", "resume", "start"},
               todo: SUBSET Wisdom!Services, fresh: BOOLEAN, sizes: SUBSET Sizes]
Commands == [verb: {"none", "start", "stop", "restart"}, todo: SUBSET Wisdom!Services, marked: BOOLEAN]

\* What the unit does keeps the types.
LEMMA UnitTyped ==
  ASSUME WisdomBounds, Wisdom!TypeOK, Wisdom!Works \/ Wisdom!Kill \/ Wisdom!Launch
  PROVE  Wisdom!TypeOK'
<1> USE DEF Wisdom!stores
<1>0. planner \in PlannerStates /\ cmd \in Commands
  BY DEF Wisdom!TypeOK, PlannerStates, Commands
<1>1. ASSUME NEW kind, Wisdom!Fault(kind) PROVE faults' \in 0 .. MaxWisdomFaults
  BY <1>1 DEF Wisdom!Fault, Wisdom!TypeOK, WisdomBounds
<1>2. ASSUME NEW pc \in {"idle", "needed", "suspend", "mark", "plan", "run", "install", "side", "resume", "start"},
             Wisdom!Goes(pc)
      PROVE  planner' \in PlannerStates
  BY <1>0, <1>2 DEF Wisdom!Goes, PlannerStates
<1>3. /\ Wisdom!Idle \in PlannerStates
      /\ \A pc \in {"needed", "resume"} : [Wisdom!Idle EXCEPT !.pc = pc] \in PlannerStates
      /\ \A pc \in {"suspend", "start"} : [Wisdom!Idle EXCEPT !.pc = pc, !.todo = Wisdom!Services] \in PlannerStates
      /\ \A u \in Wisdom!Services : [planner EXCEPT !.todo = @ \ {u}] \in PlannerStates
  BY <1>0 DEF Wisdom!Idle, PlannerStates
<1>4. CASE Wisdom!Needed
  <2>1. planner' \in PlannerStates
    BY <1>2, <1>3, <1>4 DEF Wisdom!Needed
  <2> QED BY <1>4, <2>1 DEF Wisdom!Needed, Wisdom!TypeOK, PlannerStates
<1>5. CASE Wisdom!Suspend
  <2>1. planner' \in PlannerStates
    BY <1>2, <1>3, <1>5 DEF Wisdom!Suspend
  <2>2. faults' \in 0 .. MaxWisdomFaults
    BY <1>1, <1>5 DEF Wisdom!Suspend, Wisdom!TypeOK
  <2>3. /\ up' \subseteq Wisdom!Services /\ booting' \subseteq Wisdom!Services /\ suspended' \subseteq Wisdom!Services
        /\ failed' \subseteq Wisdom!Services
    BY <1>5 DEF Wisdom!Suspend, Wisdom!Stopped, Wisdom!TypeOK
  <2> QED BY <1>5, <2>1, <2>2, <2>3 DEF Wisdom!Suspend, Wisdom!TypeOK, PlannerStates
<1>6. CASE Wisdom!Mark
  <2>1. planner' \in PlannerStates /\ faults' \in 0 .. MaxWisdomFaults
    BY <1>1, <1>2, <1>6 DEF Wisdom!Mark, Wisdom!TypeOK
  <2>2. marker' \in BOOLEAN
    BY <1>6 DEF Wisdom!Mark, Wisdom!TypeOK
  <2> QED BY <1>6, <2>1, <2>2 DEF Wisdom!Mark, Wisdom!TypeOK, PlannerStates
<1>7. CASE Wisdom!Plan
  <2>1. [planner EXCEPT !.pc = "run", !.fresh = (Wisdom!Verdict = "fresh"), !.sizes = misses] \in PlannerStates
    BY <1>0 DEF PlannerStates, Wisdom!TypeOK
  <2>2. planner' \in PlannerStates
    BY <1>2, <1>7, <2>1 DEF Wisdom!Plan
  <2>3. faults' \in 0 .. MaxWisdomFaults
    BY <1>1, <1>7 DEF Wisdom!Plan, Wisdom!TypeOK
  <2> QED BY <1>7, <2>2, <2>3 DEF Wisdom!Plan, Wisdom!TypeOK, PlannerStates
<1>8. CASE Wisdom!RunPlanner
  <2>1. planner' \in PlannerStates /\ faults' \in 0 .. MaxWisdomFaults
    BY <1>1, <1>2, <1>8 DEF Wisdom!RunPlanner, Wisdom!TypeOK
  <2> QED BY <1>8, <2>1 DEF Wisdom!RunPlanner, Wisdom!TypeOK, PlannerStates
<1>9. CASE Wisdom!Install
  <2>1. planner' \in PlannerStates /\ faults' \in 0 .. MaxWisdomFaults
    BY <1>1, <1>2, <1>9 DEF Wisdom!Install, Wisdom!TypeOK
  <2>2. Wisdom!Made \in Wisdom!Wisdoms
    BY <1>0 DEF Wisdom!Made, Wisdom!TypeOK, Wisdom!Wisdoms, PlannerStates
  <2> QED BY <1>9, <2>1, <2>2 DEF Wisdom!Install, Wisdom!TypeOK, PlannerStates
<1>10. CASE Wisdom!Sidecar
  <2>1. planner' \in PlannerStates /\ faults' \in 0 .. MaxWisdomFaults
    BY <1>1, <1>2, <1>10 DEF Wisdom!Sidecar, Wisdom!TypeOK
  <2>2. [made |-> "here", sizes |-> planner.sizes] \in Wisdom!Wisdoms
    BY <1>0 DEF Wisdom!Wisdoms, PlannerStates
  <2> QED BY <1>10, <2>1, <2>2 DEF Wisdom!Sidecar, Wisdom!TypeOK, PlannerStates
<1>11. CASE Wisdom!Resume
  <2>1. planner' \in PlannerStates
    BY <1>3, <1>11 DEF Wisdom!Resume
  <2>2. marker' \in BOOLEAN
    BY <1>11 DEF Wisdom!Resume, Wisdom!TypeOK
  <2> QED BY <1>11, <2>1, <2>2 DEF Wisdom!Resume, Wisdom!TypeOK, PlannerStates
<1>12. CASE Wisdom!ResumeStart
  <2>1. planner' \in PlannerStates
    BY <1>3, <1>12 DEF Wisdom!ResumeStart
  <2>2. faults' \in 0 .. MaxWisdomFaults
    BY <1>1, <1>12 DEF Wisdom!ResumeStart, Wisdom!TypeOK
  <2>3. /\ up' \subseteq Wisdom!Services /\ booting' \subseteq Wisdom!Services /\ suspended' \subseteq Wisdom!Services
        /\ failed' \subseteq Wisdom!Services
    BY <1>12 DEF Wisdom!ResumeStart, Wisdom!Started, Wisdom!Settled, Wisdom!TypeOK
  <2> QED BY <1>12, <2>1, <2>2, <2>3 DEF Wisdom!ResumeStart, Wisdom!TypeOK, PlannerStates
<1>13. CASE Wisdom!Kill
  <2>1. planner' \in PlannerStates /\ faults' \in 0 .. MaxWisdomFaults
    BY <1>1, <1>3, <1>13 DEF Wisdom!Kill
  <2> QED BY <1>13, <2>1 DEF Wisdom!Kill, Wisdom!TypeOK, PlannerStates
<1>14. CASE Wisdom!Launch
  <2>1. planner' \in PlannerStates /\ commands' \in 0 .. MaxCommands
    BY <1>3, <1>14 DEF Wisdom!Launch, Wisdom!Move, Wisdom!TypeOK, WisdomBounds
  <2> QED BY <1>14, <2>1 DEF Wisdom!Launch, Wisdom!TypeOK, PlannerStates
<1> QED BY <1>4, <1>5, <1>6, <1>7, <1>8, <1>9, <1>10, <1>11, <1>12, <1>13, <1>14 DEF Wisdom!Works

\* Operators, boots and misses.
Around ==
  \/ Wisdom!CmdStep \/ Wisdom!Boot \/ Wisdom!BootStart
  \/ \E names \in (SUBSET Clients) \ {{}} : Wisdom!CmdStart(names) \/ Wisdom!CmdRestart(names)
  \/ \E names \in (SUBSET Wisdom!Services) \ {{}} : Wisdom!CmdStop(names)
  \/ \E s \in Sizes : Wisdom!Miss(s)

\* They keep the types too.
LEMMA AroundTyped ==
  ASSUME WisdomBounds, Wisdom!TypeOK, Around
  PROVE  Wisdom!TypeOK'
<1> USE DEF Wisdom!stores
<1>0. planner \in PlannerStates /\ cmd \in Commands /\ Clients \subseteq Wisdom!Services /\ "radiod" \in Wisdom!Services
  BY DEF Wisdom!TypeOK, PlannerStates, Commands, Wisdom!Services
<1>1. Wisdom!NoCmd \in Commands
  BY DEF Wisdom!NoCmd, Commands
<1>2. Wisdom!Move => commands' \in 0 .. MaxCommands
  BY DEF Wisdom!Move, Wisdom!TypeOK, WisdomBounds
<1>3. CASE Wisdom!CmdStep
  <2>1. PICK u \in cmd.todo : /\ Wisdom!Started(u) \/ (Wisdom!Stopped(u) /\ Wisdom!Settled(u))
                              /\ cmd' = IF cmd.todo = {u} THEN Wisdom!NoCmd ELSE [cmd EXCEPT !.todo = @ \ {u}]
    BY <1>3 DEF Wisdom!CmdStep
  <2>2. cmd' \in Commands
    BY <1>0, <1>1, <2>1 DEF Commands
  <2>3. /\ up' \subseteq Wisdom!Services /\ booting' \subseteq Wisdom!Services /\ suspended' \subseteq Wisdom!Services
        /\ failed' \subseteq Wisdom!Services
    BY <1>0, <2>1 DEF Wisdom!Started, Wisdom!Settled, Wisdom!Stopped, Wisdom!TypeOK, Commands
  <2> QED BY <1>3, <2>2, <2>3 DEF Wisdom!CmdStep, Wisdom!TypeOK, Commands
<1>4. CASE Wisdom!Boot
  <2>1. [Wisdom!Idle EXCEPT !.pc = "needed"] \in PlannerStates
    BY DEF Wisdom!Idle, PlannerStates
  <2>2. faults' \in 0 .. MaxWisdomFaults
    BY <1>4 DEF Wisdom!Boot, Wisdom!Fault, Wisdom!TypeOK, WisdomBounds
  <2> QED BY <1>1, <1>4, <2>1, <2>2 DEF Wisdom!Boot, Wisdom!TypeOK, PlannerStates, Commands
<1>5. CASE Wisdom!BootStart
  <2>1. /\ up' \subseteq Wisdom!Services /\ booting' \subseteq Wisdom!Services /\ suspended' \subseteq Wisdom!Services
        /\ failed' \subseteq Wisdom!Services
    BY <1>5 DEF Wisdom!BootStart, Wisdom!Started, Wisdom!Settled, Wisdom!TypeOK
  <2> QED BY <1>5, <2>1 DEF Wisdom!BootStart, Wisdom!TypeOK
<1>6. ASSUME NEW names \in SUBSET Wisdom!Services, Wisdom!CmdStart(names) \/ Wisdom!CmdRestart(names) \/ Wisdom!CmdStop(names)
      PROVE  Wisdom!TypeOK'
  <2>1. Wisdom!Held(names \union {"radiod"}) \in SUBSET Wisdom!Services
    BY <1>0 DEF Wisdom!Held
  <2>2. names \union {"radiod"} \in SUBSET Wisdom!Services /\ marker \in BOOLEAN
    BY <1>0 DEF Wisdom!TypeOK
  <2>3. \/ cmd' = [verb |-> "start", todo |-> Wisdom!Held(names \union {"radiod"}), marked |-> marker]
        \/ cmd' = [verb |-> "restart", todo |-> names \union {"radiod"}, marked |-> marker]
        \/ cmd' = [verb |-> "stop", todo |-> names, marked |-> marker]
    BY <1>6 DEF Wisdom!CmdStart, Wisdom!CmdRestart, Wisdom!CmdStop
  <2>4. cmd' \in Commands
    BY <2>1, <2>2, <2>3 DEF Commands
  <2> QED BY <1>2, <1>6, <2>4 DEF Wisdom!CmdStart, Wisdom!CmdRestart, Wisdom!CmdStop,
             Wisdom!TypeOK, Commands
<1>7. ASSUME NEW s \in Sizes, Wisdom!Miss(s) PROVE Wisdom!TypeOK'
  BY <1>7 DEF Wisdom!Miss, Wisdom!TypeOK
<1> QED BY <1>0, <1>3, <1>4, <1>5, <1>6, <1>7 DEF Around

\* Every reachable state is well typed.
THEOREM WisdomTypeCorrect ==
  ASSUME WisdomBounds
  PROVE  Wisdom!Spec => []Wisdom!TypeOK
<1>1. Wisdom!Init => Wisdom!TypeOK
  <2> SUFFICES ASSUME Wisdom!Init PROVE Wisdom!TypeOK
    OBVIOUS
  <2>1. planner \in PlannerStates /\ cmd \in Commands
    BY DEF Wisdom!Init, Wisdom!Idle, Wisdom!NoCmd, PlannerStates, Commands
  <2>2. file \in Wisdom!Wisdoms /\ side \in Wisdom!Wisdoms
    BY DEF Wisdom!Init, Wisdom!Nothing, Wisdom!Wisdoms
  <2>3. marker \in BOOLEAN
    BY DEF Wisdom!Init
  <2> QED BY <2>1, <2>2, <2>3 DEF Wisdom!Init, Wisdom!TypeOK, PlannerStates, Commands, WisdomBounds
<1>2. Wisdom!TypeOK /\ UNCHANGED Wisdom!vars => Wisdom!TypeOK'
  BY DEF Wisdom!TypeOK, Wisdom!vars
<1>3. Wisdom!TypeOK /\ [Wisdom!Next]_(Wisdom!vars) => Wisdom!TypeOK'
  BY <1>2, UnitTyped, AroundTyped DEF Wisdom!Next, Around
<1> QED BY <1>1, <1>3, PTL DEF Wisdom!Spec

(***************************************************************************)
(* The sidecar tells the truth of the file.  The verdict reads the sidecar *)
(* alone, so the invariant is about the sidecar whatever the verdict; and  *)
(* between the rename and the sidecar the file is already new, so it says  *)
(* as well what the unit has found out and not yet written down.           *)
(***************************************************************************)

SideInv ==
  /\ side.made = "here" => file.made = "here" /\ side.sizes \subseteq file.sizes
  /\ Wisdom!At("run") \/ Wisdom!At("install") => (planner.fresh <=> side.made # "here")
  /\ Wisdom!At("side") => file.made = "here" /\ planner.sizes \subseteq file.sizes

\* Every step keeps it.
LEMMA SideInvInductive ==
  ASSUME Wisdom!TypeOK, SideInv, [Wisdom!Next]_(Wisdom!vars)
  PROVE  SideInv'
<1> USE DEF SideInv, Wisdom!At, Wisdom!stores
<1>0. planner \in PlannerStates /\ file \in Wisdom!Wisdoms /\ side \in Wisdom!Wisdoms
  BY DEF Wisdom!TypeOK, PlannerStates
<1>1. ASSUME NEW pc, Wisdom!Goes(pc) PROVE planner'.pc = pc /\ planner'.fresh = planner.fresh /\ planner'.sizes = planner.sizes
  BY <1>0, <1>1 DEF Wisdom!Goes, PlannerStates
<1>2. /\ Wisdom!Idle.pc = "idle"
      /\ \A pc : [Wisdom!Idle EXCEPT !.pc = pc].pc = pc /\ [Wisdom!Idle EXCEPT !.pc = pc, !.todo = Wisdom!Services].pc = pc
  BY DEF Wisdom!Idle
<1>3. CASE Wisdom!Plan
  <2>1. CASE /\ Wisdom!Verdict # "current"
             /\ planner' = [planner EXCEPT !.pc = "run", !.fresh = (Wisdom!Verdict = "fresh"), !.sizes = misses]
    <3>1. planner'.pc = "run" /\ planner'.fresh = (Wisdom!Verdict = "fresh")
      BY <1>0, <2>1 DEF PlannerStates
    <3>2. (Wisdom!Verdict = "fresh") <=> side.made # "here"
      BY <2>1 DEF Wisdom!Verdict
    <3> QED BY <1>3, <3>1, <3>2 DEF Wisdom!Plan
  <2>2. CASE Wisdom!Goes("resume")
    BY <1>1, <1>3, <2>2 DEF Wisdom!Plan
  <2> QED BY <1>3, <2>1, <2>2 DEF Wisdom!Plan
<1>4. CASE Wisdom!Install
  <2>1. CASE file' = Wisdom!Made /\ Wisdom!Goes("side")
    <3>1. Wisdom!Made.made = "here" /\ planner.sizes \subseteq Wisdom!Made.sizes /\ (side.made = "here" => side.sizes \subseteq Wisdom!Made.sizes)
      <4>1. CASE planner.fresh
        BY <1>4, <4>1 DEF Wisdom!Install, Wisdom!Made
      <4>2. CASE ~planner.fresh
        BY <1>0, <1>4, <4>2 DEF Wisdom!Install, Wisdom!Made, Wisdom!Wisdoms
      <4> QED BY <4>1, <4>2
    <3> QED BY <1>1, <1>4, <2>1, <3>1 DEF Wisdom!Install
  <2>2. CASE Wisdom!Goes("resume") /\ UNCHANGED file
    BY <1>1, <1>4, <2>2 DEF Wisdom!Install
  <2> QED BY <1>4, <2>1, <2>2 DEF Wisdom!Install
<1>5. CASE Wisdom!Sidecar
  BY <1>1, <1>5 DEF Wisdom!Sidecar
<1>6. CASE Wisdom!RunPlanner
  BY <1>1, <1>6 DEF Wisdom!RunPlanner
<1>7. ASSUME UNCHANGED <<file, side>>, planner'.pc \notin {"run", "install", "side"} PROVE SideInv'
  BY <1>7
<1>8. CASE Wisdom!Needed \/ Wisdom!Mark
  <2>1. \/ Wisdom!Goes("resume") \/ Wisdom!Goes("plan")
        \/ planner' = [Wisdom!Idle EXCEPT !.pc = "suspend", !.todo = Wisdom!Services]
    BY <1>8 DEF Wisdom!Needed, Wisdom!Mark
  <2>2. planner'.pc \in {"resume", "plan", "suspend"}
    BY <1>1, <1>2, <2>1
  <2>3. UNCHANGED <<file, side>>
    BY <1>8 DEF Wisdom!Needed, Wisdom!Mark
  <2> QED BY <1>7, <2>2, <2>3
<1>9. CASE Wisdom!Resume \/ Wisdom!Launch \/ Wisdom!Boot
  BY <1>2, <1>7, <1>9 DEF Wisdom!Resume, Wisdom!Launch, Wisdom!Boot
<1>10. CASE Wisdom!Kill
  <2>1. planner' = Wisdom!Idle \/ planner' = [Wisdom!Idle EXCEPT !.pc = "resume"]
    BY <1>10 DEF Wisdom!Kill
  <2> QED BY <1>2, <1>7, <1>10, <2>1 DEF Wisdom!Kill
<1>11. ASSUME NEW u, planner' = [planner EXCEPT !.todo = @ \ {u}] PROVE planner'.pc = planner.pc
  BY <1>0, <1>11 DEF PlannerStates
<1>12. CASE Wisdom!Suspend
  <2>1. planner'.pc \in {"suspend", "mark"}
    BY <1>1, <1>11, <1>12 DEF Wisdom!Suspend
  <2> QED BY <1>7, <1>12, <2>1 DEF Wisdom!Suspend
<1>13. CASE Wisdom!ResumeStart
  <2>1. planner'.pc \in {"start", "idle"}
    BY <1>2, <1>11, <1>13 DEF Wisdom!ResumeStart
  <2> QED BY <1>7, <1>13, <2>1 DEF Wisdom!ResumeStart
<1>14. ASSUME UNCHANGED <<file, side, planner>> PROVE SideInv'
  BY <1>14
<1>15. CASE Wisdom!CmdStep \/ Wisdom!BootStart \/ UNCHANGED Wisdom!vars
  BY <1>14, <1>15 DEF Wisdom!CmdStep, Wisdom!BootStart, Wisdom!vars
<1>16. CASE \/ \E names \in (SUBSET Clients) \ {{}} : Wisdom!CmdStart(names) \/ Wisdom!CmdRestart(names)
            \/ \E names \in (SUBSET Wisdom!Services) \ {{}} : Wisdom!CmdStop(names)
            \/ \E s \in Sizes : Wisdom!Miss(s)
  BY <1>14, <1>16 DEF Wisdom!CmdStart, Wisdom!CmdRestart, Wisdom!CmdStop, Wisdom!Miss
<1> QED BY <1>3, <1>4, <1>5, <1>6, <1>8, <1>9, <1>10, <1>12, <1>13, <1>15, <1>16 DEF Wisdom!Next,
           Wisdom!Works

\* "Topping that up kept every foreign plan and restamped the whole file": for
\* every set of sizes, wisdom judged current was made here and holds each size
\* radiod has missed, wherever the unit was killed or failed.
THEOREM VerdictIsTrue ==
  ASSUME WisdomBounds
  PROVE  Wisdom!Spec => []CurrentIsCurrent
<1>1. Wisdom!Init => SideInv
  BY DEF Wisdom!Init, SideInv, Wisdom!Nothing, Wisdom!Idle, Wisdom!At
<1>2. Wisdom!TypeOK /\ SideInv /\ [Wisdom!Next]_(Wisdom!vars) => SideInv'
  BY SideInvInductive
<1>3. Wisdom!TypeOK /\ SideInv => CurrentIsCurrent
  <2> SUFFICES ASSUME Wisdom!TypeOK, SideInv, Wisdom!Verdict = "current"
               PROVE  file.made = "here" /\ misses \subseteq file.sizes
    BY DEF CurrentIsCurrent, Wisdom!CurrentIsCurrent
  <2>1. side.made = "here" /\ misses \subseteq side.sizes
    BY DEF Wisdom!Verdict
  <2> QED BY <2>1 DEF SideInv
<1> QED BY <1>1, <1>2, <1>3, WisdomTypeCorrect, PTL DEF Wisdom!Spec

(***************************************************************************)
(* The planner alone.  Plan sees that nothing runs; afterwards a start of  *)
(* radiod could come from a boot's queue or from a command.  Suspend has   *)
(* emptied the queue, and the marker holds back what a command would       *)
(* start.  A command of radiod begun before the marker, a restart while it *)
(* stands, and one begun while it could not be written, are outside.       *)
(***************************************************************************)

Heeded == {"restart", "inflight"} \intersect WisdomFaults = {}

AloneInv ==
  /\ PlansAlone
  /\ up \intersect booting = {}
  /\ Wisdom!At("suspend") => booting \subseteq planner.todo
  /\ planner.pc \in {"mark", "plan", "run", "install", "side"} => booting = {}
  /\ cmd.marked => cmd.verb # "restart" /\ (cmd.verb = "start" => "radiod" \notin cmd.todo)

\* Every step of the unit keeps it.
LEMMA UnitKeepsAlone ==
  ASSUME Heeded, Wisdom!TypeOK, AloneInv, Wisdom!Works \/ Wisdom!Kill \/ Wisdom!Launch
  PROVE  AloneInv'
<1> USE DEF AloneInv, PlansAlone, Wisdom!PlansAlone, Wisdom!At
<1>0. planner \in PlannerStates
  BY DEF Wisdom!TypeOK, PlannerStates
<1>1. ASSUME NEW pc, Wisdom!Goes(pc) PROVE planner'.pc = pc
  BY <1>0, <1>1 DEF Wisdom!Goes, PlannerStates
<1>2. /\ Wisdom!Idle.pc = "idle"
      /\ \A pc : [Wisdom!Idle EXCEPT !.pc = pc].pc = pc /\ [Wisdom!Idle EXCEPT !.pc = pc, !.todo = Wisdom!Services].pc = pc
      /\ \A u : [planner EXCEPT !.todo = @ \ {u}].pc = planner.pc /\ [planner EXCEPT !.todo = @ \ {u}].todo = planner.todo \ {u}
  BY <1>0 DEF Wisdom!Idle, PlannerStates
<1>3. CASE Wisdom!Needed
  <2>1. CASE Wisdom!Goes("resume")
    BY <1>1, <1>3, <2>1 DEF Wisdom!Needed
  <2>2. CASE planner' = [Wisdom!Idle EXCEPT !.pc = "suspend", !.todo = Wisdom!Services]
    <3>1. planner'.todo = Wisdom!Services /\ planner'.pc = "suspend"
      BY <2>2 DEF Wisdom!Idle
    <3> QED BY <1>3, <3>1 DEF Wisdom!Needed, Wisdom!TypeOK
  <2> QED BY <1>3, <2>1, <2>2 DEF Wisdom!Needed
<1>4. CASE Wisdom!Suspend
  <2>1. CASE planner.todo = {} /\ Wisdom!Goes("mark") /\ UNCHANGED <<up, booting>>
    BY <1>1, <1>4, <2>1 DEF Wisdom!Suspend
  <2>2. ASSUME NEW u \in Wisdom!Services, planner' = [planner EXCEPT !.todo = @ \ {u}],
               Wisdom!Stopped(u) \/ (u \in up /\ UNCHANGED <<up, booting>>)
        PROVE  AloneInv'
    <3>1. planner'.pc = "suspend" /\ planner'.todo = planner.todo \ {u}
      BY <1>2, <1>4, <2>2 DEF Wisdom!Suspend
    <3> QED BY <1>4, <2>2, <3>1 DEF Wisdom!Suspend, Wisdom!Stopped
  <2> QED BY <1>4, <2>1, <2>2 DEF Wisdom!Suspend
<1>5. CASE Wisdom!Mark
  BY <1>1, <1>5 DEF Wisdom!Mark
<1>6. CASE Wisdom!Plan
  <2>1. [planner EXCEPT !.pc = "run", !.fresh = (Wisdom!Verdict = "fresh"), !.sizes = misses].pc = "run"
    BY <1>0 DEF PlannerStates
  <2> QED BY <1>1, <1>6, <2>1 DEF Wisdom!Plan
<1>7. CASE Wisdom!RunPlanner \/ Wisdom!Install \/ Wisdom!Sidecar
  BY <1>1, <1>7 DEF Wisdom!RunPlanner, Wisdom!Install, Wisdom!Sidecar
<1>8. CASE Wisdom!Resume \/ Wisdom!Kill \/ Wisdom!Launch
  BY <1>2, <1>8 DEF Wisdom!Resume, Wisdom!Kill, Wisdom!Launch
<1>9. CASE Wisdom!ResumeStart
  <2>1. planner'.pc \in {"idle", "start"}
    BY <1>2, <1>9 DEF Wisdom!ResumeStart
  <2> QED BY <1>9, <2>1 DEF Wisdom!ResumeStart, Wisdom!Started
<1> QED BY <1>3, <1>4, <1>5, <1>6, <1>7, <1>8, <1>9 DEF Wisdom!Works

\* So do operators, boots and misses.
LEMMA AroundKeepsAlone ==
  ASSUME Heeded, Wisdom!TypeOK, AloneInv, Around
  PROVE  AloneInv'
<1> USE DEF AloneInv, PlansAlone, Wisdom!PlansAlone, Wisdom!At
<1>0. cmd \in Commands
  BY DEF Wisdom!TypeOK, Commands
<1>1. CASE Wisdom!CmdStep
  <2>1. PICK u \in cmd.todo :
          /\ \/ /\ cmd.verb \in {"start", "restart"} /\ Wisdom!Started(u)
                /\ ~cmd.marked /\ u = "radiod" /\ Wisdom!At("run") => "inflight" \in WisdomFaults
             \/ Wisdom!Stopped(u)
          /\ cmd' = IF cmd.todo = {u} THEN Wisdom!NoCmd ELSE [cmd EXCEPT !.todo = @ \ {u}]
    BY <1>1 DEF Wisdom!CmdStep
  <2>2. cmd'.marked => cmd'.verb # "restart" /\ (cmd'.verb = "start" => "radiod" \notin cmd'.todo)
    <3>1. Wisdom!NoCmd.marked = FALSE
      BY DEF Wisdom!NoCmd
    <3>2. /\ [cmd EXCEPT !.todo = @ \ {u}].marked = cmd.marked
          /\ [cmd EXCEPT !.todo = @ \ {u}].verb = cmd.verb
          /\ [cmd EXCEPT !.todo = @ \ {u}].todo = cmd.todo \ {u}
      BY <1>0 DEF Commands
    <3> QED BY <2>1, <3>1, <3>2
  <2>3. UNCHANGED <<planner, marker>>
    BY <1>1 DEF Wisdom!CmdStep
  <2>4. Wisdom!At("run") => "radiod" \notin up'
    BY <2>1 DEF Wisdom!Started, Wisdom!Settled, Wisdom!Stopped, Heeded
  <2>5. up' \intersect booting' = {} /\ booting' \subseteq booting
    BY <2>1 DEF Wisdom!Started, Wisdom!Stopped
  <2> QED BY <2>2, <2>3, <2>4, <2>5
<1>2. CASE Wisdom!Boot
  BY <1>2 DEF Wisdom!Boot, Wisdom!Idle, Wisdom!NoCmd
<1>3. CASE Wisdom!BootStart
  BY <1>3 DEF Wisdom!BootStart, Wisdom!Started
<1>4. ASSUME NEW names, Wisdom!CmdStart(names) PROVE AloneInv'
  BY <1>4 DEF Wisdom!CmdStart, Wisdom!Held
<1>5. ASSUME NEW names, Wisdom!CmdRestart(names) PROVE AloneInv'
  BY <1>5 DEF Wisdom!CmdRestart, Heeded
<1>6. ASSUME NEW names, Wisdom!CmdStop(names) PROVE AloneInv'
  BY <1>6 DEF Wisdom!CmdStop
<1>7. ASSUME NEW s, Wisdom!Miss(s) PROVE AloneInv'
  BY <1>7 DEF Wisdom!Miss
<1> QED BY <1>1, <1>2, <1>3, <1>4, <1>5, <1>6, <1>7 DEF Around

\* It holds of every behaviour.
LEMMA AloneInvHolds ==
  ASSUME WisdomBounds, Heeded
  PROVE  Wisdom!Spec => []AloneInv
<1>1. Wisdom!Init => AloneInv
  BY DEF Wisdom!Init, AloneInv, PlansAlone, Wisdom!PlansAlone, Wisdom!At, Wisdom!Idle, Wisdom!NoCmd
<1>2. AloneInv /\ UNCHANGED Wisdom!vars => AloneInv'
  BY DEF AloneInv, PlansAlone, Wisdom!PlansAlone, Wisdom!At, Wisdom!vars
<1>3. Wisdom!TypeOK /\ AloneInv /\ [Wisdom!Next]_(Wisdom!vars) => AloneInv'
  BY <1>2, UnitKeepsAlone, AroundKeepsAlone DEF Wisdom!Next, Around
<1> QED BY <1>1, <1>3, WisdomTypeCorrect, PTL DEF Wisdom!Spec

\* "FFTW then timed its plans beside a running radiod": for any clients, through
\* boots, kills and failing stops, and whatever `smd start` is asked for once the
\* marker stands, radiod does not run while the planner does; without the kinds
\* "restart" and "inflight" (Heeded).
THEOREM PlannerIsAlone ==
  ASSUME WisdomBounds, Heeded
  PROVE  Wisdom!Spec => []PlansAlone
<1>1. AloneInv => PlansAlone
  BY DEF AloneInv
<1> QED BY <1>1, AloneInvHolds, PTL
=============================================================================
