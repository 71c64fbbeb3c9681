-------------------------- MODULE SinkSwitchProofs --------------------------
(***************************************************************************)
(* Theorems about SinkSwitch, for any number of clients, orders, faults    *)
(* and hands: a site order that landed stands, and the marker of the       *)
(* carry-over means what the manifest step takes it to mean.               *)
(***************************************************************************)
EXTENDS SinkSwitch, TLAPS

\* The bounds are numbers.
Bounds == MaxFaults \in Nat /\ MaxOrders \in Nat

\* The runs the actions start from.
LEMMA IdleTyped == Idle \in Run
  BY DEF Idle, Run, States

\* What an action does to one actor's run leaves the other's alone.
LEMMA ToTyped ==
  ASSUME run \in [Actors -> Run], NEW a \in Actors, NEW r \in Run, To(a, r)
  PROVE  /\ run' \in [Actors -> Run] /\ run'[a] = r
         /\ \A b \in Actors : b # a => run'[b] = run[b]
  BY DEF To

\* A run that goes on or ends is a run.
LEMMA GoesTyped ==
  ASSUME NEW r \in Run
  PROVE  Goes(r, AfterLevers(r)) \in Run
  BY IdleTyped DEF Goes, AfterLevers, Run, States

\* The levers, for both, keep the types.
LEMMA LeversTyped ==
  ASSUME Bounds, TypeOK, NEW a \in Actors,
         LeverWrite(a) \/ LeverRestart(a) \/ LeverVerify(a) \/ RestartStale(a) \/ Kill(a)
  PROVE  TypeOK'
<1> USE DEF TypeOK, Bounds
<1>1. run[a] \in Run /\ Idle \in Run
  BY IdleTyped
<1>2. \A kind : Fault(kind) \/ NoFault => faults' \in 0 .. MaxFaults
  BY DEF Fault, NoFault
<1>3. CASE LeverWrite(a)
  <2>1. PICK failed \in SUBSET (Reached(run[a]) \intersect env) :
          /\ IF failed = {} THEN NoFault ELSE Fault("lever")
          /\ env' = env \ ((Reached(run[a]) \intersect env) \ failed)
          /\ To(a, [run[a] EXCEPT !.pc = "restart", !.bad = failed # {},
                     !.todo = ((Reached(run[a]) \intersect env) \ failed) \union Unloaded(Reached(run[a]))])
    BY <1>3 DEF LeverWrite
  <2>2. [run[a] EXCEPT !.pc = "restart", !.bad = failed # {},
           !.todo = ((Reached(run[a]) \intersect env) \ failed) \union Unloaded(Reached(run[a]))] \in Run
    BY <1>1, <2>1 DEF Run, Unloaded, Reached
  <2> QED BY <1>2, <1>3, <2>1, <2>2, ToTyped DEF LeverWrite, switches, ghosts
<1>4. CASE LeverRestart(a)
  <2>1. PICK failed \in SUBSET run[a].todo, moved \in BOOLEAN :
          /\ IF failed = {} /\ ~moved THEN NoFault ELSE Fault("restart")
          /\ Restarted(run[a].todo \ failed)
          /\ To(a, [run[a] EXCEPT !.pc = "verify", !.todo = {}, !.done = run[a].todo \ failed,
                                  !.bad = @ \/ moved \/ failed # {}])
    BY <1>4 DEF LeverRestart
  <2>2. [run[a] EXCEPT !.pc = "verify", !.todo = {}, !.done = run[a].todo \ failed,
                       !.bad = @ \/ moved \/ failed # {}] \in Run
    BY <1>1, <2>1 DEF Run
  <2>3. proc' \subseteq Clients /\ old' \subseteq Clients /\ faults' \in 0 .. MaxFaults
    <3>1. run[a].todo \subseteq Clients
      BY <1>1 DEF Run
    <3> QED BY <1>2, <2>1, <3>1 DEF Restarted
  <2> QED BY <1>4, <2>1, <2>2, <2>3, ToTyped DEF LeverRestart, switches, ghosts
<1>5. CASE LeverVerify(a)
  <2>1. [run[a] EXCEPT !.pc = "set"] \in Run /\ Goes(run[a], AfterLevers(run[a])) \in Run
    BY <1>1, GoesTyped DEF Run
  <2>2. PICK r \in Run : To(a, r)
    BY <1>1, <1>5, <2>1 DEF LeverVerify
  <2> QED BY <1>5, <2>2, ToTyped DEF LeverVerify, switches, senders, ghosts
<1>6. CASE RestartStale(a)
  <2>1. \A r \in Run : AfterStale(a, r) \in Run
    BY <1>1 DEF AfterStale, Run
  <2>2. [run[a] EXCEPT !.blind = TRUE] \in Run
    BY <1>1 DEF Run
  <2>3. PICK r \in Run : To(a, r)
    BY <1>1, <1>6, <2>1, <2>2 DEF RestartStale
  <2>4. faults' \in 0 .. MaxFaults
    BY <1>2, <1>6 DEF RestartStale
  <2>5. proc' \subseteq Clients /\ old' \subseteq Clients
    <3>1. UNCHANGED <<proc, old>> \/ \E C : C \subseteq Stale(run[a]) /\ Restarted(C)
      BY <1>6 DEF RestartStale
    <3> QED BY <3>1 DEF Restarted, Stale
  <2> QED BY <1>6, <2>3, <2>4, <2>5, ToTyped DEF RestartStale, switches, ghosts
<1>7. CASE Kill(a)
  BY <1>1, <1>2, <1>7, ToTyped DEF Kill, switches, senders, ghosts
<1> QED BY <1>3, <1>4, <1>5, <1>6, <1>7

\* What the step does besides keeps the types.
LEMMA StepTyped ==
  ASSUME Bounds, TypeOK, StepNext
  PROVE  TypeOK'
<1> USE DEF TypeOK, Bounds
<1>1. "step" \in Actors /\ run["step"] \in Run /\ Idle \in Run
  BY IdleTyped DEF Actors
<1>2. \A kind : Fault(kind) \/ NoFault => faults' \in 0 .. MaxFaults
  BY DEF Fault, NoFault
<1>3. CASE StepCarry
  <2>1. ASSUME NEW t \in States \union {"none"}, NEW off \in BOOLEAN
        PROVE  [Idle EXCEPT !.pc = "write", !.kind = "carry", !.site = t, !.writes = Missing,
                            !.below = Below(mode, governed), !.off = off] \in Run
    BY DEF Run, Idle, Missing, Below
  <2>2. (IF site = mode THEN "none" ELSE mode) \in States \union {"none"} /\ ReadsOff(mode, governed) \in BOOLEAN
    BY DEF ReadsOff
  <2>3. PICK r \in Run : To("step", r)
    BY <1>3, <2>1, <2>2 DEF StepCarry
  <2> QED BY <1>1, <1>3, <2>3, ToTyped DEF StepCarry, switches, senders
<1>4. CASE StepStanding
  <2>1. PICK r \in Run : To("step", r)
    BY <1>1, <1>4 DEF StepStanding, Run, Idle, Repair, States
  <2> QED BY <1>1, <1>4, <2>1, ToTyped DEF StepStanding, switches, senders
<1>5. CASE StepAside
  BY <1>5 DEF StepAside, switches, senders, ghosts
<1>6. CASE StepMirror
  <2>1. [Idle EXCEPT !.pc = "late"] \in Run
    BY DEF Run, Idle, States
  <2>2. site' \in FileStates /\ mode' \in States /\ faults' \in 0 .. MaxFaults
    BY <1>1, <1>2, <1>6 DEF StepMirror, Run, FileStates
  <2> QED BY <1>1, <1>6, <2>1, <2>2, ToTyped DEF StepMirror, senders, ghosts
<1>7. CASE StepLate
  <2>1. PICK r \in Run : To("step", r)
    BY <1>1, <1>7 DEF StepLate, Run, Idle, Missing, Below, ReadsOff, States
  <2> QED BY <1>1, <1>7, <2>1, ToTyped DEF StepLate, switches, senders, ghosts
<1>8. CASE StepWriteSite
  <2>1. [run["step"] EXCEPT !.site = "none"] \in Run
    BY <1>1 DEF Run
  <2>2. PICK r \in Run : To("step", r)
    BY <1>1, <1>8, <2>1 DEF StepWriteSite
  <2>3. site' \in FileStates /\ faults' \in 0 .. MaxFaults
    BY <1>1, <1>2, <1>8 DEF StepWriteSite, Run, FileStates
  <2> QED BY <1>1, <1>8, <2>2, <2>3, ToTyped DEF StepWriteSite, senders, ghosts
<1>9. ASSUME NEW c \in Clients, StepWrite(c) PROVE TypeOK'
  <2>1. [run["step"] EXCEPT !.writes = @ \ {c}] \in Run
    BY <1>1 DEF Run
  <2>2. PICK r \in Run : To("step", r)
    BY <1>1, <1>9, <2>1 DEF StepWrite
  <2>3. file' \in [Clients -> FileStates] /\ faults' \in 0 .. MaxFaults
    BY <1>2, <1>9 DEF StepWrite, FirstState, FileStates, States
  <2> QED BY <1>1, <1>9, <2>2, <2>3, ToTyped DEF StepWrite, senders, ghosts
<1>10. CASE StepRead
  <2> DEFINE read == [run["step"] EXCEPT !.below = @ \union ReadBack,
                        !.off = @ \/ \E c \in governed : Effective(c) = "off"]
             on(q) == Goes(q, IF q.below # {} THEN "lever" ELSE AfterLevers(q))
  <2>1. read \in Run
    BY <1>1 DEF Run, ReadBack
  <2>2. ASSUME NEW q \in Run PROVE on(q) \in Run
    <3>1. Goes(q, "lever") \in Run
      BY DEF Goes, Run
    <3> QED BY <3>1, GoesTyped
  <2>3. PICK r \in Run : To("step", r)
    BY <1>1, <1>10, <2>1, <2>2 DEF StepRead
  <2> QED BY <1>1, <1>2, <1>10, <2>3, ToTyped DEF StepRead, switches, senders, ghosts
<1>11. CASE StepMark
  BY <1>1, <1>2, <1>11, ToTyped DEF StepMark, switches, senders, ghosts
<1> QED BY <1>1, <1>3, <1>4, <1>5, <1>6, <1>7, <1>8, <1>9, <1>10, <1>11, LeversTyped DEF StepNext

\* An order under way has the state it was given.
Ordered == run["order"].pc # "idle" => run["order"].new \in States

\* The site order keeps the types.
LEMMA OrderTyped ==
  ASSUME Bounds, TypeOK, Ordered, OrderNext \/ \E s \in States : OrderBegin(s)
  PROVE  TypeOK'
<1> USE DEF TypeOK, Bounds
<1>1. "order" \in Actors /\ run["order"] \in Run /\ Idle \in Run
  BY IdleTyped DEF Actors
<1>2. \A kind : Fault(kind) \/ NoFault => faults' \in 0 .. MaxFaults
  BY DEF Fault, NoFault
<1>3. ASSUME NEW s \in States, OrderBegin(s) PROVE TypeOK'
  <2>1. \A pc \in {"patch", "read", "set"}, kind \in {"marked", "unmarked"} :
           [Idle EXCEPT !.new = s, !.kind = kind, !.pc = pc] \in Run
    BY <1>1, <1>3 DEF Run, Idle
  <2>2. PICK r \in Run : To("order", r)
    BY <1>3, <2>1 DEF OrderBegin
  <2>3. orders' \in 0 .. MaxOrders
    <3>1. orders < MaxOrders /\ orders' = orders + 1
      BY <1>3, Zenon DEF OrderBegin
    <3> QED BY <3>1
  <2>4. run' \in [Actors -> Run]
    BY <1>1, <2>2, ToTyped
  <2> QED BY <1>3, <2>3, <2>4 DEF OrderBegin, switches, senders, ghosts
<1>4. CASE OrderRead
  <2>1. PICK r \in Run : To("order", r)
    BY <1>1, <1>4 DEF OrderRead, Run, AfterLevers
  <2> QED BY <1>1, <1>2, <1>4, <2>1, ToTyped DEF OrderRead, switches, senders, ghosts
<1>5. CASE OrderSet
  <2>1. [run["order"] EXCEPT !.pc = "patch"] \in Run
    BY <1>1 DEF Run
  <2>2. run["order"].new \in States
    BY <1>5 DEF OrderSet, Ordered
  <2>3. site' \in FileStates /\ last' \in States \union {"none"} /\ touched' \subseteq Clients
    BY <1>5, <2>2 DEF OrderSet, FileStates, ghosts
  <2> QED BY <1>1, <1>2, <1>5, <2>1, <2>3, ToTyped DEF OrderSet, senders
<1>6. CASE OrderPatch
  BY <1>1, <1>2, <1>6, ToTyped DEF OrderPatch, Ordered, senders, ghosts
<1> QED BY <1>1, <1>3, <1>4, <1>5, <1>6, LeversTyped DEF OrderNext

\* What each actor's steps do to the other's run: nothing.
LEMMA OrderedKept ==
  ASSUME TypeOK, Ordered, [Next]_vars
  PROVE  Ordered'
<1> USE DEF Ordered, TypeOK
<1>0. "order" \in Actors /\ "step" \in Actors /\ "order" # "step" /\ run \in [Actors -> Run]
  BY DEF Actors
<1>1. ASSUME NEW r, To("step", r) PROVE Ordered'
  BY <1>0, <1>1 DEF To
<1>2. ASSUME NEW r, To("order", r), r.pc # "idle" => r.new \in States PROVE Ordered'
  BY <1>0, <1>2 DEF To
<1>3. /\ Idle.pc = "idle"
      /\ run["order"].pc # "idle" => \A pc : [run["order"] EXCEPT !.pc = pc].new \in States
  BY <1>0 DEF Idle, Run
<1>4. CASE StepNext
  BY <1>1, <1>4 DEF StepNext, StepCarry, StepStanding, StepAside, StepMirror, StepLate, StepWriteSite,
       StepWrite, StepRead, StepMark, LeverWrite, LeverRestart, LeverVerify, RestartStale
<1>5. CASE OrderNext
  <2>1. CASE OrderRead
    <3>1. \A pc, below : [run["order"] EXCEPT !.below = below, !.pc = pc].new = run["order"].new
      BY <1>0 DEF Run
    <3> QED BY <1>2, <1>3, <2>1, <3>1 DEF OrderRead
  <2>2. CASE OrderSet \/ OrderPatch
    BY <1>2, <1>3, <2>2 DEF OrderSet, OrderPatch
  <2>3. CASE LeverWrite("order")
    <3>1. \A bad, todo : [run["order"] EXCEPT !.pc = "restart", !.bad = bad, !.todo = todo].new = run["order"].new
      BY <1>0 DEF Run
    <3> QED BY <1>2, <2>3, <3>1 DEF LeverWrite
  <2>4. CASE LeverRestart("order")
    <3>1. \A done, moved : [run["order"] EXCEPT !.pc = "verify", !.todo = {}, !.done = done,
                                           !.bad = @ \/ moved].new = run["order"].new
      BY <1>0 DEF Run
    <3> QED BY <1>2, <2>4, <3>1 DEF LeverRestart
  <2>5. CASE LeverVerify("order")
    BY <1>2, <1>3, <2>5 DEF LeverVerify, Goes
  <2>6. CASE RestartStale("order")
    <3>1. [[run["order"] EXCEPT !.blind = TRUE] EXCEPT !.pc = "set"].new = run["order"].new
      BY <1>0 DEF Run
    <3> QED BY <1>2, <1>3, <2>6, <3>1 DEF RestartStale, AfterStale
  <2> QED BY <1>5, <2>1, <2>2, <2>3, <2>4, <2>5, <2>6 DEF OrderNext
<1>6. ASSUME NEW s \in States, OrderBegin(s) PROVE Ordered'
  <2>1. \A pc, kind : [Idle EXCEPT !.new = s, !.kind = kind, !.pc = pc].new = s
    BY DEF Idle
  <2> QED BY <1>2, <1>6, <2>1 DEF OrderBegin
<1>7. CASE Hands
  <2>1. ASSUME NEW a \in Actors, Kill(a) PROVE Ordered'
    BY <1>1, <1>2, <1>3, <2>1 DEF Kill, Actors
  <2> QED BY <1>7, <2>1 DEF Hands, GateFlips, HandsOnSite, HandsOnClient, WriterUpdated
<1>8. CASE UNCHANGED vars
  BY <1>8 DEF vars
<1> QED BY <1>4, <1>5, <1>6, <1>7, <1>8 DEF Next

\* Every reachable state is well typed, and an order under way has a state.
THEOREM TypeCorrect ==
  ASSUME Bounds
  PROVE  Spec => [](TypeOK /\ Ordered)
<1>1. Init => TypeOK /\ Ordered
  <2> SUFFICES ASSUME Init PROVE TypeOK /\ Ordered
    OBVIOUS
  <2>1. file \in [Clients -> FileStates] /\ site \in FileStates /\ gate \in BOOLEAN /\ env \subseteq Clients
    BY DEF Init, FirstState, FileStates, States
  <2>2. run \in [Actors -> Run] /\ run["order"].pc = "idle"
    BY IdleTyped DEF Init, Idle, Actors
  <2>3. /\ marker \in BOOLEAN /\ mode \in States /\ governed \subseteq Clients /\ proc \subseteq Clients
        /\ old \subseteq Clients /\ touched \subseteq Clients /\ last \in States \union {"none"}
    BY <2>1 DEF Init
  <2>4. faults \in 0 .. MaxFaults /\ orders \in 0 .. MaxOrders
    BY DEF Init, Bounds
  <2> QED BY <2>1, <2>2, <2>3, <2>4 DEF TypeOK, Ordered
<1>2. ASSUME TypeOK, Hands PROVE TypeOK'
  <2> USE DEF TypeOK, Bounds
  <2>1. \A kind : Fault(kind) => faults' \in 0 .. MaxFaults
    BY <1>2 DEF Fault
  <2>2. CASE GateFlips
    BY <2>1, <2>2, <1>2 DEF GateFlips, switches, senders
  <2>3. CASE HandsOnSite
    BY <2>1, <2>3, <1>2 DEF HandsOnSite, FileStates, senders
  <2>4. CASE WriterUpdated
    BY <2>1, <2>4, <1>2 DEF WriterUpdated, switches
  <2>5. ASSUME NEW c \in Clients, HandsOnClient(c) PROVE TypeOK'
    BY <2>1, <2>5, <1>2 DEF HandsOnClient, FileStates
  <2> QED BY <1>2, <2>2, <2>3, <2>4, <2>5, LeversTyped DEF Hands
<1>3. TypeOK /\ UNCHANGED vars => TypeOK'
  BY DEF TypeOK, vars, switches, senders, ghosts
<1>4. TypeOK /\ Ordered /\ [Next]_vars => TypeOK' /\ Ordered'
  BY <1>2, <1>3, StepTyped, OrderTyped, OrderedKept DEF Next
<1> QED BY <1>1, <1>4, PTL DEF Spec

\* What a run has found out and means to write.
Plans(r) == <<r.kind, r.site, r.new, r.writes, r.below, r.off>>

\* The lever step ends a run or leaves its plans as they are.
LEMMA LeversKeep ==
  ASSUME run \in [Actors -> Run], NEW a \in Actors,
         LeverWrite(a) \/ LeverRestart(a) \/ LeverVerify(a) \/ RestartStale(a) \/ Kill(a)
  PROVE  run'[a] = Idle \/ Plans(run'[a]) = Plans(run[a])
<1>0. run[a] \in Run
  OBVIOUS
<1>1. ASSUME NEW r, To(a, r) PROVE run'[a] = r
  BY <1>1 DEF To
<1>2. ASSUME NEW pc PROVE Plans([run[a] EXCEPT !.pc = pc]) = Plans(run[a])
  BY <1>0 DEF Run, Plans
<1>3. CASE LeverWrite(a)
  <2>1. PICK bad, todo : To(a, [run[a] EXCEPT !.pc = "restart", !.bad = bad, !.todo = todo])
    BY <1>3, Zenon DEF LeverWrite
  <2>2. Plans([run[a] EXCEPT !.pc = "restart", !.bad = bad, !.todo = todo]) = Plans(run[a])
    BY <1>0 DEF Run, Plans
  <2> QED BY <1>1, <2>1, <2>2
<1>4. CASE LeverRestart(a)
  <2>1. PICK failed, moved :
          To(a, [run[a] EXCEPT !.pc = "verify", !.todo = {}, !.done = run[a].todo \ failed,
                               !.bad = @ \/ moved \/ failed # {}])
    BY <1>4, Zenon DEF LeverRestart
  <2>2. Plans([run[a] EXCEPT !.pc = "verify", !.todo = {}, !.done = run[a].todo \ failed,
                             !.bad = @ \/ moved \/ failed # {}]) = Plans(run[a])
    BY <1>0 DEF Run, Plans
  <2> QED BY <1>1, <2>1, <2>2
<1>5. CASE LeverVerify(a)
  BY <1>1, <1>2, <1>5 DEF LeverVerify, Goes
<1>6. CASE RestartStale(a)
  <2>1. ASSUME NEW r \in Run PROVE AfterStale(a, r) = Idle \/ Plans(AfterStale(a, r)) = Plans(r)
    BY DEF AfterStale, Run, Plans
  <2>2. /\ [run[a] EXCEPT !.blind = TRUE] \in Run
        /\ Plans([run[a] EXCEPT !.blind = TRUE]) = Plans(run[a])
    BY <1>0 DEF Run, Plans
  <2>3. To(a, Idle) \/ To(a, AfterStale(a, run[a])) \/ To(a, AfterStale(a, [run[a] EXCEPT !.blind = TRUE]))
    BY <1>6, Zenon DEF RestartStale
  <2> QED BY <1>0, <1>1, <2>1, <2>2, <2>3
<1>7. CASE Kill(a)
  BY <1>1, <1>7 DEF Kill
<1> QED BY <1>3, <1>4, <1>5, <1>6, <1>7

(***************************************************************************)
(* An order stands.  What could take it back is a site write of the        *)
(* manifest step: none is planned while the order stands, since a repair   *)
(* needs site.toml missing and a carry-over needs the marker gone, which   *)
(* falls only while the gate is away.                                      *)
(***************************************************************************)

StandInv ==
  last # "none" => site = last /\ run["step"].site = "none" /\ (marker \/ ~gate)

\* Every step keeps it.
LEMMA StandInvInductive ==
  ASSUME TypeOK, StandInv, [Next]_vars
  PROVE  StandInv'
<1> USE DEF StandInv
<1>0. "order" \in Actors /\ "step" \in Actors /\ run \in [Actors -> Run] /\ run["step"] \in Run
  BY DEF Actors, TypeOK
<1>1. ASSUME NEW r, To("step", r) PROVE run'["step"] = r
  BY <1>0, <1>1 DEF To
<1>2. ASSUME NEW r, To("order", r) PROVE run'["step"] = run["step"]
  BY <1>0, <1>2 DEF To
<1>3. /\ Idle.site = "none"
      /\ \A pc : [Idle EXCEPT !.pc = pc].site = "none"
      /\ \A pc : \A q \in Run : Goes(q, pc).site \in {q.site, "none"}
  BY DEF Idle, Goes, Run
<1>4. CASE StepCarry \/ StepStanding
  <2>1. last # "none" => site \in States
    BY DEF TypeOK
  <2>2. CASE StepCarry
    BY <1>0, <2>2 DEF StepCarry, switches
  <2>3. CASE StepStanding
    <3>1. last # "none" => Repair = "none"
      BY <2>1 DEF Repair, States
    <3>2. \A new : [Idle EXCEPT !.pc = "mirror", !.site = Repair, !.new = new].site = Repair
      BY DEF Idle
    <3> QED BY <1>1, <2>3, <3>1, <3>2 DEF StepStanding, switches
  <2> QED BY <1>4, <2>2, <2>3
<1>5. CASE StepAside
  BY <1>5 DEF StepAside, switches, ghosts
<1>6. CASE StepMirror \/ StepMark
  BY <1>1, <1>3, <1>6 DEF StepMirror, StepMark, switches, ghosts
<1>7. CASE StepLate
  <2>1. \A writes, below, off : [Idle EXCEPT !.pc = "write", !.kind = "late", !.writes = writes,
                                    !.below = below, !.off = off].site = "none"
    BY DEF Idle
  <2>2. [Idle EXCEPT !.pc = "read", !.kind = "lever"].site = "none"
    BY DEF Idle
  <2>3. PICK r : To("step", r) /\ r.site = "none"
    <3> DEFINE q == [Idle EXCEPT !.pc = "write", !.kind = "late", !.writes = Missing,
                       !.below = Below(SiteLimit(site), Missing), !.off = ReadsOff(SiteLimit(site), Missing)]
    <3>1. CASE Missing = {}
      BY <1>7, <2>2, <3>1 DEF StepLate
    <3>2. CASE Missing # {}
      <4>1. To("step", q)
        BY <1>7, <3>2 DEF StepLate
      <4>2. q.site = "none"
        BY <2>1
      <4> QED BY <4>1, <4>2
    <3> QED BY <3>1, <3>2
  <2>4. run'["step"].site = "none"
    BY <1>1, <2>3
  <2> QED BY <1>7, <2>4 DEF StepLate, switches, ghosts
<1>8. CASE StepWriteSite
  <2>1. last = "none"
    BY <1>8 DEF StepWriteSite
  <2> QED BY <1>8, <2>1 DEF StepWriteSite, ghosts
<1>9. ASSUME NEW c \in Clients, StepWrite(c) PROVE StandInv'
  <2>1. [run["step"] EXCEPT !.writes = @ \ {c}].site = run["step"].site
    BY <1>0 DEF Run
  <2> QED BY <1>1, <1>3, <1>9, <2>1 DEF StepWrite, ghosts
<1>10. CASE StepRead
  <2> DEFINE read == [run["step"] EXCEPT !.below = @ \union ReadBack,
                        !.off = @ \/ \E c \in governed : Effective(c) = "off"]
             on(q) == Goes(q, IF q.below # {} THEN "lever" ELSE AfterLevers(q))
  <2>1. read \in Run /\ read.site = run["step"].site
    BY <1>0 DEF Run, ReadBack, TypeOK
  <2>2. \A q \in Run : on(q).site \in {q.site, "none"}
    BY <1>3
  <2>3. To("step", on(read)) \/ To("step", Idle) \/ To("step", on(run["step"]))
    BY <1>10 DEF StepRead
  <2> QED BY <1>0, <1>1, <1>3, <1>10, <2>1, <2>2, <2>3 DEF StepRead, switches, ghosts
<1>11. ASSUME NEW a \in Actors, LeverWrite(a) \/ LeverRestart(a) \/ LeverVerify(a) \/ RestartStale(a) \/ Kill(a)
       PROVE  StandInv'
  <2>1. UNCHANGED <<last, site, marker, gate>>
    BY <1>11 DEF LeverWrite, LeverRestart, LeverVerify, RestartStale, Kill, switches, ghosts
  <2>2. CASE a = "order"
    BY <1>2, <1>11, <2>1, <2>2 DEF LeverWrite, LeverRestart, LeverVerify, RestartStale, Kill
  <2>3. CASE a = "step"
    <3>1. run'["step"].site \in {run["step"].site, "none"}
      BY <1>3, <1>11, <2>3, LeversKeep DEF TypeOK, Plans
    <3> QED BY <2>1, <3>1
  <2> QED BY <2>2, <2>3 DEF Actors
<1>12. CASE OrderSet
  BY <1>2, <1>12 DEF OrderSet, InFlight, ghosts
<1>13. CASE OrderRead \/ OrderPatch \/ \E s \in States : OrderBegin(s)
  BY <1>2, <1>13 DEF OrderRead, OrderPatch, OrderBegin, switches, ghosts
<1>14. CASE GateFlips \/ HandsOnSite \/ WriterUpdated \/ \E c \in Clients : HandsOnClient(c)
  BY <1>14 DEF GateFlips, HandsOnSite, WriterUpdated, HandsOnClient, switches
<1>15. CASE UNCHANGED vars
  BY <1>15 DEF vars, switches, ghosts
<1> QED BY <1>0, <1>4, <1>5, <1>6, <1>7, <1>8, <1>9, <1>10, <1>11, <1>12, <1>13, <1>14, <1>15
        DEF Next, StepNext, OrderNext, Hands

\* "[uploads] only mirrors the switch": for any number of clients, orders, kills
\* and hand edits of [uploads], no manifest step takes back a site order that
\* landed under the marker.
THEOREM LandedOrderStands ==
  ASSUME Bounds
  PROVE  Spec => []OrderStands
<1>1. Init => StandInv
  BY DEF Init, StandInv
<1>2. TypeOK /\ StandInv /\ [Next]_vars => StandInv'
  BY StandInvInductive
<1>3. StandInv => OrderStands
  BY DEF StandInv, OrderStands
<1> QED BY <1>1, <1>2, <1>3, TypeCorrect, PTL DEF Spec

(***************************************************************************)
(* What the marker means.  The invariant follows a carry-over from its     *)
(* plan to its marker: for the clients nobody else has changed since it    *)
(* began, it knows which files are still to be written, and which clients  *)
(* will read below upload or off once they are; those are quiet after      *)
(* verify_levers, and no process is older than the writer it needs after   *)
(* restart_stale_writers, but for those the lever step restarted itself.   *)
(* Both reach enabled clients alone, and the second only while the time of *)
(* the writer file can be read.                                            *)
(***************************************************************************)

\* Where a step of each kind may be.
PathInv ==
  LET r == run["step"] IN
  /\ r.kind \in {"none", "carry", "late", "lever"}
  /\ r.pc = "mark" => r.kind = "carry"
  /\ r.pc = "stale" => r.kind \in {"carry", "late"}
  /\ r.kind = "carry" => /\ r.pc \in {"write", "lever", "restart", "verify", "stale", "mark"}
                         /\ r.pc # "write" => r.site = "none" /\ r.writes = {}

\* The site state the carry-over leaves.
Target == IF run["step"].site = "none" THEN site ELSE run["step"].site

\* What the carry-over knows of a client.
Knows(c) ==
  LET r == run["step"] IN
  /\ Target \in States
  /\ file[c] = "missing" <=> c \in r.writes
  /\ Planned(Target, c) # "upload" => c \in r.below
  /\ Planned(Target, c) = "off" => r.off
  /\ r.pc \in {"stale", "mark"} /\ c \in Reached(r) => c \notin env \union proc

\* What it knows of the writers.
Fresh ==
  LET r == run["step"] IN
  /\ r.done \intersect old \subseteq touched
  /\ r.pc = "mark" /\ r.off /\ ~r.blind => old \intersect Enabled \subseteq touched

CarryInv ==
  run["step"].kind = "carry" =>
    (\A c \in governed \ touched : Knows(c)) /\ Fresh

\* What anybody else does keeps it: a client they change is touched.
LEMMA OthersKeepCarry ==
  ASSUME TypeOK, TypeOK', CarryInv, run'["step"] = run["step"], touched \subseteq touched',
         \A c \in governed' \ touched' :
           /\ c \in governed /\ file'[c] = file[c] /\ site' = site
           /\ c \notin env \union proc => c \notin env' \union proc',
         old' \ touched' \subseteq old
  PROVE  CarryInv'
  BY DEF CarryInv, Knows, Fresh, Target, Planned, Reached

\* A step that does not belong to a carry-over has nothing to know.
LEMMA NoCarry ==
  ASSUME run'["step"].kind \in {"none", "late", "lever"}, run'["step"].pc \notin {"stale", "mark"}
  PROVE  PathInv' /\ CarryInv'
  BY DEF PathInv, CarryInv

\* The plan of the carry-over, and its writes.
LEMMA WritesKeepCarry ==
  ASSUME TypeOK, TypeOK', PathInv, CarryInv,
         StepCarry \/ StepWriteSite \/ \E c \in Clients : StepWrite(c)
  PROVE  PathInv' /\ CarryInv'
<1> DEFINE r == run["step"]
<1>0. "step" \in Actors /\ run \in [Actors -> Run] /\ r \in Run
  BY DEF Actors, TypeOK
<1>1. ASSUME NEW q, To("step", q) PROVE run'["step"] = q
  BY <1>0, <1>1 DEF To
<1>2. Idle.kind = "none" /\ Idle.pc = "idle"
  BY DEF Idle
<1>3. CASE StepCarry
  <2> DEFINE q == [Idle EXCEPT !.pc = "write", !.kind = "carry",
                     !.site = IF site = mode THEN "none" ELSE mode,
                     !.writes = Missing, !.below = Below(mode, governed), !.off = ReadsOff(mode, governed)]
  <2>1. run'["step"] = q
    BY <1>1, <1>3 DEF StepCarry
  <2>2. /\ q.pc = "write" /\ q.kind = "carry" /\ q.site = (IF site = mode THEN "none" ELSE mode)
        /\ q.writes = Missing /\ q.below = Below(mode, governed) /\ q.off = ReadsOff(mode, governed)
        /\ q.done = {}
    BY DEF Idle
  <2>3. UNCHANGED <<site, mode, file, governed>> /\ mode \in States
    BY <1>3 DEF StepCarry, switches, TypeOK
  <2>4. Target' = mode
    BY <2>1, <2>2, <2>3 DEF Target, States
  <2>5. ASSUME NEW c \in governed' PROVE Knows(c)'
    <3>1. \A s : Planned(s, c)' = Planned(s, c)
      BY <2>3 DEF Planned
    <3>2. file'[c] = "missing" <=> c \in q.writes
      BY <2>2, <2>3 DEF Missing
    <3>3. Planned(mode, c) # "upload" => c \in q.below
      BY <2>2, <2>3 DEF Below
    <3>4. Planned(mode, c) = "off" => q.off
      BY <2>2, <2>3 DEF ReadsOff
    <3> QED BY <2>1, <2>2, <2>3, <2>4, <3>1, <3>2, <3>3, <3>4 DEF Knows
  <2>6. PathInv'
    BY <2>1, <2>2 DEF PathInv
  <2>7. Fresh'
    BY <2>1, <2>2 DEF Fresh
  <2> QED BY <2>1, <2>5, <2>6, <2>7 DEF CarryInv
<1>4. CASE StepWriteSite
  <2>1. CASE To("step", Idle)
    BY <1>1, <1>2, <2>1, NoCarry
  <2>2. CASE site' = r.site /\ To("step", [r EXCEPT !.site = "none"])
    <3> DEFINE q == [r EXCEPT !.site = "none"]
    <3>1. run'["step"] = q
      BY <1>1, <2>2
    <3>2. /\ q.pc = r.pc /\ q.kind = r.kind /\ q.site = "none" /\ q.writes = r.writes
          /\ q.below = r.below /\ q.off = r.off /\ q.done = r.done
          /\ q.blind = r.blind
      BY <1>0 DEF Run
    <3>3. Target' = Target /\ UNCHANGED <<file, governed, env, proc, old, touched>>
      BY <1>4, <2>2, <3>1, <3>2 DEF StepWriteSite, Target, senders, ghosts
    <3>4. \A t, c : Planned(t, c)' = Planned(t, c)
      BY <3>3 DEF Planned
    <3>5. PathInv'
      BY <3>1, <3>2 DEF PathInv
    <3>6. CarryInv'
      BY <3>1, <3>2, <3>3, <3>4 DEF CarryInv, Knows, Fresh, Reached
    <3> QED BY <3>5, <3>6
  <2> QED BY <1>4, <2>1, <2>2 DEF StepWriteSite
<1>5. ASSUME NEW d \in Clients, StepWrite(d) PROVE PathInv' /\ CarryInv'
  <2>1. CASE To("step", Idle)
    BY <1>1, <1>2, <2>1, NoCarry
  <2>2. CASE file' = [file EXCEPT ![d] = FirstState(d)] /\ To("step", [r EXCEPT !.writes = @ \ {d}])
    <3> DEFINE q == [r EXCEPT !.writes = @ \ {d}]
    <3>1. run'["step"] = q
      BY <1>1, <2>2
    <3>2. /\ q.pc = r.pc /\ q.kind = r.kind /\ q.site = r.site /\ q.writes = r.writes \ {d}
          /\ q.below = r.below /\ q.off = r.off /\ q.done = r.done
          /\ q.blind = r.blind
      BY <1>0 DEF Run
    <3>3. Target' = Target /\ UNCHANGED <<governed, env, proc, old, touched>>
      BY <1>5, <3>1, <3>2 DEF StepWrite, Target, senders, ghosts
    <3>4. PathInv'
      BY <1>5, <3>1, <3>2 DEF PathInv, StepWrite
    <3>5. file \in [Clients -> FileStates] /\ governed \subseteq Clients
      BY DEF TypeOK
    <3>6. SUFFICES ASSUME r.kind = "carry", NEW c \in governed \ touched, Knows(c) PROVE Knows(c)'
      BY <3>1, <3>2, <3>3, <3>4 DEF CarryInv, Fresh
    <3>7. \A t : Planned(t, c)' = Planned(t, c)
      <4>1. c = d => file[c] = "missing" /\ file'[c] = FirstState(c)
        BY <1>5, <2>2, <3>5, <3>6 DEF Knows, StepWrite
      <4>2. c # d => file'[c] = file[c]
        BY <2>2, <3>5, <3>6
      <4>3. FirstState(c) \in States /\ FirstState(c) # "missing"
        BY DEF FirstState, States
      <4> QED BY <4>1, <4>2, <4>3 DEF Planned, ClientEffective
    <3>8. file'[c] = "missing" <=> c \in q.writes
      <4>1. FirstState(d) # "missing"
        BY DEF FirstState
      <4> QED BY <2>2, <3>2, <3>5, <3>6, <4>1 DEF Knows
    <3> QED BY <3>1, <3>2, <3>3, <3>6, <3>7, <3>8 DEF Knows, Reached
  <2> QED BY <1>5, <2>1, <2>2 DEF StepWrite
<1> QED BY <1>3, <1>4, <1>5

\* A carry-over that goes on: it forgets nothing, and what it comes to rely on
\* holds.
LEMMA GoesOnCarry ==
  ASSUME TypeOK, CarryInv, run["step"].kind = "carry", UNCHANGED <<site, file, governed, touched>>,
         NEW q, run'["step"] = q,
         q.site = run["step"].site, q.writes = run["step"].writes,
         run["step"].below \subseteq q.below, run["step"].off => q.off,
         q.pc \in {"stale", "mark"} => \A c \in Reached(q) \ touched : c \in governed => c \notin env' \union proc',
         q.done \intersect old' \subseteq touched,
         q.pc = "mark" /\ q.off /\ ~q.blind => old' \intersect Enabled \subseteq touched
  PROVE  CarryInv'
<1>1. Target' = Target /\ \A t, c : Planned(t, c)' = Planned(t, c)
  BY DEF Target, Planned
<1>2. ASSUME NEW c \in governed' \ touched' PROVE Knows(c)'
  <2>1. Knows(c)
    BY DEF CarryInv
  <2>2. Planned(Target, c)' = Planned(Target, c)
    BY <1>1 DEF Planned, Target
  <2> QED BY <1>1, <2>1, <2>2 DEF Knows, Reached
<1>3. Fresh'
  BY DEF Fresh
<1> QED BY <1>2, <1>3 DEF CarryInv

\* Where a run goes after the levers: its plans are kept, unless it ends.
LEMMA GoesKeeps ==
  ASSUME NEW r \in Run, NEW pc
  PROVE  \/ pc = "idle" /\ Goes(r, pc) = Idle
         \/ /\ pc # "idle" /\ Goes(r, pc).pc = pc /\ Goes(r, pc).done = r.done
            /\ Goes(r, pc).kind = r.kind /\ Goes(r, pc).site = r.site /\ Goes(r, pc).writes = r.writes
            /\ Goes(r, pc).below = r.below /\ Goes(r, pc).off = r.off
  BY DEF Goes, Run

\* Where each kind of step goes after the levers.
LEMMA AfterLeversOfStep ==
  ASSUME NEW r \in Run, r.kind \in {"none", "carry", "late", "lever"}
  PROVE  /\ AfterLevers(r) \in {"idle", "stale", "mark"}
         /\ AfterLevers(r) = "mark" => r.kind = "carry" /\ ~r.off
         /\ AfterLevers(r) = "stale" => r.kind \in {"carry", "late"} /\ r.off
         /\ AfterLevers(r) = "idle" => r.kind # "carry"
  BY DEF AfterLevers, Run

\* Reading the switches back.
LEMMA ReadKeepsCarry ==
  ASSUME TypeOK, TypeOK', PathInv, CarryInv, StepRead
  PROVE  PathInv' /\ CarryInv'
<1> DEFINE r == run["step"]
           read == [r EXCEPT !.below = @ \union ReadBack,
                             !.off = @ \/ \E c \in governed : Effective(c) = "off"]
           on(q) == Goes(q, IF q.below # {} THEN "lever" ELSE AfterLevers(q))
<1>0. "step" \in Actors /\ run \in [Actors -> Run] /\ r \in Run
  BY DEF Actors, TypeOK
<1>1. ASSUME NEW q, To("step", q) PROVE run'["step"] = q
  BY <1>0, <1>1 DEF To
<1>2. Idle.kind = "none" /\ Idle.pc = "idle"
  BY DEF Idle
<1>3. /\ read \in Run /\ read.site = r.site /\ read.writes = r.writes /\ read.kind = r.kind
      /\ r.below \subseteq read.below /\ (r.off => read.off) /\ read.done = r.done
  BY <1>0 DEF Run, ReadBack, TypeOK
<1>4. PICK q \in {read, r} : To("step", on(q)) \/ To("step", Idle)
  BY <1>0 DEF StepRead
<1>5. /\ UNCHANGED <<site, file, governed, touched, env, proc, old>>
      /\ r.kind = "carry" => r.site = "none" /\ r.writes = {}
  BY DEF StepRead, PathInv, switches, senders, ghosts
<1>6. CASE To("step", Idle)
  BY <1>1, <1>2, <1>6, NoCarry
<1>7. CASE To("step", on(q))
  <2>1. run'["step"] = on(q)
    BY <1>1, <1>7
  <2>2. /\ q \in Run /\ q.site = r.site /\ q.writes = r.writes /\ q.kind = r.kind
        /\ r.below \subseteq q.below /\ (r.off => q.off) /\ q.done = r.done
    BY <1>0, <1>3
  <2>3. CASE q.below # {}
    <3>1. /\ run'["step"].pc = "lever" /\ run'["step"].kind = r.kind /\ run'["step"].site = r.site
          /\ run'["step"].writes = r.writes /\ run'["step"].below = q.below /\ run'["step"].off = q.off
          /\ run'["step"].done = r.done
      BY <2>1, <2>2, <2>3, GoesKeeps
    <3>2. PathInv'
      BY <1>5, <3>1 DEF PathInv
    <3>3. CASE r.kind = "carry"
      <4>1. r.done \intersect old' \subseteq touched
        BY <1>5, <3>3 DEF CarryInv, Fresh
      <4> QED BY <1>5, <2>2, <3>1, <3>2, <3>3, <4>1, GoesOnCarry
    <3>4. CASE r.kind # "carry"
      BY <3>1, <3>2, <3>4 DEF CarryInv
    <3> QED BY <3>3, <3>4
  <2>4. CASE q.below = {}
    <3>0. run'["step"] = Goes(q, AfterLevers(q))
      BY <2>1, <2>4
    <3>1. q.kind \in {"none", "carry", "late", "lever"}
      BY <2>2 DEF PathInv
    <3>2. CASE AfterLevers(q) = "idle"
      BY <1>2, <2>2, <3>0, <3>2, GoesKeeps, NoCarry
    <3>3. CASE AfterLevers(q) # "idle"
      <4>1. /\ run'["step"].pc = AfterLevers(q) /\ run'["step"].kind = r.kind /\ run'["step"].site = r.site
            /\ run'["step"].writes = r.writes /\ run'["step"].below = {} /\ run'["step"].off = q.off
            /\ run'["step"].done = r.done /\ Reached(run'["step"]) = {}
        BY <2>2, <2>4, <3>0, <3>3, GoesKeeps DEF Reached
      <4>2. PathInv'
        BY <1>5, <2>2, <3>1, <3>3, <4>1, AfterLeversOfStep DEF PathInv
      <4>3. CASE r.kind = "carry"
        <5>1. r.done \intersect old' \subseteq touched
          BY <1>5, <4>3 DEF CarryInv, Fresh
        <5>2. AfterLevers(q) = "mark" => ~q.off
          BY <2>2, <3>1, AfterLeversOfStep
        <5> QED BY <1>5, <2>2, <2>4, <4>1, <4>2, <4>3, <5>1, <5>2, GoesOnCarry
      <4>4. CASE r.kind # "carry"
        BY <4>1, <4>2, <4>4 DEF CarryInv
      <4> QED BY <4>3, <4>4
    <3> QED BY <3>2, <3>3
  <2> QED BY <2>3, <2>4
<1> QED BY <1>4, <1>6, <1>7

\* The step's levers: written, restarted and verified, then the stale writers.
LEMMA LeversKeepCarry ==
  ASSUME TypeOK, TypeOK', PathInv, CarryInv,
         \/ LeverWrite("step") \/ LeverRestart("step") \/ LeverVerify("step")
         \/ RestartStale("step") \/ StepMark \/ Kill("step")
  PROVE  PathInv' /\ CarryInv'
<1> DEFINE r == run["step"]
<1>0. "step" \in Actors /\ run \in [Actors -> Run] /\ r \in Run
  BY DEF Actors, TypeOK
<1>1. ASSUME NEW q, To("step", q) PROVE run'["step"] = q
  BY <1>0, <1>1 DEF To
<1>2. Idle.kind = "none" /\ Idle.pc = "idle"
  BY DEF Idle
<1>3. ASSUME To("step", Idle) PROVE PathInv' /\ CarryInv'
  BY <1>1, <1>2, <1>3, NoCarry
<1>4. UNCHANGED <<site, file, governed, touched>>
  BY DEF LeverWrite, LeverRestart, LeverVerify, RestartStale, StepMark, Kill, switches, ghosts
<1>5. r.kind = "carry" => r.done \intersect old \subseteq touched
  BY DEF CarryInv, Fresh
<1>6. CASE LeverWrite("step")
  <2>1. PICK bad, todo : To("step", [r EXCEPT !.pc = "restart", !.bad = bad, !.todo = todo])
    BY <1>6, Zenon DEF LeverWrite
  <2> DEFINE q == [r EXCEPT !.pc = "restart", !.bad = bad, !.todo = todo]
  <2>2. /\ q.pc = "restart" /\ q.kind = r.kind /\ q.site = r.site /\ q.writes = r.writes
        /\ q.below = r.below /\ q.off = r.off /\ q.done = r.done
    BY <1>0 DEF Run
  <2>3. run'["step"] = q /\ r.pc = "lever" /\ old' = old
    BY <1>1, <1>6, <2>1 DEF LeverWrite
  <2> HIDE DEF q
  <2>4. PathInv'
    BY <2>2, <2>3 DEF PathInv
  <2>5. CASE r.kind = "carry"
    BY <1>4, <1>5, <2>2, <2>3, <2>4, <2>5, GoesOnCarry
  <2>6. CASE r.kind # "carry"
    BY <2>2, <2>3, <2>4, <2>6 DEF CarryInv
  <2> QED BY <2>5, <2>6
<1>7. CASE LeverRestart("step")
  <2>1. PICK failed, moved :
          /\ Restarted(r.todo \ failed)
          /\ To("step", [r EXCEPT !.pc = "verify", !.todo = {}, !.done = r.todo \ failed,
                                  !.bad = @ \/ moved \/ failed # {}])
    BY <1>7, Zenon DEF LeverRestart
  <2> DEFINE q == [r EXCEPT !.pc = "verify", !.todo = {}, !.done = r.todo \ failed,
                            !.bad = @ \/ moved \/ failed # {}]
  <2>2. /\ q.pc = "verify" /\ q.kind = r.kind /\ q.site = r.site /\ q.writes = r.writes
        /\ q.below = r.below /\ q.off = r.off /\ q.done = r.todo \ failed
    BY <1>0 DEF Run
  <2>3. run'["step"] = q /\ r.pc = "restart" /\ old' = old \ (r.todo \ failed)
    BY <1>1, <1>7, <2>1 DEF LeverRestart, Restarted
  <2> HIDE DEF q
  <2>4. PathInv'
    BY <2>2, <2>3 DEF PathInv
  <2>5. q.done \intersect old' \subseteq touched
    BY <2>2, <2>3
  <2>6. CASE r.kind = "carry"
    BY <1>4, <2>2, <2>3, <2>4, <2>5, <2>6, GoesOnCarry
  <2>7. CASE r.kind # "carry"
    BY <2>2, <2>3, <2>4, <2>7 DEF CarryInv
  <2> QED BY <2>6, <2>7
<1>8. CASE LeverVerify("step")
  <2>1. /\ r.pc = "verify" /\ UNCHANGED <<env, proc, old>>
        /\ To("step", Idle)
           \/ /\ To("step", Goes(r, AfterLevers(r)))
              /\ r.kind \in {"carry", "late"} => ~StillArmed(r)
    BY <1>8 DEF LeverVerify, senders
  <2>2. CASE To("step", Goes(r, AfterLevers(r))) /\ (r.kind \in {"carry", "late"} => ~StillArmed(r))
    <3>1. run'["step"] = Goes(r, AfterLevers(r)) /\ r.kind \in {"none", "carry", "late", "lever"}
      BY <1>1, <2>2 DEF PathInv
    <3>2. CASE AfterLevers(r) = "idle"
      BY <1>0, <1>2, <3>1, <3>2, GoesKeeps, NoCarry
    <3>3. CASE AfterLevers(r) # "idle"
      <4>1. /\ run'["step"].pc = AfterLevers(r) /\ run'["step"].kind = r.kind /\ run'["step"].site = r.site
            /\ run'["step"].writes = r.writes /\ run'["step"].below = r.below /\ run'["step"].off = r.off
            /\ run'["step"].done = r.done /\ Reached(run'["step"]) = Reached(r)
        BY <1>0, <3>1, <3>3, GoesKeeps DEF Reached
      <4>2. PathInv'
        BY <1>0, <2>1, <3>1, <3>3, <4>1, AfterLeversOfStep DEF PathInv
      <4>3. CASE r.kind = "carry"
        <5>1. \A c \in Reached(r) : c \notin env' \union proc'
          BY <2>1, <2>2, <4>3 DEF StillArmed, Armed
        <5>2. AfterLevers(r) = "mark" => ~r.off
          BY <1>0, <3>1, AfterLeversOfStep
        <5> QED BY <1>4, <1>5, <2>1, <4>1, <4>2, <4>3, <5>1, <5>2, GoesOnCarry
      <4>4. CASE r.kind # "carry"
        BY <4>1, <4>2, <4>4 DEF CarryInv
      <4> QED BY <4>3, <4>4
    <3> QED BY <3>2, <3>3
  <2> QED BY <1>3, <2>1, <2>2
<1>9. CASE RestartStale("step")
  <2>1. PICK q \in {r, [r EXCEPT !.blind = TRUE]} :
          /\ To("step", Idle) \/ To("step", AfterStale("step", q))
          /\ UNCHANGED env
          /\ \/ UNCHANGED <<proc, old>> /\ q = [r EXCEPT !.blind = TRUE]
             \/ \E failed \in SUBSET Stale(r) :
                  /\ Restarted(Stale(r) \ failed)
                  /\ failed # {} => To("step", Idle)
    BY <1>9 DEF RestartStale
  <2>2. CASE To("step", Idle)
    BY <1>3, <2>2
  <2>3. CASE ~To("step", Idle)
    <3> DEFINE n == [q EXCEPT !.pc = "mark"]
    <3>1. /\ n.pc = "mark" /\ n.kind = r.kind /\ n.site = r.site /\ n.writes = r.writes
          /\ n.below = r.below /\ n.off = r.off /\ n.done = r.done /\ n.blind = q.blind
          /\ q.kind = r.kind
      BY <1>0 DEF Run
    <3>2. run'["step"] = n /\ r.pc = "stale" /\ r.kind # "late"
      BY <1>1, <1>9, <2>1, <2>3, <3>1 DEF RestartStale, AfterStale
    <3>3. r.kind = "carry"
      BY <3>2 DEF PathInv
    <3>4. PathInv'
      BY <3>1, <3>2, <3>3 DEF PathInv
    <3>5. old' \subseteq old /\ proc' \subseteq proc \union env /\ env' = env
      BY <2>1 DEF Restarted, Stale
    <3>6. ~n.blind => old' \intersect Enabled \subseteq touched
      <4>1. q = [r EXCEPT !.blind = TRUE] => q.blind
        BY <1>0 DEF Run
      <4>2. ~n.blind => Restarted(Stale(r))
        BY <2>1, <2>3, <3>1, <4>1
      <4>3. ~n.blind => old' \intersect Enabled \subseteq r.done \intersect old
        BY <4>2 DEF Restarted, Stale
      <4> QED BY <1>5, <3>3, <4>3
    <3>7. n.done \intersect old' \subseteq touched
      BY <1>5, <3>1, <3>3, <3>5
    <3>8. \A c \in Reached(n) : c \in governed \ touched => c \notin env' \union proc'
      <4>1. Reached(n) = Reached(r)
        BY <3>1 DEF Reached
      <4> QED BY <3>2, <3>3, <3>5, <4>1 DEF CarryInv, Knows
    <3> HIDE DEF n
    <3> QED BY <1>4, <3>1, <3>2, <3>3, <3>4, <3>6, <3>7, <3>8, GoesOnCarry
  <2> QED BY <2>2, <2>3
<1>10. CASE StepMark \/ Kill("step")
  BY <1>3, <1>10 DEF StepMark, Kill
<1> QED BY <1>6, <1>7, <1>8, <1>9, <1>10

\* The steps that carry nothing over.
LEMMA StandingKeepsCarry ==
  ASSUME TypeOK, StepStanding \/ StepMirror \/ StepLate
  PROVE  PathInv' /\ CarryInv'
<1>0. "step" \in Actors /\ run \in [Actors -> Run]
  BY DEF Actors, TypeOK
<1>1. ASSUME NEW q, To("step", q), q.kind \in {"none", "late", "lever"}, q.pc \notin {"stale", "mark"}
      PROVE  PathInv' /\ CarryInv'
  BY <1>0, <1>1, NoCarry DEF To
<1>2. CASE StepStanding
  <2>1. \A s, new : LET q == [Idle EXCEPT !.pc = "mirror", !.site = s, !.new = new]
                    IN q.kind = "none" /\ q.pc = "mirror"
    BY DEF Idle
  <2>2. PICK s, new : To("step", [Idle EXCEPT !.pc = "mirror", !.site = s, !.new = new])
    BY <1>2, Zenon DEF StepStanding
  <2> QED BY <1>1, <2>1, <2>2
<1>3. CASE StepMirror
  BY <1>1, <1>3 DEF StepMirror, Idle
<1>4. CASE StepLate
  <2>1. \A writes, below, off :
          LET q == [Idle EXCEPT !.pc = "write", !.kind = "late", !.writes = writes,
                                !.below = below, !.off = off]
          IN q.kind = "late" /\ q.pc = "write"
    BY DEF Idle
  <2>2. CASE Missing = {}
    BY <1>1, <1>4, <2>2 DEF StepLate, Idle
  <2>3. CASE Missing # {}
    <3>1. PICK writes, below, off : To("step", [Idle EXCEPT !.pc = "write", !.kind = "late",
                                          !.writes = writes, !.below = below, !.off = off])
      <4>1. To("step", [Idle EXCEPT !.pc = "write", !.kind = "late", !.writes = Missing,
                          !.below = Below(SiteLimit(site), Missing), !.off = ReadsOff(SiteLimit(site), Missing)])
        BY <1>4, <2>3 DEF StepLate
      <4> QED BY <4>1
    <3> QED BY <1>1, <2>1, <3>1
  <2> QED BY <2>2, <2>3
<1> QED BY <1>2, <1>3, <1>4

\* The order, the hands, and a marker moved aside.
LEMMA OthersKeep ==
  ASSUME TypeOK, TypeOK', PathInv, CarryInv,
         \/ StepAside \/ OrderNext \/ Kill("order") \/ (\E s \in States : OrderBegin(s))
         \/ GateFlips \/ HandsOnSite \/ WriterUpdated \/ (\E c \in Clients : HandsOnClient(c))
         \/ UNCHANGED vars
  PROVE  PathInv' /\ CarryInv'
<1>0. "step" \in Actors /\ "order" \in Actors /\ run \in [Actors -> Run] /\ file \in [Clients -> FileStates]
  BY DEF Actors, TypeOK
<1>1. ASSUME NEW q, To("order", q) PROVE run'["step"] = run["step"]
  BY <1>0, <1>1 DEF To
<1>2. ASSUME run'["step"] = run["step"], touched \subseteq touched',
             \A c \in governed' \ touched' :
               /\ c \in governed /\ file'[c] = file[c] /\ site' = site
               /\ c \notin env \union proc => c \notin env' \union proc',
             old' \ touched' \subseteq old
      PROVE  PathInv' /\ CarryInv'
  BY <1>2, OthersKeepCarry DEF PathInv
<1>3. CASE LeverWrite("order")
  <2>1. \E q : To("order", q)
    BY <1>3, Zenon DEF LeverWrite
  <2>2. env' \subseteq env /\ UNCHANGED <<site, file, governed, touched, proc, old>>
    BY <1>3 DEF LeverWrite, switches, ghosts
  <2> QED BY <1>1, <1>2, <2>1, <2>2
<1>4. CASE LeverRestart("order") \/ RestartStale("order")
  <2>1. \E q : To("order", q)
    BY <1>4, Zenon DEF LeverRestart, RestartStale
  <2>2. UNCHANGED <<proc, old>> \/ \E C : Restarted(C)
    BY <1>4, Zenon DEF LeverRestart, RestartStale
  <2>3. UNCHANGED <<site, file, governed, touched, env>>
    BY <1>4 DEF LeverRestart, RestartStale, switches, ghosts
  <2>4. proc' \subseteq proc \union env /\ old' \subseteq old
    BY <2>2 DEF Restarted
  <2> QED BY <1>1, <1>2, <2>1, <2>3, <2>4
<1>5. CASE LeverVerify("order") \/ OrderRead \/ OrderPatch \/ Kill("order") \/ (\E s \in States : OrderBegin(s))
  <2>1. \E q : To("order", q)
    BY <1>5, Zenon DEF LeverVerify, OrderRead, OrderPatch, Kill, OrderBegin
  <2>2. UNCHANGED <<site, file, governed, touched, env, proc, old>>
    BY <1>5 DEF LeverVerify, OrderRead, OrderPatch, Kill, OrderBegin, switches, senders, ghosts
  <2> QED BY <1>1, <1>2, <2>1, <2>2
<1>6. CASE OrderSet
  <2>1. \E q : To("order", q)
    BY <1>6, Zenon DEF OrderSet
  <2>2. /\ UNCHANGED <<file, governed, env, proc, old>>
        /\ touched' = Clients \/ UNCHANGED <<touched, site>>
    BY <1>6 DEF OrderSet, senders, ghosts
  <2> QED BY <1>1, <1>2, <2>1, <2>2 DEF TypeOK
<1>7. CASE StepAside \/ GateFlips \/ UNCHANGED vars
  <2>1. UNCHANGED <<run, site, file, governed, touched, env, proc, old>>
    BY <1>7 DEF StepAside, GateFlips, vars, switches, senders, ghosts
  <2> QED BY <1>2, <2>1
<1>8. CASE HandsOnSite \/ WriterUpdated
  <2>1. UNCHANGED <<run, file, governed, env, proc>> /\ touched' = Clients
    BY <1>8 DEF HandsOnSite, WriterUpdated, switches, senders
  <2> QED BY <1>2, <2>1 DEF TypeOK
<1>9. ASSUME NEW d \in Clients, HandsOnClient(d) PROVE PathInv' /\ CarryInv'
  <2>1. UNCHANGED <<run, site, old>> /\ touched' = touched \union {d}
    BY <1>9 DEF HandsOnClient
  <2>2. \A c \in Clients \ {d} : /\ file'[c] = file[c] /\ (c \in governed' <=> c \in governed)
                                 /\ c \in env' \union proc' <=> c \in env \union proc
    BY <1>0, <1>9 DEF HandsOnClient
  <2>3. governed' \subseteq Clients
    BY DEF TypeOK
  <2> QED BY <1>2, <2>1, <2>2, <2>3
<1> QED BY <1>3, <1>4, <1>5, <1>6, <1>7, <1>8, <1>9 DEF OrderNext

\* Every step keeps the invariant of the carry-over.
LEMMA CarryInvInductive ==
  ASSUME TypeOK, TypeOK', PathInv, CarryInv, [Next]_vars
  PROVE  PathInv' /\ CarryInv'
<1>1. ASSUME NEW a \in Actors, Kill(a) PROVE PathInv' /\ CarryInv'
  BY <1>1, LeversKeepCarry, OthersKeep DEF Actors
<1> QED BY <1>1, WritesKeepCarry, ReadKeepsCarry, LeversKeepCarry, StandingKeepsCarry, OthersKeep
        DEF Next, StepNext, Hands

\* Every behaviour keeps it.
LEMMA CarryCorrect ==
  ASSUME Bounds
  PROVE  Spec => [](TypeOK /\ PathInv /\ CarryInv)
<1>1. Init => PathInv /\ CarryInv
  BY DEF Init, PathInv, CarryInv, Idle, Actors
<1>2. TypeOK /\ TypeOK' /\ PathInv /\ CarryInv /\ [Next]_vars => PathInv' /\ CarryInv'
  BY CarryInvInductive
<1> QED BY <1>1, <1>2, TypeCorrect, PTL DEF Spec

\* Only the end of a carry-over writes the marker.
LEMMA MarkerByMark ==
  ASSUME TypeOK, [Next]_vars, Written
  PROVE  StepMark
<1>1. CASE StepNext
  BY <1>1 DEF Written, StepNext, StepCarry, StepStanding, StepAside, StepMirror, StepLate, StepWriteSite,
       StepWrite, StepRead, LeverWrite, LeverRestart, LeverVerify, RestartStale
<1>2. CASE OrderNext \/ Hands \/ \E s \in States : OrderBegin(s)
  BY <1>2 DEF Written, OrderNext, OrderRead, OrderSet, OrderPatch, OrderBegin, Hands, Kill, GateFlips,
       HandsOnSite, HandsOnClient, WriterUpdated, LeverWrite, LeverRestart, LeverVerify, RestartStale
<1>3. CASE UNCHANGED vars
  BY <1>3 DEF Written, vars
<1> QED BY <1>1, <1>2, <1>3 DEF Next

\* At the marker, what a client reads is what was planned for it.
LEMMA MarkedReads ==
  ASSUME TypeOK, PathInv, CarryInv, StepMark, NEW c \in governed \ touched
  PROVE  /\ file[c] # "missing"
         /\ c \in Enabled /\ Effective(c) # "upload" => c \notin env \union proc
         /\ Effective(c) = "off" /\ ~run["step"].blind => old \intersect Enabled \subseteq touched
<1> DEFINE r == run["step"]
<1>1. r.pc = "mark" /\ r.kind = "carry" /\ r.site = "none" /\ r.writes = {}
  BY DEF StepMark, PathInv
<1>2. Knows(c) /\ Fresh
  BY <1>1 DEF CarryInv
<1>3. Target = site /\ site \in States /\ file[c] # "missing"
  BY <1>1, <1>2 DEF Knows, Target
<1>4. Effective(c) = Planned(Target, c)
  BY <1>3 DEF Effective, Planned, SiteLimit, States
<1> QED BY <1>1, <1>2, <1>3, <1>4 DEF Knows, Fresh, Reached

\* "The marker last": for any number of clients, and through every failure, kill
\* and order on the way, when the carry-over is marked done every governed client
\* nobody else changed has its switch file, and no enabled one that reads below
\* upload has an armed sender, on disk or in its process.
THEOREM MarkedIsQuiet ==
  ASSUME Bounds
  PROVE  Spec => MarkerMeansQuiet
<1>1. TypeOK /\ PathInv /\ CarryInv /\ [Next]_vars
        => [Written => \A c \in governed \ touched :
              /\ file[c] # "missing"
              /\ c \in Enabled /\ Effective(c) # "upload" => c \notin env \union proc]_vars
  BY MarkerByMark, MarkedReads
<1> QED BY <1>1, CarryCorrect, PTL DEF Spec, MarkerMeansQuiet

\* When the marker makes a client read off, no process of an enabled client runs a
\* writer that predates the switch, but for those changed meanwhile; unless the
\* time of the writer file could not be read in that very step.
THEOREM MarkedIsFresh ==
  ASSUME Bounds
  PROVE  Spec => MarkerMeansFresh
<1>1. TypeOK /\ PathInv /\ CarryInv /\ [Next]_vars
        => [/\ Written /\ ~run["step"].blind
            /\ \E c \in governed \ touched : Effective(c) = "off"
            => old \intersect Enabled \subseteq touched]_vars
  BY MarkerByMark, MarkedReads
<1> QED BY <1>1, CarryCorrect, PTL DEF Spec, MarkerMeansFresh
=============================================================================
