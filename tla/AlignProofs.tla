----------------------------- MODULE AlignProofs -----------------------------
(***************************************************************************)
(* Theorems about Align, for any plan, services, releases, and any number  *)
(* of failures, kills and changes by hand: what a run that ends well says  *)
(* of the station.                                                         *)
(***************************************************************************)
EXTENDS Align, TLAPS

\* The components of a plan, or of what is left of it.
Listed(todo) == {todo[i] : i \in 1 .. Len(todo)}

\* The item of a run is in work.
Working == {"pin", "install", "undo", "rebuild", "fresh"}

\* A run in work has its item; only radiod is built again.
ItemInv ==
  /\ run.pc \in Working => run.todo # <<>>
  /\ run.pc = "rebuild" => Item = Radiod

\* Where a run is, and what it knows of its item there.
PathInv ==
  /\ run.pc \in {"pin", "install", "undo"} => head[Item] = run.rel /\ run.from # None
  /\ run.pc = "fresh" => head[Item] = run.rel /\ Item # Radiod
  /\ run.pc \notin Working \union {"item"} => run.todo = <<>>
  /\ run.pc \in {"live", "record", "stale"} => ~run.bad

\* What is installed is what is checked out, but for the item in work and for
\* what a kill left between two commits.
InstInv ==
  \A c \in Components \ torn :
    inst[c] = IF run.pc \in {"pin", "install", "undo"} /\ c = Item THEN run.from
              ELSE IF run.pc = "fresh" /\ c = Item THEN None ELSE head[c]

\* While nothing has failed, what the plan has behind it is at the release.
HeadInv ==
  run.pc # "idle" /\ ~run.bad =>
    \A c \in Components \ Listed(run.todo) : head[c] # None /\ head[c] >= run.rel

\* A process whose component moved, and radiod's binary with it.
Marked(s) == s \in moved /\ (s = Radiod => built)

\* A process runs what lies there, or is marked.
CodeInv ==
  /\ \A s \in up : code[s] = Loaded(s) \/ Marked(s)
  /\ \A s \in up : \A c \in Uses[s] : head[c] # None
  /\ run.pc \in Working => \A s \in up : Item \in Uses[s] => run.pc # "fresh" /\ s \in moved

\* The restarts still to do cover whatever is stale.
RestartInv ==
  /\ Radiod \notin run.restarts
  /\ run.pc = "radiod" => /\ Stale \subseteq run.restarts \union {Radiod}
                          /\ up \intersect Consumers \subseteq run.restarts
  /\ run.pc = "restart" => Stale \subseteq run.restarts
  /\ run.pc = "owed" => run.bad
  /\ run.pc = "check" /\ ~run.bad => Stale = {}

\* The live block remembers every service reported down.
Remembers(live) == reported # {} => ~LivePassed(live) /\ reported \subseteq live.restarted \union live.failed

\* What is reported stays down, and is remembered by aligned.json and by the run
\* that is to rewrite it.
DownInv ==
  /\ reported \intersect up = {} /\ reported \intersect run.restarted = {}
  /\ Remembers(aligned.live)
  /\ run.pc \in {"live", "record"} => run.prior = aligned.live
  /\ run.pc \in {"stale", "radiod", "restart", "owed"} => Remembers(run.prior)
  /\ run.pc = "check" => reported \subseteq run.failed

(***************************************************************************)
(* Types                                                                   *)
(***************************************************************************)

\* A plan is its first item and the rest.
LEMMA PlanSplits ==
  ASSUME NEW S, NEW todo \in Seq(S), todo # <<>>
  PROVE  /\ Head(todo) \in S /\ Tail(todo) \in Seq(S)
         /\ Listed(todo) = {Head(todo)} \union Listed(Tail(todo))
<1>1. Len(todo) \in Nat \ {0} /\ Head(todo) = todo[1] /\ Head(todo) \in S /\ Tail(todo) \in Seq(S)
  OBVIOUS
<1>2. Len(Tail(todo)) = Len(todo) - 1 /\ \A i \in 1 .. Len(todo) - 1 : Tail(todo)[i] = todo[i + 1]
  BY <1>1
<1>3. ASSUME NEW x \in Listed(todo) PROVE x \in {Head(todo)} \union Listed(Tail(todo))
  <2>1. PICK i \in 1 .. Len(todo) : x = todo[i]
    BY DEF Listed
  <2>2. CASE i = 1
    BY <1>1, <2>1, <2>2
  <2>3. CASE i # 1
    <3>1. i - 1 \in 1 .. Len(Tail(todo)) /\ Tail(todo)[i - 1] = todo[i]
      BY <1>1, <1>2, <2>3
    <3> QED BY <2>1, <3>1 DEF Listed
  <2> QED BY <2>2, <2>3
<1>4. ASSUME NEW x \in Listed(Tail(todo)) PROVE x \in Listed(todo)
  <2>1. PICK i \in 1 .. Len(todo) - 1 : x = Tail(todo)[i]
    BY <1>2 DEF Listed
  <2>2. i + 1 \in 1 .. Len(todo) /\ x = todo[i + 1]
    BY <1>1, <1>2, <2>1
  <2> QED BY <2>2 DEF Listed
<1>5. Head(todo) \in Listed(todo)
  BY <1>1 DEF Listed
<1> QED BY <1>1, <1>3, <1>4, <1>5

\* A run at its item works on a component.
LEMMA ItemTyped ==
  ASSUME TypeOK, run.todo # <<>>
  PROVE  Item \in Components /\ Tail(run.todo) \in Seq(Components)
<1>1. run.todo \in Seq(Components)
  BY DEF TypeOK, Run
<1> QED BY <1>1, PlanSplits DEF Item

\* No run is a run.
LEMMA IdleTyped ==
  Idle \in Run /\ NoLive \in Live
<1>1. NoLive \in Live
  BY DEF NoLive, Live
<1>2. 0 \in Commits /\ None \in Known /\ <<>> \in Seq(Components)
  BY AlignAssumption DEF Commits, Known, None
<1> QED BY <1>1, <1>2 DEF Idle, Run

\* The ways a run goes on.
LEMMA GoesOnTyped ==
  ASSUME TypeOK, \/ run.todo # <<>> /\ \E changed, bad \in BOOLEAN : GoOn(changed, bad)
                 \/ Stop \/ \E how : Ends(how)
  PROVE  run' \in Run /\ run'.pc \in {"item", "idle"}
<1>0. run \in Run
  BY DEF TypeOK
<1>1. CASE run.todo # <<>> /\ \E changed, bad \in BOOLEAN : GoOn(changed, bad)
  <2>1. Tail(run.todo) \in Seq(Components)
    BY <1>1, ItemTyped
  <2>2. PICK changed \in BOOLEAN, bad \in BOOLEAN : GoOn(changed, bad)
    BY <1>1
  <2> QED BY <1>0, <2>1, <2>2 DEF GoOn, Run
<1>2. CASE Stop
  <2>1. <<>> \in Seq(Components)
    OBVIOUS
  <2> QED BY <1>0, <1>2, <2>1 DEF Stop, Run
<1>3. CASE \E how : Ends(how)
  BY <1>3, IdleTyped DEF Ends, Idle
<1> QED BY <1>1, <1>2, <1>3

\* A fault stays within its bound.
LEMMA FaultTyped ==
  ASSUME TypeOK
  PROVE  \A kind : Fault(kind) \/ NoFault => faults' \in 0 .. MaxFaults
  BY AlignAssumption DEF TypeOK, Fault, NoFault

\* The items of a run keep the types.
LEMMA ItemsTyped ==
  ASSUME TypeOK, ItemInv,
         \/ ItemCurrent \/ ItemRefused \/ ItemLeft \/ ItemCheckout \/ ItemPin \/ ItemInstall
         \/ ItemUndo \/ ItemRebuild \/ ItemClone \/ ItemFresh
  PROVE  TypeOK' /\ ItemInv'
<1>0. /\ run \in Run /\ run.rel \in Known /\ run.from \in Known /\ run.was \in Known /\ None \in Known
      /\ head \in [Components -> Known] /\ pin \in [Components -> Known] /\ inst \in [Components -> Known]
      /\ torn \subseteq Components
  BY DEF TypeOK, Run, Known
<1>1. run.todo # <<>> /\ Item \in Components
  <2>1. run.todo # <<>>
    BY DEF ItemInv, Working, AtItem, At, ItemCurrent, ItemRefused, ItemLeft, ItemCheckout, ItemPin, ItemInstall,
         ItemUndo, ItemRebuild, ItemClone, ItemFresh
  <2> QED BY <2>1, ItemTyped
<1>2. faults' \in 0 .. MaxFaults
  BY FaultTyped DEF ItemCurrent, ItemRefused, ItemLeft, ItemCheckout, ItemPin, ItemInstall,
       ItemUndo, ItemRebuild, ItemClone, ItemFresh
<1>3. UNCHANGED <<aligned, exit, hands, reported, up, code, behind>>
  BY DEF ItemCurrent, ItemRefused, ItemLeft, ItemCheckout, ItemPin, ItemInstall,
       ItemUndo, ItemRebuild, ItemClone, ItemFresh, Quiet, procs
<1>4. moved' \subseteq Services /\ built' \in BOOLEAN
  <2>1. moved' = moved \/ \E c : Moves(c)
    BY DEF ItemCurrent, ItemRefused, ItemLeft, ItemCheckout, ItemPin, ItemInstall,
         ItemUndo, ItemRebuild, ItemClone, ItemFresh, procs
  <2>2. built' = built \/ ItemInstall \/ ItemRebuild
    BY DEF ItemCurrent, ItemRefused, ItemLeft, ItemCheckout, ItemPin,
         ItemUndo, ItemClone, ItemFresh, procs
  <2>3. CASE ItemInstall
    <3>1. \E b : built' = (built \/ b)
      BY <2>3, Zenon DEF ItemInstall
    <3>2. built' \in BOOLEAN
      BY <3>1, Zenon
    <3> QED BY <2>1, <3>2 DEF TypeOK, Moves
  <2>4. CASE ItemRebuild
    <3>1. built' = (Radiod \in up) \/ built' = built
      BY <2>4, Zenon DEF ItemRebuild
    <3>2. (Radiod \in up) \in BOOLEAN /\ built \in BOOLEAN
      BY DEF TypeOK
    <3>3. built' \in BOOLEAN
      BY <3>1, <3>2, Zenon
    <3> QED BY <2>1, <3>3 DEF TypeOK, Moves
  <2> QED BY <2>1, <2>2, <2>3, <2>4 DEF TypeOK, Moves
<1>5. head' \in [Components -> Known] /\ pin' \in [Components -> Known] /\ inst' \in [Components -> Known]
      /\ torn' \subseteq Components
  <2>1. CASE ItemRebuild
    <3>1. Item = Radiod
      BY <2>1 DEF ItemInv, ItemRebuild, At
    <3> QED BY <1>0, <1>1, <2>1, <3>1 DEF ItemRebuild
  <2>2. CASE ItemInstall
    <3>1. inst[Item] \in Known
      BY <1>0, <1>1
    <3> QED BY <1>0, <1>1, <2>2, <3>1 DEF ItemInstall
  <2> QED BY <1>0, <1>1, <2>1, <2>2 DEF ItemCurrent, ItemRefused, ItemLeft, ItemCheckout, ItemPin,
            ItemUndo, ItemClone, ItemFresh, station
<1>6. run' \in Run /\ ItemInv'
  <2>1. ASSUME NEW pc \in Working, pc = "rebuild" => Item = Radiod, run' = [run EXCEPT !.pc = pc]
        PROVE  run' \in Run /\ ItemInv'
    BY <1>0, <1>1, <2>1 DEF Run, Working, ItemInv, Item
  <2>2. ASSUME \/ \E changed, bad \in BOOLEAN : GoOn(changed, bad)
               \/ Stop \/ \E how : Ends(how)
        PROVE  run' \in Run /\ ItemInv'
    BY <1>1, <2>2, GoesOnTyped DEF ItemInv, Working
  <2>3. CASE ItemCheckout
    <3>1. CASE run' = [run EXCEPT !.pc = "pin", !.from = head[Item], !.was = pin[Item]]
      <4>1. head[Item] \in Known /\ pin[Item] \in Known
        BY <1>0, <1>1
      <4> QED BY <1>0, <1>1, <3>1, <4>1 DEF Run, Working, ItemInv, Item
    <3> QED BY <2>2, <2>3, <3>1 DEF ItemCheckout
  <2>4. CASE ItemInstall
    <3>1. ASSUME Moved(Item) PROVE run' \in Run /\ ItemInv'
      <4>1. CASE run' = [Idle EXCEPT !.pc = "item", !.rel = run.rel, !.back = run.back, !.quiet = run.quiet,
                           !.todo = Plan]
        <5>1. run.rel \in Commits /\ run.back \in BOOLEAN /\ run.quiet \in BOOLEAN /\ Plan \in Seq(Components)
          BY <1>0, AlignAssumption DEF Run
        <5>2. [Idle EXCEPT !.pc = "item", !.rel = run.rel, !.back = run.back, !.quiet = run.quiet,
                           !.todo = Plan] \in Run
          BY <5>1, IdleTyped DEF Run
        <5>3. run'.pc = "item"
          BY <4>1, IdleTyped DEF Run
        <5> QED BY <4>1, <5>2, <5>3 DEF ItemInv, Working
      <4> QED BY <2>2, <3>1, <4>1 DEF Moved
    <3> QED BY <2>1, <2>4, <3>1 DEF ItemInstall, Working
  <2>5. CASE ItemCurrent
    <3>1. \E changed, bad \in BOOLEAN : GoOn(changed, bad) \/ Stop
      BY <2>5 DEF ItemCurrent
    <3> QED BY <2>2, <3>1
  <2> QED BY <2>1, <2>2, <2>3, <2>4, <2>5 DEF ItemRefused, ItemLeft, ItemPin, ItemUndo, ItemRebuild,
            ItemClone, ItemFresh, Working
<1> QED BY <1>2, <1>3, <1>4, <1>5, <1>6 DEF TypeOK

\* What a process runs is typed.
LEMMA LoadedTyped ==
  ASSUME TypeOK, NEW s \in Services
  PROVE  Loaded(s) \in UNION {[C -> Known] : C \in SUBSET Components}
<1>1. Uses[s] \in SUBSET Components
  BY AlignAssumption
<1>2. Loaded(s) \in [Uses[s] -> Known]
  BY <1>1 DEF TypeOK, Loaded
<1> QED BY <1>1, <1>2

\* A service that starts or falls keeps the types of the processes.
LEMMA ProcsTyped ==
  ASSUME TypeOK, NEW s \in Services, Starts(s) \/ Falls(s)
  PROVE  /\ up' \subseteq Services /\ moved' \subseteq Services /\ built' \in BOOLEAN /\ behind' \subseteq Consumers
         /\ code' \in [Services -> UNION {[C -> Known] : C \in SUBSET Components}]
<1>1. built' \in BOOLEAN
  BY Zenon DEF Starts, Falls
<1>2. up' \subseteq Services /\ moved' \subseteq Services /\ behind' \subseteq Consumers
  BY DEF TypeOK, Starts, Falls
<1>3. code' \in [Services -> UNION {[C -> Known] : C \in SUBSET Components}]
  <2> DEFINE Codes == UNION {[C -> Known] : C \in SUBSET Components}
  <2>1. Loaded(s) \in Codes
    BY LoadedTyped
  <2>2. code \in [Services -> Codes]
    BY DEF TypeOK
  <2>3. code' = [code EXCEPT ![s] = Loaded(s)] \/ code' = code
    BY DEF Starts, Falls
  <2> HIDE DEF Codes
  <2>4. code' \in [Services -> Codes]
    BY <2>1, <2>2, <2>3
  <2> QED BY <2>4 DEF Codes
<1> QED BY <1>1, <1>2, <1>3

\* The restart stage keeps the types.
LEMMA RestartsTyped ==
  ASSUME TypeOK, RestartRadiod \/ \E s \in Services : RestartOne(s)
  PROVE  TypeOK' /\ ItemInv'
<1>0. run \in Run
  BY DEF TypeOK
<1>1. faults' \in 0 .. MaxFaults
  BY FaultTyped DEF RestartRadiod, RestartOne
<1>2. (\E s \in Services : Starts(s) \/ Falls(s)) \/ UNCHANGED procs
  BY DEF RestartRadiod, RestartOne, TypeOK
<1>3. /\ up' \subseteq Services /\ moved' \subseteq Services /\ built' \in BOOLEAN /\ behind' \subseteq Consumers
      /\ code' \in [Services -> UNION {[C -> Known] : C \in SUBSET Components}]
  BY <1>2, ProcsTyped DEF TypeOK, procs
<1>4. run' \in Run /\ run'.pc \in {"restart", "owed"}
  <2>1. CASE RestartRadiod
    <3>1. CASE Radiod \in up
      <4>1. Radiod \in Services
        BY <3>1 DEF TypeOK
      <4>2. CASE run' = [run EXCEPT !.pc = "restart", !.restarted = @ \union {Radiod}, !.watch = {Radiod}]
        BY <1>0, <4>1, <4>2 DEF Run
      <4>3. CASE run' = [run EXCEPT !.pc = "owed", !.restarts = {}, !.failed = @ \union {Radiod}, !.bad = TRUE,
                                 !.watch = IF Radiod \in up' THEN {Radiod} ELSE {}]
        BY <1>0, <4>1, <4>3 DEF Run
      <4> QED BY <2>1, <3>1, <4>2, <4>3 DEF RestartRadiod
    <3>2. CASE Radiod \notin up
      BY <1>0, <2>1, <3>2 DEF RestartRadiod, Run
    <3> QED BY <3>1, <3>2
  <2>2. ASSUME NEW t \in Services, RestartOne(t) PROVE run' \in Run /\ run'.pc = "restart"
    <3>0. run.pc = "restart"
      BY <2>2 DEF RestartOne, At
    <3>1. CASE run' = [run EXCEPT !.restarts = @ \ {t}, !.restarted = @ \union {t}, !.watch = @ \union {t}]
      BY <1>0, <3>0, <3>1 DEF Run
    <3>2. CASE run' = [run EXCEPT !.restarts = @ \ {t}, !.failed = @ \union {t}, !.bad = TRUE]
      BY <1>0, <3>0, <3>2 DEF Run
    <3>3. CASE run' = [run EXCEPT !.restarts = @ \ {t}]
      BY <1>0, <3>0, <3>3 DEF Run
    <3> QED BY <2>2, <3>1, <3>2, <3>3 DEF RestartOne
  <2> QED BY <2>1, <2>2
<1>5. UNCHANGED <<station, aligned, exit, hands, torn>> /\ reported' \subseteq reported
  BY DEF RestartRadiod, RestartOne
<1> QED BY <1>1, <1>3, <1>4, <1>5 DEF TypeOK, ItemInv, Working, station

\* The end of the restart stage keeps the types.
LEMMA FinishTyped ==
  ASSUME TypeOK, Owed \/ Check
  PROVE  TypeOK' /\ ItemInv'
<1>0. run \in Run /\ run.prior \in Live /\ aligned \in [rel: Known, live: Live]
  BY DEF TypeOK, Run
<1>1. faults' \in 0 .. MaxFaults
  <2>1. UNCHANGED faults => faults' \in 0 .. MaxFaults
    BY DEF TypeOK
  <2> QED BY <2>1, FaultTyped DEF Owed, Check
<1>2. /\ run.restarted \subseteq Services /\ run.failed \subseteq Services /\ run.watch \subseteq Services
      /\ StillDown \subseteq Services /\ Recheck \subseteq Services
  BY <1>0 DEF Run, Live, StillDown, Recheck, TypeOK
<1>3. ASSUME NEW failed \in SUBSET Services, NEW ok \in BOOLEAN, NEW bad, Finishes(failed, ok, bad)
      PROVE  /\ run' \in Run /\ ItemInv' /\ aligned' \in [rel: Known, live: Live]
             /\ reported' \subseteq Services /\ exit' \in {"none", "ok", "bad", "quiet", "killed"}
  <2>1. [restarted |-> run.restarted, failed |-> failed, ok |-> ok, complete |-> TRUE] \in Live
    BY <1>2 DEF Live
  <2>2. aligned' \in [rel: Known, live: Live]
    BY <1>0, <1>3, <2>1 DEF Finishes
  <2>3. reported' \subseteq Services
    BY <1>3 DEF Finishes, TypeOK
  <2>4. run' \in Run /\ ItemInv'
    BY <1>3, GoesOnTyped DEF Finishes, ItemInv, Working
  <2>5. exit' \in {"ok", "bad"}
    BY <1>3 DEF Finishes, Ends
  <2> QED BY <2>2, <2>3, <2>4, <2>5
<1>4. /\ run' \in Run /\ ItemInv' /\ aligned' \in [rel: Known, live: Live]
      /\ reported' \subseteq Services /\ exit' \in {"none", "ok", "bad", "quiet", "killed"}
  <2>1. CASE Owed
    <3> DEFINE failed == run.failed \union StillDown
               watch == run.watch \union Recheck
    <3>1. failed \in SUBSET Services /\ watch \in SUBSET Services
      BY <1>2
    <3>2. CASE watch = {}
      <4>1. Finishes(failed, TRUE, run.bad)
        BY <2>1, <3>2 DEF Owed
      <4> QED BY <1>3, <3>1, <4>1
    <3>3. CASE watch # {}
      <4>1. [restarted |-> run.restarted, failed |-> failed, ok |-> TRUE, complete |-> FALSE] \in Live
        BY <1>2, <3>1 DEF Live
      <4>2. /\ aligned' = [aligned EXCEPT !.live = [restarted |-> run.restarted, failed |-> failed,
                                                     ok |-> TRUE, complete |-> FALSE]]
            /\ run' = [run EXCEPT !.pc = "check", !.failed = failed, !.watch = watch]
            /\ UNCHANGED <<exit, reported>>
        BY <2>1, <3>3 DEF Owed
      <4> HIDE DEF failed, watch
      <4>3. run' \in Run /\ run'.pc = "check"
        BY <1>0, <3>1, <4>2 DEF Run
      <4>4. aligned' \in [rel: Known, live: Live]
        BY <1>0, <4>1, <4>2
      <4> QED BY <4>2, <4>3, <4>4 DEF TypeOK, ItemInv, Working
    <3> QED BY <3>2, <3>3
  <2>2. CASE Check
    <3>1. PICK ok \in BOOLEAN : Finishes(run.failed, ok, run.bad)
      BY <2>2 DEF Check
    <3> QED BY <1>2, <1>3, <3>1
  <2> QED BY <2>1, <2>2
<1>5. UNCHANGED <<station, procs, hands, torn>>
  BY DEF Owed, Check
<1> QED BY <1>1, <1>4, <1>5 DEF TypeOK, station, procs

\* Every reachable state is well typed, and a run in work has its item.
THEOREM TypeCorrect == Spec => [](TypeOK /\ ItemInv)
<1>1. Init => TypeOK /\ ItemInv
  <2> SUFFICES ASSUME Init PROVE TypeOK /\ ItemInv
    OBVIOUS
  <2>1. 0 \in Commits /\ LastCommit \in Commits /\ {0, LastCommit, None} \subseteq Known
    BY AlignAssumption DEF Commits, Known
  <2>2. head \in [Components -> Known]
    BY <2>1 DEF Init
  <2>3. pin \in [Components -> Known] /\ inst \in [Components -> Known]
    BY <2>1, <2>2 DEF Init
  <2>4. code \in [Services -> UNION {[C -> Known] : C \in SUBSET Components}]
    <3> DEFINE Codes == UNION {[C -> Known] : C \in SUBSET Components}
    <3>1. ASSUME NEW s \in Services PROVE Loaded(s) \in Codes
      <4>1. Uses[s] \in SUBSET Components
        BY AlignAssumption
      <4>2. Loaded(s) \in [Uses[s] -> Known]
        BY <2>2, <2>3, <4>1 DEF Loaded
      <4> QED BY <4>1, <4>2
    <3>2. code = [s \in Services |-> Loaded(s)]
      BY DEF Init
    <3> HIDE DEF Codes
    <3>3. code \in [Services -> Codes]
      BY <3>1, <3>2
    <3> QED BY <3>3 DEF Codes
  <2>5. aligned \in [rel: Known, live: Live] /\ run \in Run /\ run.pc = "idle"
    BY <2>1, IdleTyped DEF Init, Idle
  <2>6. faults \in 0 .. MaxFaults /\ hands \in 0 .. MaxHands
    BY AlignAssumption DEF Init
  <2>7. /\ up \subseteq Services /\ moved \subseteq Services /\ built \in BOOLEAN /\ behind \subseteq Consumers
        /\ exit = "none" /\ torn \subseteq Components /\ reported \subseteq Services
    BY DEF Init
  <2> QED BY <2>2, <2>3, <2>4, <2>5, <2>6, <2>7 DEF TypeOK, ItemInv, Working
<1>2. ASSUME TypeOK, NEW r \in Releases, NEW back \in BOOLEAN, NEW quiet \in BOOLEAN, Begin(r, back, quiet)
      PROVE  TypeOK' /\ ItemInv'
  <2>1. r \in Commits /\ Plan \in Seq(Components)
    BY AlignAssumption
  <2>2. run' \in Run /\ run'.pc = "item"
    BY <1>2, <2>1, IdleTyped DEF Begin, Run
  <2>3. UNCHANGED <<station, procs, aligned, faults, hands, ghosts>> /\ exit' = "none"
    BY <1>2 DEF Begin
  <2> QED BY <1>2, <2>2, <2>3 DEF TypeOK, ItemInv, Working, station, procs, ghosts
<1>3. ASSUME TypeOK, ItemsDone \/ BringUp PROVE TypeOK' /\ ItemInv'
  <2>0. run \in Run /\ aligned.live \in Live
    BY <1>3 DEF TypeOK
  <2>1. run' \in Run /\ run'.pc \notin Working
    <3>1. CASE \E how : Ends(how)
      BY <1>3, <3>1, GoesOnTyped DEF Working
    <3>2. CASE run' = [run EXCEPT !.pc = "live", !.prior = aligned.live]
      BY <2>0, <3>2 DEF Run, Working
    <3>3. CASE run' = [run EXCEPT !.pc = "record"]
      BY <2>0, <3>3 DEF Run, Working
    <3> QED BY <1>3, <3>1, <3>2, <3>3 DEF ItemsDone, BringUp
  <2>2. faults' \in 0 .. MaxFaults
    <3>1. UNCHANGED faults => faults' \in 0 .. MaxFaults
      BY <1>3 DEF TypeOK
    <3> QED BY <1>3, <3>1, FaultTyped DEF ItemsDone, BringUp
  <2>3. exit' \in {exit, "ok", "bad"}
    BY <1>3 DEF ItemsDone, BringUp, Ends
  <2>4. UNCHANGED <<station, procs, aligned, hands, ghosts>>
    BY <1>3 DEF ItemsDone, BringUp
  <2> QED BY <1>3, <2>1, <2>2, <2>3, <2>4 DEF TypeOK, ItemInv, Working, station, procs, ghosts
<1>4. ASSUME TypeOK, Record \/ PlanRestarts PROVE TypeOK' /\ ItemInv'
  <2>0. run \in Run /\ aligned \in [rel: Known, live: Live]
    BY <1>4 DEF TypeOK
  <2>1. run' \in Run /\ run'.pc \notin Working
    <3>1. CASE \E how : Ends(how)
      BY <1>4, <3>1, GoesOnTyped DEF Working
    <3>2. CASE run' = [run EXCEPT !.pc = "stale"]
      BY <2>0, <3>2 DEF Run, Working
    <3>3. ASSUME NEW restarts \in SUBSET Services, NEW pc \in {"radiod", "restart"},
                 run' = [run EXCEPT !.pc = pc, !.restarts = restarts]
          PROVE  run' \in Run /\ run'.pc \notin Working
      BY <2>0, <3>3 DEF Run, Working
    <3>4. CASE Record
      BY <3>1, <3>2, <3>4 DEF Record
    <3>5. CASE PlanRestarts
      <4> DEFINE restarts == (Stale \union (IF Radiod \in Stale THEN up \intersect Consumers ELSE {})) \ {Radiod}
                 pc == IF Radiod \in Stale THEN "radiod" ELSE "restart"
      <4>1. restarts \in SUBSET Services
        BY <1>4 DEF Stale, TypeOK
      <4>2. pc \in {"radiod", "restart"}
        OBVIOUS
      <4>3. (\E how : Ends(how)) \/ run' = [run EXCEPT !.pc = pc, !.restarts = restarts]
        BY <3>5 DEF PlanRestarts
      <4> QED BY <3>1, <3>3, <4>1, <4>2, <4>3
    <3> QED BY <1>4, <3>4, <3>5
  <2>2. faults' \in 0 .. MaxFaults
    <3>1. UNCHANGED faults => faults' \in 0 .. MaxFaults
      BY <1>4 DEF TypeOK
    <3> QED BY <1>4, <3>1, FaultTyped DEF Record, PlanRestarts, NoFault
  <2>3. exit' \in {exit, "quiet", "bad", "killed"}
    BY <1>4 DEF Record, PlanRestarts, Ends
  <2>4. UNCHANGED <<station, procs, hands, torn>>
    BY <1>4 DEF Record, PlanRestarts, ghosts
  <2>5. aligned' \in [rel: Known, live: Live] /\ reported' \subseteq Services
    <3>1. run.rel \in Known /\ None \in Known /\ NoLive \in Live
      BY <2>0, IdleTyped DEF Run, Known
    <3>2. CASE Record
      BY <1>4, <2>0, <3>1, <3>2 DEF Record, TypeOK
    <3>3. CASE PlanRestarts
      BY <1>4, <3>3 DEF PlanRestarts, TypeOK, ghosts
    <3> QED BY <1>4, <3>2, <3>3
  <2> QED BY <1>4, <2>1, <2>2, <2>3, <2>4, <2>5 DEF TypeOK, ItemInv, Working, station, procs
<1>5. ASSUME TypeOK, ItemInv, Kill PROVE TypeOK' /\ ItemInv'
  <2>1. run.pc \in Working => Item \in Components
    BY <1>5, ItemTyped DEF ItemInv
  <2>2. torn' \subseteq Components
    BY <1>5, <2>1 DEF Kill, Working, TypeOK
  <2>3. run' \in Run /\ ItemInv' /\ faults' \in 0 .. MaxFaults /\ exit' = "killed"
    BY <1>5, GoesOnTyped, FaultTyped DEF Kill, ItemInv, Working, Ends
  <2> QED BY <1>5, <2>2, <2>3 DEF Kill, TypeOK, station, procs
<1>6. ASSUME TypeOK, ItemInv, NEW s \in Services, Crash(s) \/ Restart(s) PROVE TypeOK' /\ ItemInv'
  <2>1. hands' \in 0 .. MaxHands
    BY <1>6, AlignAssumption DEF Crash, Restart, Hand, TypeOK
  <2>2. /\ up' \subseteq Services /\ moved' \subseteq Services /\ built' \in BOOLEAN /\ behind' \subseteq Consumers
        /\ code' \in [Services -> UNION {[C -> Known] : C \in SUBSET Components}]
    BY <1>6, ProcsTyped DEF Crash, Restart
  <2>3. UNCHANGED <<station, aligned, run, exit, faults, torn>> /\ reported' \subseteq reported
    BY <1>6 DEF Crash, Restart, ghosts
  <2> QED BY <1>6, <2>1, <2>2, <2>3 DEF TypeOK, ItemInv, Item, station
<1>7. TypeOK /\ ItemInv /\ UNCHANGED vars => TypeOK' /\ ItemInv'
  BY DEF TypeOK, ItemInv, Item, vars, station, procs, ghosts
<1>8. TypeOK /\ ItemInv /\ [Next]_vars => TypeOK' /\ ItemInv'
  BY <1>2, <1>3, <1>4, <1>5, <1>6, <1>7, ItemsTyped, RestartsTyped, FinishTyped DEF Next
<1> QED BY <1>1, <1>8, PTL DEF Spec

(***************************************************************************)
(* A service reported down stays loud.  The live block of aligned.json     *)
(* names it, and does not pass, until somebody starts it: a rewrite for    *)
(* the same release keeps the block, and the restart stage takes over what *)
(* the block it replaces had failed or restarted and is down.              *)
(***************************************************************************)

\* What an item leaves of a run's restarts.
LEMMA ItemsKeepRestarts ==
  ASSUME TypeOK,
         \/ ItemCurrent \/ ItemRefused \/ ItemLeft \/ ItemCheckout \/ ItemPin \/ ItemInstall
         \/ ItemUndo \/ ItemRebuild \/ ItemClone \/ ItemFresh
  PROVE  /\ run'.pc \in Working \union {"item"}
         /\ run'.restarted \in {run.restarted, {}} /\ run'.restarts \in {run.restarts, {}}
         /\ UNCHANGED <<aligned, exit, hands, reported, up, code, behind>>
<1>0. run \in Run
  BY DEF TypeOK
<1>1. UNCHANGED <<aligned, exit, hands, reported, up, code, behind>>
  BY DEF ItemCurrent, ItemRefused, ItemLeft, ItemCheckout, ItemPin, ItemInstall,
       ItemUndo, ItemRebuild, ItemClone, ItemFresh, Quiet, procs
<1> DEFINE Keeps == /\ run'.pc \in Working \union {"item"}
                    /\ run'.restarted \in {run.restarted, {}} /\ run'.restarts \in {run.restarts, {}}
<1>2. ASSUME NEW pc \in Working, run' = [run EXCEPT !.pc = pc] PROVE Keeps
  BY <1>0, <1>2 DEF Run
<1>3. ASSUME Stop \/ \E changed, bad : GoOn(changed, bad) PROVE Keeps
  BY <1>0, <1>3 DEF Run, Stop, GoOn
<1>4. ASSUME NEW from, NEW was, run' = [run EXCEPT !.pc = "pin", !.from = from, !.was = was] PROVE Keeps
  BY <1>0, <1>4 DEF Run, Working
<1>5. ASSUME run' = [Idle EXCEPT !.pc = "item", !.rel = run.rel, !.back = run.back, !.quiet = run.quiet,
                           !.todo = Plan]
      PROVE  Keeps
  BY <1>5 DEF Idle
<1> HIDE DEF Keeps
<1>6. ASSUME ItemCheckout PROVE Keeps
  BY <1>3, <1>4, <1>6, Zenon DEF ItemCheckout
<1>7. ASSUME ItemInstall PROVE Keeps
  BY <1>2, <1>3, <1>5, <1>7 DEF ItemInstall, Moved, Working
<1>8. ASSUME ItemCurrent \/ ItemRefused \/ ItemLeft PROVE Keeps
  BY <1>3, <1>8, Zenon DEF ItemCurrent, ItemRefused, ItemLeft
<1>9. ASSUME ItemPin \/ ItemUndo \/ ItemRebuild \/ ItemClone \/ ItemFresh PROVE Keeps
  BY <1>2, <1>3, <1>9 DEF ItemPin, ItemUndo, ItemRebuild, ItemClone, ItemFresh, Working
<1>10. Keeps
  BY <1>6, <1>7, <1>8, <1>9
<1> QED BY <1>1, <1>10 DEF Keeps

\* Where nothing is at stake, the run only has to have restarted nothing reported.
LEMMA DownKept ==
  ASSUME DownInv, UNCHANGED <<reported, aligned>>, up' \subseteq up,
         run'.restarted \in {run.restarted, {}}, run'.pc \in Working \union {"item", "idle"}
  PROVE  DownInv'
<1>1. Remembers(aligned.live)'
  BY DEF DownInv, Remembers, LivePassed
<1> QED BY <1>1 DEF DownInv, Working

\* What a run that ends leaves.
LEMMA EndsKeeps ==
  ASSUME NEW how, Ends(how)
  PROVE  run'.pc = "idle" /\ run'.restarted = {} /\ run'.restarts = {} /\ exit' = how
  BY DEF Ends, Idle

\* The restart stage: what it starts is not reported any more.
LEMMA RestartsKeepDown ==
  ASSUME TypeOK, DownInv, RestartRadiod \/ \E s \in Services : RestartOne(s)
  PROVE  DownInv'
<1>0. run \in Run
  BY DEF TypeOK
<1>1. /\ run.pc \in {"radiod", "restart"} /\ UNCHANGED aligned /\ reported' = reported \ up'
      /\ Remembers(run.prior)
  BY DEF RestartRadiod, RestartOne, At, DownInv
<1>2. ASSUME run'.restarted \subseteq run.restarted \union up', run'.prior = run.prior,
             run'.pc \in {"restart", "owed"}
      PROVE  DownInv'
  <2>1. Remembers(aligned.live)' /\ Remembers(run.prior)'
    BY <1>1, <1>2 DEF DownInv, Remembers, LivePassed
  <2>2. reported' \intersect run'.restarted = {}
    BY <1>1, <1>2 DEF DownInv
  <2> QED BY <1>1, <1>2, <2>1, <2>2 DEF DownInv
<1>3. CASE RestartRadiod
  <2>1. CASE run' = [run EXCEPT !.pc = "restart", !.restarted = @ \union {Radiod}, !.watch = {Radiod}] /\ Starts(Radiod)
    <3>1. run'.restarted = run.restarted \union {Radiod} /\ run'.prior = run.prior /\ run'.pc = "restart"
      BY <1>0, <2>1 DEF Run
    <3> QED BY <1>2, <2>1, <3>1 DEF Starts
  <2>2. CASE run' = [run EXCEPT !.pc = "owed", !.restarts = {}, !.failed = @ \union {Radiod}, !.bad = TRUE,
                                 !.watch = IF Radiod \in up' THEN {Radiod} ELSE {}]
    <3>1. run'.restarted = run.restarted /\ run'.prior = run.prior /\ run'.pc = "owed"
      BY <1>0, <2>2 DEF Run
    <3> QED BY <1>2, <3>1
  <2>3. CASE run' = [run EXCEPT !.pc = "restart"]
    <3>1. run'.restarted = run.restarted /\ run'.prior = run.prior /\ run'.pc = "restart"
      BY <1>0, <2>3 DEF Run
    <3> QED BY <1>2, <3>1
  <2> QED BY <1>3, <2>1, <2>2, <2>3 DEF RestartRadiod
<1>4. ASSUME NEW s \in Services, RestartOne(s) PROVE DownInv'
  <2>0. run.pc = "restart"
    BY <1>4 DEF RestartOne, At
  <2>1. CASE run' = [run EXCEPT !.restarts = @ \ {s}, !.restarted = @ \union {s}, !.watch = @ \union {s}] /\ Starts(s)
    <3>1. run'.restarted = run.restarted \union {s} /\ run'.prior = run.prior /\ run'.pc = "restart"
      BY <1>0, <2>0, <2>1 DEF Run
    <3> QED BY <1>2, <2>1, <3>1 DEF Starts
  <2>2. CASE run' = [run EXCEPT !.restarts = @ \ {s}, !.failed = @ \union {s}, !.bad = TRUE]
    <3>1. run'.restarted = run.restarted /\ run'.prior = run.prior /\ run'.pc = "restart"
      BY <1>0, <2>0, <2>2 DEF Run
    <3> QED BY <1>2, <3>1
  <2>3. CASE run' = [run EXCEPT !.restarts = @ \ {s}]
    <3>1. run'.restarted = run.restarted /\ run'.prior = run.prior /\ run'.pc = "restart"
      BY <1>0, <2>0, <2>3 DEF Run
    <3> QED BY <1>2, <3>1
  <2> QED BY <1>4, <2>1, <2>2, <2>3 DEF RestartOne
<1> QED BY <1>3, <1>4

\* At its end the stage names whatever is reported as failed, and then no run ends
\* well.
LEMMA FinishKeepsDown ==
  ASSUME TypeOK, DownInv, Owed \/ Check
  PROVE  DownInv' /\ (exit' = "ok" /\ exit # "ok" => reported = {})
<1>0. run \in Run /\ aligned \in [rel: Known, live: Live]
  BY DEF TypeOK
<1>1. UNCHANGED up /\ run.pc \in {"restart", "owed", "check"} /\ reported \intersect up = {}
      /\ reported \intersect run.restarted = {}
  BY DEF Owed, Check, procs, At, DownInv
<1>2. ASSUME NEW failed, NEW ok, NEW bad, Finishes(failed, ok, bad), reported \subseteq failed
      PROVE  DownInv' /\ (exit' = "ok" => reported = {})
  <2>1. /\ reported' = reported \union (failed \ up) /\ aligned'.live.failed = failed
        /\ Ends(IF bad \/ ~ok \/ failed # {} THEN "bad" ELSE "ok")
    BY <1>0, <1>2 DEF Finishes
  <2>2. run'.pc = "idle" /\ run'.restarted = {} /\ exit' = IF bad \/ ~ok \/ failed # {} THEN "bad" ELSE "ok"
    BY <2>1, EndsKeeps
  <2>3. Remembers(aligned.live)'
    BY <1>2, <2>1 DEF Remembers, LivePassed
  <2>4. DownInv'
    BY <1>1, <2>1, <2>2, <2>3 DEF DownInv
  <2> QED BY <1>2, <2>2, <2>4
<1>3. CASE Owed
  <2> DEFINE failed == run.failed \union StillDown
             watch == run.watch \union Recheck
  <2>1. Remembers(run.prior) /\ run.pc \in {"restart", "owed"}
    BY <1>3 DEF DownInv, Owed, At
  <2>2. reported \subseteq failed
    BY <1>1, <2>1 DEF Remembers, StillDown
  <2>3. CASE watch = {}
    <3>1. Finishes(failed, TRUE, run.bad)
      BY <1>3, <2>3 DEF Owed
    <3> QED BY <1>2, <2>2, <3>1
  <2>4. CASE watch # {}
    <3>1. /\ aligned' = [aligned EXCEPT !.live = [restarted |-> run.restarted, failed |-> failed,
                                                     ok |-> TRUE, complete |-> FALSE]]
          /\ run' = [run EXCEPT !.pc = "check", !.failed = failed, !.watch = watch]
          /\ UNCHANGED <<exit, reported>>
      BY <1>3, <2>4 DEF Owed
    <3> HIDE DEF failed, watch
    <3>2. aligned'.live.failed = failed /\ aligned'.live.complete = FALSE
      BY <1>0, <3>1
    <3>3. run'.pc = "check" /\ run'.failed = failed /\ run'.restarted = run.restarted
      BY <1>0, <3>1 DEF Run
    <3>4. Remembers(aligned.live)'
      BY <2>2, <3>1, <3>2 DEF Remembers, LivePassed
    <3> QED BY <1>1, <2>2, <3>1, <3>3, <3>4 DEF DownInv
  <2> QED BY <2>3, <2>4
<1>4. CASE Check
  <2>1. PICK ok : Finishes(run.failed, ok, run.bad)
    BY <1>4 DEF Check
  <2>2. reported \subseteq run.failed
    BY <1>4 DEF Check, At, DownInv
  <2> QED BY <1>2, <2>1, <2>2
<1> QED BY <1>3, <1>4

\* Every step keeps what is remembered of the services that are down.
LEMMA DownInvInductive ==
  ASSUME TypeOK, ItemInv, DownInv, [Next]_vars
  PROVE  DownInv'
<1>0. run \in Run
  BY DEF TypeOK
<1>1. ASSUME NEW how, Ends(how), UNCHANGED <<reported, aligned, up>> PROVE DownInv'
  BY <1>1, EndsKeeps, DownKept
<1>2. ASSUME NEW r, NEW back, NEW quiet, Begin(r, back, quiet) PROVE DownInv'
  <2>1. run'.pc = "item" /\ run'.restarted = {}
    BY <1>2 DEF Begin, Idle
  <2> QED BY <1>2, <2>1, DownKept DEF Begin, procs, ghosts
<1>3. CASE ItemsDone
  <2>1. CASE run' = [run EXCEPT !.pc = "live", !.prior = aligned.live]
    <3>1. run'.pc = "live" /\ run'.prior = aligned.live /\ run'.restarted = run.restarted
      BY <1>0, <2>1 DEF Run
    <3>2. Remembers(aligned.live)' /\ UNCHANGED <<aligned, reported, up>>
      BY <1>3 DEF ItemsDone, ghosts, procs, DownInv, Remembers, LivePassed
    <3> QED BY <3>1, <3>2 DEF DownInv
  <2> QED BY <1>1, <1>3, <2>1 DEF ItemsDone, ghosts, procs
<1>4. CASE BringUp
  <2>1. CASE run' = [run EXCEPT !.pc = "record"] /\ run.pc = "live"
    <3>1. run'.pc = "record" /\ run'.prior = run.prior /\ run'.restarted = run.restarted
      BY <1>0, <2>1 DEF Run
    <3>2. Remembers(aligned.live)' /\ UNCHANGED <<aligned, reported, up>>
      BY <1>4 DEF BringUp, ghosts, procs, DownInv, Remembers, LivePassed
    <3> QED BY <2>1, <3>1, <3>2 DEF DownInv
  <2> QED BY <1>1, <1>4, <2>1 DEF BringUp, ghosts, procs, At
<1>5. CASE Record
  <2>1. \/ Ends("killed") /\ reported' = {}
        \/ /\ aligned' = [rel |-> run.rel, live |-> IF aligned.rel = run.rel THEN aligned.live ELSE NoLive]
           /\ reported' = IF aligned.rel = run.rel THEN reported ELSE {}
           /\ run' = [run EXCEPT !.pc = "stale"]
    BY <1>5 DEF Record
  <2>2. run.prior = aligned.live /\ UNCHANGED up
    BY <1>5 DEF Record, At, DownInv, procs
  <2>3. CASE Ends("killed") /\ reported' = {}
    <3>1. run'.pc = "idle"
      BY <2>3 DEF Ends, Idle
    <3> QED BY <2>3, <3>1 DEF DownInv, Remembers
  <2>4. CASE run' = [run EXCEPT !.pc = "stale"] /\ reported' = {}
    <3>1. run'.pc = "stale"
      BY <1>0, <2>4 DEF Run
    <3> QED BY <2>4, <3>1 DEF DownInv, Remembers
  <2>5. CASE run' = [run EXCEPT !.pc = "stale"] /\ reported' = reported /\ aligned'.live = aligned.live
    <3>1. run'.pc = "stale" /\ run'.prior = run.prior /\ run'.restarted = run.restarted
      BY <1>0, <2>5 DEF Run
    <3>2. Remembers(aligned.live)' /\ Remembers(run.prior)'
      BY <2>2, <2>5, <3>1 DEF DownInv, Remembers, LivePassed
    <3> QED BY <2>2, <2>5, <3>1, <3>2 DEF DownInv
  <2> QED BY <2>1, <2>3, <2>4, <2>5
<1>6. CASE PlanRestarts
  <2>1. ASSUME NEW restarts, NEW pc \in {"radiod", "restart"},
               run' = [run EXCEPT !.pc = pc, !.restarts = restarts]
        PROVE  DownInv'
    <3>1. run'.pc = pc /\ run'.prior = run.prior /\ run'.restarted = run.restarted
      BY <1>0, <2>1 DEF Run
    <3>2. UNCHANGED <<aligned, reported, up>> /\ run.pc = "stale"
      BY <1>6 DEF PlanRestarts, ghosts, procs, At
    <3>3. Remembers(aligned.live)' /\ Remembers(run.prior)'
      BY <3>1, <3>2 DEF DownInv, Remembers, LivePassed
    <3> QED BY <2>1, <3>1, <3>2, <3>3 DEF DownInv
  <2> DEFINE restarts == (Stale \union (IF Radiod \in Stale THEN up \intersect Consumers ELSE {})) \ {Radiod}
             pc == IF Radiod \in Stale THEN "radiod" ELSE "restart"
  <2>2. (\E how : Ends(how)) \/ run' = [run EXCEPT !.pc = pc, !.restarts = restarts]
    BY <1>6 DEF PlanRestarts
  <2>3. pc \in {"radiod", "restart"}
    OBVIOUS
  <2> HIDE DEF pc, restarts
  <2> QED BY <1>1, <1>6, <2>1, <2>2, <2>3 DEF PlanRestarts, ghosts, procs
<1>7. CASE Kill
  BY <1>1, <1>7 DEF Kill, procs
<1>8. ASSUME NEW s \in Services, Crash(s) \/ Restart(s) PROVE DownInv'
  <2>1. /\ UNCHANGED <<aligned, run>> /\ reported' \subseteq reported
        /\ reported' \intersect up' = {}
    BY <1>8 DEF Crash, Restart, ghosts, Starts, Falls, DownInv
  <2>2. \A live : Remembers(live) /\ reported' # {} =>
                     ~LivePassed(live) /\ reported' \subseteq live.restarted \union live.failed
    BY <2>1 DEF Remembers
  <2>3. Remembers(aligned.live)' /\ (Remembers(run.prior) => Remembers(run.prior)')
    BY <2>1, <2>2 DEF Remembers, DownInv, LivePassed
  <2> QED BY <2>1, <2>3 DEF DownInv
<1>9. CASE UNCHANGED vars
  BY <1>9 DEF DownInv, Remembers, LivePassed, vars, procs, ghosts
<1>10. CASE \/ ItemCurrent \/ ItemRefused \/ ItemLeft \/ ItemCheckout \/ ItemPin \/ ItemInstall
            \/ ItemUndo \/ ItemRebuild \/ ItemClone \/ ItemFresh
  BY <1>10, ItemsKeepRestarts, DownKept
<1> QED BY <1>2, <1>3, <1>4, <1>5, <1>6, <1>7, <1>8, <1>9, <1>10, RestartsKeepDown, FinishKeepsDown DEF Next

\* Every behaviour keeps it.
LEMMA DownCorrect == Spec => [](TypeOK /\ ItemInv /\ DownInv)
<1>1. Init => DownInv
  BY DEF Init, DownInv, Remembers, Idle
<1>2. TypeOK /\ ItemInv /\ DownInv /\ [Next]_vars => DownInv'
  BY DownInvInductive
<1> QED BY <1>1, <1>2, TypeCorrect, PTL DEF Spec

\* Who may end a run well.
LEMMA WhoEndsOk ==
  ASSUME TypeOK, [Next]_vars, EndsOk
  PROVE  (BringUp /\ Nothing) \/ Owed \/ Check
<1>1. \A how : Ends(how) => exit' = how
  BY DEF Ends
<1>2. ~(ItemCurrent \/ ItemRefused \/ ItemLeft \/ ItemCheckout \/ ItemPin \/ ItemInstall
        \/ ItemUndo \/ ItemRebuild \/ ItemClone \/ ItemFresh)
  BY ItemsKeepRestarts DEF EndsOk
<1>3. ~(ItemsDone \/ Record \/ PlanRestarts \/ RestartRadiod \/ Kill \/ UNCHANGED vars)
  BY <1>1 DEF EndsOk, ItemsDone, Record, PlanRestarts, RestartRadiod, Kill, vars
<1>4. ASSUME NEW s \in Services PROVE ~(RestartOne(s) \/ Crash(s) \/ Restart(s))
  BY DEF EndsOk, RestartOne, Crash, Restart
<1>5. ~ \E r \in Releases, back, quiet \in BOOLEAN : Begin(r, back, quiet)
  BY DEF EndsOk, Begin
<1>6. BringUp => Nothing
  BY <1>1 DEF EndsOk, BringUp
<1> QED BY <1>2, <1>3, <1>4, <1>5, <1>6 DEF Next

\* "no later run calls the station aligned while it is down": for any plan, any
\* services, failures and kills, no run of the release ends well while a service
\* that a finished run of it named as failed is down and nobody has started it,
\* as long as no write of aligned.json has been torn since.
THEOREM ReportedIsLoud == Spec => DownIsLoud
<1>1. TypeOK /\ ItemInv /\ DownInv /\ [Next]_vars => [EndsOk => reported = {}]_vars
  <2> SUFFICES ASSUME TypeOK, DownInv, [Next]_vars, EndsOk PROVE reported = {}
    OBVIOUS
  <2>1. CASE BringUp /\ Nothing
    BY <2>1 DEF BringUp, Nothing, At, DownInv, Remembers
  <2>2. CASE Owed \/ Check
    BY <2>2, FinishKeepsDown DEF EndsOk
  <2> QED BY <2>1, <2>2, WhoEndsOk
<1> QED BY <1>1, DownCorrect, PTL DEF Spec, DownIsLoud

(***************************************************************************)
(* A run that ends well leaves nothing stale.  From here on nobody else    *)
(* starts a service inside a move or inside the restart stage.             *)
(***************************************************************************)

NoMidrun == "midrun" \notin FaultKinds

\* A service that falls is not stale, and nothing else becomes so.
LEMMA FallsStale ==
  ASSUME NEW s, Falls(s)
  PROVE  Stale' \subseteq Stale \ {s} /\ up' \subseteq up
  BY DEF Falls, Stale

\* The same of a service that starts; behind a radiod that starts are its consumers.
LEMMA StartsStale ==
  ASSUME TypeOK, NEW s \in up, Starts(s)
  PROVE  /\ Stale' \subseteq (Stale \ {s}) \union (IF s = Radiod THEN up \intersect Consumers ELSE {})
         /\ s \notin Stale' /\ up' = up
<1>1. s = Radiod => s \notin Consumers
  BY AlignAssumption
<1> QED BY <1>1 DEF Starts, Stale

\* Every step keeps it.
LEMMA RestartInvInductive ==
  ASSUME NoMidrun, TypeOK, ItemInv, RestartInv, [Next]_vars
  PROVE  RestartInv'
<1>0. run \in Run /\ Radiod \notin run.restarts
  BY DEF TypeOK, RestartInv
<1>1. ASSUME run'.restarts \in {run.restarts, {}}, run'.pc \notin {"radiod", "restart", "owed", "check"}
      PROVE  RestartInv'
  BY <1>0, <1>1 DEF RestartInv
<1>2. ASSUME NEW how, Ends(how) PROVE RestartInv'
  BY <1>1, <1>2, EndsKeeps
<1>3. ASSUME NEW r, NEW back, NEW quiet, Begin(r, back, quiet) PROVE RestartInv'
  <2>1. run'.pc = "item" /\ run'.restarts = {}
    BY <1>3 DEF Begin, Idle
  <2> QED BY <1>1, <2>1
<1>4. CASE ItemsDone \/ BringUp \/ Record
  <2>1. (\E how : Ends(how)) \/ (run'.restarts = run.restarts /\ run'.pc \in {"live", "record", "stale"})
    BY <1>0, <1>4 DEF ItemsDone, BringUp, Record, Run
  <2> QED BY <1>1, <1>2, <2>1
<1>5. CASE PlanRestarts
  <2> DEFINE restarts == (Stale \union (IF Radiod \in Stale THEN up \intersect Consumers ELSE {})) \ {Radiod}
             pc == IF Radiod \in Stale THEN "radiod" ELSE "restart"
  <2>1. (\E how : Ends(how)) \/ run' = [run EXCEPT !.pc = pc, !.restarts = restarts]
    BY <1>5 DEF PlanRestarts
  <2>2. CASE run' = [run EXCEPT !.pc = pc, !.restarts = restarts]
    <3>1. run'.pc = pc /\ run'.restarts = restarts
      BY <1>0, <2>2 DEF Run
    <3>2. Stale' = Stale /\ up' = up
      BY <1>5 DEF PlanRestarts, procs, Stale
    <3>3. Radiod \notin up \intersect Consumers
      BY AlignAssumption
    <3>4. CASE Radiod \in Stale
      BY <3>1, <3>2, <3>3, <3>4 DEF RestartInv
    <3>5. CASE Radiod \notin Stale
      BY <3>1, <3>2, <3>5 DEF RestartInv
    <3> QED BY <3>4, <3>5
  <2> QED BY <1>2, <2>1, <2>2
<1>6. CASE RestartRadiod
  <2>0. run.pc = "radiod"
    BY <1>6 DEF RestartRadiod, At
  <2>1. CASE run' = [run EXCEPT !.pc = "restart", !.restarted = @ \union {Radiod}, !.watch = {Radiod}]
             /\ Starts(Radiod) /\ Radiod \in up
    <3>1. run'.pc = "restart" /\ run'.restarts = run.restarts
      BY <1>0, <2>1 DEF Run
    <3>2. Stale' \subseteq (Stale \ {Radiod}) \union (up \intersect Consumers)
      BY <2>1, StartsStale
    <3> QED BY <1>0, <2>0, <3>1, <3>2 DEF RestartInv
  <2>2. CASE run' = [run EXCEPT !.pc = "owed", !.restarts = {}, !.failed = @ \union {Radiod}, !.bad = TRUE,
                                 !.watch = IF Radiod \in up' THEN {Radiod} ELSE {}]
    <3>1. run'.pc = "owed" /\ run'.restarts = {} /\ run'.bad
      BY <1>0, <2>2 DEF Run
    <3> QED BY <3>1 DEF RestartInv
  <2>3. CASE run' = [run EXCEPT !.pc = "restart"] /\ Radiod \notin up /\ UNCHANGED procs
    <3>1. run'.pc = "restart" /\ run'.restarts = run.restarts
      BY <1>0, <2>3 DEF Run
    <3>2. Stale' = Stale /\ Radiod \notin Stale
      BY <2>3 DEF Stale, procs
    <3> QED BY <1>0, <2>0, <3>1, <3>2 DEF RestartInv
  <2> QED BY <1>6, <2>1, <2>2, <2>3 DEF RestartRadiod
<1>7. ASSUME NEW s \in Services, RestartOne(s) PROVE RestartInv'
  <2>0. run.pc = "restart" /\ s \in run.restarts /\ s # Radiod /\ Stale \subseteq run.restarts
    BY <1>0, <1>7 DEF RestartOne, At, RestartInv
  <2>1. run'.pc = "restart" /\ run'.restarts = run.restarts \ {s}
    BY <1>0, <1>7, <2>0 DEF RestartOne, Run
  <2>2. Stale' \subseteq Stale \ {s}
    <3>1. CASE s \notin up /\ UNCHANGED procs
      BY <3>1 DEF Stale, procs
    <3>2. CASE s \in up /\ Starts(s)
      BY <2>0, <3>2, StartsStale
    <3> QED BY <1>7, <3>1, <3>2, FallsStale DEF RestartOne
  <2> QED BY <1>0, <2>0, <2>1, <2>2 DEF RestartInv
<1>8. CASE Owed \/ Check
  <2>1. (\E how : Ends(how)) \/ (Owed /\ run'.pc = "check" /\ run'.restarts = run.restarts /\ run'.bad = run.bad)
    BY <1>0, <1>8 DEF Owed, Check, Finishes, Run
  <2>2. CASE Owed /\ run'.pc = "check" /\ run'.restarts = run.restarts /\ run'.bad = run.bad
    <3>1. run.bad \/ Stale = {}
      BY <2>2 DEF Owed, At, RestartInv
    <3>2. Stale' = Stale
      BY <2>2 DEF Owed, procs, Stale
    <3> QED BY <1>0, <2>2, <3>1, <3>2 DEF RestartInv
  <2> QED BY <1>2, <2>1, <2>2
<1>9. CASE Kill
  BY <1>2, <1>9 DEF Kill
<1>10. ASSUME NEW s \in Services, Crash(s) PROVE RestartInv'
  BY <1>10, FallsStale DEF Crash, RestartInv
<1>11. ASSUME NEW s \in Services, Restart(s) PROVE RestartInv'
  BY <1>1, <1>11 DEF Restart, NoMidrun
<1>12. CASE UNCHANGED vars
  <2>1. Stale' = Stale /\ UNCHANGED <<run, up>>
    BY <1>12 DEF vars, procs, Stale
  <2> QED BY <2>1 DEF RestartInv
<1>13. CASE \/ ItemCurrent \/ ItemRefused \/ ItemLeft \/ ItemCheckout \/ ItemPin \/ ItemInstall
            \/ ItemUndo \/ ItemRebuild \/ ItemClone \/ ItemFresh
  BY <1>1, <1>13, ItemsKeepRestarts DEF Working
<1> QED BY <1>3, <1>4, <1>5, <1>6, <1>7, <1>8, <1>9, <1>10, <1>11, <1>12, <1>13 DEF Next

\* Every behaviour keeps it.
LEMMA RestartCorrect ==
  ASSUME NoMidrun
  PROVE  Spec => [](TypeOK /\ ItemInv /\ RestartInv)
<1>1. Init => RestartInv
  BY DEF Init, RestartInv, Idle
<1>2. TypeOK /\ ItemInv /\ RestartInv /\ [Next]_vars => RestartInv'
  BY RestartInvInductive
<1> QED BY <1>1, <1>2, TypeCorrect, PTL DEF Spec

\* Where a run ends well nothing is stale, and the run has met no failure.
LEMMA EndsOkClean ==
  ASSUME TypeOK, RestartInv, [Next]_vars, EndsOk
  PROVE  Stale = {} /\ (run.pc = "live" \/ (run.pc \in {"restart", "owed", "check"} /\ ~run.bad))
<1>1. CASE BringUp /\ Nothing
  BY <1>1 DEF BringUp, Nothing, At
<1>2. ASSUME NEW failed, NEW ok, NEW bad, Finishes(failed, ok, bad) PROVE ~bad
  BY <1>2 DEF EndsOk, Finishes, Ends
<1>3. CASE Owed \/ Check
  <2>1. ~run.bad
    BY <1>2, <1>3 DEF Owed, Check, EndsOk
  <2>2. run.pc \in {"restart", "owed", "check"} /\ (run.pc = "restart" => run.restarts = {})
    BY <1>3 DEF Owed, Check, At
  <2> QED BY <2>1, <2>2 DEF RestartInv
<1> QED BY <1>1, <1>3, WhoEndsOk

\* "radiod restarted after it started": for any number of consumers and failures,
\* when a run ends well with radiod running, no running consumer is older than it.
THEOREM ConsumersAreFresh ==
  ASSUME NoMidrun
  PROVE  Spec => ConsumersFollow
<1>1. TypeOK /\ ItemInv /\ RestartInv /\ [Next]_vars
        => [EndsOk /\ Radiod \in up => up \intersect behind = {}]_vars
  <2> SUFFICES ASSUME TypeOK, RestartInv, [Next]_vars, EndsOk, Radiod \in up PROVE up \intersect behind = {}
    OBVIOUS
  <2>1. Stale = {}
    BY EndsOkClean
  <2> QED BY <2>1 DEF Stale
<1> QED BY <1>1, RestartCorrect, PTL DEF Spec, ConsumersFollow

(***************************************************************************)
(* What is checked out, and what is installed.                             *)
(***************************************************************************)

PlanInv == PathInv /\ InstInv /\ HeadInv

\* An item touches its own component alone.
Others(d) == head'[d] = head[d] /\ inst'[d] = inst[d] /\ (d \notin torn' => d \notin torn)

\* An item is over: its component is built from its checkout, and is at the
\* release unless something failed.
LEMMA ItemEnds ==
  ASSUME TypeOK, PlanInv, run.pc \in Working \union {"item"}, run.todo # <<>>,
         Stop \/ \E changed, bad \in BOOLEAN : GoOn(changed, bad),
         \A d \in Components \ {Item} : Others(d),
         Item \notin torn' => inst'[Item] = head'[Item],
         run'.bad \/ (head'[Item] # None /\ head'[Item] >= run.rel)
  PROVE  PlanInv'
<1>0. run \in Run /\ run.todo \in Seq(Components)
  BY DEF TypeOK, Run
<1>1. run'.pc = "item" /\ run'.rel = run.rel /\ (run'.bad \/ (~run.bad /\ run'.todo = Tail(run.todo)))
  BY <1>0 DEF Stop, GoOn, Run
<1>2. PathInv'
  BY <1>1 DEF PathInv, Working
<1>3. InstInv'
  <2> SUFFICES ASSUME NEW d \in Components, d \notin torn' PROVE inst'[d] = head'[d]
    BY <1>1 DEF InstInv
  <2>1. CASE d # Item
    BY <2>1 DEF Others, PlanInv, InstInv
  <2> QED BY <2>1
<1>4. HeadInv'
  <2> SUFFICES ASSUME ~run'.bad, NEW d \in Components, d \notin Listed(run'.todo)
               PROVE  head'[d] # None /\ head'[d] >= run.rel
    BY <1>1 DEF HeadInv
  <2>1. d = Item \/ d \notin Listed(run.todo)
    BY <1>0, <1>1, PlanSplits DEF Item
  <2>2. CASE d # Item
    BY <1>1, <2>1, <2>2 DEF Others, PlanInv, HeadInv, Working
  <2> QED BY <2>2
<1> QED BY <1>2, <1>3, <1>4 DEF PlanInv

\* An item goes on to its next step.
LEMMA ItemWorks ==
  ASSUME TypeOK, PlanInv, run.pc \in Working \union {"item"}, run.todo # <<>>,
         run'.todo = run.todo, run'.rel = run.rel, run'.bad = run.bad, run'.pc \in Working,
         \A d \in Components \ {Item} : Others(d),
         run'.pc \in {"pin", "install", "undo"} =>
           /\ head'[Item] = run.rel /\ run'.from # None
           /\ Item \notin torn' => inst'[Item] = run'.from,
         run'.pc = "rebuild" => (Item \notin torn' => inst'[Item] = head'[Item]),
         run'.pc = "fresh" => /\ head'[Item] = run.rel /\ Item # Radiod
                              /\ Item \notin torn' => inst'[Item] = None
  PROVE  PlanInv'
<1>0. run \in Run /\ run.todo \in Seq(Components)
  BY DEF TypeOK, Run
<1>1. Item' = Item /\ Item \in Listed(run.todo)
  BY <1>0, PlanSplits DEF Item
<1>2. PathInv'
  BY <1>1 DEF PathInv, Working
<1>3. InstInv'
  <2> SUFFICES ASSUME NEW d \in Components, d \notin torn'
               PROVE  inst'[d] = IF run'.pc \in {"pin", "install", "undo"} /\ d = Item THEN run'.from
                                 ELSE IF run'.pc = "fresh" /\ d = Item THEN None ELSE head'[d]
    BY <1>1 DEF InstInv
  <2>1. CASE d # Item
    BY <2>1 DEF Others, PlanInv, InstInv
  <2>2. CASE d = Item
    BY <2>2 DEF Working
  <2> QED BY <2>1, <2>2
<1>4. HeadInv'
  <2> SUFFICES ASSUME ~run.bad, NEW d \in Components, d \notin Listed(run.todo)
               PROVE  head'[d] # None /\ head'[d] >= run.rel
    BY DEF HeadInv
  <2>1. d # Item
    BY <1>1
  <2> QED BY <2>1 DEF Others, PlanInv, HeadInv, Working
<1> QED BY <1>2, <1>3, <1>4 DEF PlanInv

\* A plan is begun from its start: nothing is behind it yet.
LEMMA PlanBegins ==
  ASSUME run'.pc = "item", run'.todo = Plan, \A d \in Components : d \notin torn' => inst'[d] = head'[d]
  PROVE  PlanInv'
<1>1. Listed(Plan) = Components
  <2>1. DOMAIN Plan = 1 .. Len(Plan)
    BY AlignAssumption
  <2> QED BY <2>1 DEF Listed, Components
<1> QED BY <1>1 DEF PlanInv, PathInv, InstInv, HeadInv, Working

\* The items keep it.
LEMMA ItemsKeepPlan ==
  ASSUME TypeOK, ItemInv, PlanInv,
         \/ ItemCurrent \/ ItemRefused \/ ItemLeft \/ ItemCheckout \/ ItemPin \/ ItemInstall
         \/ ItemUndo \/ ItemRebuild \/ ItemClone \/ ItemFresh
  PROVE  PlanInv'
<1> DEFINE c == Item
<1>0. /\ run \in Run /\ run.rel \in Commits /\ run.from \in Known
      /\ head \in [Components -> Known] /\ inst \in [Components -> Known]
  BY DEF TypeOK, Run
<1>1. run.todo # <<>> /\ run.pc \in Working \union {"item"}
  BY DEF ItemInv, Working, AtItem, At, ItemCurrent, ItemRefused, ItemLeft, ItemCheckout, ItemPin, ItemInstall,
       ItemUndo, ItemRebuild, ItemClone, ItemFresh
<1>2. c \in Components /\ head[c] \in Known /\ inst[c] \in Known
  BY <1>0, <1>1, ItemTyped
<1>3. None \notin Commits /\ None > LastCommit /\ \A x \in Commits : x \in Nat /\ x <= LastCommit
  BY AlignAssumption DEF None, Commits
<1>4. run.pc = "item" => (c \notin torn => inst[c] = head[c])
  BY <1>2 DEF PlanInv, InstInv
<1>5. Stop => run'.bad
  BY <1>0 DEF Stop, Run
<1>6. ASSUME NEW pc, run' = [run EXCEPT !.pc = pc]
      PROVE  /\ run'.pc = pc /\ run'.todo = run.todo /\ run'.rel = run.rel /\ run'.bad = run.bad
             /\ run'.from = run.from
  BY <1>0, <1>6 DEF Run
<1> HIDE DEF c
<1>7. CASE ItemCurrent
  <2>1. run.pc = "item" /\ head[c] = run.rel /\ UNCHANGED head
    BY <1>7 DEF ItemCurrent, AtItem, At, c
  <2>2. /\ Stop \/ \E changed, bad \in BOOLEAN : GoOn(changed, bad)
        /\ \/ inst' = [inst EXCEPT ![c] = run.rel] /\ torn' = torn \ {c}
           \/ UNCHANGED inst /\ torn' = torn
           \/ inst' = [inst EXCEPT ![c] = @] /\ torn' = torn
    BY <1>7 DEF ItemCurrent, c
  <2>3. \A d \in Components \ {c} : Others(d)
    BY <1>0, <2>1, <2>2 DEF Others
  <2>4. c \notin torn' => inst'[c] = head'[c]
    BY <1>0, <1>2, <1>4, <2>1, <2>2
  <2>5. head'[c] # None /\ head'[c] >= run.rel
    BY <1>0, <1>3, <2>1
  <2> QED BY <1>1, <2>2, <2>3, <2>4, <2>5, ItemEnds DEF c
<1>8. CASE ItemRefused \/ ItemLeft
  <2>1. run.pc = "item" /\ UNCHANGED <<head, inst, torn>>
    BY <1>8 DEF ItemRefused, ItemLeft, AtItem, At, station
  <2>2. \A d \in Components \ {c} : Others(d)
    BY <2>1 DEF Others
  <2>3. Stop \/ \E changed, bad \in BOOLEAN : GoOn(changed, bad)
    BY <1>8 DEF ItemRefused, ItemLeft
  <2>4. run'.bad \/ (head'[c] # None /\ head'[c] >= run.rel)
    <3>1. CASE ItemRefused
      BY <1>0, <1>5, <3>1 DEF ItemRefused, GoOn, Run
    <3>2. CASE ItemLeft
      BY <1>0, <1>2, <1>3, <2>1, <3>2 DEF ItemLeft, Ahead, c, Known
    <3> QED BY <1>8, <3>1, <3>2
  <2> QED BY <1>1, <1>4, <2>1, <2>2, <2>3, <2>4, ItemEnds DEF c
<1>9. CASE ItemCheckout
  <2>0. run.pc = "item" /\ UNCHANGED <<inst, torn>>
    BY <1>9 DEF ItemCheckout, AtItem, At
  <2>1. CASE Stop /\ UNCHANGED head
    <3>1. \A d \in Components \ {c} : Others(d)
      BY <2>0, <2>1 DEF Others
    <3> QED BY <1>1, <1>4, <1>5, <2>0, <2>1, <3>1, ItemEnds DEF c
  <2>2. CASE /\ head' = [head EXCEPT ![c] = run.rel]
             /\ run' = [run EXCEPT !.pc = "pin", !.from = head[c], !.was = pin[c]]
    <3>1. head[c] # None
      <4>1. head[c] < run.rel \/ head[c] # None
        BY <1>9, Zenon DEF ItemCheckout, Ahead, c
      <4>2. ~(None < run.rel)
        BY <1>0, AlignAssumption DEF None, Commits
      <4> QED BY <4>1, <4>2
    <3>2. /\ run'.pc = "pin" /\ run'.todo = run.todo /\ run'.rel = run.rel /\ run'.bad = run.bad
          /\ run'.from = head[c]
      BY <1>0, <2>2 DEF Run
    <3>3. \A d \in Components \ {c} : Others(d)
      BY <1>0, <2>0, <2>2 DEF Others
    <3>4. head'[c] = run.rel
      BY <1>0, <1>2, <2>2
    <3> QED BY <1>1, <1>4, <2>0, <3>1, <3>2, <3>3, <3>4, ItemWorks DEF c, Working
  <2> QED BY <1>9, <2>1, <2>2 DEF ItemCheckout, c
<1>10. CASE ItemPin
  <2>1. run.pc = "pin" /\ UNCHANGED <<head, inst, torn>>
    BY <1>10 DEF ItemPin, At
  <2>2. head[c] = run.rel /\ run.from # None /\ (c \notin torn => inst[c] = run.from)
    BY <1>2, <2>1 DEF PlanInv, PathInv, InstInv, c
  <2>3. \A d \in Components \ {c} : Others(d)
    BY <2>1 DEF Others
  <2>4. PICK pc \in {"install", "undo"} : run' = [run EXCEPT !.pc = pc]
    BY <1>10 DEF ItemPin
  <2> QED BY <1>1, <1>6, <2>1, <2>2, <2>3, <2>4, ItemWorks DEF c, Working
<1>11. CASE ItemInstall
  <2>1. run.pc = "install" /\ UNCHANGED head
    BY <1>11 DEF ItemInstall, At
  <2>2. head[c] = run.rel /\ run.from # None /\ (c \notin torn => inst[c] = run.from)
    BY <1>2, <2>1 DEF PlanInv, PathInv, InstInv, c
  <2>3. CASE inst' = [inst EXCEPT ![c] = run.rel] /\ torn' = torn \ {c} /\ Moved(c)
    <3>1. \A d \in Components \ {c} : Others(d)
      BY <1>0, <2>1, <2>3 DEF Others
    <3>2. inst'[c] = head'[c] /\ head'[c] # None /\ head'[c] >= run.rel
      BY <1>0, <1>2, <1>3, <2>1, <2>2, <2>3
    <3>3. CASE GoOn(TRUE, FALSE)
      BY <1>1, <3>1, <3>2, <3>3, ItemEnds DEF c
    <3>4. CASE run' = [Idle EXCEPT !.pc = "item", !.rel = run.rel, !.back = run.back, !.quiet = run.quiet,
                           !.todo = Plan]
      <4>1. run'.pc = "item" /\ run'.todo = Plan
        BY <3>4 DEF Idle
      <4>2. ASSUME NEW d \in Components, d \notin torn' PROVE inst'[d] = head'[d]
        <5>1. CASE d # c
          BY <2>1, <3>1, <4>2, <5>1 DEF Others, PlanInv, InstInv, c
        <5> QED BY <3>2, <5>1
      <4> QED BY <4>1, <4>2, PlanBegins
    <3> QED BY <2>3, <3>3, <3>4 DEF Moved
  <2>4. ASSUME NEW i \in {inst[c], run.rel}, inst' = [inst EXCEPT ![c] = i],
               torn' = (IF i # run.from THEN torn \union {c} ELSE torn), run' = [run EXCEPT !.pc = "undo"]
        PROVE  PlanInv'
    <3>1. \A d \in Components \ {c} : Others(d)
      BY <1>0, <2>1, <2>4 DEF Others
    <3>2. inst'[c] = i /\ head'[c] = run.rel
      BY <1>0, <1>2, <2>1, <2>2, <2>4
    <3>3. c \notin torn' => inst'[c] = run.from
      BY <2>4, <3>2
    <3> QED BY <1>1, <1>6, <2>2, <2>4, <3>1, <3>2, <3>3, ItemWorks DEF c, Working
  <2> QED BY <1>11, <2>3, <2>4 DEF ItemInstall, c
<1>12. CASE ItemUndo
  <2>1. run.pc = "undo" /\ UNCHANGED inst
    BY <1>12 DEF ItemUndo, At
  <2>2. c \notin torn => inst[c] = run.from
    BY <1>2, <2>1 DEF PlanInv, InstInv, c
  <2>3. CASE Stop /\ torn' = torn \union {c} /\ UNCHANGED head
    <3>1. \A d \in Components \ {c} : Others(d)
      BY <2>1, <2>3 DEF Others
    <3> QED BY <1>1, <1>5, <2>3, <3>1, ItemEnds DEF c
  <2>4. CASE head' = [head EXCEPT ![c] = run.from] /\ UNCHANGED torn
    <3>1. \A d \in Components \ {c} : Others(d)
      BY <1>0, <2>1, <2>4 DEF Others
    <3>2. c \notin torn' => inst'[c] = head'[c]
      BY <1>0, <1>2, <2>1, <2>2, <2>4
    <3>3. CASE Stop
      BY <1>1, <1>5, <3>1, <3>2, <3>3, ItemEnds DEF c
    <3>4. CASE run' = [run EXCEPT !.pc = "rebuild"]
      BY <1>1, <1>6, <3>1, <3>2, <3>4, ItemWorks DEF c, Working
    <3> QED BY <1>12, <3>3, <3>4 DEF ItemUndo
  <2> QED BY <1>12, <2>3, <2>4 DEF ItemUndo, c
<1>13. CASE ItemRebuild
  <2>1. run.pc = "rebuild" /\ c = Radiod /\ UNCHANGED head /\ Stop
    BY <1>13 DEF ItemRebuild, At, ItemInv, c
  <2>2. \/ inst' = [inst EXCEPT ![c] = head[c]] /\ torn' = torn \ {c}
        \/ torn' = torn \union {c} /\ UNCHANGED inst
    BY <1>13, <2>1 DEF ItemRebuild
  <2>3. \A d \in Components \ {c} : Others(d)
    BY <1>0, <2>1, <2>2 DEF Others
  <2>4. c \notin torn' => inst'[c] = head'[c]
    BY <1>0, <1>2, <2>1, <2>2
  <2> QED BY <1>1, <1>5, <2>1, <2>3, <2>4, ItemEnds DEF c
<1>14. CASE ItemClone
  <2>1. run.pc = "item" /\ head[c] = None /\ c # Radiod /\ UNCHANGED <<inst, torn>>
    BY <1>14 DEF ItemClone, AtItem, At, c
  <2>2. CASE Stop /\ UNCHANGED head
    <3>1. \A d \in Components \ {c} : Others(d)
      BY <2>1, <2>2 DEF Others
    <3> QED BY <1>1, <1>4, <1>5, <2>1, <2>2, <3>1, ItemEnds DEF c
  <2>3. CASE head' = [head EXCEPT ![c] = run.rel] /\ run' = [run EXCEPT !.pc = "fresh"]
    <3>1. \A d \in Components \ {c} : Others(d)
      BY <1>0, <2>1, <2>3 DEF Others
    <3>2. head'[c] = run.rel
      BY <1>0, <1>2, <2>3
    <3> QED BY <1>1, <1>4, <1>6, <2>1, <2>3, <3>1, <3>2, ItemWorks DEF c, Working
  <2> QED BY <1>14, <2>2, <2>3 DEF ItemClone, c
<1>15. CASE ItemFresh
  <2>1. run.pc = "fresh" /\ UNCHANGED torn
    BY <1>15 DEF ItemFresh, At
  <2>2. head[c] = run.rel /\ (c \notin torn => inst[c] = None)
    BY <1>2, <2>1 DEF PlanInv, PathInv, InstInv, c
  <2>3. CASE inst' = [inst EXCEPT ![c] = run.rel] /\ UNCHANGED head /\ GoOn(TRUE, FALSE)
    <3>1. \A d \in Components \ {c} : Others(d)
      BY <1>0, <2>1, <2>3 DEF Others
    <3>2. inst'[c] = head'[c] /\ head'[c] # None /\ head'[c] >= run.rel
      BY <1>0, <1>2, <1>3, <2>1, <2>2, <2>3
    <3> QED BY <1>1, <2>3, <3>1, <3>2, ItemEnds DEF c
  <2>4. CASE head' = [head EXCEPT ![c] = None] /\ Stop /\ UNCHANGED inst
    <3>1. \A d \in Components \ {c} : Others(d)
      BY <1>0, <2>1, <2>4 DEF Others
    <3>2. c \notin torn' => inst'[c] = head'[c]
      BY <1>0, <1>2, <2>1, <2>2, <2>4
    <3> QED BY <1>1, <1>5, <2>4, <3>1, <3>2, ItemEnds DEF c
  <2> QED BY <1>15, <2>3, <2>4 DEF ItemFresh, c
<1> QED BY <1>7, <1>8, <1>9, <1>10, <1>11, <1>12, <1>13, <1>14, <1>15

\* Outside the items nothing is checked out or built.
LEMMA StageKeepsPlan ==
  ASSUME PlanInv, UNCHANGED <<head, inst>>,
         torn' = IF run.pc \in Working /\ run'.pc = "idle" THEN torn \union {Item} ELSE torn,
         \/ run'.pc = "idle" /\ run'.todo = <<>>
         \/ /\ run.pc # "idle" /\ run.pc \notin Working /\ run'.pc \notin Working \union {"item"}
            /\ run'.todo = run.todo /\ run'.todo = <<>> /\ run'.rel = run.rel
            /\ run'.bad = run.bad \/ (run'.bad /\ run'.pc \in {"restart", "owed"})
            /\ run'.pc \in {"live", "record", "stale"} => ~run'.bad
  PROVE  PlanInv'
<1>1. PathInv'
  BY DEF PlanInv, PathInv, Working
<1>2. HeadInv'
  BY DEF PlanInv, HeadInv
<1>3. InstInv'
  BY DEF PlanInv, InstInv, Working
<1> QED BY <1>1, <1>2, <1>3 DEF PlanInv

\* Every step keeps it.
LEMMA PlanInvInductive ==
  ASSUME TypeOK, ItemInv, PlanInv, [Next]_vars
  PROVE  PlanInv'
<1>0. run \in Run
  BY DEF TypeOK
<1>1. ASSUME NEW how, Ends(how), UNCHANGED <<head, inst>>,
             torn' = IF run.pc \in Working THEN torn \union {Item} ELSE torn
      PROVE  PlanInv'
  <2>1. run'.pc = "idle" /\ run'.todo = <<>>
    BY <1>1 DEF Ends, Idle
  <2> QED BY <1>1, <2>1, StageKeepsPlan
<1>2. ASSUME NEW r, NEW back, NEW quiet, Begin(r, back, quiet) PROVE PlanInv'
  <2>1. run'.pc = "item" /\ run'.todo = Plan
    BY <1>2 DEF Begin, Idle
  <2>2. \A d \in Components : d \notin torn' => inst'[d] = head'[d]
    BY <1>2 DEF Begin, PlanInv, InstInv, station, ghosts
  <2> QED BY <2>1, <2>2, PlanBegins
<1>3. CASE ItemsDone
  <2>1. UNCHANGED <<head, inst, torn>> /\ run.pc = "item" /\ run.todo = <<>>
    BY <1>3 DEF ItemsDone, At, station, ghosts
  <2>2. CASE run' = [run EXCEPT !.pc = "live", !.prior = aligned.live] /\ ~run.bad
    <3>1. run'.pc = "live" /\ run'.todo = run.todo /\ run'.rel = run.rel /\ run'.bad = run.bad
      BY <1>0, <2>2 DEF Run
    <3> QED BY <2>1, <2>2, <3>1, StageKeepsPlan DEF Working
  <2> QED BY <1>1, <1>3, <2>1, <2>2 DEF ItemsDone, Working
<1>4. CASE BringUp \/ Record \/ PlanRestarts \/ RestartRadiod \/ Owed \/ Check \/ \E s \in Services : RestartOne(s)
  <2>1. /\ UNCHANGED <<head, inst, torn>>
        /\ run.pc \in {"live", "record", "stale", "radiod", "restart", "owed", "check"}
    BY <1>4 DEF BringUp, Record, PlanRestarts, RestartRadiod, Owed, Check, RestartOne, At, station, ghosts
  <2>2. run.todo = <<>> /\ run.pc \notin Working /\ (run.pc \in {"live", "record", "stale"} => ~run.bad)
    BY <2>1 DEF PlanInv, PathInv, Working
  <2>3. ASSUME run'.todo = run.todo, run'.rel = run.rel,
               \/ run'.pc \in {"record", "stale", "radiod", "restart", "check"} /\ run'.bad = run.bad
               \/ run'.pc \in {"restart", "owed"} /\ run'.bad,
               run'.pc \in {"record", "stale"} => ~run.bad
        PROVE  PlanInv'
    BY <2>1, <2>2, <2>3, StageKeepsPlan DEF Working
  <2>4. CASE \E how : Ends(how)
    BY <1>1, <2>1, <2>2, <2>4
  <2>5. CASE BringUp \/ Record
    <3>1. (\E how : Ends(how)) \/ run' = [run EXCEPT !.pc = "record"] \/ run' = [run EXCEPT !.pc = "stale"]
      BY <2>5 DEF BringUp, Record
    <3>2. run.pc \in {"live", "record"}
      BY <2>5 DEF BringUp, Record, At
    <3> QED BY <1>0, <2>2, <2>3, <2>4, <3>1, <3>2 DEF Run
  <2>6. CASE PlanRestarts
    <3> DEFINE restarts == (Stale \union (IF Radiod \in Stale THEN up \intersect Consumers ELSE {})) \ {Radiod}
               pc == IF Radiod \in Stale THEN "radiod" ELSE "restart"
    <3>1. (\E how : Ends(how)) \/ run' = [run EXCEPT !.pc = pc, !.restarts = restarts]
      BY <2>6 DEF PlanRestarts
    <3>2. pc \in {"radiod", "restart"}
      OBVIOUS
    <3> HIDE DEF restarts, pc
    <3> QED BY <1>0, <2>3, <2>4, <3>1, <3>2 DEF Run
  <2>7. CASE RestartRadiod
    BY <1>0, <2>3, <2>7 DEF RestartRadiod, Run
  <2>8. ASSUME NEW s \in Services, RestartOne(s) PROVE PlanInv'
    <3>1. run.pc = "restart"
      BY <2>8 DEF RestartOne, At
    <3> QED BY <1>0, <2>3, <2>8, <3>1 DEF RestartOne, Run
  <2>9. CASE Owed \/ Check
    <3>1. \/ \E how : Ends(how)
          \/ \E failed, watch : run' = [run EXCEPT !.pc = "check", !.failed = failed, !.watch = watch]
      BY <2>9 DEF Owed, Check, Finishes
    <3> QED BY <1>0, <2>3, <2>4, <3>1 DEF Run
  <2> QED BY <1>4, <2>5, <2>6, <2>7, <2>8, <2>9
<1>5. CASE Kill
  BY <1>1, <1>5 DEF Kill, Working, station
<1>6. CASE UNCHANGED <<station, run, torn>>
  BY <1>6 DEF PlanInv, PathInv, InstInv, HeadInv, Item, station
<1>7. ASSUME NEW s \in Services, Crash(s) \/ Restart(s) PROVE UNCHANGED <<station, run, torn>>
  BY <1>7 DEF Crash, Restart, ghosts
<1>8. UNCHANGED vars => UNCHANGED <<station, run, torn>>
  BY DEF vars, ghosts
<1> QED BY <1>2, <1>3, <1>4, <1>5, <1>6, <1>7, <1>8, ItemsKeepPlan DEF Next

(***************************************************************************)
(* What the processes run.                                                 *)
(***************************************************************************)

\* What s would load changes with its components only.
LEMMA LoadedSame ==
  ASSUME NEW s \in Services,
         \A c \in Uses[s] : (c = Radiod => inst'[c] = inst[c]) /\ (c # Radiod => head'[c] = head[c])
  PROVE  Loaded(s)' = Loaded(s)
  BY DEF Loaded

\* An item touches its own component alone.
LEMMA ItemsTouchOwn ==
  ASSUME TypeOK, ItemInv,
         \/ ItemCurrent \/ ItemRefused \/ ItemLeft \/ ItemCheckout \/ ItemPin \/ ItemInstall
         \/ ItemUndo \/ ItemRebuild \/ ItemClone \/ ItemFresh
  PROVE  \A d \in Components \ {Item} : head'[d] = head[d] /\ inst'[d] = inst[d]
<1>0. head \in [Components -> Known] /\ inst \in [Components -> Known]
  BY DEF TypeOK
<1>1. CASE ItemRebuild
  <2>1. Item = Radiod
    BY <1>1 DEF ItemRebuild, At, ItemInv
  <2> QED BY <1>0, <1>1, <2>1 DEF ItemRebuild
<1>2. head' = head \/ \E x : head' = [head EXCEPT ![Item] = x]
  BY Zenon DEF ItemCurrent, ItemRefused, ItemLeft, ItemCheckout, ItemPin, ItemInstall, ItemUndo,
       ItemRebuild, ItemClone, ItemFresh, station
<1>3. ~ItemRebuild => inst' = inst \/ \E x : inst' = [inst EXCEPT ![Item] = x]
  BY DEF ItemCurrent, ItemRefused, ItemLeft, ItemCheckout, ItemPin, ItemInstall, ItemUndo,
       ItemClone, ItemFresh, station
<1> QED BY <1>0, <1>1, <1>2, <1>3

\* A step of an item: whoever runs its code is marked, or would load the same.
LEMMA ItemKeepsCode ==
  ASSUME TypeOK, CodeInv, UNCHANGED <<up, code>>, moved \subseteq moved', Radiod \in up /\ built => built',
         \A d \in Components \ {Item} : head'[d] = head[d] /\ inst'[d] = inst[d],
         run'.pc \in Working => run'.todo = run.todo,
         \A s \in up : Item \in Uses[s] =>
           /\ head'[Item] # None
           /\ run'.pc \in Working => run'.pc # "fresh" /\ s \in moved'
           /\ \/ Marked(s)'
              \/ (Item = Radiod => inst'[Item] = inst[Item]) /\ (Item # Radiod => head'[Item] = head[Item]),
         run'.pc = "fresh" => \A s \in up : Item \notin Uses[s]
  PROVE  CodeInv'
<1>1. ASSUME NEW s \in up PROVE code'[s] = Loaded(s)' \/ Marked(s)'
  <2>1. s \in Services /\ Uses[s] \subseteq Components
    BY AlignAssumption DEF TypeOK
  <2>2. CASE Marked(s)
    BY <2>2 DEF Marked
  <2>3. CASE ~Marked(s)
    <3>1. code'[s] = Loaded(s)
      BY <2>3 DEF CodeInv, Marked
    <3>2. Marked(s)' \/ Loaded(s)' = Loaded(s)
      BY <2>1, LoadedSame
    <3> QED BY <3>1, <3>2
  <2> QED BY <2>2, <2>3
<1>2. ASSUME NEW s \in up, NEW c \in Uses[s] PROVE head'[c] # None
  <2>1. c \in Components
    BY AlignAssumption DEF TypeOK
  <2> QED BY <2>1 DEF CodeInv
<1>3. run'.pc \in Working => \A s \in up : Item' \in Uses[s] => run'.pc # "fresh" /\ s \in moved'
  BY DEF Item
<1> QED BY <1>1, <1>2, <1>3 DEF CodeInv, Marked

\* The items keep it.
LEMMA ItemsKeepCode ==
  ASSUME TypeOK, ItemInv, PlanInv, CodeInv,
         \/ ItemCurrent \/ ItemRefused \/ ItemLeft \/ ItemCheckout \/ ItemPin \/ ItemInstall
         \/ ItemUndo \/ ItemRebuild \/ ItemClone \/ ItemFresh
  PROVE  CodeInv'
<1>0. /\ run \in Run /\ run.rel \in Commits
      /\ head \in [Components -> Known] /\ inst \in [Components -> Known] /\ up \subseteq Services
  BY DEF TypeOK, Run
<1>1. run.todo # <<>> /\ Item \in Components
  <2>1. run.todo # <<>>
    BY DEF ItemInv, Working, AtItem, At, ItemCurrent, ItemRefused, ItemLeft, ItemCheckout, ItemPin, ItemInstall,
         ItemUndo, ItemRebuild, ItemClone, ItemFresh
  <2> QED BY <2>1, ItemTyped
<1>2. UNCHANGED <<up, code>> /\ \A d \in Components \ {Item} : head'[d] = head[d] /\ inst'[d] = inst[d]
  BY ItemsKeepRestarts, ItemsTouchOwn
<1>3. run.rel # None
  BY <1>0, AlignAssumption DEF None, Commits
<1>4. \A s \in up : s = Radiod => Uses[s] = {Radiod}
  BY <1>0, AlignAssumption
<1>5. \A s \in up : Item \in Uses[s] =>
        head[Item] # None /\ (run.pc \in Working => run.pc # "fresh" /\ s \in moved)
  BY DEF CodeInv
<1>6. (Stop \/ \E changed, bad : GoOn(changed, bad)) => run'.pc = "item"
  BY <1>0 DEF Stop, GoOn, Run
<1>7. \A pc : run' = [run EXCEPT !.pc = pc] => run'.pc = pc /\ run'.todo = run.todo
  BY <1>0 DEF Run
<1>8. "item" \notin Working
  BY DEF Working
<1>9. CASE ItemCurrent
  <2>1. UNCHANGED <<head, moved, built>>
    BY <1>9 DEF ItemCurrent, procs
  <2>2. run'.pc = "item"
    <3>1. Stop \/ \E changed, bad : GoOn(changed, bad)
      BY <1>9, Zenon DEF ItemCurrent
    <3> QED BY <1>6, <3>1
  <2>3. Item = Radiod => inst'[Item] = inst[Item]
    BY <1>0, <1>1, <1>9, AlignAssumption DEF ItemCurrent
  <2> QED BY <1>2, <1>5, <1>8, <2>1, <2>2, <2>3, ItemKeepsCode
<1>10. CASE ItemRefused \/ ItemLeft
  <2>1. UNCHANGED <<head, inst, moved, built>>
    BY <1>10 DEF ItemRefused, ItemLeft, procs, station
  <2>2. run'.pc = "item"
    BY <1>6, <1>10 DEF ItemRefused, ItemLeft
  <2> QED BY <1>2, <1>5, <1>8, <2>1, <2>2, ItemKeepsCode
<1>11. CASE ItemCheckout
  <2>1. UNCHANGED <<inst, built>>
    BY <1>11 DEF ItemCheckout
  <2>2. CASE Stop /\ UNCHANGED <<head, moved>>
    BY <1>2, <1>5, <1>6, <1>8, <2>1, <2>2, ItemKeepsCode
  <2>3. CASE /\ head' = [head EXCEPT ![Item] = run.rel] /\ Moves(Item)
             /\ run' = [run EXCEPT !.pc = "pin", !.from = head[Item], !.was = pin[Item]]
    <3>1. run'.pc = "pin" /\ run'.todo = run.todo
      BY <1>0, <2>3 DEF Run
    <3>2. head'[Item] # None
      BY <1>0, <1>1, <1>3, <2>3
    <3>3. moved \subseteq moved' /\ \A s \in up : Item \in Uses[s] => s \in moved'
      BY <2>3 DEF Moves
    <3>4. \A s \in up : Item \in Uses[s] => Marked(s)' \/ (Item = Radiod /\ inst'[Item] = inst[Item])
      BY <1>4, <2>1, <3>3 DEF Marked
    <3> QED BY <1>2, <2>1, <3>1, <3>2, <3>3, <3>4, ItemKeepsCode
  <2> QED BY <1>11, <2>2, <2>3 DEF ItemCheckout
<1>12. CASE ItemPin
  <2>1. UNCHANGED <<head, inst, moved, built>> /\ run.pc = "pin"
    BY <1>12 DEF ItemPin, procs, At
  <2>2. run'.pc \in {"install", "undo"} /\ run'.todo = run.todo
    BY <1>7, <1>12 DEF ItemPin
  <2> QED BY <1>2, <1>5, <2>1, <2>2, ItemKeepsCode DEF Working
<1>13. CASE ItemInstall
  <2>1. UNCHANGED <<head, moved>> /\ run.pc = "install"
    BY <1>13 DEF ItemInstall, At
  <2>2. /\ run'.pc = "item" \/ (run'.pc = "undo" /\ run'.todo = run.todo)
        /\ Radiod \in up /\ built => built'
        /\ Item = Radiod /\ Radiod \in up => built' \/ inst'[Item] = inst[Item]
    <3>1. CASE Moved(Item) /\ built' = (built \/ (Item = Radiod /\ Radiod \in up))
      <4>1. run'.pc = "item"
        <5>1. CASE GoOn(TRUE, FALSE)
          BY <1>6, <5>1
        <5>2. CASE run' = [Idle EXCEPT !.pc = "item", !.rel = run.rel, !.back = run.back, !.quiet = run.quiet,
                           !.todo = Plan]
          BY <5>2 DEF Idle
        <5> QED BY <3>1, <5>1, <5>2 DEF Moved
      <4> QED BY <3>1, <4>1
    <3>2. ASSUME NEW i, inst' = [inst EXCEPT ![Item] = i],
                 built' = (built \/ (Item = Radiod /\ Radiod \in up /\ i # inst[Item])),
                 run' = [run EXCEPT !.pc = "undo"]
          PROVE  /\ run'.pc = "item" \/ (run'.pc = "undo" /\ run'.todo = run.todo)
                 /\ Radiod \in up /\ built => built'
                 /\ Item = Radiod /\ Radiod \in up => built' \/ inst'[Item] = inst[Item]
      <4>1. inst'[Item] = i
        BY <1>0, <1>1, <3>2
      <4> QED BY <1>7, <3>2, <4>1
    <3> QED BY <1>13, <3>1, <3>2 DEF ItemInstall
  <2>3. \A s \in up : Item \in Uses[s] => s \in moved'
    BY <1>5, <2>1 DEF Working
  <2>4. \A s \in up : Item \in Uses[s] => Marked(s)' \/ (Item = Radiod => inst'[Item] = inst[Item])
    BY <2>2, <2>3 DEF Marked
  <2> QED BY <1>2, <1>5, <1>8, <2>1, <2>2, <2>3, <2>4, ItemKeepsCode
<1>14. CASE ItemUndo
  <2>1. UNCHANGED <<inst, built>> /\ run.pc = "undo"
    BY <1>14 DEF ItemUndo, At
  <2>2. CASE Stop /\ UNCHANGED <<head, moved>>
    BY <1>2, <1>5, <1>6, <1>8, <2>1, <2>2, ItemKeepsCode
  <2>3. CASE head' = [head EXCEPT ![Item] = run.from] /\ Moves(Item)
    <3>1. run'.pc = "item" \/ (run'.pc = "rebuild" /\ run'.todo = run.todo)
      BY <1>6, <1>7, <1>14 DEF ItemUndo
    <3>2. head'[Item] # None
      BY <1>0, <1>1, <2>1, <2>3 DEF PlanInv, PathInv
    <3>3. moved \subseteq moved' /\ \A s \in up : Item \in Uses[s] => s \in moved'
      BY <2>3 DEF Moves
    <3>4. \A s \in up : Item \in Uses[s] => Marked(s)' \/ (Item = Radiod /\ inst'[Item] = inst[Item])
      BY <1>4, <2>1, <3>3 DEF Marked
    <3> QED BY <1>2, <1>8, <2>1, <3>1, <3>2, <3>3, <3>4, ItemKeepsCode
  <2> QED BY <1>14, <2>2, <2>3 DEF ItemUndo
<1>15. CASE ItemRebuild
  <2>1. UNCHANGED <<head, moved>> /\ run.pc = "rebuild" /\ run'.pc = "item"
    BY <1>6, <1>15 DEF ItemRebuild, At
  <2>2. CASE built' = (Radiod \in up)
    <3>1. \A s \in up : Item \in Uses[s] => Marked(s)'
      BY <1>5, <2>1, <2>2 DEF Marked, Working
    <3> QED BY <1>2, <1>5, <1>8, <2>1, <2>2, <3>1, ItemKeepsCode
  <2>3. CASE UNCHANGED <<inst, built>>
    BY <1>2, <1>5, <1>8, <2>1, <2>3, ItemKeepsCode
  <2> QED BY <1>15, <2>2, <2>3 DEF ItemRebuild
<1>16. CASE ItemClone
  <2>1. UNCHANGED <<moved, built>> /\ \A s \in up : Item \notin Uses[s]
    BY <1>5, <1>16 DEF ItemClone, procs
  <2>2. run'.pc = "item" \/ (run'.pc = "fresh" /\ run'.todo = run.todo)
    BY <1>6, <1>7, <1>16 DEF ItemClone
  <2> QED BY <1>2, <1>8, <2>1, <2>2, ItemKeepsCode
<1>17. CASE ItemFresh
  <2>1. run.pc = "fresh"
    BY <1>17 DEF ItemFresh, At
  <2>2. UNCHANGED <<moved, built>> /\ \A s \in up : Item \notin Uses[s]
    BY <1>5, <1>17, <2>1 DEF ItemFresh, procs, Working
  <2>3. run'.pc = "item"
    BY <1>6, <1>17 DEF ItemFresh
  <2> QED BY <1>2, <1>8, <2>2, <2>3, ItemKeepsCode
<1> QED BY <1>9, <1>10, <1>11, <1>12, <1>13, <1>14, <1>15, <1>16, <1>17

\* A service that starts loads what lies there; one that falls runs nothing.
LEMMA ProcsKeepCode ==
  ASSUME TypeOK, CodeInv, UNCHANGED <<head, inst>>, NEW s \in Services,
         (Starts(s) /\ \A c \in Uses[s] : head[c] # None) \/ Falls(s),
         run'.pc \notin Working \/ (run' = run /\ Falls(s))
  PROVE  CodeInv'
<1>1. ASSUME NEW t \in up' PROVE /\ code'[t] = Loaded(t)' \/ Marked(t)'
                                 /\ \A c \in Uses[t] : head'[c] # None
  <2>0. t \in Services /\ Loaded(t)' = Loaded(t) /\ code \in [Services -> UNION {[C -> Known] : C \in SUBSET Components}]
    BY DEF TypeOK, Starts, Falls, Loaded
  <2>1. CASE t = s
    <3>1. Starts(s) /\ code' = [code EXCEPT ![s] = Loaded(s)]
      BY <2>1 DEF Starts, Falls
    <3>2. code'[t] = Loaded(t)
      BY <2>0, <2>1, <3>1
    <3> QED BY <2>0, <2>1, <3>1, <3>2 DEF Falls
  <2>2. CASE t # s
    <3>1. t \in up /\ code'[t] = code[t] /\ (Marked(t) => Marked(t)')
      BY <2>0, <2>2 DEF Starts, Falls, Marked
    <3> QED BY <2>0, <3>1 DEF CodeInv
  <2> QED BY <2>1, <2>2
<1>2. ASSUME run'.pc \in Working, NEW t \in up', Item' \in Uses[t] PROVE run'.pc # "fresh" /\ t \in moved'
  <2>1. run' = run /\ Falls(s)
    BY <1>2
  <2>2. t \in up /\ t # s /\ Item' = Item
    BY <2>1 DEF Falls, Item
  <2> QED BY <1>2, <2>1, <2>2 DEF CodeInv, Falls
<1> QED BY <1>1, <1>2 DEF CodeInv

\* Every step keeps it.
LEMMA CodeInvInductive ==
  ASSUME NoMidrun, TypeOK, ItemInv, PlanInv, CodeInv, [Next]_vars
  PROVE  CodeInv'
<1>0. run \in Run
  BY DEF TypeOK
<1>1. ASSUME UNCHANGED <<station, procs>>, run'.pc \notin Working \/ run' = run PROVE CodeInv'
  <2>1. UNCHANGED <<head, inst, up, code, moved, built>>
    BY <1>1 DEF station, procs
  <2>2. \A s : Loaded(s)' = Loaded(s) /\ Marked(s)' = Marked(s)
    BY <2>1 DEF Loaded, Marked
  <2> QED BY <1>1, <2>1, <2>2 DEF CodeInv, Item
<1>2. \A how : Ends(how) => run'.pc \notin Working
  BY EndsKeeps DEF Working
<1>3. CASE \E r \in Releases, back, quiet \in BOOLEAN : Begin(r, back, quiet)
  <2>1. run'.pc = "item" /\ UNCHANGED <<station, procs>>
    BY <1>3 DEF Begin, Idle
  <2> QED BY <1>1, <2>1 DEF Working
<1>4. CASE ItemsDone \/ BringUp \/ Record \/ PlanRestarts \/ Owed \/ Check \/ Kill
  <2>1. UNCHANGED <<station, procs>>
    BY <1>4 DEF ItemsDone, BringUp, Record, PlanRestarts, Owed, Check, Kill
  <2>2. (\E how : Ends(how)) \/ run'.pc \in {"live", "record", "stale", "radiod", "restart", "check"}
    BY <1>0, <1>4 DEF ItemsDone, BringUp, Record, PlanRestarts, Owed, Check, Kill, Finishes, Run
  <2> QED BY <1>1, <1>2, <2>1, <2>2 DEF Working
<1>5. CASE RestartRadiod \/ \E s \in Services : RestartOne(s)
  <2>1. run'.pc \in {"restart", "owed"}
    BY <1>0, <1>5 DEF RestartRadiod, RestartOne, At, Run
  <2>2. \/ UNCHANGED procs
        \/ \E s \in Services : s \in up /\ (Starts(s) \/ Falls(s))
    BY <1>5 DEF RestartRadiod, RestartOne, TypeOK
  <2>3. UNCHANGED <<station, head, inst>>
    BY <1>5 DEF RestartRadiod, RestartOne, station
  <2>4. \A s \in up : \A c \in Uses[s] : head[c] # None
    BY DEF CodeInv
  <2> QED BY <1>1, <2>1, <2>2, <2>3, <2>4, ProcsKeepCode DEF Working
<1>6. ASSUME NEW s \in Services, Crash(s) \/ Restart(s) PROVE CodeInv'
  <2>1. UNCHANGED <<head, inst, run>>
    BY <1>6 DEF Crash, Restart, station
  <2>2. CASE Crash(s)
    BY <2>1, <2>2, ProcsKeepCode DEF Crash
  <2>3. CASE Restart(s)
    <3>1. run'.pc \notin Working
      BY <2>1, <2>3 DEF Restart, NoMidrun, Working
    <3> QED BY <2>1, <2>3, <3>1, ProcsKeepCode DEF Restart
  <2> QED BY <1>6, <2>2, <2>3
<1>7. CASE UNCHANGED vars
  BY <1>1, <1>7 DEF vars
<1> QED BY <1>3, <1>4, <1>5, <1>6, <1>7, ItemsKeepCode DEF Next

\* Every behaviour keeps it.
LEMMA CodeCorrect ==
  ASSUME NoMidrun
  PROVE  Spec => [](TypeOK /\ ItemInv /\ PlanInv /\ CodeInv /\ RestartInv)
<1>1. Init => PlanInv /\ CodeInv
  <2> SUFFICES ASSUME Init PROVE PlanInv /\ CodeInv
    OBVIOUS
  <2>1. run = Idle /\ Idle.pc = "idle" /\ Idle.todo = <<>>
    BY DEF Init, Idle
  <2>2. PlanInv
    BY <2>1 DEF Init, PlanInv, PathInv, InstInv, HeadInv, Working
  <2>3. CodeInv
    BY <2>1 DEF Init, CodeInv, Working
  <2> QED BY <2>2, <2>3
<1>2. TypeOK /\ ItemInv /\ PlanInv /\ CodeInv /\ [Next]_vars => PlanInv' /\ CodeInv'
  BY PlanInvInductive, CodeInvInductive
<1> QED BY <1>1, <1>2, RestartCorrect, PTL DEF Spec

\* For any plan, services and dependencies among them, and whatever failed or was
\* killed in the runs before: a run that ends well leaves every component checked
\* out at the release or ahead of it, every one that was not torn built from its
\* checkout, and every running process on the code that lies there.
THEOREM ReleaseIsLive ==
  ASSUME NoMidrun
  PROVE  Spec => ReleaseRuns
<1>1. TypeOK /\ ItemInv /\ PlanInv /\ CodeInv /\ RestartInv /\ [Next]_vars
        => [EndsOk =>
             /\ \A c \in Components : head[c] # None /\ head[c] >= run.rel
             /\ \A c \in Components \ torn : inst[c] = head[c]
             /\ \A s \in up : code[s] = Loaded(s)]_vars
  <2> SUFFICES ASSUME TypeOK, PlanInv, CodeInv, RestartInv, [Next]_vars, EndsOk
               PROVE  /\ \A c \in Components : head[c] # None /\ head[c] >= run.rel
                      /\ \A c \in Components \ torn : inst[c] = head[c]
                      /\ \A s \in up : code[s] = Loaded(s)
    OBVIOUS
  <2>1. Stale = {} /\ (run.pc = "live" \/ (run.pc \in {"restart", "owed", "check"} /\ ~run.bad))
    BY EndsOkClean
  <2>2. run.todo = <<>> /\ ~run.bad /\ run.pc \notin Working \union {"idle"}
    BY <2>1 DEF PlanInv, PathInv, Working
  <2>3. Listed(<<>>) = {}
    BY DEF Listed
  <2>4. /\ \A c \in Components : head[c] # None /\ head[c] >= run.rel
        /\ \A c \in Components \ torn : inst[c] = head[c]
    BY <2>2, <2>3 DEF PlanInv, InstInv, HeadInv, Working
  <2>5. \A s \in up : ~Marked(s)
    BY <2>1 DEF Stale, Marked
  <2> QED BY <2>4, <2>5 DEF CodeInv
<1> QED BY <1>1, CodeCorrect, PTL DEF Spec, ReleaseRuns
=============================================================================
