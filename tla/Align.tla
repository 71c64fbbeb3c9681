-------------------------------- MODULE Align --------------------------------
(***************************************************************************)
(* smd align --apply: bring every checkout to a release, build what must   *)
(* be built, record the alignment, restart what runs old code and check it *)
(* (align.py, align_apply.py, align_live.py, _align_* of bin/smd).         *)
(*                                                                         *)
(* One run holds the lifecycle lock, and may be killed between any two     *)
(* steps: a later run has only the checkouts, the processes' start times   *)
(* and aligned.json to go by.  A commit is a number, an ancestor of every  *)
(* larger one; release r pins every component at commit r.  Each move is   *)
(* taken to touch an install trigger.                                      *)
(***************************************************************************)
EXTENDS Naturals, Sequences, FiniteSets

CONSTANTS
  Plan,         \* the components in plan order: sigmond, the libraries, the rest
  Services,     \* those with units
  Uses,         \* for each service, the components whose code it runs
  Consumers,    \* the services that read radiod's stream
  Stamped,      \* those built through deploy.toml [build], with a build stamp
  LastCommit,   \* bound on commits
  Releases,     \* the commits that a release pins
  HasAlign,     \* commits of sigmond that know smd align
  FaultKinds,   \* what may fail
  MaxFaults,    \* bound on failures
  MaxHands      \* bound on services that die, or are started by somebody else

Radiod == "radiod"
Sigmond == "sigmond"
Components == {Plan[i] : i \in DOMAIN Plan}
Commits == 0 .. LastCommit
None == LastCommit + 1

\* radiod is built by smd itself, never through deploy.toml, and is judged by its
\* own binary: it runs no other component's code.
ASSUME AlignAssumption ==
  /\ Plan \in Seq(Components)
  /\ LastCommit \in Nat /\ Releases \subseteq Commits
  /\ Uses \in [Services -> SUBSET Components]
  /\ Radiod \in Services => Uses[Radiod] = {Radiod}
  /\ Radiod \notin Stamped
  /\ Consumers \subseteq Services \ {Radiod}
  /\ MaxFaults \in Nat /\ MaxHands \in Nat

VARIABLES
  head,     \* each checkout's commit, None if there is no checkout
  pin,      \* its .pin
  inst,     \* the commit its last build or install.sh was of
  up,       \* services that run
  code,     \* the commits each service's process was started from
  moved,    \* running services whose code's checkout moved since they started
  built,    \* radiod's binary was written since radiod started
  behind,   \* consumers that started before radiod did
  aligned,  \* aligned.json; release None when it cannot be read
  run,      \* the run that holds the lock
  exit,     \* how the last run ended
  faults, hands,
  \* history, for the properties only
  torn,     \* components a kill, or a failed rollback, left between two commits
  reported  \* down services a finished run of this release has named, in an
            \* aligned.json that has not been torn since

station == <<head, pin, inst>>
procs == <<up, code, moved, built, behind>>
ghosts == <<torn, reported>>
vars == <<station, procs, aligned, run, exit, faults, hands, ghosts>>

NoLive == [restarted |-> {}, failed |-> {}, ok |-> TRUE, complete |-> FALSE]
Idle == [pc |-> "idle", rel |-> 0, back |-> FALSE, quiet |-> FALSE, todo |-> <<>>, from |-> None,
         was |-> None, changed |-> FALSE, bad |-> FALSE, prior |-> NoLive, restarts |-> {},
         restarted |-> {}, failed |-> {}, watch |-> {}]

Known == Commits \union {None}
Live == [restarted: SUBSET Services, failed: SUBSET Services, ok: BOOLEAN, complete: BOOLEAN]
Run == [pc: {"idle", "item", "pin", "install", "undo", "rebuild", "fresh", "live",
             "record", "stale", "radiod", "restart", "owed", "check"},
        rel: Commits, back: BOOLEAN, quiet: BOOLEAN, todo: Seq(Components), from: Known,
        was: Known, changed: BOOLEAN, bad: BOOLEAN, prior: Live, restarts: SUBSET Services,
        restarted: SUBSET Services, failed: SUBSET Services, watch: SUBSET Services]

TypeOK ==
  /\ head \in [Components -> Known] /\ pin \in [Components -> Known] /\ inst \in [Components -> Known]
  /\ up \subseteq Services /\ moved \subseteq Services /\ built \in BOOLEAN /\ behind \subseteq Consumers
  /\ code \in [Services -> UNION {[C -> Known] : C \in SUBSET Components}]
  /\ aligned \in [rel: Known, live: Live]
  /\ run \in Run
  /\ exit \in {"none", "ok", "bad", "quiet", "killed"}
  /\ faults \in 0 .. MaxFaults /\ hands \in 0 .. MaxHands
  /\ torn \subseteq Components /\ reported \subseteq Services

\* What a process of s started now runs: radiod its binary, the others their
\* checkouts.
Loaded(s) == [c \in Uses[s] |-> IF c = Radiod THEN inst[c] ELSE head[c]]

\* A station on commit 0, everything built and running; at most one component
\* is ahead of it, or missing.
Init ==
  /\ \E odd \in Components, h \in {0, LastCommit, None} :
       /\ odd = Sigmond => h # None
       /\ head = [c \in Components |-> IF c = odd THEN h ELSE 0]
  /\ pin = [c \in Components |-> IF head[c] = 0 THEN 0 ELSE None]
  /\ inst = head
  /\ up = {s \in Services : \A c \in Uses[s] : head[c] # None}
  /\ code = [s \in Services |-> Loaded(s)]
  /\ moved = {} /\ built = FALSE /\ behind = {}
  /\ aligned = [rel |-> 0, live |-> NoLive] /\ run = Idle /\ exit = "none"
  /\ faults = 0 /\ hands = 0
  /\ torn = {} /\ reported = {}

Fault(kind) == kind \in FaultKinds /\ faults < MaxFaults /\ faults' = faults + 1
NoFault == UNCHANGED faults

(***************************************************************************)
(* A run, its items                                                        *)
(***************************************************************************)

\* The operator runs smd align --apply, with or without --allow-rollback and
\* --no-restart.
Begin(r, back, quiet) ==
  /\ run.pc = "idle"
  /\ run' = [Idle EXCEPT !.pc = "item", !.rel = r, !.back = back, !.quiet = quiet, !.todo = Plan]
  /\ exit' = "none"
  /\ UNCHANGED <<station, procs, aligned, faults, hands, ghosts>>

At(pc) == run.pc = pc
Item == Head(run.todo)
AtItem(pc) == At(pc) /\ run.todo # <<>>
Quiet == UNCHANGED <<aligned, exit, hands, reported>>

\* The item is over and the plan goes on; the plan stops, the rest is skipped.
GoOn(changed, bad) ==
  run' = [run EXCEPT !.pc = "item", !.todo = Tail(@), !.changed = @ \/ changed, !.bad = @ \/ bad]
Stop == run' = [run EXCEPT !.pc = "item", !.todo = <<>>, !.bad = TRUE]

\* _refresh_pin, whose failure is only told, and _build_current.
ItemCurrent ==
  LET c == Item
      due == c \in Stamped /\ inst[c] # head[c]
  IN /\ AtItem("item") /\ head[c] = run.rel
     /\ \/ /\ pin' = [pin EXCEPT ![c] = run.rel]
           /\ inst' = [inst EXCEPT ![c] = IF due THEN run.rel ELSE @]
           /\ torn' = IF due THEN torn \ {c} ELSE torn
           /\ GoOn(due, FALSE) /\ NoFault
        \/ /\ ~due /\ Fault("pin")
           /\ GoOn(FALSE, FALSE) /\ UNCHANGED <<pin, inst, torn>>
        \/ /\ due /\ Fault("build")
           /\ pin' = [pin EXCEPT ![c] = run.rel]
           /\ Stop /\ UNCHANGED <<inst, torn>>
     /\ UNCHANGED <<head, procs>> /\ Quiet

\* Dirty, unreadable, not vouched for, radiod not installed: refused, and the
\* plan goes on, unless it is sigmond that did not move.
ItemRefused ==
  /\ AtItem("item") /\ head[Item] # run.rel
  /\ \/ Item = Radiod /\ head[Item] = None /\ NoFault
     \/ Fault("refuse")
  /\ IF Item = Sigmond /\ head[Item] < run.rel THEN Stop ELSE GoOn(FALSE, TRUE)
  /\ UNCHANGED <<station, procs, torn>> /\ Quiet

Ahead(c) == head[c] > run.rel /\ head[c] # None

ItemLeft ==
  /\ AtItem("item") /\ Ahead(Item) /\ ~run.back
  /\ GoOn(FALSE, FALSE) /\ NoFault
  /\ UNCHANGED <<station, procs, torn>> /\ Quiet

\* The checkout's reflog gets a line: whoever runs its code is stale.
Moves(c) == moved' = moved \union {s \in up : c \in Uses[s]}

\* _move, steps 1 to 5.
ItemCheckout ==
  LET c == Item
  IN /\ AtItem("item")
     /\ head[c] < run.rel \/ (Ahead(c) /\ run.back)
     /\ \/ /\ head' = [head EXCEPT ![c] = run.rel] /\ Moves(c)
           /\ run' = [run EXCEPT !.pc = "pin", !.from = head[c], !.was = pin[c]] /\ NoFault
        \/ Fault("fetch") /\ Stop /\ UNCHANGED <<head, moved>>
     /\ UNCHANGED <<pin, inst, up, code, built, behind, torn>> /\ Quiet

\* Step 6: from here a failure rolls back.
ItemPin ==
  /\ At("pin")
  /\ \/ /\ pin' = [pin EXCEPT ![Item] = run.rel]
        /\ run' = [run EXCEPT !.pc = "install"] /\ NoFault
     \/ Fault("pin") /\ run' = [run EXCEPT !.pc = "undo"] /\ UNCHANGED pin
  /\ UNCHANGED <<head, inst, procs, torn>> /\ Quiet

\* After sigmond's own move the new smd is exec'd and plans again.
Moved(c) ==
  IF c = Sigmond /\ run.from < run.rel /\ run.rel \in HasAlign
  THEN run' = [Idle EXCEPT !.pc = "item", !.rel = run.rel, !.back = run.back, !.quiet = run.quiet,
                           !.todo = Plan]
  ELSE GoOn(TRUE, FALSE)

\* The build of radiod, install.sh, or deploy.toml [build].  One that fails
\* may have installed the new code all the same.
ItemInstall ==
  LET c == Item
  IN /\ At("install")
     /\ \/ /\ inst' = [inst EXCEPT ![c] = run.rel] /\ torn' = torn \ {c}
           /\ built' = (built \/ (c = Radiod /\ Radiod \in up))
           /\ Moved(c) /\ NoFault
        \/ \E i \in {inst[c], run.rel} :
             /\ Fault("build")
             /\ inst' = [inst EXCEPT ![c] = i]
             /\ torn' = IF i # run.from THEN torn \union {c} ELSE torn
             /\ built' = (built \/ (c = Radiod /\ Radiod \in up /\ i # inst[c]))
             /\ run' = [run EXCEPT !.pc = "undo"]
     /\ UNCHANGED <<head, pin, up, code, moved, behind>> /\ Quiet

\* _roll_back: .pin first, then the checkout.
ItemUndo ==
  LET c == Item
  IN /\ At("undo")
     /\ pin' = [pin EXCEPT ![c] = run.was]
     /\ \/ /\ head' = [head EXCEPT ![c] = run.from] /\ Moves(c)
           /\ IF c = Radiod THEN run' = [run EXCEPT !.pc = "rebuild"] ELSE Stop
           /\ NoFault /\ UNCHANGED torn
        \/ Fault("rollback") /\ torn' = torn \union {c} /\ Stop /\ UNCHANGED <<head, moved>>
     /\ UNCHANGED <<inst, up, code, built, behind>> /\ Quiet

\* _rollback_and_rebuild: radiod is built again at the commit it is back on.
ItemRebuild ==
  /\ At("rebuild")
  /\ \/ /\ inst' = [inst EXCEPT ![Radiod] = head[Radiod]] /\ torn' = torn \ {Radiod}
        /\ built' = (Radiod \in up) /\ NoFault
     \/ Fault("build") /\ torn' = torn \union {Radiod} /\ UNCHANGED <<inst, built>>
  /\ Stop
  /\ UNCHANGED <<head, pin, up, code, moved, behind>> /\ Quiet

\* _align_install_missing: clone at the pin, install; a fresh clone whose
\* install fails is removed.  Nothing is started.
ItemClone ==
  /\ AtItem("item") /\ head[Item] = None /\ Item # Radiod
  /\ \/ /\ head' = [head EXCEPT ![Item] = run.rel]
        /\ run' = [run EXCEPT !.pc = "fresh"] /\ NoFault
     \/ Fault("fetch") /\ Stop /\ UNCHANGED head
  /\ UNCHANGED <<pin, inst, procs, torn>> /\ Quiet

\* Mutant: the clone stays when its install fails.
ItemFreshKept ==
  LET c == Item
  IN /\ At("fresh")
     /\ \/ /\ inst' = [inst EXCEPT ![c] = run.rel] /\ pin' = [pin EXCEPT ![c] = run.rel]
           /\ GoOn(TRUE, FALSE) /\ NoFault
        \/ Fault("build") /\ Stop /\ UNCHANGED <<inst, pin>>
     /\ UNCHANGED <<head, procs, torn>> /\ Quiet

ItemFresh ==
  LET c == Item
  IN /\ At("fresh")
     /\ \/ /\ inst' = [inst EXCEPT ![c] = run.rel] /\ pin' = [pin EXCEPT ![c] = run.rel]
           /\ GoOn(TRUE, FALSE) /\ NoFault /\ UNCHANGED head
        \/ /\ Fault("build") /\ head' = [head EXCEPT ![c] = None]
           /\ Stop /\ UNCHANGED <<inst, pin>>
     /\ UNCHANGED <<procs, torn>> /\ Quiet

(***************************************************************************)
(* What the run makes live                                                 *)
(***************************************************************************)

LivePassed(l) == l.complete /\ l.failed = {} /\ l.ok

\* Mutant: consumers are not compared with radiod's start.
StaleWithoutRadiod ==
  {s \in up \intersect moved : s = Radiod => built}

\* _align_staleness: read from the station itself.  radiod is stale when its
\* binary and its checkout both moved since it started.
Stale ==
  {s \in up \intersect moved : s = Radiod => built}
    \union (IF Radiod \in up THEN up \intersect behind ELSE {})

Ends(how) == exit' = how /\ run' = Idle

\* The items are through.  One that failed, was refused or skipped ends the run
\* with history lines only.
ItemsDone ==
  /\ At("item") /\ run.todo = <<>>
  /\ IF run.bad THEN Ends("bad")
     ELSE run' = [run EXCEPT !.pc = "live", !.prior = aligned.live] /\ UNCHANGED exit
  /\ UNCHANGED <<station, procs, aligned, faults, hands, ghosts>>

Nothing ==
  /\ ~run.changed /\ aligned.rel = run.rel /\ LivePassed(run.prior) /\ Stale = {}

\* Image files and bring-up, unless there is nothing to do.
BringUp ==
  /\ At("live")
  /\ \/ Nothing /\ Ends("ok") /\ NoFault
     \/ ~Nothing /\ run' = [run EXCEPT !.pc = "record"] /\ NoFault /\ UNCHANGED exit
     \/ ~Nothing /\ Fault("bringup") /\ Ends("bad")
  /\ UNCHANGED <<station, procs, aligned, hands, ghosts>>

\* Mutant: the rewrite forgets the live block.
RecordBlank ==
  /\ At("record")
  /\ aligned' = [rel |-> run.rel, live |-> NoLive]
  /\ reported' = IF aligned.rel = run.rel THEN reported ELSE {}
  /\ run' = [run EXCEPT !.pc = "stale"]
  /\ UNCHANGED <<station, procs, exit, faults, hands, torn>>

\* record: a rewrite for the same release keeps the live block of an earlier
\* restart stage.  It is written in place: a write that is killed or fails part
\* way ends the run and leaves a file that cannot be read, with the live block
\* gone, and what only that block had named with it.
Record ==
  /\ At("record")
  /\ \/ /\ aligned' = [rel |-> run.rel, live |-> IF aligned.rel = run.rel THEN aligned.live ELSE NoLive]
        /\ reported' = IF aligned.rel = run.rel THEN reported ELSE {}
        /\ run' = [run EXCEPT !.pc = "stale"] /\ NoFault /\ UNCHANGED exit
     \/ /\ Fault("torn") /\ Ends("killed")
        /\ aligned' = [rel |-> None, live |-> NoLive] /\ reported' = {}
  /\ UNCHANGED <<station, procs, hands, torn>>

\* restart_sequence: radiod first, and every running consumer after it.
PlanRestarts ==
  /\ At("stale")
  /\ \/ Fault("staleness") /\ Ends("bad")
     \/ run.quiet /\ Ends("quiet") /\ NoFault
     \/ /\ ~run.quiet /\ NoFault /\ UNCHANGED exit
        /\ run' = [run EXCEPT
                     !.pc = IF Radiod \in Stale THEN "radiod" ELSE "restart",
                     !.restarts = (Stale \union (IF Radiod \in Stale THEN up \intersect Consumers ELSE {}))
                                  \ {Radiod}]
  /\ UNCHANGED <<station, procs, aligned, hands, ghosts>>

\* A process of s starts on what lies there now.
Starts(s) ==
  /\ up' = up \union {s}
  /\ code' = [code EXCEPT ![s] = Loaded(s)]
  /\ moved' = moved \ {s}
  /\ built' = (built /\ s # Radiod)
  /\ behind' = IF s = Radiod THEN up \intersect Consumers ELSE behind \ {s}

Falls(s) ==
  /\ up' = up \ {s} /\ moved' = moved \ {s} /\ behind' = behind \ {s}
  /\ built' = (built /\ s # Radiod) /\ UNCHANGED code

\* A radiod that does not start, or is not ready in time, ends the restarts.
RestartRadiod ==
  LET skip == run' = [run EXCEPT !.pc = "owed", !.restarts = {}, !.failed = @ \union {Radiod}, !.bad = TRUE,
                                 !.watch = IF Radiod \in up' THEN {Radiod} ELSE {}]
  IN /\ At("radiod")
     /\ \/ /\ Radiod \in up /\ Starts(Radiod) /\ NoFault
           /\ run' = [run EXCEPT !.pc = "restart", !.restarted = @ \union {Radiod}, !.watch = {Radiod}]
        \/ Radiod \in up /\ Falls(Radiod) /\ Fault("restart") /\ skip
        \/ Radiod \in up /\ Starts(Radiod) /\ Fault("ready") /\ skip
        \/ /\ Radiod \notin up /\ run' = [run EXCEPT !.pc = "restart"]
           /\ NoFault /\ UNCHANGED procs
     /\ reported' = reported \ up'
     /\ UNCHANGED <<station, aligned, exit, hands, torn>>

\* A service that does not run is left alone.
RestartOne(s) ==
  /\ At("restart") /\ s \in run.restarts
  /\ \/ /\ s \in up /\ Starts(s) /\ NoFault
        /\ run' = [run EXCEPT !.restarts = @ \ {s}, !.restarted = @ \union {s}, !.watch = @ \union {s}]
     \/ /\ s \in up /\ Falls(s) /\ Fault("restart")
        /\ run' = [run EXCEPT !.restarts = @ \ {s}, !.failed = @ \union {s}, !.bad = TRUE]
     \/ /\ s \notin up /\ NoFault /\ UNCHANGED procs
        /\ run' = [run EXCEPT !.restarts = @ \ {s}]
  /\ reported' = reported \ up'
  /\ UNCHANGED <<station, aligned, exit, hands, torn>>

\* What an earlier stage that did not finish and pass restarted, or failed to,
\* and is down.
StillDown ==
  IF LivePassed(run.prior) THEN {}
  ELSE (run.prior.restarted \union run.prior.failed) \ (run.restarted \union run.failed \union up)

Recheck == IF LivePassed(run.prior) THEN {} ELSE run.prior.restarted \intersect up

Finishes(failed, ok, bad) ==
  /\ aligned' = [aligned EXCEPT !.live = [restarted |-> run.restarted, failed |-> failed, ok |-> ok,
                                          complete |-> TRUE]]
  /\ reported' = reported \union (failed \ up)
  /\ Ends(IF bad \/ ~ok \/ failed # {} THEN "bad" ELSE "ok")

\* The live block is written before the wait, incomplete.
Owed ==
  LET failed == run.failed \union StillDown
      watch == run.watch \union Recheck
  IN /\ (At("restart") /\ run.restarts = {}) \/ At("owed")
     /\ IF watch = {} THEN Finishes(failed, TRUE, run.bad)
        ELSE /\ aligned' = [aligned EXCEPT !.live = [restarted |-> run.restarted, failed |-> failed,
                                                     ok |-> TRUE, complete |-> FALSE]]
             /\ run' = [run EXCEPT !.pc = "check", !.failed = failed, !.watch = watch]
             /\ UNCHANGED <<exit, reported>>
     /\ UNCHANGED <<station, procs, faults, hands, torn>>

\* _align_fast_checks, after the wait: each unit still active and not started
\* again, the authority fresh, the heartbeat sent.
Check ==
  /\ At("check")
  /\ \/ Finishes(run.failed, run.watch \subseteq up, run.bad) /\ NoFault
     \/ Finishes(run.failed, FALSE, run.bad) /\ Fault("unstable")
  /\ UNCHANGED <<station, procs, hands, torn>>

(***************************************************************************)
(* Everything else                                                         *)
(***************************************************************************)

\* Ctrl-C, or the power: whatever was between two commits stays there.
Kill ==
  /\ ~At("idle") /\ Fault("kill") /\ Ends("killed")
  /\ torn' = IF run.pc \in {"pin", "install", "undo", "rebuild", "fresh"} THEN torn \union {Item} ELSE torn
  /\ UNCHANGED <<station, procs, aligned, hands, reported>>

Hand(kind) == kind \in FaultKinds /\ hands < MaxHands /\ hands' = hands + 1

Crash(s) ==
  /\ Hand("crash") /\ s \in up /\ Falls(s)
  /\ UNCHANGED <<station, aligned, run, exit, faults, ghosts>>

\* Somebody else starts the service: systemd, a watchdog, the operator.  Inside
\* a move, and inside the restart stage, only under the kind "midrun".
Restart(s) ==
  /\ Hand("start") /\ Starts(s)
  /\ \A c \in Uses[s] : head[c] # None
  /\ run.pc \in {"idle", "item", "live", "record", "stale"} \/ "midrun" \in FaultKinds
  /\ reported' = reported \ {s}
  /\ UNCHANGED <<station, aligned, run, exit, faults, torn>>

Next ==
  \/ \E r \in Releases, back, quiet \in BOOLEAN : Begin(r, back, quiet)
  \/ ItemCurrent \/ ItemRefused \/ ItemLeft \/ ItemCheckout \/ ItemPin \/ ItemInstall
  \/ ItemUndo \/ ItemRebuild \/ ItemClone \/ ItemFresh \/ ItemsDone \/ BringUp \/ Record
  \/ PlanRestarts \/ RestartRadiod \/ Owed \/ Check \/ Kill
  \/ \E s \in Services : RestartOne(s) \/ Crash(s) \/ Restart(s)

Spec == Init /\ [][Next]_vars

(***************************************************************************)
(* Properties                                                              *)
(***************************************************************************)

EndsOk == exit # "ok" /\ exit' = "ok"

\* A run that ends well leaves every component checked out at the release, or
\* ahead of it by the operator's choice, and built from its checkout, and every
\* process on the code that lies there, whatever failed in the runs before it, or
\* was killed, but for the build of the components in `torn`: a kill between a checkout and
\* its build, or a failed rollback, leaves nothing a later run could see it by,
\* and only the next move, or a build stamp, mends it.
ReleaseRuns ==
  [][EndsOk =>
       /\ \A c \in Components : head[c] # None /\ head[c] >= run.rel
       /\ \A c \in Components \ torn : inst[c] = head[c]
       /\ \A s \in up : code[s] = Loaded(s)]_vars

\* "radiod restarted after it started": after a run that ends well no consumer
\* still reads the radiod of before, even if the run that restarted radiod was
\* killed or failed before it came to the consumers.
ConsumersFollow == [][EndsOk /\ Radiod \in up => up \intersect behind = {}]_vars

\* "no later run calls the station aligned while it is down": a service that a
\* finished run named as failed, and nobody has started, keeps later runs of the
\* release from ending well, unless aligned.json itself was torn since (Record,
\* the kind "torn"): then the report is lost with the file.
DownIsLoud == [][EndsOk => reported = {}]_vars

=============================================================================
