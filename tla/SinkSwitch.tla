------------------------------ MODULE SinkSwitch ------------------------------
(***************************************************************************)
(* The sink switches: who may send, and the senders that must follow.      *)
(*                                                                         *)
(* Two programs write them.  `smd sink off|fill|upload` gives a site order *)
(* (commands/config.py); the manifest step, under the install lock, does   *)
(* the carry-over, or, once the marker of the carry-over stands, repairs   *)
(* the [uploads] mirror, gives late clients a switch file and runs the     *)
(* lever step (commands/uploader.py, sink_carryover.py, sink_mirror.py,    *)
(* sink_levers.py).  Only the manifest step takes the lock: the steps of   *)
(* the two interleave, and either may be killed between any two.           *)
(*                                                                         *)
(* A client's sender is armed by its env file and runs with the file it    *)
(* was started under.  hs-uploader, which keeps the switch files, is       *)
(* external: `sink set` writes one file or fails.                          *)
(***************************************************************************)
EXTENDS Naturals, FiniteSets

CONSTANTS
  Clients,     \* the clients whose sender an env file arms
  Enabled,     \* those the topology enables: only these have units
  FillClients, \* those under a stop order, or not enabled
  LateClients, \* those installed after the station's first day
  FaultKinds,  \* what may fail, and what hands may do: a subset of AllFaults
  MaxFaults,   \* bound on these
  MaxOrders    \* bound on site orders

ASSUME SinkAssumption == Clients \ Enabled \subseteq FillClients

States == {"off", "fill", "upload"}
FileStates == States \union {"missing", "error"}
AllFaults == {"set", "patch", "status", "lever", "restart", "writer", "kill",
              "gate", "mode", "remove", "break", "arm", "client", "install", "update"}

VARIABLES
  gate,      \* hs-uploader offers the feature `gate`
  marker,    \* the marker of the carry-over stands
  site,      \* site.toml
  mode,      \* [uploads] mode, as the site state it means
  file,      \* each client's switch file
  governed,  \* the clients with pipelines
  env,       \* clients whose env file arms the sender
  proc,      \* clients whose process runs with an armed sender
  old,       \* clients whose process predates hs-uploader's writer
  run,       \* the manifest step ("step") and the site order ("order")
  faults, orders,
  \* history, for the properties only
  touched,   \* clients somebody else has changed since the step began
  last       \* the site state last ordered, "none" if it is excused

vars == <<gate, marker, site, mode, file, governed, env, proc, old, run, faults, orders,
          touched, last>>
senders == <<env, proc, old>>
switches == <<site, mode, file>>
ghosts == <<touched, last>>

Actors == {"step", "order"}
Idle == [pc |-> "idle", kind |-> "none", site |-> "none", new |-> "none", writes |-> {},
         below |-> {}, off |-> FALSE, todo |-> {}, done |-> {}, bad |-> FALSE, blind |-> FALSE]

Run == [pc: {"idle", "mirror", "late", "write", "read", "lever", "restart", "verify",
             "stale", "mark", "set", "patch"},
        kind: {"none", "carry", "late", "lever", "marked", "unmarked"},
        site: States \union {"none"}, new: States \union {"none"},
        writes: SUBSET Clients, below: SUBSET Clients, off: BOOLEAN,
        todo: SUBSET Clients, done: SUBSET Clients, bad: BOOLEAN, blind: BOOLEAN]

TypeOK ==
  /\ gate \in BOOLEAN /\ marker \in BOOLEAN
  /\ site \in FileStates /\ mode \in States
  /\ file \in [Clients -> FileStates]
  /\ governed \subseteq Clients
  /\ env \subseteq Clients /\ proc \subseteq Clients /\ old \subseteq Clients
  /\ run \in [Actors -> Run]
  /\ faults \in 0 .. MaxFaults /\ orders \in 0 .. MaxOrders
  /\ touched \subseteq Clients /\ last \in States \union {"none"}

\* _client_write: the state of a new client file.
FirstState(c) == IF c \in FillClients THEN "fill" ELSE "upload"

\* A station before its first carry-over, with env files that arm their sender
\* or not; or one that was carried over, whose daemon may have lost the gate.
Init ==
  /\ mode \in States
  /\ governed = Clients \ LateClients
  /\ \/ /\ gate = TRUE /\ marker = FALSE /\ site = "missing"
        /\ file = [c \in Clients |-> "missing"]
        /\ env \in SUBSET Clients
     \/ /\ gate \in BOOLEAN /\ marker = TRUE /\ site = mode
        /\ file = [c \in Clients |-> IF c \in governed THEN FirstState(c) ELSE "missing"]
        /\ \E left \in SUBSET (Clients \ Enabled) :
             env = left \union IF mode = "upload" THEN Clients \ FillClients ELSE {}
  /\ proc = env
  /\ old \in {{}, Clients}
  /\ run = [a \in Actors |-> Idle]
  /\ faults = 0 /\ orders = 0
  /\ touched = {} /\ last = "none"

Fault(kind) == kind \in FaultKinds /\ faults < MaxFaults /\ faults' = faults + 1
NoFault == UNCHANGED faults

(***************************************************************************)
(* What the switches mean                                                  *)
(***************************************************************************)

Stricter(a, b) == IF "off" \in {a, b} THEN "off" ELSE IF "fill" \in {a, b} THEN "fill" ELSE "upload"

SiteLimit(s) == IF s = "missing" THEN "upload" ELSE IF s = "error" THEN "off" ELSE s
ClientEffective(s) == IF s \in States THEN s ELSE "off"
Effective(c) == Stricter(SiteLimit(site), ClientEffective(file[c]))

\* What each governed client will read under the site state s, once the
\* missing files are written.
Planned(s, c) ==
  Stricter(s, IF file[c] = "missing" THEN FirstState(c) ELSE ClientEffective(file[c]))

Armed(C) == C \intersect (env \union proc)

(***************************************************************************)
(* The manifest step: what there is to do                                  *)
(***************************************************************************)

Missing == {c \in governed : file[c] = "missing"}
Below(s, C) == {c \in C : Planned(s, c) # "upload"}
ReadsOff(s, C) == \E c \in C : Planned(s, c) = "off"

To(a, r) == run' = [run EXCEPT ![a] = r]

\* plan, without the marker.
StepCarry ==
  /\ run["step"].pc = "idle" /\ gate /\ ~marker
  /\ To("step", [Idle EXCEPT !.pc = "write", !.kind = "carry",
                   !.site = IF site = mode THEN "none" ELSE mode,
                   !.writes = Missing, !.below = Below(mode, governed),
                   !.off = ReadsOff(mode, governed)])
  /\ touched' = {}
  /\ UNCHANGED <<gate, marker, switches, governed, senders, faults, orders, last>>

\* Mutant: the mirror is copied over the switch.
RepairSwapped == IF site = mode THEN "none" ELSE mode

\* plan_mirror: the site state to recreate, when the file is missing.
Repair == IF site = "missing" THEN mode ELSE "none"

\* With the marker: plan_mirror.  A broken site.toml ends the step.
StepStanding ==
  /\ run["step"].pc = "idle" /\ gate /\ marker
  /\ site # "error"
  /\ To("step", [Idle EXCEPT !.pc = "mirror", !.site = Repair,
                   !.new = IF site \in States THEN site ELSE "none"])
  /\ touched' = {}
  /\ UNCHANGED <<gate, marker, switches, governed, senders, faults, orders, last>>

\* _move_aside.
StepAside ==
  /\ run["step"].pc = "idle" /\ ~gate /\ marker
  /\ marker' = FALSE
  /\ UNCHANGED <<gate, switches, governed, senders, run, faults, orders, ghosts>>

\* apply_mirror; its failures do not end the step.
StepMirror ==
  LET r == run["step"] IN
  /\ r.pc = "mirror"
  /\ \/ /\ site' = IF r.site = "none" THEN site ELSE r.site
        /\ mode' = IF r.site # "none" \/ r.new = "none" THEN mode ELSE r.new
        /\ NoFault
     \/ Fault("set") /\ UNCHANGED <<site, mode>>
  /\ To("step", [Idle EXCEPT !.pc = "late"])
  /\ UNCHANGED <<gate, marker, file, governed, senders, orders, ghosts>>

\* late_clients.
StepLate ==
  /\ run["step"].pc = "late"
  /\ LET limit == SiteLimit(site) IN
     To("step", IF Missing = {} THEN [Idle EXCEPT !.pc = "read", !.kind = "lever"]
                ELSE [Idle EXCEPT !.pc = "write", !.kind = "late", !.writes = Missing,
                        !.below = Below(limit, Missing), !.off = ReadsOff(limit, Missing)])
  /\ UNCHANGED <<gate, marker, switches, governed, senders, faults, orders, ghosts>>

(***************************************************************************)
(* The manifest step: apply                                                *)
(***************************************************************************)

\* The site file, then each client's: a `sink set` that fails ends the step.
StepWriteSite ==
  LET r == run["step"] IN
  /\ r.pc = "write" /\ r.site # "none"
  /\ \/ site' = r.site /\ To("step", [r EXCEPT !.site = "none"]) /\ NoFault
     \/ UNCHANGED site /\ To("step", Idle) /\ Fault("set")
  /\ UNCHANGED <<gate, marker, mode, file, governed, senders, orders, ghosts>>

StepWrite(c) ==
  LET r == run["step"] IN
  /\ r.pc = "write" /\ r.site = "none" /\ c \in r.writes
  /\ \/ /\ file' = [file EXCEPT ![c] = FirstState(c)]
        /\ To("step", [r EXCEPT !.writes = @ \ {c}]) /\ NoFault
     \/ UNCHANGED file /\ To("step", Idle) /\ Fault("set")
  /\ UNCHANGED <<gate, marker, site, mode, governed, senders, orders, ghosts>>

\* Where a run goes once the levers are down.
AfterLevers(r) ==
  CASE r.kind = "carry" -> IF r.off THEN "stale" ELSE "mark"
    [] r.kind = "late" -> IF r.off THEN "stale" ELSE "idle"
    [] r.kind = "marked" -> IF r.new = "off" THEN "stale" ELSE "set"
    [] OTHER -> "idle"

Goes(r, pc) == IF pc = "idle" THEN Idle ELSE [r EXCEPT !.pc = pc]

\* What hs-uploader reads below upload, besides the plan's own.
ReadBack == {c \in governed : Effective(c) # "upload"}

\* _read_back, or the status read of _lever_step.  A status that cannot be
\* read ends the step, unless no legacy manifest stands: then the carry-over
\* goes on with its own states.
StepRead ==
  LET r == run["step"]
      read == [r EXCEPT !.below = @ \union ReadBack,
                        !.off = @ \/ \E c \in governed : Effective(c) = "off"]
      on(q) == Goes(q, IF q.below # {} THEN "lever" ELSE AfterLevers(q))
  IN /\ r.pc = "read" \/ (r.pc = "write" /\ r.site = "none" /\ r.writes = {})
     /\ \/ To("step", on(read)) /\ NoFault
        \/ To("step", Idle) /\ Fault("status")
        \/ r.kind # "lever" /\ To("step", on(r)) /\ Fault("status")
     /\ UNCHANGED <<gate, marker, switches, governed, senders, orders, ghosts>>

(***************************************************************************)
(* The lever step, for both                                                *)
(***************************************************************************)

\* _units_of: a client the topology does not enable has no units, so no lever,
\* no check and no restart reaches it.
Reached(r) == r.below \intersect Enabled

\* Mutant: a lever written by a run that died is not noticed.
UnloadedNever(C) == {}

\* _lever_unloaded: lowered on disk, and the process predates the file.
Unloaded(C) == (C \intersect proc) \ env

\* plan_levers and the first half of apply_levers: each armed env file is
\* lowered; a file that is not written, or overridden, stops no other.
LeverWrite(a) ==
  LET r == run[a]
      levers == Reached(r) \intersect env
  IN /\ r.pc = "lever"
     /\ \E failed \in SUBSET levers :
          /\ IF failed = {} THEN NoFault ELSE Fault("lever")
          /\ env' = env \ (levers \ failed)
          /\ To(a, [r EXCEPT !.pc = "restart", !.bad = failed # {},
                     !.todo = (levers \ failed) \union Unloaded(Reached(r))])
     /\ UNCHANGED <<gate, marker, switches, governed, proc, old, orders, ghosts>>

\* A restarted process loads its env file and the installed writer.
Restarted(C) == /\ proc' = (proc \ C) \union (C \intersect env)
                /\ old' = old \ C

\* restart_units: each alone; then radiod must be found not to have moved.
LeverRestart(a) ==
  LET r == run[a] IN
  /\ r.pc = "restart"
  /\ \E failed \in SUBSET r.todo, moved \in BOOLEAN :
       /\ IF failed = {} /\ ~moved THEN NoFault ELSE Fault("restart")
       /\ Restarted(r.todo \ failed)
       /\ To(a, [r EXCEPT !.pc = "verify", !.todo = {}, !.done = r.todo \ failed,
                          !.bad = @ \/ moved \/ failed # {}])
  /\ UNCHANGED <<gate, marker, switches, governed, env, orders, ghosts>>

\* verify_levers: armed on disk, or running from before its file.
StillArmed(r) == Armed(Reached(r)) # {}

\* Mutant: the carry-over goes on like the others.
LeverVerifyGoesOn(a) ==
  /\ run[a].pc = "verify"
  /\ To(a, Goes(run[a], AfterLevers(run[a])))
  /\ UNCHANGED <<gate, marker, switches, governed, senders, faults, orders, ghosts>>

\* A carry-over with a failed lever, or a sender still armed, ends; a site
\* order and the plain lever step name it and go on; an order that saw radiod
\* move skips the stale writers.
LeverVerify(a) ==
  LET r == run[a] IN
  /\ r.pc = "verify"
  /\ \/ To(a, IF r.kind \in {"carry", "late"} /\ (r.bad \/ StillArmed(r)) THEN Idle
              ELSE Goes(r, AfterLevers(r)))
     \/ a = "order" /\ r.bad /\ To(a, [r EXCEPT !.pc = "set"])
  /\ UNCHANGED <<gate, marker, switches, governed, senders, faults, orders, ghosts>>

\* Mutant: stale writers are left to the next restart.
StaleLeft(r) == {}

\* stale_writer_units, without what the lever step restarted.
Stale(r) == (old \intersect Enabled) \ r.done

\* Where a run goes once the stale writers have been restarted.
AfterStale(a, r) ==
  IF a = "order" THEN [r EXCEPT !.pc = "set"]
  ELSE IF r.kind = "late" THEN Idle
  ELSE [r EXCEPT !.pc = "mark"]

\* restart_stale_writers.  A writer file whose time cannot be read makes nothing
\* stale: nobody is restarted, a note says so and the run goes on.
RestartStale(a) ==
  LET r == run[a] IN
  /\ r.pc = "stale"
  /\ \/ \E failed \in SUBSET Stale(r) :
          /\ IF failed = {} THEN NoFault ELSE Fault("restart")
          /\ Restarted(Stale(r) \ failed)
          /\ To(a, IF failed # {} /\ a = "step" THEN Idle ELSE AfterStale(a, r))
     \/ /\ Fault("writer") /\ UNCHANGED <<proc, old>>
        /\ To(a, AfterStale(a, [r EXCEPT !.blind = TRUE]))
  /\ UNCHANGED <<gate, marker, switches, governed, env, orders, ghosts>>

\* The marker, last.
StepMark ==
  /\ run["step"].pc = "mark"
  /\ \/ marker' = TRUE /\ NoFault
     \/ UNCHANGED marker /\ Fault("set")
  /\ To("step", Idle)
  /\ UNCHANGED <<gate, switches, governed, senders, orders, ghosts>>

(***************************************************************************)
(* The site order: _site_change                                            *)
(***************************************************************************)

\* Without the gate only [uploads] is written; without the marker the levers
\* wait for the carry-over.
OrderBegin(new) ==
  /\ run["order"].pc = "idle"
  /\ orders < MaxOrders /\ orders' = orders + 1
  /\ To("order", [Idle EXCEPT !.new = new, !.kind = IF gate /\ marker THEN "marked" ELSE "unmarked",
                    !.pc = IF ~gate THEN "patch" ELSE IF marker THEN "read" ELSE "set"])
  /\ UNCHANGED <<gate, marker, switches, governed, senders, faults, ghosts>>

\* The clients below upload under the intended state; a status that cannot
\* be read costs the lever step alone.
OrderRead ==
  LET r == run["order"]
      below == {c \in governed : Stricter(r.new, ClientEffective(file[c])) # "upload"}
  IN /\ r.pc = "read"
     /\ \/ /\ To("order", [r EXCEPT !.below = below,
                             !.pc = IF below # {} THEN "lever" ELSE AfterLevers(r)])
           /\ NoFault
        \/ To("order", [r EXCEPT !.pc = AfterLevers(r)]) /\ Fault("status")
     /\ UNCHANGED <<gate, marker, switches, governed, senders, orders, ghosts>>

\* A site write of the step may still be under way.
InFlight == run["step"].site # "none"

OrderSet ==
  LET r == run["order"] IN
  /\ r.pc = "set"
  /\ \/ /\ site' = r.new
        /\ last' = IF r.kind = "marked" /\ marker /\ ~InFlight THEN r.new ELSE "none"
        /\ touched' = Clients /\ NoFault
     \/ UNCHANGED <<site, ghosts>> /\ Fault("set")
  /\ To("order", [r EXCEPT !.pc = "patch"])
  /\ UNCHANGED <<gate, marker, mode, file, governed, senders, orders>>

\* [uploads]; the manifest step comes next, as another run of the step.
OrderPatch ==
  LET r == run["order"] IN
  /\ r.pc = "patch"
  /\ \/ mode' = r.new /\ NoFault
     \/ UNCHANGED mode /\ Fault("patch")
  /\ To("order", Idle)
  /\ UNCHANGED <<gate, marker, site, file, governed, senders, orders, ghosts>>

(***************************************************************************)
(* Kills, hands, updates                                                   *)
(***************************************************************************)

Kill(a) ==
  /\ run[a].pc # "idle"
  /\ Fault("kill")
  /\ To(a, Idle)
  /\ UNCHANGED <<gate, marker, switches, governed, senders, orders, ghosts>>

\* The daemon is replaced: a version without the gate, or with it again.
GateFlips ==
  /\ Fault("gate")
  /\ gate' = ~gate
  /\ last' = "none"
  /\ UNCHANGED <<marker, switches, governed, senders, run, orders, touched>>

HandsOnSite ==
  /\ \/ Fault("remove") /\ site' = "missing" /\ UNCHANGED mode
     \/ Fault("break") /\ site' = "error" /\ UNCHANGED mode
     \/ Fault("mode") /\ mode' \in States /\ UNCHANGED site
  /\ touched' = Clients
  /\ last' = IF site' = site THEN last ELSE "none"
  /\ UNCHANGED <<gate, marker, file, governed, senders, run, orders>>

\* An operator sets a client by hs-uploader, or arms a sender again; a client
\* is installed.
HandsOnClient(c) ==
  /\ \/ /\ Fault("client") /\ \E s \in States : file' = [file EXCEPT ![c] = s]
        /\ UNCHANGED <<env, proc, governed>>
     \/ /\ Fault("arm") /\ env' = env \union {c} /\ proc' = proc \union {c}
        /\ UNCHANGED <<file, governed>>
     \/ /\ Fault("install") /\ governed' = governed \union {c}
        /\ UNCHANGED <<file, env, proc>>
  /\ touched' = touched \union {c}
  /\ UNCHANGED <<gate, marker, site, mode, old, run, orders, last>>

\* hs-uploader's writer is updated under the running recorders.
WriterUpdated ==
  /\ Fault("update")
  /\ old' = Clients
  /\ touched' = Clients
  /\ UNCHANGED <<gate, marker, switches, governed, env, proc, run, orders, last>>

(***************************************************************************)
(* Specification                                                           *)
(***************************************************************************)

StepNext ==
  \/ StepCarry \/ StepStanding \/ StepAside \/ StepMirror \/ StepLate
  \/ StepWriteSite \/ (\E c \in Clients : StepWrite(c)) \/ StepRead \/ StepMark
  \/ LeverWrite("step") \/ LeverRestart("step") \/ LeverVerify("step") \/ RestartStale("step")

OrderNext ==
  \/ OrderRead \/ OrderSet \/ OrderPatch
  \/ LeverWrite("order") \/ LeverRestart("order") \/ LeverVerify("order")
  \/ RestartStale("order")

Hands ==
  \/ \E a \in Actors : Kill(a)
  \/ GateFlips \/ HandsOnSite \/ WriterUpdated
  \/ \E c \in Clients : HandsOnClient(c)

Next == StepNext \/ OrderNext \/ Hands \/ \E s \in States : OrderBegin(s)

Spec == Init /\ [][Next]_vars

\* The manifest step is run again and again (every order, apply and update
\* ends with it), and a command that is not killed goes on.
Fairness == WF_vars(StepNext) /\ WF_vars(OrderNext)

FairSpec == Spec /\ Fairness

(***************************************************************************)
(* Properties                                                              *)
(***************************************************************************)

Written == ~marker /\ marker'

\* "The marker last": when the carry-over is marked done, every client it
\* governs has a switch file, and no enabled client that reads below upload has
\* an armed sender, on disk or in its process, through every earlier attempt
\* that failed or was killed.  Clients somebody else changed meanwhile are
\* left to the next step.  The step touches no sender of a client the topology
\* does not enable: one that was left armed stays so.
MarkerMeansQuiet ==
  [][Written => \A c \in governed \ touched :
       /\ file[c] # "missing"
       /\ c \in Enabled /\ Effective(c) # "upload" => c \notin env \union proc]_vars

\* Before the marker makes a state read off, no recorder of an enabled client
\* runs a writer that does not know the switch; unless the time of the writer
\* file could not be read, when the step restarts nobody and says so.
MarkerMeansFresh ==
  [][/\ Written /\ ~run["step"].blind
     /\ \E c \in governed \ touched : Effective(c) = "off"
     => old \intersect Enabled \subseteq touched]_vars

\* "[uploads] only mirrors the switch": once a site order has landed under the
\* marker, no manifest step and no hand edit of [uploads] takes it back.
OrderStands == last # "none" => site = last

\* "so an off order always lands": the last site order is what the switch
\* reads in the end.
OrderLands ==
  \A s \in States : (orders = MaxOrders /\ run["order"].new = s) ~> [](site = s)

\* The station settles: with the gate and a readable site file, the carry-over
\* is done in the end, [uploads] mirrors the switch, every governed client has
\* its file, and every enabled client's sender below upload is quiet.
Settles ==
  <>[](gate /\ site # "error")
    => <>[](/\ marker /\ mode = site /\ Missing = {}
            /\ \A c \in governed \intersect Enabled :
                 Effective(c) # "upload" => c \notin env \union proc)
=============================================================================
