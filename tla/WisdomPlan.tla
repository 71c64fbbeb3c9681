----------------------------- MODULE WisdomPlan -----------------------------
(***************************************************************************)
(* sigmond-wisdom.service and the lifecycle commands around it (bin/smd):  *)
(* when the FFT wisdom is not current, the unit stops every service        *)
(* (suspend), leaves a marker in /run, plans, installs the wisdom and its  *)
(* sidecar, and starts the services again (resume, ExecStopPost=).  While  *)
(* the marker stands, `smd start` holds radiod back.                       *)
(*                                                                         *)
(* Each systemctl call is a step: operators' commands, boots and kills     *)
(* fall between any two.  systemd is external: ExecStopPost= runs however  *)
(* the unit ends, and a stop cancels a start that is queued.               *)
(***************************************************************************)
EXTENDS Naturals, FiniteSets

CONSTANTS
  Clients,     \* the services that require radiod
  Sizes,       \* transforms beyond FFT_WISDOM_PROFILES that radiod may miss
  FaultKinds,  \* what may go wrong
  MaxFaults,   \* bound on faults
  MaxMoves     \* bound on operators' commands

VARIABLES
  up,       \* the services that run
  booting,  \* the services whose start at boot is queued
  marker,   \* _WISDOM_SUSPEND_MARKER
  unit,     \* sigmond-wisdom.service: pc, services to go, its plan
  cmd,      \* an operator's smd command: verb, services to go, whether the
            \* marker stood when it began
  file,     \* the installed wisdom: where made, the extra sizes it holds
  side,     \* its sidecar
  misses,   \* fft.log
  owed,     \* ghost: services suspend stopped, not started or stopped since
  failed,   \* ghost: those of them that resume ended in an error for
  moves, faults

vars == <<up, booting, marker, unit, cmd, file, side, misses, owed, failed, moves, faults>>

Services == {"radiod"} \union Clients
Nothing == [made |-> "none", sizes |-> {}]
Idle == [pc |-> "idle", todo |-> {}, fresh |-> FALSE, sizes |-> {}]
NoCmd == [verb |-> "none", todo |-> {}, marked |-> FALSE]
Wisdoms == [made: {"none", "foreign", "here"}, sizes: SUBSET Sizes]

TypeOK ==
  /\ up \subseteq Services /\ booting \subseteq Services /\ owed \subseteq Services
  /\ failed \subseteq Services
  /\ marker \in BOOLEAN /\ file \in Wisdoms /\ side \in Wisdoms /\ misses \subseteq Sizes
  /\ unit \in [pc: {"idle", "needed", "suspend", "mark", "plan", "run", "install", "side", "resume", "start"},
               todo: SUBSET Services, fresh: BOOLEAN, sizes: SUBSET Sizes]
  /\ cmd \in [verb: {"none", "start", "stop", "restart"}, todo: SUBSET Services, marked: BOOLEAN]
  /\ moves \in 0 .. MaxMoves /\ faults \in 0 .. MaxFaults

\* A station that runs, with no wisdom, another CPU's or its own.
Init ==
  /\ up = Services /\ booting = {} /\ marker = FALSE
  /\ unit = Idle /\ cmd = NoCmd
  /\ file \in {Nothing, [made |-> "foreign", sizes |-> Sizes], [made |-> "here", sizes |-> {}]}
  /\ side = file /\ misses \in SUBSET Sizes
  /\ owed = {} /\ failed = {} /\ moves = 0 /\ faults = 0

Fault(kind) == kind \in FaultKinds /\ faults < MaxFaults /\ faults' = faults + 1
At(pc) == unit.pc = pc
Goes(pc) == unit' = [unit EXCEPT !.pc = pc]
stores == <<file, side, misses>>

\* order_units: radiod is started first and stopped last.
NextUp(todo, u) == u \in todo /\ ("radiod" \in todo => u = "radiod")
NextDown(todo, u) == u \in todo /\ (u = "radiod" => todo = {"radiod"})

Settled(u) == owed' = owed \ {u} /\ failed' = failed \ {u}
Started(u) == up' = up \union {u} /\ booting' = booting \ {u} /\ Settled(u)
Stopped(u) == up' = up \ {u} /\ booting' = booting \ {u}

\* wisdom_verdict: by the sidecar, and fft.log.
Verdict ==
  CASE file.made = "none" \/ side.made # "here" -> "fresh"
    [] file.made # "none" /\ side.made = "here" /\ ~(misses \subseteq side.sizes) -> "top-up"
    [] OTHER -> "current"

(***************************************************************************)
(* The unit                                                                *)
(***************************************************************************)

\* ExecCondition=: skipped when current; ExecStopPost= runs even then.
Needed ==
  /\ At("needed")
  /\ \/ Verdict = "current" /\ Goes("resume")
     \/ Verdict # "current" /\ unit' = [Idle EXCEPT !.pc = "suspend", !.todo = Services]
  /\ UNCHANGED <<up, booting, marker, cmd, stores, owed, failed, moves, faults>>

\* cmd_stop of every managed service, one after the other.
Suspend ==
  /\ At("suspend")
  /\ \/ \E u \in Services :
          /\ NextDown(unit.todo, u) /\ unit' = [unit EXCEPT !.todo = @ \ {u}]
          /\ \/ /\ Stopped(u) /\ UNCHANGED faults
                /\ owed' = IF u \in up \union booting THEN owed \union {u} ELSE owed
             \/ Fault("stop") /\ u \in up /\ UNCHANGED <<up, booting, owed>>
     \/ unit.todo = {} /\ Goes("mark") /\ UNCHANGED <<up, booting, owed, faults>>
  /\ UNCHANGED <<marker, cmd, stores, failed, moves>>

\* Written even after a partial stop; when it cannot be, planning goes on.
Mark ==
  /\ At("mark") /\ Goes("plan")
  /\ \/ marker' = TRUE /\ UNCHANGED faults
     \/ Fault("mark") /\ UNCHANGED marker
  /\ UNCHANGED <<up, booting, cmd, stores, owed, failed, moves>>

\* cmd_wisdom_plan --auto: judge again, refuse on a busy or badly laid out CPU.
Plan ==
  /\ At("plan")
  /\ \/ /\ Verdict # "current" /\ up = {} /\ UNCHANGED faults
        /\ unit' = [unit EXCEPT !.pc = "run", !.fresh = (Verdict = "fresh"), !.sizes = misses]
     \/ (Verdict = "current" \/ up # {}) /\ Goes("resume") /\ UNCHANGED faults
     \/ Fault("irq") /\ Goes("resume")
  /\ UNCHANGED <<up, booting, marker, cmd, stores, owed, failed, moves>>

RunPlanner ==
  /\ At("run")
  /\ \/ Goes("install") /\ UNCHANGED faults
     \/ Fault("plan") /\ Goes("resume")
  /\ UNCHANGED <<up, booting, marker, cmd, stores, owed, failed, moves>>

Made == IF unit.fresh THEN [made |-> "here", sizes |-> unit.sizes]
        ELSE [file EXCEPT !.sizes = @ \union unit.sizes]

\* Mutant: the sidecar goes first.
InstallSideFirst ==
  /\ At("install") /\ Goes("side")
  /\ side' = [made |-> "here", sizes |-> unit.sizes]
  /\ UNCHANGED <<up, booting, marker, cmd, file, misses, owed, failed, moves, faults>>

\* The rename over the old file, then the sidecar.
Install ==
  /\ At("install")
  /\ \/ file' = Made /\ Goes("side") /\ UNCHANGED faults
     \/ Fault("install") /\ Goes("resume") /\ UNCHANGED file
  /\ UNCHANGED <<up, booting, marker, cmd, side, misses, owed, failed, moves>>

Sidecar ==
  /\ At("side") /\ Goes("resume")
  /\ \/ side' = [made |-> "here", sizes |-> unit.sizes] /\ UNCHANGED faults
     \/ Fault("side") /\ UNCHANGED side
  /\ UNCHANGED <<up, booting, marker, cmd, file, misses, owed, failed, moves>>

\* Mutant: the marker is cleared once the services have started.
ResumeMarked ==
  /\ At("resume")
  /\ \/ marker /\ unit' = [Idle EXCEPT !.pc = "start", !.todo = Services \ {"radiod"}] /\ marker' = FALSE
     \/ ~marker /\ unit' = Idle /\ UNCHANGED marker
  /\ UNCHANGED <<up, booting, cmd, stores, owed, failed, moves, faults>>

\* The marker first: while it stands, cmd_start holds radiod back.
Resume ==
  /\ At("resume")
  /\ \/ marker /\ marker' = FALSE /\ unit' = [Idle EXCEPT !.pc = "start", !.todo = Services]
     \/ ~marker /\ unit' = Idle /\ UNCHANGED marker
  /\ UNCHANGED <<up, booting, cmd, stores, owed, failed, moves, faults>>

\* cmd_start, with the marker already gone; a service that is up is left alone,
\* one that fails is named and counts in the exit status.  It may also return 1
\* before it starts anything: a unit that does not resolve, or (with
\* allow_shared_radiod_cores off) too few cores for radiod.
ResumeStart ==
  /\ At("start")
  /\ \/ \E u \in Services :
          /\ NextUp(unit.todo, u) /\ unit' = [unit EXCEPT !.todo = @ \ {u}]
          /\ \/ Started(u) /\ UNCHANGED faults
             \/ /\ Fault("start") /\ u \notin up
                /\ failed' = failed \union ({u} \intersect owed) /\ UNCHANGED <<up, booting, owed>>
     \/ /\ unit.todo = Services /\ Fault("refused") /\ unit' = Idle
        /\ failed' = owed /\ UNCHANGED <<up, booting, owed>>
     \/ unit.todo = {} /\ unit' = Idle /\ UNCHANGED <<up, booting, owed, failed, faults>>
  /\ UNCHANGED <<marker, cmd, stores, moves>>

\* The unit is stopped or its process dies; a kill that no marker tells of, of
\* suspend or of resume, is under the kind "unmarked".
Kill ==
  /\ Fault("kill") /\ unit.pc \notin {"idle", "resume"}
  /\ unit.pc \in {"suspend", "mark", "start"} => "unmarked" \in FaultKinds
  /\ unit' = IF At("start") THEN Idle ELSE [Idle EXCEPT !.pc = "resume"]
  /\ UNCHANGED <<up, booting, marker, cmd, stores, owed, failed, moves>>

(***************************************************************************)
(* Operators, boots, radiod's misses                                       *)
(***************************************************************************)

Move == moves < MaxMoves /\ moves' = moves + 1

\* systemctl start sigmond-wisdom, by hand or by bring-up.
Launch ==
  /\ Move /\ At("idle") /\ unit' = [Idle EXCEPT !.pc = "needed"]
  /\ UNCHANGED <<up, booting, marker, cmd, stores, owed, failed, faults>>

\* Mutant: a start asks no marker.
HeldNot(services) == services

\* _hold_radiod_for_planner.
Held(services) == IF marker THEN services \ {"radiod"} ELSE services

\* smd start of some services: they and what they require.
CmdStart(names) ==
  /\ Move /\ cmd = NoCmd
  /\ cmd' = [verb |-> "start", todo |-> Held(names \union {"radiod"}), marked |-> marker]
  /\ UNCHANGED <<up, booting, marker, unit, stores, owed, failed, faults>>

\* smd restart asks no marker; one while the marker stands is under "restart".
CmdRestart(names) ==
  /\ marker => "restart" \in FaultKinds
  /\ Move /\ cmd = NoCmd
  /\ cmd' = [verb |-> "restart", todo |-> names \union {"radiod"}, marked |-> marker]
  /\ UNCHANGED <<up, booting, marker, unit, stores, owed, failed, faults>>

CmdStop(names) ==
  /\ Move /\ cmd = NoCmd
  /\ cmd' = [verb |-> "stop", todo |-> names, marked |-> marker]
  /\ UNCHANGED <<up, booting, marker, unit, stores, owed, failed, faults>>

\* One systemctl call.  A command that began without the marker and comes to
\* radiod when the planner runs is under the kind "inflight".
CmdStep ==
  /\ \E u \in cmd.todo :
       /\ \/ /\ cmd.verb \in {"start", "restart"} /\ NextUp(cmd.todo, u) /\ Started(u)
             /\ ~cmd.marked /\ u = "radiod" /\ At("run") => "inflight" \in FaultKinds
          \/ cmd.verb = "stop" /\ NextDown(cmd.todo, u) /\ Stopped(u) /\ Settled(u)
       /\ cmd' = IF cmd.todo = {u} THEN NoCmd ELSE [cmd EXCEPT !.todo = @ \ {u}]
  /\ UNCHANGED <<marker, unit, stores, moves, faults>>

\* A boot: /run is empty, enabled services and the unit start in any order.
Boot ==
  /\ Fault("boot")
  /\ up' = {} /\ booting' = Services /\ marker' = FALSE
  /\ unit' = [Idle EXCEPT !.pc = "needed"] /\ cmd' = NoCmd /\ owed' = {} /\ failed' = {}
  /\ UNCHANGED <<stores, moves>>

BootStart ==
  /\ \E u \in booting : Started(u)
  /\ UNCHANGED <<marker, unit, cmd, stores, moves, faults>>

Miss(s) ==
  /\ "radiod" \in up /\ s \notin misses /\ s \notin file.sizes
  /\ misses' = misses \union {s}
  /\ UNCHANGED <<up, booting, marker, unit, cmd, file, side, owed, failed, moves, faults>>

Works == Needed \/ Suspend \/ Mark \/ Plan \/ RunPlanner \/ Install \/ Sidecar \/ Resume \/ ResumeStart

Next ==
  \/ Works \/ Kill \/ Launch \/ CmdStep \/ Boot \/ BootStart
  \/ \E names \in (SUBSET Clients) \ {{}} : CmdStart(names) \/ CmdRestart(names)
  \/ \E names \in (SUBSET Services) \ {{}} : CmdStop(names)
  \/ \E s \in Sizes : Miss(s)

Spec == Init /\ [][Next]_vars

\* The unit's commands, an operator's and systemd's jobs go on.
Fairness == WF_vars(Works) /\ WF_vars(CmdStep) /\ WF_vars(BootStart)

(***************************************************************************)
(* Properties                                                              *)
(***************************************************************************)

\* "FFTW then timed its plans beside a running radiod": never, whatever is
\* started by `smd start` once the marker stands, by boots or after kills and
\* failed stops.  Without the kinds "restart" (smd restart asks no marker) and
\* "inflight" (a command that passed the marker test before it stood).
PlansAlone == At("run") => "radiod" \notin up

\* "resume must bring them back": a service suspend stopped is started again,
\* whether the planner plans, refuses, fails or is killed, unless resume's own
\* cmd_start ended in an error for it; it is never left down in silence.
\* Without the kinds "mark" and "unmarked": with no marker resume starts nothing
\* and ends 0.
ServicesComeBack == \A u \in Services : u \in owed ~> u \notin owed \/ u \in failed

\* "Topping that up kept every foreign plan and restamped the whole file": when
\* the verdict is that nothing need be planned, the wisdom was made here and
\* holds every size radiod has missed, through kills and failures between the
\* file and its sidecar.
CurrentIsCurrent == Verdict = "current" => file.made = "here" /\ misses \subseteq file.sizes
=============================================================================
