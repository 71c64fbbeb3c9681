--------------------------- MODULE RadiodWatchdog ---------------------------
(***************************************************************************)
(* bin/sigmond-radiod-watchdog, a timer's oneshot: a pass first honours a  *)
(* restart request of hf-timestd (timing_judge.py), then restarts each     *)
(* active radiod that is wedged, unless a manual hold covers it.           *)
(*                                                                         *)
(* Times are in ticks, and pass while a pass works; a pass goes by the     *)
(* clock as it read it at its start.  systemd is external: a stop whose    *)
(* client timed out is finished by systemd; a start queued behind it       *)
(* follows.  A unit that was stopped on purpose is not started by Restart=. *)
(***************************************************************************)
EXTENDS Integers, FiniteSets

CONSTANTS
  Units,       \* radiod@ instances
  Requests,    \* restart requests hf-timestd may write
  Warmup, Grace, Silence, Cooldown,  \* WARMUP_SEC, GRACE_SEC, ...
  FreshFor,    \* REQUEST_FRESH_S
  PassLength,  \* how long a pass may take, in ticks
  FaultKinds,  \* what may go wrong
  MaxFaults    \* bound on faults

VARIABLES
  unit,     \* each unit: up ("active", "stopping", "down"), queued start, ages
  held,     \* the units under a manual hold
  request,  \* the artifact: id, unit, age
  stamp,    \* the honoured stamp: a request's id, or "none"
  last,     \* ticks since each unit's .last-restart stamp, capped
  pass,     \* the pass under way; its age is that of the clock it goes by
  spaced,   \* ghost: ticks since the watchdog last restarted each unit, capped
  unmarked, \* ghost: the units whose last restart, a request's, was not marked
  honoured, \* ghost: how often each request has restarted its unit
  faults

vars == <<unit, held, request, stamp, last, pass, spaced, unmarked, honoured, faults>>

Never == Cooldown + PassLength + 1
Cap == (IF Silence > Warmup THEN Silence ELSE Warmup) + PassLength + 1
NoQuit == Grace + PassLength + 2
Fresh == [up |-> "active", queued |-> FALSE, age |-> 0, quiet |-> 0, quit |-> NoQuit]
Rest == [pc |-> "idle", age |-> 0, todo |-> {}, asked |-> "none",
         unit |-> CHOOSE u \in Units : TRUE]
NoRequest == [id |-> "none", unit |-> CHOOSE u \in Units : TRUE, age |-> 0]

TypeOK ==
  /\ unit \in [Units -> [up: {"active", "stopping", "down"}, queued: BOOLEAN, age: 0 .. Cap,
                         quiet: 0 .. Cap, quit: 0 .. NoQuit]]
  /\ held \subseteq Units
  /\ request \in [id: Requests \union {"none"}, unit: Units, age: 0 .. FreshFor + 1]
  /\ stamp \in Requests \union {"none"}
  /\ last \in [Units -> 0 .. Never] /\ spaced \in [Units -> 0 .. Never]
  /\ unmarked \subseteq Units
  /\ pass \in [pc: {"idle", "request", "restart", "mark", "list", "check", "stop", "start"},
               age: 0 .. PassLength, todo: SUBSET Units, asked: Requests \union {"none"}, unit: Units]
  /\ honoured \in [Requests -> 0 .. 2] /\ faults \in 0 .. MaxFaults

Init ==
  /\ unit = [u \in Units |-> Fresh] /\ held = {} /\ request = NoRequest /\ stamp = "none"
  /\ last = [u \in Units |-> Never] /\ spaced = last /\ unmarked = {}
  /\ pass = Rest /\ honoured = [r \in Requests |-> 0] /\ faults = 0

Fault(kind) == kind \in FaultKinds /\ faults < MaxFaults /\ faults' = faults + 1
Active == {u \in Units : unit[u].up = "active"}
Inc(n, cap) == IF n < cap THEN n + 1 ELSE n

(***************************************************************************)
(* The world                                                               *)
(***************************************************************************)

\* Time passes; a healthy radiod writes lines, a wedged one has declared
\* "quitting" or fallen silent.
TimePasses ==
  /\ unit' = [u \in Units |->
       [unit[u] EXCEPT !.age = Inc(@, Cap), !.quiet = Inc(@, Cap),
                       !.quit = IF @ = NoQuit THEN @ ELSE Inc(@, NoQuit - 1)]]
  /\ last' = [u \in Units |-> Inc(last[u], Never)]
  /\ spaced' = [u \in Units |-> Inc(spaced[u], Never)]
  /\ request' = IF request.id = "none" THEN request ELSE [request EXCEPT !.age = Inc(@, FreshFor + 1)]
  /\ UNCHANGED <<held, stamp, unmarked, honoured, faults>>

\* The timer's next pass reads the clock; stops, resets and restarts take time.
Tick == pass.pc = "idle" /\ TimePasses /\ pass' = [pass EXCEPT !.pc = "request"]
Drags ==
  /\ pass.pc \notin {"idle", "request"} /\ pass.age < PassLength
  /\ TimePasses /\ pass' = [pass EXCEPT !.age = @ + 1]

Logs(u) ==
  /\ pass.pc = "idle" /\ u \in Active /\ unit[u].quiet > 0
  /\ unit' = [unit EXCEPT ![u].quiet = 0]
  /\ UNCHANGED <<held, request, stamp, last, pass, spaced, unmarked, honoured, faults>>

Quits(u) ==
  /\ Fault("quit") /\ pass.pc = "idle" /\ u \in Active /\ unit[u].quit = NoQuit
  /\ unit' = [unit EXCEPT ![u].quit = 0, ![u].quiet = 0]
  /\ UNCHANGED <<held, request, stamp, last, pass, spaced, unmarked, honoured>>

\* hf-timestd writes a request, or withdraws it.
Asks(r, u) ==
  /\ Fault("request") /\ request.id # r /\ honoured[r] = 0
  /\ request' = [id |-> r, unit |-> u, age |-> 0]
  /\ UNCHANGED <<unit, held, stamp, last, pass, spaced, unmarked, honoured>>

\* An operator's hold, and its end.
Hold(u) ==
  /\ Fault("hold") /\ held' = (held \union {u}) \ (held \intersect {u})
  /\ UNCHANGED <<unit, request, stamp, last, pass, spaced, unmarked, honoured>>

\* systemd finishes a stop; a queued start follows it.
Settles(u) ==
  /\ unit[u].up = "stopping"
  /\ unit' = [unit EXCEPT ![u] = IF @.queued THEN Fresh ELSE [@ EXCEPT !.up = "down"]]
  /\ UNCHANGED <<held, request, stamp, last, pass, spaced, unmarked, honoured, faults>>

(***************************************************************************)
(* The restart request                                                     *)
(***************************************************************************)

Goes(pc) == pass' = [pass EXCEPT !.pc = pc]

\* process_restart_request: fresh, not stamped, and its unit active here.
Actionable ==
  /\ request.id # "none" /\ request.age <= FreshFor
  /\ stamp # request.id /\ request.unit \in Active

Honours == pass' = [pass EXCEPT !.pc = "restart", !.asked = request.id, !.unit = request.unit]

\* Mutant: the restart comes first and its stamp follows.
StampAfter ==
  /\ \/ pass.pc = "request" /\ Actionable /\ Honours /\ UNCHANGED stamp
     \/ pass.pc = "request" /\ ~Actionable /\ Goes("list") /\ UNCHANGED stamp
     \/ pass.pc = "mark" /\ stamp # pass.asked /\ stamp' = pass.asked /\ UNCHANGED pass
  /\ UNCHANGED <<unit, held, request, last, spaced, unmarked, honoured, faults>>

\* The stamp is written before the restart; when it cannot be, nothing is done.
Stamp ==
  /\ pass.pc = "request"
  /\ \/ Actionable /\ stamp' = request.id /\ Honours /\ UNCHANGED faults
     \/ Actionable /\ Fault("stamp") /\ Goes("list") /\ UNCHANGED stamp
     \/ ~Actionable /\ Goes("list") /\ UNCHANGED <<stamp, faults>>
  /\ UNCHANGED <<unit, held, request, last, spaced, unmarked, honoured>>

Restarted(u) == unit' = [unit EXCEPT ![u] = Fresh]

\* systemctl restart; one that takes longer than its client waits leaves the
\* unit's cooldown unmarked.
HonourRestart ==
  /\ pass.pc = "restart"
  /\ \/ Restarted(pass.unit) /\ Goes("mark") /\ UNCHANGED faults
     \/ /\ Fault("slow") /\ Goes("list")
        /\ unit' = [unit EXCEPT ![pass.unit].up = "stopping", ![pass.unit].queued = TRUE]
  /\ honoured' = [honoured EXCEPT ![pass.asked] = Inc(@, 2)]
  /\ spaced' = [spaced EXCEPT ![pass.unit] = 0]
  /\ unmarked' = unmarked \union {pass.unit}
  /\ UNCHANGED <<held, request, stamp, last>>

\* Mutant: the request's restart does not share the detectors' cooldown.
HonourMarkNot ==
  /\ pass.pc = "mark" /\ Goes("list")
  /\ unmarked' = unmarked \ {pass.unit}
  /\ UNCHANGED <<unit, held, request, stamp, last, spaced, honoured, faults>>

\* The mark is the time the pass began.
HonourMark ==
  /\ pass.pc = "mark" /\ Goes("list")
  /\ last' = [last EXCEPT ![pass.unit] = pass.age]
  /\ unmarked' = unmarked \ {pass.unit}
  /\ UNCHANGED <<unit, held, request, stamp, spaced, honoured, faults>>

(***************************************************************************)
(* The detectors                                                           *)
(***************************************************************************)

\* The holds, then the active units.
List ==
  /\ pass.pc = "list"
  /\ pass' = [pass EXCEPT !.pc = "check", !.todo = Active \ held]
  /\ UNCHANGED <<unit, held, request, stamp, last, spaced, unmarked, honoured, faults>>

\* Both detectors measure from the pass's own clock.
Wedged(u) ==
  /\ u \in Active /\ unit[u].age - pass.age >= Warmup /\ last[u] - pass.age > Cooldown
  /\ \/ unit[u].quit # NoQuit /\ unit[u].quit - pass.age > Grace
     \/ unit[u].quiet - pass.age > Silence

\* check_unit; _restart marks the unit before it stops it.
Check ==
  /\ pass.pc = "check"
  /\ \/ pass.todo = {} /\ pass' = Rest /\ UNCHANGED last
     \/ \E u \in pass.todo :
          IF Wedged(u)
            THEN /\ pass' = [pass EXCEPT !.pc = "stop", !.todo = @ \ {u}, !.unit = u]
                 /\ last' = [last EXCEPT ![u] = pass.age]
            ELSE pass' = [pass EXCEPT !.todo = @ \ {u}] /\ UNCHANGED last
  /\ UNCHANGED <<unit, held, request, stamp, spaced, unmarked, honoured, faults>>

\* Mutant: a stop that times out ends the unit's check.
StopUnwinds ==
  /\ pass.pc = "stop"
  /\ \/ /\ unit' = [unit EXCEPT ![pass.unit].up = "down"] /\ Goes("start") /\ UNCHANGED faults
     \/ Fault("slow") /\ unit' = [unit EXCEPT ![pass.unit].up = "stopping"] /\ Goes("check")
  /\ spaced' = [spaced EXCEPT ![pass.unit] = 0] /\ unmarked' = unmarked \ {pass.unit}
  /\ UNCHANGED <<held, request, stamp, last, honoured>>

\* The stop, finished or still under way when its client gives up, or failing
\* outright, which leaves radiod as it was; in each case the start follows.
Stop ==
  /\ pass.pc = "stop" /\ Goes("start")
  /\ \/ /\ \/ unit' = [unit EXCEPT ![pass.unit].up = "down"] /\ UNCHANGED faults
           \/ Fault("slow") /\ unit' = [unit EXCEPT ![pass.unit].up = "stopping"]
        /\ spaced' = [spaced EXCEPT ![pass.unit] = 0] /\ unmarked' = unmarked \ {pass.unit}
     \/ Fault("stop") /\ UNCHANGED <<unit, spaced, unmarked>>
  /\ UNCHANGED <<held, request, stamp, last, honoured>>

\* The USB reset, a pause and the start; on an active unit it does nothing.
Start ==
  /\ pass.pc = "start" /\ Goes("check")
  /\ unit' = [unit EXCEPT ![pass.unit] =
       CASE @.up = "down" -> Fresh [] @.up = "stopping" -> [@ EXCEPT !.queued = TRUE] [] OTHER -> @]
  /\ UNCHANGED <<held, request, stamp, last, spaced, unmarked, honoured, faults>>

\* The pass is killed; between the stop and the start only under "dark".
Kill ==
  /\ Fault("kill") /\ pass.pc # "idle" /\ pass' = Rest
  /\ pass.pc = "start" => "dark" \in FaultKinds
  /\ UNCHANGED <<unit, held, request, stamp, last, spaced, unmarked, honoured>>

Works == Stamp \/ HonourRestart \/ HonourMark \/ List \/ Check \/ Stop \/ Start

Next ==
  \/ Works \/ Tick \/ Drags \/ Kill
  \/ \E u \in Units : Logs(u) \/ Quits(u) \/ Hold(u) \/ Settles(u) \/ \E r \in Requests : Asks(r, u)

Spec == Init /\ [][Next]_vars

Fairness ==
  /\ WF_vars(Works) /\ WF_vars(Tick)
  /\ \A u \in Units : WF_vars(Settles(u))

(***************************************************************************)
(* Properties                                                              *)
(***************************************************************************)

\* "a crash mid-restart can never lead to honoring the same request twice".
HonouredOnce == \A r \in Requests : honoured[r] <= 1

\* "A watchdog that can stop a unit without starting it again is worse than no
\* watchdog at all": whatever happens to the stop, the unit comes up again.
StoppedIsStarted == \A u \in Units : unit[u].up # "active" ~> unit[u].up = "active"

\* "Share the wedge-detectors' cooldown so they leave the freshly restarted unit
\* alone through warm-up": a detector stops no unit within the warm-up of the
\* watchdog's last restart of it, for whichever reason that was and wherever the
\* pass was killed; nor within the cooldown, short of the length of a pass since
\* the mark is as old as the pass, unless that restart was a request's whose
\* mark was never reached (the pass killed first, or the client timed out).
DetectorsAreSpaced ==
  [][\A u \in Units : pass.pc = "stop" /\ pass'.pc = "start" /\ pass.unit = u =>
       /\ spaced[u] >= Warmup
       /\ u \notin unmarked => spaced[u] + PassLength > Cooldown]_vars
=============================================================================
