----------------------------- MODULE ConsumerHook -----------------------------
(***************************************************************************)
(* smd admin radiod restart-stale-consumers, the hook of every radiod      *)
(* start: consumers that started before radiod's current start hold its    *)
(* predecessor's time anchor and must be restarted.                        *)
(*                                                                         *)
(* radiod crashes and starts again at any step of the hook.  A start of    *)
(* radiod starts the hook's unit, but merges into a hook that is already   *)
(* running: the hook itself must notice.  It ends failed to be run again   *)
(* (Restart=on-failure).  systemd is external.  Times are compared, never  *)
(* measured: behind is what the monotonic comparison answers.              *)
(***************************************************************************)
EXTENDS Naturals, FiniteSets

CONSTANTS
  Consumers,   \* the declared readers of radiod
  MaxPasses,   \* _RADIOD_CONSUMERS_MAX_PASSES
  FaultKinds,  \* what may fail
  MaxStarts,   \* bound on radiod's restarts
  MaxFaults    \* bound on failures

VARIABLES
  radiod,  \* "serving", "starting" (or in its restart backoff), "stopped"
  behind,  \* running consumers older than radiod's start and its settling
  state,   \* each consumer: "up", "failed" (start limit hit), "down"
  lock,    \* the lifecycle lock: "free", "hook", "other"
  hook,    \* the unit's run
  starts, faults

vars == <<radiod, behind, state, lock, hook, starts, faults>>

Rest == [pc |-> "idle", pass |-> 0, fresh |-> FALSE, stale |-> {}, rc |-> 0]

TypeOK ==
  /\ radiod \in {"serving", "starting", "stopped"}
  /\ behind \subseteq Consumers
  /\ state \in [Consumers -> {"up", "failed", "down"}]
  /\ lock \in {"free", "hook", "other"}
  /\ hook \in [pc: {"idle", "ready", "lock", "read", "revive", "restart", "recheck", "exit", "retry"},
               pass: 0 .. MaxPasses, fresh: BOOLEAN, stale: SUBSET Consumers, rc: 0 .. 3]
  /\ (lock = "hook") = (hook.pc \in {"read", "revive", "restart"})
  /\ starts \in 0 .. MaxStarts /\ faults \in 0 .. MaxFaults

Init ==
  /\ radiod = "serving" /\ behind = {}
  /\ state \in [Consumers -> {"up", "down"}]
  /\ lock = "free" /\ hook = Rest
  /\ starts = 0 /\ faults = 0

Fault(kind) == kind \in FaultKinds /\ faults < MaxFaults /\ faults' = faults + 1
Up == {c \in Consumers : state[c] = "up"}

(***************************************************************************)
(* radiod, its consumers and the others who take the lock                  *)
(***************************************************************************)

Begun == [Rest EXCEPT !.pc = "ready", !.pass = 1]

\* A start of radiod: every running consumer is older.  The hook's job starts,
\* or merges into the run that is under way; a radiod start between the last
\* look of a hook that ends well and its end is under the kind "window".
RadiodStarts ==
  /\ starts < MaxStarts /\ starts' = starts + 1
  /\ hook.pc = "exit" /\ hook.rc = 0 => "window" \in FaultKinds
  /\ radiod' = "starting"
  /\ behind' = Up
  /\ hook' = IF hook.pc \in {"idle", "retry"} THEN Begun ELSE [hook EXCEPT !.fresh = FALSE]
  /\ UNCHANGED <<state, lock, faults>>

RadiodServes ==
  /\ radiod = "starting" /\ radiod' = "serving"
  /\ UNCHANGED <<behind, state, lock, hook, starts, faults>>

RadiodStopped ==
  /\ Fault("stop") /\ radiod' = "stopped"
  /\ hook' = [hook EXCEPT !.fresh = FALSE]
  /\ UNCHANGED <<behind, state, lock, starts>>

\* An outage drives a consumer into its start limit.
ConsumerFails(c) ==
  /\ Fault("limit") /\ radiod # "serving" /\ c \in Up
  /\ state' = [state EXCEPT ![c] = "failed"] /\ behind' = behind \ {c}
  /\ UNCHANGED <<radiod, lock, hook, starts>>

\* A consumer started before radiod serves counts as older.
Starts(c) ==
  /\ state' = [state EXCEPT ![c] = "up"]
  /\ behind' = IF radiod = "serving" THEN behind \ {c} ELSE behind \union {c}

ConsumerStarts(c) ==
  /\ Fault("start") /\ state[c] = "down" /\ radiod # "stopped" /\ Starts(c)
  /\ UNCHANGED <<radiod, lock, hook, starts>>

OtherLocks == lock = "free" /\ lock' = "other" /\ Fault("lock")
              /\ UNCHANGED <<radiod, behind, state, hook, starts>>
OtherUnlocks == lock = "other" /\ lock' = "free"
                /\ UNCHANGED <<radiod, behind, state, hook, starts, faults>>

(***************************************************************************)
(* The hook                                                                *)
(***************************************************************************)

HookGoes(pc) == hook' = [hook EXCEPT !.pc = pc]
Worse(rc) == IF rc > hook.rc THEN rc ELSE hook.rc
Exits(rc) == hook' = [hook EXCEPT !.pc = "exit", !.rc = Worse(rc)]

\* The wait for radiod to serve.  One that is stopped is nothing to do.
HookReady ==
  /\ hook.pc = "ready"
  /\ \/ radiod = "serving" /\ HookGoes("lock")
     \/ radiod = "starting" /\ Exits(2)
     \/ radiod = "stopped" /\ Exits(0)
  /\ UNCHANGED <<radiod, behind, state, lock, starts, faults>>

\* The lock, waited for within one budget of the whole run.
HookLock ==
  /\ hook.pc = "lock"
  /\ \/ lock = "free" /\ lock' = "hook" /\ HookGoes("read")
     \/ lock = "other" /\ Exits(3) /\ UNCHANGED lock
  /\ UNCHANGED <<radiod, behind, state, starts, faults>>

\* Under the lock: radiod must still serve; its start and the consumers' are
\* read.
HookRead ==
  /\ hook.pc = "read"
  /\ \/ /\ radiod = "serving" /\ UNCHANGED lock
        /\ hook' = [hook EXCEPT !.pc = "revive", !.fresh = TRUE, !.stale = Up \intersect behind]
     \/ radiod # "serving" /\ lock' = "free" /\ Exits(2)
  /\ UNCHANGED <<radiod, behind, state, starts, faults>>

\* Each declared consumer that is failed: reset-failed and start.
HookRevive ==
  /\ hook.pc = "revive"
  /\ \/ /\ \A c \in Consumers : state[c] # "failed"
        /\ HookGoes("restart") /\ UNCHANGED <<behind, state, faults>>
     \/ \E c \in Consumers : state[c] = "failed" /\ Starts(c) /\ UNCHANGED <<hook, faults>>
     \/ /\ \E c \in Consumers : state[c] = "failed"
        /\ Fault("refuse") /\ hook' = [hook EXCEPT !.pc = "restart", !.rc = Worse(1)]
        /\ UNCHANGED <<behind, state>>
  /\ UNCHANGED <<radiod, lock, starts>>

\* _align_restart of the stale ones; what no longer runs is left alone.
HookRestart ==
  /\ hook.pc = "restart"
  /\ \/ \E c \in hook.stale :
          \/ /\ state[c] = "up" /\ Starts(c) /\ UNCHANGED faults
             /\ hook' = [hook EXCEPT !.stale = @ \ {c}]
          \/ /\ state[c] = "up" /\ Fault("restart")
             /\ state' = [state EXCEPT ![c] = "failed"] /\ behind' = behind \ {c}
             /\ hook' = [hook EXCEPT !.stale = @ \ {c}, !.rc = Worse(1)]
          \/ /\ state[c] # "up" /\ UNCHANGED <<state, behind, faults>>
             /\ hook' = [hook EXCEPT !.stale = @ \ {c}]
     \/ /\ hook.stale = {} /\ HookGoes("recheck")
        /\ UNCHANGED <<state, behind, faults>>
  /\ lock' = IF hook'.pc = "recheck" THEN "free" ELSE lock
  /\ UNCHANGED <<radiod, starts>>

\* Mutant: a radiod that is not active just now counts as unchanged.
HookRecheckLax ==
  /\ hook.pc = "recheck"
  /\ \/ (hook.fresh \/ radiod # "serving") /\ HookGoes("exit")
     \/ /\ ~hook.fresh /\ radiod = "serving" /\ hook.pass < MaxPasses
        /\ hook' = [hook EXCEPT !.pc = "ready", !.pass = @ + 1]
     \/ ~hook.fresh /\ radiod = "serving" /\ hook.pass = MaxPasses /\ Exits(1)
  /\ UNCHANGED <<radiod, behind, state, lock, starts, faults>>

\* radiod's start is read again: changed, or not active, means another pass.
HookRecheck ==
  /\ hook.pc = "recheck"
  /\ \/ hook.fresh /\ HookGoes("exit")
     \/ /\ ~hook.fresh /\ hook.pass < MaxPasses
        /\ hook' = [hook EXCEPT !.pc = "ready", !.pass = @ + 1]
     \/ ~hook.fresh /\ hook.pass = MaxPasses /\ Exits(1)
  /\ UNCHANGED <<radiod, behind, state, lock, starts, faults>>

\* The process ends: well, or to be run again.
HookExit ==
  /\ hook.pc = "exit"
  /\ hook' = IF hook.rc = 0 THEN Rest ELSE [Rest EXCEPT !.pc = "retry"]
  /\ UNCHANGED <<radiod, behind, state, lock, starts, faults>>

\* Restart=on-failure without a start limit (exit 4, a catalog that does not
\* load, is not modelled).
HookRetry ==
  /\ hook.pc = "retry" /\ hook' = Begun
  /\ UNCHANGED <<radiod, behind, state, lock, starts, faults>>

HookWorks ==
  \/ HookReady \/ HookLock \/ HookRead \/ HookRevive \/ HookRestart \/ HookRecheck
  \/ HookExit \/ HookRetry

Next ==
  \/ RadiodStarts \/ RadiodServes \/ RadiodStopped \/ OtherLocks \/ OtherUnlocks
  \/ \E c \in Consumers : ConsumerFails(c) \/ ConsumerStarts(c)
  \/ HookWorks

Spec == Init /\ [][Next]_vars

\* systemd runs the hook on, radiod comes up, a lock's holder lets it go.
Fairness == WF_vars(HookWorks) /\ WF_vars(RadiodServes) /\ WF_vars(OtherUnlocks)

(***************************************************************************)
(* Properties                                                              *)
(***************************************************************************)

\* "recorders that keep running hold the old radiod's RTP->UTC anchor": once
\* radiod serves for good, every running consumer comes to be younger than its
\* last start and stays so, however often radiod started again under the hook
\* and whatever was busy, not ready or refused on the way.
CatchesUp == <>[](radiod = "serving") => <>[](Up \intersect behind = {})
=============================================================================
