------------------------------ MODULE MCParts ------------------------------
(***************************************************************************)
(* The smaller parts, each with its instance for TLC.  They share nothing: *)
(* `part` says whose behaviour this is, and the others stand still.        *)
(***************************************************************************)
EXTENDS Parts

CONSTANTS c1, c2, s1, s2

VARIABLES
  part,
  radiod, behind, state, lock, hook, starts,
  ledger, tick, client, fills, over, short, toml, due, down, since, quiet, lately

hookVars == <<radiod, behind, state, lock, hook, starts>>
linksVars == <<unit, link, record, runs, level, proc, owed>>
fileVars == <<named, dir, writers, litter, promised>>
alarmsVars == <<fill, disk, pass, said, astray, seen, moves>>
watchdogVars == <<radiods, held, request, stamp, last, check, spaced, unmarked, honoured>>
wisdomVars == <<up, booting, marker, planner, cmd, file, side, misses, suspended, failed, commands>>
ledgerVars == <<ledger, tick, client, fills, over, short, toml, due, down, since, quiet, lately>>

Hook == INSTANCE ConsumerHook WITH
  Consumers <- {c1, c2}, MaxPasses <- 2, MaxStarts <- 3, MaxFaults <- 2,
  FaultKinds <- {"stop", "limit", "start", "lock", "refuse", "restart"}

Ledger == INSTANCE StorageLedger WITH
  disk <- ledger, pass <- tick, fill <- fills,
  Clients <- {c1}, Registered <- {<<c1, s1>>, <<c1, s2>>}, Unmanaged <- {}, NeverStop <- {},
  Answers <- {"fails", "unknown"}, Deadline <- 1, FinalGrace <- 1, StaleTrim <- 1,
  DuCache <- 2, Fills <- {96}, Moves <- {"over", "answer"}, FaultKinds <- {"fault", "kill", "missed"}, MaxFaults <- 1,
  Reprieves <- {}

PartNames == {"hook", "links", "file", "alarms", "watchdog", "wisdom", "ledger"}

\* The parts that stand still do so in one of their initial states.
Init ==
  /\ part \in PartNames
  /\ Hook!Init /\ (part # "hook" => state = [c \in {c1, c2} |-> "up"])
  /\ Uploader!Init /\ (part # "links" => unit = "t1")
  /\ SafeFile!Init
  /\ Alarms!Init /\ (part # "alarms" => fill = 50)
  /\ Watchdog!Init
  /\ Wisdom!Init /\ (part # "wisdom" => file = Wisdom!Nothing /\ misses = {})
  /\ Ledger!Init
  /\ part # "ledger" => over = {} /\ ~toml.lever /\ client[c1].answer = "unknown"

Next ==
  /\ UNCHANGED part
  /\ IF part = "hook" THEN Hook!Next ELSE UNCHANGED hookVars
  /\ IF part = "links" THEN Uploader!Next ELSE UNCHANGED linksVars
  /\ IF part = "file" THEN SafeFile!Next ELSE UNCHANGED fileVars
  /\ IF part = "alarms" THEN Alarms!Next ELSE UNCHANGED alarmsVars
  /\ IF part = "watchdog" THEN Watchdog!Next ELSE UNCHANGED watchdogVars
  /\ IF part = "wisdom" THEN Wisdom!Next ELSE UNCHANGED wisdomVars
  /\ IF part = "ledger" THEN Ledger!Next ELSE UNCHANGED ledgerVars

vars == <<part, faults, hookVars, linksVars, fileVars, alarmsVars, watchdogVars, wisdomVars, ledgerVars>>

\* Each part's own fairness, where the behaviour is that part's.
Fairness ==
  /\ WF_hookVars(part = "hook" /\ Hook!HookWorks)
  /\ WF_hookVars(part = "hook" /\ Hook!RadiodServes)
  /\ WF_hookVars(part = "hook" /\ Hook!OtherUnlocks)
  /\ WF_linksVars(part = "links" /\ Uploader!Works("step"))
  /\ WF_alarmsVars(part = "alarms" /\ Alarms!Works)
  /\ WF_watchdogVars(part = "watchdog" /\ Watchdog!Works)
  /\ WF_watchdogVars(part = "watchdog" /\ Watchdog!Tick)
  /\ WF_watchdogVars(part = "watchdog" /\ Watchdog!Settles("u1"))
  /\ WF_wisdomVars(part = "wisdom" /\ Wisdom!Works)
  /\ WF_wisdomVars(part = "wisdom" /\ Wisdom!CmdStep)
  /\ WF_wisdomVars(part = "wisdom" /\ Wisdom!BootStart)

Spec == Init /\ [][Next]_vars /\ Fairness

\* The consumer hook: once radiod serves for good, every consumer comes to be
\* younger than it.
CatchesUp == Hook!CatchesUp

\* The uploader's links: at upload for good, every link owed comes back.
LinksComeBack == Uploader!LinksComeBack

\* The alarm book: an alarm that stays is in the journal as it stands.
AlarmIsSaid == Alarms!AlarmIsSaid

\* The radiod watchdog: a radiod it has stopped comes up again.
StoppedIsStarted == Watchdog!StoppedIsStarted

\* The wisdom planner: a service it suspended is started again, or resume ends in
\* an error for it.
ServicesComeBack == Wisdom!ServicesComeBack

\* The ledger (StorageLedger): a client is stopped only for a store it was over its
\* target on within the du cache's age.
StopIsRecent == Ledger!StopIsRecent
=============================================================================
