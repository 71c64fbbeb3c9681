---------------------------- MODULE StorageLedger ----------------------------
(***************************************************************************)
(* The storage capacity ledger: one pass every two minutes measures the    *)
(* stores, asks clients to trim, and at FINAL stops the service of a       *)
(* client that does not answer (storage/tick.py, storage/ladder.py).       *)
(*                                                                         *)
(* A pass reads storage.toml, the state file and the clock once, works on  *)
(* its copy, and writes the copy back at the end.  A fault in a pass       *)
(* writes the old state back with the stops the pass made; a killed pass   *)
(* writes nothing.  Between the steps of a pass operators and clients move *)
(* on.  Time is kept as ages, one unit per period of the timer; an age     *)
(* saturates where no comparison tells larger ones apart.                  *)
(*                                                                         *)
(* Bytes are abstracted: `over` says which client holds more than its      *)
(* target on which store.                                                  *)
(***************************************************************************)
EXTENDS StorageStages, FiniteSets

CONSTANTS
  Clients,
  Registered,   \* <<client, store>> pairs
  Unmanaged,    \* clients without the storage contract
  NeverStop,    \* clientcall.NEVER_STOP
  Answers,      \* how a managed client may answer: a subset of AllAnswers
  Deadline,     \* DEMAND_DEADLINE_S
  FinalGrace,   \* UNMANAGED_FINAL_GRACE_S
  StaleTrim,    \* STALE_TRIM_S
  DuCache,      \* DU_CACHE_S
  Fills,        \* the fill percentages a store may show
  Moves,        \* what operators and clients do: a subset of AllMoves
  FaultKinds,   \* what may fail: a subset of AllFaults
  MaxFaults,    \* bound on the number of failures
  Reprieves     \* the events whose age the properties of a run look at

\* "ok": trim and final succeed; "fails": every call fails; "finalfails": trim
\* succeeds and final fails; "unknown": `holdings` exits 2, an unknown verb.
AllAnswers == {"ok", "fails", "finalfails", "unknown"}
AllMoves == {"fill", "over", "short", "answer", "idle", "hands", "lever", "start", "dies"}
AllFaults == {"missed", "fault", "kill", "stop"}
AllReprieves == {"calm", "resumed", "started", "answered"}

Stores == {r[2] : r \in Registered}

ASSUME LedgerAssumption ==
  /\ \A r \in Registered : r = <<r[1], r[2]>> /\ r[1] \in Clients
  /\ Unmanaged \subseteq Clients /\ NeverStop \subseteq Clients
  /\ Answers \subseteq AllAnswers /\ Answers # {}
  /\ Deadline \in Nat /\ FinalGrace \in Nat /\ StaleTrim \in Nat /\ DuCache \in Nat \ {0}
  /\ Deadline <= FinalGrace /\ FinalGrace <= StaleTrim
  /\ Fills \subseteq Nat /\ Fills # {}
  /\ Moves \subseteq AllMoves /\ FaultKinds \subseteq AllFaults /\ MaxFaults \in Nat
  /\ Reprieves \subseteq AllReprieves

VARIABLES
  disk,      \* state.json
  pass,      \* the live pass
  client,    \* how each client answers, whether it writes, whether it runs
  fill,      \* per store, its fill percentage
  over,      \* the registrations that hold more than their target
  short,     \* the stores whose floors do not fit
  toml,      \* storage.toml: the hands-off mark and the stop lever
  due,       \* the timer has fired
  faults,    \* failures so far
  \* history, for the properties only
  down,      \* clients the ledger has stopped and nobody has started since
  since,     \* age of the last reprieve of each kind, per client
  quiet,     \* age of the last pass that ended well
  lately     \* per registration, how long ago it last held more than its target

vars == <<disk, pass, client, fill, over, short, toml, due, faults, down, since, quiet, lately>>
world == <<client, fill, over, short, toml>>
ghosts == <<down, since, quiet, lately>>

None == -1
NoRec == [req |-> None, ok |-> FALSE, fin |-> None, touched |-> None]
\* TrimRecord, with ages for stamps.
Rec == [req: 0 .. Deadline + 1, ok: BOOLEAN, fin: None .. FinalGrace + 1,
        touched: 0 .. StaleTrim + 1]
Recs == Rec \union {NoRec}
Trims == [Clients -> Recs]

\* The du cache: an entry of age DuCache has expired.
Du == [Registered -> [age: 0 .. DuCache, over: BOOLEAN]]
Expired == [age |-> DuCache, over |-> FALSE]

State == [trims: Trims, stopped: SUBSET Clients, stage: [Stores -> Stages], du: Du]

EmptyState == [trims |-> [c \in Clients |-> NoRec], stopped |-> {},
               stage |-> [s \in Stores |-> OKAY], du |-> [r \in Registered |-> Expired]]

Pass == [pc: {"idle", "loaded", "stops"}, st: State, handsOff: BOOLEAN, lever: BOOLEAN,
         stops: SUBSET Registered, managed: SUBSET Clients,
         pressed: SUBSET Clients, overFinal: SUBSET Clients, answered: SUBSET Clients]

NoPass == [pc |-> "idle", st |-> EmptyState, handsOff |-> FALSE, lever |-> FALSE,
           stops |-> {}, managed |-> {}, pressed |-> {}, overFinal |-> {}, answered |-> {}]

Client == [answer: Answers, writes: BOOLEAN, up: BOOLEAN]
MaxSince == FinalGrace + 1

TypeOK ==
  /\ disk \in State
  /\ pass \in Pass
  /\ client \in [Clients -> Client]
  /\ fill \in [Stores -> Fills]
  /\ over \subseteq Registered
  /\ short \subseteq Stores
  /\ toml \in [handsOff: BOOLEAN, lever: BOOLEAN]
  /\ due \in BOOLEAN
  /\ faults \in 0 .. MaxFaults
  /\ down \subseteq Clients
  /\ since \in [Reprieves -> [Clients -> 0 .. MaxSince]]
  /\ quiet \in 0 .. StaleTrim + 1
  /\ lately \in [Registered -> 0 .. DuCache]

Init ==
  /\ disk = EmptyState
  /\ pass = NoPass
  /\ client \in [Clients -> {[answer |-> a, writes |-> TRUE, up |-> TRUE] : a \in Answers}]
  /\ fill \in [Stores -> Fills]
  /\ over \in SUBSET Registered
  /\ short = {}
  /\ toml \in [handsOff: {FALSE}, lever: BOOLEAN]
  /\ due = TRUE
  /\ faults = 0
  /\ down = {}
  /\ since = [k \in Reprieves |-> [c \in Clients |-> MaxSince]]
  /\ quiet = 0
  /\ lately = [r \in Registered |-> IF r \in over THEN 0 ELSE DuCache]

Fault(kind) == kind \in FaultKinds /\ faults < MaxFaults /\ faults' = faults + 1

\* The clients in C are reprieved in the way k.
Reprieve(h, k, C) ==
  [j \in Reprieves |-> [c \in Clients |-> IF j = k /\ c \in C THEN 0 ELSE h[j][c]]]

(***************************************************************************)
(* Start of a pass: configuration, state file, clients that run again      *)
(***************************************************************************)

Restarted == {c \in disk.stopped : client[c].up}

\* Mutants: a client an operator started keeps its record; a record never goes
\* stale.
LoadTrimsKeepsRestarted(c) ==
  IF disk.trims[c].touched > StaleTrim THEN NoRec ELSE disk.trims[c]
LoadTrimsKeepsStale(c) == IF c \in Restarted THEN NoRec ELSE disk.trims[c]

\* _load_trims drops a record no pass has touched for STALE_TRIM_S; an
\* operator's start drops the client's.
LoadTrims(c) ==
  IF disk.trims[c].touched > StaleTrim \/ c \in Restarted THEN NoRec ELSE disk.trims[c]

PassStart ==
  /\ pass.pc = "idle"
  /\ due
  /\ due' = FALSE
  /\ pass' = [NoPass EXCEPT
       !.pc = "loaded",
       !.st = [disk EXCEPT !.trims = [c \in Clients |-> LoadTrims(c)],
                           !.stopped = @ \ Restarted],
       !.handsOff = toml.handsOff,
       !.lever = toml.lever]
  /\ since' = IF quiet > StaleTrim THEN Reprieve(since, "resumed", Clients) ELSE since
  /\ UNCHANGED <<disk, world, faults, down, quiet, lately>>

(***************************************************************************)
(* Measure, decide, ask                                                    *)
(***************************************************************************)

\* A client whose `holdings` verb is unknown counts as unmanaged.
Managed == {c \in Clients \ Unmanaged : client[c].answer # "unknown"}

\* A managed client on one store that answers reports its own holdings; every
\* other figure is a du, cached.
Reports(r) ==
  /\ r[1] \in Managed /\ client[r[1]].answer # "fails"
  /\ \A other \in Registered : other[1] = r[1] => other = r

Measured(r) ==
  IF Reports(r) THEN r \in over
  ELSE LET hit == pass.st.du[r] IN IF hit.age < DuCache THEN hit.over ELSE r \in over

\* Mutant: a hit makes the entry young again.
DuAfterRenews(r) == IF Reports(r) THEN Expired ELSE [age |-> 0, over |-> Measured(r)]

DuAfter(r) ==
  IF Reports(r) THEN Expired
  ELSE LET hit == pass.st.du[r]
       IN IF hit.age < DuCache THEN hit ELSE [age |-> 0, over |-> r \in over]

\* _failed_to_answer.
FailedToAnswer(rec) == rec # NoRec /\ ~rec.ok /\ rec.req > Deadline

\* What decide holds against a client that is over its target at FINAL.
Fails(c) ==
  LET rec == pass.st.trims[c]
  IN IF c \in Managed THEN FailedToAnswer(rec)
     ELSE rec # NoRec /\ rec.fin # None /\ rec.fin > FinalGrace

\* Mutants: an ok answer leaves the request open; every request starts anew.
RecordAnswerIgnored(rec, ok) ==
  IF rec = NoRec THEN [req |-> 0, ok |-> FALSE, fin |-> None, touched |-> 0]
  ELSE [rec EXCEPT !.touched = 0]

RecordAnswerRestarts(rec, ok) == [req |-> 0, ok |-> ok, fin |-> rec.fin, touched |-> 0]

\* _record_answer: an ok answer ends the streak, the next request opens one.
RecordAnswer(rec, ok) ==
  IF rec = NoRec \/ rec.ok
    THEN [req |-> 0, ok |-> ok, fin |-> rec.fin, touched |-> 0]
    ELSE [rec EXCEPT !.ok = ok, !.touched = 0]

\* _act_trims for a client that is asked: the trim call, then the final call
\* unless the trim made the client fit.
Asked(c, final, fits) ==
  LET trimOk == client[c].answer # "fails"
      rec == RecordAnswer(pass.st.trims[c], trimOk)
  IN IF final /\ ~(trimOk /\ fits) THEN RecordAnswer(rec, client[c].answer = "ok") ELSE rec

PassDecide ==
  /\ pass.pc = "loaded"
  /\ \E soon \in SUBSET Stores, fits \in BOOLEAN :
       LET fillStage == [s \in Stores |-> StoreStage(fill[s], s \in soon, pass.st.stage[s])]
           stage == [s \in Stores |-> IF s \in short THEN FINAL ELSE fillStage[s]]
           held == {r \in Registered : Measured(r)}
           pressed == {r[1] : r \in {q \in held : stage[q[2]] >= TIGHTEN}}
           atFinal == {r \in held : stage[r[2]] = FINAL}
           overFinal == {r[1] : r \in atFinal}
           asked == (pressed \intersect Managed) \ pass.st.stopped
           trims == [c \in Clients |-> IF c \in asked THEN Asked(c, c \in overFinal, fits)
                                       ELSE pass.st.trims[c]]
           stops == {r \in atFinal : /\ Fails(r[1]) /\ ~pass.handsOff
                                     /\ r[1] \notin pass.st.stopped
                                     /\ ~(r[1] \in Managed /\ trims[r[1]].ok)}
           answered == {c \in asked : client[c].answer # "fails"}
       IN pass' = [pass EXCEPT !.pc = "stops", !.stops = stops, !.managed = Managed,
                        !.pressed = pressed, !.overFinal = overFinal, !.answered = answered,
                        !.st = [@ EXCEPT !.trims = trims, !.stage = fillStage,
                                         !.du = [r \in Registered |-> DuAfter(r)]]]
  /\ UNCHANGED <<disk, world, due, faults, ghosts>>

(***************************************************************************)
(* The stop lever, one client after the other                              *)
(***************************************************************************)

\* An unmanaged client is measured again just before the stop.
WithinTarget(r) == r[1] \notin pass.managed /\ r \notin over

\* The measurement before a stop, or of an idle client, goes into the du cache.
Remeasured(r) ==
  IF r[1] \notin pass.managed \/ ~client[r[1]].writes
    THEN [pass.st EXCEPT !.du[r] = [age |-> 0, over |-> r \in over]]
    ELSE pass.st

\* The other registrations of r's client are not acted on again.
StopDone(r, st) ==
  pass' = [pass EXCEPT !.stops = {q \in @ : q[1] # r[1]}, !.st = st]

\* Within its target after all, idle for 24 h, or the lever is off: an alarm
\* at most.
StopSpares(r) ==
  /\ pass.pc = "stops"
  /\ r \in pass.stops
  /\ WithinTarget(r) \/ ~client[r[1]].writes \/ ~pass.lever
  /\ StopDone(r, Remeasured(r))
  /\ UNCHANGED <<disk, world, due, faults, ghosts>>

MayStop(r) ==
  /\ pass.pc = "stops"
  /\ r \in pass.stops
  /\ ~WithinTarget(r) /\ client[r[1]].writes /\ pass.lever

StopClient(r) ==
  /\ MayStop(r)
  /\ r[1] \notin NeverStop
  /\ client' = [client EXCEPT ![r[1]].up = FALSE]
  /\ StopDone(r, [Remeasured(r) EXCEPT !.stopped = @ \union {r[1]}])
  /\ down' = down \union {r[1]}
  /\ UNCHANGED <<disk, fill, over, short, toml, due, faults, since, quiet, lately>>

\* stop_client refuses, or a unit does not stop: stop-failed, nothing recorded.
StopFails(r) ==
  /\ MayStop(r)
  /\ \/ r[1] \in NeverStop /\ UNCHANGED <<client, faults>>
     \/ /\ r[1] \notin NeverStop
        /\ Fault("stop")
        /\ \E up \in BOOLEAN : client' = [client EXCEPT ![r[1]].up = @ /\ up]
  /\ StopDone(r, Remeasured(r))
  /\ UNCHANGED <<disk, fill, over, short, toml, due, ghosts>>

(***************************************************************************)
(* End of a pass                                                           *)
(***************************************************************************)

\* Mutant: a record outlives its episode.
UpkeepKeeps(c) ==
  LET rec == pass.st.trims[c]
      open == IF rec = NoRec THEN [req |-> 0, ok |-> FALSE, fin |-> None, touched |-> 0] ELSE rec
  IN IF c \in pass.overFinal
       THEN [open EXCEPT !.fin = IF @ = None THEN 0 ELSE @, !.touched = 0]
     ELSE IF rec # NoRec THEN [rec EXCEPT !.touched = 0] ELSE NoRec

\* final_since, then what no pressure holds is cleared.
Upkeep(c) ==
  LET rec == pass.st.trims[c]
      open == IF rec = NoRec THEN [req |-> 0, ok |-> FALSE, fin |-> None, touched |-> 0] ELSE rec
  IN IF c \in pass.overFinal
       THEN [open EXCEPT !.fin = IF @ = None THEN 0 ELSE @, !.touched = 0]
     ELSE IF rec # NoRec /\ c \in pass.pressed THEN [rec EXCEPT !.fin = None, !.touched = 0]
     ELSE NoRec

PassEnd ==
  /\ pass.pc = "stops"
  /\ pass.stops = {}
  /\ disk' = [pass.st EXCEPT !.trims = [c \in Clients |-> Upkeep(c)]]
  /\ pass' = NoPass
  /\ quiet' = 0
  /\ since' = Reprieve(Reprieve(since, "calm", Clients \ pass.pressed),
                       "answered", pass.answered)
  /\ UNCHANGED <<world, due, faults, down, lately>>

\* Mutant: a fault puts the whole old state back.
AfterFaultOld == disk

\* _fault: the old state, with the stops as the pass left them.
AfterFault == [disk EXCEPT !.stopped = pass.st.stopped]

PassFault ==
  /\ pass.pc # "idle"
  /\ Fault("fault")
  /\ disk' = AfterFault
  /\ pass' = NoPass
  /\ UNCHANGED <<world, due, ghosts>>

PassKilled ==
  /\ pass.pc # "idle"
  /\ Fault("kill")
  /\ pass' = NoPass
  /\ UNCHANGED <<disk, world, due, ghosts>>

(***************************************************************************)
(* Stores, clients, operators                                              *)
(***************************************************************************)

StoreMoves ==
  /\ \/ /\ "fill" \in Moves /\ fill' \in [Stores -> Fills] /\ UNCHANGED <<over, short, lately>>
     \/ /\ "over" \in Moves /\ over' \in SUBSET Registered /\ UNCHANGED <<fill, short>>
        /\ lately' = [r \in Registered |-> IF r \in over' THEN 0 ELSE lately[r]]
     \/ /\ "short" \in Moves /\ short' \in SUBSET Stores /\ UNCHANGED <<fill, over, lately>>
  /\ UNCHANGED <<disk, pass, client, toml, due, faults, down, since, quiet>>

ClientMoves(c) ==
  /\ \/ "answer" \in Moves /\ \E a \in Answers : client' = [client EXCEPT ![c].answer = a]
     \/ "idle" \in Moves /\ client' = [client EXCEPT ![c].writes = ~@]
     \/ "dies" \in Moves /\ client' = [client EXCEPT ![c].up = FALSE]
  /\ UNCHANGED <<disk, pass, fill, over, short, toml, due, faults, ghosts>>

\* smd start.
OperatorStarts(c) ==
  /\ "start" \in Moves
  /\ ~client[c].up
  /\ client' = [client EXCEPT ![c].up = TRUE]
  /\ down' = down \ {c}
  /\ since' = IF c \in disk.stopped THEN Reprieve(since, "started", {c}) ELSE since
  /\ UNCHANGED <<disk, pass, fill, over, short, toml, due, faults, quiet, lately>>

\* smd storage directive hands-off | stop-lever.
OperatorDirects ==
  /\ \/ "hands" \in Moves /\ toml' = [toml EXCEPT !.handsOff = ~@]
     \/ "lever" \in Moves /\ toml' = [toml EXCEPT !.lever = ~@]
  /\ UNCHANGED <<disk, pass, client, fill, over, short, due, faults, ghosts>>

Older(a, max) == IF a = None THEN None ELSE IF a < max THEN a + 1 ELSE max

OlderRec(rec) ==
  IF rec = NoRec THEN NoRec
  ELSE [req |-> Older(rec.req, Deadline + 1), ok |-> rec.ok,
        fin |-> Older(rec.fin, FinalGrace + 1), touched |-> Older(rec.touched, StaleTrim + 1)]

OlderDu(d) == IF d.age + 1 >= DuCache THEN Expired ELSE [d EXCEPT !.age = @ + 1]

\* A period of the timer; a pass is shorter than that.  A pass that was due
\* and did not run has been missed.
Tick ==
  /\ pass.pc = "idle"
  /\ due => "missed" \in FaultKinds
  /\ due' = TRUE
  /\ disk' = [disk EXCEPT !.trims = [c \in Clients |-> OlderRec(@[c])],
                          !.du = [r \in Registered |-> OlderDu(@[r])]]
  /\ since' = [k \in Reprieves |-> [c \in Clients |-> Older(since[k][c], MaxSince)]]
  /\ quiet' = IF "resumed" \in Reprieves THEN Older(quiet, StaleTrim + 1) ELSE quiet
  /\ lately' = [r \in Registered |-> IF r \in over THEN 0 ELSE Older(lately[r], DuCache)]
  /\ UNCHANGED <<pass, world, faults, down>>

(***************************************************************************)
(* Specification                                                           *)
(***************************************************************************)

PassStep ==
  \/ PassDecide \/ PassEnd
  \/ \E r \in Registered : StopSpares(r) \/ StopClient(r) \/ StopFails(r)

Next ==
  \/ PassStart \/ PassStep \/ PassFault \/ PassKilled
  \/ StoreMoves
  \/ \E c \in Clients : ClientMoves(c) \/ OperatorStarts(c)
  \/ OperatorDirects
  \/ Tick

Spec == Init /\ [][Next]_vars

\* Time passes, the timer starts its passes, and a pass goes on.
Fairness == WF_vars(Tick) /\ WF_vars(PassStart) /\ WF_vars(PassStep)

FairSpec == Spec /\ Fairness

(***************************************************************************)
(* Properties                                                              *)
(***************************************************************************)

Stops(c) == c \in down' \ down

\* How long a client must have had to answer, or to shrink.
Term(c) == IF c \in pass.managed THEN Deadline ELSE FinalGrace

\* TrimRecord: "a failure in one episode never counts against the next".  A
\* client is stopped only when no pass for a full term has found it free of
\* pressure, however passes faulted or were killed in between.
EpisodeEarnsTerm == [][\A c \in Clients : Stops(c) => since["calm"][c] > Term(c)]_vars

\* A record left by a ledger that stopped running does not stop a client: the
\* term starts again after STALE_TRIM_S without a completed pass.
OutageEarnsTerm == [][\A c \in Clients : Stops(c) => since["resumed"][c] > Term(c)]_vars

\* "an operator's start earns a fresh deadline": a client whose stop is on
\* file and whom an operator starts is not stopped again within a term,
\* however many passes are killed or missed after the start.
StartEarnsTerm == [][\A c \in Clients : Stops(c) => since["started"][c] > Term(c)]_vars

\* "a client that answers ok in this very pass is not stopped on that older
\* news", nor one whose answer a pass recorded within the deadline.
AnsweredIsSpared ==
  [][\A c \in Clients : Stops(c) => c \notin pass.answered /\ since["answered"][c] > Deadline]_vars

\* DU_CACHE_S: a measurement serves for that long and no longer.  A client is
\* stopped only for a store on which it has held more than its target within the
\* last DU_CACHE_S, however many passes judged it by the same cached du, faulted
\* and put an older cache back, were killed or did not run.
StopIsRecent ==
  [][\A c \in Clients : Stops(c) => \A r \in pass.stops : r[1] = c => lately[r] < DuCache]_vars

\* "Stops the pass made before the fault stay recorded and alarmed": between
\* passes the state file names every client the ledger holds down.
StopStaysRecorded == pass.pc = "idle" => down \subseteq disk.stopped

\* A client that answers no call and stays over its target on a full store is
\* stopped, again and again if operators start it.
HungIsStopped ==
  \A r \in {q \in Registered : q[1] \notin NeverStop} :
    <>[](/\ fill[r[2]] >= Final /\ r \in over /\ client[r[1]].answer = "fails"
         /\ client[r[1]].writes /\ toml.lever /\ ~toml.handsOff)
      => []<>(r[1] \in disk.stopped)
=============================================================================
