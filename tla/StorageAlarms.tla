---------------------------- MODULE StorageAlarms ----------------------------
(***************************************************************************)
(* The alarm book of the storage ledger (storage/alarms.py) in the passes  *)
(* that use it (storage/tick.py): one journal line per alarm episode.      *)
(*                                                                         *)
(* A pass reads the state file, computes the store's stage, brings the     *)
(* book up to date, writes the journal lines and then the state.  What     *)
(* faults, the journal included, goes through _fault, which holds every    *)
(* other alarm as it stood and writes the old state with the new book.     *)
(* Keys: the fill alarm of one store, and ledger-fault.                    *)
(***************************************************************************)
EXTENDS StorageStages, FiniteSets

CONSTANTS
  Fills,       \* fill percentages a pass may find
  Remind,      \* REMIND_S, in passes
  FaultKinds,  \* "pass", "journal", "write", "status", "kill"
  MaxMoves,    \* bound on the fill's moves
  MaxFaults    \* bound on faults

VARIABLES
  fill,    \* the store's fill
  disk,    \* the state file: the stage and the book
  pass,    \* the pass under way
  said,    \* each key's severity as the journal last gave it, 0 when cleared
  astray,  \* ghost: the keys whose last line was lost, or said and its state lost
  seen,    \* ghost: the lowest fill since the store was last at each stage
  moves, faults

vars == <<fill, disk, pass, said, astray, seen, moves, faults>>

Keys == {"fill", "ledger-fault"}
CRITICAL == 3
Severity(stage) == CASE stage \in {WATCH, TIGHTEN} -> 1 [] stage = DEMAND -> 2
                     [] stage = FINAL -> CRITICAL [] OTHER -> 0
Books == [Keys -> [sev: 0 .. CRITICAL, age: 0 .. Remind]]
Closed == [sev |-> 0, age |-> 0]
Empty == [k \in Keys |-> Closed]
States == [stage: Stages, book: Books]
NoFill == 101
Silent == CRITICAL + 1
Nothing == [k \in Keys |-> Silent]

\* lines are the journal lines to write; told are the keys this pass has
\* written a line of, while the book on file does not know.
Rest == [pc |-> "idle", old |-> OKAY, stage |-> OKAY, book |-> Empty,
         lines |-> Nothing, told |-> {}]

TypeOK ==
  /\ fill \in Fills /\ disk \in States
  /\ pass \in [pc: {"idle", "run", "say", "write", "status", "faultsay", "fault"},
               old: Stages, stage: Stages, book: Books,
               lines: [Keys -> 0 .. Silent], told: SUBSET Keys]
  /\ said \in [Keys -> 0 .. CRITICAL] /\ astray \subseteq Keys
  /\ seen \in [Stages -> Fills \union {NoFill}]
  /\ moves \in 0 .. MaxMoves /\ faults \in 0 .. MaxFaults

Init ==
  /\ fill \in Fills /\ disk = [stage |-> OKAY, book |-> Empty] /\ pass = Rest
  /\ said = [k \in Keys |-> 0] /\ astray = {}
  /\ seen = [s \in Stages |-> NoFill]
  /\ moves = 0 /\ faults = 0

Fault(kind) == kind \in FaultKinds /\ faults < MaxFaults /\ faults' = faults + 1

Fill ==
  /\ moves < MaxMoves /\ moves' = moves + 1 /\ pass.pc = "idle"
  /\ fill' \in Fills \ {fill}
  /\ UNCHANGED <<disk, pass, said, astray, seen, faults>>

Older(book) == [k \in Keys |-> [book[k] EXCEPT !.age = IF @ < Remind THEN @ + 1 ELSE @]]

\* A pass begins: the state is read; another Remind-th of the time has passed.
Begin ==
  /\ pass.pc = "idle"
  /\ pass' = [Rest EXCEPT !.pc = "run", !.old = disk.stage, !.stage = disk.stage,
                          !.book = Older(disk.book)]
  /\ UNCHANGED <<fill, disk, said, astray, seen, moves, faults>>

\* AlarmBook.update: a new key or severity raises, a standing one reminds when
\* it is old, a key that is gone clears.
Raises(book, active, k) == active[k] > 0 /\ book[k].sev # active[k]

\* Mutant: a standing alarm is not repeated.
RemindsNever(book, active, k) == FALSE

Reminds(book, active, k) == active[k] > 0 /\ book[k].sev = active[k] /\ book[k].age >= Remind
Updated(book, active) ==
  [k \in Keys |-> IF active[k] = 0 THEN Closed
                  ELSE IF Raises(book, active, k) \/ Reminds(book, active, k)
                  THEN [sev |-> active[k], age |-> 0] ELSE book[k]]
Lines(book, active) ==
  [k \in Keys |-> IF Raises(book, active, k) \/ Reminds(book, active, k) THEN active[k]
                  ELSE IF active[k] = 0 /\ book[k].sev > 0 THEN 0 ELSE Silent]

\* _fault: the alarms of the book as it stands, and the fault's own.
Held(book) == [k \in Keys |-> IF k = "ledger-fault" THEN CRITICAL ELSE book[k].sev]
Faults(told) ==
  pass' = [pass EXCEPT !.pc = "faultsay", !.book = Updated(@, Held(@)),
                       !.lines = Lines(pass.book, Held(pass.book)), !.told = told]

\* The pass proper, and the book brought up to date with the alarms it found.
Run ==
  /\ pass.pc = "run"
  /\ \/ LET stage == StoreStage(fill, FALSE, pass.old)
            active == [k \in Keys |-> IF k = "fill" THEN Severity(stage) ELSE 0]
        IN /\ pass' = [pass EXCEPT !.pc = "say", !.stage = stage, !.book = Updated(@, active),
                                   !.lines = Lines(pass.book, active)]
           /\ UNCHANGED faults
     \/ Fault("pass") /\ Faults({})
  /\ UNCHANGED <<fill, disk, said, astray, seen, moves>>

\* The keys with a line to write, and the journal once the lines of ks are in it.
Pending == {k \in Keys : pass.lines[k] # Silent}
Saying(ks) == [k \in Keys |-> IF k \in ks THEN pass.lines[k] ELSE said[k]]

\* The lines, one by one.  journal() may raise at any of them; the book keeps
\* what it was given, and _fault takes over from there.
Say ==
  /\ pass.pc = "say"
  /\ \/ /\ pass' = [pass EXCEPT !.pc = "write", !.lines = Nothing, !.told = Pending]
        /\ said' = Saying(Pending) /\ UNCHANGED <<astray, faults>>
     \/ /\ Fault("journal")
        /\ \E ks \in SUBSET Pending \ {Pending} :
             /\ said' = Saying(ks) /\ astray' = astray \union (Pending \ ks)
             /\ Faults(ks)
  /\ UNCHANGED <<fill, disk, seen, moves>>

\* _fault's own lines; what the journal raises here is passed over.
FaultSay ==
  /\ pass.pc = "faultsay"
  /\ \E ks \in SUBSET Pending :
       /\ IF ks = Pending THEN UNCHANGED faults ELSE Fault("journal")
       /\ said' = Saying(ks) /\ astray' = astray \union (Pending \ ks)
       /\ pass' = [pass EXCEPT !.pc = "fault", !.lines = Nothing,
                               !.told = (@ \union ks) \ (Pending \ ks)]
  /\ UNCHANGED <<fill, disk, seen, moves>>

Lowest(stage) ==
  [s \in Stages |-> IF s <= stage THEN fill
                    ELSE IF seen[s] = NoFill THEN NoFill
                    ELSE IF fill < seen[s] THEN fill ELSE seen[s]]

\* The state file, then the status file.
Write ==
  /\ pass.pc = "write"
  /\ \/ /\ disk' = [stage |-> pass.stage, book |-> pass.book]
        /\ pass' = [pass EXCEPT !.pc = "status", !.told = {}]
        /\ astray' = astray \ pass.told
        /\ seen' = Lowest(pass.stage) /\ UNCHANGED faults
     \/ Fault("write") /\ Faults(pass.told) /\ UNCHANGED <<disk, astray, seen>>
  /\ UNCHANGED <<fill, said, moves>>

Status ==
  /\ pass.pc = "status"
  /\ \/ pass' = Rest /\ UNCHANGED faults
     \/ Fault("status") /\ Faults({})
  /\ UNCHANGED <<fill, disk, said, astray, seen, moves>>

\* Mutant: the state is written as it was read, its book too.
WriteFaultOld ==
  /\ pass.pc = "fault" /\ pass' = Rest
  /\ disk' = [disk EXCEPT !.stage = pass.old]
  /\ UNCHANGED <<fill, said, astray, seen, moves, faults>>

\* _fault writes the state it read, with the book; a second failure is passed
\* over.
WriteFault ==
  /\ pass.pc = "fault" /\ pass' = Rest
  /\ \/ /\ disk' = [stage |-> pass.old, book |-> pass.book]
        /\ seen' = [s \in Stages |-> IF s > pass.old /\ s <= disk.stage THEN NoFill ELSE seen[s]]
        /\ astray' = astray \ pass.told /\ UNCHANGED faults
     \/ Fault("write") /\ astray' = astray \union pass.told /\ UNCHANGED <<disk, seen>>
  /\ UNCHANGED <<fill, said, moves>>

Kill ==
  /\ Fault("kill") /\ pass.pc # "idle" /\ pass' = Rest
  /\ astray' = astray \union pass.told
  /\ UNCHANGED <<fill, disk, said, seen, moves>>

Works == Begin \/ Run \/ Say \/ Write \/ Status \/ FaultSay \/ WriteFault
Next == Works \/ Fill \/ Kill

Spec == Init /\ [][Next]_vars

\* The ledger's timer runs a pass again and again.
Fairness == WF_vars(Works)

(***************************************************************************)
(* Properties                                                              *)
(***************************************************************************)

\* "one journal line per alarm episode": between passes the book on disk has
\* exactly the episodes the journal has open, through passes that fault before
\* or after the book was brought up to date.  Only a key whose line journal()
\* refused, or whose line was said and the state then lost (a kill, a second
\* failed write), may be apart, and only until its next line is said and kept.
BookIsJournal == pass.pc = "idle" => \A k \in Keys \ astray : said[k] = disk.book[k].sev

\* "a store hovering at a level holds one stage (and one alarm severity) instead
\* of flapping": a store comes back to a stage it had left only after its fill
\* was Hysteresis below the stage's level.  (A stage that _fault took back with
\* the old state was not left.)
HoverHolds ==
  [][\A s \in Stages \ {OKAY} :
       disk.stage < s /\ s <= disk'.stage /\ seen[s] # NoFill
         => seen[s] < LevelOf(s) - Hysteresis]_vars

\* An alarm that stays is in the journal as it stands, even when its line was
\* lost, or the pass that raised or cleared it was killed before it wrote its
\* state.  (The line of a clear has no such second chance: nothing repeats it.)
AlarmIsSaid ==
  \A n \in 1 .. CRITICAL : <>[](Severity(disk.stage) = n) => <>[](said["fill"] = n)
=============================================================================
