---------------------------- MODULE AlarmsProofs ----------------------------
(***************************************************************************)
(* Theorems about the alarm book (StorageAlarms), for any levels, hysteresis *)
(* and fills: the book has the episodes the journal has, and a store does  *)
(* not flap.                                                               *)
(***************************************************************************)
EXTENDS Parts, TLAPS

\* Fills are percentages and the bounds are numbers.
Sensible == Fills \subseteq Nat /\ Remind \in Nat /\ MaxMoves \in Nat /\ MaxAlarmFaults \in Nat

(***************************************************************************)
(* The stages                                                              *)
(***************************************************************************)

\* The highest of some stages exists.
LEMMA HighestStage ==
  ASSUME NEW H \in SUBSET Alarms!Stages, H # {}
  PROVE  \E m \in H : \A other \in H : other <= m
<1> USE DEF Alarms!Stages, Alarms!OKAY, Alarms!FINAL
<1>1. CASE 4 \in H
  BY <1>1
<1>2. CASE 4 \notin H /\ 3 \in H
  BY <1>2
<1>3. CASE 4 \notin H /\ 3 \notin H /\ 2 \in H
  BY <1>3
<1>4. CASE 4 \notin H /\ 3 \notin H /\ 2 \notin H /\ 1 \in H
  BY <1>4
<1>5. CASE 4 \notin H /\ 3 \notin H /\ 2 \notin H /\ 1 \notin H
  <2>1. \A x \in H : x = 0
    BY <1>5
  <2>2. PICK x \in H : TRUE
    OBVIOUS
  <2>3. x \in H /\ x = 0 /\ \A other \in H : other <= x
    BY <2>1, <2>2
  <2> QED BY <2>3
<1> QED BY <1>1, <1>2, <1>3, <1>4, <1>5

\* The fill alone sets a stage.
LEMMA RawStageType ==
  ASSUME NEW pct \in Int, NEW soon \in BOOLEAN
  PROVE  Alarms!RawStage(pct, soon) \in Alarms!Stages
BY LevelsAssumption DEF Alarms!RawStage, Alarms!Stages, Alarms!OKAY, Alarms!WATCH, Alarms!TIGHTEN,
   Alarms!DEMAND, Alarms!FINAL

\* store_stage gives a stage; and it gives up a stage the store was at only
\* when the fill is Hysteresis below that stage's level.
LEMMA StoreStageLeaves ==
  ASSUME NEW pct \in Int, NEW soon \in BOOLEAN, NEW previous \in Alarms!Stages
  PROVE  /\ Alarms!StoreStage(pct, soon, previous) \in Alarms!Stages
         /\ \A s \in Alarms!Stages : Alarms!StoreStage(pct, soon, previous) < s /\ s <= previous
              => pct < Alarms!LevelOf(s) - Hysteresis
<1> DEFINE raw == Alarms!RawStage(pct, soon)
           holding == {s \in Alarms!Stages : raw < s /\ s <= previous /\ Alarms!Clings(pct, s)}
           stage == Alarms!StoreStage(pct, soon, previous)
<1>1. raw \in Alarms!Stages
  BY RawStageType
<1>2. stage = IF holding = {} THEN raw ELSE CHOOSE s \in holding : \A other \in holding : other <= s
  BY DEF Alarms!StoreStage
<1>3. stage \in Alarms!Stages /\ raw <= stage /\ \A s \in holding : s <= stage
  <2> HIDE DEF raw, stage
  <2>1. CASE holding = {}
    BY <1>1, <1>2, <2>1 DEF Alarms!Stages, Alarms!OKAY, Alarms!FINAL
  <2>2. CASE holding # {}
    <3>1. \E m \in holding : \A other \in holding : other <= m
      BY <2>2, HighestStage
    <3>2. stage \in holding /\ \A other \in holding : other <= stage
      BY <1>2, <2>2, <3>1
    <3> QED BY <1>1, <3>2 DEF Alarms!Stages, Alarms!OKAY, Alarms!FINAL
  <2> QED BY <2>1, <2>2
<1>4. ASSUME NEW s \in Alarms!Stages, stage < s, s <= previous PROVE pct < Alarms!LevelOf(s) - Hysteresis
  <2> HIDE DEF raw, stage
  <2>1. s \notin holding /\ raw < s
    BY <1>1, <1>3, <1>4 DEF Alarms!Stages, Alarms!OKAY, Alarms!FINAL
  <2>2. ~Alarms!Clings(pct, s)
    BY <1>4, <2>1
  <2>3. Alarms!LevelOf(s) - Hysteresis \in Int
    BY LevelsAssumption DEF Alarms!LevelOf, Alarms!WATCH, Alarms!TIGHTEN, Alarms!DEMAND
  <2> QED BY <2>2, <2>3 DEF Alarms!Clings
<1> QED BY <1>3, <1>4

(***************************************************************************)
(* Types                                                                   *)
(***************************************************************************)

Passes == [pc: {"idle", "run", "say", "write", "status", "faultsay", "fault"},
           old: Alarms!Stages, stage: Alarms!Stages, book: Alarms!Books,
           lines: [Alarms!Keys -> 0 .. Alarms!Silent], told: SUBSET Alarms!Keys]

Severities == [Alarms!Keys -> 0 .. Alarms!CRITICAL]

\* The operators the passes are made of keep their types.
LEMMA BooksTyped ==
  ASSUME Sensible, NEW book \in Alarms!Books, NEW active \in Severities
  PROVE  /\ Alarms!Empty \in Alarms!Books /\ Alarms!Rest \in Passes
         /\ Alarms!Nothing \in [Alarms!Keys -> 0 .. Alarms!Silent]
         /\ Alarms!Older(book) \in Alarms!Books /\ Alarms!Updated(book, active) \in Alarms!Books
         /\ Alarms!Held(book) \in Severities
         /\ Alarms!Lines(book, active) \in [Alarms!Keys -> 0 .. Alarms!Silent]
<1> USE DEF Sensible, Alarms!CRITICAL, Alarms!Silent, Severities
<1>1. Alarms!Empty \in Alarms!Books /\ Alarms!Nothing \in [Alarms!Keys -> 0 .. Alarms!Silent]
  BY DEF Alarms!Empty, Alarms!Books, Alarms!Closed, Alarms!Nothing
<1>2. Alarms!OKAY \in Alarms!Stages
  BY DEF Alarms!Stages, Alarms!OKAY, Alarms!FINAL
<1>3. Alarms!Rest \in Passes
  BY <1>1, <1>2 DEF Alarms!Rest, Passes
<1>4. Alarms!Older(book) \in Alarms!Books
  <2>1. \A k \in Alarms!Keys : [book[k] EXCEPT !.age = IF @ < Remind THEN @ + 1 ELSE @] \in [sev: 0 .. Alarms!CRITICAL, age: 0 .. Remind]
    BY DEF Alarms!Books
  <2> QED BY <2>1 DEF Alarms!Older, Alarms!Books
<1>5. Alarms!Updated(book, active) \in Alarms!Books
  BY DEF Alarms!Updated, Alarms!Books, Alarms!Closed
<1>6. Alarms!Held(book) \in Severities
  BY DEF Alarms!Held, Alarms!Books
<1>7. Alarms!Lines(book, active) \in [Alarms!Keys -> 0 .. Alarms!Silent]
  BY DEF Alarms!Lines
<1> QED BY <1>1, <1>3, <1>4, <1>5, <1>6, <1>7

\* The stage of a pass and the alarms it finds are well typed.
LEMMA FoundTyped ==
  ASSUME Sensible, Alarms!TypeOK
  PROVE  LET stage == Alarms!StoreStage(fill, FALSE, pass.old)
         IN  /\ stage \in Alarms!Stages
             /\ [k \in Alarms!Keys |-> IF k = "fill" THEN Alarms!Severity(stage) ELSE 0] \in Severities
<1> DEFINE stage == Alarms!StoreStage(fill, FALSE, pass.old)
<1>1. stage \in Alarms!Stages
  <2>1. fill \in Int /\ pass.old \in Alarms!Stages
    BY DEF Alarms!TypeOK, Sensible
  <2> QED BY <2>1, StoreStageLeaves
<1> HIDE DEF stage
<1>2. Alarms!Severity(stage) \in 0 .. Alarms!CRITICAL
  BY <1>1 DEF Alarms!Severity, Alarms!CRITICAL, Alarms!Stages, Alarms!OKAY, Alarms!WATCH,
     Alarms!TIGHTEN, Alarms!DEMAND, Alarms!FINAL
<1>3. [k \in Alarms!Keys |-> IF k = "fill" THEN Alarms!Severity(stage) ELSE 0] \in Severities
  BY <1>2 DEF Alarms!CRITICAL, Severities
<1> QED BY <1>1, <1>3 DEF stage

\* What _fault makes of a pass, field by field.
LEMMA FaultsGives ==
  ASSUME Sensible, pass \in Passes, NEW told \in SUBSET Alarms!Keys, Alarms!Faults(told)
  PROVE  /\ pass' \in Passes
         /\ pass'.pc = "faultsay" /\ pass'.told = told
         /\ pass'.book = Alarms!Updated(pass.book, Alarms!Held(pass.book))
         /\ pass'.lines = Alarms!Lines(pass.book, Alarms!Held(pass.book))
<1> DEFINE active == Alarms!Held(pass.book)
<1>1. pass.book \in Alarms!Books /\ [k \in Alarms!Keys |-> 0] \in Severities
  BY DEF Passes, Severities, Alarms!CRITICAL
<1>2. active \in Severities
  BY <1>1, BooksTyped
<1> HIDE DEF active
<1>3. Alarms!Updated(pass.book, active) \in Alarms!Books
      /\ Alarms!Lines(pass.book, active) \in [Alarms!Keys -> 0 .. Alarms!Silent]
  BY <1>1, <1>2, BooksTyped
<1>4. pass' = [pass EXCEPT !.pc = "faultsay", !.book = Alarms!Updated(@, active),
                           !.lines = Alarms!Lines(pass.book, active), !.told = told]
  BY DEF Alarms!Faults, active
<1>5. /\ pass' \in Passes /\ pass'.pc = "faultsay" /\ pass'.told = told
      /\ pass'.book = Alarms!Updated(pass.book, active)
      /\ pass'.lines = Alarms!Lines(pass.book, active)
  BY <1>3, <1>4 DEF Passes
<1> QED BY <1>5 DEF active

\* Every reachable state is well typed.
THEOREM AlarmsTypeCorrect ==
  ASSUME Sensible
  PROVE  Alarms!Spec => []Alarms!TypeOK
<1>0. [k \in Alarms!Keys |-> 0] \in Severities /\ Alarms!Empty \in Alarms!Books
  BY DEF Severities, Alarms!CRITICAL, Alarms!Empty, Alarms!Books, Alarms!Closed, Sensible
<1>0a. Alarms!Rest \in Passes /\ Alarms!Nothing \in [Alarms!Keys -> 0 .. Alarms!Silent]
  BY <1>0, BooksTyped
<1>1. Alarms!Init => Alarms!TypeOK
  <2> SUFFICES ASSUME Alarms!Init PROVE Alarms!TypeOK
    OBVIOUS
  <2>1. Alarms!OKAY \in Alarms!Stages
    BY DEF Alarms!Stages, Alarms!OKAY, Alarms!FINAL
  <2>2. disk \in Alarms!States /\ pass \in Passes
    BY <1>0, <1>0a, <2>1 DEF Alarms!Init, Alarms!States
  <2>3. said \in [Alarms!Keys -> 0 .. Alarms!CRITICAL]
    BY DEF Alarms!Init, Alarms!CRITICAL
  <2>4. seen \in [Alarms!Stages -> Fills \union {Alarms!NoFill}]
    BY DEF Alarms!Init
  <2> QED BY <2>2, <2>3, <2>4 DEF Alarms!Init, Alarms!TypeOK, Passes, Sensible
<1>2. Alarms!TypeOK /\ [Alarms!Next]_(Alarms!vars) => Alarms!TypeOK'
  <2> SUFFICES ASSUME Alarms!TypeOK, [Alarms!Next]_(Alarms!vars) PROVE Alarms!TypeOK'
    OBVIOUS
  <2>0. /\ pass \in Passes /\ pass.book \in Alarms!Books /\ disk.book \in Alarms!Books /\ disk.stage \in Alarms!Stages
        /\ said \in Severities /\ pass.told \subseteq Alarms!Keys
    BY DEF Alarms!TypeOK, Passes, Alarms!States, Severities
  <2>1. ASSUME NEW kind, Alarms!Fault(kind) PROVE faults' \in 0 .. MaxAlarmFaults
    BY <2>1 DEF Alarms!Fault, Alarms!TypeOK, Sensible
  <2>2. Alarms!Pending \subseteq Alarms!Keys /\ \A ks \in SUBSET Alarms!Pending : Alarms!Saying(ks) \in Severities
    <3>1. \A k \in Alarms!Pending : k \in Alarms!Keys /\ pass.lines[k] \in 0 .. Alarms!CRITICAL
      BY <2>0 DEF Alarms!Pending, Passes, Alarms!Silent, Alarms!CRITICAL
    <3> QED BY <2>0, <3>1 DEF Alarms!Saying, Severities
  <2>3. ASSUME NEW told \in SUBSET Alarms!Keys, Alarms!Faults(told) PROVE pass' \in Passes
    BY <2>0, <2>3, FaultsGives
  <2>4. CASE Alarms!Begin
    <3>1. Alarms!Older(disk.book) \in Alarms!Books
      BY <1>0, <2>0, BooksTyped
    <3>2. pass' \in Passes
      BY <1>0a, <2>0, <2>4, <3>1 DEF Alarms!Begin, Passes
    <3> QED BY <2>4, <3>2 DEF Alarms!Begin, Alarms!TypeOK, Passes
  <2>5. CASE Alarms!Run
    <3>1. pass' \in Passes
      <4> DEFINE stage == Alarms!StoreStage(fill, FALSE, pass.old)
                 active == [k \in Alarms!Keys |-> IF k = "fill" THEN Alarms!Severity(stage) ELSE 0]
      <4>1. stage \in Alarms!Stages /\ active \in Severities
        BY FoundTyped
      <4> HIDE DEF stage, active
      <4>2. Alarms!Updated(pass.book, active) \in Alarms!Books
            /\ Alarms!Lines(pass.book, active) \in [Alarms!Keys -> 0 .. Alarms!Silent]
        BY <2>0, <4>1, BooksTyped
      <4>3. CASE pass' = [pass EXCEPT !.pc = "say", !.stage = stage, !.book = Alarms!Updated(@, active),
                                      !.lines = Alarms!Lines(pass.book, active)]
        BY <2>0, <4>1, <4>2, <4>3 DEF Passes
      <4> QED BY <2>3, <2>5, <4>3 DEF Alarms!Run, stage, active
    <3>2. faults' \in 0 .. MaxAlarmFaults
      BY <2>1, <2>5 DEF Alarms!Run, Alarms!TypeOK
    <3> QED BY <2>5, <3>1, <3>2 DEF Alarms!Run, Alarms!TypeOK, Passes
  <2>5a. CASE Alarms!Say
    <3>1. pass' \in Passes /\ said' \in Severities /\ astray' \subseteq Alarms!Keys
      <4>1. CASE /\ pass' = [pass EXCEPT !.pc = "write", !.lines = Alarms!Nothing, !.told = Alarms!Pending]
                 /\ said' = Alarms!Saying(Alarms!Pending) /\ UNCHANGED astray
        BY <1>0a, <2>0, <2>2, <4>1 DEF Passes, Alarms!TypeOK
      <4>2. ASSUME NEW ks \in SUBSET Alarms!Pending, Alarms!Faults(ks), said' = Alarms!Saying(ks),
                   astray' = astray \union (Alarms!Pending \ ks)
            PROVE  pass' \in Passes /\ said' \in Severities /\ astray' \subseteq Alarms!Keys
        BY <2>2, <2>3, <4>2 DEF Alarms!TypeOK
      <4> QED BY <2>5a, <4>1, <4>2 DEF Alarms!Say
    <3>2. faults' \in 0 .. MaxAlarmFaults
      BY <2>1, <2>5a DEF Alarms!Say, Alarms!TypeOK
    <3> QED BY <2>5a, <3>1, <3>2 DEF Alarms!Say, Alarms!TypeOK, Passes, Severities
  <2>5b. CASE Alarms!FaultSay
    <3>1. PICK ks \in SUBSET Alarms!Pending :
            /\ IF ks = Alarms!Pending THEN UNCHANGED faults ELSE Alarms!Fault("journal")
            /\ said' = Alarms!Saying(ks) /\ astray' = astray \union (Alarms!Pending \ ks)
            /\ pass' = [pass EXCEPT !.pc = "fault", !.lines = Alarms!Nothing,
                                    !.told = (@ \union ks) \ (Alarms!Pending \ ks)]
      BY <2>5b DEF Alarms!FaultSay
    <3>2. pass' \in Passes
      BY <1>0a, <2>0, <2>2, <3>1 DEF Passes
    <3>3. faults' \in 0 .. MaxAlarmFaults
      BY <2>1, <3>1 DEF Alarms!TypeOK
    <3> QED BY <2>2, <2>5b, <3>1, <3>2, <3>3 DEF Alarms!FaultSay, Alarms!TypeOK, Passes, Severities
  <2>6. CASE Alarms!Write
    <3>1. pass' \in Passes
      BY <2>0, <2>3, <2>6 DEF Alarms!Write, Passes
    <3>2. faults' \in 0 .. MaxAlarmFaults
      BY <2>1, <2>6 DEF Alarms!Write, Alarms!TypeOK
    <3>3. disk' \in Alarms!States
      BY <2>0, <2>6 DEF Alarms!Write, Alarms!States, Passes, Alarms!TypeOK
    <3>4. seen' \in [Alarms!Stages -> Fills \union {Alarms!NoFill}] /\ astray' \subseteq Alarms!Keys
      BY <2>6 DEF Alarms!Write, Alarms!Lowest, Alarms!TypeOK
    <3> QED BY <2>6, <3>1, <3>2, <3>3, <3>4 DEF Alarms!Write, Alarms!TypeOK, Passes
  <2>7. CASE Alarms!Status
    <3>1. pass' \in Passes
      BY <1>0a, <2>0, <2>3, <2>7 DEF Alarms!Status
    <3>2. faults' \in 0 .. MaxAlarmFaults
      BY <2>1, <2>7 DEF Alarms!Status, Alarms!TypeOK
    <3> QED BY <2>7, <3>1, <3>2 DEF Alarms!Status, Alarms!TypeOK, Passes
  <2>8. CASE Alarms!WriteFault
    <3>1. faults' \in 0 .. MaxAlarmFaults
      BY <2>1, <2>8 DEF Alarms!WriteFault, Alarms!TypeOK
    <3>2. disk' \in Alarms!States
      BY <2>0, <2>8 DEF Alarms!WriteFault, Alarms!States, Passes, Alarms!TypeOK
    <3>3. seen' \in [Alarms!Stages -> Fills \union {Alarms!NoFill}]
      BY <2>8 DEF Alarms!WriteFault, Alarms!TypeOK
    <3>4. astray' \subseteq Alarms!Keys
      BY <2>0, <2>8 DEF Alarms!WriteFault, Alarms!TypeOK
    <3> QED BY <1>0a, <2>8, <3>1, <3>2, <3>3, <3>4 DEF Alarms!WriteFault, Alarms!TypeOK, Passes
  <2>9. CASE Alarms!Fill
    BY <2>9 DEF Alarms!Fill, Alarms!TypeOK, Sensible
  <2>10. CASE Alarms!Kill
    <3>1. astray' \subseteq Alarms!Keys
      BY <2>0, <2>10 DEF Alarms!Kill, Alarms!TypeOK
    <3> QED BY <1>0a, <2>1, <2>10, <3>1 DEF Alarms!Kill, Alarms!TypeOK, Passes
  <2>11. CASE UNCHANGED Alarms!vars
    BY <2>11 DEF Alarms!vars, Alarms!TypeOK
  <2> QED BY <2>4, <2>5, <2>5a, <2>5b, <2>6, <2>7, <2>8, <2>9, <2>10, <2>11 DEF Alarms!Next, Alarms!Works
<1> QED BY <1>1, <1>2, PTL DEF Alarms!Spec

(***************************************************************************)
(* The book and the journal.  The property looks at the file between two   *)
(* passes; the book in memory changes first, then the journal, then the    *)
(* file.  So the invariant says of each key that is not astray: the book   *)
(* in memory is the journal once the pending lines are in it, and the file *)
(* is the journal unless this pass has said a line of that key.  What it   *)
(* has said is right even for a key that was astray, which is how such a   *)
(* key is brought back.                                                    *)
(***************************************************************************)

JournalInv ==
  /\ pass.pc \notin {"say", "faultsay"} => pass.lines = Alarms!Nothing
  /\ pass.pc \in {"idle", "run", "say", "status"} => pass.told = {}
  /\ \A k \in Alarms!Keys :
       /\ pass.lines[k] # Alarms!Silent => pass.lines[k] = pass.book[k].sev
       /\ pass.pc # "idle" /\ pass.lines[k] = Alarms!Silent /\ (k \notin astray \/ k \in pass.told)
            => said[k] = pass.book[k].sev
       /\ k \notin astray /\ k \notin pass.told => said[k] = disk.book[k].sev

\* AlarmBook.update: what it keeps of a key is the line it gives, if it gives
\* one, and what it had.
LEMMA UpdateKeeps ==
  ASSUME Sensible, NEW book \in Alarms!Books, NEW active \in Severities, NEW k \in Alarms!Keys
  PROVE  Alarms!Updated(book, active)[k].sev =
           IF Alarms!Lines(book, active)[k] # Alarms!Silent THEN Alarms!Lines(book, active)[k]
           ELSE book[k].sev
<1>1. book[k].sev \in 0 .. 3 /\ active[k] \in 0 .. 3
  BY DEF Alarms!Books, Alarms!CRITICAL, Severities
<1>2. CASE active[k] = 0
  BY <1>1, <1>2 DEF Alarms!Lines, Alarms!Updated, Alarms!Raises, Alarms!Reminds, Alarms!Closed,
     Alarms!Silent, Alarms!CRITICAL
<1>3. CASE active[k] # 0
  BY <1>1, <1>3 DEF Alarms!Lines, Alarms!Updated, Alarms!Raises, Alarms!Reminds,
     Alarms!Silent, Alarms!CRITICAL
<1> QED BY <1>2, <1>3

\* Every step keeps it.
LEMMA JournalInvInductive ==
  ASSUME Sensible, Alarms!TypeOK, JournalInv, [Alarms!Next]_(Alarms!vars)
  PROVE  JournalInv'
<1>0. /\ pass \in Passes /\ pass.book \in Alarms!Books /\ disk.book \in Alarms!Books
      /\ said \in Severities /\ pass.told \subseteq Alarms!Keys
  BY DEF Alarms!TypeOK, Passes, Alarms!States, Severities
<1>0a. /\ Alarms!Rest.pc = "idle" /\ Alarms!Rest.told = {} /\ Alarms!Rest.lines = Alarms!Nothing
       /\ \A k \in Alarms!Keys : Alarms!Nothing[k] = Alarms!Silent
  BY DEF Alarms!Rest, Alarms!Nothing
<1>0b. [k \in Alarms!Keys |-> 0] \in Severities
  BY DEF Severities, Alarms!CRITICAL
<1>0c. Alarms!Held(pass.book) \in Severities /\ Alarms!Rest \in Passes
  BY <1>0, <1>0b, BooksTyped
<1>0d. Alarms!Nothing' = Alarms!Nothing /\ Alarms!Silent' = Alarms!Silent /\ Alarms!Rest' = Alarms!Rest
  BY DEF Alarms!Nothing, Alarms!Silent, Alarms!CRITICAL, Alarms!Keys, Alarms!Rest, Alarms!Empty,
     Alarms!Closed, Alarms!OKAY
<1>1. ASSUME NEW active \in Severities, NEW told \in SUBSET Alarms!Keys,
             \A k \in Alarms!Keys : k \notin astray' \/ k \in told => said'[k] = pass.book[k].sev,
             \A k \in Alarms!Keys : k \notin astray' /\ k \notin told => said'[k] = disk.book[k].sev,
             disk' = disk, pass'.pc \in {"say", "faultsay"}, pass'.told = told,
             pass'.pc = "say" => told = {},
             pass'.book = Alarms!Updated(pass.book, active),
             pass'.lines = Alarms!Lines(pass.book, active)
      PROVE  JournalInv'
  <2>1. \A k \in Alarms!Keys :
          pass'.book[k].sev = IF pass'.lines[k] # Alarms!Silent THEN pass'.lines[k] ELSE pass.book[k].sev
    BY <1>0, <1>1, UpdateKeeps
  <2> QED BY <1>0d, <1>1, <2>1 DEF JournalInv
<1>2. ASSUME NEW told \in SUBSET Alarms!Keys, Alarms!Faults(told), disk' = disk,
             \A k \in Alarms!Keys : k \notin astray' \/ k \in told => said'[k] = pass.book[k].sev,
             \A k \in Alarms!Keys : k \notin astray' /\ k \notin told => said'[k] = disk.book[k].sev
      PROVE  JournalInv'
  <2> DEFINE active == Alarms!Held(pass.book)
  <2>1. /\ pass'.pc = "faultsay" /\ pass'.told = told
        /\ pass'.book = Alarms!Updated(pass.book, active)
        /\ pass'.lines = Alarms!Lines(pass.book, active)
    BY <1>0, <1>2, FaultsGives
  <2>2. active \in Severities
    BY <1>0c
  <2> HIDE DEF active
  <2> QED BY <1>1, <1>2, <2>1, <2>2
<1>3. ASSUME pass.pc \in {"run", "write", "status"}
      PROVE  /\ \A k \in Alarms!Keys : k \notin astray \/ k \in pass.told => said[k] = pass.book[k].sev
             /\ \A k \in Alarms!Keys : k \notin astray /\ k \notin pass.told => said[k] = disk.book[k].sev
  BY <1>0a, <1>3 DEF JournalInv
<1>4. CASE Alarms!Begin
  <2>1. pass'.pc = "run" /\ pass'.book = Alarms!Older(disk.book) /\ pass'.lines = Alarms!Nothing
        /\ pass'.told = {} /\ UNCHANGED <<disk, said, astray>> /\ pass.pc = "idle"
    BY <1>0a, <1>0c, <1>4 DEF Alarms!Begin, Passes
  <2>2. \A k \in Alarms!Keys : Alarms!Older(disk.book)[k].sev = disk.book[k].sev
    BY <1>0 DEF Alarms!Older, Alarms!Books
  <2>3. pass.told = {}
    BY <2>1 DEF JournalInv
  <2> QED BY <1>0a, <1>0d, <2>1, <2>2, <2>3 DEF JournalInv
<1>5. CASE Alarms!Run
  <2> DEFINE stage == Alarms!StoreStage(fill, FALSE, pass.old)
             active == [k \in Alarms!Keys |-> IF k = "fill" THEN Alarms!Severity(stage) ELSE 0]
  <2>0. pass.pc = "run" /\ pass.told = {} /\ UNCHANGED <<said, astray, disk>>
    BY <1>5 DEF Alarms!Run, JournalInv
  <2>1. CASE pass' = [pass EXCEPT !.pc = "say", !.stage = stage, !.book = Alarms!Updated(@, active),
                                  !.lines = Alarms!Lines(pass.book, active)]
    <3>1. active \in Severities
      BY FoundTyped
    <3> HIDE DEF stage, active
    <3>2. /\ pass'.pc = "say" /\ pass'.book = Alarms!Updated(pass.book, active)
          /\ pass'.lines = Alarms!Lines(pass.book, active) /\ pass'.told = {}
      BY <1>0, <2>0, <2>1 DEF Passes
    <3>3. {} \in SUBSET Alarms!Keys
      OBVIOUS
    <3> QED BY <1>1, <1>3, <2>0, <3>1, <3>2, <3>3
  <2>2. CASE Alarms!Faults({})
    BY <1>2, <1>3, <2>0, <2>2
  <2> QED BY <1>5, <2>1, <2>2 DEF Alarms!Run
<1>6. /\ \A k \in Alarms!Keys : k \in Alarms!Pending <=> pass.lines[k] # Alarms!Silent
      /\ Alarms!Pending \subseteq Alarms!Keys
      /\ \A ks \in SUBSET Alarms!Pending : \A k \in Alarms!Keys :
           Alarms!Saying(ks)[k] = IF k \in ks THEN pass.lines[k] ELSE said[k]
  BY DEF Alarms!Saying, Alarms!Pending
<1>7. CASE Alarms!Say
  <2>0. pass.pc = "say" /\ pass.told = {} /\ UNCHANGED disk
    BY <1>7 DEF Alarms!Say, JournalInv
  <2>1. CASE /\ pass' = [pass EXCEPT !.pc = "write", !.lines = Alarms!Nothing, !.told = Alarms!Pending]
             /\ said' = Alarms!Saying(Alarms!Pending) /\ UNCHANGED astray
    <3>1. pass'.pc = "write" /\ pass'.lines = Alarms!Nothing /\ pass'.told = Alarms!Pending
          /\ pass'.book = pass.book
      BY <1>0, <2>1 DEF Passes
    <3>2. \A k \in Alarms!Keys : said'[k] = IF k \in Alarms!Pending THEN pass.lines[k] ELSE said[k]
      BY <1>6, <2>1
    <3> QED BY <1>0a, <1>0d, <1>6, <2>0, <2>1, <3>1, <3>2 DEF JournalInv
  <2>2. ASSUME NEW ks \in SUBSET Alarms!Pending, said' = Alarms!Saying(ks),
               astray' = astray \union (Alarms!Pending \ ks), Alarms!Faults(ks)
        PROVE  JournalInv'
    <3>1. \A k \in Alarms!Keys : said'[k] = IF k \in ks THEN pass.lines[k] ELSE said[k]
      BY <1>6, <2>2
    <3>2. ASSUME NEW k \in Alarms!Keys, k \notin astray' \/ k \in ks PROVE said'[k] = pass.book[k].sev
      BY <1>6, <2>0, <2>2, <3>1, <3>2 DEF JournalInv
    <3>3. ASSUME NEW k \in Alarms!Keys, k \notin astray', k \notin ks PROVE said'[k] = disk.book[k].sev
      BY <1>6, <2>0, <2>2, <3>1, <3>3 DEF JournalInv
    <3>4. ks \in SUBSET Alarms!Keys
      BY <1>6
    <3> QED BY <1>2, <2>0, <2>2, <3>2, <3>3, <3>4
  <2> QED BY <1>7, <2>1, <2>2 DEF Alarms!Say
<1>8. CASE Alarms!FaultSay
  <2>0. pass.pc = "faultsay" /\ UNCHANGED disk
    BY <1>8 DEF Alarms!FaultSay
  <2>1. PICK ks \in SUBSET Alarms!Pending :
          /\ said' = Alarms!Saying(ks) /\ astray' = astray \union (Alarms!Pending \ ks)
          /\ pass' = [pass EXCEPT !.pc = "fault", !.lines = Alarms!Nothing,
                                  !.told = (@ \union ks) \ (Alarms!Pending \ ks)]
    BY <1>8 DEF Alarms!FaultSay
  <2>2. /\ pass'.pc = "fault" /\ pass'.lines = Alarms!Nothing /\ pass'.book = pass.book
        /\ pass'.told = (pass.told \union ks) \ (Alarms!Pending \ ks)
    BY <1>0, <2>1 DEF Passes
  <2>3. \A k \in Alarms!Keys : said'[k] = IF k \in ks THEN pass.lines[k] ELSE said[k]
    BY <1>6, <2>1
  <2>4. ASSUME NEW k \in Alarms!Keys, k \notin astray' \/ k \in pass'.told PROVE said'[k] = pass'.book[k].sev
    BY <1>6, <2>0, <2>1, <2>2, <2>3, <2>4 DEF JournalInv
  <2>5. ASSUME NEW k \in Alarms!Keys, k \notin astray', k \notin pass'.told PROVE said'[k] = disk'.book[k].sev
    BY <1>6, <2>0, <2>1, <2>2, <2>3, <2>5 DEF JournalInv
  <2> QED BY <1>0a, <1>0d, <2>2, <2>4, <2>5 DEF JournalInv
<1>9. CASE Alarms!Write
  <2>0. pass.pc = "write" /\ UNCHANGED said
    BY <1>9 DEF Alarms!Write
  <2>1. CASE Alarms!Faults(pass.told) /\ UNCHANGED <<disk, astray>>
    BY <1>0, <1>2, <1>3, <2>0, <2>1
  <2>2. CASE /\ disk' = [stage |-> pass.stage, book |-> pass.book]
             /\ pass' = [pass EXCEPT !.pc = "status", !.told = {}] /\ astray' = astray \ pass.told
    <3>1. /\ disk'.book = pass.book /\ pass'.book = pass.book /\ pass'.pc = "status" /\ pass'.told = {}
          /\ pass'.lines = Alarms!Nothing
      BY <1>0, <2>0, <2>2 DEF Passes, JournalInv
    <3> QED BY <1>0a, <1>0d, <1>3, <2>0, <2>2, <3>1 DEF JournalInv
  <2> QED BY <1>9, <2>1, <2>2 DEF Alarms!Write
<1>10. CASE Alarms!Status
  <2>0. pass.pc = "status" /\ pass.told = {} /\ UNCHANGED <<said, astray, disk>>
    BY <1>10 DEF Alarms!Status, JournalInv
  <2>1. CASE Alarms!Faults({})
    BY <1>2, <1>3, <2>0, <2>1
  <2>2. CASE pass' = Alarms!Rest
    BY <1>0a, <1>0d, <1>3, <2>0, <2>2 DEF JournalInv
  <2> QED BY <1>10, <2>1, <2>2 DEF Alarms!Status
<1>11. CASE Alarms!WriteFault
  <2>0. pass.pc = "fault" /\ pass' = Alarms!Rest /\ UNCHANGED said /\ pass.lines = Alarms!Nothing
    BY <1>11 DEF Alarms!WriteFault, JournalInv
  <2>1. CASE disk' = [stage |-> pass.old, book |-> pass.book] /\ astray' = astray \ pass.told
    BY <1>0a, <1>0d, <2>0, <2>1 DEF JournalInv
  <2>2. CASE astray' = astray \union pass.told /\ UNCHANGED disk
    BY <1>0a, <1>0d, <2>0, <2>2 DEF JournalInv
  <2> QED BY <1>11, <2>1, <2>2 DEF Alarms!WriteFault
<1>12. CASE Alarms!Kill
  BY <1>0a, <1>0d, <1>12 DEF Alarms!Kill, JournalInv
<1>13. CASE Alarms!Fill \/ UNCHANGED Alarms!vars
  BY <1>0d, <1>13 DEF Alarms!Fill, Alarms!vars, JournalInv
<1> QED BY <1>4, <1>5, <1>7, <1>8, <1>9, <1>10, <1>11, <1>12, <1>13 DEF Alarms!Next, Alarms!Works

\* "one journal line per alarm episode": through passes that fault at any point,
\* the book between passes has exactly the episodes the journal has open; a key
\* may be apart only while its last line was lost, or said and its state lost.
THEOREM BookAgreesWithJournal ==
  ASSUME Sensible
  PROVE  Alarms!Spec => []BookIsJournal
<1>1. Alarms!Init => JournalInv
  <2> SUFFICES ASSUME Alarms!Init PROVE JournalInv
    OBVIOUS
  <2>1. pass.pc = "idle" /\ disk.book = Alarms!Empty /\ pass.told = {} /\ pass.lines = Alarms!Nothing
    BY DEF Alarms!Init, Alarms!Rest
  <2>2. \A k \in Alarms!Keys : said[k] = 0 /\ Alarms!Empty[k].sev = 0 /\ Alarms!Nothing[k] = Alarms!Silent
    BY DEF Alarms!Init, Alarms!Empty, Alarms!Closed, Alarms!Nothing
  <2> QED BY <2>1, <2>2 DEF JournalInv
<1>2. Alarms!TypeOK /\ JournalInv /\ [Alarms!Next]_(Alarms!vars) => JournalInv'
  BY JournalInvInductive
<1>3. JournalInv => BookIsJournal
  BY DEF JournalInv, BookIsJournal, Alarms!BookIsJournal
<1> QED BY <1>1, <1>2, <1>3, AlarmsTypeCorrect, PTL DEF Alarms!Spec

(***************************************************************************)
(* No flapping.  What the property needs at the moment a stage comes back  *)
(* was settled when it was left, so the invariant keeps it for every stage *)
(* above the store's, and says what a pass still knows of the file and of  *)
(* the fill it read.                                                       *)
(***************************************************************************)

HoverInv ==
  /\ \A s \in Alarms!Stages \ {Alarms!OKAY} :
       disk.stage < s /\ seen[s] # Alarms!NoFill => seen[s] < Alarms!LevelOf(s) - Hysteresis
  /\ pass.pc \in {"run", "say", "write"} => pass.old = disk.stage
  /\ pass.pc \in {"say", "write"} => pass.stage = Alarms!StoreStage(fill, FALSE, pass.old)

\* Every step keeps it.
LEMMA HoverInvInductive ==
  ASSUME Sensible, Alarms!TypeOK, HoverInv, [Alarms!Next]_(Alarms!vars)
  PROVE  HoverInv'
<1> USE DEF HoverInv
<1>0. /\ pass \in Passes /\ pass.old \in Alarms!Stages /\ disk.stage \in Alarms!Stages /\ fill \in Nat
      /\ Alarms!Rest.pc = "idle" /\ \A s \in Alarms!Stages : seen[s] \in Nat
  <2>1. pass \in Passes /\ pass.old \in Alarms!Stages /\ disk.stage \in Alarms!Stages /\ fill \in Nat
    BY DEF Alarms!TypeOK, Passes, Alarms!States, Sensible
  <2>2. Alarms!NoFill \in Nat /\ \A s \in Alarms!Stages : seen[s] \in Fills \union {Alarms!NoFill}
    BY DEF Alarms!TypeOK, Alarms!NoFill
  <2>3. \A s \in Alarms!Stages : seen[s] \in Nat
    BY <2>2 DEF Sensible
  <2> QED BY <2>1, <2>3 DEF Alarms!Rest
<1>1. \A s \in Alarms!Stages : Alarms!LevelOf(s) - Hysteresis \in Int
  BY LevelsAssumption DEF Alarms!LevelOf, Alarms!WATCH, Alarms!TIGHTEN, Alarms!DEMAND
<1>2. ASSUME NEW told, Alarms!Faults(told) PROVE pass'.pc = "faultsay"
  BY <1>0, <1>2 DEF Alarms!Faults, Passes
<1>3. ASSUME UNCHANGED <<disk, seen>>, pass'.pc \notin {"run", "say", "write"} PROVE HoverInv'
  BY <1>3
<1>4. CASE Alarms!Begin
  BY <1>4 DEF Alarms!Begin
<1>5. CASE Alarms!Run
  <2> DEFINE stage == Alarms!StoreStage(fill, FALSE, pass.old)
             active == [k \in Alarms!Keys |-> IF k = "fill" THEN Alarms!Severity(stage) ELSE 0]
  <2>1. CASE pass' = [pass EXCEPT !.pc = "say", !.stage = stage, !.book = Alarms!Updated(@, active),
                                  !.lines = Alarms!Lines(pass.book, active)]
    <3> HIDE DEF active
    <3>1. pass'.pc = "say" /\ pass'.stage = stage /\ pass'.old = pass.old
      BY <1>0, <2>1 DEF Passes
    <3> QED BY <1>5, <3>1 DEF Alarms!Run
  <2>2. CASE Alarms!Faults({})
    BY <1>2, <1>3, <1>5, <2>2 DEF Alarms!Run
  <2> QED BY <1>5, <2>1, <2>2 DEF Alarms!Run
<1>5a. CASE Alarms!Say
  <2>1. CASE pass' = [pass EXCEPT !.pc = "write", !.lines = Alarms!Nothing, !.told = Alarms!Pending]
    <3>1. pass'.pc = "write" /\ pass'.stage = pass.stage /\ pass'.old = pass.old
      BY <1>0, <2>1 DEF Passes
    <3> QED BY <1>5a, <3>1 DEF Alarms!Say
  <2>2. CASE \E ks : Alarms!Faults(ks)
    BY <1>2, <1>3, <1>5a, <2>2 DEF Alarms!Say
  <2> QED BY <1>5a, <2>1, <2>2 DEF Alarms!Say
<1>5b. CASE Alarms!FaultSay
  <2>1. pass'.pc = "fault"
    BY <1>0, <1>5b DEF Alarms!FaultSay, Passes
  <2> QED BY <1>3, <1>5b, <2>1 DEF Alarms!FaultSay
<1>6. CASE Alarms!Write
  <2>1. CASE Alarms!Faults(pass.told) /\ UNCHANGED <<disk, seen>>
    BY <1>2, <1>3, <2>1
  <2>2. CASE /\ disk' = [stage |-> pass.stage, book |-> pass.book]
             /\ pass' = [pass EXCEPT !.pc = "status", !.told = {}]
             /\ seen' = Alarms!Lowest(pass.stage)
    <3>1. disk'.stage = pass.stage /\ pass'.pc = "status"
      BY <1>0, <2>2 DEF Passes
    <3>2. ASSUME NEW s \in Alarms!Stages \ {Alarms!OKAY}, pass.stage < s, seen'[s] # Alarms!NoFill
          PROVE  seen'[s] < Alarms!LevelOf(s) - Hysteresis
      <4>1. pass.stage \in Alarms!Stages /\ ~(s <= pass.stage)
        BY <1>0, <3>2 DEF Passes, Alarms!Stages, Alarms!OKAY, Alarms!FINAL
      <4>2. seen[s] # Alarms!NoFill /\ seen'[s] = IF fill < seen[s] THEN fill ELSE seen[s]
        BY <2>2, <3>2, <4>1 DEF Alarms!Lowest
      <4>3. CASE s <= disk.stage
        <5>1. fill < Alarms!LevelOf(s) - Hysteresis
          <6>1. pass.stage = Alarms!StoreStage(fill, FALSE, pass.old) /\ s <= pass.old
            BY <1>6, <4>3 DEF Alarms!Write
          <6>2. fill \in Int /\ s \in Alarms!Stages
            BY <1>0
          <6>3. Alarms!StoreStage(fill, FALSE, pass.old) < s
            BY <3>2, <6>1
          <6> QED BY <1>0, <6>1, <6>2, <6>3, StoreStageLeaves
        <5> QED BY <1>0, <1>1, <4>2, <5>1
      <4>4. CASE disk.stage < s
        BY <1>0, <1>1, <3>2, <4>2, <4>4
      <4> QED BY <1>0, <4>3, <4>4 DEF Alarms!Stages, Alarms!OKAY, Alarms!FINAL
    <3> QED BY <3>1, <3>2
  <2> QED BY <1>6, <2>1, <2>2 DEF Alarms!Write
<1>7. CASE Alarms!Status
  BY <1>0, <1>2, <1>3, <1>7 DEF Alarms!Status
<1>8. CASE Alarms!WriteFault
  <2>1. CASE /\ disk' = [stage |-> pass.old, book |-> pass.book]
             /\ seen' = [s \in Alarms!Stages |-> IF s > pass.old /\ s <= disk.stage THEN Alarms!NoFill ELSE seen[s]]
    <3>1. disk'.stage = pass.old /\ pass'.pc = "idle"
      BY <1>0, <1>8, <2>1 DEF Alarms!WriteFault
    <3>2. ASSUME NEW s \in Alarms!Stages \ {Alarms!OKAY}, pass.old < s, seen'[s] # Alarms!NoFill
          PROVE  seen'[s] < Alarms!LevelOf(s) - Hysteresis
      <4>1. ~(s <= disk.stage) /\ seen'[s] = seen[s]
        BY <1>0, <2>1, <3>2 DEF Alarms!Stages, Alarms!OKAY, Alarms!FINAL
      <4>2. disk.stage < s
        BY <1>0, <4>1 DEF Alarms!Stages, Alarms!OKAY, Alarms!FINAL
      <4> QED BY <3>2, <4>1, <4>2
    <3> QED BY <3>1, <3>2
  <2>2. CASE UNCHANGED <<disk, seen>>
    BY <1>0, <1>3, <1>8, <2>2 DEF Alarms!WriteFault
  <2> QED BY <1>8, <2>1, <2>2 DEF Alarms!WriteFault
<1>9. CASE Alarms!Kill
  BY <1>0, <1>3, <1>9 DEF Alarms!Kill
<1>10. CASE Alarms!Fill
  BY <1>3, <1>10 DEF Alarms!Fill
<1>11. CASE UNCHANGED Alarms!vars
  BY <1>11 DEF Alarms!vars
<1> QED BY <1>4, <1>5, <1>5a, <1>5b, <1>6, <1>7, <1>8, <1>9, <1>10, <1>11 DEF Alarms!Next, Alarms!Works

\* "a store hovering at a level holds one stage (and one alarm severity) instead
\* of flapping": for all levels and every hysteresis, a stage comes back only
\* after the fill was Hysteresis below its level, through faults and kills.
THEOREM NoFlapping ==
  ASSUME Sensible
  PROVE  Alarms!Spec => HoverHolds
<1>1. Alarms!Init => HoverInv
  BY DEF Alarms!Init, HoverInv, Alarms!Rest
<1>2. Alarms!TypeOK /\ HoverInv /\ [Alarms!Next]_(Alarms!vars) => HoverInv'
  BY HoverInvInductive
<1>3. HoverInv => (\A s \in Alarms!Stages \ {Alarms!OKAY} :
                     disk.stage < s /\ s <= disk'.stage /\ seen[s] # Alarms!NoFill
                       => seen[s] < Alarms!LevelOf(s) - Hysteresis)
  BY DEF HoverInv
<1> QED BY <1>1, <1>2, <1>3, AlarmsTypeCorrect, PTL DEF Alarms!Spec, HoverHolds, Alarms!HoverHolds
=============================================================================
