------------------------- MODULE StorageLedgerProofs -------------------------
(***************************************************************************)
(* Theorems about StorageLedger, for every set of clients, stores and      *)
(* registrations, and every value of the ledger's times.                   *)
(***************************************************************************)
EXTENDS StorageLedger, TLAPS

(***************************************************************************)
(* Types                                                                   *)
(***************************************************************************)

\* store_stage gives a stage.
LEMMA StageType ==
  ASSUME NEW pct \in Nat, NEW soon \in BOOLEAN, NEW previous \in Stages
  PROVE  StoreStage(pct, soon, previous) \in Stages
<1> DEFINE raw == RawStage(pct, soon)
           held == {s \in Stages : raw < s /\ s <= previous /\ Clings(pct, s)}
<1>1. raw \in Stages
  BY LevelsAssumption DEF RawStage, Stages, OKAY, WATCH, TIGHTEN, DEMAND, FINAL
<1>2. ASSUME held # {} PROVE \E m \in held : \A other \in held : other <= m
  <2> HIDE DEF held
  <2>1. held \subseteq 0 .. 4
    BY DEF held, Stages, OKAY, FINAL
  <2>2. CASE 4 \in held
    BY <2>1, <2>2
  <2>3. CASE 4 \notin held /\ 3 \in held
    BY <2>1, <2>3
  <2>4. CASE 4 \notin held /\ 3 \notin held /\ 2 \in held
    BY <2>1, <2>4
  <2>5. CASE 4 \notin held /\ 3 \notin held /\ 2 \notin held /\ 1 \in held
    BY <2>1, <2>5
  <2>6. CASE 4 \notin held /\ 3 \notin held /\ 2 \notin held /\ 1 \notin held
    <3>1. \A x \in held : x = 0
      BY <2>1, <2>6
    <3>2. PICK x \in held : TRUE
      BY <1>2
    <3>3. x \in held /\ \A other \in held : other <= x
      BY <3>1, <3>2
    <3> QED BY <3>3
  <2> QED BY <2>2, <2>3, <2>4, <2>5, <2>6
<1>3. StoreStage(pct, soon, previous) =
        IF held = {} THEN raw ELSE CHOOSE s \in held : \A other \in held : other <= s
  BY DEF StoreStage
<1>4. CASE held = {}
  BY <1>1, <1>3, <1>4
<1>5. CASE held # {}
  <2>1. (CHOOSE s \in held : \A other \in held : other <= s) \in held
    BY <1>2, <1>5
  <2> QED BY <1>3, <1>5, <2>1
<1> QED BY <1>4, <1>5

\* The records of an answer, of the upkeep and of time passing are records.
LEMMA RecordsTyped ==
  ASSUME NEW rec \in Recs, NEW ok \in BOOLEAN
  PROVE  /\ NoRec \in Recs /\ Rec \subseteq Recs
         /\ rec.ok \in BOOLEAN /\ rec.req \in Int /\ rec.fin \in Int
         /\ rec.fin \in None .. FinalGrace + 1
         /\ RecordAnswer(rec, ok) \in Rec
         /\ OlderRec(rec) \in Recs
<1> USE LedgerAssumption
<1>1. NoRec \in Recs /\ Rec \subseteq Recs
  BY DEF Recs
<1>2. CASE rec = NoRec
  BY <1>1, <1>2 DEF NoRec, Rec, RecordAnswer, OlderRec, None
<1>3. CASE rec \in Rec /\ rec # NoRec
  <2>1. /\ rec.req \in 0 .. Deadline + 1 /\ rec.ok \in BOOLEAN /\ rec.fin \in None .. FinalGrace + 1
        /\ rec.touched \in 0 .. StaleTrim + 1
    BY <1>3 DEF Rec
  <2>2. RecordAnswer(rec, ok) \in Rec
    <3>1. [req |-> 0, ok |-> ok, fin |-> rec.fin, touched |-> 0] \in Rec
      BY <2>1 DEF Rec
    <3>2. [rec EXCEPT !.ok = ok, !.touched = 0] \in Rec
      <4>1. 0 \in 0 .. StaleTrim + 1
        OBVIOUS
      <4> QED BY <1>3, <4>1 DEF Rec
    <3> QED BY <3>1, <3>2 DEF RecordAnswer
  <2>3. /\ Older(rec.req, Deadline + 1) \in 0 .. Deadline + 1
        /\ Older(rec.fin, FinalGrace + 1) \in None .. FinalGrace + 1
        /\ Older(rec.touched, StaleTrim + 1) \in 0 .. StaleTrim + 1
    BY <2>1 DEF Older, None
  <2>4. OlderRec(rec) \in Rec
    BY <1>3, <2>1, <2>3 DEF OlderRec, Rec
  <2> QED BY <1>1, <2>1, <2>2, <2>4 DEF None
<1> QED BY <1>2, <1>3 DEF Recs

\* What PassDecide and PassEnd write into the records of a client.
LEMMA TrimsTyped ==
  ASSUME TypeOK, pass.st \in State, NEW c \in Clients
  PROVE  /\ pass.st.trims[c] \in Recs
         /\ \A final, fits \in BOOLEAN : Asked(c, final, fits) \in Recs
         /\ Upkeep(c) \in Recs
         /\ LoadTrims(c) \in Recs
<1> USE LedgerAssumption
<1>1. pass.st.trims[c] \in Recs /\ disk.trims[c] \in Recs
  BY DEF TypeOK, State, Trims
<1>2. NoRec \in Recs
  BY <1>1, RecordsTyped
<1>3. ASSUME NEW final \in BOOLEAN, NEW fits \in BOOLEAN PROVE Asked(c, final, fits) \in Recs
  <2> DEFINE ok == client[c].answer # "fails"
             rec == RecordAnswer(pass.st.trims[c], ok)
             good == client[c].answer = "ok"
  <2>1. ok \in BOOLEAN /\ good \in BOOLEAN
    OBVIOUS
  <2> HIDE DEF ok, good
  <2>2. rec \in Recs
    BY <1>1, <2>1, RecordsTyped
  <2> HIDE DEF rec
  <2>3. RecordAnswer(rec, good) \in Recs
    BY <2>1, <2>2, RecordsTyped
  <2> QED BY <2>2, <2>3 DEF Asked, rec, ok, good
<1>4. Upkeep(c) \in Recs
  <2> DEFINE rec == pass.st.trims[c]
             open == IF rec = NoRec THEN [req |-> 0, ok |-> FALSE, fin |-> None, touched |-> 0] ELSE rec
  <2>0. 0 \in 0 .. StaleTrim + 1
    OBVIOUS
  <2>1. open \in Rec
    BY <1>1 DEF Rec, Recs, None
  <2>2. [open EXCEPT !.fin = IF @ = None THEN 0 ELSE @, !.touched = 0] \in Rec
    <3> HIDE DEF open
    <3> DEFINE f == IF open.fin = None THEN 0 ELSE open.fin
    <3>1. f \in None .. FinalGrace + 1
      BY <2>1 DEF Rec, None
    <3> HIDE DEF f
    <3>2. [open EXCEPT !.fin = f, !.touched = 0] \in Rec
      BY <2>0, <2>1, <3>1 DEF Rec
    <3> QED BY <3>2 DEF f
  <2>3. rec # NoRec => [rec EXCEPT !.fin = None, !.touched = 0] \in Rec
    <3>1. None \in None .. FinalGrace + 1
      BY DEF None
    <3>2. rec # NoRec => rec \in Rec
      BY <1>1 DEF Recs
    <3> QED BY <2>0, <3>1, <3>2 DEF Rec
  <2> QED BY <1>2, <2>2, <2>3 DEF Upkeep, Recs
<1>5. LoadTrims(c) \in Recs
  BY <1>1, <1>2 DEF LoadTrims
<1> QED BY <1>1, <1>3, <1>4, <1>5

\* The du cache stays a du cache.
LEMMA DuTyped ==
  ASSUME NEW d \in [age: 0 .. DuCache, over: BOOLEAN]
  PROVE  /\ Expired \in [age: 0 .. DuCache, over: BOOLEAN]
         /\ OlderDu(d) \in [age: 0 .. DuCache, over: BOOLEAN]
         /\ \A b \in BOOLEAN : [age |-> 0, over |-> b] \in [age: 0 .. DuCache, over: BOOLEAN]
BY LedgerAssumption DEF Expired, OlderDu

\* A pass at rest and a fresh state file.
LEMMA RestTyped == EmptyState \in State /\ NoPass \in Pass
<1>1. EmptyState \in State
  <2>1. Expired \in [age: 0 .. DuCache, over: BOOLEAN]
    BY LedgerAssumption DEF Expired
  <2> QED BY <2>1 DEF EmptyState, State, Trims, Recs, Du, Stages, OKAY, FINAL
<1> QED BY <1>1 DEF NoPass, Pass

\* A reprieve is an age of 0.
LEMMA ReprieveTyped ==
  ASSUME NEW h \in [Reprieves -> [Clients -> 0 .. MaxSince]], NEW k, NEW C
  PROVE  Reprieve(h, k, C) \in [Reprieves -> [Clients -> 0 .. MaxSince]]
BY LedgerAssumption DEF Reprieve, MaxSince

\* The measurement before a stop leaves a state file, and its stops alone.
LEMMA RemeasuredTyped ==
  ASSUME TypeOK, NEW r \in Registered
  PROVE  /\ Remeasured(r) \in State
         /\ Remeasured(r).stopped = pass.st.stopped
         /\ Remeasured(r).trims = pass.st.trims
<1>1. pass.st \in State
  BY DEF TypeOK, Pass
<1>2. [age |-> 0, over |-> r \in over] \in [age: 0 .. DuCache, over: BOOLEAN]
  BY LedgerAssumption
<1> QED BY <1>1, <1>2 DEF Remeasured, State, Du

\* A decision leaves a pass.  It asks only managed clients that are not
\* stopped, keeps every other record, and plans to stop only clients that
\* failed, are not stopped, and have no ok answer on record by then.
LEMMA Decides ==
  ASSUME TypeOK, PassDecide
  PROVE  /\ pass' \in Pass
         /\ pass'.pc = "stops" /\ pass'.managed = Managed
         /\ pass'.st.stopped = pass.st.stopped
         /\ \A c \in Clients :
              \/ pass'.st.trims[c] = pass.st.trims[c] /\ c \notin pass'.answered
              \/ /\ c \in Managed
                 /\ \E final, fits \in BOOLEAN : pass'.st.trims[c] = Asked(c, final, fits)
         /\ \A r \in pass'.stops :
              /\ Fails(r[1]) /\ r[1] \notin pass.st.stopped
              /\ ~(r[1] \in Managed /\ pass'.st.trims[r[1]].ok)
         /\ pass'.overFinal \subseteq pass'.pressed
         /\ \A c \in pass'.answered : c \in Managed /\ client[c].answer # "fails"
         /\ \A r \in pass'.stops : Measured(r)
         /\ pass'.st.du = [r \in Registered |-> DuAfter(r)]
<1> USE LedgerAssumption
<1>0. pass \in Pass /\ pass.st \in State
  BY DEF TypeOK, Pass
<1> DEFINE duNow == [r \in Registered |-> DuAfter(r)]
           fillStage(soon) == [s \in Stores |-> StoreStage(fill[s], s \in soon, pass.st.stage[s])]
           stage(soon) == [s \in Stores |-> IF s \in short THEN FINAL ELSE fillStage(soon)[s]]
           held == {r \in Registered : Measured(r)}
           pressed(soon) == {r[1] : r \in {q \in held : stage(soon)[q[2]] >= TIGHTEN}}
           atFinal(soon) == {r \in held : stage(soon)[r[2]] = FINAL}
           overFinal(soon) == {r[1] : r \in atFinal(soon)}
           asked(soon) == (pressed(soon) \intersect Managed) \ pass.st.stopped
           trims(soon, fits) ==
             [c \in Clients |-> IF c \in asked(soon) THEN Asked(c, c \in overFinal(soon), fits)
                                ELSE pass.st.trims[c]]
           stops(soon, fits) ==
             {r \in atFinal(soon) : /\ Fails(r[1]) /\ ~pass.handsOff
                                    /\ r[1] \notin pass.st.stopped
                                    /\ ~(r[1] \in Managed /\ trims(soon, fits)[r[1]].ok)}
           answered(soon) == {c \in asked(soon) : client[c].answer # "fails"}
<1>1. PICK soon \in SUBSET Stores, fits \in BOOLEAN :
        pass' = [pass EXCEPT !.pc = "stops", !.stops = stops(soon, fits), !.managed = Managed,
                   !.pressed = pressed(soon), !.overFinal = overFinal(soon),
                   !.answered = answered(soon),
                   !.st = [@ EXCEPT !.trims = trims(soon, fits), !.stage = fillStage(soon),
                                    !.du = duNow]]
  BY DEF PassDecide
<1>2. fillStage(soon) \in [Stores -> Stages]
  <2> SUFFICES ASSUME NEW s \in Stores
               PROVE  StoreStage(fill[s], s \in soon, pass.st.stage[s]) \in Stages
    OBVIOUS
  <2>1. fill[s] \in Nat /\ (s \in soon) \in BOOLEAN /\ pass.st.stage[s] \in Stages
    BY <1>0 DEF TypeOK, State
  <2> QED BY <2>1, StageType
<1>3. ASSUME NEW c \in Clients
      PROVE  /\ trims(soon, fits)[c] \in Recs
             /\ \/ c \notin asked(soon) /\ trims(soon, fits)[c] = pass.st.trims[c]
                \/ /\ c \in asked(soon)
                   /\ \E x, y \in BOOLEAN : trims(soon, fits)[c] = Asked(c, x, y)
  <2> DEFINE final == c \in overFinal(soon)
  <2>1. final \in BOOLEAN
    OBVIOUS
  <2> HIDE DEF final
  <2>2. Asked(c, final, fits) \in Recs /\ pass.st.trims[c] \in Recs
    BY <1>0, <2>1, TrimsTyped
  <2> QED BY <2>1, <2>2 DEF final
<1>4. trims(soon, fits) \in Trims
  <2> DEFINE t == trims(soon, fits)
  <2>1. t = [c \in Clients |-> t[c]]
    OBVIOUS
  <2> HIDE DEF t
  <2> QED BY <1>3, <2>1 DEF Trims, t
<1>5. duNow \in Du
  <2> SUFFICES ASSUME NEW r \in Registered PROVE DuAfter(r) \in [age: 0 .. DuCache, over: BOOLEAN]
    BY DEF Du
  <2>1. pass.st.du[r] \in [age: 0 .. DuCache, over: BOOLEAN]
    BY <1>0 DEF State, Du
  <2> QED BY <2>1, DuTyped DEF DuAfter
<1>6. /\ stops(soon, fits) \subseteq Registered /\ Managed \subseteq Clients
      /\ pressed(soon) \subseteq Clients /\ overFinal(soon) \subseteq Clients
      /\ answered(soon) \subseteq Clients
  BY DEF Managed
<1>7. overFinal(soon) \subseteq pressed(soon)
  <2> HIDE DEF stage, held
  <2> QED BY DEF FINAL, TIGHTEN
<1>8. /\ \A r \in stops(soon, fits) :
           /\ Fails(r[1]) /\ r[1] \notin pass.st.stopped
           /\ ~(r[1] \in Managed /\ trims(soon, fits)[r[1]].ok)
           /\ Measured(r)
      /\ answered(soon) \subseteq asked(soon)
      /\ \A c \in answered(soon) : client[c].answer # "fails"
      /\ asked(soon) \subseteq Managed
  OBVIOUS
<1> HIDE DEF duNow, fillStage, trims, stops, pressed, overFinal, answered, asked
<1>9. [pass.st EXCEPT !.trims = trims(soon, fits), !.stage = fillStage(soon), !.du = duNow] \in State
  BY <1>0, <1>2, <1>4, <1>5 DEF State
<1>10. pass' \in Pass
  BY <1>0, <1>1, <1>6, <1>9 DEF Pass
<1>11. /\ pass'.pc = "stops" /\ pass'.managed = Managed /\ pass'.stops = stops(soon, fits)
       /\ pass'.pressed = pressed(soon) /\ pass'.overFinal = overFinal(soon)
       /\ pass'.answered = answered(soon)
       /\ pass'.st = [pass.st EXCEPT !.trims = trims(soon, fits), !.stage = fillStage(soon),
                                     !.du = duNow]
  BY <1>0, <1>1 DEF Pass
<1>12. pass'.st.trims = trims(soon, fits) /\ pass'.st.stopped = pass.st.stopped /\ pass'.st.du = duNow
  BY <1>0, <1>11 DEF State
<1> QED BY <1>3, <1>7, <1>8, <1>10, <1>11, <1>12 DEF duNow

\* Every operation of the ledger keeps its variables in their types.
THEOREM TypeCorrect == Spec => []TypeOK
<1> USE LedgerAssumption
<1>1. Init => TypeOK
  <2> SUFFICES ASSUME Init PROVE TypeOK
    OBVIOUS
  <2>1. disk \in State /\ pass \in Pass
    BY RestTyped DEF Init
  <2>2. client \in [Clients -> Client]
    <3>1. client \in [Clients -> {[answer |-> a, writes |-> TRUE, up |-> TRUE] : a \in Answers}]
      BY DEF Init
    <3>2. ASSUME NEW c \in Clients PROVE client[c] \in Client
      <4>1. PICK a \in Answers : client[c] = [answer |-> a, writes |-> TRUE, up |-> TRUE]
        BY <3>1
      <4> QED BY <4>1 DEF Client
    <3> QED BY <3>1, <3>2
  <2>3. since \in [Reprieves -> [Clients -> 0 .. MaxSince]]
    BY DEF Init, MaxSince
  <2>4. toml \in [handsOff: BOOLEAN, lever: BOOLEAN]
    BY DEF Init
  <2>5. lately \in [Registered -> 0 .. DuCache]
    BY DEF Init
  <2> QED BY <2>1, <2>2, <2>3, <2>4, <2>5 DEF Init, TypeOK
<1>2. TypeOK /\ [Next]_vars => TypeOK'
  <2> SUFFICES ASSUME TypeOK, [Next]_vars PROVE TypeOK'
    OBVIOUS
  <2>0. /\ disk \in State /\ pass \in Pass /\ pass.st \in State
        /\ client \in [Clients -> Client]
        /\ since \in [Reprieves -> [Clients -> 0 .. MaxSince]]
        /\ faults \in 0 .. MaxFaults
        /\ NoPass \in Pass
    BY RestTyped DEF TypeOK, Pass
  <2>1. CASE PassStart
    <3>1. [disk EXCEPT !.trims = [c \in Clients |-> LoadTrims(c)], !.stopped = @ \ Restarted] \in State
      BY <2>0, TrimsTyped DEF State, Trims
    <3>2. pass' \in Pass
      BY <2>0, <2>1, <3>1 DEF PassStart, Pass, TypeOK
    <3>3. since' \in [Reprieves -> [Clients -> 0 .. MaxSince]]
      BY <2>0, <2>1, ReprieveTyped DEF PassStart
    <3> QED BY <2>1, <3>2, <3>3 DEF PassStart, TypeOK, world
  <2>2. CASE PassDecide
    BY <2>2, Decides DEF PassDecide, TypeOK, world, ghosts
  <2>3. ASSUME NEW r \in Registered, StopSpares(r) PROVE TypeOK'
    <3>1. pass' \in Pass
      BY <2>0, <2>3, RemeasuredTyped DEF StopSpares, StopDone, Pass
    <3> QED BY <2>3, <3>1 DEF StopSpares, TypeOK, world, ghosts
  <2>4. ASSUME NEW r \in Registered, StopClient(r) PROVE TypeOK'
    <3>1. r[1] \in Clients
      OBVIOUS
    <3>2. [Remeasured(r) EXCEPT !.stopped = @ \union {r[1]}] \in State
      BY <3>1, RemeasuredTyped DEF State
    <3>3. pass' \in Pass
      BY <2>0, <2>4, <3>2 DEF StopClient, StopDone, Pass
    <3>4. client' \in [Clients -> Client]
      <4>1. [client[r[1]] EXCEPT !.up = FALSE] \in Client
        BY <2>0, <3>1 DEF Client
      <4> QED BY <2>0, <2>4, <3>1, <4>1 DEF StopClient
    <3> QED BY <2>4, <3>1, <3>3, <3>4 DEF StopClient, TypeOK
  <2>5. ASSUME NEW r \in Registered, StopFails(r) PROVE TypeOK'
    <3>1. pass' \in Pass
      BY <2>0, <2>5, RemeasuredTyped DEF StopFails, StopDone, Pass
    <3>2. client' \in [Clients -> Client]
      <4>1. r[1] \in Clients
        OBVIOUS
      <4>2. client[r[1]].up \in BOOLEAN
        BY <2>0, <4>1 DEF Client
      <4>3. ASSUME NEW b \in BOOLEAN PROVE [client EXCEPT ![r[1]].up = b] \in [Clients -> Client]
        BY <2>0, <4>1 DEF Client
      <4> QED BY <2>0, <2>5, <4>2, <4>3 DEF StopFails
    <3>3. faults' \in 0 .. MaxFaults
      BY <2>0, <2>5 DEF StopFails, Fault
    <3> QED BY <2>5, <3>1, <3>2, <3>3 DEF StopFails, TypeOK, ghosts
  <2>6. CASE PassEnd
    <3>1. disk' \in State
      BY <2>0, <2>6, TrimsTyped DEF PassEnd, State, Trims
    <3>2. since' \in [Reprieves -> [Clients -> 0 .. MaxSince]]
      BY <2>0, <2>6, ReprieveTyped DEF PassEnd
    <3>3. quiet' \in 0 .. StaleTrim + 1
      BY <2>6 DEF PassEnd
    <3> QED BY <2>0, <2>6, <3>1, <3>2, <3>3 DEF PassEnd, TypeOK, world
  <2>7. CASE PassFault
    <3>1. disk' \in State
      BY <2>0, <2>7 DEF PassFault, AfterFault, State
    <3> QED BY <2>0, <2>7, <3>1 DEF PassFault, Fault, TypeOK, world, ghosts
  <2>8. CASE PassKilled
    BY <2>0, <2>8 DEF PassKilled, Fault, TypeOK, world, ghosts
  <2>9. CASE StoreMoves
    <3>1. lately' \in [Registered -> 0 .. DuCache]
      BY <2>9 DEF StoreMoves, TypeOK
    <3> QED BY <2>9, <3>1 DEF StoreMoves, TypeOK
  <2>10. ASSUME NEW c \in Clients, ClientMoves(c) PROVE TypeOK'
    <3>1. client' \in [Clients -> Client]
      <4>1. client[c] \in Client /\ client[c].writes \in BOOLEAN
        BY <2>0 DEF Client
      <4>2. /\ \A a \in Answers : [client EXCEPT ![c].answer = a] \in [Clients -> Client]
            /\ \A b \in BOOLEAN : [client EXCEPT ![c].writes = b] \in [Clients -> Client]
            /\ [client EXCEPT ![c].up = FALSE] \in [Clients -> Client]
        BY <2>0, <4>1 DEF Client
      <4> QED BY <2>10, <4>1, <4>2 DEF ClientMoves
    <3> QED BY <2>10, <3>1 DEF ClientMoves, TypeOK, ghosts
  <2>11. ASSUME NEW c \in Clients, OperatorStarts(c) PROVE TypeOK'
    <3>1. client' \in [Clients -> Client]
      BY <2>0, <2>11 DEF OperatorStarts, Client
    <3>2. since' \in [Reprieves -> [Clients -> 0 .. MaxSince]]
      BY <2>0, <2>11, ReprieveTyped DEF OperatorStarts
    <3> QED BY <2>11, <3>1, <3>2 DEF OperatorStarts, TypeOK
  <2>12. CASE OperatorDirects
    BY <2>12 DEF OperatorDirects, TypeOK, ghosts
  <2>13. CASE Tick
    <3>1. disk' \in State
      BY <2>0, <2>13, RecordsTyped, DuTyped DEF Tick, State, Trims, Du
    <3>2. since' \in [Reprieves -> [Clients -> 0 .. MaxSince]]
      BY <2>0, <2>13 DEF Tick, Older, None, MaxSince
    <3>3. quiet' \in 0 .. StaleTrim + 1
      BY <2>13 DEF Tick, Older, None, TypeOK
    <3>4. lately' \in [Registered -> 0 .. DuCache]
      BY <2>13 DEF Tick, Older, None, TypeOK
    <3> QED BY <2>13, <3>1, <3>2, <3>3, <3>4 DEF Tick, TypeOK, world
  <2>14. CASE UNCHANGED vars
    BY <2>14 DEF vars, TypeOK
  <2> QED BY <2>1, <2>2, <2>3, <2>4, <2>5, <2>6, <2>7, <2>8, <2>9, <2>10, <2>11, <2>12, <2>13, <2>14
          DEF Next, PassStep
<1> QED BY <1>1, <1>2, PTL DEF Spec

(***************************************************************************)
(* What a stop is held against: the records and the reprieves              *)
(***************************************************************************)

\* One answer keeps the age of an open streak or starts a new one, and leaves
\* final_since alone.
LEMMA AnswerKeeps ==
  ASSUME NEW rec \in Recs, NEW ok \in BOOLEAN
  PROVE  LET a == RecordAnswer(rec, ok)
         IN /\ a.fin = rec.fin /\ a.ok = ok
            /\ a.req = 0 \/ (a.req = rec.req /\ ~rec.ok)
<1>1. CASE rec = NoRec \/ rec.ok
  BY <1>1 DEF RecordAnswer
<1>2. CASE rec # NoRec /\ ~rec.ok
  <2>1. rec \in Rec
    BY <1>2 DEF Recs
  <2> QED BY <1>2, <2>1 DEF RecordAnswer, Rec
<1> QED BY <1>1, <1>2

\* A client that is asked: the same of the one or two calls of a pass.
LEMMA AskedKeeps ==
  ASSUME TypeOK, NEW c \in Clients, NEW final \in BOOLEAN, NEW fits \in BOOLEAN
  PROVE  LET a == Asked(c, final, fits)
         IN /\ a.fin = pass.st.trims[c].fin
            /\ a.req = 0 \/ (a.req = pass.st.trims[c].req /\ ~pass.st.trims[c].ok)
            /\ client[c].answer = "ok" => a.ok
<1> DEFINE old == pass.st.trims[c]
           ok == client[c].answer # "fails"
           good == client[c].answer = "ok"
           rec == RecordAnswer(old, ok)
           again == RecordAnswer(rec, good)
<1>1. ok \in BOOLEAN /\ good \in BOOLEAN /\ (good => ok)
  OBVIOUS
<1>2. Asked(c, final, fits) = IF final /\ ~(ok /\ fits) THEN again ELSE rec
  BY DEF Asked
<1>3. old \in Recs
  BY DEF TypeOK, Pass, State, Trims
<1> HIDE DEF old, ok, good
<1>4. rec \in Recs /\ rec.fin = old.fin /\ rec.ok = ok /\ (rec.req = 0 \/ (rec.req = old.req /\ ~old.ok))
  BY <1>1, <1>3, AnswerKeeps, RecordsTyped
<1> HIDE DEF rec
<1>5. again.fin = rec.fin /\ again.ok = good /\ (again.req = 0 \/ again.req = rec.req)
  BY <1>1, <1>4, AnswerKeeps
<1> HIDE DEF again
<1>6. /\ Asked(c, final, fits).fin = old.fin
      /\ Asked(c, final, fits).req = 0 \/ (Asked(c, final, fits).req = old.req /\ ~old.ok)
      /\ good => Asked(c, final, fits).ok
  BY <1>1, <1>2, <1>4, <1>5
<1> QED BY <1>6 DEF old, good

\* The upkeep drops what nothing presses, touches the rest, and makes nothing
\* older.
LEMMA UpkeepOf ==
  ASSUME TypeOK, NEW c \in Clients
  PROVE  /\ c \notin pass.overFinal /\ c \notin pass.pressed => Upkeep(c) = NoRec
         /\ \/ Upkeep(c) = NoRec
            \/ /\ Upkeep(c).touched = 0
               /\ Upkeep(c).req \in {0, pass.st.trims[c].req}
               /\ Upkeep(c).fin \in {None, 0, pass.st.trims[c].fin}
               /\ pass.st.trims[c].ok => Upkeep(c).ok
<1> DEFINE rec == pass.st.trims[c]
           open == IF rec = NoRec THEN [req |-> 0, ok |-> FALSE, fin |-> None, touched |-> 0] ELSE rec
<1>1. rec \in Recs
  BY DEF TypeOK, Pass, State, Trims
<1>2. open \in [req: Int, ok: BOOLEAN, fin: Int, touched: Int]
  BY <1>1, LedgerAssumption DEF Recs, Rec, None
<1>3. open.req \in {0, rec.req} /\ open.fin \in {None, rec.fin} /\ (rec.ok => open.ok)
  BY DEF NoRec
<1>4. Upkeep(c) = IF c \in pass.overFinal
                    THEN [open EXCEPT !.fin = IF @ = None THEN 0 ELSE @, !.touched = 0]
                  ELSE IF rec # NoRec /\ c \in pass.pressed THEN [rec EXCEPT !.fin = None, !.touched = 0]
                  ELSE NoRec
  BY DEF Upkeep
<1>5. CASE c \in pass.overFinal
  <2> HIDE DEF open, rec
  <2>1. Upkeep(c) = [open EXCEPT !.fin = IF @ = None THEN 0 ELSE @, !.touched = 0]
    BY <1>4, <1>5
  <2>2. /\ Upkeep(c).touched = 0 /\ Upkeep(c).req = open.req /\ Upkeep(c).ok = open.ok
        /\ Upkeep(c).fin \in {0, open.fin}
    BY <1>2, <2>1
  <2>3. /\ Upkeep(c).touched = 0 /\ Upkeep(c).req \in {0, rec.req}
        /\ Upkeep(c).fin \in {None, 0, rec.fin} /\ (rec.ok => Upkeep(c).ok)
    BY <1>3, <2>2
  <2> QED BY <1>5, <2>3 DEF rec
<1>6. CASE c \notin pass.overFinal /\ rec # NoRec /\ c \in pass.pressed
  <2>1. Upkeep(c) = [rec EXCEPT !.fin = None, !.touched = 0] /\ rec \in Rec
    BY <1>1, <1>4, <1>6 DEF Recs
  <2> HIDE DEF rec
  <2>2. /\ Upkeep(c).touched = 0 /\ Upkeep(c).req = rec.req /\ Upkeep(c).ok = rec.ok
        /\ Upkeep(c).fin = None
    BY <2>1 DEF Rec
  <2> QED BY <1>6, <2>2 DEF rec
<1>7. CASE c \notin pass.overFinal /\ (rec = NoRec \/ c \notin pass.pressed)
  BY <1>4, <1>7
<1> QED BY <1>5, <1>6, <1>7

\* Time makes the ages of a record older, none past its bound.
LEMMA OlderRecAges ==
  ASSUME NEW rec \in Recs, NEW a \in 0 .. MaxSince
  PROVE  /\ OlderRec(rec).ok = rec.ok
         /\ rec.req <= a => OlderRec(rec).req <= Older(a, MaxSince)
         /\ rec.fin <= a => OlderRec(rec).fin <= Older(a, MaxSince)
         /\ OlderRec(rec) = NoRec \/ (/\ rec # NoRec
                                      /\ OlderRec(rec).touched = Older(rec.touched, StaleTrim + 1))
<1> USE LedgerAssumption
<1>1. CASE rec = NoRec
  BY <1>1 DEF OlderRec, NoRec, Older, None, MaxSince
<1>2. CASE rec # NoRec
  <2>1. /\ rec.req \in 0 .. Deadline + 1 /\ rec.ok \in BOOLEAN /\ rec.fin \in None .. FinalGrace + 1
        /\ rec.touched \in 0 .. StaleTrim + 1
    BY <1>2 DEF Recs, Rec
  <2>2. /\ OlderRec(rec).req = Older(rec.req, Deadline + 1)
        /\ OlderRec(rec).fin = Older(rec.fin, FinalGrace + 1)
        /\ OlderRec(rec).touched = Older(rec.touched, StaleTrim + 1)
        /\ OlderRec(rec).ok = rec.ok
    BY <1>2 DEF OlderRec
  <2>3. rec.req <= a => Older(rec.req, Deadline + 1) <= Older(a, MaxSince)
    BY <2>1 DEF Older, None, MaxSince
  <2>4. rec.fin <= a => Older(rec.fin, FinalGrace + 1) <= Older(a, MaxSince)
    BY <2>1 DEF Older, None, MaxSince
  <2> QED BY <1>2, <2>2, <2>3, <2>4
<1> QED BY <1>1, <1>2

\* A step of the stop lever, as the pass sees it.
LeverActs(r) ==
  /\ pass.pc = "stops" /\ r \in pass.stops
  /\ pass'.pc = "stops"
  /\ pass'.stops = {q \in pass.stops : q[1] # r[1]}
  /\ pass'.st.trims = pass.st.trims
  /\ pass'.st.stopped \in {pass.st.stopped, pass.st.stopped \union {r[1]}}
  /\ UNCHANGED <<disk, since, quiet>>
  /\ pass'.managed = pass.managed /\ pass'.answered = pass.answered
  /\ pass'.pressed = pass.pressed /\ pass'.overFinal = pass.overFinal

\* The steps that matter to the records.
LEMMA StepKinds ==
  ASSUME TypeOK, [Next]_vars
  PROVE  \/ PassStart \/ PassDecide \/ PassEnd \/ PassFault \/ PassKilled \/ Tick
         \/ \E r \in Registered : LeverActs(r)
         \/ \E c \in Clients : OperatorStarts(c)
         \/ UNCHANGED <<disk, pass, since, quiet>>
<1>1. pass \in Pass /\ pass.st \in State
  BY DEF TypeOK, Pass
<1>2. ASSUME NEW r \in Registered, NEW st, pass.pc = "stops", r \in pass.stops, StopDone(r, st),
             st.trims = pass.st.trims, UNCHANGED <<disk, since, quiet>>,
             st.stopped \in {pass.st.stopped, pass.st.stopped \union {r[1]}}
      PROVE  LeverActs(r)
  BY <1>1, <1>2 DEF StopDone, LeverActs, Pass
<1>3. ASSUME NEW r \in Registered, StopSpares(r) \/ StopFails(r) PROVE LeverActs(r)
  BY <1>2, <1>3, RemeasuredTyped DEF StopSpares, StopFails, MayStop, ghosts
<1>4. ASSUME NEW r \in Registered, StopClient(r) PROVE LeverActs(r)
  <2> DEFINE st == [Remeasured(r) EXCEPT !.stopped = @ \union {r[1]}]
  <2>1. st.trims = pass.st.trims /\ st.stopped = pass.st.stopped \union {r[1]}
    BY RemeasuredTyped DEF State
  <2> HIDE DEF st
  <2>2. StopDone(r, st) /\ pass.pc = "stops" /\ r \in pass.stops /\ UNCHANGED <<disk, since, quiet>>
    BY <1>4 DEF StopClient, MayStop, st
  <2> QED BY <1>2, <2>1, <2>2
<1>5. CASE StoreMoves \/ OperatorDirects \/ (\E c \in Clients : ClientMoves(c)) \/ UNCHANGED vars
  BY <1>5 DEF StoreMoves, OperatorDirects, ClientMoves, vars, ghosts
<1> QED BY <1>3, <1>4, <1>5 DEF Next, PassStep

\* A client goes down by the stop lever alone.
LEMMA StopsByLever ==
  ASSUME TypeOK, Next, NEW c \in Clients, Stops(c)
  PROVE  \E r \in Registered : r[1] = c /\ r \in pass.stops /\ MayStop(r)
<1>1. ~(down' \subseteq down)
  BY DEF Stops
<1>2. \/ \E r \in Registered : StopClient(r)
      \/ down' \subseteq down
  BY DEF Next, PassStep, PassStart, PassDecide, PassEnd, StopSpares, StopFails, PassFault, PassKilled,
     StoreMoves, ClientMoves, OperatorStarts, OperatorDirects, Tick, ghosts
<1>3. PICK r \in Registered : StopClient(r)
  BY <1>1, <1>2
<1>4. c = r[1] /\ MayStop(r)
  BY <1>3 DEF StopClient, Stops
<1> QED BY <1>4 DEF MayStop

(***************************************************************************)
(* Stops stay recorded                                                     *)
(***************************************************************************)

\* A client the ledger holds down does not run, so no pass takes it for one
\* an operator started; and it is on the list that is written next.
DownInv ==
  /\ \A c \in down : ~client[c].up
  /\ IF pass.pc = "idle" THEN down \subseteq disk.stopped ELSE down \subseteq pass.st.stopped

\* Every step but a kill keeps it.
LEMMA DownInvInductive ==
  ASSUME TypeOK, DownInv, "kill" \notin FaultKinds, [Next]_vars
  PROVE  DownInv'
<1> USE LedgerAssumption
<1>1. /\ pass \in Pass /\ pass.st \in State /\ disk \in State /\ client \in [Clients -> Client]
      /\ down \subseteq Clients
  BY DEF TypeOK, Pass
<1>2. NoPass.pc = "idle"
  BY DEF NoPass
<1>3. CASE PassStart
  <2>1. down \intersect Restarted = {}
    BY DEF Restarted, DownInv
  <2>2. pass'.pc = "loaded" /\ pass'.st.stopped = disk.stopped \ Restarted
    BY <1>1, <1>3 DEF PassStart, NoPass, State
  <2>3. down' = down /\ client' = client /\ pass.pc = "idle"
    BY <1>3 DEF PassStart, world
  <2> QED BY <2>1, <2>2, <2>3 DEF DownInv
<1>4. CASE PassDecide
  <2>1. pass'.pc = "stops" /\ pass'.st.stopped = pass.st.stopped
    BY <1>4, Decides
  <2> QED BY <1>4, <2>1 DEF PassDecide, DownInv, world, ghosts
<1>5. ASSUME NEW r \in Registered, StopSpares(r) \/ StopFails(r) PROVE DownInv'
  <2>1. r[1] \in Clients
    OBVIOUS
  <2>2. pass'.pc = "stops" /\ pass'.st.stopped = pass.st.stopped /\ pass.pc = "stops"
    BY <1>1, <1>5, RemeasuredTyped DEF StopSpares, StopFails, MayStop, StopDone, Pass
  <2>3. down' = down
    BY <1>5 DEF StopSpares, StopFails, ghosts
  <2>4. ASSUME NEW c \in down PROVE ~client'[c].up
    <3>1. ~client[c].up /\ c \in Clients
      BY <1>1 DEF DownInv
    <3>2. client' = client \/ \E up \in BOOLEAN : client' = [client EXCEPT ![r[1]].up = @ /\ up]
      BY <1>5 DEF StopSpares, StopFails, world
    <3>3. CASE client' = client
      BY <3>1, <3>3
    <3>4. ASSUME NEW up \in BOOLEAN, client' = [client EXCEPT ![r[1]].up = @ /\ up]
          PROVE  ~client'[c].up
      <4>1. CASE c = r[1]
        BY <1>1, <2>1, <3>1, <3>4, <4>1 DEF Client
      <4>2. CASE c # r[1]
        BY <1>1, <3>1, <3>4, <4>2
      <4> QED BY <4>1, <4>2
    <3> QED BY <3>2, <3>3, <3>4
  <2> QED BY <2>2, <2>3, <2>4 DEF DownInv
<1>6. ASSUME NEW r \in Registered, StopClient(r) PROVE DownInv'
  <2>1. r[1] \in Clients
    OBVIOUS
  <2> DEFINE st == [Remeasured(r) EXCEPT !.stopped = @ \union {r[1]}]
  <2>2. st.stopped = pass.st.stopped \union {r[1]}
    BY RemeasuredTyped DEF State
  <2> HIDE DEF st
  <2>3. pass.pc = "stops" /\ StopDone(r, st) /\ down' = down \union {r[1]}
        /\ client' = [client EXCEPT ![r[1]].up = FALSE]
    BY <1>6 DEF StopClient, MayStop, st
  <2>4. pass'.pc = "stops" /\ pass'.st = st
    BY <1>1, <2>3 DEF StopDone, Pass
  <2>5. ASSUME NEW c \in down' PROVE ~client'[c].up
    <3>1. c \in Clients /\ (c = r[1] \/ ~client[c].up)
      BY <1>1, <2>1, <2>3 DEF DownInv
    <3> QED BY <1>1, <2>1, <2>3, <3>1 DEF Client
  <2> QED BY <2>2, <2>3, <2>4, <2>5 DEF DownInv
<1>7. CASE PassEnd
  <2>1. disk'.stopped = pass.st.stopped
    BY <1>1, <1>7 DEF PassEnd, State
  <2> QED BY <1>2, <1>7, <2>1 DEF PassEnd, DownInv, world
<1>8. CASE PassFault
  <2>1. disk'.stopped = pass.st.stopped
    BY <1>1, <1>8 DEF PassFault, AfterFault, State
  <2> QED BY <1>2, <1>8, <2>1 DEF PassFault, DownInv, world, ghosts
<1>9. ~PassKilled
  BY DEF PassKilled, Fault
<1>10. CASE StoreMoves \/ OperatorDirects \/ UNCHANGED vars
  BY <1>10 DEF StoreMoves, OperatorDirects, vars, ghosts, DownInv
<1>11. ASSUME NEW c \in Clients, ClientMoves(c) PROVE DownInv'
  <2>1. disk' = disk /\ pass' = pass /\ down' = down
    BY <1>11 DEF ClientMoves, ghosts
  <2>2. ASSUME NEW x \in down PROVE client'[x].up = client[x].up \/ ~client'[x].up
    BY <1>1, <1>11, <2>2 DEF ClientMoves, Client
  <2> QED BY <2>1, <2>2 DEF DownInv
<1>12. ASSUME NEW c \in Clients, OperatorStarts(c) PROVE DownInv'
  <2>1. disk' = disk /\ pass' = pass /\ down' = down \ {c}
    BY <1>12 DEF OperatorStarts
  <2>2. ASSUME NEW x \in down' PROVE client'[x] = client[x]
    BY <1>1, <1>12, <2>1 DEF OperatorStarts
  <2> QED BY <2>1, <2>2 DEF DownInv
<1>13. CASE Tick
  <2>1. disk'.stopped = disk.stopped
    BY <1>1, <1>13 DEF Tick, State
  <2> QED BY <1>13, <2>1 DEF Tick, DownInv, world
<1> QED BY <1>3, <1>4, <1>5, <1>6, <1>7, <1>8, <1>9, <1>10, <1>11, <1>12, <1>13 DEF Next, PassStep

\* "Stops the pass made before the fault stay recorded" (_fault): between
\* passes the state file names every client the ledger holds down, for any
\* number of clients, stores and faulting passes.  A killed pass writes
\* nothing, so kills are excluded.
THEOREM StopsAreRecorded ==
  ASSUME "kill" \notin FaultKinds
  PROVE  Spec => []StopStaysRecorded
<1>1. Init => DownInv
  BY DEF Init, DownInv
<1>2. TypeOK /\ DownInv /\ [Next]_vars => DownInv'
  BY DownInvInductive
<1>3. DownInv => StopStaysRecorded
  BY DEF DownInv, StopStaysRecorded
<1> QED BY <1>1, <1>2, <1>3, TypeCorrect, PTL DEF Spec

(***************************************************************************)
(* A stop rests on a recent measurement                                    *)
(***************************************************************************)

\* What the cache says of a registration was so no longer ago than its age.
Told(du) == \A r \in Registered : du[r].over /\ du[r].age < DuCache => lately[r] <= du[r].age

\* So it is on file and in the live pass, and what the pass is about to stop was
\* over its target within the cache's time.
RecentInv ==
  /\ \A r \in over : lately[r] = 0
  /\ pass.pc = "idle" => pass = NoPass
  /\ Told(disk.du) /\ Told(pass.st.du)
  /\ \A r \in pass.stops : lately[r] < DuCache

\* Every step keeps it.
LEMMA RecentInvInductive ==
  ASSUME TypeOK, RecentInv, [Next]_vars
  PROVE  RecentInv'
<1> USE LedgerAssumption
<1>1. /\ pass \in Pass /\ pass.st \in State /\ disk \in State /\ pass.st.du \in Du /\ disk.du \in Du
      /\ lately \in [Registered -> 0 .. DuCache] /\ over \subseteq Registered
      /\ pass.stops \subseteq Registered
  BY DEF TypeOK, Pass, State
<1>2. /\ NoPass.pc = "idle" /\ NoPass.stops = {}
      /\ \A r \in Registered : NoPass.st.du[r] = Expired
      /\ ~(Expired.age < DuCache)
  <2>1. Expired.age = DuCache /\ DuCache \in Nat
    BY DEF Expired
  <2>2. NoPass.st = EmptyState /\ EmptyState.du = [r \in Registered |-> Expired]
    BY Zenon DEF NoPass, EmptyState
  <2> QED BY <2>1, <2>2 DEF NoPass
<1>3. CASE PassStart
  <2>1. pass'.pc = "loaded" /\ pass'.st.du = disk.du /\ pass'.stops = {}
    BY <1>1, <1>3 DEF PassStart, NoPass, State
  <2> QED BY <1>3, <2>1 DEF PassStart, RecentInv, Told, world
<1>4. CASE PassDecide
  <2>1. /\ pass'.pc = "stops" /\ \A r \in pass'.stops : r \in Registered /\ Measured(r)
        /\ pass'.st.du = [r \in Registered |-> DuAfter(r)]
    BY <1>4, Decides DEF Pass
  <2>2. UNCHANGED <<disk, over, lately>>
    BY <1>4 DEF PassDecide, world, ghosts
  <2>3. ASSUME NEW r \in Registered, Measured(r) PROVE lately[r] < DuCache
    <3>1. r \in over => lately[r] = 0
      BY DEF RecentInv
    <3>2. pass.st.du[r].age \in 0 .. DuCache
      BY <1>1 DEF Du
    <3>3. pass.st.du[r].over /\ pass.st.du[r].age < DuCache => lately[r] <= pass.st.du[r].age
      BY DEF RecentInv, Told
    <3> QED BY <1>1, <2>3, <3>1, <3>2, <3>3 DEF Measured
  <2>4. ASSUME NEW r \in Registered, DuAfter(r).over, DuAfter(r).age < DuCache
        PROVE  lately[r] <= DuAfter(r).age
    <3>1. r \in over => lately[r] = 0
      BY DEF RecentInv
    <3>2. pass.st.du[r].over /\ pass.st.du[r].age < DuCache => lately[r] <= pass.st.du[r].age
      BY DEF RecentInv, Told
    <3>3. CASE DuAfter(r) = Expired
      BY <1>2, <2>4, <3>3
    <3>4. CASE DuAfter(r) = pass.st.du[r]
      BY <2>4, <3>2, <3>4
    <3>5. CASE DuAfter(r) = [age |-> 0, over |-> r \in over]
      <4>1. DuAfter(r).age = 0
        BY <3>5
      <4>2. CASE r \notin over
        <5>1. (r \in over) = FALSE
          BY <4>2
        <5>2. DuAfter(r) = [age |-> 0, over |-> FALSE]
          BY ONLY <3>5, <5>1, Zenon
        <5> QED BY <2>4, <5>2
      <4> QED BY <3>1, <4>1, <4>2
    <3> QED BY <3>3, <3>4, <3>5 DEF DuAfter
  <2> QED BY <2>1, <2>2, <2>3, <2>4 DEF RecentInv, Told
<1>5. ASSUME NEW r \in Registered, StopSpares(r) \/ StopClient(r) \/ StopFails(r)
      PROVE  RecentInv'
  <2>1. PICK st : StopDone(r, st) /\ st.du = Remeasured(r).du
    <3>1. [Remeasured(r) EXCEPT !.stopped = @ \union {r[1]}].du = Remeasured(r).du
      BY RemeasuredTyped DEF State
    <3> QED BY <1>5, <3>1 DEF StopSpares, StopClient, StopFails
  <2>2. pass'.pc = pass.pc /\ pass'.st = st /\ pass'.stops \subseteq pass.stops
    BY <1>1, <2>1 DEF StopDone, Pass
  <2>3. UNCHANGED <<disk, over, lately>> /\ pass.pc = "stops"
    BY <1>5 DEF StopSpares, StopClient, StopFails, MayStop, world, ghosts
  <2>4. ASSUME NEW q \in Registered
        PROVE  st.du[q] = pass.st.du[q] \/ (st.du[q] = [age |-> 0, over |-> q \in over])
    BY <1>1, <2>1 DEF Remeasured, State, Du
  <2>5. Told(st.du)
    <3> SUFFICES ASSUME NEW q \in Registered, st.du[q].over, st.du[q].age < DuCache
                 PROVE  lately[q] <= st.du[q].age
      BY DEF Told
    <3>1. (q \in over => lately[q] = 0) /\ (pass.st.du[q].over /\ pass.st.du[q].age < DuCache => lately[q] <= pass.st.du[q].age)
      BY DEF RecentInv, Told
    <3>2. CASE st.du[q] = [age |-> 0, over |-> q \in over]
      <4>1. st.du[q].age = 0
        BY <3>2
      <4>2. CASE q \notin over
        <5>1. (q \in over) = FALSE
          BY <4>2
        <5>2. st.du[q] = [age |-> 0, over |-> FALSE]
          BY ONLY <3>2, <5>1, Zenon
        <5> QED BY <5>2
      <4> QED BY <3>1, <4>1, <4>2
    <3> QED BY <2>4, <3>1, <3>2
  <2> QED BY <2>2, <2>3, <2>5 DEF RecentInv, Told
<1>6. CASE PassEnd \/ PassFault \/ PassKilled
  <2>1. pass' = NoPass /\ UNCHANGED <<over, lately>>
    BY <1>6 DEF PassEnd, PassFault, PassKilled, world, ghosts
  <2>2. disk'.du \in {disk.du, pass.st.du}
    BY <1>1, <1>6 DEF PassEnd, PassFault, PassKilled, AfterFault, State
  <2> QED BY <1>2, <2>1, <2>2 DEF RecentInv, Told
<1>7. CASE StoreMoves
  <2>1. UNCHANGED <<disk, pass>>
    BY <1>7 DEF StoreMoves
  <2>2. over' \subseteq Registered /\ \A r \in Registered : lately'[r] <= lately[r] /\ (r \in over' => lately'[r] = 0)
    BY <1>1, <1>7 DEF StoreMoves, RecentInv
  <2>3. \A r \in Registered : lately[r] \in Nat /\ lately'[r] \in Nat
    BY <1>1, <1>7 DEF StoreMoves
  <2>4. \A r \in Registered : disk.du[r].age \in Nat /\ pass.st.du[r].age \in Nat
    BY <1>1 DEF Du
  <2> QED BY <1>1, <2>1, <2>2, <2>3, <2>4 DEF RecentInv, Told
<1>8. CASE Tick
  <2>1. pass = NoPass /\ UNCHANGED <<pass, over>>
    BY <1>8 DEF Tick, RecentInv, world
  <2>2. ASSUME NEW r \in Registered
        PROVE  /\ lately'[r] = IF r \in over THEN 0 ELSE Older(lately[r], DuCache)
               /\ disk'.du[r] = OlderDu(disk.du[r])
    BY <1>1, <1>8 DEF Tick, State
  <2>3. ASSUME NEW r \in Registered, disk'.du[r].over, disk'.du[r].age < DuCache
        PROVE  lately'[r] <= disk'.du[r].age
    <3>1. disk.du[r] \in [age: 0 .. DuCache, over: BOOLEAN]
      BY <1>1 DEF Du
    <3>2. disk'.du[r] = [disk.du[r] EXCEPT !.age = @ + 1] /\ disk.du[r].age + 1 < DuCache
      BY <1>2, <2>2, <2>3, <3>1 DEF OlderDu
    <3>3. disk.du[r].over /\ disk'.du[r].age = disk.du[r].age + 1
      BY <2>3, <3>1, <3>2
    <3>4. lately[r] <= disk.du[r].age
      BY <3>1, <3>2, <3>3 DEF RecentInv, Told
    <3> QED BY <1>1, <2>2, <3>1, <3>3, <3>4 DEF Older, None
  <2> QED BY <1>1, <1>2, <2>1, <2>2, <2>3 DEF RecentInv, Told
<1>9. CASE UNCHANGED <<disk, pass, over, lately>>
  BY <1>9 DEF RecentInv, Told
<1>10. CASE OperatorDirects \/ (\E c \in Clients : ClientMoves(c) \/ OperatorStarts(c)) \/ UNCHANGED vars
  BY <1>9, <1>10 DEF OperatorDirects, ClientMoves, OperatorStarts, vars, ghosts
<1> QED BY <1>3, <1>4, <1>5, <1>6, <1>7, <1>8, <1>10 DEF Next, PassStep

\* DU_CACHE_S: for any clients, stores, cache times and faults, a client is
\* stopped only for a store on which it has held more than its target within the
\* cache's time.
THEOREM StopsAreRecent == Spec => StopIsRecent
<1>1. Init => RecentInv
  BY LedgerAssumption DEF Init, RecentInv, Told, EmptyState, NoPass, Expired
<1>2. TypeOK /\ RecentInv /\ [Next]_vars => RecentInv'
  BY RecentInvInductive
<1>3. RecentInv => [\A c \in Clients : Stops(c) => \A r \in pass.stops : r[1] = c => lately[r] < DuCache]_vars
  BY DEF RecentInv
<1> QED BY <1>1, <1>2, <1>3, TypeCorrect, PTL DEF Spec, StopIsRecent

(***************************************************************************)
(* A calm pass, or an outage, starts the term again                        *)
(***************************************************************************)

\* No age in the records is older than the last reprieve of the kind k.
Within(trims, k) ==
  \A c \in Clients : trims[c].req <= since[k][c] /\ trims[c].fin <= since[k][c]

\* So it is in the file and in the live pass, and what the pass is about to
\* stop has had its term since that reprieve.  A file that has outlived an
\* outage may hold older records: the next pass drops them.
Outlived(k) == k = "resumed" /\ quiet > StaleTrim

TermInv(k) ==
  /\ ~Outlived(k) => Within(disk.trims, k)
  /\ pass.pc # "idle" => Within(pass.st.trims, k)
  /\ \A r \in pass.stops : since[k][r[1]] > Term(r[1])

\* What is held at FINAL is pressed; and a record on file was touched by the
\* last pass that ended well.
UpkeepInv ==
  /\ pass.overFinal \subseteq pass.pressed
  /\ "resumed" \in Reprieves =>
       \A c \in Clients : disk.trims[c] = NoRec \/ disk.trims[c].touched = quiet

\* A client that failed has had its term since its record began.
LEMMA FailsAge ==
  ASSUME TypeOK, NEW c \in Clients, Fails(c), NEW a \in 0 .. MaxSince,
         pass.st.trims[c].req <= a, pass.st.trims[c].fin <= a
  PROVE  a > (IF c \in Managed THEN Deadline ELSE FinalGrace)
<1>1. pass.st.trims[c] \in Recs
  BY DEF TypeOK, Pass, State, Trims
<1>2. pass.st.trims[c].req \in Int /\ pass.st.trims[c].fin \in Int
  BY <1>1, RecordsTyped
<1> QED BY <1>2, LedgerAssumption DEF Fails, FailedToAnswer, MaxSince

\* The upkeep's invariant.
LEMMA UpkeepInvInductive ==
  ASSUME TypeOK, UpkeepInv, [Next]_vars
  PROVE  UpkeepInv'
<1> USE LedgerAssumption
<1>1. /\ pass \in Pass /\ disk \in State /\ disk.trims \in [Clients -> Recs] /\ quiet \in 0 .. StaleTrim + 1
  BY DEF TypeOK, State, Trims
<1>2. NoPass.overFinal = {} /\ NoPass.pressed = {}
  BY DEF NoPass
<1>3. CASE PassStart
  <2>1. pass'.overFinal = {}
    BY <1>3 DEF PassStart, NoPass
  <2> QED BY <1>3, <2>1 DEF PassStart, UpkeepInv
<1>4. CASE PassDecide
  BY <1>4, Decides DEF PassDecide, UpkeepInv, ghosts
<1>5. CASE PassEnd
  <2>1. quiet' = 0 /\ pass' = NoPass
    BY <1>5 DEF PassEnd
  <2>2. ASSUME NEW c \in Clients PROVE disk'.trims[c] = Upkeep(c)
    <3>1. pass.st \in State
      BY DEF TypeOK, Pass
    <3> QED BY <1>5, <3>1 DEF PassEnd, State
  <2>3. ASSUME NEW c \in Clients PROVE disk'.trims[c] = NoRec \/ disk'.trims[c].touched = 0
    BY <2>2, UpkeepOf
  <2> QED BY <1>2, <2>1, <2>3 DEF UpkeepInv
<1>6. CASE PassFault
  <2>1. disk'.trims = disk.trims
    BY <1>1, <1>6 DEF PassFault, AfterFault, State
  <2> QED BY <1>2, <1>6, <2>1 DEF PassFault, UpkeepInv, ghosts
<1>7. CASE PassKilled
  BY <1>2, <1>7 DEF PassKilled, UpkeepInv, ghosts
<1>8. CASE Tick
  <2>1. ASSUME NEW c \in Clients PROVE disk'.trims[c] = OlderRec(disk.trims[c])
    BY <1>1, <1>8 DEF Tick, State
  <2>2. ASSUME "resumed" \in Reprieves, NEW c \in Clients
        PROVE  disk'.trims[c] = NoRec \/ disk'.trims[c].touched = quiet'
    <3>1. quiet' = Older(quiet, StaleTrim + 1)
      BY <1>8, <2>2 DEF Tick
    <3>2. 0 \in 0 .. MaxSince /\ disk.trims[c] \in Recs
      BY <1>1 DEF MaxSince
    <3>3. \/ OlderRec(disk.trims[c]) = NoRec
          \/ /\ disk.trims[c] # NoRec
             /\ OlderRec(disk.trims[c]).touched = Older(disk.trims[c].touched, StaleTrim + 1)
      BY <3>2, OlderRecAges
    <3>4. disk.trims[c] = NoRec \/ disk.trims[c].touched = quiet
      BY <2>2 DEF UpkeepInv
    <3> QED BY <2>1, <3>1, <3>3, <3>4
  <2> QED BY <1>8, <2>2 DEF Tick, UpkeepInv
<1>9. ASSUME NEW r \in Registered, LeverActs(r) PROVE UpkeepInv'
  BY <1>9 DEF LeverActs, UpkeepInv
<1>10. ASSUME NEW c \in Clients, OperatorStarts(c) PROVE UpkeepInv'
  BY <1>10 DEF OperatorStarts, UpkeepInv
<1>11. CASE UNCHANGED <<disk, pass, since, quiet>>
  BY <1>11 DEF UpkeepInv
<1> QED BY <1>3, <1>4, <1>5, <1>6, <1>7, <1>8, <1>9, <1>10, <1>11, StepKinds

\* The term's invariant, for a calm pass and for an outage.
LEMMA TermInvInductive ==
  ASSUME TypeOK, TypeOK', UpkeepInv, NEW k \in {"calm", "resumed"}, k \in Reprieves,
         TermInv(k), [Next]_vars
  PROVE  TermInv(k)'
<1> USE LedgerAssumption
<1>1. /\ pass \in Pass /\ disk \in State /\ pass.st \in State
      /\ disk.trims \in [Clients -> Recs] /\ pass.st.trims \in [Clients -> Recs]
      /\ since \in [Reprieves -> [Clients -> 0 .. MaxSince]]
      /\ quiet \in 0 .. StaleTrim + 1
  BY DEF TypeOK, State, Trims, Pass
<1>2. since[k] \in [Clients -> 0 .. MaxSince]
  BY <1>1
<1>3. /\ NoPass.pc = "idle" /\ NoPass.stops = {}
      /\ NoRec.req = -1 /\ NoRec.fin = -1
  BY DEF NoPass, NoRec, None
<1>4. CASE PassStart
  <2>1. disk' = disk /\ pass'.pc = "loaded" /\ pass'.stops = {}
    BY <1>4 DEF PassStart, NoPass
  <2>2. ASSUME NEW c \in Clients PROVE pass'.st.trims[c] = LoadTrims(c)
    BY <1>1, <1>4 DEF PassStart, NoPass, State
  <2>3. CASE Outlived(k)
    <3>1. ASSUME NEW c \in Clients PROVE since'[k][c] = 0
      BY <1>4, <2>3 DEF PassStart, Reprieve, Outlived
    <3>2. ASSUME NEW c \in Clients PROVE LoadTrims(c) = NoRec
      <4>1. disk.trims[c] = NoRec \/ disk.trims[c].touched > StaleTrim
        BY <2>3 DEF UpkeepInv, Outlived
      <4> QED BY <4>1 DEF LoadTrims
    <3>3. Within(pass.st.trims, k)'
      BY <1>3, <2>2, <3>1, <3>2 DEF Within
    <3>4. Outlived(k)'
      BY <1>4, <2>3 DEF PassStart, Outlived
    <3> QED BY <2>1, <3>3, <3>4 DEF TermInv
  <2>4. CASE ~Outlived(k)
    <3>1. since'[k] = since[k]
      <4>1. CASE quiet > StaleTrim
        <5>1. k # "resumed"
          BY <2>4, <4>1 DEF Outlived
        <5>2. since'[k] = [c \in Clients |-> since[k][c]]
          BY <1>4, <4>1, <5>1 DEF PassStart, Reprieve
        <5> QED BY <1>2, <5>2
      <4>2. CASE ~(quiet > StaleTrim)
        BY <1>4, <4>2 DEF PassStart
      <4> QED BY <4>1, <4>2
    <3>2. ASSUME NEW c \in Clients PROVE LoadTrims(c).req <= since[k][c] /\ LoadTrims(c).fin <= since[k][c]
      BY <1>2, <1>3, <2>4 DEF LoadTrims, TermInv, Within
    <3>3. Within(pass.st.trims, k)' /\ Within(disk.trims, k)'
      BY <2>1, <2>2, <2>4, <3>1, <3>2 DEF TermInv, Within
    <3> QED BY <2>1, <3>3 DEF TermInv
  <2> QED BY <2>3, <2>4
<1>5. CASE PassDecide
  <2>1. disk' = disk /\ since' = since /\ quiet' = quiet /\ pass.pc # "idle"
    BY <1>5 DEF PassDecide, ghosts
  <2>2. ASSUME NEW c \in Clients
        PROVE  pass'.st.trims[c].req <= since[k][c] /\ pass'.st.trims[c].fin <= since[k][c]
    <3>1. pass.st.trims[c].req <= since[k][c] /\ pass.st.trims[c].fin <= since[k][c]
      BY <2>1 DEF TermInv, Within
    <3>2. \/ pass'.st.trims[c] = pass.st.trims[c]
          \/ \E final, fits \in BOOLEAN : pass'.st.trims[c] = Asked(c, final, fits)
      BY <1>5, Decides
    <3>3. /\ pass'.st.trims[c].fin = pass.st.trims[c].fin
          /\ pass'.st.trims[c].req \in {0, pass.st.trims[c].req}
      BY <3>2, AskedKeeps
    <3> QED BY <1>2, <3>1, <3>3
  <2>3. ASSUME NEW r \in pass'.stops PROVE since[k][r[1]] > Term(r[1])'
    <3>1. r \in Registered /\ r[1] \in Clients
      BY <1>5, Decides DEF Pass
    <3>2. Fails(r[1]) /\ pass'.managed = Managed
      BY <1>5, Decides
    <3>3. pass.st.trims[r[1]].req <= since[k][r[1]] /\ pass.st.trims[r[1]].fin <= since[k][r[1]]
      BY <2>1, <3>1 DEF TermInv, Within
    <3>4. since[k][r[1]] \in 0 .. MaxSince
      BY <1>2, <3>1
    <3>5. since[k][r[1]] > (IF r[1] \in Managed THEN Deadline ELSE FinalGrace)
      BY <3>1, <3>2, <3>3, <3>4, FailsAge
    <3> QED BY <3>2, <3>5 DEF Term
  <2> QED BY <2>1, <2>2, <2>3 DEF TermInv, Within, Outlived
<1>6. CASE PassEnd
  <2>1. pass' = NoPass /\ pass.pc = "stops" /\ quiet' = 0
    BY <1>6 DEF PassEnd
  <2>2. ASSUME NEW c \in Clients PROVE disk'.trims[c] = Upkeep(c)
    BY <1>1, <1>6 DEF PassEnd, State
  <2>3. ASSUME NEW c \in Clients
        PROVE  \/ since'[k][c] = since[k][c]
               \/ since'[k][c] = 0 /\ k = "calm" /\ c \notin pass.pressed
    BY <1>6 DEF PassEnd, Reprieve
  <2>4. ASSUME NEW c \in Clients
        PROVE  disk'.trims[c].req <= since'[k][c] /\ disk'.trims[c].fin <= since'[k][c]
    <3>1. pass.st.trims[c].req <= since[k][c] /\ pass.st.trims[c].fin <= since[k][c]
      BY <2>1 DEF TermInv, Within
    <3>2. CASE since'[k][c] = since[k][c]
      <4>1. since[k][c] \in 0 .. MaxSince
        BY <1>2
      <4>2. \/ Upkeep(c) = NoRec
            \/ /\ Upkeep(c).req \in {0, pass.st.trims[c].req}
               /\ Upkeep(c).fin \in {None, 0, pass.st.trims[c].fin}
        BY UpkeepOf
      <4>3. Upkeep(c).req <= since[k][c] /\ Upkeep(c).fin <= since[k][c]
        BY <1>3, <3>1, <4>1, <4>2 DEF None
      <4> QED BY <2>2, <3>2, <4>3
    <3>3. CASE since'[k][c] = 0 /\ c \notin pass.pressed
      <4>1. Upkeep(c) = NoRec
        BY <3>3, UpkeepOf DEF UpkeepInv
      <4> QED BY <1>3, <2>2, <3>3, <4>1
    <3> QED BY <2>3, <3>2, <3>3
  <2> QED BY <1>3, <2>1, <2>4 DEF TermInv, Within
<1>7. CASE PassFault \/ PassKilled
  <2>1. disk'.trims = disk.trims /\ since' = since /\ quiet' = quiet /\ pass' = NoPass
    BY <1>1, <1>7 DEF PassFault, PassKilled, AfterFault, State, ghosts
  <2> QED BY <1>3, <2>1 DEF TermInv, Within, Outlived
<1>8. CASE Tick
  <2>1. pass' = pass /\ pass.pc = "idle"
    BY <1>8 DEF Tick
  <2>2. ASSUME NEW c \in Clients
        PROVE  disk'.trims[c] = OlderRec(disk.trims[c]) /\ since'[k][c] = Older(since[k][c], MaxSince)
    BY <1>1, <1>8 DEF Tick, State
  <2>3. Outlived(k) => Outlived(k)'
    BY <1>1, <1>8 DEF Tick, Outlived, Older, None
  <2>4. Within(disk.trims, k) => Within(disk.trims, k)'
    <3> SUFFICES ASSUME Within(disk.trims, k), NEW c \in Clients
                 PROVE  disk'.trims[c].req <= since'[k][c] /\ disk'.trims[c].fin <= since'[k][c]
      BY DEF Within
    <3>1. disk.trims[c] \in Recs /\ since[k][c] \in 0 .. MaxSince
      BY <1>1, <1>2
    <3>2. disk.trims[c].req <= since[k][c] /\ disk.trims[c].fin <= since[k][c]
      BY DEF Within
    <3> QED BY <2>2, <3>1, <3>2, OlderRecAges
  <2>5. ASSUME NEW r \in pass'.stops PROVE since'[k][r[1]] > Term(r[1])'
    <3>1. r \in Registered /\ r[1] \in Clients /\ r \in pass.stops
      BY <1>1, <2>1 DEF Pass
    <3>2. since[k][r[1]] > Term(r[1]) /\ since[k][r[1]] \in 0 .. MaxSince /\ Term(r[1])' = Term(r[1])
      BY <1>2, <2>1, <3>1 DEF TermInv, Term
    <3>3. Older(since[k][r[1]], MaxSince) >= since[k][r[1]]
      BY <3>2 DEF Older, None, MaxSince
    <3>4. Term(r[1]) \in Nat
      BY DEF Term
    <3> QED BY <2>2, <3>1, <3>2, <3>3, <3>4 DEF Older, None, MaxSince
  <2> QED BY <2>1, <2>3, <2>4, <2>5 DEF TermInv
<1>9. ASSUME NEW r \in Registered, LeverActs(r) PROVE TermInv(k)'
  BY <1>9 DEF LeverActs, TermInv, Within, Outlived, Term
<1>10. ASSUME NEW c \in Clients, OperatorStarts(c) PROVE TermInv(k)'
  <2>1. disk' = disk /\ pass' = pass /\ quiet' = quiet
    BY <1>10 DEF OperatorStarts
  <2>2. since'[k] = since[k]
    <3>1. CASE c \in disk.stopped
      <4>1. since'[k] = [x \in Clients |-> since[k][x]]
        BY <1>10, <3>1 DEF OperatorStarts, Reprieve
      <4> QED BY <1>2, <4>1
    <3>2. CASE c \notin disk.stopped
      BY <1>10, <3>2 DEF OperatorStarts
    <3> QED BY <3>1, <3>2
  <2> QED BY <2>1, <2>2 DEF TermInv, Within, Outlived, Term
<1>11. CASE UNCHANGED <<disk, pass, since, quiet>>
  BY <1>11 DEF TermInv, Within, Outlived, Term
<1> QED BY <1>4, <1>5, <1>6, <1>7, <1>8, <1>9, <1>10, <1>11, StepKinds

\* They hold before the first pass.
LEMMA TermInvInit ==
  ASSUME Init, NEW k \in Reprieves
  PROVE  UpkeepInv /\ TermInv(k)
BY LedgerAssumption DEF Init, UpkeepInv, TermInv, Within, EmptyState, NoPass, NoRec, None, MaxSince

\* "A failure in one episode never counts against the next" (TrimRecord): for
\* any clients, stores, times and faults, a client is stopped only when no
\* pass for its full term has found it free of pressure.
THEOREM EpisodesEarnTerms ==
  ASSUME "calm" \in Reprieves
  PROVE  Spec => EpisodeEarnsTerm
<1>1. Init => UpkeepInv /\ TermInv("calm")
  BY TermInvInit
<1>2. TypeOK /\ TypeOK' /\ UpkeepInv /\ TermInv("calm") /\ [Next]_vars => UpkeepInv' /\ TermInv("calm")'
  BY UpkeepInvInductive, TermInvInductive
<1>3. TypeOK /\ TermInv("calm") /\ [Next]_vars =>
        [\A c \in Clients : Stops(c) => since["calm"][c] > Term(c)]_vars
  BY StopsByLever DEF TermInv
<1> QED BY <1>1, <1>2, <1>3, TypeCorrect, PTL DEF Spec, EpisodeEarnsTerm

\* _load_trims: after STALE_TRIM_S without a completed pass the term starts
\* again, for any clients, stores, times and faults.
THEOREM OutagesEarnTerms ==
  ASSUME "resumed" \in Reprieves
  PROVE  Spec => OutageEarnsTerm
<1>1. Init => UpkeepInv /\ TermInv("resumed")
  BY TermInvInit
<1>2. TypeOK /\ TypeOK' /\ UpkeepInv /\ TermInv("resumed") /\ [Next]_vars
        => UpkeepInv' /\ TermInv("resumed")'
  BY UpkeepInvInductive, TermInvInductive
<1>3. TypeOK /\ TermInv("resumed") /\ [Next]_vars =>
        [\A c \in Clients : Stops(c) => since["resumed"][c] > Term(c)]_vars
  BY StopsByLever DEF TermInv
<1> QED BY <1>1, <1>2, <1>3, TypeCorrect, PTL DEF Spec, OutageEarnsTerm

(***************************************************************************)
(* An operator's start earns a fresh deadline                              *)
(***************************************************************************)

\* The records of a client that is not on the list of the stopped are no
\* older than its last start.  A client on the list keeps its old record, and
\* is neither asked nor stopped, until a pass finds it running and drops the
\* record; the list on file still names it while that pass is live, so a
\* second start in between finds a record of this pass.
StartInv ==
  /\ \A c \in Clients \ disk.stopped :
       disk.trims[c].req <= since["started"][c] /\ disk.trims[c].fin <= since["started"][c]
  /\ pass.pc # "idle" =>
       \A c \in Clients \ pass.st.stopped :
         /\ pass.st.trims[c].req <= since["started"][c] /\ pass.st.trims[c].fin <= since["started"][c]
         /\ c \in disk.stopped => pass.st.trims[c].req <= 0 /\ pass.st.trims[c].fin <= 0
  /\ \A r \in pass.stops :
       /\ since["started"][r[1]] > Term(r[1])
       /\ r[1] \notin disk.stopped

\* Every step but a faulting pass keeps it.
LEMMA StartInvInductive ==
  ASSUME TypeOK, TypeOK', "started" \in Reprieves, "fault" \notin FaultKinds, StartInv, [Next]_vars
  PROVE  StartInv'
<1> USE LedgerAssumption
<1> DEFINE age == since["started"]
<1>1. /\ pass \in Pass /\ disk \in State /\ pass.st \in State
      /\ disk.trims \in [Clients -> Recs] /\ pass.st.trims \in [Clients -> Recs]
      /\ age \in [Clients -> 0 .. MaxSince]
  BY DEF TypeOK, State, Trims, Pass
<1>2. /\ NoPass.pc = "idle" /\ NoPass.stops = {}
      /\ NoRec.req = -1 /\ NoRec.fin = -1
  BY DEF NoPass, NoRec, None
<1>3. ASSUME NEW r \in pass.stops PROVE r \in Registered /\ r[1] \in Clients
  BY <1>1 DEF Pass
<1>4. CASE PassStart
  <2>1. disk' = disk /\ pass'.pc = "loaded" /\ pass'.stops = {} /\ pass'.st.stopped = disk.stopped \ Restarted
    BY <1>1, <1>4 DEF PassStart, NoPass, State
  <2>2. ASSUME NEW c \in Clients PROVE pass'.st.trims[c] = LoadTrims(c)
    BY <1>1, <1>4 DEF PassStart, NoPass, State
  <2>3. ASSUME NEW c \in Clients PROVE since'["started"][c] = age[c]
    BY <1>4 DEF PassStart, Reprieve
  <2>4. ASSUME NEW c \in Clients \ pass'.st.stopped
        PROVE  /\ LoadTrims(c).req <= age[c] /\ LoadTrims(c).fin <= age[c]
               /\ c \in disk.stopped => LoadTrims(c).req <= 0 /\ LoadTrims(c).fin <= 0
    <3>0. age[c] \in 0 .. MaxSince
      BY <1>1
    <3>1. CASE c \in Restarted
      BY <1>2, <3>0, <3>1 DEF LoadTrims
    <3>2. CASE c \notin Restarted
      <4>1. c \notin disk.stopped
        BY <2>1, <3>2
      <4> QED BY <1>2, <3>0, <4>1 DEF LoadTrims, StartInv
    <3> QED BY <3>1, <3>2
  <2> QED BY <2>1, <2>2, <2>3, <2>4 DEF StartInv
<1>5. CASE PassDecide
  <2>1. disk' = disk /\ since' = since /\ pass.pc # "idle" /\ pass'.st.stopped = pass.st.stopped
    BY <1>5, Decides DEF PassDecide, ghosts
  <2>2. ASSUME NEW c \in Clients \ pass.st.stopped
        PROVE  /\ pass'.st.trims[c].req <= age[c] /\ pass'.st.trims[c].fin <= age[c]
               /\ c \in disk.stopped => pass'.st.trims[c].req <= 0 /\ pass'.st.trims[c].fin <= 0
    <3>1. /\ pass.st.trims[c].req <= age[c] /\ pass.st.trims[c].fin <= age[c]
          /\ c \in disk.stopped => pass.st.trims[c].req <= 0 /\ pass.st.trims[c].fin <= 0
      BY <2>1 DEF StartInv
    <3>2. \/ pass'.st.trims[c] = pass.st.trims[c]
          \/ \E final, fits \in BOOLEAN : pass'.st.trims[c] = Asked(c, final, fits)
      BY <1>5, Decides
    <3>3. /\ pass'.st.trims[c].fin = pass.st.trims[c].fin
          /\ pass'.st.trims[c].req \in {0, pass.st.trims[c].req}
      BY <3>2, AskedKeeps
    <3>4. age[c] \in 0 .. MaxSince
      BY <1>1
    <3> QED BY <3>1, <3>3, <3>4
  <2>3. ASSUME NEW r \in pass'.stops
        PROVE  age[r[1]] > Term(r[1])' /\ r[1] \notin disk.stopped
    <3> DEFINE c == r[1]
    <3>1. c \in Clients /\ Fails(c) /\ pass'.managed = Managed /\ c \notin pass.st.stopped
      BY <1>5, Decides DEF Pass
    <3>2. /\ pass.st.trims[c].req <= age[c] /\ pass.st.trims[c].fin <= age[c]
          /\ c \in disk.stopped => pass.st.trims[c].req <= 0 /\ pass.st.trims[c].fin <= 0
      BY <2>1, <3>1 DEF StartInv
    <3>3. age[c] \in 0 .. MaxSince /\ 0 \in 0 .. MaxSince
      BY <1>1, <3>1 DEF MaxSince
    <3>4. age[c] > (IF c \in Managed THEN Deadline ELSE FinalGrace)
      <4> HIDE DEF c, age
      <4> QED BY <3>1, <3>2, <3>3, FailsAge
    <3>5. c \notin disk.stopped
      <4> SUFFICES ASSUME c \in disk.stopped PROVE FALSE
        OBVIOUS
      <4> HIDE DEF c
      <4>1. 0 > (IF c \in Managed THEN Deadline ELSE FinalGrace)
        BY <3>1, <3>2, <3>3, FailsAge
      <4> QED BY <4>1
    <3> QED BY <3>1, <3>4, <3>5 DEF Term
  <2> QED BY <2>1, <2>2, <2>3 DEF StartInv
<1>6. CASE PassEnd
  <2>1. pass' = NoPass /\ pass.pc = "stops" /\ disk'.stopped = pass.st.stopped
    BY <1>1, <1>6 DEF PassEnd, State
  <2>2. ASSUME NEW c \in Clients PROVE disk'.trims[c] = Upkeep(c)
    BY <1>1, <1>6 DEF PassEnd, State
  <2>3. ASSUME NEW c \in Clients PROVE since'["started"][c] = age[c]
    BY <1>6 DEF PassEnd, Reprieve
  <2>4. ASSUME NEW c \in Clients \ pass.st.stopped
        PROVE  Upkeep(c).req <= age[c] /\ Upkeep(c).fin <= age[c]
    <3>1. pass.st.trims[c].req <= age[c] /\ pass.st.trims[c].fin <= age[c]
      BY <2>1 DEF StartInv
    <3>2. age[c] \in 0 .. MaxSince
      BY <1>1
    <3>3. \/ Upkeep(c) = NoRec
          \/ /\ Upkeep(c).req \in {0, pass.st.trims[c].req}
             /\ Upkeep(c).fin \in {None, 0, pass.st.trims[c].fin}
      BY UpkeepOf
    <3> QED BY <1>2, <3>1, <3>2, <3>3 DEF None
  <2> QED BY <1>2, <2>1, <2>2, <2>3, <2>4 DEF StartInv
<1>7. ~PassFault
  BY DEF PassFault, Fault
<1>8. CASE PassKilled
  BY <1>2, <1>8 DEF PassKilled, StartInv, ghosts
<1>9. CASE Tick
  <2>1. pass' = pass /\ pass.pc = "idle" /\ disk'.stopped = disk.stopped
    BY <1>1, <1>9 DEF Tick, State
  <2>2. ASSUME NEW c \in Clients
        PROVE  /\ disk'.trims[c] = OlderRec(disk.trims[c])
               /\ since'["started"][c] = Older(age[c], MaxSince)
               /\ Older(age[c], MaxSince) >= age[c]
    <3>1. age[c] \in 0 .. MaxSince
      BY <1>1
    <3>2. Older(age[c], MaxSince) >= age[c]
      <4> HIDE DEF age
      <4> QED BY <3>1 DEF Older, None, MaxSince
    <3> QED BY <1>1, <1>9, <3>2 DEF Tick, State
  <2>3. ASSUME NEW c \in Clients \ disk.stopped
        PROVE  disk'.trims[c].req <= since'["started"][c] /\ disk'.trims[c].fin <= since'["started"][c]
    <3>1. disk.trims[c] \in Recs /\ age[c] \in 0 .. MaxSince
      BY <1>1
    <3>2. disk.trims[c].req <= age[c] /\ disk.trims[c].fin <= age[c]
      BY DEF StartInv
    <3> HIDE DEF age
    <3> QED BY <2>2, <3>1, <3>2, OlderRecAges
  <2>4. ASSUME NEW r \in pass.stops PROVE since'["started"][r[1]] > Term(r[1])'
    <3>1. age[r[1]] > Term(r[1]) /\ Term(r[1])' = Term(r[1]) /\ Term(r[1]) \in Nat
      BY <2>1 DEF StartInv, Term
    <3>2. since'["started"][r[1]] >= age[r[1]] /\ age[r[1]] \in Int
          /\ since'["started"][r[1]] \in Int
      <4>1. since'["started"][r[1]] \in 0 .. MaxSince
        BY <1>3 DEF TypeOK
      <4>2. age[r[1]] \in 0 .. MaxSince
        BY <1>1, <1>3
      <4> QED BY <1>3, <2>2, <4>1, <4>2 DEF MaxSince
    <3> HIDE DEF age
    <3> QED BY <3>1, <3>2
  <2> QED BY <2>1, <2>3, <2>4 DEF StartInv
<1>10. ASSUME NEW r \in Registered, LeverActs(r) PROVE StartInv'
  BY <1>10 DEF LeverActs, StartInv, Term
<1>11. ASSUME NEW c \in Clients, OperatorStarts(c) PROVE StartInv'
  <2>1. disk' = disk /\ pass' = pass
    BY <1>11 DEF OperatorStarts
  <2>2. ASSUME NEW x \in Clients
        PROVE  \/ since'["started"][x] = age[x]
               \/ since'["started"][x] = 0 /\ x \in disk.stopped
    BY <1>11 DEF OperatorStarts, Reprieve
  <2>3. ASSUME pass.pc # "idle", NEW x \in Clients \ pass.st.stopped
        PROVE  pass.st.trims[x].req <= since'["started"][x] /\ pass.st.trims[x].fin <= since'["started"][x]
    BY <2>2, <2>3 DEF StartInv
  <2>4. ASSUME NEW r \in pass.stops
        PROVE  since'["started"][r[1]] > Term(r[1])'
    BY <1>3, <2>1, <2>2 DEF StartInv, Term
  <2>5. ASSUME NEW x \in Clients \ disk.stopped PROVE since'["started"][x] = age[x]
    BY <2>2
  <2> QED BY <2>1, <2>3, <2>4, <2>5 DEF StartInv
<1>12. CASE UNCHANGED <<disk, pass, since, quiet>>
  BY <1>12 DEF StartInv, Term
<1> QED BY <1>4, <1>5, <1>6, <1>7, <1>8, <1>9, <1>10, <1>11, <1>12, StepKinds

\* "An operator's start earns a fresh deadline": for any clients, stores and
\* times, however many passes are killed or missed after the start, a client
\* whose recorded stop an operator undid is not stopped again within its
\* term.  A faulting pass is excluded: _fault writes the old record back next
\* to a list that no longer names the client.
THEOREM StartsEarnTerms ==
  ASSUME "started" \in Reprieves, "fault" \notin FaultKinds
  PROVE  Spec => StartEarnsTerm
<1>1. Init => StartInv
  BY LedgerAssumption DEF Init, StartInv, EmptyState, NoPass, NoRec, None, MaxSince
<1>2. TypeOK /\ TypeOK' /\ StartInv /\ [Next]_vars => StartInv'
  BY StartInvInductive
<1>3. TypeOK /\ StartInv /\ [Next]_vars =>
        [\A c \in Clients : Stops(c) => since["started"][c] > Term(c)]_vars
  BY StopsByLever DEF StartInv
<1> QED BY <1>1, <1>2, <1>3, TypeCorrect, PTL DEF Spec, StartEarnsTerm

(***************************************************************************)
(* An answer spares the client                                             *)
(***************************************************************************)

\* The open streak of a managed client began after its last answer; one that
\* answers in this pass has an ok answer on record and is not to be stopped.
AnswerInv ==
  /\ \A c \in Clients :
       IF c \in Unmanaged THEN since["answered"][c] = MaxSince
       ELSE disk.trims[c].ok \/ disk.trims[c].req <= since["answered"][c]
  /\ pass.pc # "idle" =>
       \A c \in Clients \ Unmanaged : pass.st.trims[c].ok \/ pass.st.trims[c].req <= since["answered"][c]
  /\ \A c \in pass.answered : c \notin Unmanaged /\ pass.st.trims[c].ok
  /\ \A r \in pass.stops : r[1] \notin pass.answered /\ since["answered"][r[1]] > Deadline

\* Every step keeps it, as long as a client's calls all succeed or all fail.
LEMMA AnswerInvInductive ==
  ASSUME TypeOK, TypeOK', "answered" \in Reprieves, Answers \subseteq {"ok", "fails"}, AnswerInv,
         [Next]_vars
  PROVE  AnswerInv'
<1> USE LedgerAssumption
<1> DEFINE age == since["answered"]
<1>1. /\ pass \in Pass /\ disk \in State /\ pass.st \in State
      /\ disk.trims \in [Clients -> Recs] /\ pass.st.trims \in [Clients -> Recs]
      /\ age \in [Clients -> 0 .. MaxSince]
  BY DEF TypeOK, State, Trims, Pass
<1>2. /\ NoPass.pc = "idle" /\ NoPass.stops = {} /\ NoPass.answered = {}
      /\ NoRec.req = -1 /\ NoRec.ok = FALSE
  BY DEF NoPass, NoRec, None
<1>3. \A c \in Clients : client[c].answer \in {"ok", "fails"}
  BY DEF TypeOK, Client
<1>4. Managed = Clients \ Unmanaged
  BY <1>3 DEF Managed
<1>5. CASE PassStart
  <2>1. disk' = disk /\ pass'.pc = "loaded" /\ pass'.stops = {} /\ pass'.answered = {}
    BY <1>5 DEF PassStart, NoPass
  <2>2. ASSUME NEW c \in Clients PROVE pass'.st.trims[c] = LoadTrims(c)
    BY <1>1, <1>5 DEF PassStart, NoPass, State
  <2>3. ASSUME NEW c \in Clients PROVE since'["answered"][c] = age[c]
    BY <1>5 DEF PassStart, Reprieve
  <2>4. ASSUME NEW c \in Clients \ Unmanaged PROVE LoadTrims(c).ok \/ LoadTrims(c).req <= age[c]
    <3>1. age[c] \in 0 .. MaxSince
      BY <1>1
    <3> QED BY <1>2, <3>1 DEF LoadTrims, AnswerInv
  <2> QED BY <2>1, <2>2, <2>3, <2>4 DEF AnswerInv
<1>6. CASE PassDecide
  <2>1. disk' = disk /\ since' = since /\ pass.pc # "idle"
    BY <1>6 DEF PassDecide, ghosts
  <2>2. ASSUME NEW c \in Clients
        PROVE  \/ pass'.st.trims[c] = pass.st.trims[c] /\ c \notin pass'.answered
               \/ /\ c \notin Unmanaged
                  /\ \/ pass'.st.trims[c].req = 0
                     \/ pass'.st.trims[c].req = pass.st.trims[c].req /\ ~pass.st.trims[c].ok
                  /\ client[c].answer = "ok" => pass'.st.trims[c].ok
    BY <1>4, <1>6, Decides, AskedKeeps
  <2>3. ASSUME NEW c \in Clients \ Unmanaged PROVE pass'.st.trims[c].ok \/ pass'.st.trims[c].req <= age[c]
    <3>1. age[c] \in 0 .. MaxSince
      BY <1>1
    <3>2. pass.st.trims[c].ok \/ pass.st.trims[c].req <= age[c]
      BY <2>1 DEF AnswerInv
    <3> QED BY <2>2, <3>1, <3>2
  <2>4. ASSUME NEW c \in pass'.answered PROVE c \notin Unmanaged /\ pass'.st.trims[c].ok
    <3>1. c \in Clients /\ client[c].answer = "ok"
      BY <1>3, <1>4, <1>6, Decides
    <3> QED BY <2>2, <2>4, <3>1
  <2>5. ASSUME NEW r \in pass'.stops PROVE r[1] \notin pass'.answered /\ age[r[1]] > Deadline
    <3> DEFINE c == r[1]
    <3>1. c \in Clients /\ Fails(c) /\ ~(c \in Managed /\ pass'.st.trims[c].ok)
      BY <1>6, Decides DEF Pass
    <3> HIDE DEF c
    <3>2. c \notin pass'.answered
      BY <1>4, <2>4, <3>1
    <3>3. ASSUME c \in Unmanaged PROVE age[c] > Deadline
      <4>1. age[c] = MaxSince
        BY <3>1, <3>3 DEF AnswerInv
      <4> HIDE DEF age
      <4> QED BY <4>1 DEF MaxSince
    <3>4. ASSUME c \notin Unmanaged PROVE age[c] > Deadline
      <4>1. FailedToAnswer(pass.st.trims[c])
        BY <1>4, <3>1, <3>4 DEF Fails
      <4>2. pass.st.trims[c].req <= age[c]
        BY <2>1, <3>1, <3>4, <4>1 DEF AnswerInv, FailedToAnswer
      <4>3. pass.st.trims[c].req \in Int /\ age[c] \in Int
        <5>1. pass.st.trims[c] \in Recs /\ age[c] \in 0 .. MaxSince
          BY <1>1, <3>1
        <5>2. pass.st.trims[c].req \in Int
          BY <5>1, RecordsTyped
        <5>3. age[c] \in Int
          BY <5>1 DEF MaxSince
        <5> QED BY <5>2, <5>3
      <4> HIDE DEF age
      <4> QED BY <4>1, <4>2, <4>3 DEF FailedToAnswer
    <3> QED BY <3>2, <3>3, <3>4 DEF c
  <2> QED BY <2>1, <2>3, <2>4, <2>5 DEF AnswerInv
<1>7. CASE PassEnd
  <2>1. pass' = NoPass /\ pass.pc = "stops"
    BY <1>7 DEF PassEnd
  <2>2. ASSUME NEW c \in Clients PROVE disk'.trims[c] = Upkeep(c)
    BY <1>1, <1>7 DEF PassEnd, State
  <2>3. ASSUME NEW c \in Clients
        PROVE  since'["answered"][c] = IF c \in pass.answered THEN 0 ELSE age[c]
    BY <1>7 DEF PassEnd, Reprieve
  <2>4. ASSUME NEW c \in Unmanaged PROVE since'["answered"][c] = MaxSince
    BY <2>3 DEF AnswerInv
  <2>5. ASSUME NEW c \in Clients \ Unmanaged
        PROVE  Upkeep(c).ok \/ Upkeep(c).req <= since'["answered"][c]
    <3>1. age[c] \in 0 .. MaxSince
      BY <1>1
    <3>2. \/ Upkeep(c) = NoRec
          \/ /\ Upkeep(c).req \in {0, pass.st.trims[c].req}
             /\ pass.st.trims[c].ok => Upkeep(c).ok
      BY UpkeepOf
    <3>3. /\ pass.st.trims[c].ok \/ pass.st.trims[c].req <= age[c]
          /\ c \in pass.answered => pass.st.trims[c].ok
      BY <2>1 DEF AnswerInv
    <3> QED BY <1>2, <2>3, <3>1, <3>2, <3>3
  <2> QED BY <1>2, <2>1, <2>2, <2>4, <2>5 DEF AnswerInv
<1>8. CASE PassFault \/ PassKilled
  <2>1. disk'.trims = disk.trims /\ since' = since /\ pass' = NoPass
    BY <1>1, <1>8 DEF PassFault, PassKilled, AfterFault, State, ghosts
  <2> QED BY <1>2, <2>1 DEF AnswerInv
<1>9. CASE Tick
  <2>1. pass' = pass /\ pass.pc = "idle"
    BY <1>9 DEF Tick
  <2>2. ASSUME NEW c \in Clients
        PROVE  /\ disk'.trims[c] = OlderRec(disk.trims[c])
               /\ since'["answered"][c] = Older(age[c], MaxSince)
               /\ Older(age[c], MaxSince) >= age[c]
               /\ age[c] = MaxSince => Older(age[c], MaxSince) = MaxSince
               /\ age[c] \in Int /\ Older(age[c], MaxSince) \in Int
    <3>1. age[c] \in 0 .. MaxSince
      BY <1>1
    <3>2. /\ Older(age[c], MaxSince) >= age[c] /\ age[c] \in Int /\ Older(age[c], MaxSince) \in Int
          /\ age[c] = MaxSince => Older(age[c], MaxSince) = MaxSince
      <4> HIDE DEF age
      <4> QED BY <3>1 DEF Older, None, MaxSince
    <3> QED BY <1>1, <1>9, <3>2 DEF Tick, State
  <2>3. ASSUME NEW c \in Clients \ Unmanaged
        PROVE  disk'.trims[c].ok \/ disk'.trims[c].req <= since'["answered"][c]
    <3>1. disk.trims[c] \in Recs /\ age[c] \in 0 .. MaxSince
      BY <1>1
    <3>2. disk.trims[c].ok \/ disk.trims[c].req <= age[c]
      BY DEF AnswerInv
    <3> HIDE DEF age
    <3> QED BY <2>2, <3>1, <3>2, OlderRecAges
  <2>4. ASSUME NEW r \in pass.stops PROVE since'["answered"][r[1]] > Deadline
    <3>1. r[1] \in Clients /\ age[r[1]] > Deadline
      BY <1>1 DEF Pass, AnswerInv
    <3> HIDE DEF age
    <3> QED BY <2>2, <3>1
  <2>5. ASSUME NEW c \in Unmanaged PROVE since'["answered"][c] = MaxSince
    BY <2>2 DEF AnswerInv
  <2> QED BY <2>1, <2>3, <2>4, <2>5 DEF AnswerInv
<1>10. ASSUME NEW r \in Registered, LeverActs(r) PROVE AnswerInv'
  BY <1>10 DEF LeverActs, AnswerInv
<1>11. ASSUME NEW c \in Clients, OperatorStarts(c) PROVE AnswerInv'
  <2>1. disk' = disk /\ pass' = pass
    BY <1>11 DEF OperatorStarts
  <2>2. ASSUME NEW x \in Clients PROVE since'["answered"][x] = age[x]
    BY <1>11 DEF OperatorStarts, Reprieve
  <2>3. \A r \in pass.stops : r[1] \in Clients
    BY <1>1 DEF Pass
  <2> QED BY <2>1, <2>2, <2>3 DEF AnswerInv
<1>12. CASE UNCHANGED <<disk, pass, since, quiet>>
  BY <1>12 DEF AnswerInv
<1> QED BY <1>5, <1>6, <1>7, <1>8, <1>9, <1>10, <1>11, <1>12, StepKinds

\* "A client that answers ok in this very pass is not stopped on that older
\* news", nor within the deadline of an answer a pass recorded: for any
\* clients, stores, times and faults.  The calls of one pass agree (Answers):
\* a final call that fails after an ok trim breaks it.
THEOREM AnswersSpare ==
  ASSUME "answered" \in Reprieves, Answers \subseteq {"ok", "fails"}
  PROVE  Spec => AnsweredIsSpared
<1>1. Init => AnswerInv
  BY LedgerAssumption DEF Init, AnswerInv, EmptyState, NoPass, NoRec, None, MaxSince
<1>2. TypeOK /\ TypeOK' /\ AnswerInv /\ [Next]_vars => AnswerInv'
  BY AnswerInvInductive
<1>3. TypeOK /\ AnswerInv /\ [Next]_vars =>
        [\A c \in Clients : Stops(c) => c \notin pass.answered /\ since["answered"][c] > Deadline]_vars
  BY StopsByLever DEF AnswerInv
<1> QED BY <1>1, <1>2, <1>3, TypeCorrect, PTL DEF Spec, AnsweredIsSpared
=============================================================================
