-------------------------- MODULE LinksFilesProofs --------------------------
(***************************************************************************)
(* Theorems about the uploader's links (UploaderLinks) and about safe_write *)
(* (SafeWrite), for any links and targets, any number of writers, errors,  *)
(* kills and power losses.  What a lever took away stands in the record,   *)
(* and the raise gives back nothing an operator has taken since; a writer's *)
(* return is a promise that outlives the power, and write_owned implements *)
(* AtomicFile.                                                             *)
(***************************************************************************)
EXTENDS Parts, TLAPS

(***************************************************************************)
(* The uploader's links.  The theorems hold where one process at a time    *)
(* works on the record and the operator's moves fall between its runs, and *)
(* where the unit is not enabled or linked from elsewhere while a record   *)
(* stands.                                                                 *)
(***************************************************************************)

\* "none" is no target, and the bound is a number.
LinksSensible == "none" \notin Targets /\ MaxLinkFaults \in Nat

\* One process works on the record, and the operator does not step between its
\* reads and its writes.
Undisturbed ==
  /\ \A p, q \in Procs : p = q
  /\ "race" \notin LinkFaults /\ "stale" \notin LinkFaults /\ "link" \notin LinkFaults

Processes == [pc: {"idle", "write", "unlink", "stop", "restore", "rewrite"},
              todo: SUBSET Links, lines: Uploader!Lines, kept: Uploader!Lines, unit: Targets \union {"none"}]

\* The values the actions start from.
LEMMA LinkValues ==
  /\ Uploader!None \in Uploader!Lines /\ Uploader!Rest \in Processes
  /\ \A l \in Links : Uploader!None[l] = "none"
<1>1. Uploader!None \in Uploader!Lines
  BY DEF Uploader!None, Uploader!Lines
<1> QED BY <1>1 DEF Uploader!None, Uploader!Rest, Processes

\* One line of the raise: it is kept, was enabled again, or is put back.
RestoreLinkAt(p, l, r) ==
  /\ proc' = [proc EXCEPT ![p] = r] /\ UNCHANGED <<unit, record, runs, level>>
  /\ faults' \in 0 .. MaxLinkFaults
  /\ r.pc = "restore" /\ r.todo = proc[p].todo \ {l}
  /\ r.lines = proc[p].lines /\ r.unit = proc[p].unit
  /\ \/ r.kept = [proc[p].kept EXCEPT ![l] = proc[p].lines[l]] /\ UNCHANGED <<link, owed>>
     \/ r.kept = proc[p].kept /\ link[l] = proc[p].lines[l] /\ UNCHANGED <<link, owed>>
     \/ /\ r.kept = proc[p].kept /\ link[l] = "none" /\ proc[p].unit = proc[p].lines[l]
        /\ link' = [link EXCEPT ![l] = proc[p].lines[l]] /\ owed' = [owed EXCEPT ![l] = "none"]

\* RestoreLink does no more than that.
LEMMA RestoreLinkDoes ==
  ASSUME LinksSensible, Uploader!TypeOK, NEW p \in Procs, Uploader!RestoreLink(p)
  PROVE  \E l \in proc[p].todo, r \in Processes : RestoreLinkAt(p, l, r)
<1>1. proc[p] \in Processes
  BY DEF Uploader!TypeOK, Processes
<1>2. PICK l \in proc[p].todo :
        LET done == [proc[p] EXCEPT !.todo = @ \ {l}]
            kept == [done EXCEPT !.kept[l] = proc[p].lines[l]]
        IN \/ Uploader!Goes(p, kept) /\ UNCHANGED <<link, owed>>
           \/ Uploader!Goes(p, done) /\ link[l] = proc[p].lines[l] /\ UNCHANGED <<link, owed>>
           \/ /\ Uploader!Goes(p, done) /\ link[l] = "none" /\ proc[p].unit = proc[p].lines[l]
              /\ link' = [link EXCEPT ![l] = proc[p].lines[l]] /\ owed' = [owed EXCEPT ![l] = "none"]
  BY DEF Uploader!RestoreLink, Uploader!StillNames
<1> DEFINE done == [proc[p] EXCEPT !.todo = @ \ {l}]
           kept == [done EXCEPT !.kept[l] = proc[p].lines[l]]
<1>3. /\ done \in Processes /\ done.pc = proc[p].pc /\ done.todo = proc[p].todo \ {l}
      /\ done.lines = proc[p].lines /\ done.unit = proc[p].unit /\ done.kept = proc[p].kept
  BY <1>1 DEF Processes
<1>4. /\ kept \in Processes /\ kept.pc = proc[p].pc /\ kept.todo = proc[p].todo \ {l}
      /\ kept.lines = proc[p].lines /\ kept.unit = proc[p].unit
      /\ kept.kept = [proc[p].kept EXCEPT ![l] = proc[p].lines[l]]
  <2>1. l \in Links /\ proc[p].lines[l] \in Targets \union {"none"}
    BY <1>1 DEF Processes, Uploader!Lines
  <2>2. [done.kept EXCEPT ![l] = proc[p].lines[l]] \in Uploader!Lines
    BY <1>3, <2>1 DEF Processes, Uploader!Lines
  <2>3. kept = [done EXCEPT !.kept = [done.kept EXCEPT ![l] = proc[p].lines[l]]]
    BY <1>3 DEF Processes
  <2> HIDE DEF done
  <2> QED BY <1>3, <2>2, <2>3 DEF Processes
<1>5. proc[p].pc = "restore" /\ UNCHANGED <<unit, record, runs, level>> /\ faults' \in 0 .. MaxLinkFaults
  <2>1. faults' = faults \/ Uploader!Fault("symlink")
    BY DEF Uploader!RestoreLink
  <2>2. faults' \in 0 .. MaxLinkFaults
    BY <2>1 DEF Uploader!Fault, Uploader!TypeOK, LinksSensible
  <2> QED BY <2>2 DEF Uploader!RestoreLink, Uploader!At
<1>6. CASE Uploader!Goes(p, kept) /\ UNCHANGED <<link, owed>>
  <2> HIDE DEF kept
  <2> QED BY <1>4, <1>5, <1>6 DEF Uploader!Goes, RestoreLinkAt
<1>7. CASE Uploader!Goes(p, done) /\ link[l] = proc[p].lines[l] /\ UNCHANGED <<link, owed>>
  <2> HIDE DEF done
  <2> QED BY <1>3, <1>5, <1>7 DEF Uploader!Goes, RestoreLinkAt
<1>8. CASE /\ Uploader!Goes(p, done) /\ link[l] = "none" /\ proc[p].unit = proc[p].lines[l]
           /\ link' = [link EXCEPT ![l] = proc[p].lines[l]] /\ owed' = [owed EXCEPT ![l] = "none"]
  <2> HIDE DEF done
  <2> QED BY <1>3, <1>5, <1>8 DEF Uploader!Goes, RestoreLinkAt
<1> QED BY <1>2, <1>6, <1>7, <1>8

\* What the lever and the raise do keeps the types.
LEMMA WorkTyped ==
  ASSUME LinksSensible, Uploader!TypeOK, NEW p \in Procs, Uploader!Works(p) \/ Uploader!Kill(p)
  PROVE  Uploader!TypeOK'
<1>0. /\ proc \in [Procs -> Processes] /\ proc[p] \in Processes
      /\ Uploader!None \in Uploader!Lines /\ Uploader!Rest \in Processes
  BY LinkValues DEF Uploader!TypeOK, Processes
<1>1. ASSUME NEW kind, Uploader!Fault(kind) PROVE faults' \in 0 .. MaxLinkFaults
  BY <1>1 DEF Uploader!Fault, Uploader!TypeOK, LinksSensible
<1>2. ASSUME NEW r \in Processes, Uploader!Goes(p, r) PROVE proc' \in [Procs -> Processes]
  BY <1>0, <1>2 DEF Uploader!Goes
<1>3. CASE Uploader!LeverBegin(p)
  <2>1. Uploader!Unions(record) \in Uploader!Lines
    BY DEF Uploader!Unions, Uploader!Lines, Uploader!TypeOK
  <2>2. /\ [Uploader!Rest EXCEPT !.pc = "write", !.todo = Uploader!Present(link), !.lines = Uploader!Unions(record)] \in Processes
        /\ [Uploader!Rest EXCEPT !.pc = "stop"] \in Processes
    BY <1>0, <2>1 DEF Processes, Uploader!Present
  <2>3. proc' \in [Procs -> Processes]
    BY <1>2, <1>3, <2>2 DEF Uploader!LeverBegin
  <2> QED BY <1>3, <2>3 DEF Uploader!LeverBegin, Uploader!TypeOK, Processes
<1>4. CASE Uploader!LeverRecord(p)
  <2>1. [proc[p] EXCEPT !.pc = "unlink"] \in Processes /\ [proc[p] EXCEPT !.pc = "stop"] \in Processes
    BY <1>0 DEF Processes
  <2>2. proc' \in [Procs -> Processes]
    BY <1>2, <1>4, <2>1 DEF Uploader!LeverRecord
  <2>3. record' \in Uploader!Lines
    BY <1>0, <1>4 DEF Uploader!LeverRecord, Uploader!TypeOK, Processes
  <2>4. faults' \in 0 .. MaxLinkFaults
    BY <1>1, <1>4 DEF Uploader!LeverRecord, Uploader!TypeOK
  <2> QED BY <1>4, <2>2, <2>3, <2>4 DEF Uploader!LeverRecord, Uploader!TypeOK, Processes
<1>5. CASE Uploader!LeverUnlink(p)
  <2>1. /\ [proc[p] EXCEPT !.pc = "stop"] \in Processes
        /\ \A l : [proc[p] EXCEPT !.todo = @ \ {l}] \in Processes
    BY <1>0 DEF Processes
  <2>2. proc' \in [Procs -> Processes]
    BY <1>2, <1>5, <2>1 DEF Uploader!LeverUnlink
  <2>3. link' \in Uploader!Lines /\ owed' \in Uploader!Lines
    <3>1. ASSUME NEW l \in Links, link' = [link EXCEPT ![l] = "none"],
                 owed' = [owed EXCEPT ![l] = IF link[l] = "none" THEN @ ELSE link[l]]
          PROVE  link' \in Uploader!Lines /\ owed' \in Uploader!Lines
      BY <3>1 DEF Uploader!TypeOK, Uploader!Lines
    <3> QED BY <1>0, <1>5, <3>1 DEF Uploader!LeverUnlink, Uploader!TypeOK, Processes
  <2>4. faults' \in 0 .. MaxLinkFaults
    BY <1>1, <1>5 DEF Uploader!LeverUnlink, Uploader!TypeOK
  <2> QED BY <1>5, <2>2, <2>3, <2>4 DEF Uploader!LeverUnlink, Uploader!TypeOK, Processes
<1>6. CASE Uploader!LeverStop(p)
  <2>1. proc' \in [Procs -> Processes]
    BY <1>0, <1>2, <1>6 DEF Uploader!LeverStop
  <2>2. runs' \in BOOLEAN
    BY <1>6 DEF Uploader!LeverStop, Uploader!TypeOK
  <2>3. faults' \in 0 .. MaxLinkFaults
    BY <1>1, <1>6 DEF Uploader!LeverStop, Uploader!TypeOK
  <2> QED BY <1>6, <2>1, <2>2, <2>3 DEF Uploader!LeverStop, Uploader!TypeOK, Processes
<1>7. CASE Uploader!RestoreBegin(p)
  <2>1. [Uploader!Rest EXCEPT !.pc = "restore", !.todo = Uploader!Present(record), !.lines = record, !.unit = unit] \in Processes
    BY <1>0 DEF Processes, Uploader!Present, Uploader!TypeOK
  <2>2. proc' \in [Procs -> Processes]
    BY <1>2, <1>7, <2>1 DEF Uploader!RestoreBegin
  <2> QED BY <1>7, <2>2 DEF Uploader!RestoreBegin, Uploader!TypeOK, Processes
<1>8. CASE Uploader!RestoreLink(p)
  <2>1. PICK l \in proc[p].todo, r \in Processes : RestoreLinkAt(p, l, r)
    BY <1>8, RestoreLinkDoes
  <2>2. l \in Links /\ proc[p].lines[l] \in Targets \union {"none"}
    BY <1>0 DEF Processes, Uploader!Lines
  <2>3. link' \in Uploader!Lines /\ owed' \in Uploader!Lines
    BY <2>1, <2>2 DEF RestoreLinkAt, Uploader!TypeOK, Uploader!Lines
  <2> QED BY <1>0, <2>1, <2>3 DEF RestoreLinkAt, Uploader!TypeOK, Processes
<1>9. CASE Uploader!RestoreDone(p)
  <2>1. [proc[p] EXCEPT !.pc = "rewrite"] \in Processes
    BY <1>0 DEF Processes
  <2>2. proc' \in [Procs -> Processes]
    BY <1>2, <1>9, <2>1 DEF Uploader!RestoreDone
  <2> QED BY <1>9, <2>2 DEF Uploader!RestoreDone, Uploader!TypeOK, Processes
<1>10. CASE Uploader!RestoreRecord(p)
  <2>1. proc' \in [Procs -> Processes]
    BY <1>0, <1>2, <1>10 DEF Uploader!RestoreRecord
  <2>2. record' \in Uploader!Lines
    BY <1>0, <1>10 DEF Uploader!RestoreRecord, Uploader!TypeOK, Processes
  <2>3. faults' \in 0 .. MaxLinkFaults
    BY <1>1, <1>10 DEF Uploader!RestoreRecord, Uploader!TypeOK
  <2> QED BY <1>10, <2>1, <2>2, <2>3 DEF Uploader!RestoreRecord, Uploader!TypeOK, Processes
<1>11. CASE Uploader!Kill(p)
  <2>1. proc' \in [Procs -> Processes]
    BY <1>0, <1>2, <1>11 DEF Uploader!Kill
  <2>2. faults' \in 0 .. MaxLinkFaults
    BY <1>1, <1>11 DEF Uploader!Kill
  <2> QED BY <1>11, <2>1, <2>2 DEF Uploader!Kill, Uploader!TypeOK, Processes
<1> QED BY <1>3, <1>4, <1>5, <1>6, <1>7, <1>8, <1>9, <1>10, <1>11 DEF Uploader!Works

\* Every reachable state is well typed.
THEOREM LinksTypeCorrect ==
  ASSUME LinksSensible
  PROVE  Uploader!Spec => []Uploader!TypeOK
<1>1. Uploader!Init => Uploader!TypeOK
  <2> SUFFICES ASSUME Uploader!Init PROVE Uploader!TypeOK
    OBVIOUS
  <2>1. proc \in [Procs -> Processes] /\ record \in Uploader!Lines /\ owed \in Uploader!Lines
    BY LinkValues DEF Uploader!Init
  <2>2. link \in Uploader!Lines
    BY DEF Uploader!Init, Uploader!Lines
  <2>3. runs \in BOOLEAN
    BY DEF Uploader!Init
  <2> QED BY <2>1, <2>2, <2>3 DEF Uploader!Init, Uploader!TypeOK, Processes, LinksSensible
<1>2. Uploader!TypeOK /\ [Uploader!Next]_(Uploader!vars) => Uploader!TypeOK'
  <2> SUFFICES ASSUME Uploader!TypeOK, [Uploader!Next]_(Uploader!vars) PROVE Uploader!TypeOK'
    OBVIOUS
  <2>1. ASSUME NEW kind, Uploader!Fault(kind) PROVE faults' \in 0 .. MaxLinkFaults
    BY <2>1 DEF Uploader!Fault, Uploader!TypeOK, LinksSensible
  <2>2. ASSUME NEW t \in Targets, Uploader!Enable(t) PROVE Uploader!TypeOK'
    <3>1. link' \in Uploader!Lines /\ owed' \in Uploader!Lines
      BY <2>2, LinkValues DEF Uploader!Enable, Uploader!Lines
    <3> QED BY <2>1, <2>2, <3>1 DEF Uploader!Enable, Uploader!TypeOK
  <2>3. ASSUME NEW t \in Targets, Uploader!LinkAlone(t) PROVE Uploader!TypeOK'
    BY <2>1, <2>3 DEF Uploader!LinkAlone, Uploader!TypeOK
  <2>4. CASE Uploader!Disable
    BY <2>1, <2>4, LinkValues DEF Uploader!Disable, Uploader!TypeOK
  <2>5. CASE Uploader!Remedy
    BY <2>5, LinkValues DEF Uploader!Remedy, Uploader!TypeOK
  <2>6. CASE Uploader!SetLevel
    BY <2>1, <2>6 DEF Uploader!SetLevel, Uploader!TypeOK
  <2>7. CASE UNCHANGED Uploader!vars
    BY <2>7 DEF Uploader!vars, Uploader!TypeOK
  <2> QED BY <2>2, <2>3, <2>4, <2>5, <2>6, <2>7, WorkTyped DEF Uploader!Next
<1> QED BY <1>1, <1>2, PTL DEF Uploader!Spec

(***************************************************************************)
(* The record and the links.  OwedIsRecorded says what must hold at the    *)
(* end; what keeps it is that no line of the record ever disagrees with a  *)
(* link that stands, that the record goes before the links do, and that    *)
(* the raise drops no line of a link it still owes.                        *)
(***************************************************************************)

\* A line and its link, and what is owed of them.
LineInv(l) ==
  /\ record[l] # "none" /\ link[l] # "none" => record[l] = link[l]
  /\ owed[l] # "none" => record[l] = owed[l] /\ link[l] = "none"
  /\ record[l] # "none" /\ link[l] = "none" /\ unit = record[l] => owed[l] = record[l]

\* What a process knows at each of its steps.
ProcInv(p) ==
  /\ Uploader!At(p, "write") => proc[p].lines = Uploader!Unions(record)
  /\ Uploader!At(p, "unlink") => \A l \in Links : link[l] # "none" => record[l] = link[l]
  /\ Uploader!At(p, "restore") \/ Uploader!At(p, "rewrite") =>
       /\ proc[p].lines = record /\ proc[p].unit = unit
       /\ proc[p].todo \subseteq Uploader!Present(record)
       /\ \A l \in Links : /\ proc[p].kept[l] \in {"none", record[l]}
                           /\ l \notin proc[p].todo /\ owed[l] # "none" => proc[p].kept[l] = record[l]
  /\ Uploader!At(p, "rewrite") => proc[p].todo = {}

RecordInv == (\A l \in Links : LineInv(l)) /\ (\A p \in Procs : ProcInv(p))

\* A step of the lever or of the raise keeps it.
LEMMA WorkKeepsRecord ==
  ASSUME LinksSensible, Undisturbed, Uploader!TypeOK, RecordInv, NEW p \in Procs, Uploader!Works(p) \/ Uploader!Kill(p)
  PROVE  RecordInv'
<1> USE DEF Uploader!At
<1>0. /\ proc \in [Procs -> Processes] /\ proc[p] \in Processes
      /\ link \in [Links -> Targets \union {"none"}] /\ record \in [Links -> Targets \union {"none"}]
      /\ owed \in [Links -> Targets \union {"none"}]
  BY DEF Uploader!TypeOK, Processes, Uploader!Lines
<1>1. ASSUME NEW r, proc' = [proc EXCEPT ![p] = r] PROVE \A q \in Procs : q = p /\ proc'[q] = r
  BY <1>0, <1>1 DEF Undisturbed
<1>2. Uploader!Rest.pc = "idle"
  BY DEF Uploader!Rest
<1>3. ASSUME NEW r, proc' = [proc EXCEPT ![p] = r], r.pc \in {"idle", "stop"} PROVE \A q \in Procs : ProcInv(q)'
  BY <1>1, <1>3 DEF ProcInv
<1>4. CASE Uploader!LeverBegin(p)
  <2>1. \A l \in Links : LineInv(l)'
    BY <1>4 DEF Uploader!LeverBegin, RecordInv, LineInv
  <2>2. CASE Uploader!Goes(p, [Uploader!Rest EXCEPT !.pc = "stop"])
    <3>1. [Uploader!Rest EXCEPT !.pc = "stop"].pc = "stop"
      BY DEF Uploader!Rest
    <3> QED BY <1>3, <2>1, <2>2, <3>1 DEF RecordInv, Uploader!Goes
  <2>3. CASE Uploader!Goes(p, [Uploader!Rest EXCEPT !.pc = "write", !.todo = Uploader!Present(link), !.lines = Uploader!Unions(record)])
    <3> DEFINE r == [Uploader!Rest EXCEPT !.pc = "write", !.todo = Uploader!Present(link), !.lines = Uploader!Unions(record)]
    <3>1. r.pc = "write" /\ r.lines = Uploader!Unions(record) /\ Uploader!Unions(record)' = Uploader!Unions(record)
      BY <1>4 DEF Uploader!Rest, Uploader!LeverBegin, Uploader!Unions
    <3> HIDE DEF r
    <3>2. \A q \in Procs : proc'[q] = r
      BY <1>1, <2>3 DEF Uploader!Goes, r
    <3> QED BY <2>1, <3>1, <3>2 DEF RecordInv, ProcInv
  <2> QED BY <1>4, <2>2, <2>3 DEF Uploader!LeverBegin
<1>5. CASE Uploader!LeverRecord(p)
  <2>1. CASE record' = proc[p].lines /\ Uploader!Goes(p, [proc[p] EXCEPT !.pc = "unlink"])
    <3>1. UNCHANGED <<unit, link, owed>> /\ \A l \in Links : record'[l] = IF record[l] = "none" THEN link[l] ELSE record[l]
      BY <1>5, <2>1 DEF Uploader!LeverRecord, RecordInv, ProcInv, Uploader!Unions
    <3>2. \A l \in Links : LineInv(l)'
      BY <3>1 DEF RecordInv, LineInv
    <3>3. \A q \in Procs : proc'[q].pc = "unlink"
      <4>1. [proc[p] EXCEPT !.pc = "unlink"].pc = "unlink"
        BY <1>0 DEF Processes
      <4> QED BY <1>1, <2>1, <4>1 DEF Uploader!Goes
    <3>4. \A l \in Links : link'[l] # "none" => record'[l] = link'[l]
      BY <3>1 DEF RecordInv, LineInv
    <3> QED BY <3>2, <3>3, <3>4 DEF RecordInv, ProcInv
  <2>2. CASE UNCHANGED record /\ Uploader!Goes(p, [proc[p] EXCEPT !.pc = "stop"])
    <3>1. [proc[p] EXCEPT !.pc = "stop"].pc = "stop"
      BY <1>0 DEF Processes
    <3>2. \A l \in Links : LineInv(l)'
      BY <1>5, <2>2 DEF Uploader!LeverRecord, RecordInv, LineInv
    <3> QED BY <1>3, <2>2, <3>1, <3>2 DEF RecordInv, Uploader!Goes
  <2> QED BY <1>5, <2>1, <2>2 DEF Uploader!LeverRecord
<1>6. CASE Uploader!LeverUnlink(p)
  <2>1. CASE Uploader!Goes(p, [proc[p] EXCEPT !.pc = "stop"]) /\ UNCHANGED <<link, owed>>
    <3>1. [proc[p] EXCEPT !.pc = "stop"].pc = "stop"
      BY <1>0 DEF Processes
    <3>2. \A l \in Links : LineInv(l)'
      BY <1>6, <2>1 DEF Uploader!LeverUnlink, RecordInv, LineInv
    <3> QED BY <1>3, <2>1, <3>1, <3>2 DEF RecordInv, Uploader!Goes
  <2>2. ASSUME NEW k \in proc[p].todo, Uploader!Goes(p, [proc[p] EXCEPT !.todo = @ \ {k}]),
               \/ UNCHANGED <<link, owed>>
               \/ /\ link' = [link EXCEPT ![k] = "none"]
                  /\ owed' = [owed EXCEPT ![k] = IF link[k] = "none" THEN @ ELSE link[k]]
        PROVE  RecordInv'
    <3>1. /\ UNCHANGED <<unit, record>> /\ k \in Links
          /\ \A l \in Links : link[l] # "none" => record[l] = link[l]
      BY <1>0, <1>6 DEF Uploader!LeverUnlink, RecordInv, ProcInv, Processes
    <3>2. \A q \in Procs : proc'[q].pc = "unlink"
      <4>1. [proc[p] EXCEPT !.todo = @ \ {k}].pc = "unlink"
        BY <1>0, <1>6 DEF Uploader!LeverUnlink, Processes
      <4> QED BY <1>1, <2>2, <4>1 DEF Uploader!Goes
    <3>3. \A l \in Links : \/ link'[l] = link[l] /\ owed'[l] = owed[l]
                           \/ link'[l] = "none" /\ owed'[l] = IF link[l] = "none" THEN owed[l] ELSE link[l]
      BY <1>0, <2>2, <3>1
    <3>4. \A l \in Links : LineInv(l)'
      BY <3>1, <3>3 DEF RecordInv, LineInv
    <3>5. \A l \in Links : link'[l] # "none" => record'[l] = link'[l]
      BY <3>1, <3>3
    <3> QED BY <3>2, <3>4, <3>5 DEF RecordInv, ProcInv
  <2> QED BY <1>6, <2>1, <2>2 DEF Uploader!LeverUnlink
<1>7. CASE Uploader!RestoreBegin(p)
  <2> DEFINE r == [Uploader!Rest EXCEPT !.pc = "restore", !.todo = Uploader!Present(record), !.lines = record, !.unit = unit]
  <2>1. r.pc = "restore" /\ r.todo = Uploader!Present(record) /\ r.lines = record /\ r.unit = unit /\ r.kept = Uploader!None
    BY DEF Uploader!Rest
  <2>2. Uploader!Goes(p, r) /\ UNCHANGED <<unit, link, record, owed>>
    BY <1>7 DEF Uploader!RestoreBegin
  <2> HIDE DEF r
  <2>3. \A q \in Procs : proc'[q] = r
    BY <1>1, <2>2 DEF Uploader!Goes
  <2>4. \A l \in Links : LineInv(l)'
    BY <2>2 DEF RecordInv, LineInv
  <2>5. \A l \in Links : Uploader!None[l] = "none" /\ (l \notin Uploader!Present(record) /\ owed[l] # "none" => FALSE)
    BY LinkValues DEF RecordInv, LineInv, Uploader!Present
  <2>6. Uploader!Present(record)' = Uploader!Present(record)
    BY <2>2 DEF Uploader!Present
  <2> QED BY <2>1, <2>2, <2>3, <2>4, <2>5, <2>6 DEF RecordInv, ProcInv
<1>8. CASE Uploader!RestoreLink(p)
  <2>1. PICK k \in proc[p].todo, r \in Processes : RestoreLinkAt(p, k, r)
    BY <1>8, RestoreLinkDoes
  <2>2. /\ Uploader!At(p, "restore") /\ k \in Links /\ record[k] # "none"
        /\ proc[p].lines = record /\ proc[p].unit = unit
        /\ UNCHANGED <<unit, record>>
    BY <1>0, <1>8, <2>1 DEF Uploader!RestoreLink, RestoreLinkAt, RecordInv, ProcInv,
       Uploader!Present
  <2>3. \A q \in Procs : proc'[q] = r
    BY <1>1, <2>1 DEF RestoreLinkAt
  <2>4. /\ proc[p].kept \in [Links -> Targets \union {"none"}]
        /\ \A l \in Links : /\ proc[p].kept[l] \in {"none", record[l]}
                            /\ l \notin proc[p].todo /\ owed[l] # "none" => proc[p].kept[l] = record[l]
    BY <1>0, <2>2 DEF RecordInv, ProcInv, Processes, Uploader!Lines
  <2>5. ASSUME NEW l \in Links
        PROVE  /\ LineInv(l)'
               /\ r.kept[l] \in {"none", record[l]}
               /\ l \notin r.todo /\ owed'[l] # "none" => r.kept[l] = record[l]
    <3>1. LineInv(l)
      BY DEF RecordInv
    <3>2. l # k => link'[l] = link[l] /\ owed'[l] = owed[l] /\ r.kept[l] = proc[p].kept[l]
      BY <1>0, <2>1, <2>2, <2>4 DEF RestoreLinkAt
    <3>3. r.todo = proc[p].todo \ {k}
      BY <2>1 DEF RestoreLinkAt
    <3>4. CASE l # k
      BY <2>2, <2>4, <3>1, <3>2, <3>3, <3>4 DEF LineInv
    <3>5. CASE l = k
      <4>1. \/ link'[k] = link[k] /\ owed'[k] = owed[k] /\ r.kept[k] = record[k]
            \/ /\ link'[k] = link[k] /\ owed'[k] = owed[k] /\ r.kept[k] = proc[p].kept[k]
               /\ link[k] = record[k]
            \/ link'[k] = record[k] /\ owed'[k] = "none" /\ r.kept[k] = proc[p].kept[k]
        BY <1>0, <2>1, <2>2, <2>4 DEF RestoreLinkAt
      <4> QED BY <2>2, <2>4, <3>1, <3>5, <4>1 DEF LineInv
    <3> QED BY <3>4, <3>5
  <2>6. r.pc = "restore" /\ r.lines = record' /\ r.unit = unit' /\ r.todo \subseteq Uploader!Present(record)'
    BY <2>1, <2>2 DEF RestoreLinkAt, RecordInv, ProcInv, Uploader!Present
  <2> QED BY <2>2, <2>3, <2>5, <2>6 DEF RecordInv, ProcInv
<1>9. CASE Uploader!RestoreDone(p)
  <2> DEFINE r == [proc[p] EXCEPT !.pc = "rewrite"]
  <2>1. /\ r.pc = "rewrite" /\ r.todo = proc[p].todo /\ r.lines = proc[p].lines
        /\ r.unit = proc[p].unit /\ r.kept = proc[p].kept
    BY <1>0 DEF Processes
  <2>2. Uploader!Goes(p, r) /\ UNCHANGED <<unit, link, record, owed>> /\ Uploader!At(p, "restore") /\ proc[p].todo = {}
    BY <1>9 DEF Uploader!RestoreDone
  <2> HIDE DEF r
  <2>3. \A q \in Procs : proc'[q] = r
    BY <1>1, <2>2 DEF Uploader!Goes
  <2>4. \A l \in Links : LineInv(l)'
    BY <2>2 DEF RecordInv, LineInv
  <2>5. Uploader!Present(record)' = Uploader!Present(record)
    BY <2>2 DEF Uploader!Present
  <2>6. ProcInv(p)
    BY DEF RecordInv
  <2> QED BY <2>1, <2>2, <2>3, <2>4, <2>5, <2>6 DEF RecordInv, ProcInv
<1>10. CASE Uploader!RestoreRecord(p)
  <2>1. \A l \in Links : LineInv(l)'
    <3>1. UNCHANGED <<unit, link, owed>>
      BY <1>10 DEF Uploader!RestoreRecord
    <3>2. \A l \in Links : record'[l] \in {"none", record[l]} /\ (owed[l] # "none" => record'[l] = record[l])
      BY <1>10 DEF Uploader!RestoreRecord, RecordInv, ProcInv
    <3> QED BY <3>1, <3>2 DEF RecordInv, LineInv
  <2> QED BY <1>2, <1>3, <1>10, <2>1 DEF Uploader!RestoreRecord, RecordInv, Uploader!Goes
<1>11. CASE Uploader!LeverStop(p) \/ Uploader!Kill(p)
  <2>1. \A l \in Links : LineInv(l)'
    BY <1>11 DEF Uploader!LeverStop, Uploader!Kill, RecordInv, LineInv
  <2> QED BY <1>2, <1>3, <1>11, <2>1 DEF Uploader!LeverStop, Uploader!Kill, RecordInv, Uploader!Goes
<1> QED BY <1>4, <1>5, <1>6, <1>7, <1>8, <1>9, <1>10, <1>11 DEF Uploader!Works

\* What the operator does, and a change of level, keep it.
LEMMA MovesKeepRecord ==
  ASSUME LinksSensible, Undisturbed, Uploader!TypeOK, RecordInv,
         \/ \E t \in Targets : Uploader!Enable(t) \/ Uploader!LinkAlone(t)
         \/ Uploader!Disable \/ Uploader!Remedy \/ Uploader!SetLevel
  PROVE  RecordInv'
<1> USE DEF Uploader!At
<1>1. ASSUME Uploader!Quiet, UNCHANGED proc PROVE \A p \in Procs : ProcInv(p)'
  BY <1>1 DEF Uploader!Quiet, Undisturbed, ProcInv
<1>2. ASSUME NEW t \in Targets, Uploader!Enable(t) PROVE RecordInv'
  <2>1. \A l \in Links : record[l] # "none" => record[l] = t
    BY <1>2 DEF Uploader!Enable, Undisturbed, Uploader!Present
  <2>2. \A l \in Links : LineInv(l)'
    <3>1. \A l \in Links : link'[l] = t /\ owed'[l] = "none" /\ record'[l] = record[l]
      BY <1>2, LinkValues DEF Uploader!Enable
    <3>2. t # "none"
      BY DEF LinksSensible
    <3> QED BY <2>1, <3>1, <3>2 DEF LineInv
  <2> QED BY <1>1, <1>2, <2>2 DEF Uploader!Enable, RecordInv
<1>3. ASSUME NEW t \in Targets, Uploader!LinkAlone(t) PROVE RecordInv'
  <2>1. \A l \in Links : record[l] = "none"
    BY <1>3 DEF Uploader!LinkAlone, Undisturbed, Uploader!Present
  <2>2. \A l \in Links : LineInv(l)'
    BY <1>3, <2>1 DEF Uploader!LinkAlone, RecordInv, LineInv
  <2> QED BY <1>1, <1>3, <2>2 DEF Uploader!LinkAlone, RecordInv
<1>4. CASE Uploader!Disable
  <2>1. \A l \in Links : link'[l] = "none" /\ owed'[l] = "none" /\ record'[l] = record[l]
    BY <1>4, LinkValues DEF Uploader!Disable
  <2>2. \A l \in Links : LineInv(l)'
    BY <1>4, <2>1 DEF Uploader!Disable, LineInv
  <2> QED BY <1>1, <1>4, <2>2 DEF Uploader!Disable, RecordInv
<1>5. CASE Uploader!Remedy
  <2>1. \A l \in Links : record'[l] = "none" /\ owed'[l] = "none"
    BY <1>5, LinkValues DEF Uploader!Remedy
  <2>2. \A l \in Links : LineInv(l)'
    BY <2>1 DEF LineInv
  <2> QED BY <1>1, <1>5, <2>2 DEF Uploader!Remedy, RecordInv
<1>6. CASE Uploader!SetLevel
  <2>1. UNCHANGED <<unit, link, record, proc, owed>>
    BY <1>6 DEF Uploader!SetLevel
  <2>2. Uploader!Unions(record)' = Uploader!Unions(record) /\ Uploader!Present(record)' = Uploader!Present(record)
    BY <2>1 DEF Uploader!Unions, Uploader!Present
  <2>3. \A l \in Links : LineInv(l)'
    BY <2>1 DEF RecordInv, LineInv
  <2>4. \A p \in Procs : ProcInv(p)'
    BY <2>1, <2>2 DEF RecordInv, ProcInv
  <2> QED BY <2>3, <2>4 DEF RecordInv
<1> QED BY <1>2, <1>3, <1>4, <1>5, <1>6

\* The invariant holds of every behaviour.
LEMMA RecordInvHolds ==
  ASSUME LinksSensible, Undisturbed
  PROVE  Uploader!Spec => [](Uploader!TypeOK /\ RecordInv)
<1>1. Uploader!Init => RecordInv
  <2> SUFFICES ASSUME Uploader!Init PROVE RecordInv
    OBVIOUS
  <2>1. \A l \in Links : record[l] = "none" /\ owed[l] = "none"
    BY LinkValues DEF Uploader!Init
  <2>2. \A p \in Procs : proc[p].pc = "idle"
    BY DEF Uploader!Init, Uploader!Rest
  <2> QED BY <2>1, <2>2 DEF RecordInv, LineInv, ProcInv, Uploader!At
<1>2. Uploader!TypeOK /\ RecordInv /\ UNCHANGED Uploader!vars => RecordInv'
  <2> SUFFICES ASSUME Uploader!TypeOK, RecordInv, UNCHANGED Uploader!vars PROVE RecordInv'
    OBVIOUS
  <2>1. UNCHANGED <<unit, link, record, proc, owed>>
    BY DEF Uploader!vars
  <2>2. Uploader!Unions(record)' = Uploader!Unions(record) /\ Uploader!Present(record)' = Uploader!Present(record)
    BY <2>1 DEF Uploader!Unions, Uploader!Present
  <2> QED BY <2>1, <2>2 DEF RecordInv, LineInv, ProcInv, Uploader!At
<1>3. Uploader!TypeOK /\ RecordInv /\ [Uploader!Next]_(Uploader!vars) => RecordInv'
  BY <1>2, WorkKeepsRecord, MovesKeepRecord DEF Uploader!Next
<1> QED BY <1>1, <1>3, LinksTypeCorrect, PTL DEF Uploader!Spec

\* "A record that cannot be written removes nothing, since the raise could never
\* put the links back": whatever fails or is killed, each link a lever took away
\* stands in the record with the target it had.
THEOREM RecordIsKept ==
  ASSUME LinksSensible, Undisturbed
  PROVE  Uploader!Spec => []OwedIsRecorded
<1>1. RecordInv => OwedIsRecorded
  BY DEF RecordInv, LineInv, OwedIsRecorded, Uploader!OwedIsRecorded
<1> QED BY <1>1, RecordInvHolds, PTL

\* "What the operator did since the fill wins": the raise creates only links a
\* lever removed, with the target they had.
THEOREM OperatorKeepsTheirSay ==
  ASSUME LinksSensible, Undisturbed
  PROVE  Uploader!Spec => OperatorWins
<1>1. Uploader!TypeOK /\ RecordInv /\ [Uploader!Next]_(Uploader!vars) =>
        [\A p \in Procs, l \in Links :
           Uploader!At(p, "restore") /\ link[l] = "none" /\ link'[l] # "none" => owed[l] = link'[l]]_(Uploader!vars)
  <2> SUFFICES ASSUME Uploader!TypeOK, RecordInv, Uploader!Next, NEW p \in Procs, NEW l \in Links,
                      Uploader!At(p, "restore"), link[l] = "none", link'[l] # "none"
               PROVE  owed[l] = link'[l]
    OBVIOUS
  <2>1. \A q \in Procs : Uploader!At(q, "restore")
    BY DEF Undisturbed
  <2>2. ~Uploader!Quiet
    BY <2>1 DEF Uploader!Quiet, Undisturbed, Uploader!At
  <2>3. PICK q \in Procs : Uploader!RestoreLink(q)
    <3>1. ~UNCHANGED link
      OBVIOUS
    <3>2. \A q \in Procs : ~Uploader!At(q, "unlink")
      BY <2>1 DEF Uploader!At
    <3> QED BY <2>2, <3>1, <3>2 DEF Uploader!Next, Uploader!Works, Uploader!LeverBegin,
               Uploader!LeverRecord, Uploader!LeverUnlink, Uploader!LeverStop,
               Uploader!RestoreBegin,
          Uploader!RestoreDone, Uploader!RestoreRecord, Uploader!Kill, Uploader!Enable, Uploader!LinkAlone, Uploader!Disable, Uploader!Remedy, Uploader!SetLevel
  <2>4. PICK k \in proc[q].todo, r \in Processes : RestoreLinkAt(q, k, r)
    BY <2>3, RestoreLinkDoes
  <2>5. /\ k \in Links /\ proc[q].lines = record /\ proc[q].unit = unit /\ record[k] # "none"
        /\ \A j \in Links : LineInv(j)
    BY <2>1 DEF RecordInv, ProcInv, Uploader!Present
  <2>6. link \in [Links -> Targets \union {"none"}]
    BY DEF Uploader!TypeOK, Uploader!Lines
  <2>7. l = k /\ link'[l] = record[l] /\ unit = record[l]
    BY <2>4, <2>5, <2>6 DEF RestoreLinkAt
  <2> QED BY <2>5, <2>7 DEF LineInv
<1> QED BY <1>1, RecordInvHolds, PTL DEF Uploader!Spec, OperatorWins, Uploader!OperatorWins

(***************************************************************************)
(* safe_write                                                              *)
(***************************************************************************)

\* The bounds are numbers.
FileBounds == MaxWrites \in Nat /\ MaxFileFaults \in Nat

\* Every reachable state is well typed.
THEOREM FileTypeCorrect ==
  ASSUME FileBounds
  PROVE  SafeFile!Spec => []SafeFile!TypeOK
<1> USE DEF FileBounds
<1>1. SafeFile!Fresh \in SafeFile!Inodes /\ SafeFile!First \in SafeFile!Inodes
  BY DEF SafeFile!Fresh, SafeFile!First, SafeFile!Inodes
<1>2. SafeFile!Init => SafeFile!TypeOK
  <2>1. {SafeFile!First} \in (SUBSET SafeFile!Inodes) \ {{}}
    BY <1>1
  <2>2. SafeFile!Init => writers \in [Writers -> [pc: {"idle", "write", "fsync", "own", "replace", "dirsync"}, tmp: SafeFile!Inodes]]
    BY <1>1 DEF SafeFile!Init, SafeFile!Rest
  <2>3. SafeFile!Init => litter \in BOOLEAN
    BY DEF SafeFile!Init
  <2>4. SafeFile!Init => promised \in 0 .. MaxWrites /\ faults \in 0 .. MaxFileFaults
    BY DEF SafeFile!Init
  <2>5. SafeFile!Init => named \in SafeFile!Inodes /\ dir \in (SUBSET SafeFile!Inodes) \ {{}}
    BY <1>1, <2>1 DEF SafeFile!Init
  <2> QED BY <2>2, <2>3, <2>4, <2>5 DEF SafeFile!TypeOK
<1>3. SafeFile!TypeOK /\ [SafeFile!Next]_(SafeFile!vars) => SafeFile!TypeOK'
  <2> SUFFICES ASSUME SafeFile!TypeOK, [SafeFile!Next]_(SafeFile!vars) PROVE SafeFile!TypeOK'
    OBVIOUS
  <2> USE DEF SafeFile!TypeOK
  <2>1. ASSUME NEW w \in Writers, NEW pc \in {"idle", "write", "fsync", "own", "replace", "dirsync"},
               NEW tmp \in SafeFile!Inodes, SafeFile!Goes(w, pc, tmp)
        PROVE  writers' \in [Writers -> [pc: {"idle", "write", "fsync", "own", "replace", "dirsync"}, tmp: SafeFile!Inodes]]
    BY <2>1 DEF SafeFile!Goes
  <2>2. ASSUME NEW kind, SafeFile!Fault(kind) PROVE faults' \in 0 .. MaxFileFaults
    BY <2>2 DEF SafeFile!Fault
  <2>3. ASSUME NEW w \in Writers, SafeFile!Create(w) \/ SafeFile!Write(w) \/ SafeFile!Fsync(w) \/ SafeFile!Own(w) PROVE SafeFile!TypeOK'
    <3>1. writers[w].tmp \in SafeFile!Inodes
      OBVIOUS
    <3>2. /\ [writers[w].tmp EXCEPT !.whole = TRUE] \in SafeFile!Inodes
          /\ [writers[w].tmp EXCEPT !.synced = TRUE] \in SafeFile!Inodes
          /\ [writers[w].tmp EXCEPT !.given = TRUE] \in SafeFile!Inodes
      BY <3>1 DEF SafeFile!Inodes
    <3>3. writers' \in [Writers -> [pc: {"idle", "write", "fsync", "own", "replace", "dirsync"}, tmp: SafeFile!Inodes]]
      BY <1>1, <2>1, <2>3, <3>2 DEF SafeFile!Create, SafeFile!Write, SafeFile!Fsync, SafeFile!Own
    <3> QED BY <2>3, <3>3 DEF SafeFile!Create, SafeFile!Write, SafeFile!Fsync, SafeFile!Own
  <2>4. ASSUME NEW w \in Writers, SafeFile!Replace(w) PROVE SafeFile!TypeOK'
    <3> DEFINE new == [writers[w].tmp EXCEPT !.version = named.version + 1]
    <3>1. new \in SafeFile!Inodes
      <4>1. writers[w].tmp \in SafeFile!Inodes /\ named.version + 1 \in 0 .. MaxWrites
        BY <2>4 DEF SafeFile!Replace, SafeFile!Inodes
      <4> QED BY <4>1 DEF SafeFile!Inodes
    <3>2. named' = new /\ dir' = dir \union {new} /\ SafeFile!Goes(w, "dirsync", new)
          /\ UNCHANGED <<litter, promised, faults>>
      BY <2>4 DEF SafeFile!Replace
    <3> HIDE DEF new
    <3> QED BY <2>1, <3>1, <3>2
  <2>5. ASSUME NEW w \in Writers, SafeFile!DirSync(w) PROVE SafeFile!TypeOK'
    <3>1. writers[w].tmp.version \in 0 .. MaxWrites
      BY DEF SafeFile!Inodes
    <3>2. promised' \in 0 .. MaxWrites
      BY <2>5, <3>1 DEF SafeFile!DirSync
    <3> QED BY <1>1, <2>1, <2>5, <3>2 DEF SafeFile!DirSync
  <2>6. ASSUME NEW w \in Writers, SafeFile!Fails(w) PROVE SafeFile!TypeOK'
    BY <1>1, <2>1, <2>2, <2>6 DEF SafeFile!Fails
  <2>7. ASSUME NEW w \in Writers, SafeFile!Kill(w) PROVE SafeFile!TypeOK'
    <3>1. litter' \in BOOLEAN
      BY <2>7 DEF SafeFile!Kill
    <3> QED BY <1>1, <2>1, <2>2, <2>7, <3>1 DEF SafeFile!Kill
  <2>8. CASE SafeFile!PowerLoss
    <3>1. PICK i \in dir : named' = i \/ named' = [i EXCEPT !.whole = FALSE]
      BY <2>8 DEF SafeFile!PowerLoss
    <3>2. named' \in SafeFile!Inodes
      BY <3>1 DEF SafeFile!Inodes
    <3>3. litter' \in BOOLEAN
      BY <2>8 DEF SafeFile!PowerLoss
    <3>4. SafeFile!Rest \in [pc: {"idle", "write", "fsync", "own", "replace", "dirsync"}, tmp: SafeFile!Inodes]
      BY <1>1 DEF SafeFile!Rest
    <3> QED BY <2>2, <2>8, <3>2, <3>3, <3>4 DEF SafeFile!PowerLoss
  <2>9. CASE UNCHANGED SafeFile!vars
    BY <2>9 DEF SafeFile!vars
  <2> QED BY <2>3, <2>4, <2>5, <2>6, <2>7, <2>8, <2>9 DEF SafeFile!Next, SafeFile!Step
<1> QED BY <1>2, <1>3, PTL DEF SafeFile!Spec

(***************************************************************************)
(* What stands behind both promises.  Neither property is inductive: a     *)
(* temporary becomes the file, so what it must be is fixed step by step    *)
(* while it is still a temporary; and the file may be any inode the disk   *)
(* names, so they must all be fit to be it.                                *)
(***************************************************************************)

\* Fit to be the file, whenever the power goes.
Sound(i) == i.whole /\ i.synced /\ i.given

\* How far each writer's temporary has come.
TemporaryInv(w) ==
  /\ writers[w].pc \in {"fsync", "own", "replace"} => writers[w].tmp.whole
  /\ writers[w].pc \in {"own", "replace"} => writers[w].tmp.synced
  /\ writers[w].pc = "replace" => writers[w].tmp.given
  /\ writers[w].pc = "dirsync" => writers[w].tmp.version <= named.version

FileInv ==
  /\ Sound(named) /\ named \in dir
  /\ \A i \in dir : Sound(i) /\ promised <= i.version /\ i.version <= named.version
  /\ \A w \in Writers : TemporaryInv(w)

\* The refinement needs one thing more: that OldestOnDisk is the version of an
\* inode.  Carried along as an invariant it takes no induction over the versions.
HasOldest == \E m \in dir : \A i \in dir : m.version <= i.version

\* Every call, error, kill and power loss keeps it.
LEMMA FileInvInductive ==
  ASSUME FileBounds, SafeFile!TypeOK, FileInv, [SafeFile!Next]_(SafeFile!vars)
  PROVE  FileInv'
<1> USE DEF SafeFile!TypeOK, FileInv, TemporaryInv
<1>1. ASSUME NEW w \in Writers, NEW pc, NEW tmp, SafeFile!Goes(w, pc, tmp)
      PROVE  /\ writers'[w].pc = pc /\ writers'[w].tmp = tmp
             /\ \A v \in Writers : v # w => writers'[v] = writers[v]
  BY <1>1 DEF SafeFile!Goes
<1>2. ASSUME NEW i \in SafeFile!Inodes
      PROVE  i.version \in Nat
  BY DEF SafeFile!Inodes, FileBounds
<1>3. ASSUME NEW w \in Writers, SafeFile!Create(w) PROVE FileInv'
  BY <1>1, <1>3 DEF SafeFile!Create
<1>4. ASSUME NEW w \in Writers, SafeFile!Write(w) PROVE FileInv'
  <2> DEFINE new == [writers[w].tmp EXCEPT !.whole = TRUE]
  <2>1. new.whole
    BY DEF SafeFile!Inodes
  <2>2. SafeFile!At(w, "write") /\ SafeFile!Goes(w, "fsync", new) /\ UNCHANGED <<named, dir, promised>>
    BY <1>4 DEF SafeFile!Write
  <2> HIDE DEF new
  <2> QED BY <1>1, <2>1, <2>2 DEF SafeFile!At, Sound
<1>5. ASSUME NEW w \in Writers, SafeFile!Fsync(w) PROVE FileInv'
  <2> DEFINE new == [writers[w].tmp EXCEPT !.synced = TRUE]
  <2>1. new.synced /\ new.whole = writers[w].tmp.whole
    BY DEF SafeFile!Inodes
  <2>2. SafeFile!At(w, "fsync") /\ SafeFile!Goes(w, "own", new) /\ UNCHANGED <<named, dir, promised>>
    BY <1>5 DEF SafeFile!Fsync
  <2> HIDE DEF new
  <2> QED BY <1>1, <2>1, <2>2 DEF SafeFile!At, Sound
<1>6. ASSUME NEW w \in Writers, SafeFile!Own(w) PROVE FileInv'
  <2> DEFINE new == [writers[w].tmp EXCEPT !.given = TRUE]
  <2>1. new.given /\ new.whole = writers[w].tmp.whole /\ new.synced = writers[w].tmp.synced
    BY DEF SafeFile!Inodes
  <2>2. SafeFile!At(w, "own") /\ SafeFile!Goes(w, "replace", new) /\ UNCHANGED <<named, dir, promised>>
    BY <1>6 DEF SafeFile!Own
  <2> HIDE DEF new
  <2> QED BY <1>1, <2>1, <2>2 DEF SafeFile!At, Sound
<1>7. ASSUME NEW w \in Writers, SafeFile!Replace(w) PROVE FileInv'
  <2> DEFINE new == [writers[w].tmp EXCEPT !.version = named.version + 1]
  <2>1. named' = new /\ dir' = dir \union {new} /\ SafeFile!Goes(w, "dirsync", new) /\ promised' = promised
    BY <1>7 DEF SafeFile!Replace
  <2>2. new.version = named.version + 1 /\ Sound(new)
    BY <1>7 DEF SafeFile!Replace, SafeFile!At, Sound, SafeFile!Inodes
  <2> HIDE DEF new
  <2>3. named.version \in Nat /\ promised \in Nat
    BY <1>2 DEF FileBounds
  <2>4. Sound(named') /\ named' \in dir'
    BY <2>1, <2>2 DEF Sound
  <2>5. ASSUME NEW i \in dir' PROVE Sound(i) /\ promised' <= i.version /\ i.version <= named'.version
    <3>1. CASE i = new
      BY <2>1, <2>2, <2>3, <3>1
    <3>2. CASE i \in dir
      BY <1>2, <2>1, <2>2, <2>3, <3>2
    <3> QED BY <2>1, <3>1, <3>2
  <2>6. ASSUME NEW v \in Writers PROVE TemporaryInv(v)'
    <3>1. CASE v = w
      BY <1>1, <2>1, <2>2, <2>3, <3>1
    <3>2. CASE v # w
      <4>1. writers[v].tmp.version \in Nat
        BY <1>2
      <4> QED BY <1>1, <2>1, <2>2, <2>3, <3>2, <4>1
    <3> QED BY <3>1, <3>2
  <2> QED BY <2>4, <2>5, <2>6 DEF Sound
<1>8. ASSUME NEW w \in Writers, SafeFile!DirSync(w) PROVE FileInv'
  <2>1. /\ dir' = {named} /\ named' = named /\ SafeFile!Goes(w, "idle", SafeFile!Fresh)
        /\ promised' = writers[w].tmp.version \/ promised' = promised
    BY <1>8 DEF SafeFile!DirSync
  <2>2. writers[w].tmp.version <= named.version /\ promised <= named.version
    BY <1>8 DEF SafeFile!DirSync, SafeFile!At
  <2>3. named.version \in Nat
    BY <1>2
  <2> QED BY <1>1, <2>1, <2>2, <2>3 DEF Sound
<1>9. ASSUME NEW w \in Writers, SafeFile!Fails(w) \/ SafeFile!Kill(w) PROVE FileInv'
  BY <1>1, <1>9 DEF SafeFile!Fails, SafeFile!Kill
<1>10. CASE SafeFile!PowerLoss
  <2>1. PICK i \in dir : named' = i
    BY <1>10 DEF SafeFile!PowerLoss, Sound
  <2>2. dir' = {named'} /\ promised' = promised
    BY <1>10 DEF SafeFile!PowerLoss
  <2>3. \A w \in Writers : writers'[w].pc = "idle"
    BY <1>10 DEF SafeFile!PowerLoss, SafeFile!Rest
  <2>4. i.version <= i.version
    BY <1>2
  <2> QED BY <2>1, <2>2, <2>3, <2>4 DEF Sound
<1>11. CASE UNCHANGED SafeFile!vars
  BY <1>11 DEF SafeFile!vars, Sound
<1> QED BY <1>3, <1>4, <1>5, <1>6, <1>7, <1>8, <1>9, <1>10, <1>11 DEF SafeFile!Next, SafeFile!Step

\* It holds of every behaviour.
LEMMA FileInvHolds ==
  ASSUME FileBounds
  PROVE  SafeFile!Spec => [](SafeFile!TypeOK /\ FileInv)
<1>1. SafeFile!Init => FileInv
  BY DEF SafeFile!Init, FileInv, Sound, SafeFile!First, TemporaryInv, SafeFile!Rest, SafeFile!Fresh
<1>2. SafeFile!TypeOK /\ FileInv /\ [SafeFile!Next]_(SafeFile!vars) => FileInv'
  BY FileInvInductive
<1> QED BY <1>1, <1>2, FileTypeCorrect, PTL DEF SafeFile!Spec

\* write_owned's last fsync: once a writer has returned, no power loss brings
\* back an older version than the one it wrote, whatever the other writers do,
\* fail to do or are killed at.
THEOREM ReturnIsKept ==
  ASSUME FileBounds
  PROVE  SafeFile!Spec => []ReturnedIsDurable
<1>1. SafeFile!TypeOK /\ FileInv => ReturnedIsDurable
  <2> SUFFICES ASSUME SafeFile!TypeOK, FileInv PROVE ReturnedIsDurable
    OBVIOUS
  <2>1. \A i \in dir : i.version \in Nat
    BY DEF SafeFile!TypeOK, SafeFile!Inodes, FileBounds
  <2>2. promised \in Nat
    BY DEF SafeFile!TypeOK, FileBounds
  <2> QED BY <2>1, <2>2 DEF FileInv, ReturnedIsDurable, SafeFile!ReturnedIsDurable
<1> QED BY <1>1, FileInvHolds, PTL

(***************************************************************************)
(* The refinement.                                                         *)
(***************************************************************************)

\* The version CHOOSE finds in OldestOnDisk.
Oldest(S) == CHOOSE v \in {i.version : i \in S} : \A i \in S : v <= i.version

\* It is that of an inode no other is older than.
LEMMA OldestIsLeast ==
  ASSUME NEW S, \A i \in S : i.version \in Nat,
         NEW m \in S, \A i \in S : m.version <= i.version
  PROVE  Oldest(S) = m.version
<1>1. m.version \in {i.version : i \in S}
  OBVIOUS
<1>2. /\ Oldest(S) \in {i.version : i \in S}
      /\ \A i \in S : Oldest(S) <= i.version
  BY <1>1 DEF Oldest
<1>3. PICK n \in S : Oldest(S) = n.version
  BY <1>2
<1> QED BY <1>2, <1>3

\* A rename adds the newest version, a directory fsync and a power loss leave
\* one: the disk always has an oldest version.
LEMMA HasOldestInductive ==
  ASSUME FileBounds, SafeFile!TypeOK, FileInv, HasOldest, [SafeFile!Next]_(SafeFile!vars)
  PROVE  HasOldest'
<1> USE DEF HasOldest
<1>1. \A i \in SafeFile!Inodes : i.version \in Nat
  BY DEF SafeFile!Inodes, FileBounds
<1>2. ASSUME NEW w \in Writers, SafeFile!Replace(w) PROVE HasOldest'
  <2> DEFINE new == [writers[w].tmp EXCEPT !.version = named.version + 1]
  <2>1. dir' = dir \union {new}
    BY <1>2 DEF SafeFile!Replace
  <2>2. new.version = named.version + 1 /\ named.version \in Nat
    BY <1>1 DEF SafeFile!TypeOK, SafeFile!Inodes
  <2> HIDE DEF new
  <2>3. PICK m \in dir : \A i \in dir : m.version <= i.version
    OBVIOUS
  <2>4. m.version <= new.version
    BY <1>1, <2>2, <2>3 DEF FileInv, SafeFile!TypeOK
  <2> QED BY <2>1, <2>3, <2>4
<1>3. ASSUME NEW i \in SafeFile!Inodes, dir' = {i} PROVE HasOldest'
  BY <1>1, <1>3
<1>4. ASSUME NEW w \in Writers, SafeFile!DirSync(w) PROVE HasOldest'
  BY <1>3, <1>4 DEF SafeFile!DirSync, SafeFile!TypeOK
<1>5. CASE SafeFile!PowerLoss
  <2>1. PICK i \in dir : named' = i
    BY <1>5 DEF SafeFile!PowerLoss, FileInv, Sound
  <2> QED BY <1>3, <1>5, <2>1 DEF SafeFile!PowerLoss, SafeFile!TypeOK
<1>6. CASE UNCHANGED dir
  BY <1>6
<1> QED BY <1>2, <1>4, <1>5, <1>6 DEF SafeFile!Next, SafeFile!Step, SafeFile!Create,
           SafeFile!Write, SafeFile!Fsync, SafeFile!Own, SafeFile!Fails, SafeFile!Kill,
           SafeFile!vars

\* Every step of write_owned is a step of AtomicFile or leaves what it shows
\* alone: the rename replaces, the directory's fsync settles, a power loss falls
\* back, and everything else a reader does not see.
LEMMA StepRefines ==
  ASSUME FileBounds, SafeFile!TypeOK, SafeFile!TypeOK', FileInv, FileInv', HasOldest, [SafeFile!Next]_(SafeFile!vars)
  PROVE  [SafeFile!Abstract!Next]_(SafeFile!Abstract!vars)
<1> DEFINE ver == IF named.whole /\ named.given THEN named.version ELSE MaxWrites + 1
<1>1. ver = named.version /\ ver' = named'.version
  BY DEF FileInv, Sound
<1>2. SafeFile!OldestOnDisk = Oldest(dir) /\ SafeFile!OldestOnDisk' = Oldest(dir')
  BY DEF SafeFile!OldestOnDisk, Oldest
<1>3. /\ \A i \in dir : i.version \in Nat
      /\ \A i \in dir' : i.version \in Nat
      /\ named.version \in Nat
  BY DEF SafeFile!TypeOK, SafeFile!Inodes, FileBounds
<1>4. ASSUME NEW w \in Writers, SafeFile!Replace(w) PROVE SafeFile!Abstract!Replace
  <2> DEFINE new == [writers[w].tmp EXCEPT !.version = named.version + 1]
  <2>1. named' = new /\ dir' = dir \union {new}
    BY <1>4 DEF SafeFile!Replace
  <2>2. new.version = named.version + 1
    BY DEF SafeFile!TypeOK, SafeFile!Inodes
  <2> HIDE DEF new
  <2>3. PICK m \in dir : \A i \in dir : m.version <= i.version
    BY DEF HasOldest
  <2>4. \A i \in dir' : m.version <= i.version
    <3>1. m.version \in Nat /\ m.version <= named.version
      BY <1>3 DEF FileInv
    <3> QED BY <1>3, <2>1, <2>2, <2>3, <3>1
  <2>5. Oldest(dir) = m.version
    BY <1>3, <2>3, OldestIsLeast
  <2>6. Oldest(dir') = m.version
    BY <1>3, <2>1, <2>4, OldestIsLeast
  <2>7. ver' = ver + 1
    BY <1>1, <2>1, <2>2
  <2> HIDE DEF ver
  <2> QED BY <1>2, <2>5, <2>6, <2>7 DEF SafeFile!Abstract!Replace, ver
<1>5. ASSUME dir' = {named'} PROVE SafeFile!OldestOnDisk' = ver'
  <2>1. Oldest(dir') = named'.version
    BY <1>3, <1>5, OldestIsLeast
  <2> QED BY <1>1, <1>2, <2>1
<1>6. ASSUME NEW w \in Writers, SafeFile!DirSync(w) PROVE SafeFile!Abstract!Settle
  <2>1. dir' = {named'} /\ named' = named
    BY <1>6 DEF SafeFile!DirSync
  <2>2. SafeFile!OldestOnDisk' = ver' /\ ver' = ver
    BY <1>1, <1>5, <2>1
  <2> QED BY <2>2 DEF SafeFile!Abstract!Settle
<1>7. ASSUME SafeFile!PowerLoss PROVE SafeFile!Abstract!PowerLoss
  <2>1. PICK i \in dir : named' = i
    BY <1>7 DEF SafeFile!PowerLoss, FileInv, Sound
  <2>2. SafeFile!OldestOnDisk' = ver'
    BY <1>5, <1>7 DEF SafeFile!PowerLoss
  <2>3. PICK m \in dir : \A j \in dir : m.version <= j.version
    BY DEF HasOldest
  <2>4. SafeFile!OldestOnDisk = m.version
    BY <1>2, <1>3, <2>3, OldestIsLeast
  <2>5. ver' \in SafeFile!OldestOnDisk .. ver
    BY <1>1, <1>3, <2>1, <2>3, <2>4 DEF FileInv
  <2> QED BY <2>2, <2>5 DEF SafeFile!Abstract!PowerLoss
<1>8. ASSUME UNCHANGED <<named, dir>> PROVE UNCHANGED (SafeFile!Abstract!vars)
  BY <1>8 DEF SafeFile!Abstract!vars, SafeFile!OldestOnDisk
<1>9. [SafeFile!Next]_(SafeFile!vars) => \/ SafeFile!PowerLoss \/ UNCHANGED <<named, dir>>
                     \/ \E w \in Writers : SafeFile!Replace(w) \/ SafeFile!DirSync(w)
  BY DEF SafeFile!Next, SafeFile!Step, SafeFile!Create, SafeFile!Write, SafeFile!Fsync,
     SafeFile!Own, SafeFile!Fails, SafeFile!Kill, SafeFile!vars
<1>10. SafeFile!Abstract!Replace \/ SafeFile!Abstract!Settle \/ SafeFile!Abstract!PowerLoss \/ UNCHANGED (SafeFile!Abstract!vars)
  BY <1>4, <1>6, <1>7, <1>8, <1>9
<1> QED BY <1>10 DEF SafeFile!Abstract!Next

\* "Write `data` to `path` atomically": under errors, kills and power losses,
\* and for any number of writers at once, write_owned implements AtomicFile.
THEOREM WritesAtomically ==
  ASSUME FileBounds
  PROVE  SafeFile!Spec => ReplacesAtomically
<1>1. SafeFile!Init => SafeFile!Abstract!Init
  <2> SUFFICES ASSUME SafeFile!Init PROVE SafeFile!Abstract!Init
    OBVIOUS
  <2>1. Oldest({SafeFile!First}) = 0
    <3>1. SafeFile!First.version = 0
      BY DEF SafeFile!First
    <3> QED BY <3>1, OldestIsLeast
  <2>2. SafeFile!OldestOnDisk = 0
    BY <2>1 DEF SafeFile!Init, SafeFile!OldestOnDisk, Oldest
  <2>3. named.whole /\ named.given /\ named.version = 0
    BY DEF SafeFile!Init, SafeFile!First
  <2> QED BY <2>2, <2>3 DEF SafeFile!Abstract!Init
<1>2. SafeFile!Init => HasOldest
  BY DEF SafeFile!Init, HasOldest, SafeFile!First
<1>3. SafeFile!TypeOK /\ FileInv /\ HasOldest /\ [SafeFile!Next]_(SafeFile!vars) => HasOldest'
  BY HasOldestInductive
<1>4. SafeFile!TypeOK /\ SafeFile!TypeOK' /\ FileInv /\ FileInv' /\ HasOldest /\ [SafeFile!Next]_(SafeFile!vars) => [SafeFile!Abstract!Next]_(SafeFile!Abstract!vars)
  BY StepRefines
<1> QED BY <1>1, <1>2, <1>3, <1>4, FileInvHolds, PTL DEF SafeFile!Spec, ReplacesAtomically,
           SafeFile!ReplacesAtomically, SafeFile!Abstract!Spec
=============================================================================
