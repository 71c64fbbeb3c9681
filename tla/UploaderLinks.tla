---------------------------- MODULE UploaderLinks ----------------------------
(***************************************************************************)
(* The lever on a linked wspr-uploader (sink_levers.py): `systemctl        *)
(* disable` would delete the unit's own link, so below upload the lever    *)
(* writes a record of the enablement links, removes them and stops the     *)
(* unit; the raise to upload puts them back from the record.               *)
(*                                                                         *)
(* The manifest step ("step") runs the raise or the lever; the site order  *)
(* ("order") runs the lever alone, and takes no lock.  The operator        *)
(* enables and disables the unit at any time; `owed` is what the lever has *)
(* taken away and the operator has not had back.                           *)
(***************************************************************************)
EXTENDS Naturals

CONSTANTS
  Links,       \* the .wants and .requires links of the unit's [Install]
  Targets,     \* where the unit file may be linked from
  Procs,       \* who runs levers: "step", and "order" where the two may race
  FaultKinds,  \* what may go wrong
  MaxFaults    \* bound on faults and on the operator's moves

VARIABLES
  unit,    \* the unit link's target, "none" without one
  link,    \* each enablement link's target, or "none"
  record,  \* UPLOADER_LINKS_RECORD: the target recorded for a link
  runs,    \* the unit runs
  level,   \* the wspr-recorder's effective sink: "upload" or "off"
  proc,    \* each process: pc, the links to go, the lines it read
  owed,    \* ghost: the target a lever removed and nobody set since
  faults

vars == <<unit, link, record, runs, level, proc, owed, faults>>

None == [l \in Links |-> "none"]
Lines == [Links -> Targets \union {"none"}]
Rest == [pc |-> "idle", todo |-> {}, lines |-> None, kept |-> None, unit |-> "none"]

TypeOK ==
  /\ unit \in Targets \union {"none"} /\ runs \in BOOLEAN /\ level \in {"upload", "off"}
  /\ link \in Lines /\ record \in Lines /\ owed \in Lines
  /\ proc \in [Procs -> [pc: {"idle", "write", "unlink", "stop", "restore", "rewrite"},
                         todo: SUBSET Links, lines: Lines, kept: Lines, unit: Targets \union {"none"}]]
  /\ faults \in 0 .. MaxFaults

Init ==
  /\ unit \in Targets /\ link = [l \in Links |-> unit]
  /\ record = None /\ owed = None /\ runs = TRUE
  /\ level = "upload" /\ proc = [p \in Procs |-> Rest] /\ faults = 0

Fault(kind) == kind \in FaultKinds /\ faults < MaxFaults /\ faults' = faults + 1
Present(lines) == {l \in Links : lines[l] # "none"}
At(p, pc) == proc[p].pc = pc
Goes(p, r) == proc' = [proc EXCEPT ![p] = r]

(***************************************************************************)
(* The lever                                                               *)
(***************************************************************************)

Unions(lines) == [l \in Links |-> IF lines[l] = "none" THEN link[l] ELSE lines[l]]

\* _uploader_lever: enabled and linked is "unwant", running alone is "stop".
\* The links and the record are read; a line already there is kept as it is.
LeverBegin(p) ==
  /\ At(p, "idle") /\ level = "off"
  /\ \/ /\ unit # "none" /\ Present(link) # {}
        /\ Goes(p, [Rest EXCEPT !.pc = "write", !.todo = Present(link), !.lines = Unions(record)])
     \/ unit # "none" /\ Present(link) = {} /\ runs /\ Goes(p, [Rest EXCEPT !.pc = "stop"])
  /\ UNCHANGED <<unit, link, record, runs, level, owed, faults>>

\* Mutant: the links go first and the record follows.
LeverRecordLast(p) ==
  /\ \/ /\ At(p, "write")
        /\ Goes(p, [proc[p] EXCEPT !.pc = "unlink"]) /\ UNCHANGED <<record, faults>>
     \/ /\ At(p, "stop") /\ record # proc[p].lines /\ Present(proc[p].lines) # {}
        /\ record' = proc[p].lines /\ UNCHANGED <<proc, faults>>
  /\ UNCHANGED <<unit, link, runs, level, owed>>

\* The record, whole; one that cannot be written removes nothing.
LeverRecord(p) ==
  /\ At(p, "write")
  /\ \/ record' = proc[p].lines /\ Goes(p, [proc[p] EXCEPT !.pc = "unlink"]) /\ UNCHANGED faults
     \/ Fault("write") /\ Goes(p, [proc[p] EXCEPT !.pc = "stop"]) /\ UNCHANGED record
  /\ UNCHANGED <<unit, link, runs, level, owed>>

LeverUnlink(p) ==
  /\ At(p, "unlink")
  /\ \/ \E l \in proc[p].todo :
          /\ Goes(p, [proc[p] EXCEPT !.todo = @ \ {l}])
          /\ \/ /\ link' = [link EXCEPT ![l] = "none"] /\ UNCHANGED faults
                /\ owed' = [owed EXCEPT ![l] = IF link[l] = "none" THEN @ ELSE link[l]]
             \/ Fault("unlink") /\ UNCHANGED <<link, owed>>
     \/ /\ proc[p].todo = {} /\ Goes(p, [proc[p] EXCEPT !.pc = "stop"])
        /\ UNCHANGED <<link, owed, faults>>
  /\ UNCHANGED <<unit, record, runs, level>>

LeverStop(p) ==
  /\ At(p, "stop") /\ Goes(p, Rest)
  /\ \/ runs' = FALSE /\ UNCHANGED faults
     \/ Fault("stop") /\ UNCHANGED runs
  /\ UNCHANGED <<unit, link, record, level, owed>>

(***************************************************************************)
(* The raise                                                               *)
(***************************************************************************)

RestoreBegin(p) ==
  /\ p = "step" /\ At(p, "idle") /\ level = "upload" /\ Present(record) # {}
  /\ Goes(p, [Rest EXCEPT !.pc = "restore", !.todo = Present(record), !.lines = record, !.unit = unit])
  /\ UNCHANGED <<unit, link, record, runs, level, owed, faults>>

\* Mutant: the unit link is not asked.
StillNamesAnything(p, l) == TRUE

\* A unit link gone, or linked from elsewhere, gets nothing back.
StillNames(p, l) == proc[p].unit = proc[p].lines[l]

\* One line: already enabled again, put back, or kept in the record.
RestoreLink(p) ==
  /\ At(p, "restore")
  /\ \E l \in proc[p].todo :
       LET done == [proc[p] EXCEPT !.todo = @ \ {l}]
           kept == [done EXCEPT !.kept[l] = proc[p].lines[l]]
       IN \/ ~StillNames(p, l) /\ Goes(p, kept) /\ UNCHANGED <<link, owed, faults>>
          \/ /\ StillNames(p, l) /\ link[l] = proc[p].lines[l]
             /\ Goes(p, done) /\ UNCHANGED <<link, owed, faults>>
          \/ /\ StillNames(p, l) /\ link[l] = "none" /\ Goes(p, done) /\ UNCHANGED faults
             /\ link' = [link EXCEPT ![l] = proc[p].lines[l]] /\ owed' = [owed EXCEPT ![l] = "none"]
          \/ /\ StillNames(p, l) /\ link[l] \notin {"none", proc[p].lines[l]}
             /\ Goes(p, kept) /\ UNCHANGED <<link, owed, faults>>
          \/ /\ StillNames(p, l) /\ link[l] = "none" /\ Fault("symlink")
             /\ Goes(p, kept) /\ UNCHANGED <<link, owed>>
  /\ UNCHANGED <<unit, record, runs, level>>

RestoreDone(p) ==
  /\ At(p, "restore") /\ proc[p].todo = {}
  /\ Goes(p, [proc[p] EXCEPT !.pc = "rewrite"])
  /\ UNCHANGED <<unit, link, record, runs, level, owed, faults>>

\* Mutant: the record goes whatever was kept.
RestoreRecordGone(p) ==
  /\ At(p, "rewrite") /\ Goes(p, Rest) /\ record' = None
  /\ UNCHANGED <<unit, link, runs, level, owed, faults>>

\* The record holds what was kept, and goes once nothing is; a failing write
\* leaves it as it was.
RestoreRecord(p) ==
  /\ At(p, "rewrite") /\ Goes(p, Rest)
  /\ \/ record' = proc[p].kept /\ UNCHANGED faults
     \/ Fault("write") /\ UNCHANGED record
  /\ UNCHANGED <<unit, link, runs, level, owed>>

(***************************************************************************)
(* The operator, the order's level, kills                                  *)
(***************************************************************************)

Quiet == "race" \in FaultKinds \/ \A p \in Procs : At(p, "idle")

\* systemctl enable of a unit file: the unit link and every [Install] link.
\* Enabling from elsewhere while a record stands is under the kind "stale".
Enable(t) ==
  /\ Fault("enable") /\ Quiet
  /\ "stale" \in FaultKinds \/ Present(record) \subseteq {l \in Links : record[l] = t}
  /\ unit' = t /\ link' = [l \in Links |-> t] /\ owed' = None
  /\ UNCHANGED <<record, runs, level, proc>>

\* systemctl disable of a linked unit: its own link goes too.
Disable ==
  /\ Fault("disable") /\ Quiet
  /\ unit' = "none" /\ link' = None /\ owed' = None
  /\ UNCHANGED <<record, runs, level, proc>>

\* systemctl link alone; while a record stands, under the kind "link".
LinkAlone(t) ==
  /\ Fault("enable") /\ Quiet /\ unit = "none"
  /\ "link" \in FaultKinds \/ Present(record) = {}
  /\ unit' = t /\ UNCHANGED <<link, record, runs, level, proc, owed>>

\* The remedy the raise names: sudo rm of the record.
Remedy ==
  /\ Quiet /\ \E l \in Present(record) : record[l] # unit
  /\ record' = None /\ owed' = None
  /\ UNCHANGED <<unit, link, runs, level, proc, faults>>

SetLevel ==
  /\ Fault("level") /\ level' = (IF level = "off" THEN "upload" ELSE "off")
  /\ UNCHANGED <<unit, link, record, runs, proc, owed>>

Kill(p) ==
  /\ Fault("kill") /\ ~At(p, "idle") /\ Goes(p, Rest)
  /\ UNCHANGED <<unit, link, record, runs, level, owed>>

Works(p) ==
  \/ LeverBegin(p) \/ LeverRecord(p) \/ LeverUnlink(p) \/ LeverStop(p)
  \/ RestoreBegin(p) \/ RestoreLink(p) \/ RestoreDone(p) \/ RestoreRecord(p)

Next ==
  \/ \E p \in Procs : Works(p) \/ Kill(p)
  \/ \E t \in Targets : Enable(t) \/ LinkAlone(t)
  \/ Disable \/ Remedy \/ SetLevel

Spec == Init /\ [][Next]_vars

\* The manifest step is run again and again.
Fairness == \A p \in Procs : WF_vars(Works(p))

(***************************************************************************)
(* Properties                                                              *)
(***************************************************************************)

\* "A record that cannot be written removes nothing, since the raise could
\* never put the links back": every link a lever took away stands in the record
\* with the target it had, through kills and failing writes.
OwedIsRecorded == \A l \in Links : owed[l] # "none" => record[l] = owed[l] \/ link[l] = owed[l]

\* "What the operator did since the fill wins": the raise creates only links a
\* lever removed, none an operator has removed since.
OperatorWins ==
  [][\A p \in Procs, l \in Links :
       At(p, "restore") /\ link[l] = "none" /\ link'[l] # "none" => owed[l] = link'[l]]_vars

\* At upload for good, every link that is owed comes back.
LinksComeBack == <>[](level = "upload") => []<>(owed = None)
=============================================================================
