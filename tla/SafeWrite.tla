------------------------------ MODULE SafeWrite ------------------------------
(***************************************************************************)
(* safe_write.py, write_owned: a file is replaced by way of a temporary    *)
(* in the same directory: create (O_EXCL), write, fsync, fchown and        *)
(* fchmod, rename, fsync of the directory.  Writers of one file run at the *)
(* same time; any call may fail, any writer may be killed, and the power   *)
(* may go.                                                                 *)
(*                                                                         *)
(* External: the file system.  An inode whose data was not synced may be   *)
(* torn after a power loss; the directory may then name any inode it named *)
(* since its last fsync.                                                   *)
(***************************************************************************)
EXTENDS Naturals

CONSTANTS
  Writers,     \* processes that call write_owned on one path
  FaultKinds,  \* "error": a call fails; "kill"; "power"
  MaxWrites,   \* bound on renames
  MaxFaults    \* bound on faults

VARIABLES
  named,     \* the inode the path names
  disk,      \* the inodes the on-disk directory may name
  proc,      \* each writer: its pc and its temporary's inode
  litter,    \* a temporary outlived its writer
  promised,  \* ghost: the newest version a writer returned for
  faults

vars == <<named, disk, proc, litter, promised, faults>>

Inodes == [version: 0 .. MaxWrites, whole: BOOLEAN, synced: BOOLEAN, given: BOOLEAN]
Fresh == [version |-> 0, whole |-> FALSE, synced |-> FALSE, given |-> FALSE]
First == [version |-> 0, whole |-> TRUE, synced |-> TRUE, given |-> TRUE]
Rest == [pc |-> "idle", tmp |-> Fresh]

TypeOK ==
  /\ named \in Inodes /\ disk \in (SUBSET Inodes) \ {{}}
  /\ proc \in [Writers -> [pc: {"idle", "write", "fsync", "own", "replace", "dirsync"}, tmp: Inodes]]
  /\ litter \in BOOLEAN /\ promised \in 0 .. MaxWrites /\ faults \in 0 .. MaxFaults

Init ==
  /\ named = First /\ disk = {First} /\ proc = [w \in Writers |-> Rest]
  /\ litter = FALSE /\ promised = 0 /\ faults = 0

Fault(kind) == kind \in FaultKinds /\ faults < MaxFaults /\ faults' = faults + 1
At(w, pc) == proc[w].pc = pc
Goes(w, pc, tmp) == proc' = [proc EXCEPT ![w] = [pc |-> pc, tmp |-> tmp]]

\* The temporary's name is unique; its inode is root's and 0600.
Create(w) ==
  /\ At(w, "idle") /\ Goes(w, "write", Fresh)
  /\ UNCHANGED <<named, disk, litter, promised, faults>>

\* os.write until nothing is left.
Write(w) ==
  /\ At(w, "write") /\ Goes(w, "fsync", [proc[w].tmp EXCEPT !.whole = TRUE])
  /\ UNCHANGED <<named, disk, litter, promised, faults>>

\* Mutant: the data is not synced before the rename.
FsyncSkipped(w) ==
  /\ At(w, "fsync") /\ Goes(w, "own", proc[w].tmp)
  /\ UNCHANGED <<named, disk, litter, promised, faults>>

Fsync(w) ==
  /\ At(w, "fsync") /\ Goes(w, "own", [proc[w].tmp EXCEPT !.synced = TRUE])
  /\ UNCHANGED <<named, disk, litter, promised, faults>>

\* fchown, then fchmod.
Own(w) ==
  /\ At(w, "own") /\ Goes(w, "replace", [proc[w].tmp EXCEPT !.given = TRUE])
  /\ UNCHANGED <<named, disk, litter, promised, faults>>

Replace(w) ==
  LET new == [proc[w].tmp EXCEPT !.version = named.version + 1]
  IN /\ At(w, "replace") /\ named.version < MaxWrites
     /\ named' = new /\ disk' = disk \union {new}
     /\ Goes(w, "dirsync", new)
     /\ UNCHANGED <<litter, promised, faults>>

\* Mutant: the rename is taken to be on disk.
DirSyncSkipped(w) ==
  /\ At(w, "dirsync") /\ Goes(w, "idle", Fresh)
  /\ promised' = proc[w].tmp.version
  /\ UNCHANGED <<named, disk, litter, faults>>

\* The directory is synced as it stands, other writers' renames included.
DirSync(w) ==
  /\ At(w, "dirsync") /\ Goes(w, "idle", Fresh)
  /\ disk' = {named}
  /\ promised' = IF proc[w].tmp.version > promised THEN proc[w].tmp.version ELSE promised
  /\ UNCHANGED <<named, litter, faults>>

\* A call fails: the temporary is unlinked and the error raised.  After the
\* rename there is none, and the file stays replaced.
Fails(w) ==
  /\ Fault("error") /\ ~At(w, "idle") /\ Goes(w, "idle", Fresh)
  /\ UNCHANGED <<named, disk, litter, promised>>

Kill(w) ==
  /\ Fault("kill") /\ ~At(w, "idle") /\ Goes(w, "idle", Fresh)
  /\ litter' = (litter \/ ~At(w, "dirsync"))
  /\ UNCHANGED <<named, disk, promised>>

\* External.
PowerLoss ==
  /\ Fault("power")
  /\ \E i \in disk : named' = i \/ (~i.synced /\ named' = [i EXCEPT !.whole = FALSE])
  /\ disk' = {named'} /\ proc' = [w \in Writers |-> Rest]
  /\ litter' \in {litter, litter \/ \E w \in Writers : ~At(w, "idle")}
  /\ UNCHANGED promised

Step(w) == Create(w) \/ Write(w) \/ Fsync(w) \/ Own(w) \/ Replace(w) \/ DirSync(w) \/ Fails(w) \/ Kill(w)

Next == PowerLoss \/ \E w \in Writers : Step(w)

Spec == Init /\ [][Next]_vars

(***************************************************************************)
(* Properties                                                              *)
(***************************************************************************)

OldestOnDisk == CHOOSE v \in {i.version : i \in disk} : \A i \in disk : v <= i.version

\* A torn file, or one its service cannot read, is no version at all.
Abstract == INSTANCE AtomicFile WITH
  version <- IF named.whole /\ named.given THEN named.version ELSE MaxWrites + 1,
  durable <- OldestOnDisk

\* "Write `data` to `path` atomically": whatever fails, is killed or loses
\* power, the path names whole versions that belong to their service, one after
\* the other, and a power loss brings back none older than the last directory
\* fsync.
ReplacesAtomically == Abstract!Spec

\* The fsync of the directory that ends write_owned: once a writer has returned,
\* no power loss brings back an older version than its own.
ReturnedIsDurable == named.version >= promised /\ \A i \in disk : i.version >= promised
=============================================================================
