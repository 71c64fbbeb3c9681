------------------------------- MODULE Parts -------------------------------
(***************************************************************************)
(* The smaller parts that TLC checks together (MCParts) and that the       *)
(* theorems are about, side by side in one vocabulary.  They share nothing *)
(* but the count of faults, so each has its own variables and its own      *)
(* bounds.                                                                 *)
(***************************************************************************)
EXTENDS StorageStages

CONSTANTS
  Links, Targets, Procs, LinkFaults, MaxLinkFaults,
  Writers, MaxWrites, FileFaults, MaxFileFaults,
  Fills, Remind, MaxMoves, AlarmFaults, MaxAlarmFaults,
  Units, Requests, Warmup, Grace, Silence, Cooldown, FreshFor, PassLength,
  WatchdogFaults, MaxWatchdogFaults,
  Clients, Sizes, MaxCommands, WisdomFaults, MaxWisdomFaults

VARIABLES
  faults,
  unit, link, record, runs, level, proc, owed,
  named, dir, writers, litter, promised,
  fill, disk, pass, said, astray, seen, moves,
  radiods, held, request, stamp, last, check, spaced, unmarked, honoured,
  up, booting, marker, planner, cmd, file, side, misses, suspended, failed, commands

Uploader == INSTANCE UploaderLinks WITH
  FaultKinds <- LinkFaults, MaxFaults <- MaxLinkFaults

SafeFile == INSTANCE SafeWrite WITH
  disk <- dir, proc <- writers, FaultKinds <- FileFaults, MaxFaults <- MaxFileFaults

Alarms == INSTANCE StorageAlarms WITH
  FaultKinds <- AlarmFaults, MaxFaults <- MaxAlarmFaults

Watchdog == INSTANCE RadiodWatchdog WITH
  unit <- radiods, pass <- check,
  FaultKinds <- WatchdogFaults, MaxFaults <- MaxWatchdogFaults

Wisdom == INSTANCE WisdomPlan WITH
  unit <- planner, owed <- suspended, moves <- commands,
  MaxMoves <- MaxCommands, FaultKinds <- WisdomFaults, MaxFaults <- MaxWisdomFaults

\* The uploader's links (UploaderLinks): what a lever removed stands in the record.
OwedIsRecorded == Uploader!OwedIsRecorded

\* The uploader's links: the raise creates only links a lever removed.
OperatorWins == Uploader!OperatorWins

\* safe_write (SafeWrite): it implements AtomicFile.
ReplacesAtomically == SafeFile!ReplacesAtomically

\* safe_write: no power loss takes back a version whose writer has returned.
ReturnedIsDurable == SafeFile!ReturnedIsDurable

\* The alarm book (StorageAlarms): its episodes are the journal's, but for the
\* keys of which a line or its state was lost.
BookIsJournal == Alarms!BookIsJournal

\* The alarm book's stages: a stage left is entered again only after the fill was
\* Hysteresis below its level.
HoverHolds == Alarms!HoverHolds

\* The radiod watchdog (RadiodWatchdog): a request restarts radiod at most once.
HonouredOnce == Watchdog!HonouredOnce

\* The radiod watchdog: its detectors keep the warm-up of every restart of its
\* and, short of a pass's length, the cooldown of every one it marked.
DetectorsAreSpaced == Watchdog!DetectorsAreSpaced

\* The wisdom planner (WisdomPlan): it never plans beside a running radiod.
PlansAlone == Wisdom!PlansAlone

\* The wisdom planner: wisdom judged current was made here and lacks no size.
CurrentIsCurrent == Wisdom!CurrentIsCurrent
=============================================================================
