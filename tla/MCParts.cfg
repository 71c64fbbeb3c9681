\* Each smaller part on its own instance; the ledger's watches the du cache.
SPECIFICATION Spec
CONSTANTS
  c1 = c1
  c2 = c2
  s1 = s1
  s2 = s2
  Watch = 80
  Tighten = 85
  Demand = 90
  Final = 95
  Hysteresis = 2
  Links = {"wants", "requires"}
  Targets = {"t1", "t2"}
  Procs = {"step"}
  LinkFaults = {"write", "unlink", "symlink", "enable", "disable", "level", "kill", "stop"}
  MaxLinkFaults = 4
  Writers = {"w1", "w2"}
  MaxWrites = 3
  FileFaults = {"error", "kill", "power"}
  MaxFileFaults = 2
  Fills = {50, 89, 94, 96}
  Remind = 2
  MaxMoves = 3
  AlarmFaults = {"pass", "journal", "write", "status", "kill"}
  MaxAlarmFaults = 2
  Units = {"u1"}
  Requests = {"r1", "r2"}
  Warmup = 1
  Grace = 0
  Silence = 1
  Cooldown = 2
  FreshFor = 1
  PassLength = 1
  WatchdogFaults = {"quit", "request", "hold", "stamp", "stop", "kill", "slow"}
  MaxWatchdogFaults = 3
  Clients = {"c1"}
  Sizes = {"z1"}
  MaxCommands = 2
  WisdomFaults = {"stop", "irq", "plan", "install", "side", "start", "refused", "kill", "boot"}
  MaxWisdomFaults = 2
PROPERTY CatchesUp
INVARIANT OwedIsRecorded
PROPERTY OperatorWins
PROPERTY LinksComeBack
PROPERTY ReplacesAtomically
INVARIANT ReturnedIsDurable
INVARIANT BookIsJournal
PROPERTY HoverHolds
PROPERTY AlarmIsSaid
INVARIANT HonouredOnce
PROPERTY StoppedIsStarted
PROPERTY DetectorsAreSpaced
INVARIANT PlansAlone
PROPERTY ServicesComeBack
INVARIANT CurrentIsCurrent
PROPERTY StopIsRecent
CHECK_DEADLOCK FALSE
