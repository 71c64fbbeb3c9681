\* A client that may be stopped and one that never is; passes that fault after a
\* stop; stops that fail.
SPECIFICATION FairSpec
CONSTANTS
  c1 = c1
  c2 = c2
  s1 = s1
  s2 = s2
  Clients = {c1, c2}
  Registered <- OneStore
  Unmanaged = {}
  NeverStop = {c2}
  Answers = {"ok", "fails"}
  Deadline = 1
  FinalGrace = 1
  StaleTrim = 1
  DuCache = 1
  Fills = {50, 96}
  Moves = {"start", "answer", "lever", "hands"}
  FaultKinds = {"fault", "stop"}
  MaxFaults = 1
  Reprieves = {}
  Watch = 80
  Tighten = 85
  Demand = 90
  Final = 95
  Hysteresis = 2
INVARIANT StopStaysRecorded
PROPERTY HungIsStopped
