\* The trim answers, the final call fails.
SPECIFICATION Spec
CONSTANTS
  c1 = c1
  s1 = s1
  s2 = s2
  Clients = {c1}
  Registered <- OneStore
  Unmanaged = {}
  NeverStop = {}
  Answers = {"fails", "finalfails"}
  Deadline = 1
  FinalGrace = 2
  StaleTrim = 3
  DuCache = 1
  Fills = {96}
  Moves = {"answer"}
  FaultKinds = {}
  MaxFaults = 0
  Reprieves = {"answered"}
  Watch = 80
  Tighten = 85
  Demand = 90
  Final = 95
  Hysteresis = 2
PROPERTY AnsweredIsSpared
