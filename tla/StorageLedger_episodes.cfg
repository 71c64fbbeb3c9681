\* Killed and missed passes, failed stops: what a record may be held against.
SPECIFICATION Spec
CONSTANTS
  c1 = c1
  s1 = s1
  s2 = s2
  Clients = {c1}
  Registered <- OneStore
  Unmanaged = {}
  NeverStop = {}
  Answers = {"ok", "fails"}
  Deadline = 1
  FinalGrace = 1
  StaleTrim = 2
  DuCache = 1
  Fills = {50, 94, 96}
  Moves = {"fill", "answer", "start", "short", "dies", "idle"}
  FaultKinds = {"missed", "kill", "stop"}
  MaxFaults = 1
  Reprieves = {"calm", "resumed", "started", "answered"}
  Watch = 80
  Tighten = 85
  Demand = 90
  Final = 95
  Hysteresis = 2
PROPERTY EpisodeEarnsTerm
PROPERTY OutageEarnsTerm
PROPERTY StartEarnsTerm
PROPERTY AnsweredIsSpared
