\* Two cards, one operator, every automatic path, killed commands.
SPECIFICATION FairSpec
CONSTANTS
  c1 = c1
  c2 = c2
  Cards = {c1, c2}
  Designated = c1
  OneOperator = TRUE
  Automatic = {"tick", "watchdog", "request"}
  FaultKinds = {"kill", "vanish", "uhubctl", "locktimeout", "stop"}
  MaxFaults = 1
INVARIANT DarkIsHeld
PROPERTY PutIsRestored
