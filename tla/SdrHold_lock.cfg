\* Two operators and the timer share the lifecycle lock.
SPECIFICATION Spec
CONSTANTS
  c1 = c1
  c2 = c2
  Cards = {c1, c2}
  Designated = c1
  OneOperator = FALSE
  Automatic = {"tick"}
  FaultKinds = {"kill", "vanish", "write", "torn"}
  MaxFaults = 1
PROPERTY RadiodStopsFirst
