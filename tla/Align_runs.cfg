\* A release with a library, radiod and a client; two failures, one change by hand.
SPECIFICATION Spec
CONSTANTS
  Plan <- MCPlan
  Services <- MCServices
  Uses <- MCUses
  Consumers = {"client"}
  Stamped = {"client"}
  LastCommit = 2
  Releases = {1}
  HasAlign = {1}
  FaultKinds = {"pin", "build", "refuse", "fetch", "rollback", "bringup", "staleness", "restart", "ready", "unstable", "torn", "kill", "crash", "start"}
  MaxFaults = 2
  MaxHands = 1
PROPERTY ReleaseRuns
PROPERTY ConsumersFollow
PROPERTY DownIsLoud
