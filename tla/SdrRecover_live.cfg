\* Timer and gate at once: lost cards, killed runs, reboots, other devices.
SPECIFICATION FairSpec
CONSTANTS
  Grace = 1
  CycleCooldown = 1
  WedgeCooldown = 2
  WedgeWindow = 1
  BootGrace = 1
  DeviceWait = 0
  GateWait = 0
  Runs = {"timer", "gate"}
  Reaches = {"ss"}
  Peered = FALSE
  Ppps = TRUE
  OtherPorts = TRUE
  DataOnly = FALSE
  Explicit = FALSE
  MaxDev = 1
  FaultKinds = {"vanish", "kill", "reboot", "uhubctl", "kernel", "foreign", "gate"}
  MaxFaults = 1
INVARIANT TypeOK
PROPERTY DarkPortRelit
PROPERTY LossIsAnswered
