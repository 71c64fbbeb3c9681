\* The boot grace clears the latch.
SPECIFICATION Spec
CONSTANTS
  Grace = 1
  CycleCooldown = 2
  WedgeCooldown = 3
  WedgeWindow = 2
  BootGrace = 2
  DeviceWait = 1
  GateWait = 0
  Runs = {"timer"}
  Reaches = {"usb2"}
  Peered = FALSE
  Ppps = TRUE
  OtherPorts = FALSE
  DataOnly = FALSE
  Explicit = FALSE
  MaxDev = 1
  FaultKinds = {"stall", "reboot"}
  MaxFaults = 3
PROPERTY LatchClearsOnlyHealthy
