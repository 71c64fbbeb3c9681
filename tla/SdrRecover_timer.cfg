\* The timer alone, on links of every kind: wedged streams, lost cards, reboots.
SPECIFICATION FairSpec
CONSTANTS
  Grace = 1
  CycleCooldown = 2
  WedgeCooldown = 3
  WedgeWindow = 1
  BootGrace = 1
  DeviceWait = 1
  GateWait = 0
  Runs = {"timer"}
  Reaches = {"ss", "usb2"}
  Peered = TRUE
  Ppps = FALSE
  OtherPorts = FALSE
  DataOnly = FALSE
  Explicit = FALSE
  MaxDev = 1
  FaultKinds = {"stall","vanish","restart","kill","reboot","replug","kernel"}
  MaxFaults = 1
PROPERTY WedgeResetIsFresh
INVARIANT OneAlarmPerEpisode
PROPERTY ResetSpacing
PROPERTY LatchStopsResets
PROPERTY DarkPortRelit
