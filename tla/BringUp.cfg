SPECIFICATION BringUpSpec
CONSTANTS
  Capacity = 3
  MaxNodes = 4
  MaxDepth = 3
  MaxPci = 1
  Archs = {"riscv", "arm64", "amd64"}
  Profiles <- MCProfiles
  WindowBase = 16
  WindowSize = 16
  MaxSlots = 4
  Width = 6
  Devs = {d1, d2}
  NoDev = NoDev
  QueueSize = 2
  MaxQueueSize = 4
  DeviceSizes <- MCSizes
INVARIANTS
  SoundReports LeavesReported BoundedReports BootargsOfChosen
  NoOverlap ReportsDecoded
  LiveIffInitialized QueuesReady
CHECK_DEADLOCK FALSE
