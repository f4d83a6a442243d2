SPECIFICATION BootFairSpec
CONSTANTS
  NULL = NULL
  rtl0 = rtl0
  vnet0 = vnet0
  vnet1 = vnet1
  vnet2 = vnet2
  e1000_0 = e1000_0
  rng0 = rng0
  rng1 = rng1
  Devices <- MCDevices
  Drivers <- MCDrivers
  Contexts <- MCContexts
  DeviceList <- MCDeviceList
  compatible <- MCcompatible
  pci_id <- MCpci_id
  id_table <- MCid_table
  Quiescing <- MCQuiescing
  PoolSize = 4
  CmdLines <- MCCmdLines
  MAX_LOG_TAGS = 6
  MAX_OVERRIDES = 2
  MAX_NETDEV_CONTEXTS_PER_DRIVER = 2
  MAX_NET_DEVICES = 2
  MAX_HARDWARE_RNG_DEVICES = 2
  MAX_DEVICES = 5
INVARIANTS TagLevels EntriesLive AcquiresAll
PROPERTIES HonoursManager Halts
CHECK_DEADLOCK FALSE
