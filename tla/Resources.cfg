SPECIFICATION FairSpec
CONSTANTS
  NULL = NULL
  vnet0 = vnet0
  vnet1 = vnet1
  vnet2 = vnet2
  e1000_0 = e1000_0
  virtio_net = virtio_net
  e1000 = e1000
  ctx0 = ctx0
  ctx1 = ctx1
  ctx2 = ctx2
  ctx3 = ctx3
  Devices <- MCDevices
  Drivers <- MCDrivers
  Contexts <- MCContexts
  DeviceList <- MCDeviceList
  compatible <- MCcompatible
  pci_id <- MCpci_id
  id_table <- MCid_table
  Quiescing <- MCQuiescing
  PoolSize = 3
INVARIANTS TypeOK ListIsPool Exclusive DmaConfined
PROPERTIES HeldStable AcquireReturns
