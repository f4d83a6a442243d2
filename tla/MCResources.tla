---------------------------- MODULE MCResources ----------------------------
(* Small machines for TLC: three virtio-net devices (matched by            *)
(* compatible string) around an e1000 (matched by PCI id) in the list.     *)
EXTENDS Resources

CONSTANTS vnet0, vnet1, vnet2, e1000_0, virtio_net, e1000,
          ctx0, ctx1, ctx2, ctx3

MCDevices  == {vnet0, vnet1, vnet2, e1000_0}
MCDrivers  == {virtio_net, e1000}
MCContexts == {ctx0, ctx1, ctx2, ctx3}
MCDeviceList == <<vnet0, e1000_0, vnet1, vnet2>>
MCcompatible == [d \in MCDevices |-> IF d = e1000_0 THEN NULL ELSE "virtio,net"]
MCpci_id == [d \in MCDevices |-> IF d = e1000_0 THEN "8086:100e" ELSE NULL]
MCid_table ==
  [drv \in MCDrivers |->
     IF drv = e1000 THEN {[compatible |-> NULL, pci_id |-> "8086:100e"]}
     ELSE {[compatible |-> "virtio,net", pci_id |-> NULL],
           [compatible |-> NULL, pci_id |-> "1af4:1000"]}]
MCQuiescing == {virtio_net}
=============================================================================
