------------------------------- MODULE MCBoot -------------------------------
(* A machine with three virtio-net devices, an rtl8139, an e1000 and two   *)
(* entropy devices, and the command lines it is booted with.               *)
EXTENDS Boot

CONSTANTS rtl0, vnet0, vnet1, vnet2, e1000_0, rng0, rng1

MCDrivers  == {"rtl8139", "virtio-net", "e1000", "virtio-rng"}
MCDevices  == {rtl0, vnet0, vnet1, vnet2, e1000_0, rng0, rng1}
MCDeviceList == <<vnet0, rng0, e1000_0, vnet1, rtl0, rng1, vnet2>>
MCcompatible ==
  [d \in MCDevices |-> CASE d \in {vnet0, vnet1, vnet2} -> "virtio,net"
                         [] d \in {rng0, rng1} -> "virtio,rng"
                         [] OTHER -> NULL]
MCpci_id == [d \in MCDevices |-> CASE d = rtl0 -> "10ec:8139"
                                   [] d = e1000_0 -> "8086:100e"
                                   [] OTHER -> NULL]
MCid_table ==
  [drv \in MCDrivers |->
     CASE drv = "virtio-net" -> {[compatible |-> "virtio,net", pci_id |-> NULL]}
       [] drv = "virtio-rng" -> {[compatible |-> "virtio,rng", pci_id |-> NULL]}
       [] drv = "e1000"   -> {[compatible |-> NULL, pci_id |-> "8086:100e"]}
       [] drv = "rtl8139" -> {[compatible |-> NULL, pci_id |-> "10ec:8139"]}]
MCQuiescing == {"virtio-net", "virtio-rng"}
MCContexts == NetdevContexts \cup MacContexts \cup RandomContexts

App(a)     == [key |-> "app", tag |-> NULL, value |-> a]
Level(l)   == [key |-> "log", tag |-> NULL, value |-> l]
Tag(t, l)  == [key |-> "log.", tag |-> t, value |-> l]

Apps == {"random-hardware", "mac-virtio-net", "mac-all", "arp-broadcast",
         "packet-print"}
(* Pairs of applications; repetitions that use the static contexts up; the *)
(* applications that end a boot; logging parameters in every order.        *)
MCCmdLines ==
  {NULL, <<>>}
  \cup {<<App(a), App(b)>> : a \in Apps, b \in Apps}
  \cup {<<App("mac-e1000"), App("mac-rtl8139"), App("mac-all"), App(a)>> :
          a \in {"http-hello", "illegal-instruction", "unknown"}}
  \cup {<<App("mac-virtio-net"), App("mac-virtio-net"),
          App("mac-virtio-net"), App("http-hello")>>,
        <<App("random-hardware"), App("random-hardware"),
          App("random-software"), App("random-hardware")>>,
        <<App("packet-print"), App("packet-print"), App("packet-print")>>}
  \cup {<<a, b, c, App("packet-print")>> :
          a \in {Level("warn"), Level("loud"), Tag("init", "debug")},
          b \in {Level("error"), Tag("virtio-net", "debug"),
                 Tag("init", "error")},
          c \in {Level("debug"), Tag("virtio-net", "warn"),
                 Tag("pci", "loud")}}
=============================================================================
