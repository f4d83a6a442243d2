----------------------------- MODULE MCBringUp -----------------------------
(***************************************************************************)
(* What happens to a device before an application has it, for TLC: the PCI *)
(* assignment, the device tree walk and the virtio handshake.  In a boot   *)
(* they follow one another and share no state that a property relates, so  *)
(* the run takes each by itself, from every state it can start in, while   *)
(* the other two stand at one fixed start.                                 *)
(*                                                                         *)
(* PCI: the BARs of the devices the kernel is run with, in units of the    *)
(* 256 bytes of the rtl8139, sizes scaled to keep their order: rtl8139,    *)
(* virtio BAR 1, virtio BAR 4, e1000.  Handshake: two devices share one    *)
(* context; the drivers need 2 entries and net lays its PCI rings out for  *)
(* 4; sizes 0 and 1 are refused.                                           *)
(***************************************************************************)
EXTENDS DeviceScan, PciBars, VirtioInit

Io       == [kind |-> "io", size |-> 1, addr |-> 0]
Mem(n)   == [kind |-> "mem", size |-> n, addr |-> 0]
At(b, a) == [b EXCEPT !.addr = a]

Dev(v, b0, b1, b4) ==
  [vendor |-> v, bar |-> [b \in Bars |-> CASE b = 0 -> b0 [] b = 1 -> b1 [] OTHER -> b4]]

rtl8139    == Dev("other", Io, Mem(1), NoBar)
virtio     == Dev("virtio", Io, Mem(2), Mem(4))
e1000      == Dev("other", Mem(8), Io, NoBar)
HostBridge == Dev("other", NoBar, NoBar, NoBar)

(* QEMU's virt machines start the kernel with every BAR at 0.              *)
Unassigned == {rtl8139, virtio, e1000, HostBridge}

(* Firmware has placed some devices, two of them on the same address.      *)
Placed == Unassigned \cup
  {Dev("other", Io, At(Mem(1), 40), NoBar), Dev("other", At(Mem(8), 40), Io, NoBar)}

(* A BIOS has placed every BAR.                                            *)
Bios == {Dev("other", At(Io, 2), At(Mem(1), 16), NoBar),
         Dev("other", At(Mem(8), 24), At(Io, 3), NoBar), HostBridge}

MCProfiles == [riscv |-> Placed, arm64 |-> Placed, amd64 |-> Bios]

MCSizes == [x \in Drivers \X Transports |-> {0, 1, 2, 4}]

VARIABLE part   \* the part of the bring-up this behaviour is about

ScanWaits      == found = 0 /\ Init
PciWaits       == Arch = (CHOOSE a \in Archs : TRUE) /\ PciInit
HandshakeWaits == /\ drv = CHOOSE d \in Drivers : TRUE
                  /\ kind = CHOOSE k \in [Devs -> Kinds(drv)] : TRUE
                  /\ HandshakeInit

BringUpInit ==
  \/ part = "scan" /\ Init /\ PciWaits /\ HandshakeWaits
  \/ part = "pci" /\ PciInit /\ ScanWaits /\ HandshakeWaits
  \/ part = "handshake" /\ HandshakeInit /\ ScanWaits /\ PciWaits

BringUpNext ==
  \/ part = "scan" /\ Next /\ UNCHANGED <<part, pciVars, handshakeVars>>
  \/ part = "pci" /\ PciNext /\ UNCHANGED <<part, vars, handshakeVars>>
  \/ part = "handshake" /\ HandshakeNext /\ UNCHANGED <<part, vars, pciVars>>

BringUpSpec == BringUpInit /\ [][BringUpNext]_<<part, vars, pciVars, handshakeVars>>
=============================================================================
