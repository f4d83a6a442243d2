------------------------------ MODULE PciBars ------------------------------
(***************************************************************************)
(* PCI enumeration and BAR assignment of the three platforms:              *)
(*                                                                         *)
(*   riscv  always reassigns memory BARs 0, 1 and 4, aligned to their size *)
(*          (devices_riscv.c);                                             *)
(*   arm64  assigns memory BARs 0 and 1 that hold no address, at the next  *)
(*          free address whatever its alignment (devices_arm64.c);         *)
(*   amd64  assigns nothing and reports BAR 0 (devices_amd64.c).           *)
(*                                                                         *)
(* The scan visits the slots in order.  What is in a slot is the           *)
(* environment's choice, a member of Profiles: the kind, size and firmware *)
(* address of each BAR.  Addresses and sizes are counted in units of the   *)
(* smallest memory BAR.  A BAR implements only the address bits above its  *)
(* size, so hardware rounds what is written down to a multiple of the size *)
(* (external: the PCI bus, from how pci_probe_bar_size reads the mask).    *)
(***************************************************************************)
EXTENDS Naturals, FiniteSets

CONSTANTS Archs,        \* the platforms: "riscv", "arm64", "amd64"
          Profiles,     \* the devices a slot may hold, for each platform
          WindowBase,   \* PCI_MMIO_BASE
          WindowSize,   \* PCI_MMIO_SIZE
          MaxSlots,     \* slots of the two buses (64 in the code)
          Width         \* width of a BAR register, in bits above the unit

ASSUME PciAssumption == /\ Archs \subseteq {"riscv", "arm64", "amd64"}
                        /\ WindowBase \in Nat \ {0} /\ WindowSize \in Nat
                        /\ MaxSlots \in Nat /\ Width \in Nat
                        /\ 2 ^ Width \in Nat
                        /\ WindowBase + WindowSize <= 2 ^ Width

Bars == {0, 1, 4}

(* A BAR register: its kind, the size it decodes, the address it holds.    *)
Register == [kind : {"none", "io", "mem"}, size : Nat, addr : Nat]

NoBar == [kind |-> "none", size |-> 0, addr |-> 0]

(* A memory BAR decodes part of the address space, at a multiple of its    *)
(* size (external: the PCI bus).                                           *)
Sound(b) ==
  b.kind = "mem" => b.size \in 1 .. (2 ^ Width - 1) /\ b.addr % b.size = 0

(* The devices of the platforms' machines (external): memory BARs are      *)
(* found from BAR 0 on or, behind an I/O BAR 0, from BAR 1 on, where a     *)
(* virtio device has its registers in BAR 4.                               *)
Shape(v, bars) ==
  \/ \A b \in Bars : bars[b].kind # "mem"
  \/ bars[0].kind = "mem"
  \/ bars[0].kind = "io" /\ bars[1].kind = "mem" /\ (v = "virtio" => bars[4].kind = "mem")

(* A profile is a vendor ("virtio" or another) and the registers.          *)
ASSUME ProfilesAssumption ==
  \A a \in Archs : \A p \in Profiles[a] :
    /\ p.vendor \in {"virtio", "other"}
    /\ p.bar \in [Bars -> Register]
    /\ \A b \in Bars : Sound(p.bar[b])
    /\ a # "amd64" => Shape(p.vendor, p.bar)

VARIABLES
  Arch,               \* the platform the kernel is built for
  slot,               \* the slot being visited
  pc,                 \* "visit", or the step of the visit
  bar,                \* the BAR registers of every slot
  vendor,             \* the vendor in each slot
  written,            \* bar_value of the current visit: what the code returns
  next_mmio_address,  \* the allocator
  assigned,           \* ghost: the BARs the scan has written, and with what
  reports             \* the devices passed to the callback

pciVars == <<Arch, slot, pc, bar, vendor, written, next_mmio_address, assigned, reports>>

Slots == 1 .. MaxSlots

PciInit == /\ Arch \in Archs
        /\ slot = 1 /\ pc = "visit"
        /\ bar = [s \in Slots |-> [b \in Bars |-> NoBar]]
        /\ vendor = [s \in Slots |-> "none"]
        /\ written = [b \in Bars |-> 0]
        /\ next_mmio_address = WindowBase
        /\ assigned = {} /\ reports = {}

-----------------------------------------------------------------------------
(* A configuration write, through the ports or the memory-mapped window:   *)
(* the BAR register (external) keeps the bits above its size.              *)
BarWrite(b, v) == [b EXCEPT !.addr = v - (v % b.size)]

(* pci_probe_bar_size: all ones are written and the mask that reads back   *)
(* is inverted.  An unimplemented BAR reads back 0 and has size 0.         *)
SizeMask(b) == IF b.kind = "none" THEN 0 ELSE 2 ^ Width - b.size

pci_probe_bar_size(b) == IF SizeMask(b) = 0 THEN 0 ELSE 2 ^ Width - SizeMask(b)

(* (next_mmio_address + (bar_size - 1)) & ~(bar_size - 1)                  *)
AlignUp(a, size) == (a + size - 1) - ((a + size - 1) % size)

WindowEnd == WindowBase + WindowSize

(* pci_assign_bar_if_needed: whether it writes the BAR, and where.         *)
Assigns(b, size) ==
  /\ b.kind = "mem" /\ size > 0
  /\ next_mmio_address + size <= WindowEnd
  /\ IF Arch = "riscv"
       THEN AlignUp(next_mmio_address, size) + size <= WindowEnd
       ELSE b.addr = 0

NewAddress(size) ==
  IF Arch = "riscv" THEN AlignUp(next_mmio_address, size) ELSE next_mmio_address

-----------------------------------------------------------------------------
(* An empty slot is skipped.                                               *)
SkipSlot ==
  /\ pc = "visit" /\ slot <= MaxSlots
  /\ slot' = slot + 1
  /\ UNCHANGED <<Arch, pc, bar, vendor, written, next_mmio_address, assigned, reports>>

(* Seeded fault of Restored: the probe leaves the mask in the register. *)
Restored_not(b) == [b EXCEPT !.addr = SizeMask(b)]

(* pci_probe_bar_size writes back the address it found. *)
Restored(b) == b

(* The vendor and device identifiers are read and the BARs probed. *)
ReadBars(p) ==
  /\ pc = "visit" /\ slot <= MaxSlots
  /\ vendor' = [vendor EXCEPT ![slot] = p.vendor]
  /\ bar' = [bar EXCEPT ![slot] = [b \in Bars |-> Restored(p.bar[b])]]
  /\ written' = [b \in Bars |-> p.bar[b].addr]
  /\ pc' = IF Arch = "amd64" THEN "report" ELSE "bar0"
  /\ UNCHANGED <<Arch, slot, next_mmio_address, assigned, reports>>

(* The BARs each platform assigns, in order: 0, 1 and 4 on riscv, 0 and 1  *)
(* on arm64, none on amd64.                                                *)
PcOf(b) == CASE b = 0 -> "bar0" [] b = 1 -> "bar1" [] OTHER -> "bar4"

After(b) == CASE b = 0 -> "bar1"
              [] b = 1 /\ Arch = "riscv" -> "bar4"
              [] OTHER -> "report"

(* Seeded fault of Advance: it moves by the size from where it was, not    *)
(* from the aligned address.                                               *)
Advance_gap(a, size) == next_mmio_address + size

Advance(a, size) == a + size

(* pci_assign_bar_if_needed for one BAR.  The value returned is the value  *)
(* written, not what the register reads back.                              *)
AssignBar(b) ==
  LET hw   == bar[slot][b]
      size == pci_probe_bar_size(hw)
      a    == NewAddress(size)
  IN /\ pc = PcOf(b)
     /\ pc' = After(b)
     /\ IF Assigns(hw, size)
          THEN /\ bar' = [bar EXCEPT ![slot][b] = BarWrite(hw, a)]
               /\ written' = [written EXCEPT ![b] = a]
               /\ next_mmio_address' = Advance(a, size)
               /\ assigned' = assigned \cup {[slot |-> slot, bar |-> b, at |-> a]}
          ELSE UNCHANGED <<bar, written, next_mmio_address, assigned>>
     /\ UNCHANGED <<Arch, slot, vendor, reports>>

(* The BAR whose address and size are reported.                            *)
SelectedBar ==
  LET b0 == bar[slot][0] b1 == bar[slot][1]
  IN  CASE Arch = "riscv" /\ vendor[slot] = "virtio" /\ b0.kind = "io" -> 4
        [] Arch # "amd64" /\ b0.kind = "io" /\ b1.kind = "mem" -> 1
        [] OTHER -> 0

(* Memory decoding and bus mastering are enabled and the callback is told. *)
Report ==
  /\ pc = "report"
  /\ reports' = reports \cup
       {[slot |-> slot, bar |-> SelectedBar, base |-> written[SelectedBar],
         size |-> pci_probe_bar_size(bar[slot][SelectedBar])]}
  /\ pc' = "visit" /\ slot' = slot + 1
  /\ UNCHANGED <<Arch, bar, vendor, written, next_mmio_address, assigned>>

PciNext == \/ SkipSlot
        \/ \E p \in Profiles[Arch] : ReadBars(p)
        \/ \E b \in Bars : AssignBar(b)
        \/ Report

PciSpec == PciInit /\ [][PciNext]_pciVars

-----------------------------------------------------------------------------
(* The addresses a memory BAR answers to.                                  *)
Decodes(s, b) == bar[s][b].addr .. (bar[s][b].addr + bar[s][b].size - 1)

(* Types of the scan's state; a register holds a multiple of its BAR size. *)
PciTypeOK ==
  /\ Arch \in Archs
  /\ slot \in 1 .. (MaxSlots + 1)
  /\ pc \in {"visit", "bar0", "bar1", "bar4", "report"}
  /\ \A s \in Slots, b \in Bars :
       bar[s][b].kind = "mem" => bar[s][b].addr % bar[s][b].size = 0
  /\ next_mmio_address \in WindowBase .. WindowEnd
  /\ assigned \subseteq [slot : Slots, bar : Bars, at : WindowBase .. WindowEnd]
  /\ \A r \in reports : r.slot \in Slots /\ r.bar \in Bars

(* The address written is one the BAR can hold.  The riscv code sees to    *)
(* it; on arm64 it depends on the sizes that came before.                  *)
Aligned(x) == x.at % bar[x.slot][x.bar].size = 0

(* Two memory BARs the scan has assigned never answer to the same address, *)
(* and each answers only to addresses of the window: whatever sizes come   *)
(* in whatever order, also when the window runs out between two BARs.  On  *)
(* arm64 a BAR that was given an address that is no multiple of its size   *)
(* rounds it down and is excluded.                                         *)
NoOverlap ==
  /\ PciTypeOK
  /\ \A x, y \in assigned :
       x # y /\ Aligned(x) /\ Aligned(y)
         => Decodes(x.slot, x.bar) \cap Decodes(y.slot, y.bar) = {}
  /\ \A x \in assigned :
       Aligned(x) => Decodes(x.slot, x.bar) \subseteq WindowBase .. (WindowEnd - 1)
  /\ Arch # "arm64" => \A x \in assigned : Aligned(x)

(* What a driver is given is a memory BAR as the device decodes it: the    *)
(* base and size are those the device answers to (the register read back   *)
(* would give the same address), and on the platforms without port I/O a   *)
(* device that has a memory BAR is never reported with an I/O port taken   *)
(* for an address.  The base may be wrong only where arm64 has assigned an *)
(* address that is not aligned.                                            *)
ReportsDecoded ==
  \A r \in reports :
     /\ bar[r.slot][r.bar].kind = "mem" =>
          /\ \/ r.base = bar[r.slot][r.bar].addr
             \/ \E x \in assigned : x.slot = r.slot /\ x.bar = r.bar /\ ~Aligned(x)
          /\ r.size = bar[r.slot][r.bar].size
     /\ (Arch # "amd64" /\ \E b \in Bars : bar[r.slot][b].kind = "mem")
          => bar[r.slot][r.bar].kind = "mem"
=============================================================================
