----------------------------- MODULE DeviceScan -----------------------------
(***************************************************************************)
(* The boot-time device scan: devices_scan() fills the device registry     *)
(* from the PCI enumerator and then from a walk of the flattened device    *)
(* tree (FDT).  The walk keeps ONE device_t and two flags for the whole    *)
(* tree; it resets them when a node begins and reports when a node ends.   *)
(*                                                                         *)
(* The tree is the environment's: each step consumes one token of a        *)
(* well-formed structure block (properties before subnodes, as the FDT     *)
(* format requires), or the block stops being readable and the walk        *)
(* returns early.  Nodes are numbered in document order; 0 is "no node".   *)
(* A name, a reg value or a compatible string is modelled by the number of *)
(* the node it was read from.                                              *)
(*                                                                         *)
(* fdt_get_bootargs walks the same tokens before devices_scan does, with   *)
(* state of its own.  The two walks share nothing but the tree, so a step  *)
(* of the model gives each token to both.                                  *)
(***************************************************************************)
EXTENDS Naturals, Sequences, FiniteSets, FiniteSetsExt, SequencesExt

CONSTANTS Capacity,    \* entries of device_storage (128 in the code)
          MaxNodes,    \* bound on the nodes of the device tree
          MaxDepth,    \* bound on its nesting
          MaxPci       \* bound on the PCI devices registered before the walk

ASSUME ScanAssumption == /\ Capacity \in Nat \ {0}
                         /\ MaxNodes \in Nat /\ MaxDepth \in Nat /\ MaxPci \in Nat

VARIABLES
  current,    \* current_device and the flags has_reg, has_compatible
  found,      \* device_count of fdt_enumerate_devices plus the PCI count
  registry,   \* device_storage[0 .. device_count-1], in list order
  cmdline,    \* in_chosen, bootargs and the result of fdt_get_bootargs
  walk,       \* "walking", "ended", "cut" or "scanned"
  tree,       \* device_tree_root and its children, as registry indices
  open,       \* the nodes whose end token has not been read, outermost first
  nodes       \* ghost: what the device tree says of each node begun so far

vars == <<current, found, registry, cmdline, walk, tree, open, nodes>>

Node == 1 .. MaxNodes

(* What sits at a node: a plain device, a virtio-mmio transport with or    *)
(* without a device behind it, or nothing because the node is named chosen.*)
Hardware == {"plain", "virtio", "empty", "chosen"}

NoDevice == [name |-> 0, depth |-> 0, reg |-> 0, compatible |-> 0,
             has_reg |-> FALSE, has_compatible |-> FALSE]

Entry == [name : 0 .. MaxNodes, depth : Nat, reg : 0 .. MaxNodes,
          compatible : 0 .. MaxNodes]

PciEntry == [name |-> 0, depth |-> 0, reg |-> 0, compatible |-> 0]

Init == /\ current = NoDevice
        /\ cmdline = [in_chosen |-> FALSE, bootargs |-> 0, returned |-> 0]
        /\ walk = "walking"
        /\ tree = [root |-> 0, children |-> <<>>]
        /\ open = <<>>
        /\ nodes = <<>>
        /\ \E n \in 0 .. MaxPci :
              /\ found = n
              /\ registry = [i \in 1 .. (IF n <= Capacity THEN n ELSE Capacity)
                               |-> PciEntry]

-----------------------------------------------------------------------------
(* The callbacks of the walk.                                              *)

(* virtio_mmio_probe_device: does a device answer at the transport?        *)
virtio_mmio_probe_device(d) == d.reg # 0 /\ nodes[d.reg].hw # "empty"

RegistryEntry(d) == [name |-> d.name, depth |-> d.depth, reg |-> d.reg,
                     compatible |-> d.compatible]

(* Seeded fault of add_device_to_registry: it adds at the head. *)
add_device_to_registry_head(d) ==
  IF Len(registry) >= Capacity THEN registry
  ELSE <<RegistryEntry(d)>> \o registry

add_device_to_registry(d) ==
  IF Len(registry) >= Capacity THEN registry
  ELSE Append(registry, RegistryEntry(d))

(* Only a node whose compatible string is virtio,mmio is probed.           *)
probe_virtio_callback(d) ==
  IF nodes[d.compatible].hw = "plain" \/ virtio_mmio_probe_device(d)
  THEN add_device_to_registry(d)
  ELSE registry

-----------------------------------------------------------------------------
(* The tokens of the structure block.                                      *)

Top == open[Len(open)]

(* fdt_get_bootargs looks for chosen among the children of the root only.  *)
Enter(hw) ==
  cmdline' = [cmdline EXCEPT
                !.in_chosen = @ \/ (Len(open) = 1 /\ hw = "chosen")]

(* FDT_BEGIN_NODE.  One root: nothing begins after the root has ended.     *)
(* current_device and both flags are reset before the name is stored.      *)
Begin(reset) ==
  /\ walk = "walking"
  /\ Len(nodes) < MaxNodes /\ Len(open) < MaxDepth
  /\ open = <<>> => nodes = <<>>
  /\ current' = [reset EXCEPT !.name = Len(nodes) + 1, !.depth = Len(open)]
  /\ \E hw \in Hardware :
       /\ nodes' = Append(nodes, [hw |-> hw, depth |-> Len(open),
                                  props |-> {}, ended |-> FALSE])
       /\ Enter(hw)
  /\ open' = Append(open, Len(nodes) + 1)
  /\ UNCHANGED <<found, registry, walk, tree>>

BeginNode_stale == Begin(current)

BeginNode == Begin(NoDevice)

(* FDT_PROP, for the three properties the walks read.  A reg shorter than  *)
(* 16 bytes, an empty compatible or bootargs and every other property,     *)
(* like FDT_NOP, change nothing and are stuttering steps.  A node is given *)
(* either the properties of a device or bootargs.                          *)
Prop(name) ==
  /\ walk = "walking" /\ open # <<>> /\ Top = Len(nodes)
  /\ name \notin nodes[Top].props
  /\ nodes' = [nodes EXCEPT ![Top].props = @ \cup {name}]
  /\ UNCHANGED <<found, registry, walk, tree, open>>

IsText == nodes[Top].hw = "chosen" \/ "bootargs" \in nodes[Top].props

PropReg ==
  /\ Prop("reg") /\ ~IsText
  /\ current' = [current EXCEPT !.reg = Top, !.has_reg = TRUE]
  /\ UNCHANGED cmdline

PropCompatible ==
  /\ Prop("compatible") /\ ~IsText
  /\ current' = [current EXCEPT !.compatible = Top, !.has_compatible = TRUE]
  /\ UNCHANGED cmdline

PropBootargs ==
  /\ Prop("bootargs")
  /\ nodes[Top].hw \in {"plain", "chosen"} /\ nodes[Top].props = {}
  /\ cmdline' = IF cmdline.in_chosen THEN [cmdline EXCEPT !.bootargs = Top]
                ELSE cmdline
  /\ UNCHANGED current

(* Seeded fault of Leave: depth is compared before it is counted down.     *)
Leave_before ==
  cmdline' = [cmdline EXCEPT !.in_chosen = @ /\ Len(open) # 1]

(* The end of a child of the root ends chosen; depth is counted down first.*)
Leave ==
  cmdline' = [cmdline EXCEPT !.in_chosen = @ /\ Len(open) - 1 # 1]

(* FDT_END_NODE.  current_device is the node begun last, whichever node    *)
(* ends here, and the flags stay set.                                      *)
End(report) ==
  /\ walk = "walking" /\ open # <<>>
  /\ IF report
       THEN registry' = probe_virtio_callback(current) /\ found' = found + 1
       ELSE UNCHANGED <<registry, found>>
  /\ nodes' = [nodes EXCEPT ![Top].ended = TRUE]
  /\ open' = Front(open)
  /\ Leave
  /\ UNCHANGED <<current, walk, tree>>

EndNode_skiproot ==
  End(current.has_reg /\ current.has_compatible /\ Len(open) > 1)

EndNode == End(current.has_reg /\ current.has_compatible)

(* FDT_END: fdt_get_bootargs returns the string it found, the enumeration  *)
(* its count.                                                              *)
WalkEnds ==
  /\ walk = "walking" /\ open = <<>> /\ nodes # <<>>
  /\ walk' = "ended"
  /\ cmdline' = [cmdline EXCEPT !.returned = cmdline.bootargs]
  /\ UNCHANGED <<current, found, registry, tree, open, nodes>>

(* One of the early returns: the block ends inside a token, a name has no  *)
(* terminator, a property runs past the end, or the token is unknown.  The *)
(* enumeration returns the count reached so far, fdt_get_bootargs NULL.    *)
(* One step cuts both walks although fdt_get_bootargs is bounded by        *)
(* totalsize and the enumeration by struct_end: every property is about    *)
(* one walk's result, and that walk is cut at every token.  A header that  *)
(* is refused (-1) is a cut before the first token, the registry being the *)
(* same.                                                                   *)
WalkCut ==
  /\ walk = "walking"
  /\ walk' = "cut"
  /\ UNCHANGED <<current, found, registry, cmdline, tree, open, nodes>>

(* build_tree_hierarchy, called by devices_scan after the enumeration: the *)
(* first depth-0 device is the root and every depth-1 device its child.    *)
build_tree_hierarchy ==
  LET index == [i \in DOMAIN registry |-> i]
      roots == {i \in DOMAIN registry : registry[i].depth = 0}
  IN  IF roots = {} THEN tree
      ELSE [root |-> Min(roots),
            children |-> SelectSeq(index, LAMBDA i : registry[i].depth = 1)]

devices_scan ==
  /\ walk \in {"ended", "cut"}
  /\ tree' = build_tree_hierarchy
  /\ walk' = "scanned"
  /\ UNCHANGED <<current, found, registry, cmdline, open, nodes>>

Next == BeginNode \/ PropReg \/ PropCompatible \/ PropBootargs \/ EndNode
          \/ WalkEnds \/ WalkCut \/ devices_scan

Spec == Init /\ [][Next]_vars

-----------------------------------------------------------------------------
(* Vocabulary of the properties.                                           *)

(* The node describes a device: it has both properties, and something is   *)
(* attached.                                                               *)
IsDevice(n) == /\ nodes[n].props = {"reg", "compatible"}
               /\ nodes[n].hw # "empty"

IsLeaf(n) == n = Len(nodes) \/ nodes[n + 1].depth <= nodes[n].depth

Reports(n) == {i \in DOMAIN registry : registry[i].name = n}

RegistryFull == Len(registry) = Capacity

(* Types of the walk's state; the registry stays within device_storage.    *)
TypeOK ==
  /\ current \in [name : 0 .. MaxNodes, depth : Nat, reg : 0 .. MaxNodes,
                  compatible : 0 .. MaxNodes, has_reg : BOOLEAN,
                  has_compatible : BOOLEAN]
  /\ found \in 0 .. (MaxPci + 2 * MaxNodes)
  /\ registry \in Seq(Entry) /\ Len(registry) <= Capacity
  /\ walk \in {"walking", "ended", "cut", "scanned"}
  /\ tree.root \in 0 .. Len(registry)
  /\ open \in Seq(Node)
  /\ cmdline \in [in_chosen : BOOLEAN, bootargs : 0 .. MaxNodes,
                  returned : 0 .. MaxNodes]
  /\ nodes \in Seq([hw : Hardware, depth : Nat, ended : BOOLEAN,
                    props : SUBSET {"reg", "compatible", "bootargs"}])

(* The state is well typed, the registry stays within device_storage, and  *)
(* an entry never mixes two nodes: name, depth, reg and compatible of a    *)
(* registered device-tree entry all come from one node, that node carries  *)
(* both properties, and a virtio transport is registered only if a device  *)
(* answered.  A parent's properties never leak into a child's report, nor  *)
(* a child's name into its parent's.                                       *)
SoundReports ==
  /\ TypeOK
  /\ \A i \in DOMAIN registry :
       LET e == registry[i]
       IN  e.name # 0 => /\ e.reg = e.name /\ e.compatible = e.name
                         /\ e.depth = nodes[e.name].depth
                         /\ IsDevice(e.name)

(* No leaf device is lost: when the end token of a node without subnodes   *)
(* has been read and the node describes a device, it is in the registry,   *)
(* unless the registry is full.                                            *)
LeavesReported ==
  \A n \in DOMAIN nodes :
     nodes[n].ended /\ IsLeaf(n) /\ IsDevice(n) /\ ~RegistryFull
        => Reports(n) # {}

(* Reports come in document order, and a node is reported at most once for *)
(* itself and once for each node that encloses it: the registry is at most *)
(* (depth + 1) times the size of the tree.                                 *)
BoundedReports ==
  /\ \A i, j \in DOMAIN registry : i < j => registry[i].name <= registry[j].name
  /\ \A n \in DOMAIN nodes : Cardinality(Reports(n)) <= nodes[n].depth + 1

(* The nodes of the subtree of c that have been read.                      *)
Subtree(c) ==
  {n \in c .. Len(nodes) :
     \A m \in (c + 1) .. n : nodes[m].depth > nodes[c].depth}

ChosenArgs ==
  {n \in UNION {Subtree(c) :
       c \in {x \in DOMAIN nodes :
                nodes[x].hw = "chosen" /\ nodes[x].depth = 1}} :
     "bootargs" \in nodes[n].props}

(* The bootargs property of a node /chosen itself: what fdt_parser.h calls *)
(* /chosen/bootargs.                                                       *)
OwnArgs == {n \in DOMAIN nodes : /\ nodes[n].hw = "chosen" /\ nodes[n].depth = 1
                                 /\ "bootargs" \in nodes[n].props}

(* The kernel's command line is /chosen/bootargs, or none if there is none:*)
(* whatever stands before, between and after, nodes named chosen elsewhere *)
(* and bootargs of nodes outside /chosen included, fdt_get_bootargs returns*)
(* that string.  On a block that is cut short it returns none, never a     *)
(* string read before the fault.  Said of the trees in which no subnode of *)
(* /chosen has a bootargs of its own; OnlyChosenArgs is about the others.  *)
BootargsOfChosen ==
  /\ walk \in {"walking", "cut"} => cmdline.returned = 0
  /\ walk = "ended" /\ ChosenArgs = OwnArgs =>
       cmdline.returned \in (IF OwnArgs = {} THEN {0} ELSE OwnArgs)

(* What fdt_parser.h says of fdt_get_bootargs, for every tree: the string  *)
(* is the bootargs of /chosen, or NULL if that is not found.  in_chosen    *)
(* stays set in the subnodes of /chosen, so their bootargs is taken too    *)
(* and replaces the one of /chosen: the code does not have this property.  *)
OnlyChosenArgs ==
  walk = "ended" => cmdline.returned \in (IF OwnArgs = {} THEN {0} ELSE OwnArgs)
=============================================================================
