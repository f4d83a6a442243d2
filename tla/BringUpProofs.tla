--------------------------- MODULE BringUpProofs ---------------------------
(***************************************************************************)
(* How devices come up, in the order of the boot.                          *)
(*                                                                         *)
(* The scan, for every device tree, however large and however deep, and    *)
(* every size of the registry: an entry describes one node, no leaf device *)
(* is lost, a node is reported once per level at most, and the command     *)
(* line is the bootargs of /chosen.                                        *)
(*                                                                         *)
(* The PCI assignment, for all devices a bus can hold: no two BARs decode  *)
(* the same address, and a driver is told an address its device decodes.   *)
(*                                                                         *)
(* The virtio handshake, for every set of devices, queue size and mix of   *)
(* transports: however often init_context fails on one device and is tried *)
(* on another with the same context, a device runs exactly while the       *)
(* context is initialised, and it finds its queues ready.                  *)
(***************************************************************************)
EXTENDS DeviceScan, PciBars, VirtioInit, Integers, FiniteSetTheorems, SequenceTheorems,
        WellFoundedInduction, TLAPS

NodeInfo == [hw : Hardware, depth : Nat, ended : BOOLEAN,
             props : SUBSET {"reg", "compatible", "bootargs"}]

(* The open nodes are the path from the root to the node being read, and   *)
(* what was begun after an open node is below it.                          *)
PathOK ==
  /\ \A k \in DOMAIN open : /\ open[k] \in DOMAIN nodes
                            /\ nodes[open[k]].depth = k - 1
                            /\ ~nodes[open[k]].ended
  /\ \A k \in DOMAIN open : \A n \in DOMAIN nodes : n > open[k] => nodes[n].depth >= k
  /\ open # <<>> => open[1] = 1

(* current_device holds the node begun last, and its properties only. *)
CurrentOK ==
  nodes # <<>> =>
    LET n == Len(nodes)
    IN  /\ current.name = n /\ current.depth = nodes[n].depth
        /\ current.has_reg <=> "reg" \in nodes[n].props
        /\ current.has_compatible <=> "compatible" \in nodes[n].props
        /\ current.has_reg => current.reg = n
        /\ current.has_compatible => current.compatible = n

PropsOK ==
  \A n \in DOMAIN nodes : "bootargs" \in nodes[n].props => nodes[n].props = {"bootargs"}

(* Every registered entry is one node's; the name is a node's or a PCI     *)
(* device's.                                                               *)
EntriesOK ==
  \A i \in DOMAIN registry :
    /\ registry[i].name <= Len(nodes)
    /\ registry[i].name # 0 =>
         /\ registry[i].reg = registry[i].name /\ registry[i].compatible = registry[i].name
         /\ registry[i].depth = nodes[registry[i].name].depth
         /\ IsDevice(registry[i].name)

(* Each end token reports current_device at most once. *)
CountOK ==
  /\ nodes # <<>> => Cardinality(Reports(Len(nodes))) + Len(open) <= nodes[Len(nodes)].depth + 1
  /\ found + Len(open) <= MaxPci + Len(nodes) /\ Len(nodes) <= MaxNodes

InChosen == cmdline.in_chosen <=> Len(open) >= 2 /\ nodes[open[2]].hw = "chosen"

(* The string kept is the last one of a chosen subtree. *)
ArgsOK ==
  \/ cmdline.bootargs = 0 /\ ChosenArgs = {}
  \/ cmdline.bootargs \in ChosenArgs /\ \A n \in ChosenArgs : n <= cmdline.bootargs

ReturnedOK ==
  /\ walk \in {"walking", "cut"} => cmdline.returned = 0
  /\ walk = "ended" => cmdline.returned = cmdline.bootargs

IInv == /\ TypeOK /\ PathOK /\ CurrentOK /\ PropsOK /\ EntriesOK /\ CountOK
        /\ LeavesReported /\ BoundedReports /\ InChosen /\ ArgsOK /\ ReturnedOK

----------------------------------------------------------------------------
(* What the type invariant says of the three sequences. *)
LEMMA Types ==
  ASSUME TypeOK
  PROVE  /\ nodes \in Seq(NodeInfo) /\ Len(nodes) \in Nat /\ DOMAIN nodes = 1 .. Len(nodes)
         /\ \A n \in 1 .. Len(nodes) :
              /\ nodes[n] \in NodeInfo
              /\ nodes[n].hw \in Hardware /\ nodes[n].depth \in Nat
              /\ nodes[n].ended \in BOOLEAN
              /\ nodes[n].props \in SUBSET {"reg", "compatible", "bootargs"}
         /\ open \in Seq(Node) /\ Len(open) \in Nat /\ DOMAIN open = 1 .. Len(open)
         /\ \A k \in 1 .. Len(open) : open[k] \in Node
         /\ registry \in Seq(Entry) /\ Len(registry) \in Nat
         /\ DOMAIN registry = 1 .. Len(registry)
         /\ \A i \in 1 .. Len(registry) : registry[i] \in Entry /\ registry[i].name \in Nat
<1>1. nodes \in Seq(NodeInfo) /\ open \in Seq(Node) /\ registry \in Seq(Entry)
  BY DEF TypeOK, NodeInfo
<1>2. /\ Len(nodes) \in Nat /\ DOMAIN nodes = 1 .. Len(nodes)
      /\ Len(open) \in Nat /\ DOMAIN open = 1 .. Len(open)
      /\ Len(registry) \in Nat /\ DOMAIN registry = 1 .. Len(registry)
  BY <1>1, LenProperties
<1>3. ASSUME NEW n \in 1 .. Len(nodes)
      PROVE  /\ nodes[n] \in NodeInfo
             /\ nodes[n].hw \in Hardware /\ nodes[n].depth \in Nat
             /\ nodes[n].ended \in BOOLEAN
             /\ nodes[n].props \in SUBSET {"reg", "compatible", "bootargs"}
  <2>1. nodes[n] \in NodeInfo
    BY <1>1, ElementOfSeq
  <2>2. QED BY <2>1 DEF NodeInfo
<1>4. ASSUME NEW k \in 1 .. Len(open) PROVE open[k] \in Node
  BY <1>1, ElementOfSeq
<1>5. ASSUME NEW i \in 1 .. Len(registry)
      PROVE  registry[i] \in Entry /\ registry[i].name \in Nat
  <2>1. registry[i] \in Entry
    BY <1>1, ElementOfSeq
  <2>2. QED BY <2>1, ScanAssumption DEF Entry
<1>6. QED BY <1>1, <1>2, <1>3, <1>4, <1>5

(* Writing an element of a sequence leaves a sequence of the same length. *)
LEMMA SeqWrite ==
  ASSUME NEW S, NEW s \in Seq(S), NEW i \in 1 .. Len(s), NEW e \in S
  PROVE  /\ [s EXCEPT ![i] = e] \in Seq(S)
         /\ Len([s EXCEPT ![i] = e]) = Len(s)
         /\ \A j \in 1 .. Len(s) : [s EXCEPT ![i] = e][j] = IF j = i THEN e ELSE s[j]
<1> DEFINE t == [s EXCEPT ![i] = e]
<1>1. Len(s) \in Nat /\ s \in [1 .. Len(s) -> S]
  BY LenProperties
<1>2. t \in [1 .. Len(s) -> S] /\ \A j \in 1 .. Len(s) : t[j] = IF j = i THEN e ELSE s[j]
  BY <1>1
<1> HIDE DEF t
<1>3. t \in Seq(S)
  BY <1>1, <1>2, SeqDef
<1>4. DOMAIN t = 1 .. Len(s) /\ DOMAIN t = 1 .. Len(t) /\ Len(t) \in Nat
  BY <1>2, <1>3, LenProperties
<1>5. Len(t) = Len(s)
  BY <1>1, <1>4
<1>6. QED BY <1>2, <1>3, <1>5 DEF t

(* A set of numbers that has an element has a least one. *)
LEMMA LeastElement ==
  ASSUME NEW S \in SUBSET Nat, S # {}
  PROVE  Min(S) \in S
<1> DEFINE R == {ss \in Nat \X Nat : ss[1] < ss[2]}
<1>1. IsWellFoundedOn(R, Nat)
  BY NatLessThanWellFounded, Zenon DEF OpToRel
<1>2. PICK x \in S : \A y \in S : ~(<<y, x>> \in R)
  <2> HIDE DEF R
  <2> QED BY <1>1, WFMin
<1>3. ASSUME NEW y \in S, ~(x <= y) PROVE FALSE
  <2>1. x \in Nat /\ y \in Nat
    OBVIOUS
  <2>2. y < x
    BY <1>3, <2>1
  <2>3. <<y, x>> \in R
    BY <2>1, <2>2
  <2>4. QED BY <1>2, <2>3
<1>4. QED BY <1>3 DEF Min

(* The state before the walk satisfies the invariant. *)
LEMMA InitInv == Init => IInv
<1> SUFFICES ASSUME Init PROVE IInv
  OBVIOUS
<1>1. PICK n \in 0 .. MaxPci :
        /\ found = n
        /\ registry = [i \in 1 .. (IF n <= Capacity THEN n ELSE Capacity) |-> PciEntry]
  BY DEF Init
<1> DEFINE m == IF n <= Capacity THEN n ELSE Capacity
<1>2. m \in Nat /\ m <= Capacity /\ n \in Nat /\ n <= MaxPci
      /\ MaxNodes \in Nat /\ MaxPci \in Nat /\ Capacity \in Nat
  BY ScanAssumption
<1> HIDE DEF m
<1>3. PciEntry \in Entry /\ registry = [i \in 1 .. m |-> PciEntry]
  BY <1>1, <1>2 DEF Entry, PciEntry, m
<1>4. registry \in Seq(Entry) /\ Len(registry) = m /\ DOMAIN registry = 1 .. m
  <2>1. registry \in Seq(Entry)
    BY <1>2, <1>3, SeqDef
  <2>2. DOMAIN registry = 1 .. m /\ DOMAIN registry = 1 .. Len(registry) /\ Len(registry) \in Nat
    BY <1>3, <2>1, LenProperties
  <2>3. QED BY <1>2, <2>1, <2>2
<1>5. nodes = <<>> /\ open = <<>> /\ Len(<<>>) = 0 /\ DOMAIN <<>> = {} /\ 1 .. 0 = {}
  BY DEF Init
<1>6. TypeOK
  <2>1. current \in [name : 0 .. MaxNodes, depth : Nat, reg : 0 .. MaxNodes,
                  compatible : 0 .. MaxNodes, has_reg : BOOLEAN,
                  has_compatible : BOOLEAN]
    BY <1>2 DEF Init, NoDevice
  <2>2. found \in 0 .. (MaxPci + 2 * MaxNodes)
    BY <1>1, <1>2
  <2>3. tree.root \in 0 .. Len(registry)
    BY <1>2, <1>4 DEF Init
  <2>4. cmdline \in [in_chosen : BOOLEAN, bootargs : 0 .. MaxNodes, returned : 0 .. MaxNodes]
    BY <1>2 DEF Init
  <2>5. open \in Seq(Node) /\ nodes \in Seq(NodeInfo)
    BY <1>5, EmptySeq
  <2>6. walk = "walking"
    BY DEF Init
  <2>7. QED BY <1>2, <1>4, <2>1, <2>2, <2>3, <2>4, <2>5, <2>6 DEF TypeOK, NodeInfo
<1>7. PathOK /\ CurrentOK /\ PropsOK
  BY <1>5 DEF PathOK, CurrentOK, PropsOK
<1>8. \A i \in DOMAIN registry : registry[i].name = 0
  BY <1>3, <1>4 DEF PciEntry
<1>9. EntriesOK /\ LeavesReported /\ BoundedReports
  BY <1>5, <1>8 DEF EntriesOK, LeavesReported, BoundedReports
<1>10. CountOK
  BY <1>1, <1>2, <1>5 DEF CountOK
<1>11. ChosenArgs = {}
  BY <1>5 DEF ChosenArgs
<1>12. InChosen /\ ArgsOK /\ ReturnedOK
  BY <1>5, <1>11 DEF Init, InChosen, ArgsOK, ReturnedOK
<1>13. QED BY <1>6, <1>7, <1>9, <1>10, <1>12 DEF IInv

----------------------------------------------------------------------------
(* Node n is in the subtree of a child of the root that is named chosen. *)
UnderChosen(n) ==
  \E c \in 1 .. n : /\ nodes[c].hw = "chosen" /\ nodes[c].depth = 1
                    /\ \A m \in (c + 1) .. n : nodes[m].depth > 1

(* ChosenArgs, node by node. *)
LEMMA ChosenArgsIs ==
  TypeOK => ChosenArgs = {n \in 1 .. Len(nodes) : "bootargs" \in nodes[n].props /\ UnderChosen(n)}
<1> SUFFICES ASSUME TypeOK
             PROVE  ChosenArgs =
                      {n \in 1 .. Len(nodes) : "bootargs" \in nodes[n].props /\ UnderChosen(n)}
  OBVIOUS
<1>1. Len(nodes) \in Nat /\ DOMAIN nodes = 1 .. Len(nodes)
  BY Types
<1>2. ASSUME NEW n \in ChosenArgs
      PROVE  n \in 1 .. Len(nodes) /\ "bootargs" \in nodes[n].props /\ UnderChosen(n)
  <2>1. PICK c \in DOMAIN nodes : /\ nodes[c].hw = "chosen" /\ nodes[c].depth = 1
                                  /\ n \in Subtree(c) /\ "bootargs" \in nodes[n].props
    BY <1>2 DEF ChosenArgs
  <2>2. n \in c .. Len(nodes) /\ \A m \in (c + 1) .. n : nodes[m].depth > 1
    BY <2>1 DEF Subtree
  <2>3. c \in 1 .. n /\ n \in 1 .. Len(nodes)
    BY <1>1, <2>2
  <2>4. QED BY <2>1, <2>2, <2>3 DEF UnderChosen
<1>3. ASSUME NEW n \in 1 .. Len(nodes), "bootargs" \in nodes[n].props, UnderChosen(n)
      PROVE  n \in ChosenArgs
  <2>1. PICK c \in 1 .. n : /\ nodes[c].hw = "chosen" /\ nodes[c].depth = 1
                            /\ \A m \in (c + 1) .. n : nodes[m].depth > 1
    BY <1>3 DEF UnderChosen
  <2>2. c \in DOMAIN nodes /\ n \in c .. Len(nodes)
    BY <1>1
  <2>3. n \in Subtree(c)
    BY <2>1, <2>2 DEF Subtree
  <2>4. QED BY <1>3, <2>1, <2>2, <2>3 DEF ChosenArgs
<1>4. QED BY <1>2, <1>3

(* The same after a step. *)
LEMMA ChosenArgsNext ==
  TypeOK' => (ChosenArgs = {n \in 1 .. Len(nodes) :
                              "bootargs" \in nodes[n].props /\ UnderChosen(n)})'
BY ChosenArgsIs, PTL

(* The types after a step. *)
LEMMA TypesNext ==
  TypeOK' => (/\ Len(nodes) \in Nat /\ DOMAIN nodes = 1 .. Len(nodes)
              /\ \A n \in 1 .. Len(nodes) :
                   /\ nodes[n].depth \in Nat
                   /\ nodes[n].props \in SUBSET {"reg", "compatible", "bootargs"}
              /\ Len(open) \in Nat /\ DOMAIN open = 1 .. Len(open)
              /\ Len(registry) \in Nat /\ DOMAIN registry = 1 .. Len(registry)
              /\ \A i \in 1 .. Len(registry) : registry[i].name \in Nat)'
<1>1. TypeOK => /\ Len(nodes) \in Nat /\ DOMAIN nodes = 1 .. Len(nodes)
                /\ \A n \in 1 .. Len(nodes) :
                     /\ nodes[n].depth \in Nat
                     /\ nodes[n].props \in SUBSET {"reg", "compatible", "bootargs"}
                /\ Len(open) \in Nat /\ DOMAIN open = 1 .. Len(open)
                /\ Len(registry) \in Nat /\ DOMAIN registry = 1 .. Len(registry)
                /\ \A i \in 1 .. Len(registry) : registry[i].name \in Nat
  BY Types
<1>2. QED BY <1>1, PTL

(* A node begun after n and a change that keeps kinds and depths change    *)
(* nothing of where n is.                                                  *)
LEMMA UnderSame ==
  ASSUME TypeOK, NEW n \in 1 .. Len(nodes),
         \A m \in 1 .. Len(nodes) :
           nodes'[m].hw = nodes[m].hw /\ nodes'[m].depth = nodes[m].depth
  PROVE  UnderChosen(n)' <=> UnderChosen(n)
<1>1. Len(nodes) \in Nat
  BY Types
<1>2. \A c \in 1 .. n : c \in 1 .. Len(nodes)
  BY <1>1
<1>3. \A c \in 1 .. n : \A m \in (c + 1) .. n : m \in 1 .. Len(nodes)
  BY <1>1
<1>4. QED BY <1>2, <1>3 DEF UnderChosen

(* When the node begun last is open, it is under chosen exactly when       *)
(* in_chosen says so.                                                      *)
LEMMA UnderOpen ==
  ASSUME TypeOK, PathOK, InChosen, open # <<>>, Top = Len(nodes)
  PROVE  UnderChosen(Top) <=> cmdline.in_chosen
<1> DEFINE l == Len(open)
           n == Len(nodes)
<1>1. /\ n \in Nat /\ DOMAIN nodes = 1 .. n /\ l \in Nat \ {0} /\ DOMAIN open = 1 .. l
      /\ open[l] = n
  BY Types, EmptySeq DEF Top
<1>2. /\ \A k \in 1 .. l : open[k] \in 1 .. n /\ nodes[open[k]].depth = k - 1
      /\ \A k \in 1 .. l : \A m \in 1 .. n : m > open[k] => nodes[m].depth >= k
      /\ open[1] = 1
  BY <1>1 DEF PathOK
<1>3. cmdline.in_chosen \in BOOLEAN /\ (cmdline.in_chosen <=> l >= 2 /\ nodes[open[2]].hw = "chosen")
  BY DEF TypeOK, InChosen
<1>4. \A m \in 1 .. n : nodes[m].depth \in Nat
  BY Types
<1> HIDE DEF l, n
<1>5. ASSUME UnderChosen(n) PROVE l >= 2 /\ nodes[open[2]].hw = "chosen"
  <2>1. PICK c \in 1 .. n : /\ nodes[c].hw = "chosen" /\ nodes[c].depth = 1
                            /\ \A m \in (c + 1) .. n : nodes[m].depth > 1
    BY <1>5 DEF UnderChosen
  <2>2. l # 1
    <3> SUFFICES ASSUME l = 1 PROVE FALSE
      OBVIOUS
    <3>1. n = 1 /\ nodes[1].depth = 0
      BY <1>1, <1>2
    <3>2. QED BY <2>1, <3>1
  <2>3. l >= 2 /\ 2 \in 1 .. l
    BY <1>1, <2>2
  <2>4. open[2] \in 1 .. n /\ nodes[open[2]].depth = 1 /\ \A m \in 1 .. n : m > open[2] => nodes[m].depth >= 2
    BY <1>2, <2>3
  <2>5. ~(c > open[2])
    BY <2>1, <2>4
  <2>6. ~(c < open[2])
    <3> SUFFICES ASSUME c < open[2] PROVE FALSE
      OBVIOUS
    <3>1. open[2] \in (c + 1) .. n
      BY <1>1, <2>4
    <3>2. QED BY <2>1, <2>4, <3>1
  <2>7. c = open[2]
    BY <1>1, <2>4, <2>5, <2>6
  <2>8. QED BY <2>1, <2>3, <2>7
<1>6. ASSUME l >= 2, nodes[open[2]].hw = "chosen" PROVE UnderChosen(n)
  <2>1. 2 \in 1 .. l
    BY <1>1, <1>6
  <2>2. open[2] \in 1 .. n /\ nodes[open[2]].depth = 1 /\ \A m \in 1 .. n : m > open[2] => nodes[m].depth >= 2
    BY <1>2, <2>1
  <2>3. \A m \in (open[2] + 1) .. n : nodes[m].depth > 1
    BY <1>1, <1>4, <2>2
  <2>4. QED BY <1>6, <2>2, <2>3 DEF UnderChosen
<1>7. Top = n
  BY DEF n
<1>8. QED BY <1>3, <1>5, <1>6, <1>7

----------------------------------------------------------------------------
(* FDT_BEGIN_NODE appends a node without properties below the open ones. *)
LEMMA Begun ==
  ASSUME TypeOK, BeginNode
  PROVE  /\ nodes' \in Seq(NodeInfo) /\ Len(nodes') = Len(nodes) + 1
         /\ \A n \in 1 .. Len(nodes) : nodes'[n] = nodes[n]
         /\ LET new == nodes'[Len(nodes) + 1]
            IN  /\ new.depth = Len(open) /\ new.props = {} /\ ~new.ended
                /\ cmdline' = [cmdline EXCEPT
                       !.in_chosen = @ \/ (Len(open) = 1 /\ new.hw = "chosen")]
         /\ open' \in Seq(Node) /\ Len(open') = Len(open) + 1
         /\ \A k \in 1 .. Len(open) : open'[k] = open[k]
         /\ open'[Len(open) + 1] = Len(nodes) + 1
<1>1. PICK hw \in Hardware :
        /\ nodes' = Append(nodes, [hw |-> hw, depth |-> Len(open), props |-> {}, ended |-> FALSE])
        /\ cmdline' = [cmdline EXCEPT !.in_chosen = @ \/ (Len(open) = 1 /\ hw = "chosen")]
  BY DEF BeginNode, Begin, Enter
<1> DEFINE new == [hw |-> hw, depth |-> Len(open), props |-> {}, ended |-> FALSE]
<1>2. /\ nodes \in Seq(NodeInfo) /\ Len(nodes) \in Nat
      /\ open \in Seq(Node) /\ Len(open) \in Nat
  BY Types
<1>3. new \in NodeInfo /\ new.depth = Len(open) /\ new.props = {} /\ new.ended = FALSE /\ new.hw = hw
  BY <1>2 DEF NodeInfo
<1>4. nodes' = Append(nodes, new)
  BY <1>1
<1> HIDE DEF new
<1>5. /\ nodes' \in Seq(NodeInfo) /\ Len(nodes') = Len(nodes) + 1
      /\ \A n \in 1 .. Len(nodes) : nodes'[n] = nodes[n]
      /\ nodes'[Len(nodes) + 1] = new
  BY <1>2, <1>3, <1>4, AppendProperties
<1>6. Len(nodes) + 1 \in Node /\ open' = Append(open, Len(nodes) + 1)
  BY <1>2, ScanAssumption DEF BeginNode, Begin, Node
<1>7. /\ open' \in Seq(Node) /\ Len(open') = Len(open) + 1
      /\ \A k \in 1 .. Len(open) : open'[k] = open[k]
      /\ open'[Len(open) + 1] = Len(nodes) + 1
  BY <1>2, <1>6, AppendProperties
<1>8. QED BY <1>1, <1>3, <1>5, <1>7

(* Beginning a node preserves the invariant. *)
LEMMA BeginInv ==
  ASSUME IInv, BeginNode PROVE IInv'
<1>a. PICK n : n = Len(nodes)
  OBVIOUS
<1>b. PICK l : l = Len(open)
  OBVIOUS
<1>c. PICK new : new = nodes'[n + 1]
  OBVIOUS
<1>0. /\ TypeOK /\ PathOK /\ CurrentOK /\ PropsOK /\ EntriesOK /\ CountOK
      /\ LeavesReported /\ BoundedReports /\ InChosen /\ ArgsOK /\ ReturnedOK
  BY DEF IInv
<1>1. /\ n \in Nat /\ DOMAIN nodes = 1 .. n /\ l \in Nat /\ DOMAIN open = 1 .. l
      /\ DOMAIN registry = 1 .. Len(registry) /\ Len(registry) \in Nat
      /\ \A i \in 1 .. Len(registry) : registry[i].name \in Nat
      /\ \A m \in 1 .. n : nodes[m].depth \in Nat
  BY <1>a, <1>b, <1>c, <1>0, Types
<1>2. /\ nodes' \in Seq(NodeInfo) /\ Len(nodes') = n + 1 /\ \A m \in 1 .. n : nodes'[m] = nodes[m]
      /\ new.depth = l /\ new.props = {} /\ ~new.ended
      /\ cmdline' = [cmdline EXCEPT !.in_chosen = @ \/ (l = 1 /\ new.hw = "chosen")]
      /\ open' \in Seq(Node) /\ Len(open') = l + 1
      /\ \A k \in 1 .. l : open'[k] = open[k]
      /\ open'[l + 1] = n + 1
  BY <1>a, <1>b, <1>c, <1>0, Begun
<1>3. /\ walk = "walking" /\ n < MaxNodes /\ (open = <<>> => nodes = <<>>)
      /\ current' = [NoDevice EXCEPT !.name = n + 1, !.depth = l]
      /\ UNCHANGED <<found, registry, walk, tree>>
  BY <1>a, <1>b DEF BeginNode, Begin
<1>4. MaxNodes \in Nat /\ MaxPci \in Nat
  BY ScanAssumption
<1>5. DOMAIN nodes' = 1 .. n + 1 /\ DOMAIN open' = 1 .. l + 1
  BY <1>a, <1>b, <1>c, <1>2, LenProperties
<1>6. nodes' # <<>> /\ open' # <<>>
  BY <1>a, <1>b, <1>c, <1>1, <1>2, EmptySeq
<1>7. open = <<>> <=> l = 0
  BY <1>a, <1>b, <1>c, <1>0, <1>1, Types, EmptySeq
<1>8. nodes = <<>> <=> n = 0
  BY <1>a, <1>b, <1>c, <1>0, <1>1, Types, EmptySeq
<1>9. TypeOK'
  <2>1. current' \in [name : 0 .. MaxNodes, depth : Nat, reg : 0 .. MaxNodes,
                  compatible : 0 .. MaxNodes, has_reg : BOOLEAN,
                  has_compatible : BOOLEAN]
    <3>1. current' = [name |-> n + 1, depth |-> l, reg |-> 0, compatible |-> 0,
                      has_reg |-> FALSE, has_compatible |-> FALSE]
      BY <1>3 DEF NoDevice
    <3>2. n + 1 \in 0 .. MaxNodes /\ 0 \in 0 .. MaxNodes
      BY <1>1, <1>3, <1>4
    <3>3. QED BY <1>1, <3>1, <3>2
  <2>2. cmdline' \in [in_chosen : BOOLEAN, bootargs : 0 .. MaxNodes, returned : 0 .. MaxNodes]
    BY <1>0, <1>2 DEF TypeOK
  <2>3. nodes' \in Seq(NodeInfo) /\ open' \in Seq(Node)
    BY <1>2
  <2>4. QED BY <1>0, <1>3, <2>1, <2>2, <2>3 DEF TypeOK, NodeInfo
<1>10. PathOK'
  <2>1. ASSUME NEW k \in 1 .. l + 1
        PROVE  open'[k] \in 1 .. n + 1 /\ nodes'[open'[k]].depth = k - 1 /\ ~nodes'[open'[k]].ended
    <3>1. CASE k = l + 1
      BY <1>1, <1>2, <3>1, <1>c
    <3>2. CASE k # l + 1
      <4>1. k \in 1 .. l
        BY <1>1, <3>2
      <4>2. open[k] \in 1 .. n /\ nodes[open[k]].depth = k - 1 /\ ~nodes[open[k]].ended
        BY <1>0, <1>1, <4>1 DEF PathOK
      <4>3. QED BY <1>1, <1>2, <4>1, <4>2
    <3>3. QED BY <3>1, <3>2
  <2>2. ASSUME NEW k \in 1 .. l + 1, NEW m \in 1 .. n + 1, m > open'[k]
        PROVE  nodes'[m].depth >= k
    <3>1. k \in 1 .. l
      <4> SUFFICES ASSUME k = l + 1 PROVE FALSE
        BY <1>1
      <4> QED BY <1>1, <1>2, <2>2
    <3>2. open'[k] = open[k]
      BY <1>2, <3>1
    <3>3. CASE m = n + 1
      BY <1>1, <1>2, <3>1, <3>3, <1>c
    <3>4. CASE m \in 1 .. n
      <4>1. nodes[m].depth >= k
        BY <1>0, <1>1, <2>2, <3>1, <3>2, <3>4 DEF PathOK
      <4>2. QED BY <1>2, <3>4, <4>1
    <3>5. QED BY <1>1, <3>3, <3>4
  <2>3. open'[1] = 1
    BY <1>0, <1>1, <1>2, <1>3, <1>7, <1>8 DEF PathOK
  <2>4. QED BY <1>5, <2>1, <2>2, <2>3 DEF PathOK
<1>11. CurrentOK'
  <2>1. /\ current'.name = n + 1 /\ current'.depth = l
        /\ current'.has_reg = FALSE /\ current'.has_compatible = FALSE
    BY <1>3 DEF NoDevice
  <2>2. Len(nodes)' = n + 1 /\ nodes'[n + 1].props = {} /\ nodes'[n + 1].depth = l
    BY <1>2, <1>c
  <2>3. QED BY <2>1, <2>2 DEF CurrentOK
<1>12. PropsOK'
  BY <1>0, <1>1, <1>2, <1>5, <1>c DEF PropsOK
<1>13. EntriesOK'
  <2>1. ASSUME NEW i \in DOMAIN registry
        PROVE  /\ registry[i].name <= n + 1
               /\ registry[i].name # 0 =>
                    /\ registry[i].reg = registry[i].name
                    /\ registry[i].compatible = registry[i].name
                    /\ registry[i].depth = nodes'[registry[i].name].depth
                    /\ IsDevice(registry[i].name)'
    <3>1. registry[i].name <= n /\ registry[i].name \in Nat
      BY <1>0, <1>1, <1>a DEF EntriesOK
    <3>2. registry[i].name # 0 => nodes'[registry[i].name] = nodes[registry[i].name]
      BY <1>1, <1>2, <3>1
    <3>3. QED BY <1>0, <1>1, <1>3, <3>1, <3>2 DEF EntriesOK, IsDevice
  <2>2. QED BY <1>2, <1>3, <2>1 DEF EntriesOK
<1>14. \A m : Reports(m)' = Reports(m)
  BY <1>3 DEF Reports
<1>15. Reports(n + 1) = {}
  BY <1>0, <1>1, <1>a DEF Reports, EntriesOK
<1>16. CountOK'
  <2>1. Cardinality(Reports(n + 1)') = 0
    BY <1>14, <1>15, FS_EmptySet
  <2>2. found' = found /\ found \in Nat
    BY <1>0, <1>3, <1>4 DEF TypeOK
  <2>3. found + l <= MaxPci + n
    BY <1>0, <1>a, <1>b DEF CountOK
  <2>4. found' + (l + 1) <= MaxPci + (n + 1) /\ n + 1 <= MaxNodes
    BY <1>1, <1>3, <1>4, <2>2, <2>3
  <2>5. Cardinality(Reports(n + 1)') + (l + 1) <= nodes'[n + 1].depth + 1
    BY <1>1, <1>2, <2>1, <1>c
  <2>6. QED BY <1>2, <2>4, <2>5 DEF CountOK
<1>17. LeavesReported'
  <2> SUFFICES ASSUME NEW m \in 1 .. n + 1,
                      nodes'[m].ended, IsLeaf(m)', IsDevice(m)', ~RegistryFull'
               PROVE  Reports(m)' # {}
    BY <1>5 DEF LeavesReported
  <2>1. m \in 1 .. n
    BY <1>1, <1>2, <1>c
  <2>2. nodes'[m] = nodes[m]
    BY <1>2, <2>1
  <2>3. IsLeaf(m)
    <3>1. CASE m = n
      BY <3>1, <1>a DEF IsLeaf
    <3>2. CASE m # n
      <4>1. m + 1 \in 1 .. n /\ m # n + 1
        BY <1>1, <2>1, <3>2
      <4>2. nodes'[m + 1] = nodes[m + 1]
        BY <1>2, <4>1
      <4>3. QED BY <1>2, <2>2, <4>1, <4>2 DEF IsLeaf
    <3>3. QED BY <3>1, <3>2
  <2>4. IsDevice(m) /\ ~RegistryFull
    BY <1>3, <2>2 DEF IsDevice, RegistryFull
  <2>5. QED BY <1>0, <1>1, <1>14, <2>1, <2>2, <2>3, <2>4 DEF LeavesReported
<1>18. BoundedReports'
  <2>1. ASSUME NEW m \in 1 .. n + 1
        PROVE  Cardinality(Reports(m))' <= nodes'[m].depth + 1
    <3>1. CASE m = n + 1
      <4>1. Cardinality(Reports(m))' = 0
        BY <1>14, <1>15, <3>1, FS_EmptySet
      <4>2. QED BY <1>1, <1>2, <3>1, <4>1, <1>c
    <3>2. CASE m \in 1 .. n
      <4>1. Cardinality(Reports(m)) <= nodes[m].depth + 1
        BY <1>0, <1>1, <3>2 DEF BoundedReports
      <4>2. QED BY <1>2, <1>14, <3>2, <4>1
    <3>3. QED BY <1>1, <3>1, <3>2
  <2>2. QED BY <1>0, <1>3, <1>5, <2>1 DEF BoundedReports
<1>19. InChosen'
  <2>1. cmdline'.in_chosen <=> (cmdline.in_chosen \/ (l = 1 /\ new.hw = "chosen"))
    BY <1>0, <1>2 DEF TypeOK
  <2>2. cmdline.in_chosen <=> (l >= 2 /\ nodes[open[2]].hw = "chosen")
    BY <1>0, <1>b DEF InChosen
  <2>3. CASE l >= 2
    <3>1. 2 \in 1 .. l
      BY <1>1, <2>3
    <3>2. open[2] \in 1 .. n
      BY <1>0, <1>1, <3>1 DEF PathOK
    <3>3. nodes'[open'[2]] = nodes[open[2]]
      BY <1>2, <3>1, <3>2
    <3>4. QED BY <1>1, <1>2, <2>1, <2>2, <2>3, <3>3 DEF InChosen
  <2>4. CASE l = 1
    <3>1. open'[2] = n + 1
      BY <1>2, <2>4
    <3>2. nodes'[open'[2]] = new
      BY <3>1, <1>c
    <3>3. QED BY <1>2, <2>1, <2>2, <2>4, <3>2 DEF InChosen
  <2>5. CASE l = 0
    BY <1>2, <2>1, <2>2, <2>5 DEF InChosen
  <2>6. QED BY <1>1, <2>3, <2>4, <2>5
<1>20. ChosenArgs' = ChosenArgs
  <2>1. ChosenArgs' = {m \in 1 .. n + 1 : "bootargs" \in nodes'[m].props /\ UnderChosen(m)'}
    BY <1>2, <1>9, ChosenArgsNext
  <2>2. ChosenArgs = {m \in 1 .. n : "bootargs" \in nodes[m].props /\ UnderChosen(m)}
    BY <1>0, ChosenArgsIs, <1>a
  <2>3. ASSUME NEW m \in 1 .. n PROVE UnderChosen(m)' <=> UnderChosen(m)
    BY <1>0, <1>2, UnderSame, <1>a
  <2>4. ~("bootargs" \in nodes'[n + 1].props)
    BY <1>2, <1>c
  <2>5. \A m \in 1 .. n + 1 : m \in 1 .. n \/ m = n + 1
    BY <1>1
  <2>6. \A m \in 1 .. n : m \in 1 .. n + 1
    BY <1>1
  <2>7. QED BY <1>2, <2>1, <2>2, <2>3, <2>4, <2>5, <2>6
<1>21. ArgsOK' /\ ReturnedOK'
  <2>1. cmdline'.bootargs = cmdline.bootargs /\ cmdline'.returned = cmdline.returned
    BY <1>0, <1>2 DEF TypeOK
  <2>2. QED BY <1>0, <1>3, <1>20, <2>1 DEF ArgsOK, ReturnedOK
<1>22. QED
  BY <1>9, <1>10, <1>11, <1>12, <1>13, <1>16, <1>17, <1>18, <1>19, <1>21 DEF IInv

----------------------------------------------------------------------------
(* FDT_PROP adds a property to the node begun last, which is open. *)
LEMMA PropRead ==
  ASSUME TypeOK, PathOK, NEW name \in {"reg", "compatible", "bootargs"}, Prop(name),
         NEW n, n = Len(nodes)
  PROVE  /\ n \in Nat \ {0} /\ Top = n /\ open # <<>> /\ n <= MaxNodes
         /\ nodes' \in Seq(NodeInfo) /\ Len(nodes') = n
         /\ \A m \in 1 .. n : /\ nodes'[m].hw = nodes[m].hw /\ nodes'[m].depth = nodes[m].depth
                              /\ nodes'[m].ended = nodes[m].ended
                              /\ m # n => nodes'[m] = nodes[m]
         /\ nodes'[n].props = nodes[n].props \cup {name}
         /\ name \notin nodes[n].props /\ ~nodes[n].ended
         /\ UNCHANGED <<found, registry, walk, tree, open>> /\ walk = "walking"
<1>1. /\ Top = n /\ open # <<>> /\ walk = "walking" /\ name \notin nodes[n].props
      /\ nodes' = [nodes EXCEPT ![n].props = @ \cup {name}]
      /\ UNCHANGED <<found, registry, walk, tree, open>>
  BY DEF Prop
<1>2. /\ nodes \in Seq(NodeInfo) /\ n \in Nat /\ DOMAIN nodes = 1 .. n
      /\ Len(open) \in Nat \ {0} /\ DOMAIN open = 1 .. Len(open) /\ open[Len(open)] \in Node
  BY <1>1, Types, EmptySeq
<1>3. Len(open) \in DOMAIN open
  BY <1>2
<1>4. n \in 1 .. n /\ ~nodes[n].ended /\ n \in Node
  BY <1>1, <1>2, <1>3 DEF PathOK, Top
<1>5. n \in Nat \ {0} /\ n <= MaxNodes
  BY <1>4, ScanAssumption DEF Node
<1>6. /\ \A m \in 1 .. n : nodes[m] \in NodeInfo
      /\ nodes[n].props \in SUBSET {"reg", "compatible", "bootargs"}
  BY <1>4, Types
<1> DEFINE e == [nodes[n] EXCEPT !.props = @ \cup {name}]
<1>7. /\ e \in NodeInfo /\ e.hw = nodes[n].hw /\ e.depth = nodes[n].depth
      /\ e.ended = nodes[n].ended /\ e.props = nodes[n].props \cup {name}
  BY <1>4, <1>6 DEF NodeInfo
<1>8. nodes' = [nodes EXCEPT ![n] = e]
  BY <1>1
<1> HIDE DEF e
<1>9. /\ nodes' \in Seq(NodeInfo) /\ Len(nodes') = n
      /\ \A m \in 1 .. n : nodes'[m] = IF m = n THEN e ELSE nodes[m]
  <2>1. n \in 1 .. Len(nodes) /\ e \in NodeInfo
    BY <1>4, <1>7
  <2>2. /\ [nodes EXCEPT ![n] = e] \in Seq(NodeInfo)
        /\ Len([nodes EXCEPT ![n] = e]) = Len(nodes)
        /\ \A m \in 1 .. Len(nodes) : [nodes EXCEPT ![n] = e][m] = IF m = n THEN e ELSE nodes[m]
    BY <1>2, <2>1, SeqWrite
  <2>3. QED BY <1>8, <2>2
<1>10. QED BY <1>1, <1>4, <1>5, <1>7, <1>9

(* A property changes neither the path nor what was reported. *)
LEMMA PropKeeps ==
  ASSUME IInv, NEW name \in {"reg", "compatible", "bootargs"}, Prop(name),
         name = "bootargs" => nodes[Top].props = {}
  PROVE  /\ PathOK' /\ EntriesOK' /\ CountOK' /\ LeavesReported' /\ BoundedReports'
         /\ (cmdline'.in_chosen = cmdline.in_chosen => InChosen')
<1>a. PICK n : n = Len(nodes)
  OBVIOUS
<1>0. /\ TypeOK /\ PathOK /\ EntriesOK /\ CountOK
      /\ LeavesReported /\ BoundedReports /\ InChosen
  BY DEF IInv
<1>1. /\ n \in Nat \ {0} /\ Top = n /\ Len(nodes') = n /\ nodes' \in Seq(NodeInfo)
      /\ \A m \in 1 .. n : /\ nodes'[m].hw = nodes[m].hw /\ nodes'[m].depth = nodes[m].depth
                           /\ nodes'[m].ended = nodes[m].ended
                           /\ m # n => nodes'[m] = nodes[m]
      /\ name \notin nodes[n].props /\ ~nodes[n].ended
      /\ UNCHANGED <<found, registry, walk, tree, open>>
  BY <1>0, <1>a, PropRead
<1>2. /\ DOMAIN nodes = 1 .. n /\ DOMAIN registry = 1 .. Len(registry)
      /\ \A i \in 1 .. Len(registry) : registry[i].name \in Nat
      /\ DOMAIN open = 1 .. Len(open) /\ Len(open) \in Nat
  BY <1>0, <1>a, Types
<1>3. DOMAIN nodes' = 1 .. n /\ n \in 1 .. n
  BY <1>1, LenProperties
<1>4. PathOK'
  <2>1. \A k \in DOMAIN open : open[k] \in 1 .. n /\ nodes'[open[k]].depth = k - 1 /\ ~nodes'[open[k]].ended
    BY <1>0, <1>1, <1>2 DEF PathOK
  <2>2. \A k \in DOMAIN open : \A m \in 1 .. n : m > open[k] => nodes'[m].depth >= k
    BY <1>0, <1>1, <1>2 DEF PathOK
  <2>3. QED BY <1>0, <1>1, <1>3, <2>1, <2>2 DEF PathOK
<1>5. EntriesOK'
  <2>1. ASSUME NEW i \in DOMAIN registry, registry[i].name # 0
        PROVE  nodes'[registry[i].name] = nodes[registry[i].name] /\ registry[i].name \in 1 .. n
    <3>1. registry[i].name \in 1 .. n
      BY <1>0, <1>1, <1>2, <1>a, <2>1 DEF EntriesOK
    <3>2. IsDevice(registry[i].name)
      BY <1>0, <2>1 DEF EntriesOK
    <3>3. registry[i].name # n
      BY <1>1, <3>2 DEF IsDevice
    <3>4. QED BY <1>1, <3>1, <3>3
  <2>2. QED BY <1>0, <1>1, <1>a, <2>1 DEF EntriesOK, IsDevice
<1>6. \A m : Reports(m)' = Reports(m)
  BY <1>1 DEF Reports
<1>7. CountOK'
  <2>1. nodes # <<>>
    BY <1>1, <1>a
  <2>2. Cardinality(Reports(n)) + Len(open) <= nodes[n].depth + 1
    BY <1>0, <1>a, <2>1 DEF CountOK
  <2>3. Cardinality(Reports(n)') + Len(open') <= nodes'[n].depth + 1
    BY <1>1, <1>3, <1>6, <2>2
  <2>4. QED BY <1>0, <1>1, <1>a, <2>3 DEF CountOK
<1>8. LeavesReported'
  <2> SUFFICES ASSUME NEW m \in 1 .. n,
                      nodes'[m].ended, IsLeaf(m)', IsDevice(m)', ~RegistryFull'
               PROVE  Reports(m)' # {}
    BY <1>3 DEF LeavesReported
  <2>1. m # n /\ nodes'[m] = nodes[m]
    BY <1>1
  <2>2. m + 1 \in 1 .. n
    BY <1>1, <2>1
  <2>3. IsLeaf(m) /\ IsDevice(m) /\ ~RegistryFull
    BY <1>1, <2>1, <2>2 DEF IsLeaf, IsDevice, RegistryFull
  <2>4. QED BY <1>0, <1>2, <1>6, <2>1, <2>3 DEF LeavesReported
<1>9. BoundedReports'
  BY <1>0, <1>1, <1>2, <1>3, <1>6 DEF BoundedReports
<1>10. ASSUME cmdline'.in_chosen = cmdline.in_chosen PROVE InChosen'
  <2>1. Len(open) >= 2 => nodes'[open[2]].hw = nodes[open[2]].hw
    <3> SUFFICES ASSUME Len(open) >= 2 PROVE nodes'[open[2]].hw = nodes[open[2]].hw
      OBVIOUS
    <3>1. open[2] \in 1 .. n
      BY <1>0, <1>2 DEF PathOK
    <3>2. QED BY <1>1, <3>1
  <2>2. QED BY <1>0, <1>1, <1>10, <2>1 DEF InChosen
<1>11. QED BY <1>4, <1>5, <1>7, <1>8, <1>9, <1>10

(* The properties a string is kept from change with bootargs only. *)
LEMMA PropArgs ==
  ASSUME IInv, TypeOK', NEW name \in {"reg", "compatible", "bootargs"}, Prop(name)
  PROVE  /\ name # "bootargs" => ChosenArgs' = ChosenArgs
         /\ name = "bootargs" =>
              ChosenArgs' = ChosenArgs \cup (IF cmdline.in_chosen THEN {Len(nodes)} ELSE {})
<1>a. PICK n : n = Len(nodes)
  OBVIOUS
<1>0. TypeOK /\ PathOK /\ InChosen
  BY DEF IInv
<1>1. /\ n \in Nat \ {0} /\ Top = n /\ open # <<>> /\ Len(nodes') = n
      /\ \A m \in 1 .. n : /\ nodes'[m].hw = nodes[m].hw /\ nodes'[m].depth = nodes[m].depth
                           /\ m # n => nodes'[m] = nodes[m]
      /\ nodes'[n].props = nodes[n].props \cup {name} /\ name \notin nodes[n].props
  BY <1>0, <1>a, PropRead
<1>2. ChosenArgs = {m \in 1 .. n : "bootargs" \in nodes[m].props /\ UnderChosen(m)}
  BY <1>0, <1>a, ChosenArgsIs
<1>3. ChosenArgs' = {m \in 1 .. n : "bootargs" \in nodes'[m].props /\ UnderChosen(m)'}
  BY <1>1, ChosenArgsNext
<1>4. ASSUME NEW m \in 1 .. n PROVE UnderChosen(m)' <=> UnderChosen(m)
  BY <1>0, <1>1, <1>a, UnderSame
<1>5. UnderChosen(n) <=> cmdline.in_chosen
  BY <1>0, <1>1, <1>a, UnderOpen
<1>6. n \in 1 .. n
  BY <1>1
<1>7. CASE name # "bootargs"
  <2>1. \A m \in 1 .. n : "bootargs" \in nodes'[m].props <=> "bootargs" \in nodes[m].props
    BY <1>1, <1>7
  <2>2. QED BY <1>2, <1>3, <1>4, <1>7, <2>1
<1>8. CASE name = "bootargs"
  <2>1. \A m \in 1 .. n : "bootargs" \in nodes'[m].props <=> (m = n \/ "bootargs" \in nodes[m].props)
    BY <1>1, <1>8
  <2>2. QED BY <1>2, <1>3, <1>4, <1>5, <1>6, <1>8, <1>a, <2>1
<1>9. QED BY <1>7, <1>8

(* Reading reg preserves the invariant. *)
LEMMA PropRegInv ==
  ASSUME IInv, PropReg PROVE IInv'
<1>a. PICK n : n = Len(nodes)
  OBVIOUS
<1>0. TypeOK /\ PathOK /\ CurrentOK /\ PropsOK /\ ArgsOK /\ ReturnedOK
  BY DEF IInv
<1>1. /\ n \in Nat \ {0} /\ Top = n /\ n <= MaxNodes /\ Len(nodes') = n /\ nodes' \in Seq(NodeInfo)
      /\ \A m \in 1 .. n : nodes'[m].depth = nodes[m].depth /\ (m # n => nodes'[m] = nodes[m])
      /\ nodes'[n].props = nodes[n].props \cup {"reg"}
      /\ UNCHANGED <<found, registry, walk, tree, open>>
  <2>1. Prop("reg") /\ "reg" \in {"reg", "compatible", "bootargs"}
    BY DEF PropReg
  <2>2. QED BY <1>0, <1>a, <2>1, PropRead
<1>2. /\ current' = [current EXCEPT !.reg = n, !.has_reg = TRUE] /\ cmdline' = cmdline
      /\ "bootargs" \notin nodes[n].props
  BY <1>1 DEF PropReg, IsText
<1>3. current \in [name : 0 .. MaxNodes, depth : Nat, reg : 0 .. MaxNodes,
                   compatible : 0 .. MaxNodes, has_reg : BOOLEAN, has_compatible : BOOLEAN]
  BY <1>0 DEF TypeOK
<1>4. /\ current' \in [name : 0 .. MaxNodes, depth : Nat, reg : 0 .. MaxNodes,
                       compatible : 0 .. MaxNodes, has_reg : BOOLEAN, has_compatible : BOOLEAN]
      /\ current'.name = current.name /\ current'.depth = current.depth
      /\ current'.reg = n /\ current'.has_reg = TRUE
      /\ current'.compatible = current.compatible
      /\ current'.has_compatible = current.has_compatible
  <2>1. n \in 0 .. MaxNodes
    BY <1>1, ScanAssumption
  <2>2. QED BY <1>2, <1>3, <2>1
<1>5. TypeOK'
  BY <1>0, <1>1, <1>2, <1>4 DEF TypeOK, NodeInfo
<1>6. nodes # <<>> /\ n \in 1 .. n /\ DOMAIN nodes' = 1 .. n /\ DOMAIN nodes = 1 .. n
  BY <1>0, <1>1, <1>a, Types, LenProperties
<1>7. CurrentOK'
  <2>1. /\ current.name = n /\ current.depth = nodes[n].depth
        /\ current.has_compatible <=> "compatible" \in nodes[n].props
        /\ current.has_compatible => current.compatible = n
    BY <1>0, <1>6, <1>a DEF CurrentOK
  <2>2. /\ "reg" \in nodes'[n].props /\ nodes'[n].depth = nodes[n].depth
        /\ "compatible" \in nodes'[n].props <=> "compatible" \in nodes[n].props
    BY <1>1, <1>6
  <2>3. QED BY <1>1, <1>4, <2>1, <2>2 DEF CurrentOK
<1>8. PropsOK'
  BY <1>0, <1>1, <1>2, <1>6 DEF PropsOK
<1>9. /\ PathOK' /\ EntriesOK' /\ CountOK' /\ LeavesReported' /\ BoundedReports' /\ InChosen'
      /\ ChosenArgs' = ChosenArgs
  <2>1. Prop("reg") /\ "reg" \in {"reg", "compatible", "bootargs"} /\ "reg" # "bootargs"
    BY DEF PropReg
  <2>2. QED BY <1>2, <1>5, <2>1, PropKeeps, PropArgs
<1>10. ArgsOK' /\ ReturnedOK'
  BY <1>0, <1>1, <1>2, <1>9 DEF ArgsOK, ReturnedOK
<1>11. QED BY <1>5, <1>7, <1>8, <1>9, <1>10 DEF IInv

(* Reading compatible preserves the invariant. *)
LEMMA PropCompatibleInv ==
  ASSUME IInv, PropCompatible PROVE IInv'
<1>a. PICK n : n = Len(nodes)
  OBVIOUS
<1>0. TypeOK /\ PathOK /\ CurrentOK /\ PropsOK /\ ArgsOK /\ ReturnedOK
  BY DEF IInv
<1>1. /\ n \in Nat \ {0} /\ Top = n /\ n <= MaxNodes /\ Len(nodes') = n /\ nodes' \in Seq(NodeInfo)
      /\ \A m \in 1 .. n : nodes'[m].depth = nodes[m].depth /\ (m # n => nodes'[m] = nodes[m])
      /\ nodes'[n].props = nodes[n].props \cup {"compatible"}
      /\ UNCHANGED <<found, registry, walk, tree, open>>
  <2>1. Prop("compatible") /\ "compatible" \in {"reg", "compatible", "bootargs"}
    BY DEF PropCompatible
  <2>2. QED BY <1>0, <1>a, <2>1, PropRead
<1>2. /\ current' = [current EXCEPT !.compatible = n, !.has_compatible = TRUE]
      /\ cmdline' = cmdline /\ "bootargs" \notin nodes[n].props
  BY <1>1 DEF PropCompatible, IsText
<1>3. current \in [name : 0 .. MaxNodes, depth : Nat, reg : 0 .. MaxNodes,
                   compatible : 0 .. MaxNodes, has_reg : BOOLEAN, has_compatible : BOOLEAN]
  BY <1>0 DEF TypeOK
<1>4. /\ current' \in [name : 0 .. MaxNodes, depth : Nat, reg : 0 .. MaxNodes,
                       compatible : 0 .. MaxNodes, has_reg : BOOLEAN, has_compatible : BOOLEAN]
      /\ current'.name = current.name /\ current'.depth = current.depth
      /\ current'.compatible = n /\ current'.has_compatible = TRUE
      /\ current'.reg = current.reg /\ current'.has_reg = current.has_reg
  <2>1. n \in 0 .. MaxNodes
    BY <1>1, ScanAssumption
  <2>2. QED BY <1>2, <1>3, <2>1
<1>5. TypeOK'
  BY <1>0, <1>1, <1>2, <1>4 DEF TypeOK, NodeInfo
<1>6. nodes # <<>> /\ n \in 1 .. n /\ DOMAIN nodes' = 1 .. n /\ DOMAIN nodes = 1 .. n
  BY <1>0, <1>1, <1>a, Types, LenProperties
<1>7. CurrentOK'
  <2>1. /\ current.name = n /\ current.depth = nodes[n].depth
        /\ current.has_reg <=> "reg" \in nodes[n].props
        /\ current.has_reg => current.reg = n
    BY <1>0, <1>6, <1>a DEF CurrentOK
  <2>2. /\ "compatible" \in nodes'[n].props /\ nodes'[n].depth = nodes[n].depth
        /\ "reg" \in nodes'[n].props <=> "reg" \in nodes[n].props
    BY <1>1, <1>6
  <2>3. QED BY <1>1, <1>4, <2>1, <2>2 DEF CurrentOK
<1>8. PropsOK'
  BY <1>0, <1>1, <1>2, <1>6 DEF PropsOK
<1>9. /\ PathOK' /\ EntriesOK' /\ CountOK' /\ LeavesReported' /\ BoundedReports' /\ InChosen'
      /\ ChosenArgs' = ChosenArgs
  <2>1. Prop("compatible") /\ "compatible" \in {"reg", "compatible", "bootargs"}
        /\ "compatible" # "bootargs"
    BY DEF PropCompatible
  <2>2. QED BY <1>2, <1>5, <2>1, PropKeeps, PropArgs
<1>10. ArgsOK' /\ ReturnedOK'
  BY <1>0, <1>1, <1>2, <1>9 DEF ArgsOK, ReturnedOK
<1>11. QED BY <1>5, <1>7, <1>8, <1>9, <1>10 DEF IInv

(* Reading bootargs preserves the invariant: in a chosen subtree the new   *)
(* string replaces the one before it.                                      *)
LEMMA PropBootargsInv ==
  ASSUME IInv, PropBootargs PROVE IInv'
<1>a. PICK n : n = Len(nodes)
  OBVIOUS
<1>0. TypeOK /\ PathOK /\ CurrentOK /\ PropsOK /\ ArgsOK /\ ReturnedOK
  BY DEF IInv
<1>1. /\ n \in Nat \ {0} /\ Top = n /\ n <= MaxNodes /\ Len(nodes') = n /\ nodes' \in Seq(NodeInfo)
      /\ \A m \in 1 .. n : nodes'[m].depth = nodes[m].depth /\ (m # n => nodes'[m] = nodes[m])
      /\ nodes'[n].props = nodes[n].props \cup {"bootargs"}
      /\ UNCHANGED <<found, registry, walk, tree, open>> /\ walk = "walking"
  <2>1. Prop("bootargs") /\ "bootargs" \in {"reg", "compatible", "bootargs"}
    BY DEF PropBootargs
  <2>2. QED BY <1>0, <1>a, <2>1, PropRead
<1>2. /\ current' = current /\ nodes[n].props = {}
      /\ cmdline' = IF cmdline.in_chosen THEN [cmdline EXCEPT !.bootargs = n] ELSE cmdline
  BY <1>1 DEF PropBootargs
<1>3. /\ cmdline' \in [in_chosen : BOOLEAN, bootargs : 0 .. MaxNodes, returned : 0 .. MaxNodes]
      /\ cmdline'.in_chosen = cmdline.in_chosen /\ cmdline'.returned = cmdline.returned
      /\ cmdline'.bootargs = IF cmdline.in_chosen THEN n ELSE cmdline.bootargs
  <2>1. cmdline \in [in_chosen : BOOLEAN, bootargs : 0 .. MaxNodes, returned : 0 .. MaxNodes]
    BY <1>0 DEF TypeOK
  <2>2. n \in 0 .. MaxNodes
    BY <1>1, ScanAssumption
  <2>3. QED BY <1>2, <2>1, <2>2
<1>4. TypeOK'
  BY <1>0, <1>1, <1>2, <1>3 DEF TypeOK, NodeInfo
<1>5. nodes # <<>> /\ n \in 1 .. n /\ DOMAIN nodes' = 1 .. n /\ DOMAIN nodes = 1 .. n
  BY <1>0, <1>1, <1>a, Types, LenProperties
<1>6. CurrentOK'
  <2>1. /\ current.name = n /\ current.depth = nodes[n].depth
        /\ current.has_reg <=> "reg" \in nodes[n].props
        /\ current.has_compatible <=> "compatible" \in nodes[n].props
        /\ current.has_reg => current.reg = n
        /\ current.has_compatible => current.compatible = n
    BY <1>0, <1>5, <1>a DEF CurrentOK
  <2>2. /\ "compatible" \in nodes'[n].props <=> "compatible" \in nodes[n].props
        /\ "reg" \in nodes'[n].props <=> "reg" \in nodes[n].props
        /\ nodes'[n].depth = nodes[n].depth
    BY <1>1, <1>5
  <2>3. QED BY <1>1, <1>2, <2>1, <2>2 DEF CurrentOK
<1>7. PropsOK'
  BY <1>0, <1>1, <1>2, <1>5 DEF PropsOK
<1>8. /\ PathOK' /\ EntriesOK' /\ CountOK' /\ LeavesReported' /\ BoundedReports' /\ InChosen'
      /\ ChosenArgs' = ChosenArgs \cup (IF cmdline.in_chosen THEN {n} ELSE {})
  <2>1. Prop("bootargs") /\ "bootargs" \in {"reg", "compatible", "bootargs"}
    BY DEF PropBootargs
  <2>2. QED BY <1>1, <1>2, <1>3, <1>4, <1>a, <2>1, PropKeeps, PropArgs
<1>9. \A m \in ChosenArgs : m <= n
  <2>1. ChosenArgs \subseteq 1 .. n
    BY <1>0, <1>a, ChosenArgsIs
  <2>2. QED BY <1>1, <2>1
<1>10. ArgsOK'
  <2>1. CASE cmdline.in_chosen
    BY <1>1, <1>3, <1>8, <1>9, <2>1 DEF ArgsOK
  <2>2. CASE ~cmdline.in_chosen
    BY <1>0, <1>3, <1>8, <2>2 DEF ArgsOK
  <2>3. QED BY <2>1, <2>2
<1>11. ReturnedOK'
  BY <1>0, <1>1, <1>3 DEF ReturnedOK
<1>12. QED BY <1>4, <1>6, <1>7, <1>8, <1>10, <1>11 DEF IInv

----------------------------------------------------------------------------
(* FDT_END_NODE closes the innermost open node. *)
LEMMA Ended ==
  ASSUME TypeOK, PathOK, EndNode, NEW n, n = Len(nodes), NEW l, l = Len(open), NEW t, t = Top
  PROVE  /\ n \in Nat \ {0} /\ l \in Nat \ {0} /\ t \in 1 .. n /\ nodes[t].depth = l - 1
         /\ \A m \in 1 .. n : m > t => nodes[m].depth >= l
         /\ nodes' \in Seq(NodeInfo) /\ Len(nodes') = n /\ DOMAIN nodes' = 1 .. n
         /\ \A m \in 1 .. n : /\ nodes'[m].hw = nodes[m].hw /\ nodes'[m].depth = nodes[m].depth
                              /\ nodes'[m].props = nodes[m].props
                              /\ nodes'[m].ended <=> (m = t \/ nodes[m].ended)
         /\ open' \in Seq(Node) /\ Len(open') = l - 1 /\ DOMAIN open' = 1 .. l - 1
         /\ \A k \in 1 .. l - 1 : open'[k] = open[k] /\ k \in 1 .. l
<1>1. /\ open # <<>> /\ open[l] = t /\ open' = SubSeq(open, 1, l - 1)
      /\ nodes' = [nodes EXCEPT ![t].ended = TRUE]
  BY DEF EndNode, End, Top, Front
<1>2. /\ nodes \in Seq(NodeInfo) /\ n \in Nat /\ DOMAIN nodes = 1 .. n
      /\ open \in Seq(Node) /\ l \in Nat \ {0} /\ DOMAIN open = 1 .. l
      /\ \A k \in 1 .. l : open[k] \in Node
      /\ \A m \in 1 .. n : nodes[m] \in NodeInfo
  BY <1>1, Types, EmptySeq
<1>3. l \in DOMAIN open
  BY <1>2
<1>4. t \in 1 .. n /\ nodes[t].depth = l - 1 /\ \A m \in 1 .. n : m > t => nodes[m].depth >= l
  BY <1>1, <1>2, <1>3 DEF PathOK
<1> DEFINE e == [nodes[t] EXCEPT !.ended = TRUE]
<1>5. /\ e \in NodeInfo /\ e.hw = nodes[t].hw /\ e.depth = nodes[t].depth
      /\ e.props = nodes[t].props /\ e.ended = TRUE
  <2>1. nodes[t] \in NodeInfo
    BY <1>2, <1>4
  <2>2. QED BY <2>1 DEF NodeInfo
<1>6. nodes' = [nodes EXCEPT ![t] = e]
  BY <1>1
<1> HIDE DEF e
<1>7. /\ nodes' \in Seq(NodeInfo) /\ Len(nodes') = n
      /\ \A m \in 1 .. n : nodes'[m] = IF m = t THEN e ELSE nodes[m]
  <2>1. t \in 1 .. Len(nodes) /\ e \in NodeInfo
    BY <1>4, <1>5
  <2>2. /\ [nodes EXCEPT ![t] = e] \in Seq(NodeInfo)
        /\ Len([nodes EXCEPT ![t] = e]) = Len(nodes)
        /\ \A m \in 1 .. Len(nodes) : [nodes EXCEPT ![t] = e][m] = IF m = t THEN e ELSE nodes[m]
    BY <1>2, <2>1, SeqWrite
  <2>3. QED BY <1>6, <2>2
<1>8. /\ open' \in Seq(Node) /\ Len(open') = l - 1 /\ \A k \in 1 .. l - 1 : open'[k] = open[k]
  <2>1. 1 \in Int /\ l - 1 \in Int /\ \A k \in 1 .. l - 1 : open[k] \in Node
    BY <1>2
  <2>2. /\ SubSeq(open, 1, l - 1) \in Seq(Node)
        /\ Len(SubSeq(open, 1, l - 1)) = IF 1 <= l - 1 THEN l - 1 - 1 + 1 ELSE 0
        /\ \A k \in 1 .. l - 1 - 1 + 1 : SubSeq(open, 1, l - 1)[k] = open[1 + k - 1]
    BY <2>1, SubSeqProperties
  <2>3. l - 1 - 1 + 1 = l - 1 /\ \A k \in 1 .. l - 1 : 1 + k - 1 = k
    BY <1>2
  <2>4. QED BY <1>1, <1>2, <2>2, <2>3
<1>9. DOMAIN nodes' = 1 .. n /\ DOMAIN open' = 1 .. l - 1
  BY <1>7, <1>8, LenProperties
<1>10. n \in Nat \ {0} /\ \A k \in 1 .. l - 1 : k \in 1 .. l
  BY <1>2, <1>4
<1>11. \A m \in 1 .. n : nodes[m].ended \in BOOLEAN
  BY Types
<1>12. QED BY <1>2, <1>4, <1>5, <1>7, <1>8, <1>9, <1>10, <1>11

(* What an end token adds to the registry: the node begun last, if it is a *)
(* device and there is room, and nothing else.                             *)
LEMMA Registered ==
  ASSUME IInv, EndNode, NEW n, n = Len(nodes), n \in Nat \ {0}, NEW r, r = Len(registry)
  PROVE  /\ found' \in {found, found + 1}
         /\ \/ registry' = registry /\ (IsDevice(n) => RegistryFull)
            \/ /\ r < Capacity /\ IsDevice(n)
               /\ registry' \in Seq(Entry) /\ Len(registry') = r + 1
               /\ \A i \in 1 .. r : registry'[i] = registry[i]
               /\ LET e == registry'[r + 1]
                  IN  e.name = n /\ e.reg = n /\ e.compatible = n /\ e.depth = nodes[n].depth
<1>0. TypeOK /\ CurrentOK /\ PropsOK
  BY DEF IInv
<1>1. nodes # <<>> /\ n \in DOMAIN nodes /\ DOMAIN nodes = 1 .. n
  BY <1>0, Types
<1>2. /\ current.name = n /\ current.depth = nodes[n].depth
      /\ current.has_reg <=> "reg" \in nodes[n].props
      /\ current.has_compatible <=> "compatible" \in nodes[n].props
      /\ current.has_reg => current.reg = n
      /\ current.has_compatible => current.compatible = n
  BY <1>0, <1>1 DEF CurrentOK
<1>3. nodes[n].props \in SUBSET {"reg", "compatible", "bootargs"} /\ nodes[n].depth \in Nat
  BY <1>0, <1>1, Types
<1>4. registry \in Seq(Entry) /\ r \in Nat /\ r <= Capacity /\ Capacity \in Nat
  BY <1>0, Types, ScanAssumption DEF TypeOK
<1>5. CASE ~(current.has_reg /\ current.has_compatible)
  <2>1. registry' = registry /\ found' = found
    BY <1>5 DEF EndNode, End
  <2>2. ~IsDevice(n)
    BY <1>2, <1>5 DEF IsDevice
  <2>3. QED BY <2>1, <2>2
<1>6. CASE current.has_reg /\ current.has_compatible
  <2>1. registry' = probe_virtio_callback(current) /\ found' = found + 1
    BY <1>6 DEF EndNode, End
  <2>2. current.reg = n /\ current.compatible = n /\ nodes[n].props = {"reg", "compatible"}
    BY <1>0, <1>1, <1>2, <1>3, <1>6 DEF PropsOK
  <2>3. IsDevice(n) <=> nodes[n].hw # "empty"
    BY <2>2 DEF IsDevice
  <2>4. registry' = IF IsDevice(n) THEN add_device_to_registry(current) ELSE registry
    BY <1>1, <2>1, <2>2, <2>3 DEF probe_virtio_callback, virtio_mmio_probe_device
  <2>5. CASE ~IsDevice(n)
    BY <2>1, <2>4, <2>5
  <2>6. CASE IsDevice(n) /\ r >= Capacity
    BY <1>4, <2>1, <2>4, <2>6 DEF add_device_to_registry, RegistryFull
  <2>7. CASE IsDevice(n) /\ r < Capacity
    <3>1. registry' = Append(registry, RegistryEntry(current))
      BY <1>4, <2>4, <2>7 DEF add_device_to_registry
    <3>2. /\ RegistryEntry(current).name = n /\ RegistryEntry(current).reg = n
          /\ RegistryEntry(current).compatible = n
          /\ RegistryEntry(current).depth = nodes[n].depth
      BY <1>2, <2>2 DEF RegistryEntry
    <3>3. RegistryEntry(current) \in Entry
      BY <1>0 DEF TypeOK, RegistryEntry, Entry
    <3> DEFINE x == RegistryEntry(current)
    <3> HIDE DEF x
    <3>4. /\ registry' \in Seq(Entry) /\ Len(registry') = r + 1
          /\ \A i \in 1 .. r : registry'[i] = registry[i]
          /\ registry'[r + 1] = x
      <4>1. x \in Entry /\ registry' = Append(registry, x)
        BY <3>1, <3>3 DEF x
      <4>2. QED BY <1>4, <4>1, AppendProperties
    <3>5. QED BY <2>1, <2>7, <3>2, <3>4 DEF x
  <2>8. QED BY <1>4, <2>5, <2>6, <2>7
<1>7. QED BY <1>5, <1>6

(* The reports of a node after an end token: one more at most, and only of *)
(* the node begun last.                                                    *)
LEMMA ReportsAfter ==
  ASSUME IInv, EndNode, NEW n, n = Len(nodes), n \in Nat \ {0}, NEW m \in 1 .. n
  PROVE  /\ m # n => Reports(m)' = Reports(m)
         /\ Reports(m) \subseteq Reports(m)'
         /\ Cardinality(Reports(m)') <= Cardinality(Reports(m)) + 1
         /\ Cardinality(Reports(m)') \in Nat /\ Cardinality(Reports(m)) \in Nat
         /\ (IsDevice(n) /\ ~RegistryFull) => Reports(n)' # {}
         /\ RegistryFull => RegistryFull'
<1>a. PICK r : r = Len(registry)
  OBVIOUS
<1>1. DOMAIN registry = 1 .. r /\ r \in Nat
  BY <1>a, Types DEF IInv
<1>2. IsFiniteSet(Reports(m)) /\ Cardinality(Reports(m)) \in Nat
  <2>1. IsFiniteSet(1 .. r) /\ Reports(m) \in SUBSET (1 .. r)
    BY <1>1, FS_Interval DEF Reports
  <2>2. QED BY <2>1, FS_Subset, FS_CardinalityType
<1>3. CASE registry' = registry /\ (IsDevice(n) => RegistryFull)
  <2>1. Reports(m)' = Reports(m) /\ (RegistryFull => RegistryFull')
    BY <1>3 DEF Reports, RegistryFull
  <2>2. QED BY <1>2, <1>3, <2>1
<1>4. CASE /\ r < Capacity /\ registry' \in Seq(Entry) /\ Len(registry') = r + 1
           /\ \A i \in 1 .. r : registry'[i] = registry[i]
           /\ registry'[r + 1].name = n
  <2>1. DOMAIN registry' = 1 .. r + 1
    BY <1>4, LenProperties
  <2>2. \A i \in 1 .. r + 1 : i \in 1 .. r \/ i = r + 1
    BY <1>1
  <2>3. \A i \in 1 .. r : i \in 1 .. r + 1 /\ i # r + 1
    BY <1>1
  <2>4. r + 1 \in 1 .. r + 1
    BY <1>1
  <2>5. Reports(m)' = IF m = n THEN Reports(m) \cup {r + 1} ELSE Reports(m)
    BY <1>1, <1>4, <2>1, <2>2, <2>3, <2>4 DEF Reports
  <2>6. Reports(n)' # {}
    BY <1>4, <2>1, <2>4 DEF Reports
  <2>7. ~RegistryFull
    <3>1. r # Capacity
      BY <1>1, <1>4, ScanAssumption
    <3>2. QED BY <1>a, <3>1 DEF RegistryFull
  <2>8. /\ IsFiniteSet(Reports(m) \cup {r + 1})
        /\ Cardinality(Reports(m) \cup {r + 1}) =
             IF r + 1 \in Reports(m) THEN Cardinality(Reports(m)) ELSE Cardinality(Reports(m)) + 1
    BY <1>2, FS_AddElement
  <2>9. QED BY <1>2, <2>5, <2>6, <2>7, <2>8
<1>5. QED BY <1>3, <1>4, <1>a, Registered

(* Ending a node preserves the invariant. *)
LEMMA EndInv ==
  ASSUME IInv, EndNode PROVE IInv'
<1>a. PICK n : n = Len(nodes)
  OBVIOUS
<1>b. PICK l : l = Len(open)
  OBVIOUS
<1>c. PICK t : t = Top
  OBVIOUS
<1>d. PICK r : r = Len(registry)
  OBVIOUS
<1>0. /\ TypeOK /\ PathOK /\ CurrentOK /\ PropsOK /\ EntriesOK /\ CountOK
      /\ LeavesReported /\ BoundedReports /\ InChosen /\ ArgsOK /\ ReturnedOK
  BY DEF IInv
<1>1. /\ DOMAIN nodes = 1 .. n /\ DOMAIN open = 1 .. l
      /\ DOMAIN registry = 1 .. r /\ r \in Nat
      /\ \A i \in 1 .. r : registry[i].name \in Nat
      /\ \A m \in 1 .. n : nodes[m].depth \in Nat
  BY <1>0, <1>a, <1>b, <1>d, Types
<1>2. /\ n \in Nat \ {0} /\ l \in Nat \ {0} /\ t \in 1 .. n /\ nodes[t].depth = l - 1
      /\ \A m \in 1 .. n : m > t => nodes[m].depth >= l
  BY <1>0, <1>a, <1>b, <1>c, Ended
<1>3. /\ nodes' \in Seq(NodeInfo) /\ Len(nodes') = n /\ DOMAIN nodes' = 1 .. n
      /\ \A m \in 1 .. n : /\ nodes'[m].hw = nodes[m].hw /\ nodes'[m].depth = nodes[m].depth
                           /\ nodes'[m].props = nodes[m].props
                           /\ nodes'[m].ended <=> (m = t \/ nodes[m].ended)
  <2>1. nodes' \in Seq(NodeInfo) /\ Len(nodes') = n /\ DOMAIN nodes' = 1 .. n
    BY <1>0, <1>a, <1>b, <1>c, Ended
  <2>2. \A m \in 1 .. n : /\ nodes'[m].hw = nodes[m].hw /\ nodes'[m].depth = nodes[m].depth
                          /\ nodes'[m].props = nodes[m].props
                          /\ nodes'[m].ended <=> (m = t \/ nodes[m].ended)
    BY <1>0, <1>a, <1>b, <1>c, Ended, Zenon
  <2>3. QED BY <2>1, <2>2, Zenon
<1>4. /\ open' \in Seq(Node) /\ Len(open') = l - 1 /\ DOMAIN open' = 1 .. l - 1
      /\ \A k \in 1 .. l - 1 : open'[k] = open[k] /\ k \in 1 .. l
  BY <1>0, <1>a, <1>b, <1>c, Ended
<1>5. /\ UNCHANGED <<current, walk, tree>> /\ walk = "walking"
      /\ cmdline' = [cmdline EXCEPT !.in_chosen = @ /\ l - 1 # 1]
  BY <1>b DEF EndNode, End, Leave
<1>6. /\ found' \in {found, found + 1}
      /\ \/ registry' = registry
         \/ /\ r < Capacity /\ IsDevice(n)
            /\ registry' \in Seq(Entry) /\ Len(registry') = r + 1
            /\ \A i \in 1 .. r : registry'[i] = registry[i]
            /\ LET e == registry'[r + 1]
               IN  e.name = n /\ e.reg = n /\ e.compatible = n /\ e.depth = nodes[n].depth
  BY <1>2, <1>a, <1>d, Registered
<1>7. MaxNodes \in Nat /\ MaxPci \in Nat /\ Capacity \in Nat
  BY ScanAssumption
<1>8. /\ found \in Nat /\ found + l <= MaxPci + n /\ n <= MaxNodes
      /\ Cardinality(Reports(n)) + l <= nodes[n].depth + 1
  <2>1. nodes # <<>>
    BY <1>2, <1>a
  <2>2. QED BY <1>0, <1>7, <1>a, <1>b, <2>1 DEF CountOK, TypeOK
<1>9. /\ cmdline' \in [in_chosen : BOOLEAN, bootargs : 0 .. MaxNodes, returned : 0 .. MaxNodes]
      /\ cmdline'.in_chosen <=> (cmdline.in_chosen /\ l - 1 # 1)
      /\ cmdline'.bootargs = cmdline.bootargs /\ cmdline'.returned = cmdline.returned
  BY <1>0, <1>5 DEF TypeOK
<1>10. registry' \in Seq(Entry) /\ Len(registry') <= Capacity /\ r <= Len(registry')
       /\ Len(registry') \in Nat
  BY <1>0, <1>1, <1>6, <1>7, <1>d DEF TypeOK
<1>11. TypeOK'
  <2>1. found' \in 0 .. (MaxPci + 2 * MaxNodes)
    BY <1>2, <1>6, <1>7, <1>8
  <2>2. tree'.root \in 0 .. Len(registry')
    BY <1>0, <1>1, <1>5, <1>10, <1>d DEF TypeOK
  <2>3. nodes' \in Seq(NodeInfo) /\ open' \in Seq(Node)
    BY <1>3, <1>4
  <2>4. QED BY <1>0, <1>5, <1>9, <1>10, <2>1, <2>2, <2>3 DEF TypeOK, NodeInfo
<1>12. PathOK'
  <2>1. ASSUME NEW k \in 1 .. l - 1
        PROVE  open'[k] \in 1 .. n /\ nodes'[open'[k]].depth = k - 1 /\ ~nodes'[open'[k]].ended
    <3>1. open'[k] = open[k] /\ k \in 1 .. l
      BY <1>4
    <3>2. open[k] \in 1 .. n /\ nodes[open[k]].depth = k - 1 /\ ~nodes[open[k]].ended
      BY <1>0, <1>1, <3>1 DEF PathOK
    <3>3. open[k] # t
      BY <1>2, <3>2
    <3>4. QED BY <1>3, <3>1, <3>2, <3>3
  <2>2. ASSUME NEW k \in 1 .. l - 1, NEW m \in 1 .. n, m > open'[k]
        PROVE  nodes'[m].depth >= k
    BY <1>0, <1>1, <1>3, <1>4, <2>2 DEF PathOK
  <2>3. ASSUME open' # <<>> PROVE open'[1] = 1
    <3>1. 1 \in 1 .. l - 1
      BY <1>2, <1>4, <2>3, EmptySeq
    <3>2. open # <<>>
      BY <1>2, <1>b
    <3>3. QED BY <1>0, <1>4, <3>1, <3>2 DEF PathOK
  <2>4. QED BY <1>3, <1>4, <2>1, <2>2, <2>3 DEF PathOK
<1>13. CurrentOK' /\ PropsOK'
  <2>1. n \in 1 .. n /\ nodes # <<>>
    BY <1>2, <1>a
  <2>2. CurrentOK'
    BY <1>0, <1>3, <1>5, <1>a, <2>1 DEF CurrentOK
  <2>3. QED BY <1>0, <1>1, <1>3, <2>2 DEF PropsOK
<1>14. \A m \in 1 .. n : (IsDevice(m)' <=> IsDevice(m)) /\ (IsLeaf(m)' <=> IsLeaf(m))
  <2> SUFFICES ASSUME NEW m \in 1 .. n
               PROVE  (IsDevice(m)' <=> IsDevice(m)) /\ (IsLeaf(m)' <=> IsLeaf(m))
    OBVIOUS
  <2>1. m # n => m + 1 \in 1 .. n
    BY <1>2
  <2>2. QED BY <1>3, <1>a, <2>1 DEF IsDevice, IsLeaf
<1>15. EntriesOK' /\ \A i, j \in DOMAIN registry' : i < j => registry'[i].name <= registry'[j].name
  <2>1. ASSUME NEW i \in 1 .. r
        PROVE  /\ registry[i].name <= n /\ registry[i].name \in Nat
               /\ registry[i].name # 0 =>
                    /\ registry[i].reg = registry[i].name
                    /\ registry[i].compatible = registry[i].name
                    /\ registry[i].depth = nodes'[registry[i].name].depth
                    /\ nodes'[registry[i].name].props = {"reg", "compatible"}
                    /\ nodes'[registry[i].name].hw # "empty"
    <3>1. registry[i].name <= n /\ registry[i].name \in Nat
      BY <1>0, <1>1, <1>a DEF EntriesOK
    <3>2. registry[i].name # 0 => registry[i].name \in 1 .. n
      BY <1>2, <3>1
    <3>3. QED BY <1>0, <1>1, <1>3, <3>1, <3>2 DEF EntriesOK, IsDevice
  <2>2. \A i, j \in 1 .. r : i < j => registry[i].name <= registry[j].name
    BY <1>0, <1>1 DEF BoundedReports
  <2>3. CASE registry' = registry
    BY <1>1, <1>3, <2>1, <2>2, <2>3 DEF EntriesOK, IsDevice
  <2>4. CASE /\ IsDevice(n) /\ registry' \in Seq(Entry) /\ Len(registry') = r + 1
             /\ \A i \in 1 .. r : registry'[i] = registry[i]
             /\ LET e == registry'[r + 1]
                IN  e.name = n /\ e.reg = n /\ e.compatible = n /\ e.depth = nodes[n].depth
    <3>1. DOMAIN registry' = 1 .. r + 1
      BY <2>4, LenProperties
    <3>2. \A i \in 1 .. r + 1 : i \in 1 .. r \/ i = r + 1
      BY <1>1
    <3>3. n \in 1 .. n /\ nodes'[n].depth = nodes[n].depth
          /\ nodes'[n].props = {"reg", "compatible"} /\ nodes'[n].hw # "empty"
      BY <1>2, <1>3, <2>4 DEF IsDevice
    <3>4. EntriesOK'
      BY <1>2, <1>3, <2>1, <2>4, <3>1, <3>2, <3>3 DEF EntriesOK, IsDevice
    <3>5. ASSUME NEW i \in 1 .. r + 1, NEW j \in 1 .. r + 1, i < j
          PROVE  registry'[i].name <= registry'[j].name
      <4>1. i \in 1 .. r
        BY <1>1, <3>5
      <4>2. CASE j = r + 1
        BY <2>1, <2>4, <4>1, <4>2
      <4>3. CASE j \in 1 .. r
        BY <2>2, <2>4, <3>5, <4>1, <4>3
      <4>4. QED BY <3>2, <4>2, <4>3
    <3>6. QED BY <3>1, <3>4, <3>5
  <2>5. QED BY <1>6, <2>3, <2>4
<1>16. CountOK'
  <2>1. n \in 1 .. n
    BY <1>2
  <2>2. /\ Cardinality(Reports(n)') <= Cardinality(Reports(n)) + 1
        /\ Cardinality(Reports(n)') \in Nat /\ Cardinality(Reports(n)) \in Nat
    BY <1>2, <1>a, <2>1, ReportsAfter
  <2>3. Cardinality(Reports(n)') + (l - 1) <= nodes'[n].depth + 1
    BY <1>1, <1>2, <1>3, <1>8, <2>1, <2>2
  <2>4. found' + (l - 1) <= MaxPci + n
    BY <1>2, <1>6, <1>7, <1>8
  <2>5. QED BY <1>3, <1>4, <1>8, <2>3, <2>4 DEF CountOK
<1>17. BoundedReports'
  <2>1. ASSUME NEW m \in 1 .. n
        PROVE  Cardinality(Reports(m))' <= nodes'[m].depth + 1
    <3>1. CASE m = n
      <4>1. /\ Cardinality(Reports(m)') <= Cardinality(Reports(m)) + 1
            /\ Cardinality(Reports(m)') \in Nat /\ Cardinality(Reports(m)) \in Nat
        BY <1>2, <1>a, ReportsAfter
      <4>2. Cardinality(Reports(m)) + l <= nodes[m].depth + 1
        BY <1>8, <3>1
      <4>3. QED BY <1>1, <1>2, <1>3, <4>1, <4>2
    <3>2. CASE m # n
      <4>1. Reports(m)' = Reports(m)
        BY <1>2, <1>a, <3>2, ReportsAfter
      <4>2. Cardinality(Reports(m)) <= nodes[m].depth + 1
        BY <1>0, <1>1 DEF BoundedReports
      <4>3. QED BY <1>3, <4>1, <4>2
    <3>3. QED BY <3>1, <3>2
  <2>2. QED BY <1>3, <1>15, <2>1 DEF BoundedReports
<1>18. LeavesReported'
  <2> SUFFICES ASSUME NEW m \in 1 .. n,
                      nodes'[m].ended, IsLeaf(m)', IsDevice(m)', ~RegistryFull'
               PROVE  Reports(m)' # {}
    BY <1>3 DEF LeavesReported
  <2>1. IsLeaf(m) /\ IsDevice(m)
    BY <1>14
  <2>2. ~RegistryFull /\ Reports(m) \subseteq Reports(m)'
    BY <1>2, <1>a, ReportsAfter
  <2>3. CASE nodes[m].ended
    BY <1>0, <1>1, <2>1, <2>2, <2>3 DEF LeavesReported
  <2>4. CASE m = t
    <3>1. m = n
      <4> SUFFICES ASSUME m # n PROVE FALSE
        OBVIOUS
      <4>1. m + 1 \in 1 .. n /\ m + 1 > t
        BY <1>2, <2>4
      <4>2. nodes[m + 1].depth >= l /\ nodes[m + 1].depth \in Nat /\ nodes[m].depth = l - 1
        BY <1>1, <1>2, <2>4, <4>1
      <4>3. nodes[m + 1].depth <= nodes[m].depth
        BY <1>a, <2>1 DEF IsLeaf
      <4>4. QED BY <1>2, <4>2, <4>3
    <3>2. Reports(n)' # {}
      BY <1>2, <1>a, <2>1, <2>2, <3>1, ReportsAfter
    <3>3. QED BY <3>1, <3>2
  <2>5. QED BY <1>3, <2>3, <2>4
<1>19. InChosen'
  <2>1. cmdline.in_chosen <=> l >= 2 /\ nodes[open[2]].hw = "chosen"
    BY <1>0, <1>b DEF InChosen
  <2>2. CASE l - 1 >= 2
    <3>1. 2 \in 1 .. l - 1
      BY <1>2, <2>2
    <3>2. open'[2] = open[2] /\ 2 \in 1 .. l
      BY <1>4, <3>1
    <3>3. open[2] \in 1 .. n
      BY <1>0, <1>1, <3>2 DEF PathOK
    <3>4. nodes'[open'[2]].hw = nodes[open[2]].hw
      BY <1>3, <3>2, <3>3
    <3>5. QED BY <1>2, <1>4, <1>9, <2>1, <2>2, <3>4 DEF InChosen
  <2>3. CASE ~(l - 1 >= 2)
    BY <1>2, <1>4, <1>9, <2>1, <2>3 DEF InChosen
  <2>4. QED BY <2>2, <2>3
<1>20. ChosenArgs' = ChosenArgs
  <2>1. ChosenArgs' = {m \in 1 .. n : "bootargs" \in nodes'[m].props /\ UnderChosen(m)'}
    BY <1>3, <1>11, ChosenArgsNext
  <2>2. ChosenArgs = {m \in 1 .. n : "bootargs" \in nodes[m].props /\ UnderChosen(m)}
    BY <1>0, <1>a, ChosenArgsIs
  <2>3. ASSUME NEW m \in 1 .. n PROVE UnderChosen(m)' <=> UnderChosen(m)
    BY <1>0, <1>3, <1>a, UnderSame
  <2>4. QED BY <1>3, <2>1, <2>2, <2>3
<1>21. ArgsOK' /\ ReturnedOK'
  BY <1>0, <1>5, <1>9, <1>20 DEF ArgsOK, ReturnedOK
<1>22. QED
  BY <1>11, <1>12, <1>13, <1>15, <1>16, <1>17, <1>18, <1>19, <1>21 DEF IInv

----------------------------------------------------------------------------
(* A step that leaves the tree, the registry and current_device alone. *)
LEMMA KeptInv ==
  ASSUME IInv, UNCHANGED <<current, found, registry, open, nodes>>,
         cmdline' \in [in_chosen : BOOLEAN, bootargs : 0 .. MaxNodes, returned : 0 .. MaxNodes],
         cmdline'.in_chosen = cmdline.in_chosen, cmdline'.bootargs = cmdline.bootargs,
         walk' \in {"walking", "ended", "cut", "scanned"},
         tree'.root \in 0 .. Len(registry), ReturnedOK'
  PROVE  IInv'
<1>1. /\ TypeOK /\ PathOK /\ CurrentOK /\ PropsOK /\ EntriesOK /\ CountOK
      /\ LeavesReported /\ BoundedReports /\ InChosen /\ ArgsOK
  BY DEF IInv
<1>2. TypeOK'
  BY <1>1 DEF TypeOK
<1>3. PathOK'
  BY <1>1 DEF PathOK
<1>4. CurrentOK' /\ PropsOK'
  BY <1>1 DEF CurrentOK, PropsOK
<1>5. EntriesOK' /\ CountOK'
  BY <1>1 DEF EntriesOK, IsDevice, CountOK, Reports
<1>6. LeavesReported'
  BY <1>1 DEF LeavesReported, IsLeaf, IsDevice, RegistryFull, Reports
<1>7. BoundedReports'
  BY <1>1 DEF BoundedReports, Reports
<1>8. InChosen' /\ ArgsOK'
  BY <1>1 DEF InChosen, ArgsOK, ChosenArgs, Subtree
<1>9. QED BY <1>2, <1>3, <1>4, <1>5, <1>6, <1>7, <1>8 DEF IInv

(* The end of the walk preserves the invariant: fdt_get_bootargs returns   *)
(* what it kept.                                                           *)
LEMMA WalkEndsInv ==
  ASSUME IInv, WalkEnds PROVE IInv'
<1>1. TypeOK /\ ReturnedOK
  BY DEF IInv
<1>2. /\ UNCHANGED <<current, found, registry, tree, open, nodes>> /\ walk' = "ended"
      /\ cmdline' = [cmdline EXCEPT !.returned = cmdline.bootargs]
  BY DEF WalkEnds
<1>3. /\ cmdline' \in [in_chosen : BOOLEAN, bootargs : 0 .. MaxNodes, returned : 0 .. MaxNodes]
      /\ cmdline'.in_chosen = cmdline.in_chosen /\ cmdline'.bootargs = cmdline.bootargs
      /\ cmdline'.returned = cmdline'.bootargs
  BY <1>1, <1>2 DEF TypeOK
<1>4. tree'.root \in 0 .. Len(registry) /\ ReturnedOK'
  BY <1>1, <1>2, <1>3 DEF TypeOK, ReturnedOK
<1>5. QED BY <1>2, <1>3, <1>4, KeptInv

(* An early return of the walk preserves the invariant. *)
LEMMA WalkCutInv ==
  ASSUME IInv, WalkCut PROVE IInv'
<1>1. TypeOK /\ ReturnedOK
  BY DEF IInv
<1>2. /\ UNCHANGED <<current, found, registry, cmdline, tree, open, nodes>>
      /\ walk = "walking" /\ walk' = "cut"
  BY DEF WalkCut
<1>3. /\ cmdline' \in [in_chosen : BOOLEAN, bootargs : 0 .. MaxNodes, returned : 0 .. MaxNodes]
      /\ tree'.root \in 0 .. Len(registry) /\ ReturnedOK'
  BY <1>1, <1>2 DEF TypeOK, ReturnedOK
<1>4. QED BY <1>2, <1>3, KeptInv

(* build_tree_hierarchy picks an entry of the registry as the root, or     *)
(* leaves the tree as it is, and preserves the invariant.                  *)
LEMMA ScanInv ==
  ASSUME IInv, devices_scan PROVE IInv'
<1>1. TypeOK /\ ReturnedOK
  BY DEF IInv
<1>2. /\ UNCHANGED <<current, found, registry, cmdline, open, nodes>>
      /\ walk' = "scanned" /\ tree' = build_tree_hierarchy
  BY DEF devices_scan
<1>3. Len(registry) \in Nat /\ DOMAIN registry = 1 .. Len(registry)
  BY <1>1, Types
<1> DEFINE roots == {i \in DOMAIN registry : registry[i].depth = 0}
<1>4. tree'.root \in 0 .. Len(registry)
  <2>1. CASE roots = {}
    BY <1>1, <1>2, <2>1 DEF build_tree_hierarchy, TypeOK
  <2>2. CASE roots # {}
    <3>1. tree'.root = Min(roots)
      BY <1>2, <2>2 DEF build_tree_hierarchy
    <3>2. roots \in SUBSET Nat /\ roots \in SUBSET (0 .. Len(registry))
      BY <1>3
    <3> HIDE DEF roots
    <3>3. Min(roots) \in roots
      BY <2>2, <3>2, LeastElement
    <3>4. QED BY <3>1, <3>2, <3>3
  <2>3. QED BY <2>1, <2>2
<1>5. /\ cmdline' \in [in_chosen : BOOLEAN, bootargs : 0 .. MaxNodes, returned : 0 .. MaxNodes]
      /\ ReturnedOK'
  BY <1>1, <1>2 DEF TypeOK, ReturnedOK
<1>6. QED BY <1>2, <1>4, <1>5, KeptInv

(* A step that changes nothing preserves the invariant. *)
LEMMA StutterInv ==
  ASSUME IInv, UNCHANGED vars PROVE IInv'
<1>1. TypeOK /\ ReturnedOK
  BY DEF IInv
<1>2. UNCHANGED <<current, found, registry, cmdline, walk, tree, open, nodes>>
  BY DEF vars
<1>3. /\ cmdline' \in [in_chosen : BOOLEAN, bootargs : 0 .. MaxNodes, returned : 0 .. MaxNodes]
      /\ walk' \in {"walking", "ended", "cut", "scanned"}
      /\ tree'.root \in 0 .. Len(registry) /\ ReturnedOK'
  BY <1>1, <1>2 DEF TypeOK, ReturnedOK
<1>4. QED BY <1>2, <1>3, KeptInv

----------------------------------------------------------------------------
(* The invariant holds in every state of the scan, whatever the tokens of  *)
(* the block and wherever it is cut.                                       *)
THEOREM ScanInvariant == Spec => []IInv
<1>1. IInv /\ [Next]_vars => IInv'
  <2> SUFFICES ASSUME IInv, [Next]_vars PROVE IInv'
    OBVIOUS
  <2>1. CASE BeginNode
    BY <2>1, BeginInv
  <2>2. CASE PropReg
    BY <2>2, PropRegInv
  <2>3. CASE PropCompatible
    BY <2>3, PropCompatibleInv
  <2>4. CASE PropBootargs
    BY <2>4, PropBootargsInv
  <2>5. CASE EndNode
    BY <2>5, EndInv
  <2>6. CASE WalkEnds
    BY <2>6, WalkEndsInv
  <2>7. CASE WalkCut
    BY <2>7, WalkCutInv
  <2>8. CASE devices_scan
    BY <2>8, ScanInv
  <2>9. CASE UNCHANGED vars
    BY <2>9, StutterInv
  <2>10. QED
    BY <2>1, <2>2, <2>3, <2>4, <2>5, <2>6, <2>7, <2>8, <2>9 DEF Next
<1>2. QED BY InitInv, <1>1, PTL DEF Spec

(* Every registered device-tree entry describes one node that carries both *)
(* properties: the one device_t that fdt_enumerate_devices reuses for all  *)
(* nodes never mixes two of them.                                          *)
THEOREM ReportsSound == Spec => []SoundReports
<1>1. IInv => SoundReports
  BY DEF IInv, EntriesOK, SoundReports
<1>2. QED BY <1>1, ScanInvariant, PTL

(* A device without subnodes whose end token was read is registered unless *)
(* add_device_to_registry had no room.                                     *)
THEOREM LeavesKept == Spec => []LeavesReported
<1>1. IInv => LeavesReported
  BY DEF IInv
<1>2. QED BY <1>1, ScanInvariant, PTL

(* The end tokens of the enclosing nodes report the last node again, once  *)
(* each: no tree makes the walk report a node more than depth + 1 times.   *)
THEOREM ReportsBounded == Spec => []BoundedReports
<1>1. IInv => BoundedReports
  BY DEF IInv
<1>2. QED BY <1>1, ScanInvariant, PTL

(* fdt_get_bootargs returns the bootargs of /chosen, or none: whatever the *)
(* other nodes hold, if no subnode of /chosen has a bootargs of its own.   *)
THEOREM BootargsFound == Spec => []BootargsOfChosen
<1>1. IInv => BootargsOfChosen
  <2> SUFFICES ASSUME IInv PROVE BootargsOfChosen
    OBVIOUS
  <2>0. TypeOK /\ ArgsOK /\ ReturnedOK
    BY DEF IInv
  <2>1. walk \in {"walking", "cut"} => cmdline.returned = 0
    BY <2>0 DEF ReturnedOK
  <2>2. ASSUME walk = "ended", ChosenArgs = OwnArgs
        PROVE  cmdline.returned \in (IF OwnArgs = {} THEN {0} ELSE OwnArgs)
    <3>1. cmdline.returned = cmdline.bootargs
      BY <2>0, <2>2 DEF ReturnedOK
    <3>2. CASE cmdline.bootargs = 0 /\ ChosenArgs = {}
      BY <2>2, <3>1, <3>2
    <3>3. CASE cmdline.bootargs \in ChosenArgs
      BY <2>2, <3>1, <3>3
    <3>4. QED BY <2>0, <3>2, <3>3 DEF ArgsOK
  <2>3. QED BY <2>1, <2>2 DEF BootargsOfChosen
<1>2. QED BY <1>1, ScanInvariant, PTL

----------------------------------------------------------------------------
(***************************************************************************)
(* The other half of devices_enumerate: the PCI scan.  For every platform, *)
(* window and set of devices in whatever slots, the memory BARs it places  *)
(* are disjoint, and what it reports is what the devices decode.           *)
(***************************************************************************)

(* Arithmetic of alignment. *)

(* Rounding down to a multiple. *)
LEMMA RoundDown ==
  ASSUME NEW n \in Nat \ {0}, NEW v \in Nat
  PROVE  /\ v % n \in 0 .. (n - 1)
         /\ v - (v % n) \in Nat
         /\ (v - (v % n)) % n = 0
<1> DEFINE r == v % n
           q == v \div n
<1>1. r \in 0 .. (n - 1) /\ q \in Nat /\ v = n * q + r
  OBVIOUS
<1>2. v - r = n * q
  BY <1>1
<1>3. n * q \in Nat
  BY <1>1
<1>4. (n * q) % n = 0
  <2> HIDE DEF q, r
  <2> DEFINE m == n * q
             s == m % n
             t == m \div n
  <2>1. s \in 0 .. (n - 1) /\ t \in Int /\ m = n * t + s
    BY <1>3
  <2>2. n * (q - t) = s
    BY <2>1, <1>1
  <2> HIDE DEF s, t
  <2>3. q - t \in Int
    BY <2>1, <1>1
  <2> DEFINE k == q - t
  <2>4. k >= 1 => n * k >= n
    BY <2>3
  <2>5. k <= -1 => n * k <= -n
    BY <2>3
  <2> HIDE DEF k
  <2>6. k = 0
    BY <2>1, <2>2, <2>3, <2>4, <2>5 DEF k
  <2>7. s = 0
    BY <2>2, <2>6 DEF k
  <2> QED
    BY <2>7 DEF s
<1> QED
  BY <1>1, <1>2, <1>3, <1>4

(* The aligned address is the first multiple of the size from there on.    *)
LEMMA AlignUpProperties ==
  ASSUME NEW n \in Nat \ {0}, NEW a \in Nat
  PROVE  /\ AlignUp(a, n) \in Nat
         /\ AlignUp(a, n) >= a
         /\ AlignUp(a, n) % n = 0
<1> DEFINE v == a + n - 1
<1>1. v \in Nat
  OBVIOUS
<1>2. AlignUp(a, n) = v - (v % n)
  BY DEF AlignUp
<1> HIDE DEF v
<1>3. v % n \in 0 .. (n - 1) /\ v - (v % n) \in Nat /\ (v - (v % n)) % n = 0
  BY <1>1, RoundDown
<1>4. v - (v % n) >= a
  BY <1>1, <1>3 DEF v
<1> QED
  BY <1>2, <1>3, <1>4

(* The probe of a memory BAR finds the size the BAR decodes.               *)
LEMMA ProbedSize ==
  ASSUME NEW b \in Register, Sound(b), b.kind = "mem"
  PROVE  pci_probe_bar_size(b) = b.size /\ b.size \in Nat \ {0}
BY PciAssumption DEF Register, Sound, pci_probe_bar_size, SizeMask

----------------------------------------------------------------------------
(* The inductive invariant. *)

(* The BARs of the current slot that the visit has dealt with. *)
Handled == CASE pc = "bar1"   -> {0}
             [] pc = "bar4"   -> {0, 1}
             [] pc = "report" -> Bars
             [] OTHER         -> {}

(* Types; a visit is of a slot, and amd64 never comes to assign. *)
Typed ==
  /\ Arch \in Archs
  /\ slot \in 1 .. (MaxSlots + 1)
  /\ pc \in {"visit", "bar0", "bar1", "bar4", "report"}
  /\ pc # "visit" => slot \in Slots
  /\ Arch = "amd64" => pc \in {"visit", "report"}
  /\ bar \in [Slots -> [Bars -> Register]]
  /\ \A s \in Slots, b \in Bars : Sound(bar[s][b])
  /\ vendor \in [Slots -> {"none", "virtio", "other"}]
  /\ written \in [Bars -> Nat]
  /\ next_mmio_address \in WindowBase .. WindowEnd
  /\ assigned \subseteq [slot : Slots, bar : Bars, at : WindowBase .. WindowEnd]

Size(x) == bar[x.slot][x.bar].size

(* What is known of an assigned BAR: the scan has passed it, it holds the  *)
(* written address rounded down, and lies below the allocator.             *)
Placed(x) ==
  /\ x.slot < slot \/ (x.slot = slot /\ x.bar \in Handled)
  /\ bar[x.slot][x.bar].kind = "mem"
  /\ bar[x.slot][x.bar].addr = x.at - (x.at % Size(x))
  /\ x.at + Size(x) <= next_mmio_address
  /\ Arch # "arm64" => Aligned(x)

AllPlaced == \A x \in assigned : Placed(x)

(* One of two assigned BARs ends before the other begins. *)
Apart(x, y) == x.at + Size(x) <= y.at \/ y.at + Size(y) <= x.at

AllApart == \A x, y \in assigned : x # y => Apart(x, y)

(* The address v is the one the BAR holds, or arm64 has misplaced the BAR. *)
Names(v, s, b) ==
  \/ v = bar[s][b].addr
  \/ \E x \in assigned : x.slot = s /\ x.bar = b /\ ~Aligned(x)

(* What the current visit will return. *)
Returns ==
  pc # "visit" => /\ \A b \in Bars : bar[slot][b].kind = "mem" => Names(written[b], slot, b)
                  /\ Arch # "amd64" => Shape(vendor[slot], bar[slot])

(* What a finished visit has returned. *)
Reported(r) ==
  /\ r.slot \in Slots /\ r.slot < slot /\ r.bar \in Bars
  /\ bar[r.slot][r.bar].kind = "mem" =>
       Names(r.base, r.slot, r.bar) /\ r.size = bar[r.slot][r.bar].size
  /\ (Arch # "amd64" /\ \E b \in Bars : bar[r.slot][b].kind = "mem")
       => bar[r.slot][r.bar].kind = "mem"

AllReported == \A r \in reports : Reported(r)

PciInv == Typed /\ AllPlaced /\ AllApart /\ Returns /\ AllReported

(* The three facts about assigned BARs that make up NoOverlap.             *)
LEMMA PlacedDecodes ==
  ASSUME Typed, NEW x \in assigned, Placed(x), Aligned(x)
  PROVE  /\ Decodes(x.slot, x.bar) = x.at .. (x.at + Size(x) - 1)
         /\ x.at \in WindowBase .. WindowEnd /\ Size(x) \in Nat \ {0}
         /\ x.at + Size(x) <= WindowEnd
<1>1. x.slot \in Slots /\ x.bar \in Bars /\ x.at \in WindowBase .. WindowEnd
  BY DEF Typed
<1>2. bar[x.slot][x.bar] \in Register /\ Sound(bar[x.slot][x.bar])
  BY <1>1 DEF Typed
<1>3. Size(x) \in Nat \ {0}
  BY <1>2, PciAssumption DEF Register, Sound, Placed, Size
<1>4. bar[x.slot][x.bar].addr = x.at
  BY <1>1, PciAssumption DEF Placed, Aligned, Size, WindowEnd
<1>5. x.at + Size(x) <= WindowEnd
  BY <1>1, <1>3, PciAssumption DEF Placed, Typed, WindowEnd
<1> QED
  BY <1>1, <1>3, <1>4, <1>5 DEF Decodes, Size

(* The inductive invariant implies the two properties of the run.          *)
LEMMA InvNoOverlap == PciInv => NoOverlap
<1> SUFFICES ASSUME PciInv PROVE NoOverlap
  OBVIOUS
<1> USE DEF PciInv
<1>1. PciTypeOK
  <2>1. \A s \in Slots, b \in Bars : bar[s][b].kind = "mem" => bar[s][b].addr % bar[s][b].size = 0
    BY DEF Typed, Sound
  <2>2. \A r \in reports : r.slot \in Slots /\ r.bar \in Bars
    BY DEF AllReported, Reported
  <2> QED
    BY <2>1, <2>2 DEF Typed, PciTypeOK
<1>2. ASSUME NEW x \in assigned, NEW y \in assigned, x # y, Aligned(x), Aligned(y)
      PROVE  Decodes(x.slot, x.bar) \cap Decodes(y.slot, y.bar) = {}
  <2>1. /\ Decodes(x.slot, x.bar) = x.at .. (x.at + Size(x) - 1)
        /\ x.at \in WindowBase .. WindowEnd /\ Size(x) \in Nat \ {0}
    BY <1>2, PlacedDecodes DEF AllPlaced
  <2>2. /\ Decodes(y.slot, y.bar) = y.at .. (y.at + Size(y) - 1)
        /\ y.at \in WindowBase .. WindowEnd /\ Size(y) \in Nat \ {0}
    BY <1>2, PlacedDecodes DEF AllPlaced
  <2>3. x.at + Size(x) <= y.at \/ y.at + Size(y) <= x.at
    BY <1>2 DEF AllApart, Apart
  <2> QED
    BY <2>1, <2>2, <2>3, PciAssumption DEF WindowEnd
<1>3. ASSUME NEW x \in assigned, Aligned(x)
      PROVE  Decodes(x.slot, x.bar) \subseteq WindowBase .. (WindowEnd - 1)
  <2>1. /\ Decodes(x.slot, x.bar) = x.at .. (x.at + Size(x) - 1)
        /\ x.at \in WindowBase .. WindowEnd /\ Size(x) \in Nat \ {0}
        /\ x.at + Size(x) <= WindowEnd
    BY <1>3, PlacedDecodes DEF AllPlaced
  <2> QED
    BY <2>1, PciAssumption DEF WindowEnd
<1>4. Arch # "arm64" => \A x \in assigned : Aligned(x)
  BY DEF AllPlaced, Placed
<1> QED
  BY <1>1, <1>2, <1>3, <1>4 DEF NoOverlap

(* ... and the reports are as the devices decode them.                     *)
LEMMA InvReports == PciInv => ReportsDecoded
BY DEF PciInv, AllReported, Reported, Names, ReportsDecoded

----------------------------------------------------------------------------
(* Preservation. *)

(* A BAR whose register a step leaves alone stays where it is. *)
LEMMA PlacedFrame ==
  ASSUME NEW x, Placed(x), Arch' = Arch,
         x.slot < slot' \/ (x.slot = slot' /\ x.bar \in Handled'),
         bar'[x.slot][x.bar] = bar[x.slot][x.bar],
         x.at + Size(x) <= next_mmio_address'
  PROVE  Placed(x)'
BY DEF Placed, Size, Aligned

(* Two BARs whose registers a step leaves alone stay apart. *)
LEMMA ApartFrame ==
  ASSUME NEW x, NEW y, Apart(x, y),
         bar'[x.slot][x.bar] = bar[x.slot][x.bar],
         bar'[y.slot][y.bar] = bar[y.slot][y.bar]
  PROVE  Apart(x, y)'
BY DEF Apart, Size

(* A report stays true while the registers of its slot stay as they are.   *)
LEMMA NamesFrame ==
  ASSUME NEW v, NEW s, NEW b, Names(v, s, b),
         bar'[s] = bar[s], assigned \subseteq assigned'
  PROVE  Names(v, s, b)'
<1>1. CASE v = bar[s][b].addr
  BY <1>1 DEF Names
<1>2. CASE \E x \in assigned : x.slot = s /\ x.bar = b /\ ~Aligned(x)
  <2>1. PICK x \in assigned : x.slot = s /\ x.bar = b /\ ~Aligned(x)
    BY <1>2
  <2>2. ~Aligned(x)'
    BY <2>1 DEF Aligned
  <2> QED
    BY <2>1, <2>2 DEF Names
<1> QED
  BY <1>1, <1>2 DEF Names

(* So does all that is known of the report.                               *)
LEMMA ReportedFrame ==
  ASSUME NEW r, Reported(r), Arch' = Arch, slot' \in Int, slot \in Int, slot <= slot',
         Typed, bar'[r.slot] = bar[r.slot], assigned \subseteq assigned'
  PROVE  Reported(r)'
<1>1. r.slot < slot'
  BY PciAssumption DEF Reported, Slots
<1>2. bar[r.slot][r.bar].kind = "mem" => Names(r.base, r.slot, r.bar)'
  <2> HAVE bar[r.slot][r.bar].kind = "mem"
  <2>1. Names(r.base, r.slot, r.bar)
    BY DEF Reported
  <2>2. PICK v, s, b : v = r.base /\ s = r.slot /\ b = r.bar
    OBVIOUS
  <2>3. Names(v, s, b)'
    BY <2>1, <2>2, NamesFrame
  <2> QED
    BY <2>2, <2>3
<1> QED
  BY <1>1, <1>2 DEF Reported

(* Moving to the next slot. *)
LEMMA SlotStep ==
  ASSUME PciInv, slot' = slot + 1, slot \in Slots, pc' = "visit",
         UNCHANGED <<Arch, bar, vendor, written, next_mmio_address, assigned>>
  PROVE  Typed' /\ AllPlaced' /\ AllApart' /\ Returns'
<1> USE DEF PciInv
<1>1. Typed'
  BY PciAssumption DEF Typed, Slots, WindowEnd
<1>2. ASSUME NEW x \in assigned' PROVE Placed(x)'
  <2>1. Placed(x) /\ x.slot \in Slots
    BY <1>2 DEF AllPlaced, Typed
  <2>2. x.slot < slot'
    BY <2>1, PciAssumption DEF Placed, Slots, Typed
  <2>3. x.at + Size(x) <= next_mmio_address'
    BY <2>1 DEF Placed
  <2> QED
    BY <2>1, <2>2, <2>3, PlacedFrame
<1>3. ASSUME NEW x \in assigned', NEW y \in assigned', x # y PROVE Apart(x, y)'
  BY <1>3, ApartFrame DEF AllApart
<1> QED
  BY <1>1, <1>2, <1>3 DEF AllPlaced, AllApart, Returns

(* An empty slot. *)
LEMMA SkipSlotStep == ASSUME PciInv, SkipSlot PROVE PciInv'
<1>1. slot \in Slots
  BY PciAssumption DEF SkipSlot, PciInv, Typed, Slots
<1>2. Typed' /\ AllPlaced' /\ AllApart' /\ Returns'
  BY <1>1, SlotStep DEF SkipSlot
<1>3. ASSUME NEW r \in reports' PROVE Reported(r)'
  <2>1. Reported(r)
    BY <1>3 DEF SkipSlot, PciInv, AllReported
  <2> QED
    BY <1>1, <2>1, ReportedFrame DEF SkipSlot, PciInv, Slots
<1> QED
  BY <1>2, <1>3 DEF PciInv, AllReported

(* The BAR that is reported is a memory BAR if the device has one. *)
LEMMA SelectedKind ==
  ASSUME Typed, pc # "visit", Arch # "amd64" => Shape(vendor[slot], bar[slot])
  PROVE  /\ SelectedBar \in Bars
         /\ (Arch # "amd64" /\ \E b \in Bars : bar[slot][b].kind = "mem")
              => bar[slot][SelectedBar].kind = "mem"
BY DEF SelectedBar, Shape, Bars

(* The callback is told of the device, and the scan moves on. *)
LEMMA ReportStep == ASSUME PciInv, Report PROVE PciInv'
<1>1. slot \in Slots
  BY DEF Report, PciInv, Typed
<1>2. Typed' /\ AllPlaced' /\ AllApart' /\ Returns'
  BY <1>1, SlotStep DEF Report
<1>3. ASSUME NEW r \in reports, r \in reports' PROVE Reported(r)'
  <2>1. Reported(r)
    BY <1>3 DEF PciInv, AllReported
  <2> QED
    BY <1>1, <2>1, ReportedFrame DEF Report, PciInv, Slots
<1>4. ASSUME NEW r, r = [slot |-> slot, bar |-> SelectedBar, base |-> written[SelectedBar],
                         size |-> pci_probe_bar_size(bar[slot][SelectedBar])]
      PROVE  Reported(r)'
  <2>1. r.slot = slot /\ r.bar = SelectedBar /\ r.base = written[SelectedBar]
        /\ r.size = pci_probe_bar_size(bar[slot][SelectedBar])
    BY <1>4
  <2>2. pc # "visit"
    BY DEF Report
  <2>3. /\ SelectedBar \in Bars
        /\ (Arch # "amd64" /\ \E b \in Bars : bar[slot][b].kind = "mem")
              => bar[slot][SelectedBar].kind = "mem"
    BY <2>2, SelectedKind DEF PciInv, Returns
  <2>4. PICK s, c, v : s = slot /\ c = SelectedBar /\ v = written[c]
    OBVIOUS
  <2>5. s \in Slots /\ s < slot' /\ c \in Bars
    BY <1>1, <2>3, <2>4 DEF Report, Slots
  <2>6. bar[s][c].kind = "mem" => Names(v, s, c)'
    BY <2>2, <2>4, <2>5, NamesFrame DEF PciInv, Returns, Report
  <2>7. bar[s][c].kind = "mem" => r.size = bar[s][c].size
    <3>1. bar[s][c] \in Register /\ Sound(bar[s][c])
      BY <2>5 DEF PciInv, Typed
    <3> QED
      BY <3>1, <2>1, <2>4, ProbedSize
  <2>8. r.slot = s /\ r.bar = c /\ r.base = v /\ bar' = bar /\ Arch' = Arch
    BY <2>1, <2>4 DEF Report
  <2>9. (Arch # "amd64" /\ \E b \in Bars : bar[s][b].kind = "mem") => bar[s][c].kind = "mem"
    BY <2>3, <2>4
  <2> QED
    BY <2>5, <2>6, <2>7, <2>8, <2>9 DEF Reported
<1>5. ASSUME NEW r \in reports' PROVE Reported(r)'
  BY <1>3, <1>4, <1>5 DEF Report
<1> QED
  BY <1>2, <1>5 DEF PciInv, AllReported

(* A device is found: nothing was assigned in, or reported of, its slot.   *)
LEMMA ReadBarsStep == ASSUME PciInv, NEW p \in Profiles[Arch], ReadBars(p) PROVE PciInv'
<1>1. slot \in Slots /\ pc = "visit" /\ Arch \in Archs
  BY PciAssumption DEF ReadBars, PciInv, Typed, Slots
<1>2. /\ p.vendor \in {"virtio", "other"} /\ p.bar \in [Bars -> Register]
      /\ \A b \in Bars : Sound(p.bar[b])
      /\ Arch # "amd64" => Shape(p.vendor, p.bar)
  BY <1>1, ProfilesAssumption
<1>3. bar' = [bar EXCEPT ![slot] = p.bar]
  <2>1. p.bar = [b \in Bars |-> p.bar[b]]
    BY <1>2
  <2> QED
    BY <2>1 DEF ReadBars, Restored
<1>4. /\ Arch' = Arch /\ slot' = slot /\ next_mmio_address' = next_mmio_address
      /\ assigned' = assigned /\ reports' = reports
      /\ vendor' = [vendor EXCEPT ![slot] = p.vendor]
      /\ written' = [b \in Bars |-> p.bar[b].addr]
      /\ pc' = IF Arch = "amd64" THEN "report" ELSE "bar0"
  BY DEF ReadBars
<1>5. bar \in [Slots -> [Bars -> Register]] /\ vendor \in [Slots -> {"none", "virtio", "other"}]
  BY DEF PciInv, Typed
<1>6. bar'[slot] = p.bar /\ vendor'[slot] = p.vendor /\ \A s \in Slots : s # slot => bar'[s] = bar[s]
  BY <1>1, <1>3, <1>4, <1>5
<1>7. Typed'
  <2>1. bar' \in [Slots -> [Bars -> Register]]
    BY <1>2, <1>3, <1>5
  <2>2. \A s \in Slots, b \in Bars : Sound(bar'[s][b])
    BY <1>2, <1>6 DEF PciInv, Typed
  <2>3. (\A s \in Slots, b \in Bars : Sound(bar[s][b]))'
    BY <2>2 DEF Sound
  <2>4. vendor' \in [Slots -> {"none", "virtio", "other"}]
    BY <1>2, <1>4, <1>5
  <2>5. written' \in [Bars -> Nat]
    BY <1>2, <1>4 DEF Register
  <2>6. Typed
    BY DEF PciInv
  <2> QED
    BY <1>1, <1>4, <2>1, <2>3, <2>4, <2>5, <2>6 DEF Typed, Slots, WindowEnd
<1>8. ASSUME NEW x \in assigned PROVE x.slot \in Slots /\ x.slot < slot /\ bar'[x.slot] = bar[x.slot]
  <2>1. x.slot \in Slots /\ x.slot < slot
    BY <1>1, <1>8 DEF PciInv, AllPlaced, Placed, Handled, Typed
  <2> QED
    BY <1>1, <1>6, <2>1 DEF Slots
<1>9. ASSUME NEW x \in assigned' PROVE Placed(x)'
  <2>1. Placed(x) /\ x \in assigned
    BY <1>4, <1>9 DEF PciInv, AllPlaced
  <2> QED
    BY <1>4, <1>8, <2>1, PlacedFrame DEF Placed
<1>10. ASSUME NEW x \in assigned', NEW y \in assigned', x # y PROVE Apart(x, y)'
  BY <1>4, <1>8, <1>10, ApartFrame DEF PciInv, AllApart
<1>11. Returns'
  <2>1. PICK s : s = slot
    OBVIOUS
  <2>2. \A b \in Bars : Names(written[b], s, b)'
    BY <2>1, <1>4, <1>6 DEF Names
  <2>3. slot' = s /\ Arch' = Arch
    BY <2>1, <1>4
  <2>4. Arch # "amd64" => Shape(vendor[s], bar[s])'
    BY <1>2, <1>6, <2>1 DEF Shape
  <2> QED
    BY <2>2, <2>3, <2>4 DEF Returns
<1>12. ASSUME NEW r \in reports' PROVE Reported(r)'
  <2>1. Reported(r) /\ r.slot \in Slots /\ r.slot < slot
    BY <1>4, <1>12 DEF PciInv, AllReported, Reported
  <2>2. bar'[r.slot] = bar[r.slot]
    BY <1>1, <1>6, <2>1 DEF Slots
  <2> QED
    BY <1>1, <1>4, <2>1, <2>2, ReportedFrame DEF PciInv, Slots
<1> QED
  BY <1>7, <1>9, <1>10, <1>11, <1>12 DEF PciInv, AllPlaced, AllApart, AllReported

(* The step of the visit moves past one BAR. *)
LEMMA HandledStep ==
  ASSUME Typed, NEW b \in Bars, pc = PcOf(b), pc' = After(b)
  PROVE  /\ pc # "visit" /\ slot \in Slots /\ Arch # "amd64"
         /\ pc' \in {"bar1", "bar4", "report"}
         /\ Handled \subseteq Handled' /\ b \in Handled' /\ b \notin Handled
BY DEF Typed, PcOf, After, Handled, Bars

(* Where the BAR goes: at or above the allocator, inside the window and,   *)
(* except on arm64, at a multiple of its size.                             *)
LEMMA AddressProperties ==
  ASSUME Typed, NEW hw \in Register, NEW size \in Nat \ {0}, Assigns(hw, size), Arch # "amd64"
  PROVE  /\ NewAddress(size) \in Nat
         /\ NewAddress(size) >= next_mmio_address
         /\ NewAddress(size) + size <= WindowEnd
         /\ Arch # "arm64" => NewAddress(size) % size = 0
<1>1. next_mmio_address \in Nat /\ next_mmio_address >= WindowBase
  BY PciAssumption DEF Typed
<1>2. Arch \in {"riscv", "arm64"}
  BY PciAssumption DEF Typed
<1>3. CASE Arch = "riscv"
  <2>1. NewAddress(size) = AlignUp(next_mmio_address, size)
    BY <1>3 DEF NewAddress
  <2>2. AlignUp(next_mmio_address, size) + size <= WindowEnd
    BY <1>3 DEF Assigns
  <2> QED
    BY <1>1, <1>3, <2>1, <2>2, AlignUpProperties
<1>4. CASE Arch = "arm64"
  BY <1>1, <1>4 DEF NewAddress, Assigns
<1> QED
  BY <1>2, <1>3, <1>4

(* pci_assign_bar_if_needed leaves the BAR as it is. *)
LEMMA KeepBarStep ==
  ASSUME PciInv, NEW b \in Bars, pc = PcOf(b), pc' = After(b),
         UNCHANGED <<Arch, slot, bar, vendor, written, next_mmio_address, assigned, reports>>
  PROVE  PciInv'
<1>1. Typed
  BY DEF PciInv
<1>2. /\ pc # "visit" /\ slot \in Slots /\ Arch # "amd64" /\ pc' \in {"bar1", "bar4", "report"}
      /\ Handled \subseteq Handled'
  BY <1>1, HandledStep
<1>3. Typed'
  BY <1>1, <1>2 DEF Typed, Slots, WindowEnd
<1>4. ASSUME NEW x \in assigned' PROVE Placed(x)'
  <2>1. Placed(x)
    BY <1>4 DEF PciInv, AllPlaced
  <2>2. x.slot < slot' \/ (x.slot = slot' /\ x.bar \in Handled')
    BY <1>2, <2>1 DEF Placed
  <2>3. x.at + Size(x) <= next_mmio_address'
    BY <2>1 DEF Placed
  <2> QED
    BY <2>1, <2>2, <2>3, PlacedFrame
<1>5. ASSUME NEW x \in assigned', NEW y \in assigned', x # y PROVE Apart(x, y)'
  BY <1>5, ApartFrame DEF PciInv, AllApart
<1>6. Returns'
  <2>1. PICK s : s = slot
    OBVIOUS
  <2>2. ASSUME NEW c \in Bars, bar[s][c].kind = "mem" PROVE Names(written[c], s, c)'
    <3>1. PICK v : v = written[c]
      OBVIOUS
    <3>2. Names(v, s, c)
      BY <1>2, <2>1, <2>2, <3>1 DEF PciInv, Returns
    <3>3. Names(v, s, c)'
      BY <3>2, NamesFrame
    <3> QED
      BY <3>1, <3>3
  <2>3. Shape(vendor[slot], bar[slot])'
    BY <1>2 DEF PciInv, Returns, Shape
  <2> QED
    BY <2>1, <2>2, <2>3 DEF Returns
<1>7. ASSUME NEW r \in reports' PROVE Reported(r)'
  <2>1. Reported(r)
    BY <1>7 DEF PciInv, AllReported
  <2> QED
    BY <1>1, <1>2, <2>1, ReportedFrame DEF Slots
<1> QED
  BY <1>3, <1>4, <1>5, <1>6, <1>7 DEF PciInv, AllPlaced, AllApart, AllReported

(* pci_assign_bar_if_needed writes the BAR.  No BAR assigned before is the *)
(* one written, so all of them stay below the new one.                     *)
LEMMA WriteBarStep ==
  ASSUME PciInv, NEW b \in Bars, NEW hw, NEW size, NEW a,
         hw = bar[slot][b], size = pci_probe_bar_size(hw), a = NewAddress(size),
         pc = PcOf(b), pc' = After(b), Assigns(hw, size),
         bar' = [bar EXCEPT ![slot][b] = BarWrite(hw, a)],
         written' = [written EXCEPT ![b] = a],
         next_mmio_address' = a + size,
         assigned' = assigned \cup {[slot |-> slot, bar |-> b, at |-> a]},
         UNCHANGED <<Arch, slot, vendor, reports>>
  PROVE  PciInv'
<1>1. Typed
  BY DEF PciInv
<1>2. /\ pc # "visit" /\ slot \in Slots /\ Arch # "amd64" /\ pc' \in {"bar1", "bar4", "report"}
      /\ Handled \subseteq Handled' /\ b \in Handled' /\ b \notin Handled
  BY <1>1, HandledStep
<1>3. hw \in Register /\ Sound(hw) /\ hw.kind = "mem"
  BY <1>1, <1>2 DEF Typed, Assigns
<1>4. size = hw.size /\ size \in Nat \ {0}
  BY <1>3, ProbedSize
<1>5. a \in Nat /\ a >= next_mmio_address /\ a + size <= WindowEnd /\ (Arch # "arm64" => a % size = 0)
  BY <1>1, <1>2, <1>3, <1>4, AddressProperties
<1>6. PICK w : w = BarWrite(hw, a)
  OBVIOUS
<1>7. /\ w \in Register /\ w.kind = "mem" /\ w.size = size
      /\ w.addr = a - (a % size) /\ w.addr % size = 0
  <2>1. a - (a % size) \in Nat /\ (a - (a % size)) % size = 0
    BY <1>4, <1>5, RoundDown
  <2>2. w = [hw EXCEPT !.addr = a - (a % size)]
    BY <1>4, <1>6 DEF BarWrite
  <2> QED
    BY <1>3, <1>4, <2>1, <2>2 DEF Register
<1>8. Sound(w)
  BY <1>3, <1>4, <1>7 DEF Sound
<1>9. bar \in [Slots -> [Bars -> Register]]
  BY <1>1 DEF Typed
<1>10. /\ bar' \in [Slots -> [Bars -> Register]]
       /\ bar'[slot][b] = w
       /\ \A s \in Slots : s # slot => bar'[s] = bar[s]
       /\ \A c \in Bars : c # b => bar'[slot][c] = bar[slot][c]
  BY <1>2, <1>6, <1>7, <1>9
<1>11. WindowBase <= a /\ WindowBase \in Nat /\ WindowEnd \in Nat /\ next_mmio_address \in Nat
  BY <1>1, <1>5, PciAssumption DEF Typed, WindowEnd
<1>12. Typed'
  <2>1. \A s \in Slots, c \in Bars : Sound(bar'[s][c])
    BY <1>1, <1>2, <1>8, <1>10 DEF Typed
  <2>2. (\A s \in Slots, c \in Bars : Sound(bar[s][c]))'
    BY <2>1 DEF Sound
  <2>3. written' \in [Bars -> Nat]
    BY <1>1, <1>5 DEF Typed
  <2>4. next_mmio_address' \in WindowBase .. WindowEnd
    BY <1>4, <1>5, <1>11
  <2>5. assigned' \subseteq [slot : Slots, bar : Bars, at : WindowBase .. WindowEnd]
    BY <1>1, <1>2, <1>4, <1>5, <1>11 DEF Typed
  <2> QED
    BY <1>1, <1>2, <1>10, <2>2, <2>3, <2>4, <2>5 DEF Typed, Slots, WindowEnd
<1> DEFINE n == [slot |-> slot, bar |-> b, at |-> a]
<1>13. ASSUME NEW x \in assigned
       PROVE  /\ Placed(x) /\ x.slot \in Slots /\ x.bar \in Bars /\ x.at \in Nat
              /\ ~(x.slot = slot /\ x.bar = b)
              /\ bar'[x.slot][x.bar] = bar[x.slot][x.bar]
              /\ Size(x) \in Nat /\ x.at + Size(x) <= next_mmio_address
  <2>1. Placed(x) /\ x.slot \in Slots /\ x.bar \in Bars /\ x.at \in Nat
    BY <1>1, <1>11, <1>13 DEF PciInv, AllPlaced, Typed
  <2>2. ~(x.slot = slot /\ x.bar = b)
    BY <1>2, <2>1 DEF Placed, Slots
  <2>3. bar'[x.slot][x.bar] = bar[x.slot][x.bar]
    BY <1>2, <1>10, <2>1, <2>2
  <2>4. Size(x) \in Nat
    BY <1>9, <2>1 DEF Size, Register
  <2> QED
    BY <2>1, <2>2, <2>3, <2>4 DEF Placed
<1>14. n.slot = slot /\ n.bar = b /\ n.at = a /\ assigned' = assigned \cup {n}
  OBVIOUS
<1> HIDE DEF n
<1>15. PICK m : m = n
  OBVIOUS
<1>16. m.slot = slot /\ m.bar = b /\ m.at = a /\ assigned' = assigned \cup {m}
  BY <1>14, <1>15
<1>17. Size(m)' = size
  BY <1>7, <1>10, <1>16 DEF Size
<1>18. Placed(m)'
  <2>1. m.slot = slot' /\ m.bar \in Handled'
    BY <1>2, <1>16
  <2>2. bar'[m.slot][m.bar] = w
    BY <1>10, <1>16
  <2>3. m.at + size <= next_mmio_address'
    <3>1. m.at + size = next_mmio_address'
      BY <1>16
    <3>2. size \in Nat /\ a \in Nat /\ m.at = a
      BY <1>4, <1>5, <1>16
    <3>3. a + size \in Nat
      BY <3>2
    <3> QED
      BY <3>1, <3>2, <3>3
  <2>4. Aligned(m)' <=> a % size = 0
    BY <1>7, <1>16, <2>2 DEF Aligned
  <2> QED
    BY <1>5, <1>7, <1>16, <1>17, <2>1, <2>2, <2>3, <2>4 DEF Placed
<1>19. ASSUME NEW x \in assigned' PROVE Placed(x)'
  <2>1. CASE x = m
    BY <1>18, <2>1
  <2>2. CASE x \in assigned
    <3>1. x.slot < slot' \/ (x.slot = slot' /\ x.bar \in Handled')
      BY <1>2, <1>13, <2>2 DEF Placed
    <3>2. x.at + Size(x) <= next_mmio_address'
      BY <1>4, <1>5, <1>11, <1>13, <2>2
    <3> QED
      BY <1>13, <2>2, <3>1, <3>2, PlacedFrame
  <2> QED
    BY <1>16, <1>19, <2>1, <2>2
<1>20. ASSUME NEW x \in assigned PROVE Apart(x, m)' /\ Apart(m, x)'
  <2>1. Size(x)' = Size(x)
    BY <1>13 DEF Size
  <2>2. x.at + Size(x) <= a
    BY <1>5, <1>11, <1>13
  <2> QED
    BY <1>16, <2>1, <2>2 DEF Apart
<1>21. ASSUME NEW x \in assigned', NEW y \in assigned', x # y PROVE Apart(x, y)'
  <2>1. CASE x \in assigned /\ y \in assigned
    BY <1>13, <1>21, <2>1, ApartFrame DEF PciInv, AllApart
  <2> QED
    BY <1>16, <1>20, <1>21, <2>1
<1>22. Returns'
  <2>1. PICK s : s = slot
    OBVIOUS
  <2>2. ASSUME NEW c \in Bars, bar'[s][c].kind = "mem" PROVE Names(written[c], s, c)'
    <3>1. CASE c = b
      <4>1. written'[c] = a
        BY <1>1, <3>1 DEF Typed
      <4>2. CASE a % size = 0
        <5>1. bar'[s][c].addr = a
          BY <1>5, <1>7, <1>10, <2>1, <3>1, <4>2
        <5> QED
          BY <4>1, <5>1 DEF Names
      <4>3. CASE a % size # 0
        <5>1. ~Aligned(m)'
          BY <1>7, <1>10, <1>16, <4>3 DEF Aligned
        <5> QED
          BY <1>16, <2>1, <3>1, <5>1 DEF Names
      <4> QED
        BY <4>2, <4>3
    <3>2. CASE c # b
      <4>1. written'[c] = written[c] /\ bar'[s][c] = bar[s][c]
        BY <1>1, <1>10, <2>1, <2>2, <3>2 DEF Typed
      <4>2. Names(written[c], s, c)
        BY <1>2, <2>1, <2>2, <4>1 DEF PciInv, Returns
      <4>3. CASE written[c] = bar[s][c].addr
        BY <4>1, <4>3 DEF Names
      <4>4. CASE \E x \in assigned : x.slot = s /\ x.bar = c /\ ~Aligned(x)
        <5>1. PICK x \in assigned : x.slot = s /\ x.bar = c /\ ~Aligned(x)
          BY <4>4
        <5>2. ~Aligned(x)'
          BY <4>1, <5>1 DEF Aligned
        <5> QED
          BY <1>16, <5>1, <5>2 DEF Names
      <4> QED
        BY <4>2, <4>3, <4>4 DEF Names
    <3> QED
      BY <3>1, <3>2
  <2>3. \A c \in Bars : bar'[slot][c].kind = bar[slot][c].kind
    BY <1>3, <1>7, <1>10
  <2>4. Shape(vendor[slot], bar[slot])
    BY <1>2 DEF PciInv, Returns
  <2>5. Shape(vendor[slot], bar[slot])'
    BY <2>3, <2>4 DEF Shape, Bars
  <2> QED
    BY <2>1, <2>2, <2>5 DEF Returns
<1>23. ASSUME NEW r \in reports' PROVE Reported(r)'
  <2>1. Reported(r) /\ r.slot \in Slots /\ r.slot < slot
    BY <1>23 DEF PciInv, AllReported, Reported
  <2>2. bar'[r.slot] = bar[r.slot]
    BY <1>2, <1>10, <2>1 DEF Slots
  <2> QED
    BY <1>1, <1>2, <1>16, <2>1, <2>2, ReportedFrame DEF Slots
<1> QED
  BY <1>12, <1>19, <1>21, <1>22, <1>23 DEF PciInv, AllPlaced, AllApart, AllReported

(* pci_assign_bar_if_needed, for one BAR. *)
LEMMA AssignBarStep == ASSUME PciInv, NEW b \in Bars, AssignBar(b) PROVE PciInv'
<1> DEFINE hw   == bar[slot][b]
           size == pci_probe_bar_size(hw)
           a    == NewAddress(size)
<1>1. CASE Assigns(hw, size)
  BY <1>1, WriteBarStep DEF AssignBar, Advance
<1>2. CASE ~Assigns(hw, size)
  BY <1>2, KeepBarStep DEF AssignBar
<1> QED
  BY <1>1, <1>2

(* The initial state: nothing is found, assigned or reported.              *)
LEMMA PciInitInv == PciInit => PciInv
<1> SUFFICES ASSUME PciInit PROVE PciInv
  OBVIOUS
<1>1. NoBar \in Register /\ Sound(NoBar)
  BY DEF NoBar, Register, Sound
<1>2. Typed
  BY <1>1, PciAssumption DEF PciInit, Typed, Slots, WindowEnd
<1> QED
  BY <1>2 DEF PciInit, PciInv, AllPlaced, AllApart, Returns, AllReported

(* Every step preserves the invariant.                                     *)
LEMMA PciStepInv == PciInv /\ [PciNext]_pciVars => PciInv'
<1> SUFFICES ASSUME PciInv, [PciNext]_pciVars PROVE PciInv'
  OBVIOUS
<1>1. CASE SkipSlot
  BY <1>1, SkipSlotStep
<1>2. CASE \E p \in Profiles[Arch] : ReadBars(p)
  BY <1>2, ReadBarsStep
<1>3. CASE \E b \in Bars : AssignBar(b)
  BY <1>3, AssignBarStep
<1>4. CASE Report
  BY <1>4, ReportStep
<1>5. CASE UNCHANGED pciVars
  BY <1>5 DEF pciVars, PciInv, Typed, AllPlaced, Placed, AllApart, Apart, Returns, AllReported,
              Reported, Names, Handled, Size, Aligned
<1> QED
  BY <1>1, <1>2, <1>3, <1>4, <1>5 DEF PciNext

(* Whatever devices sit in whatever slots, on every platform: the BARs the *)
(* scan assigns answer to disjoint parts of the window.                    *)
THEOREM BarsDisjoint == PciSpec => []NoOverlap
<1>1. PciSpec => []PciInv
  BY PciInitInv, PciStepInv, PTL DEF PciSpec
<1> QED
  BY <1>1, InvNoOverlap, PTL

(* ... and what the callback is told of a device is what the device        *)
(* answers to, except where arm64 misplaced the BAR.                       *)
THEOREM BarsReported == PciSpec => []ReportsDecoded
<1>1. PciSpec => []PciInv
  BY PciInitInv, PciStepInv, PTL DEF PciSpec
<1> QED
  BY <1>1, InvReports, PTL

----------------------------------------------------------------------------
(***************************************************************************)
(* The virtio handshake.                                                   *)
(***************************************************************************)

(* What each stage of init_context has established on the current device.  *)
Stage ==
  /\ stage # "off" => cur \in Devs
  /\ initialized <=> stage = "running"
  /\ stage = "features" => queue = 0
  /\ stage = "queue" => queue < Cardinality(Queues)
  /\ stage \in {"populate", "ok", "running"} => queue = Cardinality(Queues)

(* A device that does not run, or is not the current one, was never told   *)
(* DRIVER_OK or has been reset since.                                      *)
OnlyCurrentRuns ==
  \A d \in Devs : "DRIVER_OK" \in status[d] <=> (stage = "running" /\ d = cur)

(* The queues passed so far are registered, their memory is clear, and the *)
(* receive queue has its buffers once they are posted.                     *)
QueuesSoFar ==
  stage # "off" =>
    \A q \in Queues : q < queue =>
      /\ queue_pfn[cur][q] = "context"
      /\ ring[q] = IF drv = "net" /\ q = 0 /\ stage \in {"ok", "running"}
                   THEN "posted" ELSE "zero"

(* A queue has the driver's number of entries over MMIO once it has been   *)
(* set up, and the device's own over PCI.                                  *)
NumSoFar ==
  stage # "off" =>
    \A q \in Queues :
      /\ kind[cur].transport = "mmio" /\ q < queue => queue_num[cur][q] = QueueSize
      /\ kind[cur].transport = "pci" => queue_num[cur][q] = kind[cur].queue_max[q]

HandshakeInv == HandshakeTypeOK /\ Stage /\ OnlyCurrentRuns /\ QueuesSoFar /\ NumSoFar

----------------------------------------------------------------------------
(* virtio-net has two queues, virtio-rng one. *)
LEMMA QueueCount ==
  /\ Cardinality(Queues) = IF drv = "net" THEN 2 ELSE 1
  /\ \A q \in Queues : q \in {0, 1} /\ q < Cardinality(Queues)
<1>1. Cardinality({0}) = 1 /\ IsFiniteSet({0})
  BY FS_Singleton
<1>2. {0, 1} = {0} \cup {1} /\ 1 \notin {0}
  OBVIOUS
<1>3. Cardinality({0} \cup {1}) = 2
  BY <1>1, <1>2, FS_AddElement
<1>4. Cardinality(Queues) = IF drv = "net" THEN 2 ELSE 1
  BY <1>1, <1>2, <1>3 DEF Queues
<1>5. QED BY <1>4 DEF Queues

(* The registers a device is described by. *)
LEMMA KindType ==
  ASSUME HandshakeTypeOK, NEW d \in Devs
  PROVE  kind[d].queue_max \in [{0, 1} -> Nat] /\ kind[d].transport \in Transports
<1>1. kind[d] \in Kinds(drv)
  BY DEF HandshakeTypeOK
<1>2. DeviceSizes[<<drv, "mmio">>] \subseteq Nat /\ DeviceSizes[<<drv, "pci">>] \subseteq Nat
  BY SizeAssumption DEF HandshakeTypeOK, Transports
<1>3. QED BY <1>1, <1>2 DEF Kinds, Transports

(* The state before any init_context satisfies the invariant. *)
LEMMA HandshakeInitInv == HandshakeInit => HandshakeInv
<1> SUFFICES ASSUME HandshakeInit PROVE HandshakeInv
  OBVIOUS
<1>1. \A d \in Devs : kind[d].queue_max \in [{0, 1} -> Nat]
  <2> SUFFICES ASSUME NEW d \in Devs PROVE kind[d].queue_max \in [{0, 1} -> Nat]
    OBVIOUS
  <2>1. kind[d] \in Kinds(drv) /\ drv \in Drivers
    BY DEF HandshakeInit
  <2>2. DeviceSizes[<<drv, "mmio">>] \subseteq Nat /\ DeviceSizes[<<drv, "pci">>] \subseteq Nat
    BY <2>1, SizeAssumption DEF Transports
  <2>3. QED BY <2>1, <2>2 DEF Kinds
<1>2. queue_num \in [Devs -> [{0, 1} -> Nat]] /\ queue_pfn \in [Devs -> [{0, 1} -> {"none", "context"}]]
  BY <1>1 DEF HandshakeInit, NoQueues
<1>3. queue \in 0 .. Cardinality(Queues)
  BY QueueCount DEF HandshakeInit
<1>4. HandshakeTypeOK
  BY <1>2, <1>3 DEF HandshakeInit, HandshakeTypeOK
<1>5. QED
  BY <1>4 DEF HandshakeInit, HandshakeInv, Stage, OnlyCurrentRuns, QueuesSoFar, NumSoFar

(* A reset leaves the registers well typed. *)
LEMMA ResetType ==
  ASSUME HandshakeTypeOK, NEW d \in Devs, NEW s, ResetRegs(d, s),
         s \subseteq {"ACKNOWLEDGE", "DRIVER", "FEATURES_OK", "DRIVER_OK", "FAILED"}
  PROVE  /\ status' \in [Devs -> SUBSET {"ACKNOWLEDGE", "DRIVER", "FEATURES_OK",
                                         "DRIVER_OK", "FAILED"}]
         /\ queue_num' \in [Devs -> [{0, 1} -> Nat]]
         /\ queue_pfn' \in [Devs -> [{0, 1} -> {"none", "context"}]]
         /\ \A e \in Devs : status'[e] = IF e = d THEN s ELSE status[e]
         /\ queue_num'[d] = kind[d].queue_max
<1>1. kind[d].queue_max \in [{0, 1} -> Nat]
  BY KindType
<1>2. NoQueues \in [{0, 1} -> {"none", "context"}]
  BY DEF NoQueues
<1>3. QED BY <1>1, <1>2 DEF HandshakeTypeOK, ResetRegs

(* The reset and the first two status writes preserve the invariant. *)
LEMMA StartInv ==
  ASSUME NEW d \in Devs, HandshakeInv, Start(d) PROVE HandshakeInv'
<1>0. drv' = drv /\ kind' = kind /\ Queues' = Queues /\ initialized' = initialized
  BY DEF Start, setup, Queues
<1>1. ResetRegs(d, {"ACKNOWLEDGE", "DRIVER"}) /\ cur' = d /\ queue' = 0 /\ stage = "off"
      /\ stage' \in {"queue", "features"}
  BY DEF Start
<1>2. HandshakeTypeOK'
  <2>1. ring' \in [{0, 1} -> {"stale", "zero", "posted"}]
    BY DEF HandshakeInv, HandshakeTypeOK, Start
  <2>2. 0 \in 0 .. Cardinality(Queues)
    BY QueueCount
  <2>3. QED BY <1>0, <1>1, <2>1, <2>2, ResetType DEF HandshakeInv, HandshakeTypeOK
<1>3. Stage'
  BY <1>0, <1>1, QueueCount DEF HandshakeInv, Stage
<1>4. OnlyCurrentRuns'
  BY <1>1, ResetType DEF HandshakeInv, OnlyCurrentRuns
<1>5. QueuesSoFar'
  BY <1>0, <1>1, QueueCount DEF QueuesSoFar
<1>6. NumSoFar'
  BY <1>0, <1>1, QueueCount, ResetType DEF HandshakeInv, NumSoFar
<1>7. QED BY <1>2, <1>3, <1>4, <1>5, <1>6 DEF HandshakeInv

(* A return of -1 preserves the invariant: the device is not running. *)
LEMMA FailInv ==
  ASSUME HandshakeInv, stage \in {"features", "queue"}, Fail PROVE HandshakeInv'
<1>0. drv' = drv /\ kind' = kind /\ Queues' = Queues
  BY DEF Fail, setup, Queues
<1>1. cur \in Devs
  BY DEF HandshakeInv, Stage
<1>2. HandshakeTypeOK'
  BY <1>0, <1>1 DEF HandshakeInv, HandshakeTypeOK, Fail, SetStatus, Return
<1>3. Stage'
  BY DEF HandshakeInv, Stage, Fail, Return
<1>4. OnlyCurrentRuns'
  BY <1>1 DEF HandshakeInv, HandshakeTypeOK, OnlyCurrentRuns, Fail, SetStatus, Return
<1>5. QueuesSoFar' /\ NumSoFar'
  BY DEF QueuesSoFar, NumSoFar, Fail, Return
<1>6. QED BY <1>2, <1>3, <1>4, <1>5 DEF HandshakeInv

(* FEATURES_OK preserves the invariant. *)
LEMMA FeaturesOkInv ==
  ASSUME HandshakeInv, FeaturesOk PROVE HandshakeInv'
<1>0. drv' = drv /\ kind' = kind /\ Queues' = Queues
  BY DEF FeaturesOk, setup, Queues
<1>1. cur \in Devs /\ queue = 0
  BY DEF HandshakeInv, Stage, FeaturesOk
<1>2. HandshakeTypeOK'
  BY <1>0, <1>1 DEF HandshakeInv, HandshakeTypeOK, FeaturesOk, SetStatus
<1>3. Stage'
  BY <1>0, <1>1, QueueCount DEF HandshakeInv, Stage, FeaturesOk
<1>4. OnlyCurrentRuns'
  BY <1>1 DEF HandshakeInv, HandshakeTypeOK, OnlyCurrentRuns, FeaturesOk, SetStatus
<1>5. QueuesSoFar'
  BY <1>0, <1>1, QueueCount DEF QueuesSoFar, FeaturesOk
<1>6. NumSoFar'
  BY <1>0, <1>1 DEF HandshakeInv, NumSoFar, FeaturesOk, SetStatus
<1>7. QED BY <1>2, <1>3, <1>4, <1>5, <1>6 DEF HandshakeInv

(* A device without a page frame register leaves no device running. *)
LEMMA NoPfnInv ==
  ASSUME HandshakeInv, NoPfn PROVE HandshakeInv'
<1>0. drv' = drv /\ kind' = kind /\ Queues' = Queues
  BY DEF NoPfn, setup, Queues
<1>1. cur \in Devs /\ queue \in Queues
  BY QueueCount DEF HandshakeInv, HandshakeTypeOK, Stage, NoPfn, Queues
<1>2. HandshakeTypeOK'
  <2>1. queue_num' \in [Devs -> [{0, 1} -> Nat]]
    BY <1>1, SizeAssumption DEF HandshakeInv, HandshakeTypeOK, NoPfn, SetQueueNum, Queues
  <2>2. ring' \in [{0, 1} -> {"stale", "zero", "posted"}]
    BY <1>1 DEF HandshakeInv, HandshakeTypeOK, NoPfn, Queues
  <2>3. QED BY <1>0, <1>1, <2>1, <2>2 DEF HandshakeInv, HandshakeTypeOK, NoPfn, Return
<1>3. Stage'
  BY DEF HandshakeInv, Stage, NoPfn, Return
<1>4. OnlyCurrentRuns'
  BY <1>1 DEF HandshakeInv, HandshakeTypeOK, OnlyCurrentRuns, NoPfn, Return
<1>5. QueuesSoFar' /\ NumSoFar'
  BY DEF QueuesSoFar, NumSoFar, NoPfn, Return
<1>6. QED BY <1>2, <1>3, <1>4, <1>5 DEF HandshakeInv

(* Setting one virtqueue up preserves the invariant. *)
LEMMA QueueSetInv ==
  ASSUME HandshakeInv, QueueSet PROVE HandshakeInv'
<1>0. drv' = drv /\ kind' = kind /\ Queues' = Queues /\ cur' = cur
  BY DEF QueueSet, setup, Queues
<1>1. /\ cur \in Devs /\ queue \in Queues /\ queue \in {0, 1} /\ queue \in Nat
      /\ queue < Cardinality(Queues) /\ Cardinality(Queues) \in {1, 2}
  BY QueueCount DEF HandshakeInv, HandshakeTypeOK, Stage, QueueSet, Queues
<1>2. queue' = queue + 1 /\ stage' = IF Cardinality(Queues) > queue + 1 THEN "queue" ELSE "populate"
  BY DEF QueueSet, NextStage
<1>3. /\ queue_pfn' \in [Devs -> [{0, 1} -> {"none", "context"}]]
      /\ queue_pfn'[cur][queue] = "context"
      /\ \A q \in {0, 1} \ {queue} : queue_pfn'[cur][q] = queue_pfn[cur][q]
  BY <1>1 DEF HandshakeInv, HandshakeTypeOK, QueueSet
<1>4. /\ ring' \in [{0, 1} -> {"stale", "zero", "posted"}]
      /\ ring'[queue] = "zero"
      /\ \A q \in {0, 1} \ {queue} : ring'[q] = ring[q]
  BY <1>1 DEF HandshakeInv, HandshakeTypeOK, QueueSet
<1>5. HandshakeTypeOK'
  <2>1. queue_num' \in [Devs -> [{0, 1} -> Nat]]
    BY <1>1, SizeAssumption DEF HandshakeInv, HandshakeTypeOK, QueueSet, SetQueueNum
  <2>2. queue' \in 0 .. Cardinality(Queues)
    BY <1>1, <1>2
  <2>3. QED BY <1>0, <1>2, <1>3, <1>4, <2>1, <2>2 DEF HandshakeInv, HandshakeTypeOK, QueueSet
<1>6. Stage'
  BY <1>0, <1>1, <1>2 DEF HandshakeInv, Stage, QueueSet
<1>7. OnlyCurrentRuns'
  BY <1>0, <1>2 DEF HandshakeInv, OnlyCurrentRuns, QueueSet
<1>8. QueuesSoFar'
  <2> SUFFICES ASSUME NEW q \in Queues, q < queue + 1
               PROVE  queue_pfn'[cur][q] = "context" /\ ring'[q] = "zero"
    BY <1>0, <1>2 DEF QueuesSoFar
  <2>1. CASE q = queue
    BY <2>1, <1>3, <1>4
  <2>2. CASE q # queue
    <3>1. q \in {0, 1} \ {queue} /\ q < queue
      BY <2>2, <1>1, QueueCount
    <3>2. QED BY <3>1, <1>3, <1>4 DEF HandshakeInv, QueuesSoFar, QueueSet
  <2>3. QED BY <2>1, <2>2
<1>9. NumSoFar'
  <2>1. ASSUME kind[cur].transport = "mmio", NEW q \in Queues, q < queue + 1
        PROVE  queue_num'[cur][q] = QueueSize
    <3>1. queue_num'[cur] = [queue_num[cur] EXCEPT ![queue] = QueueSize]
          /\ queue_num[cur] \in [{0, 1} -> Nat]
      BY <1>1, <2>1 DEF HandshakeInv, HandshakeTypeOK, QueueSet, SetQueueNum
    <3>2. CASE q = queue
      BY <1>1, <3>1, <3>2
    <3>3. CASE q # queue
      <4>1. q \in {0, 1} /\ q < queue
        BY <1>1, <2>1, <3>3, QueueCount
      <4>2. queue_num[cur][q] = QueueSize
        BY <2>1, <4>1 DEF HandshakeInv, NumSoFar, QueueSet
      <4>3. QED BY <3>1, <3>3, <4>1, <4>2
    <3>4. QED BY <3>2, <3>3
  <2>2. kind[cur].transport = "pci" =>
          \A q \in Queues : queue_num'[cur][q] = kind[cur].queue_max[q]
    BY <1>1 DEF HandshakeInv, NumSoFar, QueueSet, SetQueueNum
  <2>3. QED BY <1>0, <1>2, <2>1, <2>2 DEF NumSoFar
<1>10. QED BY <1>5, <1>6, <1>7, <1>8, <1>9 DEF HandshakeInv

(* Posting the receive buffers preserves the invariant. *)
LEMMA PopulateInv ==
  ASSUME HandshakeInv, Populate PROVE HandshakeInv'
<1>0. drv' = drv /\ kind' = kind /\ Queues' = Queues
  BY DEF Populate, setup, Queues
<1>1. cur \in Devs
  BY DEF HandshakeInv, Stage, Populate
<1>2. HandshakeTypeOK'
  BY <1>0 DEF HandshakeInv, HandshakeTypeOK, Populate, regs
<1>3. Stage'
  BY <1>0 DEF HandshakeInv, Stage, Populate
<1>4. OnlyCurrentRuns'
  BY DEF HandshakeInv, OnlyCurrentRuns, Populate, regs
<1>5. QueuesSoFar'
  BY <1>0, QueueCount DEF HandshakeInv, HandshakeTypeOK, QueuesSoFar, Populate, regs, Queues
<1>6. NumSoFar'
  BY <1>0 DEF HandshakeInv, NumSoFar, Populate, regs
<1>7. QED BY <1>2, <1>3, <1>4, <1>5, <1>6 DEF HandshakeInv

(* DRIVER_OK preserves the invariant: from here on the device runs. *)
LEMMA DriverOkInv ==
  ASSUME HandshakeInv, DriverOk PROVE HandshakeInv'
<1> DEFINE s == {"ACKNOWLEDGE", "DRIVER", "DRIVER_OK"}
                  \cup (IF kind[cur].transport = "mmio" THEN {"FEATURES_OK"} ELSE {})
<1>0. drv' = drv /\ kind' = kind /\ Queues' = Queues /\ cur' = cur
  BY DEF DriverOk, setup, Queues
<1>1. cur \in Devs
  BY DEF HandshakeInv, Stage, DriverOk
<1>2. /\ status' = [status EXCEPT ![cur] = s]
      /\ "DRIVER_OK" \in s
      /\ s \subseteq {"ACKNOWLEDGE", "DRIVER", "FEATURES_OK", "DRIVER_OK", "FAILED"}
  BY DEF DriverOk, SetStatus
<1> HIDE DEF s
<1>3. HandshakeTypeOK'
  BY <1>0, <1>1, <1>2 DEF HandshakeInv, HandshakeTypeOK, DriverOk, SetStatus
<1>4. Stage'
  BY <1>0 DEF HandshakeInv, Stage, DriverOk
<1>5. OnlyCurrentRuns'
  BY <1>0, <1>1, <1>2 DEF HandshakeInv, HandshakeTypeOK, OnlyCurrentRuns, DriverOk
<1>6. QueuesSoFar'
  BY <1>0 DEF HandshakeInv, QueuesSoFar, DriverOk, SetStatus
<1>7. NumSoFar'
  BY <1>0 DEF HandshakeInv, NumSoFar, DriverOk, SetStatus
<1>8. QED BY <1>3, <1>4, <1>5, <1>6, <1>7 DEF HandshakeInv

(* A DRIVER_OK that is not taken leaves no device running, although FAILED *)
(* is not written.                                                         *)
LEMMA DriverOkRefusedInv ==
  ASSUME HandshakeInv, DriverOkRefused PROVE HandshakeInv'
<1>0. drv' = drv /\ kind' = kind /\ Queues' = Queues
  BY DEF DriverOkRefused, setup, Queues
<1>1. cur \in Devs
  BY DEF HandshakeInv, Stage, DriverOkRefused
<1>2. HandshakeTypeOK'
  BY <1>0, <1>1 DEF HandshakeInv, HandshakeTypeOK, DriverOkRefused, SetStatus, Return
<1>3. Stage'
  BY DEF HandshakeInv, Stage, DriverOkRefused, Return
<1>4. OnlyCurrentRuns'
  BY <1>1 DEF HandshakeInv, HandshakeTypeOK, OnlyCurrentRuns, DriverOkRefused, SetStatus, Return
<1>5. QueuesSoFar' /\ NumSoFar'
  BY DEF QueuesSoFar, NumSoFar, DriverOkRefused, Return
<1>6. QED BY <1>2, <1>3, <1>4, <1>5 DEF HandshakeInv

(* deinit_context preserves the invariant: it stops the one device. *)
LEMMA DeinitInv ==
  ASSUME HandshakeInv, Deinit PROVE HandshakeInv'
<1>0. drv' = drv /\ kind' = kind /\ Queues' = Queues
  BY DEF Deinit, setup, Queues
<1>1. cur \in Devs /\ ResetRegs(cur, {})
  BY DEF HandshakeInv, Stage, Deinit
<1>2. HandshakeTypeOK'
  BY <1>0, <1>1, ResetType DEF HandshakeInv, HandshakeTypeOK, Deinit, Return
<1>3. Stage'
  BY DEF Stage, Deinit, Return
<1>4. OnlyCurrentRuns'
  BY <1>1, ResetType DEF HandshakeInv, OnlyCurrentRuns, Deinit, Return
<1>5. QueuesSoFar' /\ NumSoFar'
  BY DEF QueuesSoFar, NumSoFar, Deinit, Return
<1>6. QED BY <1>2, <1>3, <1>4, <1>5 DEF HandshakeInv

----------------------------------------------------------------------------
(* The invariant holds in every reachable state of the handshake. *)
THEOREM HandshakeInvariant == HandshakeSpec => []HandshakeInv
<1>1. HandshakeInit => HandshakeInv
  BY HandshakeInitInv
<1>2. HandshakeInv /\ [HandshakeNext]_handshakeVars => HandshakeInv'
  <2> SUFFICES ASSUME HandshakeInv, [HandshakeNext]_handshakeVars PROVE HandshakeInv'
    OBVIOUS
  <2>1. CASE UNCHANGED handshakeVars
    BY <2>1 DEF HandshakeInv, HandshakeTypeOK, Stage, OnlyCurrentRuns, QueuesSoFar, NumSoFar,
       Queues, handshakeVars, setup, regs
  <2>2. CASE \E d \in Devs : Start(d)
    BY <2>2, StartInv
  <2>3. CASE Step
    <3>1. CASE FeaturesRefused \/ QueueTooSmall
      BY <3>1, FailInv DEF FeaturesRefused, QueueTooSmall
    <3>2. QED
      BY <2>3, <3>1, FeaturesOkInv, NoPfnInv, QueueSetInv, PopulateInv, DriverOkInv,
         DriverOkRefusedInv DEF Step
  <2>4. QED BY <2>1, <2>2, <2>3, DeinitInv DEF HandshakeNext
<1>3. QED BY <1>1, <1>2, PTL DEF HandshakeSpec

(* A device works on the memory of the context exactly while the context   *)
(* is initialised: no failed init_context leaves a device running.         *)
THEOREM OneDeviceRuns == HandshakeSpec => []LiveIffInitialized
<1>1. HandshakeInv => LiveIffInitialized
  BY DEF HandshakeInv, Stage, OnlyCurrentRuns, LiveIffInitialized, Live
<1>2. QED BY <1>1, HandshakeInvariant, PTL

(* A device that runs has every queue of its driver registered over memory *)
(* that init_context cleared, the receive buffers posted, and rings of the *)
(* size it uses.                                                           *)
THEOREM RunsWithQueues == HandshakeSpec => []QueuesReady
<1>1. HandshakeInv => QueuesReady
  <2> SUFFICES ASSUME HandshakeInv, NEW d \in Live, NEW q \in Queues
               PROVE  /\ queue_pfn[d][q] = "context"
                      /\ ring[q] = IF drv = "net" /\ q = 0 THEN "posted" ELSE "zero"
                      /\ (kind[d].transport = "mmio" \/ kind[d].queue_max[q] = Layout(d))
                           => queue_num[d][q] = Layout(d)
    BY DEF QueuesReady
  <2>1. d \in Devs /\ stage = "running" /\ d = cur /\ queue = Cardinality(Queues)
    BY DEF HandshakeInv, Stage, OnlyCurrentRuns, Live
  <2>2. kind[d].transport \in Transports
    BY <2>1, KindType DEF HandshakeInv
  <2>3. q < queue
    BY <2>1, QueueCount
  <2>4. QED
    BY <2>1, <2>2, <2>3 DEF HandshakeInv, QueuesSoFar, NumSoFar, Layout, Transports
<1>2. QED BY <1>1, HandshakeInvariant, PTL
=============================================================================
