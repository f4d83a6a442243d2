----------------------------- MODULE Resources -----------------------------
(***************************************************************************)
(* The resource manager, kernel/resources/resources.c: a static pool of    *)
(* resource_t records, the linked list of the allocated ones, and the      *)
(* acquisition loop that probes the devices of the scanned list in order,  *)
(* calling the driver's init_context on each candidate.                    *)
(*                                                                         *)
(* A resource_t is identified by its index in the pool; every field is a   *)
(* function of that index, so the list is the pointer structure of the     *)
(* code.  resource_acquire_available is split where control leaves the     *)
(* manager: at the call of init_context, during which the slot is in use   *)
(* but not yet listed.                                                     *)
(***************************************************************************)
EXTENDS Naturals, Sequences

CONSTANTS
  Devices,        \* the device_t records of the registry
  Drivers,        \* the driver_t descriptors
  Contexts,       \* the driver contexts the applications own
  PoolSize,       \* MAX_RESOURCE_ALLOCATIONS
  NULL,
  DeviceList,     \* the list devices_scan() returns, in order
  compatible,     \* device->compatible, NULL when absent
  pci_id,         \* the (vendor_id, device_id) pair of a device
  id_table,       \* per driver, the entries before the terminator
  Quiescing       \* the drivers whose deinit_context resets the device

ASSUME PoolAssumption == PoolSize \in Nat \ {0}
ASSUME NullAssumption ==
  /\ NULL \notin Devices
  /\ NULL \notin Drivers
  /\ NULL \notin Contexts
  /\ NULL \notin Nat
  /\ NULL \notin [driver : Drivers, context : Contexts]
  /\ NULL \notin [driver : Drivers, context : Contexts, at : Nat,
                  slot : Nat \cup {NULL}]
ASSUME ListAssumption == DeviceList \in Seq(Devices)
ASSUME QuiescingAssumption == Quiescing \subseteq Drivers

Slots == 0 .. (PoolSize - 1)

VARIABLES
  devices,        \* resources.devices
  allocations,    \* resources.allocations, the head of the list
  in_use, device, driver, context, next,   \* the fields of resources.pool[]
  call,           \* the acquisition under way, NULL between two calls
  live            \* hardware: the driver and the memory a device works for

pool == <<in_use, device, driver, context, next>>
vars == <<devices, allocations, pool, call, live>>

(***************************************************************************)
(* The list: the least set of slots that holds the head and is closed      *)
(* under next.  It is what a walk from resources.allocations visits.       *)
(***************************************************************************)
Closed(S) ==
  /\ allocations # NULL => allocations \in S
  /\ \A s \in S : next[s] # NULL => next[s] \in S

Listed == {s \in Slots : \A S \in SUBSET Slots : Closed(S) => s \in S}

(* Seeded fault: only the head of the list is looked at. *)
device_is_allocated_head(d) == allocations # NULL /\ device[allocations] = d

device_is_allocated(d) == \E s \in Listed : device[s] = d

device_matches_driver(d, drv) ==
  \E e \in id_table[drv] :
    \/ /\ e.compatible # NULL
       /\ compatible[d] # NULL
       /\ e.compatible = compatible[d]
    \/ /\ e.pci_id # NULL
       /\ e.pci_id = pci_id[d]

(* Seeded fault: the search falls through to the last slot. *)
FirstFree_fallthrough(s) ==
  /\ \A t \in Slots : t < s => in_use[t]
  /\ ~in_use[s] \/ s = PoolSize - 1

(* resource_alloc returns the first slot of the pool that is not in use.   *)
FirstFree(s) == ~in_use[s] /\ \A t \in Slots : t < s => in_use[t]

PoolFull == \A s \in Slots : in_use[s]

(* resource_free. *)
resource_free(s) ==
  /\ in_use'  = [in_use EXCEPT ![s] = FALSE]
  /\ device'  = [device EXCEPT ![s] = NULL]
  /\ driver'  = [driver EXCEPT ![s] = NULL]
  /\ context' = [context EXCEPT ![s] = NULL]

----------------------------------------------------------------------------
Init ==
  /\ devices = <<>>
  /\ allocations = NULL
  /\ in_use  = [s \in Slots |-> FALSE]
  /\ device  = [s \in Slots |-> NULL]
  /\ driver  = [s \in Slots |-> NULL]
  /\ context = [s \in Slots |-> NULL]
  /\ next    = [s \in Slots |-> NULL]
  /\ call = NULL
  /\ live  = [d \in Devices |-> NULL]

(* kernel_main hands the scanned list over once, before any application. *)
resources_set_devices ==
  /\ devices = <<>>
  /\ call = NULL
  /\ devices' = DeviceList
  /\ UNCHANGED <<allocations, pool, call, live>>

(***************************************************************************)
(* Entry of resource_acquire_available(drv, ctx).  It looks at nothing but *)
(* its arguments; that the context is free is up to the caller.            *)
(***************************************************************************)
resource_acquire_available(drv, ctx) ==
  /\ call = NULL
  /\ call' = [driver |-> drv, context |-> ctx, at |-> 1, slot |-> NULL]
  /\ UNCHANGED <<devices, allocations, pool, live>>

(* The caller the manager is correct for: it passes a context that no      *)
(* allocation uses.  Module Boot shows that the applications of this       *)
(* kernel are such callers.                                                *)
Acquire(drv, ctx) ==
  /\ \A s \in Slots : context[s] # ctx
  /\ resource_acquire_available(drv, ctx)

Scanning == call # NULL /\ call.slot = NULL /\ call.at \in 1 .. Len(devices)

Candidate ==
  /\ device_matches_driver(devices[call.at], call.driver)
  /\ ~device_is_allocated(devices[call.at])

(* Seeded fault: a skipped device advances the cursor twice. *)
SkipDevice_twice ==
  /\ Scanning
  /\ ~Candidate
  /\ call' = [call EXCEPT !.at = @ + 2]
  /\ UNCHANGED <<devices, allocations, pool, live>>

(* The two `continue's before a slot is taken. *)
SkipDevice ==
  /\ Scanning
  /\ ~Candidate
  /\ call' = [call EXCEPT !.at = @ + 1]
  /\ UNCHANGED <<devices, allocations, pool, live>>

(* return NULL: no free resource in the pool. *)
NoSlot ==
  /\ Scanning
  /\ Candidate
  /\ PoolFull
  /\ call' = NULL
  /\ UNCHANGED <<devices, allocations, pool, live>>

(* resource_alloc, the three fields, and the call of init_context. *)
StartInit ==
  /\ Scanning
  /\ Candidate
  /\ \E s \in Slots :
       /\ FirstFree(s)
       /\ in_use'  = [in_use EXCEPT ![s] = TRUE]
       /\ device'  = [device EXCEPT ![s] = devices[call.at]]
       /\ driver'  = [driver EXCEPT ![s] = call.driver]
       /\ context' = [context EXCEPT ![s] = call.context]
       /\ call' = [call EXCEPT !.slot = s]
  /\ UNCHANGED <<devices, allocations, next, live>>

Initialising == call # NULL /\ call.slot # NULL

(* Seeded fault: the failed device is tried again. *)
InitFailed_retry ==
  /\ Initialising
  /\ resource_free(call.slot)
  /\ next' = [next EXCEPT ![call.slot] = NULL]
  /\ call' = [call EXCEPT !.slot = NULL]
  /\ UNCHANGED <<devices, allocations, live>>

(* init_context failed: free the slot and go on with the next device. *)
InitFailed ==
  /\ Initialising
  /\ resource_free(call.slot)
  /\ next' = [next EXCEPT ![call.slot] = NULL]
  /\ call' = [call EXCEPT !.at = @ + 1, !.slot = NULL]
  /\ UNCHANGED <<devices, allocations, live>>

(* resource_add_allocation: push the slot at the head of the list. *)
resource_add_allocation(s) ==
  /\ next' = [next EXCEPT ![s] = allocations]
  /\ allocations' = s

(* init_context succeeded: the device now works for the context; list the  *)
(* resource and return it.                                                 *)
InitDone ==
  /\ Initialising
  /\ resource_add_allocation(call.slot)
  /\ live' = [live EXCEPT ![device[call.slot]] =
                [driver |-> call.driver, context |-> call.context]]
  /\ call' = NULL
  /\ UNCHANGED <<devices, in_use, device, driver, context>>

(* return NULL: no matching device found. *)
NotFound ==
  /\ call # NULL
  /\ call.slot = NULL
  /\ call.at > Len(devices)
  /\ call' = NULL
  /\ UNCHANGED <<devices, allocations, pool, live>>

(* Seeded fault: the predecessor of the removed resource ends the list. *)
Unlink_cut(s) ==
  \/ /\ allocations = s
     /\ allocations' = next[s]
     /\ next' = [next EXCEPT ![s] = NULL]
  \/ /\ allocations # s
     /\ \E r \in Listed :
          /\ next[r] = s
          /\ next' = [next EXCEPT ![r] = NULL, ![s] = NULL]
     /\ UNCHANGED allocations

(***************************************************************************)
(* resource_remove_allocation(s), for a listed s, and the clearing of next *)
(* by resource_free(s): the head moves on, or the predecessor skips s.     *)
(***************************************************************************)
Unlink(s) ==
  \/ /\ allocations = s
     /\ allocations' = next[s]
     /\ next' = [next EXCEPT ![s] = NULL]
  \/ /\ allocations # s
     /\ \E r \in Listed :
          /\ next[r] = s
          /\ next' = [next EXCEPT ![r] = next[s], ![s] = NULL]
     /\ UNCHANGED allocations

(* Seeded fault: the slot is freed without deinit_context. *)
Release_live(s) ==
  /\ call = NULL
  /\ Unlink(s)
  /\ resource_free(s)
  /\ UNCHANGED <<devices, call, live>>

(* resource_release(s); a handle that is not listed returns -1. *)
Release(s) ==
  /\ call = NULL
  /\ Unlink(s)
  /\ live' = [live EXCEPT ![device[s]] =
                IF driver[s] \in Quiescing THEN NULL ELSE @]
  /\ resource_free(s)
  /\ UNCHANGED <<devices, call>>

Next ==
  \/ resources_set_devices
  \/ \E drv \in Drivers, ctx \in Contexts : Acquire(drv, ctx)
  \/ SkipDevice
  \/ NoSlot
  \/ StartInit
  \/ InitFailed
  \/ InitDone
  \/ NotFound
  \/ \E s \in Slots : Release(s)

Spec == Init /\ [][Next]_vars

(* Control always comes back from init_context and the loop always moves.  *)
Return == SkipDevice \/ NoSlot \/ StartInit \/ InitFailed \/ InitDone \/ NotFound
FairSpec == Spec /\ WF_vars(Return)

----------------------------------------------------------------------------
InUse == {s \in Slots : in_use[s]}

(* The slot of the acquisition under way, in use but not listed. *)
Pending == IF Initialising THEN {call.slot} ELSE {}

CallType ==
  [driver : Drivers, context : Contexts, at : 1 .. Len(devices) + 1,
   slot : Slots \cup {NULL}]

(* Every variable has its type; the cursor stays within one past the end   *)
(* of the device list (the for loop of resource_acquire_available), and a  *)
(* slot is being initialised only for a device of the list.                *)
TypeOK ==
  /\ devices \in {<<>>, DeviceList}
  /\ allocations \in Slots \cup {NULL}
  /\ in_use \in [Slots -> BOOLEAN]
  /\ device \in [Slots -> Devices \cup {NULL}]
  /\ driver \in [Slots -> Drivers \cup {NULL}]
  /\ context \in [Slots -> Contexts \cup {NULL}]
  /\ next \in [Slots -> Slots \cup {NULL}]
  /\ call = NULL \/ call \in CallType
  /\ Initialising => call.at \in 1 .. Len(devices)
  /\ live \in [Devices -> [driver : Drivers, context : Contexts] \cup {NULL}]

(* A walk of the list from resources.allocations visits exactly the slots  *)
(* of the pool that are in use, the one being initialised excepted: no     *)
(* path through acquire, failed init and release leaks a slot, lists a     *)
(* free one or cuts the list.                                              *)
ListIsPool == Listed = InUse \ Pending

(* resource.h: "Device is acquired exclusively".  No device is held, or    *)
(* being initialised, through two resources.                               *)
Exclusive ==
  \A s, t \in InUse : device[s] = device[t] => s = t

(* The memory a device of a resetting driver was given (its queues and     *)
(* buffers live in the context) belongs to the allocation that holds the   *)
(* device now: no DMA into a context whose resource was released.          *)
DmaConfined ==
  \A d \in Devices :
    (live[d] # NULL /\ live[d].driver \in Quiescing) =>
      \E s \in InUse : /\ device[s] = d
                       /\ driver[s] = live[d].driver
                       /\ context[s] = live[d].context

(* A handle an application holds keeps its device, driver and context      *)
(* until that slot is freed, whatever else is acquired or released.        *)
HeldStable ==
  [][\A s \in Listed : in_use'[s] =>
        /\ device'[s] = device[s]
        /\ driver'[s] = driver[s]
        /\ context'[s] = context[s]]_vars

(* resource_acquire_available always returns, even when every              *)
(* init_context fails.                                                     *)
AcquireReturns == (call # NULL) ~> (call = NULL)

=============================================================================
