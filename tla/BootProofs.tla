----------------------------- MODULE BootProofs -----------------------------
(***************************************************************************)
(* The applications, from kernel entry on.  For every machine, command     *)
(* line and number of static contexts: the applications are callers as the *)
(* resource manager assumes them, so all that is proved of the manager     *)
(* holds in a boot; what they hold works; netdev_acquire_all leaves no     *)
(* device behind; every log tag has its level.  For every set of clients,  *)
(* whatever the network loses, repeats or reorders: the HTTP server keeps  *)
(* their streams, answers each request once, and every frame it sends      *)
(* verifies.                                                               *)
(***************************************************************************)
EXTENDS Boot, HttpHello, RingTheorems

(***************************************************************************)
(* First the resource manager.  For every pool size, device list and id    *)
(* table, and any callers that follow its protocol: the list of            *)
(* allocations is exactly the set of slots in use, and no device is held   *)
(* twice.                                                                  *)
(***************************************************************************)

(* The list has no shared tail and nothing points at its head; a slot off  *)
(* the list points nowhere.                                                *)
Linked ==
  /\ \A s, t \in Listed : (next[s] = next[t] /\ next[s] # NULL) => s = t
  /\ \A s \in Listed : next[s] # NULL => next[s] # allocations
  /\ \A s \in Slots \ Listed : next[s] = NULL

(* The slot being initialised is in use, for the device at the cursor.     *)
PendingInUse ==
  Initialising => /\ in_use[call.slot]
                  /\ device[call.slot] = devices[call.at]
                  /\ ~device_is_allocated(devices[call.at])

IInv ==
  /\ TypeOK
  /\ ListIsPool
  /\ Linked
  /\ PendingInUse
  /\ \A s \in InUse : device[s] # NULL
  /\ Exclusive

----------------------------------------------------------------------------
(* The list is closed under the head and next pointers. *)
LEMMA ListedIsClosed == ASSUME TypeOK PROVE Closed(Listed)
<1>1. \A s \in Listed : s \in Slots
  BY DEF Listed
<1>2. allocations # NULL => allocations \in Listed
  BY DEF TypeOK, Listed, Closed
<1>3. ASSUME NEW s \in Listed, next[s] # NULL PROVE next[s] \in Listed
  <2>1. next[s] \in Slots
    BY <1>1, <1>3 DEF TypeOK
  <2>2. ASSUME NEW S \in SUBSET Slots, Closed(S) PROVE next[s] \in S
    BY <1>3, <2>2 DEF Listed, Closed
  <2>3. QED BY <2>1, <2>2 DEF Listed
<1>4. QED BY <1>2, <1>3 DEF Closed

(* ... and is the least such set: it is inside every closed set of slots. *)
LEMMA ListedIsLeast ==
  ASSUME NEW S \in SUBSET Slots, Closed(S) PROVE Listed \subseteq S
BY DEF Listed

(* Nothing on a well-linked list points at itself. *)
LEMMA NoSelfLoop ==
  ASSUME TypeOK, Linked, NEW s \in Listed PROVE next[s] # s
<1> SUFFICES ASSUME next[s] = s PROVE FALSE
  OBVIOUS
<1>1. s \in Slots
  BY DEF Listed
<1>2. s # NULL
  BY <1>1, NullAssumption, PoolAssumption DEF Slots
<1>3. s # allocations
  BY <1>2 DEF Linked
<1>4. Closed(Listed \ {s})
  BY ListedIsClosed, <1>2, <1>3 DEF Closed, Linked
<1>5. Listed \ {s} \in SUBSET Slots
  BY DEF Listed
<1>6. QED BY <1>4, <1>5, ListedIsLeast

----------------------------------------------------------------------------
(* The empty pool satisfies the invariant. *)
LEMMA InitInv == Init => IInv
<1> SUFFICES ASSUME Init PROVE IInv
  OBVIOUS
<1>0. \A s \in Slots : s # NULL
  BY NullAssumption, PoolAssumption DEF Slots
<1>1. TypeOK
  BY DEF Init, TypeOK, Initialising
<1>2. Closed({})
  BY DEF Init, Closed
<1>3. Listed = {}
  BY <1>2, ListedIsLeast
<1>4. InUse = {}
  BY DEF Init, InUse
<1>5. QED
  BY <1>1, <1>3, <1>4 DEF Init, IInv, ListIsPool, Linked, PendingInUse,
     Exclusive, Pending, Initialising
----------------------------------------------------------------------------
(* Steps that touch neither the pool nor the list and leave no slot        *)
(* pending keep every part of the invariant but the type of the call.      *)
LEMMA OffPool ==
  ASSUME IInv, TypeOK', UNCHANGED <<allocations, pool>>,
         ~Initialising, ~Initialising'
  PROVE  IInv'
<1>1. Listed' = Listed
  BY DEF Listed, Closed, pool
<1>2. InUse' = InUse
  BY DEF InUse, pool
<1>3. Pending = {} /\ Pending' = {}
  BY DEF Pending
<1>4. QED
  BY <1>1, <1>2, <1>3
  DEF IInv, ListIsPool, Linked, PendingInUse, Exclusive, pool

(* resources_set_devices preserves the invariant. *)
LEMMA SetDevicesInv == IInv /\ resources_set_devices => IInv'
<1> SUFFICES ASSUME IInv, resources_set_devices PROVE IInv'
  OBVIOUS
<1>1. ~Initialising /\ ~Initialising'
  BY DEF Initialising, resources_set_devices
<1>2. TypeOK'
  BY <1>1, ListAssumption DEF IInv, TypeOK, resources_set_devices, pool
<1>3. QED
  BY <1>1, <1>2, OffPool DEF resources_set_devices

(* The start of an acquisition preserves the invariant. *)
LEMMA AcquireInv ==
  ASSUME NEW drv \in Drivers, NEW ctx \in Contexts
  PROVE  IInv /\ Acquire(drv, ctx) => IInv'
<1> SUFFICES ASSUME IInv, Acquire(drv, ctx) PROVE IInv'
  OBVIOUS
<1>1. ~Initialising /\ ~Initialising'
  BY DEF Initialising, Acquire, resource_acquire_available
<1>2. call' \in CallType'
  <2>1. devices' = devices /\ Len(devices) \in Nat
    BY ListAssumption DEF Acquire, resource_acquire_available, IInv, TypeOK
  <2>2. 1 \in 1 .. Len(devices) + 1
    BY <2>1
  <2>3. QED BY <2>1, <2>2 DEF Acquire, resource_acquire_available, CallType
<1>3. TypeOK'
  BY <1>1, <1>2 DEF IInv, TypeOK, Acquire, resource_acquire_available, pool
<1>4. QED
  BY <1>1, <1>3, OffPool DEF Acquire, resource_acquire_available

(* Passing over a device preserves the invariant. *)
LEMMA SkipInv == IInv /\ SkipDevice => IInv'
<1> SUFFICES ASSUME IInv, SkipDevice PROVE IInv'
  OBVIOUS
<1>1. call \in CallType
  BY DEF IInv, TypeOK, SkipDevice, Scanning
<1>2. ~Initialising /\ ~Initialising'
  BY <1>1 DEF Initialising, SkipDevice, Scanning, CallType
<1>3. call' \in CallType'
  <2>1. devices' = devices /\ Len(devices) \in Nat
    BY ListAssumption DEF SkipDevice, IInv, TypeOK
  <2>2. call.at + 1 \in 1 .. Len(devices) + 1
    BY <2>1 DEF SkipDevice, Scanning
  <2>3. QED BY <1>1, <2>1, <2>2 DEF SkipDevice, CallType
<1>4. TypeOK'
  BY <1>2, <1>3 DEF IInv, TypeOK, SkipDevice, pool
<1>5. QED
  BY <1>2, <1>4, OffPool DEF SkipDevice

(* The two returns of NULL preserve the invariant. *)
LEMMA GiveUpInv == IInv /\ (NoSlot \/ NotFound) => IInv'
<1> SUFFICES ASSUME IInv, NoSlot \/ NotFound PROVE IInv'
  OBVIOUS
<1>1. ~Initialising /\ ~Initialising'
  BY DEF Initialising, NoSlot, NotFound, Scanning
<1>2. TypeOK'
  BY <1>1 DEF IInv, TypeOK, NoSlot, NotFound, pool
<1>3. QED
  BY <1>1, <1>2, OffPool DEF NoSlot, NotFound

(* Taking a slot for init_context preserves the invariant. *)
LEMMA StartInitInv == IInv /\ StartInit => IInv'
<1> SUFFICES ASSUME IInv, StartInit PROVE IInv'
  OBVIOUS
<1>0. \A s \in Slots : s # NULL
  BY NullAssumption, PoolAssumption DEF Slots
<1>1. PICK s \in Slots :
        /\ FirstFree(s)
        /\ in_use'  = [in_use EXCEPT ![s] = TRUE]
        /\ device'  = [device EXCEPT ![s] = devices[call.at]]
        /\ driver'  = [driver EXCEPT ![s] = call.driver]
        /\ context' = [context EXCEPT ![s] = call.context]
        /\ call' = [call EXCEPT !.slot = s]
  BY DEF StartInit
<1>2. call \in CallType /\ call.at \in 1 .. Len(devices) /\ ~Initialising
  BY DEF IInv, TypeOK, StartInit, Scanning, Initialising
<1>3. /\ call' \in CallType
      /\ call'.slot = s
      /\ call'.at = call.at
      /\ call' # NULL
  <2>1. call' = [driver |-> call.driver, context |-> call.context,
                 at |-> call.at, slot |-> s]
    BY <1>1, <1>2 DEF CallType
  <2>2. call' \in [driver : Drivers, context : Contexts, at : Nat,
                   slot : Nat \cup {NULL}]
    BY <2>1, <1>1, <1>2, PoolAssumption DEF CallType, Slots
  <2>3. QED BY <2>1, <2>2, <1>2, NullAssumption DEF CallType
<1>4. devices[call.at] \in Devices
  BY <1>2, ListAssumption DEF IInv, TypeOK
<1>5. TypeOK'
  BY <1>1, <1>2, <1>3, <1>4 DEF IInv, TypeOK, StartInit, Initialising, CallType
<1>6. Listed' = Listed
  BY DEF StartInit, Listed, Closed
<1>7. Pending = {} /\ Pending' = {s} /\ Initialising'
  BY <1>0, <1>2, <1>3 DEF Pending, Initialising
<1>8. s \notin InUse /\ InUse' = InUse \cup {s}
  BY <1>1 DEF InUse, FirstFree, IInv, TypeOK
<1>9. ListIsPool'
  BY <1>6, <1>7, <1>8 DEF ListIsPool, IInv
<1>10. Linked'
  BY <1>6 DEF IInv, Linked, StartInit
<1>11. Listed = InUse /\ s \notin Listed
  BY <1>7, <1>8 DEF IInv, ListIsPool
<1>12. \A t \in InUse : device'[t] = device[t]
  BY <1>1, <1>8 DEF IInv, TypeOK, InUse
<1>13. device'[s] = devices[call.at]
  BY <1>1 DEF IInv, TypeOK
<1>14. \A t \in InUse : device[t] # devices[call.at]
  BY <1>11 DEF StartInit, Candidate, device_is_allocated
<1>15. PendingInUse'
  BY <1>1, <1>3, <1>6, <1>11, <1>12, <1>13, <1>14
  DEF PendingInUse, device_is_allocated, StartInit, IInv, TypeOK
<1>16. Exclusive' /\ \A t \in InUse' : device'[t] # NULL
  BY <1>4, <1>8, <1>12, <1>13, <1>14, NullAssumption DEF IInv, Exclusive
<1>17. QED
  BY <1>5, <1>9, <1>10, <1>15, <1>16 DEF IInv

(* What is known while init_context runs. *)
LEMMA PendingFacts ==
  ASSUME IInv, Initialising
  PROVE  /\ call \in CallType
         /\ call.slot \in Slots
         /\ Pending = {call.slot}
         /\ Listed = InUse \ {call.slot}
         /\ call.slot \in InUse
         /\ next[call.slot] = NULL
         /\ call.at \in 1 .. Len(devices)
         /\ Len(devices) \in Nat
<1>1. call \in CallType /\ call.slot \in Slots
  BY DEF IInv, TypeOK, Initialising, CallType
<1>2. Pending = {call.slot}
  BY DEF Pending
<1>3. call.slot \in InUse
  BY <1>1 DEF IInv, PendingInUse, InUse
<1>4. call.at \in 1 .. Len(devices) /\ Len(devices) \in Nat
  BY ListAssumption DEF IInv, TypeOK
<1>5. QED
  BY <1>1, <1>2, <1>3, <1>4 DEF IInv, ListIsPool, Linked

(* Freeing the slot of a failed init_context preserves the invariant. *)
LEMMA InitFailedInv == IInv /\ InitFailed => IInv'
<1> SUFFICES ASSUME IInv, InitFailed PROVE IInv'
  OBVIOUS
<1>1. Initialising
  BY DEF InitFailed
<1> DEFINE s == call.slot
<1>2. next' = next /\ allocations' = allocations
  BY <1>1, PendingFacts DEF InitFailed, IInv, TypeOK
<1>3. Listed' = Listed
  BY <1>2 DEF Listed, Closed
<1>4. call' = [driver |-> call.driver, context |-> call.context,
               at |-> call.at + 1, slot |-> NULL]
  BY <1>1, PendingFacts DEF InitFailed, CallType
<1>5. call' \in CallType' /\ ~Initialising'
  <2>1. call.at + 1 \in 1 .. Len(devices) + 1 /\ devices' = devices
    BY <1>1, PendingFacts DEF InitFailed
  <2>2. QED
    BY <1>1, <1>4, <2>1, PendingFacts DEF CallType, Initialising
<1>6. TypeOK'
  BY <1>1, <1>2, <1>5, PendingFacts DEF IInv, TypeOK, InitFailed, resource_free
<1>7. InUse' = InUse \ {s} /\ Pending' = {}
  BY <1>1, <1>5, PendingFacts DEF InUse, Pending, InitFailed, resource_free, IInv, TypeOK
<1>8. ListIsPool'
  BY <1>1, <1>3, <1>7, PendingFacts DEF ListIsPool
<1>9. Linked'
  BY <1>2, <1>3 DEF IInv, Linked
<1>10. \A t \in InUse' : t \in InUse /\ device'[t] = device[t]
  BY <1>7 DEF InitFailed, resource_free, IInv, TypeOK, InUse
<1>11. QED
  BY <1>5, <1>6, <1>8, <1>9, <1>10 DEF IInv, PendingInUse, Exclusive

(* Listing an initialised resource preserves the invariant. *)
LEMMA InitDoneInv == IInv /\ InitDone => IInv'
<1> SUFFICES ASSUME IInv, InitDone PROVE IInv'
  OBVIOUS
<1>0. \A t \in Slots : t # NULL
  BY NullAssumption, PoolAssumption DEF Slots
<1>1. Initialising
  BY DEF InitDone
<1> PICK s \in Slots, L \in SUBSET Slots : s = call.slot /\ L = Listed
  BY <1>1, PendingFacts DEF Listed
<1>2. /\ s \in InUse /\ s \notin L
      /\ next[s] = NULL
      /\ L = InUse \ {s}
  BY <1>1, PendingFacts
<1>3. allocations' = s /\ next' = [next EXCEPT ![s] = allocations]
  BY DEF InitDone, resource_add_allocation
<1>4. /\ next'[s] = allocations
      /\ \A t \in Slots : t # s => next'[t] = next[t]
  BY <1>2, <1>3 DEF IInv, TypeOK
<1>5. Closed(L)
  BY ListedIsClosed DEF IInv
<1>6. Closed(L \cup {s})'
  BY <1>2, <1>3, <1>4, <1>5 DEF Closed
<1>7. ASSUME NEW S \in SUBSET Slots, Closed(S)' PROVE L \cup {s} \subseteq S
  <2>1. s \in S
    BY <1>0, <1>2, <1>3, <1>7 DEF Closed
  <2>2. Closed(S)
    BY <2>1, <1>2, <1>4, <1>7 DEF Closed
  <2>3. QED BY <2>1, <2>2, ListedIsLeast
<1>8. Listed' = L \cup {s}
  BY <1>6, <1>7 DEF Listed
<1>9. InUse' = InUse /\ Pending' = {} /\ ~Initialising'
  BY DEF InitDone, InUse, Pending, Initialising
<1>10. ListIsPool'
  BY <1>2, <1>8, <1>9 DEF ListIsPool
<1>11. Linked'
  BY <1>2, <1>3, <1>4, <1>5, <1>8 DEF IInv, Linked, Closed
<1>12. TypeOK'
  <2>1. /\ device[s] \in Devices
        /\ [driver |-> call.driver, context |-> call.context]
              \in [driver : Drivers, context : Contexts]
    BY <1>1, <1>2, PendingFacts DEF IInv, TypeOK, CallType
  <2>2. live' \in [Devices -> [driver : Drivers, context : Contexts] \cup {NULL}]
    BY <2>1 DEF InitDone, IInv, TypeOK
  <2>3. QED
    BY <2>2, <1>2, <1>3, <1>9 DEF IInv, TypeOK, InitDone
<1>13. QED
  BY <1>9, <1>10, <1>11, <1>12 DEF IInv, PendingInUse, Exclusive, InitDone

(* Unlinking a listed slot takes that slot, and no other, off the list.    *)
LEMMA UnlinkList ==
  ASSUME IInv, NEW s \in Slots, Unlink(s), call = NULL
  PROVE  /\ s \in Listed
         /\ Listed' = Listed \ {s}
         /\ Linked'
         /\ allocations' \in Slots \cup {NULL}
         /\ next' \in [Slots -> Slots \cup {NULL}]
<1>0. \A t \in Slots : t # NULL
  BY NullAssumption, PoolAssumption DEF Slots
<1> PICK L \in SUBSET Slots : L = Listed
  BY DEF Listed
<1>1. Closed(L)
  BY ListedIsClosed DEF IInv
<1>2. s \in L
  BY <1>0, <1>1 DEF Unlink, Closed
<1>3. next[s] # s
  BY <1>2, NoSelfLoop DEF IInv
<1>4. /\ next \in [Slots -> Slots \cup {NULL}]
      /\ allocations \in Slots \cup {NULL}
  BY DEF IInv, TypeOK
<1>5. /\ \A t, u \in L : (next[t] = next[u] /\ next[t] # NULL) => t = u
      /\ \A t \in L : next[t] # NULL => next[t] # allocations
      /\ \A t \in Slots \ L : next[t] = NULL
  BY DEF IInv, Linked
<1>6. CASE allocations = s
  <2>1. allocations' = next[s] /\ next' = [next EXCEPT ![s] = NULL]
    BY <1>6 DEF Unlink
  <2>2. next'[s] = NULL /\ \A t \in Slots : t # s => next'[t] = next[t]
    BY <1>4, <2>1
  <2>3. \A t \in L : next[t] # s
    BY <1>0, <1>5, <1>6
  <2>4. Closed(L \ {s})'
    BY <1>1, <1>2, <1>3, <2>1, <2>2, <2>3 DEF Closed
  <2>5. ASSUME NEW S \in SUBSET Slots, Closed(S)' PROVE L \ {s} \subseteq S
    <3>1. Closed(S \cup {s})
      BY <1>2, <1>6, <2>1, <2>2, <2>5 DEF Closed
    <3>2. QED BY <3>1, ListedIsLeast
  <2>6. Listed' = L \ {s}
    BY <2>4, <2>5 DEF Listed
  <2>7. Linked'
    BY <1>2, <1>3, <1>5, <1>6, <2>1, <2>2, <2>6 DEF Linked
  <2>8. QED BY <1>2, <1>4, <2>1, <2>6, <2>7
<1>7. CASE allocations # s
  <2>1. PICK r \in L : next[r] = s /\ next' = [next EXCEPT ![r] = next[s], ![s] = NULL]
    BY <1>7 DEF Unlink
  <2>2. allocations' = allocations
    BY <1>7 DEF Unlink
  <2>3. r # s
    BY <1>3, <2>1
  <2>4. /\ next'[s] = NULL
        /\ next'[r] = next[s]
        /\ \A t \in Slots : (t # s /\ t # r) => next'[t] = next[t]
    BY <1>4, <2>1, <2>3
  <2>5. \A t \in L : next[t] = s => t = r
    BY <1>0, <1>5, <2>1
  <2>6. Closed(L \ {s})'
    BY <1>1, <1>2, <1>3, <1>7, <2>2, <2>3, <2>4, <2>5 DEF Closed
  <2>7. ASSUME NEW S \in SUBSET Slots, Closed(S)' PROVE L \ {s} \subseteq S
    <3>1. Closed(S \cup {s})
      <4>1. allocations # NULL => allocations \in S
        BY <2>2, <2>7 DEF Closed
      <4>2. r \in S
        <5> SUFFICES ASSUME r \notin S PROVE FALSE
          OBVIOUS
        <5>1. Closed(S \ {s})
          BY <1>7, <2>1, <2>2, <2>4, <2>5, <2>7, <1>5, <4>1 DEF Closed
        <5>2. QED BY <5>1, <2>1, ListedIsLeast
      <4>3. next[s] # NULL => next[s] \in S
        BY <2>4, <2>7, <4>2 DEF Closed
      <4>4. ASSUME NEW t \in S, t # s, next[t] # NULL PROVE next[t] \in S \cup {s}
        <5>1. CASE t = r
          BY <2>1, <5>1
        <5>2. CASE t # r
          BY <2>4, <2>7, <4>4, <5>2 DEF Closed
        <5>3. QED BY <5>1, <5>2
      <4>5. QED BY <4>1, <4>3, <4>4 DEF Closed
    <3>2. QED BY <3>1, ListedIsLeast
  <2>8. Listed' = L \ {s}
    BY <2>6, <2>7 DEF Listed
  <2>9. Linked'
    <3>1. ASSUME NEW t \in L \ {s}, NEW u \in L \ {s},
                 next'[t] = next'[u], next'[t] # NULL
          PROVE  t = u
      BY <1>2, <1>5, <2>4, <3>1
    <3>2. ASSUME NEW t \in L \ {s}, next'[t] # NULL
          PROVE  next'[t] # allocations'
      BY <1>2, <1>5, <2>2, <2>4, <3>2
    <3>3. ASSUME NEW t \in Slots \ (L \ {s}) PROVE next'[t] = NULL
      BY <1>5, <2>4, <3>3
    <3>4. QED BY <2>8, <3>1, <3>2, <3>3 DEF Linked
  <2>10. QED BY <1>2, <1>4, <2>1, <2>2, <2>3, <2>8, <2>9
<1>8. QED BY <1>6, <1>7

(* resource_release preserves the invariant. *)
LEMMA ReleaseInv ==
  ASSUME NEW s \in Slots
  PROVE  IInv /\ Release(s) => IInv'
<1> SUFFICES ASSUME IInv, Release(s) PROVE IInv'
  OBVIOUS
<1>1. call = NULL /\ call' = NULL /\ Unlink(s)
  BY DEF Release
<1>2. /\ s \in Listed
      /\ Listed' = Listed \ {s}
      /\ Linked'
      /\ allocations' \in Slots \cup {NULL}
      /\ next' \in [Slots -> Slots \cup {NULL}]
  BY <1>1, UnlinkList
<1>3. Pending = {} /\ Pending' = {} /\ ~Initialising'
  BY <1>1 DEF Pending, Initialising
<1>4. InUse' = InUse \ {s}
  BY DEF InUse, Release, resource_free, IInv, TypeOK
<1>5. ListIsPool'
  BY <1>2, <1>3, <1>4 DEF IInv, ListIsPool
<1>6. TypeOK'
  <2>1. live' \in [Devices -> [driver : Drivers, context : Contexts] \cup {NULL}]
    BY DEF Release, IInv, TypeOK
  <2>2. QED
    BY <1>1, <1>2, <1>3, <2>1 DEF IInv, TypeOK, Release, resource_free
<1>7. \A t \in InUse' : t \in InUse /\ device'[t] = device[t]
  BY <1>4 DEF Release, resource_free, IInv, TypeOK, InUse
<1>8. QED
  BY <1>2, <1>3, <1>5, <1>6, <1>7 DEF IInv, PendingInUse, Exclusive

(* Every step preserves the invariant. *)
LEMMA NextInv == IInv /\ [Next]_vars => IInv'
<1> SUFFICES ASSUME IInv, [Next]_vars PROVE IInv'
  OBVIOUS
<1>1. CASE UNCHANGED vars
  <2>1. Listed' = Listed /\ InUse' = InUse /\ Pending' = Pending
    BY <1>1 DEF vars, pool, Listed, Closed, InUse, Pending, Initialising
  <2>2. TypeOK'
    BY <1>1 DEF vars, pool, IInv, TypeOK, CallType, Initialising
  <2>3. QED
    BY <1>1, <2>1, <2>2 DEF vars, pool, IInv, ListIsPool, Linked, PendingInUse,
       Initialising, Exclusive, device_is_allocated
<1>2. CASE Next
  BY <1>2, SetDevicesInv, AcquireInv, SkipInv, GiveUpInv, StartInitInv,
     InitFailedInv, InitDoneInv, ReleaseInv DEF Next
<1>3. QED BY <1>1, <1>2

(* The strengthened invariant holds in every reachable state.              *)
THEOREM Invariance == Spec => []IInv
BY InitInv, NextInv, PTL DEF Spec

(* Type correctness of the manager, for every pool, list and id table.     *)
THEOREM TypeCorrect == Spec => []TypeOK
<1>1. IInv => TypeOK
  BY DEF IInv
<1>2. QED BY <1>1, Invariance, PTL

(* No path through acquire, failed init and release leaks a pool slot or   *)
(* breaks the list (resource_alloc/free against add/remove_allocation).    *)
THEOREM ListMatchesPool == Spec => []ListIsPool
<1>1. IInv => ListIsPool
  BY DEF IInv
<1>2. QED BY <1>1, Invariance, PTL

(* "Device is acquired exclusively": no device is held twice.              *)
THEOREM Exclusivity == Spec => []Exclusive
<1>1. IInv => Exclusive
  BY DEF IInv
<1>2. QED BY <1>1, Invariance, PTL

----------------------------------------------------------------------------
(* The holder of a live device is a listed resource, and the slot being    *)
(* initialised records the driver and the context of the call.             *)
DmaInv ==
  /\ Initialising => /\ driver[call.slot] = call.driver
                     /\ context[call.slot] = call.context
  /\ \A d \in Devices :
       (live[d] # NULL /\ live[d].driver \in Quiescing) =>
         \E s \in Listed : /\ device[s] = d
                           /\ driver[s] = live[d].driver
                           /\ context[s] = live[d].context

(* A step that keeps every listed resource and the hardware as they are.   *)
LEMMA DmaKept ==
  ASSUME DmaInv, live' = live, Listed \subseteq Listed',
         \A s \in Listed : /\ device'[s] = device[s]
                           /\ driver'[s] = driver[s]
                           /\ context'[s] = context[s],
         Initialising' => /\ driver'[call'.slot] = call'.driver
                          /\ context'[call'.slot] = call'.context
  PROVE  DmaInv'
<1>1. ASSUME NEW d \in Devices, live'[d] # NULL, live'[d].driver \in Quiescing
      PROVE  \E s \in Listed' : /\ device'[s] = d
                                /\ driver'[s] = live'[d].driver
                                /\ context'[s] = live'[d].context
  <2>1. PICK s \in Listed : /\ device[s] = d
                            /\ driver[s] = live[d].driver
                            /\ context[s] = live[d].context
    BY <1>1 DEF DmaInv
  <2>2. QED BY <2>1
<1>2. QED BY <1>1 DEF DmaInv

(* Every step preserves the invariant about the memory devices work on. *)
LEMMA DmaNext == IInv /\ DmaInv /\ [Next]_vars => DmaInv'
<1> SUFFICES ASSUME IInv, DmaInv, [Next]_vars PROVE DmaInv'
  OBVIOUS
<1>0. \A t \in Slots : t # NULL
  BY NullAssumption, PoolAssumption DEF Slots
<1> USE DEF pool
<1>1. ASSUME \/ UNCHANGED vars
             \/ resources_set_devices
             \/ \E drv \in Drivers, ctx \in Contexts : Acquire(drv, ctx)
             \/ SkipDevice \/ NoSlot \/ NotFound
      PROVE  DmaInv'
  <2>1. UNCHANGED <<allocations, pool, live>>
    BY <1>1 DEF vars, resources_set_devices, Acquire,
       resource_acquire_available, SkipDevice, NoSlot, NotFound
  <2>2. Listed' = Listed
    BY <2>1 DEF Listed, Closed
  <2>3. Initialising' => UNCHANGED call
    <3>1. CASE SkipDevice
      <4>1. call \in CallType /\ call.slot = NULL
        BY <3>1 DEF SkipDevice, Scanning, IInv, TypeOK
      <4>2. call'.slot = NULL
        BY <3>1, <4>1 DEF SkipDevice, CallType
      <4>3. QED BY <4>2 DEF Initialising
    <3>2. QED
      BY <1>1, <3>1 DEF vars, resources_set_devices, Acquire,
         resource_acquire_available, NoSlot, NotFound,
         Initialising
  <2>4. Initialising' => /\ driver'[call'.slot] = call'.driver
                         /\ context'[call'.slot] = call'.context
    BY <2>1, <2>3 DEF DmaInv, Initialising
  <2>5. QED BY <2>1, <2>2, <2>4, DmaKept
<1>2. CASE StartInit
  <2>1. PICK s \in Slots :
          /\ FirstFree(s)
          /\ device'  = [device EXCEPT ![s] = devices[call.at]]
          /\ driver'  = [driver EXCEPT ![s] = call.driver]
          /\ context' = [context EXCEPT ![s] = call.context]
          /\ call' = [call EXCEPT !.slot = s]
    BY <1>2 DEF StartInit
  <2>2. Listed' = Listed /\ live' = live
    BY <1>2 DEF StartInit, Listed, Closed
  <2>3. s \notin Listed /\ Listed \subseteq Slots
    BY <2>1 DEF IInv, ListIsPool, InUse, FirstFree, Listed
  <2>4. call' = [driver |-> call.driver, context |-> call.context,
                 at |-> call.at, slot |-> s]
    BY <1>2, <2>1 DEF StartInit, Scanning, IInv, TypeOK, CallType
  <2>5. driver'[call'.slot] = call'.driver /\ context'[call'.slot] = call'.context
    BY <2>1, <2>4 DEF IInv, TypeOK
  <2>6. \A t \in Listed : /\ device'[t] = device[t]
                          /\ driver'[t] = driver[t]
                          /\ context'[t] = context[t]
    BY <2>1, <2>3 DEF IInv, TypeOK
  <2>7. QED BY <2>2, <2>5, <2>6, DmaKept
<1>3. CASE InitFailed
  <2>1. Initialising
    BY <1>3 DEF InitFailed
  <2>2. next' = next /\ allocations' = allocations /\ live' = live
    BY <1>3, <2>1, PendingFacts DEF InitFailed, IInv, TypeOK
  <2>3. Listed' = Listed
    BY <2>2 DEF Listed, Closed
  <2>4. ~Initialising'
    <3>1. call'.slot = NULL
      BY <1>3, <2>1, PendingFacts DEF InitFailed, CallType
    <3>2. QED BY <3>1 DEF Initialising
  <2>5. \A t \in Listed : t \in Slots /\ t # call.slot
    BY <2>1, PendingFacts DEF Listed
  <2>6. \A t \in Listed : /\ device'[t] = device[t]
                          /\ driver'[t] = driver[t]
                          /\ context'[t] = context[t]
    BY <1>3, <2>5 DEF InitFailed, resource_free, IInv, TypeOK
  <2>7. QED BY <2>2, <2>3, <2>4, <2>6, DmaKept
<1>4. CASE InitDone
  <2>1. Initialising /\ IInv'
    BY <1>4, InitDoneInv DEF InitDone
  <2>2. PICK s \in Slots : s = call.slot
    BY <2>1, PendingFacts
  <2>3. Listed' = InUse' /\ ~Initialising'
    BY <1>4, <2>1 DEF InitDone, IInv, ListIsPool, Pending, Initialising
  <2>4. Listed' = Listed \cup {s}
    BY <1>4, <2>1, <2>2, <2>3, PendingFacts DEF InitDone, InUse
  <2>5. device[s] \in Devices /\ call \in CallType
    BY <2>1, <2>2, PendingFacts DEF IInv, TypeOK
  <2>6. UNCHANGED <<device, driver, context>>
    BY <1>4 DEF InitDone
  <2>7. /\ live'[device[s]] = [driver |-> call.driver, context |-> call.context]
        /\ \A d \in Devices : d # device[s] => live'[d] = live[d]
    BY <1>4, <2>2, <2>5 DEF InitDone, IInv, TypeOK
  <2>8. ASSUME NEW d \in Devices, live'[d] # NULL, live'[d].driver \in Quiescing
        PROVE  \E t \in Listed' : /\ device'[t] = d
                                  /\ driver'[t] = live'[d].driver
                                  /\ context'[t] = live'[d].context
    <3>1. CASE d = device[s]
      BY <2>1, <2>2, <2>4, <2>6, <2>7, <3>1 DEF DmaInv
    <3>2. CASE d # device[s]
      BY <2>4, <2>6, <2>7, <2>8, <3>2 DEF DmaInv
    <3>3. QED BY <3>1, <3>2
  <2>9. QED BY <2>3, <2>8 DEF DmaInv
<1>5. ASSUME NEW s \in Slots, Release(s) PROVE DmaInv'
  <2>1. s \in Listed /\ Listed' = Listed \ {s}
    BY <1>5, UnlinkList DEF Release
  <2>2. Listed = InUse /\ ~Initialising'
    BY <1>5 DEF Release, IInv, ListIsPool, Pending, Initialising
  <2>3. device[s] \in Devices
    BY <2>1, <2>2 DEF IInv, TypeOK, InUse
  <2>4. /\ live'[device[s]] = IF driver[s] \in Quiescing THEN NULL ELSE live[device[s]]
        /\ \A d \in Devices : d # device[s] => live'[d] = live[d]
    BY <1>5, <2>3 DEF Release, IInv, TypeOK
  <2>5. \A t \in Listed' : /\ t \in Slots
                           /\ device'[t] = device[t]
                           /\ driver'[t] = driver[t]
                           /\ context'[t] = context[t]
    BY <1>5, <2>1, <2>2 DEF Release, resource_free, IInv, TypeOK, InUse
  <2>6. ASSUME NEW d \in Devices, live'[d] # NULL, live'[d].driver \in Quiescing
        PROVE  \E t \in Listed' : /\ device'[t] = d
                                  /\ driver'[t] = live'[d].driver
                                  /\ context'[t] = live'[d].context
    <3>1. live'[d] = live[d] /\ (d = device[s] => driver[s] \notin Quiescing)
      BY <2>4, <2>6
    <3>2. PICK t \in Listed : /\ device[t] = d
                              /\ driver[t] = live[d].driver
                              /\ context[t] = live[d].context
      BY <2>6, <3>1 DEF DmaInv
    <3>3. t # s
      BY <2>6, <3>1, <3>2
    <3>4. QED BY <2>1, <2>5, <3>1, <3>2, <3>3
  <2>7. QED BY <2>2, <2>6 DEF DmaInv
<1>6. QED BY <1>1, <1>2, <1>3, <1>4, <1>5 DEF Next

(* A device of a resetting driver works only for the context of the        *)
(* resource that holds it (deinit_context resets the device before         *)
(* resource_free gives the slot back).                                     *)
THEOREM DmaConfinement == Spec => []DmaConfined
<1>1. Init => DmaInv
  BY DEF Init, DmaInv, Initialising
<1>2. IInv /\ DmaInv => DmaConfined
  BY DEF IInv, DmaInv, DmaConfined, ListIsPool
<1>3. QED BY <1>1, <1>2, DmaNext, Invariance, PTL DEF Spec

(* A held handle keeps its device, driver and context until it is freed.   *)
THEOREM HandlesAreStable == Spec => HeldStable
<1> DEFINE Kept == \A s \in Listed : in_use'[s] =>
                     /\ device'[s] = device[s]
                     /\ driver'[s] = driver[s]
                     /\ context'[s] = context[s]
<1>1. ASSUME IInv, [Next]_vars PROVE Kept
  <2> SUFFICES ASSUME NEW t \in Listed, in_use'[t]
               PROVE  /\ device'[t] = device[t]
                      /\ driver'[t] = driver[t]
                      /\ context'[t] = context[t]
    OBVIOUS
  <2>0. t \in Slots /\ t \in InUse /\ t \notin Pending
    BY <1>1 DEF Listed, IInv, ListIsPool
  <2>1. CASE StartInit
    BY <1>1, <2>0, <2>1 DEF StartInit, FirstFree, InUse, IInv, TypeOK
  <2>2. CASE InitFailed
    BY <1>1, <2>0, <2>2 DEF InitFailed, resource_free, Pending, IInv, TypeOK
  <2>3. ASSUME NEW s \in Slots, Release(s)
        PROVE  /\ device'[t] = device[t]
               /\ driver'[t] = driver[t]
               /\ context'[t] = context[t]
    <3>1. t # s
      BY <1>1, <2>3 DEF Release, resource_free, IInv, TypeOK
    <3>2. QED BY <1>1, <2>0, <2>3, <3>1 DEF Release, resource_free, IInv, TypeOK
  <2>4. CASE UNCHANGED vars
    BY <2>4 DEF vars, pool
  <2>5. QED
    BY <1>1, <2>1, <2>2, <2>3, <2>4 DEF Next, resources_set_devices,
       Acquire, resource_acquire_available,
       SkipDevice, NoSlot, InitDone, NotFound, pool
<1>2. IInv /\ [Next]_vars => [Kept]_vars
  BY <1>1
<1>3. QED BY <1>2, Invariance, PTL DEF Spec, HeldStable

(***************************************************************************)
(* Then the boot, whose applications are such callers.                     *)
(***************************************************************************)

(* Where netdev_acquire_all's caller is known. *)
Acquiring == {"netdev_acquire_all", "run"}

RandomCount == Len(random_state.resources)

BootTypeOK ==
  /\ netdev_index \in [Range(NetDrivers) -> 0 .. MAX_NETDEV_CONTEXTS_PER_DRIVER]
  /\ device_count \in [Range(NetDrivers) -> 0 .. MAX_NET_DEVICES]
  /\ random_state \in [resources : Seq(Slots), next_device_index : Nat, initialized : BOOLEAN]
  /\ RandomCount <= MAX_HARDWARE_RNG_DEVICES
  /\ entries \in Seq([resource : Slots, driver : Drivers, context : Contexts])
  /\ trying \in 1 .. Len(NetDrivers) + 1

(* The acquisition under way is the running application's, for the first   *)
(* context it has not used up.                                             *)
NetdevCall == /\ app \in DOMAIN max_devices
              /\ Len(entries) < max_devices[app]
              /\ trying <= Len(NetDrivers)
              /\ netdev_index[Drv] < MAX_NETDEV_CONTEXTS_PER_DRIVER
              /\ call.driver = Drv
              /\ call.context = Context("netdev", Drv, netdev_index[Drv])

MacCall == /\ app \in DOMAIN mac_driver
           /\ device_count[mac_driver[app]] < MAX_NET_DEVICES
           /\ call.driver = mac_driver[app]
           /\ call.context = Context("mac", mac_driver[app], device_count[mac_driver[app]])

RandomCall == /\ app = "random-hardware"
              /\ RandomCount < MAX_HARDWARE_RNG_DEVICES
              /\ call.driver = "virtio-rng"
              /\ call.context = Context("random", "virtio-rng", RandomCount)

ControlOK ==
  /\ pc \notin {"kernel_main", "scan"} => devices = DeviceList
  /\ call # NULL => pc = "acquire" /\ (NetdevCall \/ MacCall \/ RandomCall)
  /\ pc \in Acquiring => app \in DOMAIN max_devices /\ Len(entries) <= max_devices[app]
  /\ pc = "run" => Len(entries) = max_devices[app] \/ trying > Len(NetDrivers)

(* The contexts the applications have used up.                             *)
Taken(c) ==
  \/ \E drv \in Range(NetDrivers) : \E i \in 0 .. netdev_index[drv] - 1 :
       c = Context("netdev", drv, i)
  \/ \E drv \in Range(NetDrivers) : \E i \in 0 .. device_count[drv] - 1 :
       c = Context("mac", drv, i)
  \/ \E i \in 0 .. RandomCount - 1 : c = Context("random", "virtio-rng", i)

(* A resource's context is one that was used up, and only that resource's. *)
ContextsOK ==
  /\ \A s \in Slots : in_use[s] \/ context[s] = NULL
  /\ \A s \in Listed : Taken(context[s])
  /\ \A s, t \in Listed : context[s] = context[t] => s = t
  /\ Initialising => driver[call.slot] = call.driver /\ context[call.slot] = call.context

(* Nothing is released in a boot: a device works exactly for the resource  *)
(* that holds it.                                                          *)
WorksOK ==
  /\ \A s \in Listed : live[device[s]] = [driver |-> driver[s], context |-> context[s]]
  /\ \A d \in Devices : live[d] # NULL => \E s \in Listed : device[s] = d

(* What the applications hold is listed, with the driver and the context   *)
(* they have it for.                                                       *)
HoldsOK ==
  /\ \A i \in DOMAIN entries :
       /\ entries[i].resource \in Listed
       /\ driver[entries[i].resource] = entries[i].driver
       /\ context[entries[i].resource] = entries[i].context
  /\ \A i \in DOMAIN random_state.resources :
       /\ random_state.resources[i] \in Listed
       /\ driver[random_state.resources[i]] = "virtio-rng"
       /\ context[random_state.resources[i]] = Context("random", "virtio-rng", i - 1)
  /\ random_state.next_device_index = 0 \/ random_state.next_device_index < RandomCount

(* The drivers already tried have no device left, and neither has the part *)
(* of the list the manager has passed.                                     *)
Exhausted(d) == device_is_allocated(d) \/ d \in failed
ListFull == Slots \subseteq Listed
Tried(k) ==
  \/ ListFull
  \/ netdev_index[NetDrivers[k]] = MAX_NETDEV_CONTEXTS_PER_DRIVER
  \/ \A d \in Range(DeviceList) : device_matches_driver(d, NetDrivers[k]) => Exhausted(d)
Passed(j) == device_matches_driver(devices[j], call.driver) => Exhausted(devices[j])
SearchOK ==
  /\ pc \in Acquiring \/ (call # NULL /\ app \in DOMAIN max_devices) =>
       \A k \in 1 .. trying - 1 : Tried(k)
  /\ call # NULL /\ app \in DOMAIN max_devices => \A j \in 1 .. call.at - 1 : Passed(j)

BInv == /\ IInv /\ BootTypeOK /\ ControlOK /\ ContextsOK /\ WorksOK
        /\ HoldsOK /\ SearchOK

----------------------------------------------------------------------------
(* The three network drivers. *)
LEMMA NetNames ==
  /\ Len(NetDrivers) = 3 /\ DOMAIN NetDrivers = 1 .. 3
  /\ Range(NetDrivers) = {"rtl8139", "virtio-net", "e1000"}
  /\ \A k \in 1 .. 3 : NetDrivers[k] \in Range(NetDrivers)
  /\ \A drv \in Range(NetDrivers) : \E k \in 1 .. 3 : drv = NetDrivers[k]
  /\ Range(NetDrivers) \subseteq Drivers /\ "virtio-rng" \in Drivers
<1>1. Len(NetDrivers) = 3 /\ DOMAIN NetDrivers = 1 .. 3
  BY DEF NetDrivers
<1>2. /\ NetDrivers[1] = "rtl8139" /\ NetDrivers[2] = "virtio-net" /\ NetDrivers[3] = "e1000"
  BY DEF NetDrivers
<1>3. \A k \in 1 .. 3 : k = 1 \/ k = 2 \/ k = 3
  OBVIOUS
<1>4. 1 \in 1 .. 3 /\ 2 \in 1 .. 3 /\ 3 \in 1 .. 3
  OBVIOUS
<1>5. Range(NetDrivers) = {"rtl8139", "virtio-net", "e1000"}
  BY <1>1, <1>2, <1>3, <1>4 DEF Range
<1>6. QED BY <1>1, <1>2, <1>3, <1>4, <1>5, BootAssumption

(* The values of app= fall into disjoint classes. *)
LEMMA AppNames ==
  /\ \A a \in DOMAIN max_devices :
       /\ max_devices[a] \in Nat /\ a \notin DOMAIN mac_driver /\ a # "random-hardware"
  /\ \A a \in DOMAIN mac_driver : mac_driver[a] \in Range(NetDrivers) /\ a # "random-hardware"
<1>1. DOMAIN max_devices = {"mac-all", "arp-broadcast", "packet-print", "http-hello"}
  BY DEF max_devices
<1>2. DOMAIN mac_driver = {"mac-rtl8139", "mac-virtio-net", "mac-e1000"}
  BY DEF mac_driver
<1>3. \A a \in DOMAIN max_devices : max_devices[a] \in Nat
  BY BootAssumption DEF max_devices
<1>4. \A a \in DOMAIN mac_driver : mac_driver[a] \in Range(NetDrivers)
  BY NetNames DEF mac_driver
<1>5. QED BY <1>1, <1>2, <1>3, <1>4

(* A context is known by its owner, driver and index. *)
LEMMA ContextEq ==
  \A o, p, d, e, i, j : Context(o, d, i) = Context(p, e, j) => o = p /\ d = e /\ i = j
<1> TAKE o, p, d, e, i, j
<1>1. /\ Context(o, d, i).owner = o /\ Context(o, d, i).driver = d /\ Context(o, d, i).index = i
      /\ Context(p, e, j).owner = p /\ Context(p, e, j).driver = e /\ Context(p, e, j).index = j
  BY DEF Context
<1>2. QED BY <1>1, Zenon

(* The static arrays hold the contexts up to their sizes. *)
LEMMA ContextIn ==
  /\ \A drv \in Range(NetDrivers), i \in Nat :
       /\ i < MAX_NETDEV_CONTEXTS_PER_DRIVER => Context("netdev", drv, i) \in Contexts
       /\ i < MAX_NET_DEVICES => Context("mac", drv, i) \in Contexts
  /\ \A i \in Nat : i < MAX_HARDWARE_RNG_DEVICES => Context("random", "virtio-rng", i) \in Contexts
<1>1. ASSUME NEW i \in Nat, NEW n \in Nat, i < n PROVE i \in 0 .. n - 1
  BY <1>1
<1>2. ASSUME NEW drv \in Range(NetDrivers), NEW i \in Nat, i < MAX_NETDEV_CONTEXTS_PER_DRIVER
      PROVE  Context("netdev", drv, i) \in Contexts
  <2>1. i \in 0 .. MAX_NETDEV_CONTEXTS_PER_DRIVER - 1
    BY <1>1, <1>2, BootAssumption
  <2>2. QED BY <2>1, BootAssumption DEF NetdevContexts
<1>3. ASSUME NEW drv \in Range(NetDrivers), NEW i \in Nat, i < MAX_NET_DEVICES
      PROVE  Context("mac", drv, i) \in Contexts
  <2>1. i \in 0 .. MAX_NET_DEVICES - 1
    BY <1>1, <1>3, BootAssumption
  <2>2. QED BY <2>1, BootAssumption DEF MacContexts
<1>4. ASSUME NEW i \in Nat, i < MAX_HARDWARE_RNG_DEVICES
      PROVE  Context("random", "virtio-rng", i) \in Contexts
  <2>1. i \in 0 .. MAX_HARDWARE_RNG_DEVICES - 1
    BY <1>1, <1>4, BootAssumption
  <2>2. QED BY <2>1, BootAssumption DEF RandomContexts
<1>5. QED BY <1>2, <1>3, <1>4

(* The counters are numbers. *)
LEMMA Counters ==
  ASSUME BootTypeOK
  PROVE  /\ \A drv \in Range(NetDrivers) : netdev_index[drv] \in Nat /\ device_count[drv] \in Nat
         /\ RandomCount \in Nat /\ Len(entries) \in Nat /\ trying \in 1 .. 4
         /\ trying <= Len(NetDrivers) => Drv \in Range(NetDrivers)
<1>1. \A drv \in Range(NetDrivers) : netdev_index[drv] \in Nat /\ device_count[drv] \in Nat
  BY BootAssumption DEF BootTypeOK
<1>2. random_state.resources \in Seq(Slots) /\ RandomCount = Len(random_state.resources)
  BY DEF BootTypeOK, RandomCount
<1>3. trying \in 1 .. 4
  BY NetNames DEF BootTypeOK
<1>4. trying <= 3 => trying \in 1 .. 3
  BY <1>3
<1>5. RandomCount \in Nat
  BY <1>2
<1>6. Len(entries) \in Nat
  BY DEF BootTypeOK
<1>7. QED BY <1>1, <1>3, <1>4, <1>5, <1>6, NetNames DEF Drv

(* The next context of an array has not been used up. *)
LEMMA NextIsFresh ==
  ASSUME BootTypeOK
  PROVE  /\ \A drv \in Range(NetDrivers) :
              /\ ~Taken(Context("netdev", drv, netdev_index[drv]))
              /\ ~Taken(Context("mac", drv, device_count[drv]))
         /\ ~Taken(Context("random", "virtio-rng", RandomCount))
<1>1. ASSUME NEW n \in Nat PROVE n \notin 0 .. n - 1
  OBVIOUS
<1>2. ASSUME NEW drv \in Range(NetDrivers) PROVE ~Taken(Context("netdev", drv, netdev_index[drv]))
  <2>1. netdev_index[drv] \notin 0 .. netdev_index[drv] - 1
    BY <1>1, Counters
  <2>2. QED BY <2>1, ContextEq DEF Taken
<1>3. ASSUME NEW drv \in Range(NetDrivers) PROVE ~Taken(Context("mac", drv, device_count[drv]))
  <2>1. device_count[drv] \notin 0 .. device_count[drv] - 1
    BY <1>1, Counters
  <2>2. QED BY <2>1, ContextEq DEF Taken
<1>4. ~Taken(Context("random", "virtio-rng", RandomCount))
  <2>1. RandomCount \notin 0 .. RandomCount - 1
    BY <1>1, Counters
  <2>2. QED BY <2>1, ContextEq DEF Taken
<1>5. QED BY <1>2, <1>3, <1>4

(* Between two calls no resource has a context that was not used up. *)
LEMMA FreshIsUnused ==
  ASSUME BInv, call = NULL, NEW c \in Contexts, ~Taken(c)
  PROVE  \A s \in Slots : context[s] # c
<1>1. Listed = InUse
  BY DEF BInv, IInv, ListIsPool, Pending, Initialising
<1>2. ASSUME NEW s \in Slots PROVE context[s] # c
  <2>1. CASE in_use[s]
    BY <1>1, <2>1 DEF BInv, ContextsOK, InUse
  <2>2. CASE ~in_use[s]
    BY <2>2, NullAssumption DEF BInv, ContextsOK
  <2>3. QED BY <2>1, <2>2
<1>3. QED BY <1>2

----------------------------------------------------------------------------
(* The steps that do not enter the manager. *)
Elsewhere ==
  \/ StartLogging \/ StartApps \/ Halt \/ ExceptionHalt \/ IllegalInstruction \/ UnknownApp
  \/ RandomSoftware \/ RunOnce \/ Serve \/ PacketPrint
  \/ random_get_bytes \/ NetworkApp \/ SkipDriver \/ AcquiredAll
  \/ UNCHANGED allvars

(* They leave the manager's state alone. *)
LEMMA ElsewhereKeeps == Elsewhere => UNCHANGED vars
BY DEF Elsewhere, StartLogging, StartApps, Halt, ExceptionHalt, IllegalInstruction, UnknownApp,
       RandomSoftware, RunOnce, Serve, PacketPrint, random_get_bytes, NetworkApp,
       SkipDriver, AcquiredAll, allvars

(* An application that calls the manager passes a context nobody uses. *)
LEMMA CallsFresh ==
  ASSUME BInv, NEW drv, NEW c, resource_acquire_available(drv, c),
         drv \in Drivers, c \in Contexts, ~Taken(c)
  PROVE  Next
<1>1. call = NULL
  BY DEF resource_acquire_available
<1>2. \A s \in Slots : context[s] # c
  BY <1>1, FreshIsUnused
<1>3. Acquire(drv, c)
  BY <1>2 DEF Acquire
<1>4. QED BY <1>3 DEF Next

(* netdev_acquire_all calls with the next context of the driver it tries.  *)
LEMMA TryCalls ==
  ASSUME BInv, TryDriver
  PROVE  /\ Drv \in Drivers /\ Drv \in Range(NetDrivers)
         /\ Context("netdev", Drv, netdev_index[Drv]) \in Contexts
         /\ ~Taken(Context("netdev", Drv, netdev_index[Drv]))
<1>1. BootTypeOK
  BY DEF BInv
<1>2. trying <= Len(NetDrivers) /\ netdev_index[Drv] < MAX_NETDEV_CONTEXTS_PER_DRIVER
  BY DEF TryDriver
<1>3. Drv \in Range(NetDrivers)
  BY <1>1, <1>2, Counters
<1>4. netdev_index[Drv] \in Nat
  BY <1>1, <1>3, Counters
<1>5. QED BY <1>1, <1>2, <1>3, <1>4, NetNames, ContextIn, NextIsFresh

(* So do the MAC applications. *)
LEMMA MacCalls ==
  ASSUME BInv, app \in DOMAIN mac_driver, device_count[mac_driver[app]] < MAX_NET_DEVICES
  PROVE  /\ mac_driver[app] \in Drivers /\ mac_driver[app] \in Range(NetDrivers)
         /\ Context("mac", mac_driver[app], device_count[mac_driver[app]]) \in Contexts
         /\ ~Taken(Context("mac", mac_driver[app], device_count[mac_driver[app]]))
<1>1. BootTypeOK
  BY DEF BInv
<1>2. mac_driver[app] \in Range(NetDrivers)
  BY AppNames
<1>3. device_count[mac_driver[app]] \in Nat
  BY <1>1, <1>2, Counters
<1>4. QED BY <1>1, <1>2, <1>3, NetNames, ContextIn, NextIsFresh

(* So does random_hardware_init. *)
LEMMA RandomCalls ==
  ASSUME BInv, RandomCount < MAX_HARDWARE_RNG_DEVICES
  PROVE  /\ "virtio-rng" \in Drivers
         /\ Context("random", "virtio-rng", RandomCount) \in Contexts
         /\ ~Taken(Context("random", "virtio-rng", RandomCount))
<1>1. BootTypeOK
  BY DEF BInv
<1>2. QED BY <1>1, Counters, NetNames, ContextIn, NextIsFresh

(* Every step of a boot is a step of the manager, or leaves it alone. *)
LEMMA StepRefines ==
  ASSUME BInv, [BootNext]_allvars PROVE [Next]_vars
<1>1. CASE Elsewhere
  BY <1>1, ElsewhereKeeps
<1>2. CASE ScanDevices
  BY <1>2 DEF ScanDevices, Next
<1>3. CASE RandomHardware
  <2> DEFINE c == Context("random", "virtio-rng", RandomCount)
  <2>1. CASE UNCHANGED vars
    BY <2>1
  <2>2. CASE /\ RandomCount < MAX_HARDWARE_RNG_DEVICES
             /\ resource_acquire_available("virtio-rng", c)
    <3>1. "virtio-rng" \in Drivers /\ c \in Contexts /\ ~Taken(c)
      BY <2>2, RandomCalls
    <3> HIDE DEF c
    <3>2. Next
      BY <2>2, <3>1, CallsFresh
    <3>3. QED BY <3>2
  <2>3. QED BY <1>3, <2>1, <2>2 DEF RandomHardware, RandomCount
<1>4. CASE MacApp
  <2> DEFINE c == Context("mac", mac_driver[app], device_count[mac_driver[app]])
  <2>1. CASE UNCHANGED vars
    BY <2>1
  <2>2. CASE /\ device_count[mac_driver[app]] < MAX_NET_DEVICES
             /\ resource_acquire_available(mac_driver[app], c)
    <3>1. app \in DOMAIN mac_driver
      BY <1>4 DEF MacApp
    <3>2. mac_driver[app] \in Drivers /\ c \in Contexts /\ ~Taken(c)
      BY <2>2, <3>1, MacCalls
    <3> HIDE DEF c
    <3>3. Next
      BY <2>2, <3>2, CallsFresh
    <3>4. QED BY <3>3
  <2>3. QED BY <1>4, <2>1, <2>2 DEF MacApp
<1>5. CASE TryDriver
  <2> DEFINE c == Context("netdev", Drv, netdev_index[Drv])
  <2>1. Drv \in Drivers /\ c \in Contexts /\ ~Taken(c)
    BY <1>5, TryCalls
  <2>2. resource_acquire_available(Drv, c)
    BY <1>5 DEF TryDriver
  <2> HIDE DEF c
  <2>3. Next
    BY <2>1, <2>2, CallsFresh
  <2>4. QED BY <2>3
<1>6. CASE ManagerStep
  BY <1>6 DEF ManagerStep, Next
<1>7. CASE NetdevAcquired \/ MacAcquired \/ RandomAcquired
  BY <1>7 DEF NetdevAcquired, MacAcquired, RandomAcquired, Next
<1>8. CASE NotAcquired
  BY <1>8 DEF NotAcquired, Next
<1>9. QED
  BY <1>1, <1>2, <1>3, <1>4, <1>5, <1>6, <1>7, <1>8 DEF BootNext, Elsewhere

----------------------------------------------------------------------------
(* The list does not change while neither its head nor a pointer does. *)
LEMMA ListedSame ==
  ASSUME UNCHANGED <<allocations, next>> PROVE Listed' = Listed
BY DEF Listed, Closed

(* No call under way, nothing being initialised. *)
LEMMA CallIsAcquire ==
  ASSUME BInv, pc # "acquire" PROVE call = NULL /\ ~Initialising
BY DEF BInv, ControlOK, Initialising

(* A step that leaves the pool and the counters alone. *)
LEMMA PoolKept ==
  ASSUME BInv, UNCHANGED <<allocations, pool, live, netdev_index, device_count>>,
         random_state'.resources = random_state.resources,
         Initialising' => /\ driver'[call'.slot] = call'.driver
                          /\ context'[call'.slot] = call'.context
  PROVE  ContextsOK' /\ WorksOK'
<1>1. UNCHANGED <<allocations, in_use, device, driver, context, next>>
  BY DEF pool
<1>2. Listed' = Listed
  BY <1>1, ListedSame
<1>3. ContextsOK /\ WorksOK
  BY DEF BInv
<1>4. RandomCount' = RandomCount
  BY DEF RandomCount
<1>5. ASSUME NEW c PROVE Taken(c)' <=> Taken(c)
  BY <1>4 DEF Taken, Context
<1>6. ContextsOK'
  BY <1>1, <1>2, <1>3, <1>5 DEF ContextsOK
<1>7. WorksOK'
  BY <1>1, <1>2, <1>3 DEF WorksOK
<1>8. QED BY <1>6, <1>7

(* What is held stays held while the list only grows. *)
LEMMA HoldsKept ==
  ASSUME BInv, Listed \subseteq Listed',
         \A s \in Listed : driver'[s] = driver[s] /\ context'[s] = context[s],
         UNCHANGED <<entries, random_state>>
  PROVE  HoldsOK'
<1>1. HoldsOK
  BY DEF BInv
<1>2. QED BY <1>1 DEF HoldsOK, RandomCount, Context

(* Whom a driver matches is settled by the tables. *)
LEMMA MatchIsConstant ==
  \A d, drv : device_matches_driver(d, drv)' <=> device_matches_driver(d, drv)
BY DEF device_matches_driver

(* A device that is no candidate any more stays none. *)
LEMMA ExhaustedKept ==
  ASSUME Listed \subseteq Listed', \A s \in Listed : device'[s] = device[s], failed \subseteq failed'
  PROVE  /\ \A d : Exhausted(d) => Exhausted(d)'
         /\ ListFull => ListFull'
<1>1. ASSUME NEW d, Exhausted(d) PROVE Exhausted(d)'
  BY <1>1 DEF Exhausted, device_is_allocated
<1>2. ListFull => ListFull'
  BY DEF ListFull, Slots
<1>3. QED BY <1>1, <1>2

(* Neither does a driver that was tried. *)
LEMMA TriedKept ==
  ASSUME Listed \subseteq Listed', \A s \in Listed : device'[s] = device[s], failed \subseteq failed',
         netdev_index' = netdev_index, NEW k, Tried(k)
  PROVE  Tried(k)'
<1>1. /\ \A d : Exhausted(d) => Exhausted(d)'
      /\ ListFull => ListFull'
  BY ExhaustedKept
<1>2. QED BY <1>1, MatchIsConstant DEF Tried

(* Nor a device the search has passed. *)
LEMMA PassedKept ==
  ASSUME Listed \subseteq Listed', \A s \in Listed : device'[s] = device[s], failed \subseteq failed',
         devices' = devices, call'.driver = call.driver, NEW j, Passed(j)
  PROVE  Passed(j)'
<1>1. \A d : Exhausted(d) => Exhausted(d)'
  BY ExhaustedKept
<1>2. PICK d : d = devices[j]
  OBVIOUS
<1>3. PICK drv : drv = call.driver
  OBVIOUS
<1>4. device_matches_driver(d, drv) => Exhausted(d)
  BY <1>2, <1>3 DEF Passed
<1>5. device_matches_driver(d, drv)' => Exhausted(d)'
  BY <1>1, <1>4, MatchIsConstant
<1>6. d = devices'[j] /\ drv = call'.driver
  BY <1>2, <1>3
<1>7. QED BY <1>5, <1>6 DEF Passed, device_matches_driver, Exhausted, device_is_allocated

----------------------------------------------------------------------------
(* A boot starts with the invariant. *)
LEMMA BootInitInv == BootInit => BInv
<1> SUFFICES ASSUME BootInit PROVE BInv
  OBVIOUS
<1>1. IInv /\ Init
  BY InitInv DEF BootInit
<1>2. /\ netdev_index = [drv \in Range(NetDrivers) |-> 0]
      /\ device_count = [drv \in Range(NetDrivers) |-> 0]
      /\ random_state = [resources |-> <<>>, next_device_index |-> 0, initialized |-> FALSE]
      /\ entries = <<>> /\ trying = 1 /\ pc = "kernel_main"
  BY DEF BootInit
<1>3. random_state.resources = <<>> /\ random_state.next_device_index = 0 /\ RandomCount = 0
  BY <1>2 DEF RandomCount
<1>4. /\ call = NULL /\ ~Initialising /\ live = [d \in Devices |-> NULL]
      /\ \A s \in Slots : ~in_use[s] /\ context[s] = NULL
  BY <1>1 DEF Init, Initialising
<1>5. Listed = {}
  BY <1>1, <1>4 DEF IInv, ListIsPool, InUse
<1>6. BootTypeOK
  BY <1>2, <1>3, NetNames, BootAssumption DEF BootTypeOK
<1>7. ControlOK
  BY <1>2, <1>4 DEF ControlOK, Acquiring
<1>8. ContextsOK /\ WorksOK
  BY <1>4, <1>5 DEF ContextsOK, WorksOK
<1>9. HoldsOK
  BY <1>2, <1>3 DEF HoldsOK
<1>10. SearchOK
  BY <1>2, <1>4 DEF SearchOK, Acquiring
<1>11. QED BY <1>1, <1>6, <1>7, <1>8, <1>9, <1>10 DEF BInv

(* A step outside the manager and outside netdev_acquire_all. *)
LEMMA QuietInv ==
  ASSUME BInv, UNCHANGED <<vars, netdev_index, device_count, entries, trying>>,
         pc # "acquire", pc' \notin Acquiring \cup {"acquire"},
         pc' \notin {"kernel_main", "scan"} => pc \notin {"kernel_main", "scan"},
         random_state' \in [resources : Seq(Slots), next_device_index : Nat, initialized : BOOLEAN],
         random_state'.resources = random_state.resources,
         random_state'.next_device_index = 0 \/ random_state'.next_device_index < RandomCount
  PROVE  BInv'
<1>1. /\ IInv /\ BootTypeOK /\ ControlOK /\ ContextsOK /\ WorksOK /\ HoldsOK
  BY DEF BInv
<1>2. call = NULL
  BY CallIsAcquire
<1>3. /\ UNCHANGED <<devices, allocations, pool, in_use, device, driver, context, next, call, live>>
  BY DEF vars, pool
<1>4. call' = NULL /\ ~Initialising'
  BY <1>2, <1>3 DEF Initialising
<1>5. IInv'
  BY <1>1, NextInv
<1>6. RandomCount' = RandomCount
  BY DEF RandomCount
<1>7. BootTypeOK'
  BY <1>1, <1>6 DEF BootTypeOK
<1>8. ControlOK'
  BY <1>1, <1>3, <1>4 DEF ControlOK, Acquiring
<1>9. ContextsOK' /\ WorksOK'
  BY <1>3, <1>4, PoolKept
<1>10. Listed' = Listed
  BY <1>3, ListedSame
<1>11. HoldsOK'
  BY <1>1, <1>3, <1>6, <1>10 DEF HoldsOK, Context
<1>12. SearchOK'
  BY <1>4 DEF SearchOK, Acquiring
<1>13. QED BY <1>5, <1>7, <1>8, <1>9, <1>11, <1>12 DEF BInv

(* The steps of kernel_main and of the applications that need no device,   *)
(* or have none left to ask for.                                           *)
LEMMA QuietSteps ==
  ASSUME BInv,
         \/ StartLogging \/ StartApps \/ Halt \/ ExceptionHalt \/ IllegalInstruction \/ UnknownApp
         \/ RandomSoftware \/ RunOnce \/ Serve \/ PacketPrint
         \/ (RandomHardware \/ MacApp) /\ UNCHANGED vars /\ pc' # "acquire"
  PROVE  BInv'
<1>1. UNCHANGED <<vars, netdev_index, device_count, entries, trying, random_state>>
  BY DEF StartLogging, StartApps, Halt, ExceptionHalt, IllegalInstruction, UnknownApp, RandomSoftware,
         RunOnce, Serve, PacketPrint, RandomHardware, MacApp, static, loop
<1>3. pc # "acquire" /\ pc' \notin Acquiring \cup {"acquire"}
  BY DEF StartLogging, StartApps, Halt, ExceptionHalt, IllegalInstruction, UnknownApp, RandomSoftware,
         RunOnce, Serve, PacketPrint, RandomHardware, MacApp, NextApp, GoTo, Acquiring
<1>4. pc' \notin {"kernel_main", "scan"} => pc \notin {"kernel_main", "scan"}
  BY DEF StartLogging, StartApps, Halt, ExceptionHalt, IllegalInstruction, UnknownApp, RandomSoftware,
         RunOnce, Serve, PacketPrint, RandomHardware, MacApp
<1>5. /\ random_state \in [resources : Seq(Slots), next_device_index : Nat, initialized : BOOLEAN]
      /\ random_state.next_device_index = 0 \/ random_state.next_device_index < RandomCount
  BY DEF BInv, BootTypeOK, HoldsOK
<1>6. QED BY <1>1, <1>3, <1>4, <1>5, QuietInv

(* random_get_bytes turns to a device it has. *)
LEMMA RandomInv ==
  ASSUME BInv, random_get_bytes PROVE BInv'
<1>1. /\ random_state \in [resources : Seq(Slots), next_device_index : Nat, initialized : BOOLEAN]
      /\ random_state.next_device_index = 0 \/ random_state.next_device_index < RandomCount
      /\ RandomCount \in Nat
  BY Counters DEF BInv, BootTypeOK, HoldsOK
<1> DEFINE i == IF random_state.resources = <<>> THEN random_state.next_device_index
                ELSE (random_state.next_device_index + 1) % Len(random_state.resources)
<1>2. random_state' = [random_state EXCEPT !.initialized = TRUE, !.next_device_index = i]
  BY DEF random_get_bytes
<1>3. i \in Nat /\ (i = 0 \/ i < RandomCount)
  <2>1. CASE random_state.resources = <<>>
    BY <1>1, <2>1
  <2>2. CASE random_state.resources # <<>>
    <3>1. RandomCount # 0
      BY <1>1, <2>2 DEF RandomCount
    <3>2. \A x \in Nat, n \in Nat \ {0} : x % n \in 0 .. n - 1
      OBVIOUS
    <3>3. random_state.next_device_index + 1 \in Nat /\ RandomCount \in Nat \ {0}
      BY <1>1, <3>1
    <3>4. i = (random_state.next_device_index + 1) % RandomCount
      BY <2>2 DEF RandomCount
    <3> HIDE DEF i
    <3>5. i \in 0 .. RandomCount - 1
      BY <3>2, <3>3, <3>4
    <3>6. QED BY <3>3, <3>5
  <2>3. QED BY <2>1, <2>2
<1> HIDE DEF i
<1>4. /\ random_state' \in [resources : Seq(Slots), next_device_index : Nat, initialized : BOOLEAN]
      /\ random_state'.resources = random_state.resources
      /\ random_state'.next_device_index = i
  BY <1>1, <1>2, <1>3
<1>5. /\ UNCHANGED <<vars, netdev_index, device_count, entries, trying>>
      /\ pc = "random_get_bytes" /\ pc' \in {"return", "app"}
  BY DEF random_get_bytes, loop, NextApp, GoTo
<1>6. QED BY <1>3, <1>4, <1>5, QuietInv DEF Acquiring

----------------------------------------------------------------------------
(* A step of netdev_acquire_all between two calls, or its start. *)
LEMMA NetdevStepInv ==
  ASSUME BInv, UNCHANGED <<vars, static, app>>, pc \in Acquiring \cup {"app"}, pc' \in Acquiring,
         app \in DOMAIN max_devices,
         (entries' = entries /\ Len(entries) <= max_devices[app]) \/ entries' = <<>>,
         trying' \in 1 .. Len(NetDrivers) + 1,
         pc' = "run" => Len(entries') = max_devices[app] \/ trying' > Len(NetDrivers),
         \A k \in 1 .. trying' - 1 : Tried(k)'
  PROVE  BInv'
<1>1. /\ IInv /\ BootTypeOK /\ ControlOK /\ HoldsOK
  BY DEF BInv
<1>2. pc # "acquire" /\ pc' # "acquire" /\ pc \notin {"kernel_main", "scan"}
  BY DEF Acquiring
<1>3. /\ UNCHANGED <<devices, allocations, pool, in_use, device, driver, context, next, call, live>>
      /\ UNCHANGED <<netdev_index, device_count, random_state>>
  BY DEF vars, pool, static
<1>4. call' = NULL /\ ~Initialising'
  BY <1>2, <1>3, CallIsAcquire DEF Initialising
<1>5. IInv'
  BY <1>1, <1>3, NextInv DEF vars
<1>6. RandomCount' = RandomCount
  BY <1>3 DEF RandomCount
<1>7. BootTypeOK'
  <2> DEFINE E == [resource : Slots, driver : Drivers, context : Contexts]
  <2>1. entries \in Seq(E)
    BY <1>1 DEF BootTypeOK
  <2> HIDE DEF E
  <2>2. entries' \in Seq(E)
    <3>1. <<>> \in Seq(E)
      OBVIOUS
    <3>2. entries' = entries \/ entries' = <<>>
      OBVIOUS
    <3>3. QED BY <2>1, <3>1, <3>2, Zenon
  <2>3. QED BY <1>1, <1>3, <1>6, <2>2 DEF BootTypeOK, Slots, E
<1>8. Len(entries') <= max_devices[app]
  <2>1. CASE entries' = <<>>
    <3>1. Len(entries') = 0 /\ max_devices[app] \in Nat
      BY <2>1, AppNames
    <3>2. QED BY <3>1
  <2>2. QED BY <2>1
<1>9. ControlOK'
  <2>1. DOMAIN max_devices' = DOMAIN max_devices /\ max_devices'[app'] = max_devices[app]
    BY DEF max_devices
  <2>2. devices' = DeviceList
    BY <1>1, <1>2, <1>3 DEF ControlOK
  <2>3. Len(NetDrivers)' = Len(NetDrivers)
    BY DEF NetDrivers
  <2>4. app' = app
    OBVIOUS
  <2>5. QED BY <1>4, <1>8, <2>1, <2>2, <2>3, <2>4 DEF ControlOK
<1>10. ContextsOK' /\ WorksOK'
  BY <1>3, <1>4, PoolKept
<1>11. Listed' = Listed
  BY <1>3, ListedSame
<1>12. HoldsOK'
  <2>1. CASE entries' = entries
    BY <1>3, <1>11, <2>1, HoldsKept
  <2>2. CASE entries' = <<>>
    <3>1. DOMAIN entries' = {}
      BY <2>2
    <3>2. QED BY <1>1, <1>3, <1>6, <1>11, <3>1 DEF HoldsOK, Context
  <2>3. QED BY <2>1, <2>2
<1>13. SearchOK'
  BY <1>4 DEF SearchOK
<1>14. QED BY <1>5, <1>7, <1>9, <1>10, <1>12, <1>13 DEF BInv

(* A network application starts, tries no driver twice in a row, and stops *)
(* when it has its devices or has tried them all.                          *)
LEMMA NetdevSteps ==
  ASSUME BInv, NetworkApp \/ SkipDriver \/ AcquiredAll PROVE BInv'
<1>1. /\ UNCHANGED <<vars, static, cmdline, app_param>> /\ UNCHANGED app
  BY DEF NetworkApp, SkipDriver, AcquiredAll, app
<1>2. /\ BootTypeOK /\ ControlOK /\ SearchOK /\ trying \in 1 .. 4 /\ Len(entries) \in Nat
  BY Counters DEF BInv
<1>3. CASE NetworkApp
  <2>1. /\ pc = "app" /\ pc' = "netdev_acquire_all" /\ app \in DOMAIN max_devices
        /\ entries' = <<>> /\ trying' = 1
    BY <1>3 DEF NetworkApp
  <2>2. trying' \in 1 .. Len(NetDrivers) + 1 /\ \A k \in 1 .. trying' - 1 : FALSE
    BY <2>1, NetNames
  <2>3. QED BY <1>1, <2>1, <2>2, NetdevStepInv DEF Acquiring
<1>4. CASE SkipDriver
  <2>1. /\ pc = "netdev_acquire_all" /\ pc' = pc /\ UNCHANGED <<entries, failed, netdev_index>>
        /\ trying <= 3 /\ trying' = trying + 1 /\ netdev_index[Drv] >= MAX_NETDEV_CONTEXTS_PER_DRIVER
    BY <1>4, NetNames DEF SkipDriver, Looping, static
  <2>2. /\ app \in DOMAIN max_devices /\ Len(entries) <= max_devices[app]
        /\ \A k \in 1 .. trying - 1 : Tried(k)
    BY <1>2, <2>1 DEF ControlOK, SearchOK, Acquiring
  <2>3. netdev_index[Drv] = MAX_NETDEV_CONTEXTS_PER_DRIVER
    <3>1. Drv \in Range(NetDrivers)
      BY <1>2, <2>1, Counters, NetNames
    <3>2. netdev_index[Drv] \in 0 .. MAX_NETDEV_CONTEXTS_PER_DRIVER
      BY <1>2, <3>1 DEF BootTypeOK
    <3>3. QED BY <2>1, <3>2, BootAssumption
  <2>4. Tried(trying)
    BY <2>3 DEF Tried, Drv
  <2>5. \A k \in 1 .. trying' - 1 : k \in 1 .. trying - 1 \/ k = trying
    BY <1>2, <2>1
  <2>6. ASSUME NEW k \in 1 .. trying' - 1 PROVE Tried(k)'
    <3>1. Tried(k)
      BY <2>2, <2>4, <2>5
    <3>2. UNCHANGED <<allocations, next, device>>
      BY <1>1 DEF vars, pool
    <3>3. Listed' = Listed
      BY <3>2, ListedSame
    <3>4. QED BY <2>1, <3>1, <3>2, <3>3, TriedKept
  <2>7. trying' \in 1 .. Len(NetDrivers) + 1
    BY <1>2, <2>1, NetNames
  <2>8. QED BY <1>1, <2>1, <2>2, <2>6, <2>7, NetdevStepInv DEF Acquiring
<1>5. CASE AcquiredAll
  <2>1. /\ pc = "netdev_acquire_all" /\ pc' = "run" /\ UNCHANGED <<entries, trying, failed, netdev_index>>
        /\ Len(entries) >= max_devices[app] \/ trying > Len(NetDrivers)
    BY <1>5 DEF AcquiredAll, loop, static
  <2>2. /\ app \in DOMAIN max_devices /\ Len(entries) <= max_devices[app]
        /\ \A k \in 1 .. trying - 1 : Tried(k)
    BY <1>2, <2>1 DEF ControlOK, SearchOK, Acquiring
  <2>3. Len(entries') = max_devices[app] \/ trying' > Len(NetDrivers)
    <3>1. max_devices[app] \in Nat
      BY <2>2, AppNames
    <3>2. QED BY <1>2, <2>1, <2>2, <3>1
  <2>4. ASSUME NEW k \in 1 .. trying' - 1 PROVE Tried(k)'
    <3>1. Tried(k)
      BY <2>1, <2>2
    <3>2. UNCHANGED <<allocations, next, device>>
      BY <1>1 DEF vars, pool
    <3>3. Listed' = Listed
      BY <3>2, ListedSame
    <3>4. QED BY <2>1, <3>1, <3>2, <3>3, TriedKept
  <2>5. trying' \in 1 .. Len(NetDrivers) + 1
    BY <1>2, <2>1, NetNames
  <2>6. QED BY <1>1, <2>1, <2>2, <2>3, <2>4, <2>5, NetdevStepInv DEF Acquiring
<1>6. QED BY <1>3, <1>4, <1>5

----------------------------------------------------------------------------
(* The manager's own invariant holds after a step of a boot. *)
LEMMA ManagerKept ==
  ASSUME BInv, [BootNext]_allvars PROVE IInv'
<1>1. [Next]_vars
  BY StepRefines
<1>2. QED BY <1>1, NextInv DEF BInv

(* The scanned list is handed over. *)
LEMMA ScanInv ==
  ASSUME BInv, ScanDevices PROVE BInv'
<1>1. BootTypeOK /\ ControlOK
  BY DEF BInv
<1>2. /\ devices' = DeviceList /\ UNCHANGED <<allocations, pool, call, live>>
      /\ pc = "scan" /\ pc' = "init" /\ UNCHANGED <<static, loop>>
  BY DEF ScanDevices, resources_set_devices
<1>3. /\ UNCHANGED <<in_use, device, driver, context, next>>
      /\ UNCHANGED <<netdev_index, device_count, random_state, entries, trying, failed>>
  BY <1>2 DEF pool, static, loop
<1>4. call' = NULL /\ ~Initialising'
  BY <1>2, CallIsAcquire DEF Initialising
<1>5. IInv'
  BY ManagerKept DEF BootNext
<1>6. BootTypeOK'
  BY <1>1, <1>3 DEF BootTypeOK, RandomCount
<1>7. ControlOK'
  BY <1>2, <1>4 DEF ControlOK, Acquiring
<1>8. ContextsOK' /\ WorksOK'
  BY <1>2, <1>3, <1>4, PoolKept
<1>9. Listed' = Listed
  BY <1>2, <1>3, ListedSame
<1>10. HoldsOK'
  BY <1>3, <1>9, HoldsKept
<1>11. SearchOK'
  BY <1>2, <1>4 DEF SearchOK, Acquiring
<1>12. QED BY <1>5, <1>6, <1>7, <1>8, <1>10, <1>11 DEF BInv

(* An application enters the manager. *)
LEMMA CallInv ==
  ASSUME BInv, BootNext, NEW drv, NEW c, resource_acquire_available(drv, c),
         UNCHANGED <<app, static, loop>>, pc' = "acquire",
         pc \in Acquiring \/ (pc = "app" /\ app \notin DOMAIN max_devices),
         (NetdevCall \/ MacCall \/ RandomCall)'
  PROVE  BInv'
<1>1. BootTypeOK /\ ControlOK /\ SearchOK
  BY DEF BInv
<1>2. /\ call' = [driver |-> drv, context |-> c, at |-> 1, slot |-> NULL]
      /\ UNCHANGED <<devices, allocations, pool, live>>
  BY DEF resource_acquire_available
<1>3. /\ UNCHANGED <<in_use, device, driver, context, next>>
      /\ UNCHANGED <<netdev_index, device_count, random_state, entries, trying, failed>>
  BY <1>2 DEF pool, static, loop
<1>4. call'.at = 1 /\ call'.slot = NULL /\ ~Initialising'
  BY <1>2 DEF Initialising
<1>5. IInv'
  BY ManagerKept
<1>6. BootTypeOK'
  BY <1>1, <1>3 DEF BootTypeOK, RandomCount
<1>7. ControlOK'
  <2>1. devices' = DeviceList
    BY <1>1, <1>2 DEF ControlOK, Acquiring
  <2>2. QED BY <2>1 DEF ControlOK, Acquiring
<1>8. ContextsOK' /\ WorksOK'
  BY <1>2, <1>3, <1>4, PoolKept
<1>9. Listed' = Listed
  BY <1>2, <1>3, ListedSame
<1>10. HoldsOK'
  BY <1>3, <1>9, HoldsKept
<1>11. SearchOK'
  <2>1. ASSUME app' \in DOMAIN max_devices', NEW k \in 1 .. trying' - 1 PROVE Tried(k)'
    <3>1. pc \in Acquiring /\ k \in 1 .. trying - 1
      BY <1>3, <2>1 DEF max_devices
    <3>2. Tried(k)
      BY <1>1, <3>1 DEF SearchOK
    <3>3. QED BY <1>3, <1>9, <3>2, TriedKept
  <2>2. \A j \in 1 .. call'.at - 1 : FALSE
    BY <1>4
  <2>3. pc' \notin Acquiring
    BY DEF Acquiring
  <2>4. QED BY <2>1, <2>2, <2>3 DEF SearchOK, Acquiring
<1>12. QED BY <1>5, <1>6, <1>7, <1>8, <1>10, <1>11 DEF BInv

(* The three kinds of applications that do. *)
LEMMA CallSteps ==
  ASSUME BInv, RandomHardware \/ MacApp \/ TryDriver PROVE BInv'
<1>0. BootNext
  BY DEF BootNext
<1>1. CASE RandomHardware
  <2> DEFINE c == Context("random", "virtio-rng", RandomCount)
  <2>1. CASE UNCHANGED vars /\ pc' = "random_get_bytes"
    BY <1>1, <2>1, QuietSteps
  <2>2. CASE /\ RandomCount < MAX_HARDWARE_RNG_DEVICES /\ pc' = "acquire"
             /\ resource_acquire_available("virtio-rng", c)
    <3>1. /\ pc = "app" /\ app = "random-hardware" /\ UNCHANGED <<cmdline, app_param, static, loop>>
      BY <1>1 DEF RandomHardware
    <3>2. app' = app /\ UNCHANGED <<random_state>>
      BY <3>1 DEF app, static
    <3>3. app \notin DOMAIN max_devices
      BY <3>1, AppNames
    <3>4. call'.driver = "virtio-rng" /\ call'.context = c
      BY <2>2 DEF resource_acquire_available
    <3>5. RandomCall'
      BY <2>2, <3>1, <3>2, <3>4 DEF RandomCall, RandomCount, Context
    <3> HIDE DEF c
    <3>6. QED BY <1>0, <2>2, <3>1, <3>2, <3>3, <3>5, CallInv
  <2>3. QED BY <1>1, <2>1, <2>2 DEF RandomHardware, RandomCount
<1>2. CASE MacApp
  <2> DEFINE c == Context("mac", mac_driver[app], device_count[mac_driver[app]])
  <2>1. CASE UNCHANGED vars /\ NextApp
    BY <1>2, <2>1, QuietSteps DEF NextApp, GoTo
  <2>2. CASE /\ device_count[mac_driver[app]] < MAX_NET_DEVICES /\ pc' = "acquire"
             /\ resource_acquire_available(mac_driver[app], c) /\ UNCHANGED app_param
    <3>1. /\ pc = "app" /\ app \in DOMAIN mac_driver /\ UNCHANGED <<cmdline, static, loop>>
      BY <1>2 DEF MacApp
    <3>2. app' = app /\ UNCHANGED <<device_count>>
      BY <2>2, <3>1 DEF app, static
    <3>3. app \notin DOMAIN max_devices
      BY <3>1, AppNames
    <3>4. call'.driver = mac_driver[app] /\ call'.context = c
      BY <2>2 DEF resource_acquire_available
    <3>5. MacCall'
      BY <2>2, <3>1, <3>2, <3>4 DEF MacCall, Context
    <3> HIDE DEF c
    <3>6. QED BY <1>0, <2>2, <3>1, <3>2, <3>3, <3>5, CallInv
  <2>3. QED BY <1>2, <2>1, <2>2 DEF MacApp
<1>3. CASE TryDriver
  <2> DEFINE c == Context("netdev", Drv, netdev_index[Drv])
  <2>1. /\ pc = "netdev_acquire_all" /\ pc' = "acquire" /\ UNCHANGED <<cmdline, app_param, static, loop>>
        /\ Len(entries) < max_devices[app] /\ trying <= Len(NetDrivers)
        /\ netdev_index[Drv] < MAX_NETDEV_CONTEXTS_PER_DRIVER
        /\ resource_acquire_available(Drv, c)
    BY <1>3 DEF TryDriver, Looping
  <2>2. app' = app /\ UNCHANGED <<netdev_index, entries, trying>>
    BY <2>1 DEF app, static, loop
  <2>3. app \in DOMAIN max_devices
    BY <2>1 DEF BInv, ControlOK, Acquiring
  <2>4. call'.driver = Drv /\ call'.context = c
    BY <2>1 DEF resource_acquire_available
  <2>5. Drv' = Drv
    BY <2>2 DEF Drv
  <2>6. NetdevCall'
    BY <2>1, <2>2, <2>3, <2>4, <2>5 DEF NetdevCall, Context
  <2> HIDE DEF c
  <2>7. QED BY <1>0, <2>1, <2>2, <2>6, CallInv DEF Acquiring
<1>4. QED BY <1>1, <1>2, <1>3

----------------------------------------------------------------------------
(* A step of the search: nothing joins or leaves the list, and the call    *)
(* stays the same application's.                                           *)
LEMMA SearchInv ==
  ASSUME BInv, ManagerStep, UNCHANGED <<devices, live>>, Listed' = Listed,
         failed \subseteq failed',
         call'.driver = call.driver, call'.context = call.context,
         \A s \in Listed : /\ device'[s] = device[s] /\ driver'[s] = driver[s]
                           /\ context'[s] = context[s],
         \A s \in Slots : in_use'[s] \/ context'[s] = NULL,
         Initialising' => /\ driver'[call'.slot] = call'.driver
                          /\ context'[call'.slot] = call'.context,
         app \in DOMAIN max_devices => \A j \in 1 .. call'.at - 1 : Passed(j)'
  PROVE  BInv'
<1>1. BootTypeOK /\ ControlOK /\ ContextsOK /\ WorksOK /\ SearchOK
  BY DEF BInv
<1>2. /\ pc = "acquire" /\ UNCHANGED <<cmdline, pc, app_param, entries, trying, static>>
      /\ call # NULL
  BY DEF ManagerStep, SkipDevice, StartInit, InitFailed, Scanning, Initialising
<1>3. UNCHANGED <<app, netdev_index, device_count, random_state, entries, trying>>
  BY <1>2 DEF app, static
<1>4. IInv'
  BY ManagerKept DEF BootNext
<1>5. BootTypeOK'
  BY <1>1, <1>3 DEF BootTypeOK, RandomCount
<1>6. ControlOK'
  <2>1. (NetdevCall \/ MacCall \/ RandomCall)'
    <3>1. Drv' = Drv /\ RandomCount' = RandomCount
      BY <1>3 DEF Drv, RandomCount
    <3>2. NetdevCall => NetdevCall'
      BY <1>3, <3>1 DEF NetdevCall, Context
    <3>3. MacCall => MacCall'
      BY <1>3 DEF MacCall, Context
    <3>4. RandomCall => RandomCall'
      BY <1>3, <3>1 DEF RandomCall, Context
    <3>5. QED BY <1>1, <1>2, <3>2, <3>3, <3>4 DEF ControlOK
  <2>2. pc' = "acquire" /\ devices' = DeviceList
    BY <1>1, <1>2 DEF ControlOK
  <2>3. QED BY <2>1, <2>2 DEF ControlOK, Acquiring
<1>7. ASSUME NEW c PROVE Taken(c)' <=> Taken(c)
  BY <1>3 DEF Taken, RandomCount, Context
<1>8. ContextsOK'
  BY <1>1, <1>7 DEF ContextsOK
<1>9. WorksOK'
  BY <1>1 DEF WorksOK
<1>10. HoldsOK'
  BY <1>3, HoldsKept
<1>11. SearchOK'
  <2>1. ASSUME app' \in DOMAIN max_devices', NEW k \in 1 .. trying' - 1 PROVE Tried(k)'
    <3>1. app \in DOMAIN max_devices /\ k \in 1 .. trying - 1
      BY <1>3, <2>1 DEF max_devices
    <3>2. Tried(k)
      BY <1>1, <1>2, <3>1 DEF SearchOK
    <3>3. QED BY <1>3, <3>2, TriedKept
  <2>2. ASSUME app' \in DOMAIN max_devices' PROVE \A j \in 1 .. call'.at - 1 : Passed(j)'
    BY <1>3, <2>2 DEF max_devices
  <2>3. pc' \notin Acquiring
    BY <1>2 DEF Acquiring
  <2>4. QED BY <2>1, <2>2, <2>3 DEF SearchOK, Acquiring
<1>12. QED BY <1>4, <1>5, <1>6, <1>8, <1>9, <1>10, <1>11 DEF BInv

(* The call under way has its type. *)
LEMMA CallTyped ==
  ASSUME BInv, call # NULL
  PROVE  /\ call \in CallType /\ call.at \in Nat /\ Len(devices) \in Nat
         /\ call.at \in 1 .. Len(devices) + 1
<1>1. TypeOK
  BY DEF BInv, IInv
<1>2. call \in CallType
  BY <1>1 DEF TypeOK
<1>3. Len(devices) \in Nat
  BY <1>1, ListAssumption DEF TypeOK
<1>4. QED BY <1>2, <1>3 DEF CallType

(* What is passed once the cursor moves on. *)
LEMMA PassedNext ==
  ASSUME BInv, call # NULL, app \in DOMAIN max_devices,
         NEW a, a = call.at, call'.at \in {a, a + 1},
         Listed \subseteq Listed', \A s \in Listed : device'[s] = device[s], failed \subseteq failed',
         devices' = devices, call'.driver = call.driver, call'.at = a + 1 => Passed(a)'
  PROVE  \A j \in 1 .. call'.at - 1 : Passed(j)'
<1>1. call.at \in Nat
  BY CallTyped
<1>2. \A j \in 1 .. call.at - 1 : Passed(j)
  BY DEF BInv, SearchOK
<1>3. \A j \in 1 .. call'.at - 1 : j \in 1 .. call.at - 1 \/ (j = a /\ call'.at = a + 1)
  BY <1>1
<1>4. ASSUME NEW j \in 1 .. call.at - 1 PROVE Passed(j)'
  BY <1>2, PassedKept
<1>5. QED BY <1>3, <1>4

(* The manager skips a device. *)
LEMMA SkipStep ==
  ASSUME BInv, ManagerStep, SkipDevice, UNCHANGED failed PROVE BInv'
<1>1. /\ call # NULL /\ call.slot = NULL /\ ~Candidate /\ call' = [call EXCEPT !.at = @ + 1]
      /\ UNCHANGED <<devices, allocations, pool, live>>
  BY DEF SkipDevice, Scanning
<1>2. UNCHANGED <<in_use, device, driver, context, next>>
  BY <1>1 DEF pool
<1>3. Listed' = Listed
  BY <1>1, <1>2, ListedSame
<1>4. /\ call'.driver = call.driver /\ call'.context = call.context /\ call'.slot = NULL
      /\ call'.at = call.at + 1
  BY <1>1, CallTyped DEF CallType
<1>a. PICK a : a = call.at
  OBVIOUS
<1>5. Passed(a)
  BY <1>1, <1>a DEF Candidate, Passed, Exhausted
<1>6. Passed(a)'
  BY <1>1, <1>2, <1>3, <1>4, <1>5, PassedKept
<1>7. app \in DOMAIN max_devices => \A j \in 1 .. call'.at - 1 : Passed(j)'
  BY <1>1, <1>2, <1>3, <1>4, <1>6, <1>a, PassedNext
<1>8. \A s \in Slots : in_use'[s] \/ context'[s] = NULL
  BY <1>2 DEF BInv, ContextsOK
<1>9. ~Initialising'
  BY <1>4 DEF Initialising
<1>10. QED BY <1>1, <1>2, <1>3, <1>4, <1>7, <1>8, <1>9, SearchInv

(* The manager takes a slot and calls init_context. *)
LEMMA StartStep ==
  ASSUME BInv, ManagerStep, StartInit, UNCHANGED failed PROVE BInv'
<1>1. /\ call # NULL /\ UNCHANGED <<devices, allocations, next, live>>
  BY DEF StartInit, Scanning
<1>2. PICK s \in Slots :
        /\ ~in_use[s]
        /\ in_use' = [in_use EXCEPT ![s] = TRUE]
        /\ device' = [device EXCEPT ![s] = devices[call.at]]
        /\ driver' = [driver EXCEPT ![s] = call.driver]
        /\ context' = [context EXCEPT ![s] = call.context]
        /\ call' = [call EXCEPT !.slot = s]
  BY DEF StartInit, FirstFree
<1>3. Listed' = Listed
  BY <1>1, ListedSame
<1>4. /\ call'.driver = call.driver /\ call'.context = call.context /\ call'.slot = s
      /\ call'.at = call.at
  BY <1>1, <1>2, CallTyped DEF CallType
<1>5. /\ in_use \in [Slots -> BOOLEAN] /\ DOMAIN device = Slots /\ DOMAIN driver = Slots
      /\ DOMAIN context = Slots /\ Listed \subseteq InUse /\ InUse \subseteq Slots
  BY DEF BInv, IInv, TypeOK, ListIsPool, InUse
<1>6. s \notin Listed
  BY <1>2, <1>5 DEF InUse
<1>7. \A t \in Listed : /\ device'[t] = device[t] /\ driver'[t] = driver[t]
                        /\ context'[t] = context[t]
  BY <1>2, <1>5, <1>6
<1>8. \A t \in Slots : in_use'[t] \/ context'[t] = NULL
  BY <1>2, <1>5 DEF BInv, ContextsOK
<1>9. driver'[call'.slot] = call'.driver /\ context'[call'.slot] = call'.context
  BY <1>2, <1>4, <1>5
<1>a. PICK a : a = call.at
  OBVIOUS
<1>10. app \in DOMAIN max_devices => \A j \in 1 .. call'.at - 1 : Passed(j)'
  <2>1. a \in Nat /\ call'.at # a + 1
    BY <1>1, <1>4, <1>a, CallTyped
  <2>2. QED BY <1>1, <1>3, <1>4, <1>7, <1>a, <2>1, PassedNext
<1>11. QED BY <1>1, <1>3, <1>4, <1>7, <1>8, <1>9, <1>10, SearchInv

(* init_context failed: the slot is free again and the device on record. *)
LEMMA FailedStep ==
  ASSUME BInv, ManagerStep, InitFailed, failed' = failed \cup {device[call.slot]} PROVE BInv'
<1>0. IInv /\ IInv'
  BY ManagerKept DEF BootNext, BInv
<1>s. PICK s : s = call.slot
  OBVIOUS
<1>a. PICK a : a = call.at
  OBVIOUS
<1>1. /\ Initialising /\ call # NULL /\ UNCHANGED <<devices, live>>
      /\ in_use' = [in_use EXCEPT ![s] = FALSE]
      /\ device' = [device EXCEPT ![s] = NULL]
      /\ driver' = [driver EXCEPT ![s] = NULL]
      /\ context' = [context EXCEPT ![s] = NULL]
      /\ call' = [call EXCEPT !.at = @ + 1, !.slot = NULL]
  BY <1>s DEF InitFailed, resource_free, Initialising
<1>2. call \in CallType /\ s \in Slots /\ Listed = InUse \ {s}
  BY <1>0, <1>1, <1>s, PendingFacts
<1>3. /\ call'.driver = call.driver /\ call'.context = call.context /\ call'.slot = NULL
      /\ call'.at = a + 1
  BY <1>1, <1>2, <1>a DEF CallType
<1>4. ~Initialising' /\ Pending' = {}
  BY <1>3 DEF Initialising, Pending
<1>5. /\ in_use \in [Slots -> BOOLEAN] /\ DOMAIN device = Slots /\ DOMAIN driver = Slots
      /\ DOMAIN context = Slots
  BY <1>0 DEF IInv, TypeOK
<1>6. Slots' = Slots
  BY DEF Slots
<1>7. InUse' = InUse \ {s}
  BY <1>1, <1>2, <1>5, <1>6 DEF InUse
<1>8. Listed' = Listed
  BY <1>0, <1>2, <1>4, <1>7 DEF IInv, ListIsPool
<1>9. \A t \in Listed : /\ device'[t] = device[t] /\ driver'[t] = driver[t]
                        /\ context'[t] = context[t]
  BY <1>1, <1>2, <1>5 DEF InUse
<1>10. \A t \in Slots : in_use'[t] \/ context'[t] = NULL
  BY <1>1, <1>2, <1>5 DEF BInv, ContextsOK
<1>11. failed \subseteq failed' /\ devices'[a] \in failed'
  BY <1>0, <1>1, <1>a DEF IInv, PendingInUse
<1>12. Passed(a)'
  BY <1>11 DEF Passed, Exhausted
<1>13. app \in DOMAIN max_devices => \A j \in 1 .. call'.at - 1 : Passed(j)'
  BY <1>1, <1>3, <1>8, <1>9, <1>11, <1>12, <1>a, PassedNext
<1>14. QED BY <1>1, <1>3, <1>4, <1>8, <1>9, <1>10, <1>11, <1>13, SearchInv

(* The three steps of the manager inside a call. *)
LEMMA ManagerInv ==
  ASSUME BInv, ManagerStep PROVE BInv'
BY SkipStep, StartStep, FailedStep DEF ManagerStep

----------------------------------------------------------------------------
(* init_context succeeded: the slot joins the list, its device works for   *)
(* the context of the call, and nothing else changes hands.                *)
LEMMA DoneEffect ==
  ASSUME BInv, InitDone, IInv', NEW s, s = call.slot
  PROVE  /\ s \in Slots /\ s \notin Listed /\ Listed' = Listed \cup {s}
         /\ UNCHANGED <<in_use, device, driver, context, devices>> /\ call' = NULL
         /\ driver[s] = call.driver /\ context[s] = call.context
         /\ device[s] \in Devices /\ \A t \in Listed : device[t] # device[s] /\ device[t] \in Devices
         /\ live' = [live EXCEPT ![device[s]] = [driver |-> driver[s], context |-> context[s]]]
         /\ DOMAIN live = Devices /\ call # NULL
<1>0. IInv
  BY DEF BInv
<1>1. /\ Initialising /\ call' = NULL /\ UNCHANGED <<devices, in_use, device, driver, context>>
      /\ live' = [live EXCEPT ![device[s]] = [driver |-> call.driver, context |-> call.context]]
      /\ call # NULL
  BY DEF InitDone, Initialising
<1>2. s \in Slots /\ Listed = InUse \ {s} /\ s \in InUse
  BY <1>0, <1>1, PendingFacts
<1>3. Pending' = {}
  BY <1>1 DEF Pending, Initialising
<1>4. InUse' = InUse
  BY <1>1 DEF InUse, Slots
<1>5. Listed' = Listed \cup {s}
  BY <1>2, <1>3, <1>4 DEF IInv, ListIsPool
<1>6. driver[s] = call.driver /\ context[s] = call.context
  BY <1>1 DEF BInv, ContextsOK
<1>7. \A t \in InUse : device[t] \in Devices
  BY <1>0 DEF IInv, TypeOK, InUse
<1>8. \A t \in Listed : device[t] # device[s]
  BY <1>0, <1>2 DEF IInv, Exclusive
<1>9. DOMAIN live = Devices
  BY <1>0 DEF IInv, TypeOK
<1>10. QED BY <1>1, <1>2, <1>5, <1>6, <1>7, <1>8, <1>9

(* The context of the call was fresh, and is now used up. *)
LEMMA DonePool ==
  ASSUME BInv, InitDone, IInv', ~Taken(call.context), NEW c, c = call.context, Taken(c)',
         \A x : Taken(x) => Taken(x)'
  PROVE  ContextsOK' /\ WorksOK'
<1>s. PICK s : s = call.slot
  OBVIOUS
<1>1. /\ s \in Slots /\ s \notin Listed /\ Listed' = Listed \cup {s}
      /\ UNCHANGED <<in_use, device, driver, context, devices>> /\ call' = NULL
      /\ driver[s] = call.driver /\ context[s] = c
      /\ device[s] \in Devices /\ \A t \in Listed : device[t] # device[s] /\ device[t] \in Devices
      /\ live' = [live EXCEPT ![device[s]] = [driver |-> driver[s], context |-> context[s]]]
      /\ DOMAIN live = Devices
  BY <1>s, DoneEffect
<1>2. ContextsOK /\ WorksOK
  BY DEF BInv
<1>3. ContextsOK'
  <2>1. \A t \in Slots' : in_use'[t] \/ context'[t] = NULL
    BY <1>1, <1>2 DEF ContextsOK, Slots
  <2>2. ASSUME NEW t \in Listed' PROVE Taken(context[t])'
    <3>1. PICK x : x = context[t]
      OBVIOUS
    <3>2. Taken(x)'
      BY <1>1, <1>2, <3>1 DEF ContextsOK
    <3>3. context'[t] = x
      BY <1>1, <3>1
    <3>4. QED BY <3>2, <3>3 DEF Taken
  <2>3. \A t, u \in Listed' : context'[t] = context'[u] => t = u
    BY <1>1, <1>2 DEF ContextsOK
  <2>4. ~Initialising'
    BY <1>1 DEF Initialising
  <2>5. QED BY <2>1, <2>2, <2>3, <2>4 DEF ContextsOK
<1>4. WorksOK'
  <2>1. ASSUME NEW t \in Listed'
        PROVE  live'[device'[t]] = [driver |-> driver'[t], context |-> context'[t]]
    <3>1. CASE t = s
      BY <1>1, <3>1
    <3>2. CASE t \in Listed
      BY <1>1, <1>2, <3>2 DEF WorksOK
    <3>3. QED BY <1>1, <3>1, <3>2
  <2>2. ASSUME NEW d \in Devices, live'[d] # NULL PROVE \E t \in Listed' : device'[t] = d
    <3>1. CASE d = device[s]
      BY <1>1, <3>1
    <3>2. CASE d # device[s]
      BY <1>1, <1>2, <2>2, <3>2 DEF WorksOK
    <3>3. QED BY <3>1, <3>2
  <2>3. QED BY <2>1, <2>2 DEF WorksOK
<1>5. QED BY <1>3, <1>4

(* The call is the running application's. *)
LEMMA CallOf ==
  ASSUME BInv, call # NULL
  PROVE  /\ app \in DOMAIN max_devices => NetdevCall
         /\ app \in DOMAIN mac_driver => MacCall
         /\ app = "random-hardware" => RandomCall
         /\ devices = DeviceList
BY AppNames DEF BInv, ControlOK, NetdevCall, MacCall, RandomCall

(* netdev_acquire_all records the resource and goes round its loop. *)
LEMMA NetdevAcquiredInv ==
  ASSUME BInv, NetdevAcquired PROVE BInv'
<1>0. BootTypeOK /\ HoldsOK /\ IInv' /\ call # NULL
  BY ManagerKept DEF BInv, BootNext, NetdevAcquired, InitDone, Initialising
<1>1. /\ pc = "acquire" /\ app \in DOMAIN max_devices /\ InitDone /\ trying' = 1
      /\ pc' = "netdev_acquire_all"
      /\ UNCHANGED <<cmdline, app_param, device_count, random_state>>
  BY DEF NetdevAcquired
<1>d. PICK d : d = Drv
  OBVIOUS
<1>n. PICK n : n = netdev_index[d]
  OBVIOUS
<1>s. PICK s : s = call.slot
  OBVIOUS
<1>c. PICK c : c = call.context
  OBVIOUS
<1>2. /\ Len(entries) < max_devices[app] /\ trying <= Len(NetDrivers)
      /\ n < MAX_NETDEV_CONTEXTS_PER_DRIVER /\ call.driver = d /\ c = Context("netdev", d, n)
      /\ devices = DeviceList
  BY <1>0, <1>1, <1>c, <1>d, <1>n, CallOf DEF NetdevCall
<1>3. d \in Range(NetDrivers) /\ d \in Drivers /\ n \in Nat /\ Len(entries) \in Nat
      /\ RandomCount \in Nat
  BY <1>0, <1>2, <1>d, <1>n, Counters, NetNames
<1>4. c \in Contexts /\ ~Taken(c)
  BY <1>0, <1>2, <1>3, <1>n, ContextIn, NextIsFresh
<1>5. /\ netdev_index' = [netdev_index EXCEPT ![d] = n + 1]
      /\ netdev_index \in [Range(NetDrivers) -> 0 .. MAX_NETDEV_CONTEXTS_PER_DRIVER]
  BY <1>0, <1>d, <1>n DEF NetdevAcquired, BootTypeOK
<1>6. netdev_index' \in [Range(NetDrivers) -> 0 .. MAX_NETDEV_CONTEXTS_PER_DRIVER]
  BY <1>2, <1>3, <1>5, BootAssumption
<1>7. ASSUME NEW e \in Range(NetDrivers), NEW i \in 0 .. netdev_index[e] - 1
      PROVE  i \in 0 .. netdev_index'[e] - 1
  <2>1. CASE e = d
    BY <1>3, <1>5, <1>n, <2>1
  <2>2. CASE e # d
    BY <1>5, <2>2
  <2>3. QED BY <2>1, <2>2
<1>8. \A x : Taken(x) => Taken(x)'
  BY <1>1, <1>7 DEF Taken, RandomCount, Context
<1>9. Taken(c)'
  <2>1. n \in 0 .. netdev_index'[d] - 1
    BY <1>3, <1>5
  <2>2. QED BY <1>2, <1>3, <2>1 DEF Taken, Context
<1>10. ContextsOK' /\ WorksOK'
  BY <1>0, <1>1, <1>4, <1>8, <1>9, <1>c, DonePool
<1>11. /\ s \in Slots /\ s \notin Listed /\ Listed' = Listed \cup {s}
       /\ UNCHANGED <<device, driver, context, devices>> /\ call' = NULL
       /\ driver[s] = d /\ context[s] = c
  BY <1>0, <1>1, <1>2, <1>c, <1>s, DoneEffect
<1> DEFINE x == [resource |-> s, driver |-> d, context |-> c]
           E == [resource : Slots, driver : Drivers, context : Contexts]
<1>12. /\ entries' = Append(entries, x) /\ x \in E /\ entries \in Seq(E)
       /\ x.resource = s /\ x.driver = d /\ x.context = c
  BY <1>0, <1>2, <1>3, <1>4, <1>11, <1>c, <1>s DEF NetdevAcquired, BootTypeOK
<1>13. BootTypeOK'
  <2>1. entries' \in Seq(E)
    <3> HIDE DEF x, E
    <3>1. QED BY <1>12
  <2>2. trying' \in 1 .. Len(NetDrivers) + 1
    BY <1>1, NetNames
  <2>3. QED BY <1>0, <1>1, <1>6, <2>1, <2>2 DEF BootTypeOK, RandomCount, Slots
<1> HIDE DEF x, E
<1>14. /\ Len(entries') = Len(entries) + 1 /\ DOMAIN entries' = 1 .. Len(entries) + 1
       /\ \A i \in 1 .. Len(entries) : entries'[i] = entries[i]
       /\ entries'[Len(entries) + 1] = x /\ DOMAIN entries = 1 .. Len(entries)
  BY <1>12
<1>15. ControlOK'
  <2>1. app' = app
    BY <1>1 DEF app
  <2>2. Len(entries') <= max_devices[app]
    BY <1>1, <1>2, <1>3, <1>14, AppNames
  <2>3. DOMAIN max_devices' = DOMAIN max_devices /\ max_devices' = max_devices
    BY DEF max_devices
  <2>4. QED BY <1>1, <1>2, <1>11, <2>1, <2>2, <2>3 DEF ControlOK, Acquiring
<1>16. HoldsOK'
  <2>1. ASSUME NEW i \in DOMAIN entries'
        PROVE  /\ entries'[i].resource \in Listed'
               /\ driver'[entries'[i].resource] = entries'[i].driver
               /\ context'[entries'[i].resource] = entries'[i].context
    <3>1. CASE i \in 1 .. Len(entries)
      BY <1>0, <1>11, <1>14, <3>1 DEF HoldsOK
    <3>2. CASE i = Len(entries) + 1
      BY <1>11, <1>12, <1>14, <3>2
    <3>3. QED BY <1>3, <1>14, <3>1, <3>2
  <2>2. /\ \A i \in DOMAIN random_state'.resources :
             /\ random_state'.resources[i] \in Listed'
             /\ driver'[random_state'.resources[i]] = "virtio-rng"
             /\ context'[random_state'.resources[i]] = Context("random", "virtio-rng", i - 1)
        /\ random_state'.next_device_index = 0 \/ random_state'.next_device_index < RandomCount'
    BY <1>0, <1>1, <1>11 DEF HoldsOK, RandomCount
  <2>3. QED BY <2>1, <2>2 DEF HoldsOK, Context
<1>17. SearchOK'
  <2>1. \A k \in 1 .. trying' - 1 : FALSE
    BY <1>1
  <2>2. QED BY <1>11, <2>1 DEF SearchOK
<1>18. QED BY <1>0, <1>10, <1>13, <1>15, <1>16, <1>17 DEF BInv

(* A MAC application counts the device it got. *)
LEMMA MacAcquiredInv ==
  ASSUME BInv, MacAcquired PROVE BInv'
<1>0. BootTypeOK /\ HoldsOK /\ IInv' /\ call # NULL
  BY ManagerKept DEF BInv, BootNext, MacAcquired, InitDone, Initialising
<1>1. /\ app \in DOMAIN mac_driver /\ InitDone /\ pc' \in {"return", "app"}
      /\ UNCHANGED <<netdev_index, random_state, entries, trying>>
  BY DEF MacAcquired, NextApp, GoTo, loop
<1>d. PICK d : d = mac_driver[app]
  OBVIOUS
<1>n. PICK n : n = device_count[d]
  OBVIOUS
<1>s. PICK s : s = call.slot
  OBVIOUS
<1>c. PICK c : c = call.context
  OBVIOUS
<1>2. /\ n < MAX_NET_DEVICES /\ call.driver = d /\ c = Context("mac", d, n) /\ devices = DeviceList
  BY <1>0, <1>1, <1>c, <1>d, <1>n, CallOf DEF MacCall
<1>3. d \in Range(NetDrivers) /\ n \in Nat /\ RandomCount \in Nat
  BY <1>0, <1>1, <1>d, <1>n, Counters, AppNames
<1>4. ~Taken(c)
  BY <1>0, <1>2, <1>3, <1>n, NextIsFresh
<1>5. /\ device_count' = [device_count EXCEPT ![d] = n + 1]
      /\ device_count \in [Range(NetDrivers) -> 0 .. MAX_NET_DEVICES]
  BY <1>0, <1>2, <1>n DEF MacAcquired, BootTypeOK
<1>6. device_count' \in [Range(NetDrivers) -> 0 .. MAX_NET_DEVICES]
  BY <1>2, <1>3, <1>5, BootAssumption
<1>7. ASSUME NEW e \in Range(NetDrivers), NEW i \in 0 .. device_count[e] - 1
      PROVE  i \in 0 .. device_count'[e] - 1
  <2>1. CASE e = d
    BY <1>3, <1>5, <1>n, <2>1
  <2>2. CASE e # d
    BY <1>5, <2>2
  <2>3. QED BY <2>1, <2>2
<1>8. \A x : Taken(x) => Taken(x)'
  BY <1>1, <1>7 DEF Taken, RandomCount, Context
<1>9. Taken(c)'
  <2>1. n \in 0 .. device_count'[d] - 1
    BY <1>3, <1>5
  <2>2. QED BY <1>2, <1>3, <2>1 DEF Taken, Context
<1>10. ContextsOK' /\ WorksOK'
  BY <1>0, <1>1, <1>4, <1>8, <1>9, <1>c, DonePool
<1>11. /\ Listed' = Listed \cup {s} /\ UNCHANGED <<device, driver, context, devices>> /\ call' = NULL
  BY <1>0, <1>1, <1>s, DoneEffect
<1>12. BootTypeOK'
  BY <1>0, <1>1, <1>6 DEF BootTypeOK, RandomCount
<1>13. ControlOK' /\ SearchOK'
  BY <1>1, <1>2, <1>11 DEF ControlOK, SearchOK, Acquiring
<1>14. HoldsOK'
  BY <1>1, <1>11, HoldsKept
<1>15. QED BY <1>0, <1>10, <1>12, <1>13, <1>14 DEF BInv

(* random_hardware_init keeps the resource in the next place. *)
LEMMA RandomAcquiredInv ==
  ASSUME BInv, RandomAcquired PROVE BInv'
<1>0. BootTypeOK /\ HoldsOK /\ IInv' /\ call # NULL
  BY ManagerKept DEF BInv, BootNext, RandomAcquired, InitDone, Initialising
<1>n. PICK n : n = RandomCount
  OBVIOUS
<1>s. PICK s : s = call.slot
  OBVIOUS
<1>c. PICK c : c = call.context
  OBVIOUS
<1>1. /\ app = "random-hardware" /\ InitDone /\ pc' = "random_get_bytes"
      /\ UNCHANGED <<netdev_index, device_count, entries, trying>>
      /\ random_state' = [random_state EXCEPT !.resources = Append(@, s)]
  BY <1>s DEF RandomAcquired, loop
<1>2. /\ n < MAX_HARDWARE_RNG_DEVICES /\ call.driver = "virtio-rng"
      /\ c = Context("random", "virtio-rng", n) /\ devices = DeviceList
  BY <1>0, <1>1, <1>c, <1>n, CallOf DEF RandomCall
<1>3. n \in Nat /\ ~Taken(c)
  BY <1>0, <1>2, <1>n, Counters, NextIsFresh
<1>4. /\ s \in Slots /\ s \notin Listed /\ Listed' = Listed \cup {s}
      /\ UNCHANGED <<device, driver, context, devices>> /\ call' = NULL
      /\ driver[s] = "virtio-rng" /\ context[s] = c
  BY <1>0, <1>1, <1>2, <1>c, <1>s, DoneEffect
<1> DEFINE old == random_state.resources
<1>5. /\ random_state \in [resources : Seq(Slots), next_device_index : Nat, initialized : BOOLEAN]
      /\ old \in Seq(Slots) /\ Len(old) = n
  BY <1>0, <1>n DEF BootTypeOK, RandomCount
<1>6. /\ random_state'.resources = Append(old, s)
      /\ random_state'.next_device_index = random_state.next_device_index
      /\ random_state' \in [resources : Seq(Slots), next_device_index : Nat, initialized : BOOLEAN]
  <2>1. Append(old, s) \in Seq(Slots)
    BY <1>4, <1>5
  <2>2. QED BY <1>1, <1>5, <2>1
<1> HIDE DEF old
<1>7. /\ Len(random_state'.resources) = n + 1 /\ DOMAIN random_state'.resources = 1 .. n + 1
      /\ \A i \in 1 .. n : random_state'.resources[i] = old[i]
      /\ random_state'.resources[n + 1] = s /\ DOMAIN old = 1 .. n
  BY <1>4, <1>5, <1>6
<1>8. RandomCount' = n + 1
  BY <1>7 DEF RandomCount
<1>9. \A i \in 0 .. RandomCount - 1 : i \in 0 .. RandomCount' - 1
  BY <1>3, <1>8, <1>n
<1>10. ASSUME NEW x, Taken(x) PROVE Taken(x)'
  BY <1>1, <1>9, <1>10 DEF Taken, Context
<1>11. Taken(c)'
  <2>1. n \in 0 .. n + 1 - 1
    BY <1>3
  <2>2. QED BY <1>2, <1>8, <2>1 DEF Taken, Context
<1>12. ContextsOK' /\ WorksOK'
  BY <1>0, <1>1, <1>3, <1>10, <1>11, <1>c, DonePool
<1>13. BootTypeOK'
  <2>1. RandomCount' <= MAX_HARDWARE_RNG_DEVICES
    BY <1>2, <1>3, <1>8, BootAssumption
  <2>2. QED BY <1>0, <1>1, <1>6, <2>1 DEF BootTypeOK, Slots
<1>14. ControlOK' /\ SearchOK'
  BY <1>1, <1>2, <1>4 DEF ControlOK, SearchOK, Acquiring
<1>15. HoldsOK'
  <2>1. ASSUME NEW i \in 1 .. n + 1
        PROVE  /\ random_state'.resources[i] \in Listed'
               /\ driver'[random_state'.resources[i]] = "virtio-rng"
               /\ context'[random_state'.resources[i]] = Context("random", "virtio-rng", i - 1)
    <3>1. CASE i \in 1 .. n
      <4>1. /\ old[i] \in Listed /\ driver[old[i]] = "virtio-rng"
            /\ context[old[i]] = Context("random", "virtio-rng", i - 1)
        BY <1>0, <1>7, <3>1 DEF HoldsOK, old
      <4>2. QED BY <1>4, <1>7, <3>1, <4>1
    <3>2. CASE i = n + 1
      <4>1. i - 1 = n
        BY <1>3, <3>2
      <4>2. QED BY <1>2, <1>4, <1>7, <3>2, <4>1
    <3>3. QED BY <1>3, <3>1, <3>2
  <2>2. random_state'.next_device_index = 0 \/ random_state'.next_device_index < RandomCount'
    BY <1>0, <1>3, <1>5, <1>6, <1>8, <1>n DEF HoldsOK
  <2>3. ASSUME NEW i \in DOMAIN entries'
        PROVE  /\ entries'[i].resource \in Listed'
               /\ driver'[entries'[i].resource] = entries'[i].driver
               /\ context'[entries'[i].resource] = entries'[i].context
    BY <1>0, <1>1, <1>4 DEF HoldsOK
  <2>4. QED BY <1>7, <2>1, <2>2, <2>3 DEF HoldsOK, Context
<1>16. QED BY <1>0, <1>12, <1>13, <1>14, <1>15 DEF BInv

(* The manager returned NULL: the driver has no device left that could be  *)
(* had, and netdev_acquire_all goes on with the next driver.               *)
LEMMA NotAcquiredInv ==
  ASSUME BInv, NotAcquired PROVE BInv'
<1>0. IInv /\ BootTypeOK /\ HoldsOK /\ SearchOK /\ IInv'
  BY ManagerKept DEF BInv, BootNext
<1>1. /\ pc = "acquire" /\ call # NULL /\ ~Initialising /\ call' = NULL
      /\ UNCHANGED <<devices, allocations, pool, live, cmdline, entries, failed, static>>
  BY DEF NotAcquired, NoSlot, NotFound, Scanning, Initialising
<1>2. /\ UNCHANGED <<in_use, device, driver, context, next>>
      /\ UNCHANGED <<netdev_index, device_count, random_state, entries, failed>>
  BY <1>1 DEF pool, static
<1>3. ~Initialising' /\ Listed' = Listed
  BY <1>1, <1>2, ListedSame DEF Initialising
<1>4. ContextsOK' /\ WorksOK'
  BY <1>1, <1>2, <1>3, PoolKept
<1>5. HoldsOK'
  BY <1>2, <1>3, HoldsKept
<1>6. devices = DeviceList
  BY <1>1, CallOf
<1>7. CASE app \in DOMAIN max_devices
  <2>t. PICK t : t = trying
    OBVIOUS
  <2>1. trying' = t + 1 /\ pc' = "netdev_acquire_all" /\ UNCHANGED app_param
    BY <1>7, <2>t, AppNames DEF NotAcquired
  <2>2. /\ t <= 3 /\ t \in 1 .. 4 /\ call.driver = NetDrivers[t] /\ Len(entries) < max_devices[app]
        /\ Len(entries) \in Nat
    BY <1>0, <1>1, <1>7, <2>t, CallOf, Counters, NetNames DEF NetdevCall, Drv
  <2>3. Tried(t)
    <3>1. CASE NoSlot
      <4>1. Listed = InUse
        BY <1>0, <1>1 DEF IInv, ListIsPool, Pending
      <4>2. ListFull
        BY <3>1, <4>1 DEF NoSlot, PoolFull, ListFull, InUse
      <4>3. QED BY <4>2 DEF Tried
    <3>2. CASE NotFound
      <4>1. /\ call.at > Len(DeviceList) /\ call.at \in 1 .. Len(DeviceList) + 1
            /\ Len(DeviceList) \in Nat
        BY <1>1, <1>6, <3>2, CallTyped DEF NotFound
      <4>2. \A j \in 1 .. Len(DeviceList) : j \in 1 .. call.at - 1
        BY <4>1
      <4>3. \A j \in 1 .. call.at - 1 : Passed(j)
        BY <1>0, <1>1, <1>7 DEF SearchOK
      <4>4. ASSUME NEW d \in Range(DeviceList), device_matches_driver(d, NetDrivers[t])
            PROVE  Exhausted(d)
        <5>1. DOMAIN DeviceList = 1 .. Len(DeviceList)
          BY ListAssumption
        <5>2. PICK j \in 1 .. Len(DeviceList) : d = DeviceList[j]
          BY <5>1 DEF Range
        <5>3. Passed(j)
          BY <4>2, <4>3
        <5>4. QED BY <1>6, <2>2, <4>4, <5>2, <5>3 DEF Passed
      <4>5. QED BY <4>4 DEF Tried
    <3>3. QED BY <3>1, <3>2 DEF NotAcquired
  <2>4. ASSUME NEW k \in 1 .. trying' - 1 PROVE Tried(k)'
    <3>1. k \in 1 .. t - 1 \/ k = t
      BY <2>1, <2>2
    <3>2. Tried(k)
      BY <1>0, <1>1, <1>7, <2>3, <2>t, <3>1 DEF SearchOK
    <3>3. QED BY <1>2, <1>3, <3>2, TriedKept
  <2>5. trying' \in 1 .. Len(NetDrivers) + 1
    BY <2>1, <2>2, NetNames
  <2>6. BootTypeOK'
    BY <1>0, <1>2, <2>5 DEF BootTypeOK, RandomCount
  <2>7. ControlOK'
    <3>1. app' = app
      BY <1>1, <2>1 DEF app
    <3>2. Len(entries') <= max_devices[app]
      BY <1>2, <1>7, <2>2, AppNames
    <3>3. max_devices' = max_devices
      BY DEF max_devices
    <3>4. QED BY <1>1, <1>6, <1>7, <2>1, <3>1, <3>2, <3>3 DEF ControlOK, Acquiring
  <2>8. SearchOK'
    BY <1>1, <2>4 DEF SearchOK
  <2>9. QED BY <1>0, <1>4, <1>5, <2>6, <2>7, <2>8 DEF BInv
<1>8. CASE app \notin DOMAIN max_devices
  <2>1. trying' = trying /\ pc' \in {"return", "app", "random_get_bytes"}
    BY <1>8 DEF NotAcquired, NextApp, GoTo
  <2>2. BootTypeOK'
    BY <1>0, <1>2, <2>1 DEF BootTypeOK, RandomCount
  <2>3. ControlOK' /\ SearchOK'
    BY <1>1, <1>6, <2>1 DEF ControlOK, SearchOK, Acquiring
  <2>4. QED BY <1>0, <1>4, <1>5, <2>2, <2>3 DEF BInv
<1>9. QED BY <1>7, <1>8

(* A step that changes nothing preserves the invariant. *)
LEMMA BootStutter ==
  ASSUME BInv, UNCHANGED allvars PROVE BInv'
<1>1. /\ UNCHANGED <<vars, cmdline, pc, app_param, netdev_index, device_count, random_state>>
      /\ UNCHANGED <<entries, trying, failed>>
  BY DEF allvars, bootvars, static, loop
<1>2. UNCHANGED <<devices, allocations, pool, in_use, device, driver, context, next, call, live>>
  BY <1>1 DEF vars, pool
<1>3. IInv /\ BootTypeOK /\ ControlOK /\ ContextsOK /\ SearchOK
  BY DEF BInv
<1>4. IInv'
  BY <1>1, <1>3, NextInv
<1>5. UNCHANGED <<app, Drv, RandomCount>> /\ Listed' = Listed
  BY <1>1, <1>2, ListedSame DEF app, Drv, RandomCount
<1>6. BootTypeOK'
  BY <1>1, <1>3, <1>5 DEF BootTypeOK
<1>7. ControlOK'
  BY <1>1, <1>2, <1>3, <1>5 DEF ControlOK, NetdevCall, MacCall, RandomCall, Acquiring, Context
<1>8. ContextsOK' /\ WorksOK'
  <2>1. Initialising' => /\ driver'[call'.slot] = call'.driver
                         /\ context'[call'.slot] = call'.context
    BY <1>2, <1>3 DEF ContextsOK, Initialising
  <2>2. QED BY <1>1, <1>2, <2>1, PoolKept
<1>9. HoldsOK'
  BY <1>1, <1>2, <1>5, HoldsKept
<1>10. SearchOK'
  <2>1. ASSUME NEW k, Tried(k) PROVE Tried(k)'
    BY <1>1, <1>2, <1>5, <2>1, TriedKept
  <2>2. ASSUME NEW j, Passed(j) PROVE Passed(j)'
    BY <1>1, <1>2, <1>5, <2>2, PassedKept
  <2>3. QED BY <1>1, <1>2, <1>3, <1>5, <2>1, <2>2 DEF SearchOK, Acquiring, max_devices
<1>11. QED BY <1>4, <1>6, <1>7, <1>8, <1>9, <1>10 DEF BInv

----------------------------------------------------------------------------
(* The invariant holds in every state of every boot. *)
THEOREM BootInvariant == BootSpec => []BInv
<1>1. BInv /\ [BootNext]_allvars => BInv'
  <2> SUFFICES ASSUME BInv, [BootNext]_allvars PROVE BInv'
    OBVIOUS
  <2>1. CASE \/ StartLogging \/ StartApps \/ Halt \/ ExceptionHalt \/ IllegalInstruction \/ UnknownApp
             \/ RandomSoftware \/ RunOnce \/ Serve \/ PacketPrint
    BY <2>1, QuietSteps
  <2>2. CASE ScanDevices
    BY <2>2, ScanInv
  <2>3. CASE random_get_bytes
    BY <2>3, RandomInv
  <2>4. CASE NetworkApp \/ SkipDriver \/ AcquiredAll
    BY <2>4, NetdevSteps
  <2>5. CASE RandomHardware \/ MacApp \/ TryDriver
    BY <2>5, CallSteps
  <2>6. CASE ManagerStep
    BY <2>6, ManagerInv
  <2>7. CASE NetdevAcquired
    BY <2>7, NetdevAcquiredInv
  <2>8. CASE MacAcquired
    BY <2>8, MacAcquiredInv
  <2>9. CASE RandomAcquired
    BY <2>9, RandomAcquiredInv
  <2>10. CASE NotAcquired
    BY <2>10, NotAcquiredInv
  <2>11. CASE UNCHANGED allvars
    BY <2>11, BootStutter
  <2>12. QED
    BY <2>1, <2>2, <2>3, <2>4, <2>5, <2>6, <2>7, <2>8, <2>9, <2>10, <2>11 DEF BootNext
<1>2. QED BY BootInitInv, <1>1, PTL DEF BootSpec

(* Every boot is a behaviour of the resource manager's specification: the  *)
(* static arrays of netdev.c, mac_*.c and random.c never make an           *)
(* application pass a context that a resource already has.                 *)
THEOREM ApplicationsHonourManager == BootSpec => HonoursManager
<1>1. BootInit => Init
  BY DEF BootInit
<1>2. BInv /\ [BootNext]_allvars => [Next]_vars
  BY StepRefines
<1>3. QED BY <1>1, <1>2, BootInvariant, PTL DEF BootSpec, Spec, HonoursManager

(* So what is proved of the manager holds in a boot: no device has two     *)
(* holders and the list is the pool, whatever the command line starts.     *)
THEOREM BootExclusive == BootSpec => [](Exclusive /\ ListIsPool /\ DmaConfined)
<1>1. HonoursManager <=> Spec
  BY DEF HonoursManager
<1>2. QED
  BY <1>1, ApplicationsHonourManager, Exclusivity, ListMatchesPool, DmaConfinement, PTL

(* What netdev_acquire_all and random.c hand out works: a listed resource  *)
(* whose device was initialised for the driver and the context recorded,   *)
(* and no two devices work on one context.                                 *)
THEOREM EntriesWork == BootSpec => []EntriesLive
<1>1. BInv => EntriesLive
  <2> SUFFICES ASSUME BInv PROVE EntriesLive
    OBVIOUS
  <2>1. WorksOK /\ HoldsOK /\ ContextsOK
    BY DEF BInv
  <2>2. ASSUME NEW d \in Devices, NEW e \in Devices, live[d] # NULL, live[e] # NULL,
               live[d].context = live[e].context
        PROVE  d = e
    <3>1. PICK s \in Listed : device[s] = d
      BY <2>1, <2>2 DEF WorksOK
    <3>2. PICK t \in Listed : device[t] = e
      BY <2>1, <2>2 DEF WorksOK
    <3>3. live[d].context = context[s] /\ live[e].context = context[t]
      <4>1. /\ live[d] = [driver |-> driver[s], context |-> context[s]]
            /\ live[e] = [driver |-> driver[t], context |-> context[t]]
        BY <2>1, <3>1, <3>2 DEF WorksOK
      <4>2. QED BY <4>1
    <3>4. s = t
      BY <2>1, <2>2, <3>3 DEF ContextsOK
    <3>5. QED BY <3>1, <3>2, <3>4
  <2>3. ASSUME NEW i \in DOMAIN entries
        PROVE  /\ entries[i].resource \in Listed
               /\ live[device[entries[i].resource]] =
                    [driver |-> entries[i].driver, context |-> entries[i].context]
    BY <2>1 DEF WorksOK, HoldsOK
  <2>4. ASSUME NEW i \in DOMAIN random_state.resources
        PROVE  /\ random_state.resources[i] \in Listed
               /\ live[device[random_state.resources[i]]] =
                    [driver |-> "virtio-rng", context |-> Context("random", "virtio-rng", i - 1)]
    BY <2>1 DEF WorksOK, HoldsOK
  <2>5. QED BY <2>1, <2>2, <2>3, <2>4 DEF EntriesLive, HoldsOK, RandomCount
<1>2. QED BY <1>1, BootInvariant, PTL

(* netdev_acquire_all leaves no device behind. *)
THEOREM NothingLeftBehind == BootSpec => []AcquiresAll
<1>1. BInv => AcquiresAll
  <2> SUFFICES ASSUME BInv, pc = "run", Len(entries) # max_devices[app], ~PoolFull,
                      NEW d \in Range(DeviceList), NEW drv \in Range(NetDrivers),
                      device_matches_driver(d, drv)
               PROVE  \/ device_is_allocated(d)
                      \/ d \in failed
                      \/ netdev_index[drv] = MAX_NETDEV_CONTEXTS_PER_DRIVER
    BY DEF AcquiresAll
  <2>1. IInv /\ BootTypeOK /\ ControlOK /\ SearchOK
    BY DEF BInv
  <2>2. trying > Len(NetDrivers)
    BY <2>1 DEF ControlOK
  <2>3. trying = 4
    BY <2>1, <2>2, Counters, NetNames
  <2>4. PICK k \in 1 .. 3 : drv = NetDrivers[k]
    BY NetNames
  <2>5. Tried(k)
    BY <2>1, <2>3 DEF SearchOK, Acquiring
  <2>6. ~ListFull
    BY <2>1 DEF ListFull, PoolFull, IInv, ListIsPool, InUse
  <2>7. QED BY <2>4, <2>5, <2>6 DEF Tried, Exhausted
<1>2. QED BY <1>1, BootInvariant, PTL
----------------------------------------------------------------------------
(***************************************************************************)
(* And the levels of the log tags.  log_init reads the command line token  *)
(* by token, before any tag is registered; what holds after the first n    *)
(* tokens is proved by the least n for which it would not.                 *)
(***************************************************************************)

(* The first of a set of positions. *)
LEMMA MinIs ==
  ASSUME NEW S \in SUBSET Nat, S # {}
  PROVE  Min(S) \in S /\ \A y \in S : Min(S) <= y
<1>1. \E x \in S : \A y \in S : x <= y
  BY LeastNumber
<1>2. QED BY <1>1 DEF Min

(* The last of a set of positions. *)
LEMMA MaxIs ==
  ASSUME NEW n \in Nat, NEW S \in SUBSET (1 .. n), S # {}
  PROVE  Max(S) \in S /\ \A y \in S : y <= Max(S)
<1> DEFINE T == {n - x : x \in S}
<1>1. S \subseteq Nat /\ T \subseteq Nat /\ T # {}
  <2>1. \A x \in S : x \in Nat /\ x <= n /\ n - x \in Nat
    OBVIOUS
  <2>2. T \subseteq Nat
    BY <2>1
  <2>3. QED BY <2>1, <2>2
<1>2. PICK m \in T : \A y \in T : m <= y
  BY <1>1, LeastNumber
<1>3. PICK x \in S : m = n - x
  BY <1>2
<1>4. ASSUME NEW y \in S PROVE y <= x
  <2>1. n - y \in T
    OBVIOUS
  <2>2. m <= n - y
    BY <1>2, <2>1
  <2>3. x \in Nat /\ y \in Nat
    BY <1>1
  <2>4. QED BY <1>3, <2>2, <2>3
<1>5. \E z \in S : \A y \in S : z >= y
  BY <1>1, <1>4
<1>6. Max(S) \in S /\ \A y \in S : Max(S) >= y
  BY <1>5 DEF Max
<1>7. QED BY <1>1, <1>6

(* a is the sequence of states of log.c after each of the first k tokens.  *)
Run(a, l, c, k) ==
  a = [n \in 0 .. k |-> IF n = 0 THEN l ELSE log_token(a[n - 1], c[n])]

(* There is such a sequence. *)
LEMMA RunExists ==
  ASSUME NEW l, NEW c, NEW k \in Nat
  PROVE  \E a : Run(a, l, c, k)
<1> DEFINE Bad == {n \in Nat : ~\E a : Run(a, l, c, n)}
<1> SUFFICES ASSUME Bad # {} PROVE FALSE
  OBVIOUS
<1>1. PICK n \in Bad : \A y \in Bad : n <= y
  <2>1. Bad \in SUBSET Nat
    OBVIOUS
  <2> HIDE DEF Bad
  <2>2. QED BY <2>1, LeastNumber
<1>2. n # 0
  <2> DEFINE a == [m \in 0 .. 0 |-> l]
  <2>1. a = [m \in 0 .. 0 |-> IF m = 0 THEN l ELSE log_token(a[m - 1], c[m])]
    OBVIOUS
  <2>2. Run(a, l, c, 0)
    BY <2>1 DEF Run
  <2>3. QED BY <1>1, <2>2
<1>3. n - 1 \in Nat /\ n \in Nat /\ n - 1 < n
  BY <1>1, <1>2
<1>4. PICK a : Run(a, l, c, n - 1)
  BY <1>1, <1>3
<1> DEFINE b == [m \in 0 .. n |-> IF m = n THEN log_token(a[n - 1], c[n]) ELSE a[m]]
<1>5. ASSUME NEW m \in 0 .. n PROVE b[m] = IF m = 0 THEN l ELSE log_token(b[m - 1], c[m])
  <2>1. CASE m = n
    <3>1. n - 1 \in 0 .. n /\ n - 1 # n
      BY <1>3
    <3>2. b[n - 1] = a[n - 1] /\ b[n] = log_token(a[n - 1], c[n])
      BY <1>3, <3>1
    <3>3. QED BY <1>2, <2>1, <3>2
  <2>2. CASE m # n
    <3>1. m \in 0 .. n - 1
      BY <1>3, <2>2
    <3>2. a[m] = IF m = 0 THEN l ELSE log_token(a[m - 1], c[m])
      BY <1>4, <3>1 DEF Run
    <3>3. m # 0 => m - 1 \in 0 .. n /\ m - 1 # n
      BY <1>3, <3>1
    <3>4. b[m] = a[m] /\ (m # 0 => b[m - 1] = a[m - 1])
      BY <2>2, <3>3
    <3>5. QED BY <3>2, <3>4
  <2>3. QED BY <2>1, <2>2
<1>6. b = [m \in 0 .. n |-> b[m]]
  OBVIOUS
<1> HIDE DEF b
<1>7. Run(b, l, c, n)
  BY <1>5, <1>6 DEF Run
<1>8. QED BY <1>1, <1>7

(* log_init ends with the last state of it. *)
LEMMA InitIsRun ==
  ASSUME NEW l, NEW c, c # NULL, Len(c) \in Nat
  PROVE  \E a : Run(a, l, c, Len(c)) /\ log_init(l, c) = a[Len(c)]
<1> DEFINE b == CHOOSE a : a = [n \in 0 .. Len(c) |->
                                  IF n = 0 THEN l ELSE log_token(a[n - 1], c[n])]
<1>1. log_init(l, c) = b[Len(c)]
  BY DEF log_init
<1>2. \E a : a = [n \in 0 .. Len(c) |-> IF n = 0 THEN l ELSE log_token(a[n - 1], c[n])]
  <2>1. PICK a : Run(a, l, c, Len(c))
    BY RunExists
  <2>2. QED BY <2>1 DEF Run
<1>3. b = [n \in 0 .. Len(c) |-> IF n = 0 THEN l ELSE log_token(b[n - 1], c[n])]
  BY <1>2
<1> HIDE DEF b
<1>4. QED BY <1>1, <1>3 DEF Run

(* The positions of the tokens with key k that name a level, those before  *)
(* position n, and the override a token asks for.                          *)
LevelTokens(c, k) == {i \in DOMAIN c : c[i].key = k /\ parse_level(c[i].value) # NULL}
Before(c, k, n) == {i \in LevelTokens(c, k) : i < n}
OverrideOf(c, i) == [tag |-> c[i].tag, level |-> parse_level(c[i].value)]

(* The place in pending_overrides of the override at position i. *)
Earlier(c, i) == Cardinality(Before(c, "log.", i))

(* pending_overrides and global_level after the tokens before position n:  *)
(* the first MAX_OVERRIDES overrides in their order, the last level.       *)
OverridesRead(c, n, o) ==
  /\ o \in Seq({OverrideOf(c, i) : i \in DOMAIN c})
  /\ Len(o) = IF Earlier(c, n) < MAX_OVERRIDES THEN Earlier(c, n) ELSE MAX_OVERRIDES
  /\ \A i \in Before(c, "log.", n) : Earlier(c, i) < MAX_OVERRIDES => o[Earlier(c, i) + 1] = OverrideOf(c, i)
  /\ \A k \in 1 .. Len(o) : \E i \in Before(c, "log.", n) : Earlier(c, i) + 1 = k
GlobalRead(c, n) ==
  IF Before(c, "log", n) = {} THEN NULL ELSE parse_level(c[Max(Before(c, "log", n))].value)
HasRead(c, n, l) ==
  \E o : /\ l = [tags |-> <<>>, global |-> GlobalRead(c, n), overrides |-> o]
         /\ OverridesRead(c, n, o)

(* Going one token further. *)
LEMMA BeforeNext ==
  ASSUME NEW S, NEW c \in Seq(S), NEW k, NEW n \in 1 .. Len(c)
  PROVE  /\ n \in LevelTokens(c, k) => Before(c, k, n + 1) = Before(c, k, n) \cup {n}
         /\ n \notin LevelTokens(c, k) => Before(c, k, n + 1) = Before(c, k, n)
         /\ n \notin Before(c, k, n)
<1>1. DOMAIN c = 1 .. Len(c) /\ Len(c) \in Nat
  BY LenProperties
<1>2. LevelTokens(c, k) \subseteq 1 .. Len(c)
  BY <1>1 DEF LevelTokens
<1>3. \A i \in LevelTokens(c, k) : i < n + 1 <=> i < n \/ i = n
  BY <1>1, <1>2
<1>4. ~(n < n)
  BY <1>1
<1>5. QED BY <1>3, <1>4 DEF Before

(* How many overrides come before a position. *)
LEMMA EarlierIs ==
  ASSUME NEW S, NEW c \in Seq(S), NEW n \in 1 .. Len(c) + 1
  PROVE  /\ IsFiniteSet(Before(c, "log.", n)) /\ Earlier(c, n) \in Nat
         /\ \A i \in 1 .. Len(c) + 1 : n <= i => Earlier(c, n) <= Earlier(c, i)
         /\ n <= Len(c) => Earlier(c, n + 1) = IF n \in LevelTokens(c, "log.")
                                               THEN Earlier(c, n) + 1 ELSE Earlier(c, n)
<1>1. DOMAIN c = 1 .. Len(c) /\ Len(c) \in Nat
  BY LenProperties
<1>2. ASSUME NEW i \in 1 .. Len(c) + 1
      PROVE  /\ IsFiniteSet(Before(c, "log.", i)) /\ Earlier(c, i) \in Nat
             /\ n <= i => Before(c, "log.", n) \subseteq Before(c, "log.", i)
  <2>1. Before(c, "log.", i) \subseteq 1 .. Len(c)
    BY <1>1 DEF Before, LevelTokens
  <2>2. 1 \in Int /\ Len(c) \in Int
    BY <1>1
  <2>3. IsFiniteSet(1 .. Len(c))
    BY <2>2, FS_Interval
  <2>4. IsFiniteSet(Before(c, "log.", i))
    BY <2>1, <2>3, FS_Subset
  <2>5. Earlier(c, i) \in Nat
    BY <2>4, FS_CardinalityType DEF Earlier
  <2>6. ASSUME n <= i, NEW j \in Before(c, "log.", n) PROVE j \in Before(c, "log.", i)
    <3>1. j \in 1 .. Len(c) /\ j < n
      BY <1>1, <2>6 DEF Before, LevelTokens
    <3>2. j < i
      BY <1>1, <2>6, <3>1
    <3>3. QED BY <2>6, <3>2 DEF Before
  <2>7. QED BY <2>4, <2>5, <2>6
<1>3. ASSUME NEW i \in 1 .. Len(c) + 1, n <= i PROVE Earlier(c, n) <= Earlier(c, i)
  BY <1>2, <1>3, FS_Subset DEF Earlier
<1>4. ASSUME n <= Len(c)
      PROVE  Earlier(c, n + 1) = IF n \in LevelTokens(c, "log.")
                                 THEN Earlier(c, n) + 1 ELSE Earlier(c, n)
  <2>1. n \in 1 .. Len(c)
    BY <1>1, <1>4
  <2>2. CASE n \in LevelTokens(c, "log.")
    <3>1. Before(c, "log.", n + 1) = Before(c, "log.", n) \cup {n} /\ n \notin Before(c, "log.", n)
      BY <2>1, <2>2, BeforeNext
    <3>2. Cardinality(Before(c, "log.", n) \cup {n}) = Cardinality(Before(c, "log.", n)) + 1
      BY <1>2, <3>1, FS_AddElement
    <3>3. QED BY <2>2, <3>1, <3>2 DEF Earlier
  <2>3. CASE n \notin LevelTokens(c, "log.")
    BY <2>1, <2>3, BeforeNext DEF Earlier
  <2>4. QED BY <2>2, <2>3
<1>5. QED BY <1>2, <1>3, <1>4

(* A token that is no override leaves pending_overrides as it is. *)
LEMMA OverridesKept ==
  ASSUME NEW S, NEW c \in Seq(S), NEW n \in 1 .. Len(c), n \notin LevelTokens(c, "log."),
         NEW o, OverridesRead(c, n, o)
  PROVE  OverridesRead(c, n + 1, o)
<1>1. Before(c, "log.", n + 1) = Before(c, "log.", n)
  BY BeforeNext
<1>2. Earlier(c, n + 1) = Earlier(c, n)
  BY <1>1 DEF Earlier
<1>3. QED BY <1>1, <1>2 DEF OverridesRead

(* An override is remembered while there is room. *)
LEMMA OverridesAdded ==
  ASSUME NEW S, NEW c \in Seq(S), NEW n \in 1 .. Len(c), n \in LevelTokens(c, "log."),
         NEW o, OverridesRead(c, n, o)
  PROVE  OverridesRead(c, n + 1, IF Len(o) = MAX_OVERRIDES THEN o ELSE Append(o, OverrideOf(c, n)))
<1>0. MAX_OVERRIDES \in Nat /\ DOMAIN c = 1 .. Len(c) /\ Len(c) \in Nat
  BY BootAssumption, LenProperties
<1>1. Before(c, "log.", n + 1) = Before(c, "log.", n) \cup {n}
  BY BeforeNext
<1>2. Earlier(c, n + 1) = Earlier(c, n) + 1 /\ Earlier(c, n) \in Nat
  <2>1. n \in 1 .. Len(c) + 1 /\ n <= Len(c)
    BY <1>0
  <2>2. QED BY <2>1, EarlierIs
<1> DEFINE T == {OverrideOf(c, i) : i \in DOMAIN c}
           e == Earlier(c, n)
<1>3. /\ o \in Seq(T) /\ Len(o) = IF e < MAX_OVERRIDES THEN e ELSE MAX_OVERRIDES
      /\ \A i \in Before(c, "log.", n) : Earlier(c, i) < MAX_OVERRIDES => o[Earlier(c, i) + 1] = OverrideOf(c, i)
      /\ \A k \in 1 .. Len(o) : \E i \in Before(c, "log.", n) : Earlier(c, i) + 1 = k
  BY DEF OverridesRead
<1>4. OverrideOf(c, n) \in T
  BY <1>0
<1>5. Len(o) \in Nat /\ e \in Nat
  BY <1>2, <1>3, LenProperties
<1> HIDE DEF T, e
<1>6. CASE Len(o) = MAX_OVERRIDES
  <2>1. ~(e < MAX_OVERRIDES)
    BY <1>0, <1>3, <1>5, <1>6
  <2>2. ~(e + 1 < MAX_OVERRIDES)
    BY <1>0, <1>5, <2>1
  <2>3. Len(o) = IF Earlier(c, n + 1) < MAX_OVERRIDES THEN Earlier(c, n + 1) ELSE MAX_OVERRIDES
    BY <1>2, <1>6, <2>2 DEF e
  <2>4. \A i \in Before(c, "log.", n + 1) : Earlier(c, i) < MAX_OVERRIDES => o[Earlier(c, i) + 1] = OverrideOf(c, i)
    BY <1>1, <1>3, <2>1 DEF e
  <2>5. \A k \in 1 .. Len(o) : \E i \in Before(c, "log.", n + 1) : Earlier(c, i) + 1 = k
    BY <1>1, <1>3
  <2>6. OverridesRead(c, n + 1, o)
    BY <1>3, <2>3, <2>4, <2>5 DEF OverridesRead, T
  <2>7. QED BY <1>6, <2>6
<1>7. CASE Len(o) # MAX_OVERRIDES
  <2>1. e < MAX_OVERRIDES /\ Len(o) = e
    BY <1>0, <1>3, <1>5, <1>7
  <2>2. PICK p : p = Append(o, OverrideOf(c, n))
    OBVIOUS
  <2>3. /\ p \in Seq(T) /\ Len(p) = e + 1 /\ p[e + 1] = OverrideOf(c, n)
        /\ \A i \in 1 .. e : p[i] = o[i]
    BY <1>3, <1>4, <2>1, <2>2, AppendProperties
  <2>4. Len(p) = IF Earlier(c, n + 1) < MAX_OVERRIDES THEN Earlier(c, n + 1) ELSE MAX_OVERRIDES
    <3>1. Earlier(c, n + 1) = e + 1
      BY <1>2 DEF e
    <3>2. QED BY <1>0, <1>5, <2>1, <2>3, <3>1
  <2>5. ASSUME NEW i \in Before(c, "log.", n + 1), Earlier(c, i) < MAX_OVERRIDES
        PROVE  p[Earlier(c, i) + 1] = OverrideOf(c, i)
    <3>1. CASE i = n
      BY <2>3, <3>1 DEF e
    <3>2. CASE i \in Before(c, "log.", n)
      <4>1. i \in 1 .. Len(c) /\ i < n /\ i \in LevelTokens(c, "log.")
        BY <1>0, <3>2 DEF Before, LevelTokens
      <4>2. i \in 1 .. Len(c) + 1 /\ i + 1 \in 1 .. Len(c) + 1 /\ i <= Len(c)
            /\ n \in 1 .. Len(c) + 1 /\ i + 1 <= n
        BY <1>0, <4>1
      <4>3. Earlier(c, i) \in Nat /\ Earlier(c, i + 1) = Earlier(c, i) + 1
        BY <4>1, <4>2, EarlierIs
      <4>4. Earlier(c, i + 1) <= e
        BY <4>2, EarlierIs DEF e
      <4>5. Earlier(c, i) + 1 \in 1 .. e
        BY <1>5, <4>3, <4>4
      <4>6. QED BY <1>3, <2>3, <2>5, <3>2, <4>5
    <3>3. QED BY <1>1, <2>5, <3>1, <3>2
  <2>6. ASSUME NEW k \in 1 .. Len(p)
        PROVE  \E i \in Before(c, "log.", n + 1) : Earlier(c, i) + 1 = k
    <3>1. CASE k = e + 1
      BY <1>1, <3>1 DEF e
    <3>2. CASE k # e + 1
      <4>1. k \in 1 .. Len(o)
        BY <1>5, <2>1, <2>3, <3>2
      <4>2. QED BY <1>1, <1>3, <4>1
    <3>3. QED BY <3>1, <3>2
  <2>7. OverridesRead(c, n + 1, p)
    BY <2>3, <2>4, <2>5, <2>6 DEF OverridesRead, T
  <2>8. QED BY <1>7, <2>2, <2>7
<1>8. QED BY <1>6, <1>7

(* The global level is the last one named. *)
LEMMA GlobalNext ==
  ASSUME NEW S, NEW c \in Seq(S), NEW n \in 1 .. Len(c)
  PROVE  GlobalRead(c, n + 1) = IF n \in LevelTokens(c, "log") THEN parse_level(c[n].value)
                                ELSE GlobalRead(c, n)
<1>0. DOMAIN c = 1 .. Len(c) /\ Len(c) \in Nat
  BY LenProperties
<1>1. CASE n \notin LevelTokens(c, "log")
  BY <1>1, BeforeNext DEF GlobalRead
<1>2. CASE n \in LevelTokens(c, "log")
  <2>1. PICK B : B = Before(c, "log", n + 1)
    OBVIOUS
  <2>2. B = Before(c, "log", n) \cup {n} /\ n \in B
    BY <1>2, <2>1, BeforeNext
  <2>3. B \in SUBSET (1 .. Len(c)) /\ \A i \in B : i < n + 1
    BY <1>0, <2>1 DEF Before, LevelTokens
  <2>4. Max(B) \in B /\ n <= Max(B)
    BY <1>0, <2>2, <2>3, MaxIs
  <2>5. Max(B) = n
    <3>1. PICK m \in B : m = Max(B)
      BY <2>4
    <3>2. m \in 1 .. Len(c) /\ m < n + 1
      BY <2>3
    <3>3. m = n
      BY <1>0, <2>4, <3>1, <3>2
    <3>4. QED BY <3>1, <3>3
  <2>6. QED BY <1>2, <2>1, <2>2, <2>5 DEF GlobalRead
<1>3. QED BY <1>1, <1>2

(* The state of log.c before any tag is registered. *)
Untagged(l, g, o) == l = [tags |-> <<>>, global |-> g, overrides |-> o]

(* Then log=<level> sets only the level of tags to come. *)
LEMMA GlobalUntagged ==
  ASSUME NEW g, NEW o, NEW l, Untagged(l, g, o), NEW v
  PROVE  SetGlobal(l, v) = [tags |-> <<>>, global |-> v, overrides |-> o]
<1>1. DOMAIN l.tags = {} /\ l.tags = <<>>
  BY DEF Untagged
<1>2. PICK f : f = [i \in DOMAIN l.tags |->
        [l.tags[i] EXCEPT !.level = apply_overrides(l.overrides, l.tags[i].name, v)]]
  OBVIOUS
<1>3. f = <<>>
  BY <1>1, <1>2
<1>4. SetGlobal(l, v) = [l EXCEPT !.global = v, !.tags = f]
  BY <1>2 DEF SetGlobal, Untagged
<1>5. QED BY <1>3, <1>4 DEF Untagged

(* So does log.<tag>=<level>. *)
LEMMA OverrideUntagged ==
  ASSUME NEW g, NEW o, NEW l, Untagged(l, g, o), NEW v, NEW t, Len(o) # MAX_OVERRIDES
  PROVE  AddOverride(l, t, v) = [tags |-> <<>>, global |-> g,
                                 overrides |-> Append(o, [tag |-> t, level |-> v])]
<1>1. DOMAIN l.tags = {} /\ l.tags = <<>> /\ l.overrides = o
  BY DEF Untagged
<1>2. PICK h : h = [i \in DOMAIN l.tags |->
             IF l.tags[i].name = t THEN [l.tags[i] EXCEPT !.level = v] ELSE l.tags[i]]
  OBVIOUS
<1>3. h = <<>>
  BY <1>1, <1>2
<1>4. AddOverride(l, t, v) = [l EXCEPT !.overrides = Append(o, [tag |-> t, level |-> v]), !.tags = h]
  BY <1>1, <1>2 DEF AddOverride, Untagged
<1>5. QED BY <1>3, <1>4 DEF Untagged

(* One token read. *)
LEMMA ReadNext ==
  ASSUME NEW S, NEW c \in Seq(S), NEW n \in 1 .. Len(c), NEW l, HasRead(c, n, l)
  PROVE  HasRead(c, n + 1, log_token(l, c[n]))
<1>0. n \in DOMAIN c
  BY LenProperties
<1>1. PICK o : l = [tags |-> <<>>, global |-> GlobalRead(c, n), overrides |-> o] /\ OverridesRead(c, n, o)
  BY DEF HasRead
<1>2. /\ n \in LevelTokens(c, "log.") <=> c[n].key = "log." /\ parse_level(c[n].value) # NULL
      /\ n \in LevelTokens(c, "log") <=> c[n].key = "log" /\ parse_level(c[n].value) # NULL
  BY <1>0 DEF LevelTokens
<1>3. CASE n \in LevelTokens(c, "log.")
  <2>1. n \notin LevelTokens(c, "log")
    BY <1>2, <1>3
  <2>2. log_token(l, c[n]) = AddOverride(l, c[n].tag, parse_level(c[n].value))
    BY <1>2, <1>3 DEF log_token
  <2>3. PICK p : p = IF Len(o) = MAX_OVERRIDES THEN o ELSE Append(o, OverrideOf(c, n))
    OBVIOUS
  <2>4. OverridesRead(c, n + 1, p)
    BY <1>1, <1>3, <2>3, OverridesAdded
  <2>5. log_token(l, c[n]) = [tags |-> <<>>, global |-> GlobalRead(c, n), overrides |-> p]
    <3>1. CASE Len(o) = MAX_OVERRIDES
      BY <1>1, <2>2, <2>3, <3>1 DEF AddOverride
    <3>2. CASE Len(o) # MAX_OVERRIDES
      <4>1. PICK g, t, v : g = GlobalRead(c, n) /\ t = c[n].tag /\ v = parse_level(c[n].value)
        OBVIOUS
      <4>2. Untagged(l, g, o)
        BY <1>1, <4>1 DEF Untagged
      <4>3. AddOverride(l, t, v) = [tags |-> <<>>, global |-> g,
                                    overrides |-> Append(o, [tag |-> t, level |-> v])]
        BY <3>2, <4>2, OverrideUntagged
      <4>4. QED BY <2>2, <2>3, <3>2, <4>1, <4>3 DEF OverrideOf
    <3>3. QED BY <3>1, <3>2
  <2>6. GlobalRead(c, n + 1) = GlobalRead(c, n)
    BY <2>1, GlobalNext
  <2>7. QED BY <2>4, <2>5, <2>6 DEF HasRead
<1>4. CASE n \notin LevelTokens(c, "log.")
  <2>1. OverridesRead(c, n + 1, o)
    BY <1>1, <1>4, OverridesKept
  <2>2. CASE n \in LevelTokens(c, "log")
    <3>1. log_token(l, c[n]) = SetGlobal(l, parse_level(c[n].value))
      BY <1>2, <2>2 DEF log_token
    <3>2. log_token(l, c[n]) = [tags |-> <<>>, global |-> parse_level(c[n].value), overrides |-> o]
      <4>1. PICK g, v : g = GlobalRead(c, n) /\ v = parse_level(c[n].value)
        OBVIOUS
      <4>2. Untagged(l, g, o)
        BY <1>1, <4>1 DEF Untagged
      <4>3. SetGlobal(l, v) = [tags |-> <<>>, global |-> v, overrides |-> o]
        BY <4>2, GlobalUntagged
      <4>4. QED BY <3>1, <4>1, <4>3
    <3>3. GlobalRead(c, n + 1) = parse_level(c[n].value)
      BY <2>2, GlobalNext
    <3>4. QED BY <2>1, <3>2, <3>3 DEF HasRead
  <2>3. CASE n \notin LevelTokens(c, "log")
    <3>1. log_token(l, c[n]) = l
      BY <1>2, <1>4, <2>3 DEF log_token
    <3>2. GlobalRead(c, n + 1) = GlobalRead(c, n)
      BY <2>3, GlobalNext
    <3>3. QED BY <1>1, <2>1, <3>1, <3>2 DEF HasRead
  <2>4. QED BY <2>2, <2>3
<1>5. QED BY <1>3, <1>4

(* Before the first token. *)
LEMMA ReadNone ==
  ASSUME NEW S, NEW c \in Seq(S)
  PROVE  HasRead(c, 1, no_log)
<1>1. \A k : Before(c, k, 1) = {}
  <2>1. DOMAIN c = 1 .. Len(c) /\ Len(c) \in Nat
    BY LenProperties
  <2>2. \A i \in DOMAIN c : ~(i < 1)
    BY <2>1
  <2>3. QED BY <2>2 DEF Before, LevelTokens
<1>2. GlobalRead(c, 1) = NULL
  BY <1>1 DEF GlobalRead
<1>3. Earlier(c, 1) = 0
  BY <1>1, FS_EmptySet DEF Earlier
<1>4. PICK o : o = <<>>
  OBVIOUS
<1>5. o \in Seq({OverrideOf(c, i) : i \in DOMAIN c}) /\ Len(o) = 0
  BY <1>4, EmptySeq
<1>6. Len(o) = IF Earlier(c, 1) < MAX_OVERRIDES THEN Earlier(c, 1) ELSE MAX_OVERRIDES
  BY <1>3, <1>5, BootAssumption
<1>7. OverridesRead(c, 1, o)
  BY <1>1, <1>5, <1>6 DEF OverridesRead
<1>8. QED BY <1>2, <1>4, <1>7 DEF HasRead, no_log

(* The whole command line read. *)
LEMMA ReadAll ==
  ASSUME NEW S, NEW c \in Seq(S), c # NULL
  PROVE  HasRead(c, Len(c) + 1, log_init(no_log, c))
<1>1. Len(c) \in Nat
  BY LenProperties
<1>2. PICK a : Run(a, no_log, c, Len(c)) /\ log_init(no_log, c) = a[Len(c)]
  BY <1>1, InitIsRun
<1> DEFINE Bad == {n \in Nat : n <= Len(c) /\ ~HasRead(c, n + 1, a[n])}
<1> SUFFICES ASSUME Bad # {} PROVE FALSE
  BY <1>1, <1>2
<1>3. PICK n \in Bad : \A y \in Bad : n <= y
  <2>1. Bad \in SUBSET Nat
    OBVIOUS
  <2> HIDE DEF Bad
  <2>2. QED BY <2>1, LeastNumber
<1>4. n \in 0 .. Len(c) /\ n \in Nat
  BY <1>1, <1>3
<1>5. a[n] = IF n = 0 THEN no_log ELSE log_token(a[n - 1], c[n])
  BY <1>2, <1>4 DEF Run
<1>6. CASE n = 0
  <2>1. HasRead(c, 1, no_log)
    BY ReadNone
  <2>2. n + 1 = 1
    BY <1>6
  <2>3. QED BY <1>3, <1>5, <1>6, <2>1, <2>2
<1>7. CASE n # 0
  <2>1. n - 1 \in Nat /\ n - 1 <= Len(c) /\ ~(n <= n - 1) /\ n - 1 + 1 = n /\ n \in 1 .. Len(c)
    BY <1>1, <1>4, <1>7
  <2>2. HasRead(c, n, a[n - 1])
    BY <1>3, <2>1
  <2>3. HasRead(c, n + 1, log_token(a[n - 1], c[n]))
    BY <2>1, <2>2, ReadNext
  <2>4. QED BY <1>3, <1>5, <1>7, <2>3
<1>8. QED BY <1>6, <1>7

----------------------------------------------------------------------------
(* The level log.c gives a new tag. *)
NewLevel(l, name) ==
  apply_overrides(l.overrides, name, IF l.global # NULL THEN l.global ELSE LOG_INFO)

(* The first override that names a tag is the first kept one that does. *)
LEMMA FirstOverride ==
  ASSUME NEW S, NEW c \in Seq(S), NEW o, OverridesRead(c, Len(c) + 1, o), NEW name, NEW v
  PROVE  LET naming == {i \in LevelTokens(c, "log.") : c[i].tag = name /\ Earlier(c, i) < MAX_OVERRIDES}
         IN  apply_overrides(o, name, v) =
               IF naming = {} THEN v ELSE parse_level(c[Min(naming)].value)
<1> DEFINE naming == {i \in LevelTokens(c, "log.") : c[i].tag = name /\ Earlier(c, i) < MAX_OVERRIDES}
           N == Naming(o, name)
<1>0. MAX_OVERRIDES \in Nat /\ DOMAIN c = 1 .. Len(c) /\ Len(c) \in Nat
  BY BootAssumption, LenProperties
<1>1. Before(c, "log.", Len(c) + 1) = LevelTokens(c, "log.")
  <2>1. \A i \in LevelTokens(c, "log.") : i < Len(c) + 1
    BY <1>0 DEF LevelTokens
  <2>2. QED BY <2>1 DEF Before
<1>2. /\ o \in Seq({OverrideOf(c, i) : i \in DOMAIN c})
      /\ \A i \in LevelTokens(c, "log.") : Earlier(c, i) < MAX_OVERRIDES => o[Earlier(c, i) + 1] = OverrideOf(c, i)
      /\ \A k \in 1 .. Len(o) : \E i \in LevelTokens(c, "log.") : Earlier(c, i) + 1 = k
      /\ Len(o) = IF Earlier(c, Len(c) + 1) < MAX_OVERRIDES THEN Earlier(c, Len(c) + 1) ELSE MAX_OVERRIDES
  BY <1>1 DEF OverridesRead
<1>3. DOMAIN o = 1 .. Len(o) /\ Len(o) \in Nat
  BY <1>2, LenProperties
<1>4. ASSUME NEW i \in naming
      PROVE  Earlier(c, i) + 1 \in N /\ o[Earlier(c, i) + 1] = OverrideOf(c, i) /\ i \in 1 .. Len(c)
             /\ Earlier(c, i) \in Nat
  <2>1. i \in 1 .. Len(c) /\ i \in LevelTokens(c, "log.") /\ Earlier(c, i) < MAX_OVERRIDES /\ c[i].tag = name
    BY <1>0 DEF LevelTokens
  <2>2. i \in 1 .. Len(c) + 1 /\ i + 1 \in 1 .. Len(c) + 1 /\ i <= Len(c)
        /\ Len(c) + 1 \in 1 .. Len(c) + 1 /\ i + 1 <= Len(c) + 1
    BY <1>0, <2>1
  <2>3. Earlier(c, i) \in Nat /\ Earlier(c, i + 1) = Earlier(c, i) + 1
    BY <2>1, <2>2, EarlierIs
  <2>4. Earlier(c, i + 1) <= Earlier(c, Len(c) + 1) /\ Earlier(c, Len(c) + 1) \in Nat
    BY <2>2, EarlierIs
  <2>5. Earlier(c, i) + 1 \in 1 .. Len(o)
    BY <1>0, <1>2, <2>1, <2>3, <2>4
  <2>6. o[Earlier(c, i) + 1] = OverrideOf(c, i)
    BY <1>2, <2>1
  <2>7. QED BY <1>3, <2>1, <2>3, <2>5, <2>6 DEF Naming, OverrideOf
<1>5. ASSUME NEW k \in N PROVE \E i \in naming : Earlier(c, i) + 1 = k
  <2>1. k \in 1 .. Len(o) /\ o[k].tag = name
    BY <1>3 DEF Naming
  <2>2. PICK i \in LevelTokens(c, "log.") : Earlier(c, i) + 1 = k
    BY <1>2, <2>1
  <2>3. i \in 1 .. Len(c) + 1
    BY <1>0 DEF LevelTokens
  <2>4. Earlier(c, i) \in Nat
    BY <2>3, EarlierIs
  <2>5. Len(o) <= MAX_OVERRIDES
    <3>1. Len(c) + 1 \in 1 .. Len(c) + 1
      BY <1>0
    <3>2. Earlier(c, Len(c) + 1) \in Nat
      BY <3>1, EarlierIs
    <3>3. QED BY <1>0, <1>2, <3>2
  <2>6. Earlier(c, i) < MAX_OVERRIDES
    BY <1>0, <1>3, <2>1, <2>2, <2>4, <2>5
  <2>7. o[k] = OverrideOf(c, i)
    BY <1>2, <2>2, <2>6
  <2>8. c[i].tag = name
    BY <2>1, <2>7 DEF OverrideOf
  <2>9. QED BY <2>2, <2>6, <2>8
<1>6. naming \in SUBSET Nat /\ N \in SUBSET Nat
  BY <1>0, <1>3 DEF LevelTokens, Naming
<1> HIDE DEF naming, N
<1>7. CASE naming = {}
  <2>1. N = {}
    BY <1>5, <1>7
  <2>2. QED BY <1>7, <2>1 DEF apply_overrides, N, naming
<1>8. CASE naming # {}
  <2>1. PICK m \in naming : m = Min(naming) /\ \A i \in naming : m <= i
    BY <1>6, <1>8, MinIs
  <2>2. PICK q : q = Earlier(c, m) + 1
    OBVIOUS
  <2>3. q \in N /\ o[q] = OverrideOf(c, m) /\ m \in 1 .. Len(c)
    BY <1>4, <2>2
  <2>4. ASSUME NEW k \in N PROVE q <= k
    <3>1. PICK i \in naming : Earlier(c, i) + 1 = k
      BY <1>5
    <3>2. m \in 1 .. Len(c) + 1 /\ i \in 1 .. Len(c) + 1 /\ m <= i
      BY <1>0, <1>4, <2>1
    <3>3. Earlier(c, m) <= Earlier(c, i) /\ Earlier(c, m) \in Nat /\ Earlier(c, i) \in Nat
      BY <3>2, EarlierIs
    <3>4. QED BY <2>2, <3>1, <3>3
  <2>5. Min(N) \in N /\ Min(N) <= q
    BY <1>6, <2>3, MinIs
  <2>6. Min(N) = q
    <3>1. PICK x \in N : x = Min(N)
      BY <2>5
    <3>2. x \in Nat /\ q \in Nat /\ x <= q /\ q <= x
      BY <1>6, <2>3, <2>4, <2>5, <3>1
    <3>3. QED BY <3>1, <3>2
  <2>7. N # {}
    BY <2>3
  <2>8. apply_overrides(o, name, v) = o[q].level
    BY <2>6, <2>7 DEF apply_overrides, N
  <2>9. o[q].level = parse_level(c[m].value)
    BY <2>3 DEF OverrideOf
  <2>10. QED BY <1>8, <2>1, <2>8, <2>9 DEF naming
<1>9. QED BY <1>7, <1>8

(* After log_init a new tag gets the level the command line gives it. *)
LEMMA LevelRead ==
  ASSUME NEW S, NEW c \in Seq(S), c # NULL, NEW l, HasRead(c, Len(c) + 1, l), NEW name
  PROVE  NewLevel(l, name) = CommandLineLevel(c, name)
<1> DEFINE naming == {i \in LevelTokens(c, "log.") : c[i].tag = name /\ Earlier(c, i) < MAX_OVERRIDES}
           G == LevelTokens(c, "log")
<1>0. DOMAIN c = 1 .. Len(c) /\ Len(c) \in Nat
  BY LenProperties
<1>1. PICK o : /\ l = [tags |-> <<>>, global |-> GlobalRead(c, Len(c) + 1), overrides |-> o]
               /\ OverridesRead(c, Len(c) + 1, o)
  BY DEF HasRead
<1>2. PICK v : v = IF l.global # NULL THEN l.global ELSE LOG_INFO
  OBVIOUS
<1>3. NewLevel(l, name) = IF naming = {} THEN v ELSE parse_level(c[Min(naming)].value)
  <2>1. l.overrides = o
    BY <1>1
  <2>2. NewLevel(l, name) = apply_overrides(o, name, v)
    BY <1>2, <2>1 DEF NewLevel
  <2>3. QED BY <1>1, <2>2, FirstOverride
<1>4. l.global = IF G = {} THEN NULL ELSE parse_level(c[Max(G)].value)
  <2>1. \A i \in G : i < Len(c) + 1
    BY <1>0 DEF LevelTokens
  <2>2. Before(c, "log", Len(c) + 1) = G
    BY <2>1 DEF Before
  <2>3. QED BY <1>1, <2>2 DEF GlobalRead
<1>5. v = IF G = {} THEN LOG_INFO ELSE parse_level(c[Max(G)].value)
  <2>1. ASSUME G # {} PROVE parse_level(c[Max(G)].value) # NULL
    <3>1. G \in SUBSET (1 .. Len(c))
      BY <1>0 DEF LevelTokens
    <3>2. Max(G) \in G
      BY <1>0, <2>1, <3>1, MaxIs
    <3>3. QED BY <3>2 DEF LevelTokens
  <2>2. QED BY <1>2, <1>4, <2>1
<1>6. CommandLineLevel(c, name) =
        CASE naming # {} -> parse_level(c[Min(naming)].value)
          [] naming = {} /\ G # {} -> parse_level(c[Max(G)].value)
          [] OTHER -> LOG_INFO
  <2>1. PICK level : level = [i \in DOMAIN c |-> parse_level(c[i].value)]
    OBVIOUS
  <2>2. \A k : {i \in DOMAIN c : c[i].key = k /\ level[i] # NULL} = LevelTokens(c, k)
    BY <2>1 DEF LevelTokens
  <2>3. \A i : {j \in LevelTokens(c, "log.") : j < i} = Before(c, "log.", i)
    BY DEF Before
  <2>4. naming = {i \in LevelTokens(c, "log.") : c[i].tag = name /\ Cardinality(Before(c, "log.", i)) < MAX_OVERRIDES}
    BY DEF Earlier
  <2>5. naming \in SUBSET Nat /\ G \in SUBSET (1 .. Len(c)) /\ naming \subseteq DOMAIN c
    BY <1>0 DEF LevelTokens
  <2>6. CommandLineLevel(c, name) =
        CASE naming # {} -> level[Min(naming)]
          [] naming = {} /\ G # {} -> level[Max(G)]
          [] OTHER -> LOG_INFO
    <3>1. PICK tokens : tokens = IF c = NULL THEN <<>> ELSE c
      OBVIOUS
    <3>2. tokens = c
      BY <3>1
    <3> DEFINE W(k) == {i \in DOMAIN tokens : tokens[i].key = k /\ level[i] # NULL}
               E(i) == {j \in W("log.") : j < i}
               M == {i \in W("log.") : tokens[i].tag = name /\ Cardinality(E(i)) < MAX_OVERRIDES}
    <3>3. level = [i \in DOMAIN tokens |-> parse_level(tokens[i].value)]
      BY <2>1, <3>2
    <3>4. CommandLineLevel(c, name) =
            CASE M # {} -> level[Min(M)]
              [] M = {} /\ W("log") # {} -> level[Max(W("log"))]
              [] OTHER -> LOG_INFO
      BY <3>1, <3>3, Zenon DEF CommandLineLevel
    <3>5. \A k : W(k) = LevelTokens(c, k)
      BY <2>2, <3>2
    <3> HIDE DEF W
    <3>6. \A i : E(i) = Before(c, "log.", i)
      BY <2>3, <3>5
    <3> HIDE DEF E
    <3>7. M = naming
      BY <2>4, <3>2, <3>5, <3>6
    <3> HIDE DEF M, naming
    <3>8. QED BY <3>4, <3>5, <3>7
  <2>7. naming # {} => level[Min(naming)] = parse_level(c[Min(naming)].value)
    BY <2>1, <2>5, MinIs
  <2>8. G # {} => level[Max(G)] = parse_level(c[Max(G)].value)
    BY <1>0, <2>1, <2>5, MaxIs
  <2> HIDE DEF naming, G
  <2>9. QED BY <2>6, <2>7, <2>8
<1> HIDE DEF naming, G
<1>7. QED BY <1>3, <1>5, <1>6

(* A state of log.c that gives every tag its level: those it has, and      *)
(* those to come.                                                          *)
Levelled(l, c) ==
  /\ \E t, g, o : l = [tags |-> t, global |-> g, overrides |-> o]
  /\ \E T : l.tags \in Seq(T)
  /\ \A name : NewLevel(l, name) = CommandLineLevel(c, name)
  /\ \A i \in DOMAIN l.tags : l.tags[i].level = CommandLineLevel(c, l.tags[i].name)

(* A tag is registered, or there is no room. *)
HasTag(l, name) ==
  Len(l.tags) = MAX_LOG_TAGS \/ \E i \in DOMAIN l.tags : l.tags[i].name = name

(* log_init leaves such a state, whatever the command line. *)
LEMMA InitLevelled ==
  ASSUME NEW c \in CmdLines
  PROVE  Levelled(log_init(no_log, c), c)
<1>1. CASE c = NULL
  <2>1. log_init(no_log, c) = no_log
    BY <1>1 DEF log_init
  <2>2. ASSUME NEW name PROVE NewLevel(no_log, name) = LOG_INFO
    <3>1. no_log.overrides = <<>> /\ no_log.global = NULL /\ DOMAIN <<>> = {}
      BY DEF no_log
    <3>2. Naming(no_log.overrides, name) = {}
      BY <3>1 DEF Naming
    <3>3. QED BY <3>1, <3>2 DEF NewLevel, apply_overrides
  <2>3. ASSUME NEW name PROVE CommandLineLevel(c, name) = LOG_INFO
    <3>1. PICK tokens : tokens = IF c = NULL THEN <<>> ELSE c
      OBVIOUS
    <3>2. tokens = <<>> /\ DOMAIN tokens = {}
      BY <1>1, <3>1
    <3> DEFINE level == [i \in DOMAIN tokens |-> parse_level(tokens[i].value)]
               W(k) == {i \in DOMAIN tokens : tokens[i].key = k /\ level[i] # NULL}
               E(i) == {j \in W("log.") : j < i}
               M == {i \in W("log.") : tokens[i].tag = name /\ Cardinality(E(i)) < MAX_OVERRIDES}
    <3>3. CommandLineLevel(c, name) =
            CASE M # {} -> level[Min(M)]
              [] M = {} /\ W("log") # {} -> level[Max(W("log"))]
              [] OTHER -> LOG_INFO
      BY <3>1, Zenon DEF CommandLineLevel
    <3>4. M = {} /\ W("log") = {}
      BY <3>2
    <3> HIDE DEF M, W, level
    <3>5. QED BY <3>3, <3>4
  <2>4. no_log.tags = <<>> /\ DOMAIN no_log.tags = {} /\ <<>> \in Seq({})
    BY DEF no_log
  <2>5. QED BY <2>1, <2>2, <2>3, <2>4 DEF Levelled, no_log
<1>2. CASE c # NULL
  <2>1. c \in Seq(Range(c))
    BY <1>2, BootAssumption
  <2>2. PICK l : l = log_init(no_log, c)
    OBVIOUS
  <2>3. HasRead(c, Len(c) + 1, l)
    BY <1>2, <2>1, <2>2, ReadAll
  <2>4. PICK o : l = [tags |-> <<>>, global |-> GlobalRead(c, Len(c) + 1), overrides |-> o]
    BY <2>3 DEF HasRead
  <2>5. \A name : NewLevel(l, name) = CommandLineLevel(c, name)
    BY <1>2, <2>1, <2>3, LevelRead
  <2>6. l.tags = <<>> /\ DOMAIN l.tags = {} /\ <<>> \in Seq({})
    BY <2>4
  <2>7. Levelled(l, c)
    BY <2>4, <2>5, <2>6 DEF Levelled
  <2>8. QED BY <2>2, <2>7
<1>3. QED BY <1>1, <1>2

(* log_register gives a tag its level, and keeps the others. *)
LEMMA RegisterLevelled ==
  ASSUME NEW l, NEW c, Levelled(l, c), NEW name
  PROVE  LET m == log_register(l, name, LOG_INFO)
         IN  Levelled(m, c) /\ HasTag(m, name) /\ \A x : HasTag(l, x) => HasTag(m, x)
<1> DEFINE m == log_register(l, name, LOG_INFO)
<1>1. CASE Len(l.tags) = MAX_LOG_TAGS
  <2>1. m = l
    BY <1>1 DEF log_register
  <2> HIDE DEF m
  <2>2. Levelled(m, c) /\ HasTag(m, name) /\ \A x : HasTag(l, x) => HasTag(m, x)
    BY <1>1, <2>1 DEF HasTag
  <2>3. QED BY <2>2 DEF m
<1>2. CASE Len(l.tags) # MAX_LOG_TAGS
  <2>1. PICK t, g, o : l = [tags |-> t, global |-> g, overrides |-> o]
    BY DEF Levelled
  <2>2. PICK T : t \in Seq(T)
    BY <2>1 DEF Levelled
  <2>3. PICK e : e = [name |-> name, level |-> NewLevel(l, name)]
    OBVIOUS
  <2>4. PICK u : u = Append(t, e)
    OBVIOUS
  <2>5. m = [tags |-> u, global |-> g, overrides |-> o]
    <3>1. m = [l EXCEPT !.tags = Append(l.tags, e)]
      BY <1>2, <2>3 DEF log_register, NewLevel
    <3>2. QED BY <2>1, <2>4, <3>1
  <2> HIDE DEF m
  <2>6. t \in Seq(T \cup {e})
    BY <2>2, SeqDef
  <2>7. /\ u \in Seq(T \cup {e}) /\ Len(u) = Len(t) + 1 /\ u[Len(t) + 1] = e /\ Len(t) \in Nat
        /\ \A i \in 1 .. Len(t) : u[i] = t[i]
    BY <2>4, <2>6, AppendProperties, LenProperties
  <2>8. DOMAIN u = 1 .. Len(t) + 1 /\ DOMAIN t = 1 .. Len(t)
    BY <2>6, <2>7, LenProperties
  <2>9. m.tags = u /\ m.global = g /\ m.overrides = o /\ l.tags = t /\ l.global = g /\ l.overrides = o
    BY <2>1, <2>5
  <2>10. \A x : NewLevel(m, x) = NewLevel(l, x)
    BY <2>9 DEF NewLevel
  <2>11. \A x : NewLevel(l, x) = CommandLineLevel(c, x)
    BY DEF Levelled
  <2>12. ASSUME NEW i \in DOMAIN u PROVE u[i].level = CommandLineLevel(c, u[i].name)
    <3>1. CASE i = Len(t) + 1
      <4>1. u[i] = e /\ e.name = name /\ e.level = NewLevel(l, name)
        BY <2>3, <2>7, <3>1
      <4>2. QED BY <2>11, <4>1
    <3>2. CASE i # Len(t) + 1
      <4>1. i \in 1 .. Len(t)
        BY <2>7, <2>8, <3>2
      <4>2. QED BY <2>7, <2>8, <2>9, <4>1 DEF Levelled
    <3>3. QED BY <3>1, <3>2
  <2>13. Levelled(m, c)
    BY <2>5, <2>7, <2>9, <2>10, <2>11, <2>12 DEF Levelled
  <2>14. HasTag(m, name)
    <3>1. Len(t) + 1 \in DOMAIN u /\ u[Len(t) + 1].name = name
      BY <2>3, <2>7, <2>8
    <3>2. QED BY <2>9, <3>1 DEF HasTag
  <2>15. ASSUME NEW x, HasTag(l, x) PROVE HasTag(m, x)
    <3>1. PICK i \in DOMAIN t : t[i].name = x
      BY <1>2, <2>9, <2>15 DEF HasTag
    <3>2. i \in DOMAIN u /\ u[i].name = x
      BY <2>7, <2>8, <3>1
    <3>3. QED BY <2>9, <3>2 DEF HasTag
  <2>16. QED BY <2>13, <2>14, <2>15 DEF m
<1>3. QED BY <1>1, <1>2

(* So does a registration that is made once. *)
LEMMA OnceLevelled ==
  ASSUME NEW l, NEW c, Levelled(l, c), NEW name
  PROVE  LET m == register_once(l, name)
         IN  Levelled(m, c) /\ HasTag(m, name) /\ \A x : HasTag(l, x) => HasTag(m, x)
<1>1. CASE \E i \in DOMAIN l.tags : l.tags[i].name = name
  <2>1. register_once(l, name) = l /\ HasTag(l, name)
    BY <1>1 DEF register_once, HasTag
  <2>2. QED BY <2>1
<1>2. CASE ~\E i \in DOMAIN l.tags : l.tags[i].name = name
  <2>1. register_once(l, name) = log_register(l, name, LOG_INFO)
    BY <1>2 DEF register_once
  <2>2. QED BY <2>1, RegisterLevelled
<1>3. QED BY <1>1, <1>2

----------------------------------------------------------------------------
(* The boot: what log.c has at each point of it. *)

Tagged(drv) == drv = "virtio-rng" \/ HasTag(log, drv)

LogInv ==
  /\ cmdline \in CmdLines
  /\ IF pc = "kernel_main"
       THEN log = no_log /\ live = [d \in Devices |-> NULL] /\ call = NULL
       ELSE Levelled(log, cmdline)
  /\ \A d \in Devices : live[d] # NULL => Tagged(live[d].driver)
  /\ Initialising => Tagged(call.driver)

(* A step keeps it when the tags stay, the levels are right and a device   *)
(* begins to work only for a driver that has its tag.                      *)
LEMMA LogStep ==
  ASSUME LogInv, cmdline' = cmdline, pc' # "kernel_main",
         Levelled(log', cmdline), \A x : HasTag(log, x) => HasTag(log', x),
         \A d \in Devices : \/ live'[d] = live[d]
                            \/ live'[d].driver = "virtio-rng"
                            \/ HasTag(log', live'[d].driver),
         Initialising' => call'.driver = "virtio-rng" \/ HasTag(log', call'.driver)
  PROVE  LogInv'
<1>1. ASSUME NEW d \in Devices, live'[d] # NULL PROVE Tagged(live[d].driver)'
  BY <1>1 DEF LogInv, Tagged
<1>2. Initialising' => Tagged(call.driver)'
  BY DEF Tagged
<1>3. QED BY <1>1, <1>2 DEF LogInv

(* Where the boot begins. *)
LEMMA LogInitInv == BootInit => LogInv
<1> SUFFICES ASSUME BootInit PROVE LogInv
  OBVIOUS
<1>1. log = no_log /\ live = [d \in Devices |-> NULL] /\ call = NULL /\ pc = "kernel_main"
  BY DEF BootInit, Init
<1>2. cmdline \in CmdLines
  BY DEF BootInit
<1>3. QED BY <1>1, <1>2 DEF LogInv, Initialising

(* kernel_main starts logging. *)
LEMMA StartLoggingLog == LogInv /\ StartLogging => LogInv'
<1> SUFFICES ASSUME LogInv, StartLogging PROVE LogInv'
  OBVIOUS
<1>1. /\ cmdline \in CmdLines /\ log = no_log /\ call = NULL /\ pc' = "scan" /\ cmdline' = cmdline
      /\ live = [d \in Devices |-> NULL] /\ live' = live /\ call' = call
  BY DEF StartLogging, LogInv, vars
<1>2. Levelled(log_init(no_log, cmdline), cmdline)
  BY <1>1, InitLevelled
<1>3. Levelled(log', cmdline)
  BY <1>1, <1>2, RegisterLevelled DEF StartLogging
<1>4. QED BY <1>1, <1>3 DEF LogInv, Initialising

(* Steps of the applications, and calls of the manager. *)
LEMMA QuietLog ==
  ASSUME LogInv, pc # "kernel_main", pc' # "kernel_main", cmdline' = cmdline, log' = log,
         live' = live, Initialising' => call' = call
  PROVE  LogInv'
<1>1. Levelled(log, cmdline) /\ Levelled(log', cmdline)
  BY DEF LogInv
<1>2. Initialising' => Initialising
  BY DEF Initialising
<1>3. Initialising' => call'.driver = "virtio-rng" \/ HasTag(log', call'.driver)
  BY <1>2 DEF LogInv, Tagged
<1>4. QED BY <1>1, <1>3, LogStep

(* A device begins to work. *)
LEMMA DoneLog ==
  ASSUME LogInv, TypeOK, InitDone, pc # "kernel_main", pc' # "kernel_main", cmdline' = cmdline,
         log' = log
  PROVE  LogInv'
<1>1. Levelled(log', cmdline)
  BY DEF LogInv
<1>2. Tagged(call.driver) /\ ~Initialising'
  BY DEF LogInv, InitDone, Initialising
<1>3. ASSUME NEW d \in Devices
      PROVE  \/ live'[d] = live[d]
             \/ live'[d].driver = "virtio-rng"
             \/ HasTag(log', live'[d].driver)
  <2>1. live'[d] = live[d] \/ live'[d] = [driver |-> call.driver, context |-> call.context]
    BY DEF InitDone, TypeOK
  <2>2. live'[d] = live[d] \/ live'[d].driver = call.driver
    BY <2>1
  <2>3. QED BY <1>2, <2>2 DEF Tagged
<1>4. QED BY <1>1, <1>2, <1>3, LogStep

(* Every step of a boot. *)
LEMMA LogNext == BInv /\ LogInv /\ [BootNext]_allvars => LogInv'
<1> SUFFICES ASSUME BInv, LogInv, [BootNext]_allvars PROVE LogInv'
  OBVIOUS
<1>0. TypeOK
  BY DEF BInv, IInv
<1>1. CASE StartLogging
  BY <1>1, StartLoggingLog
<1>2. CASE UNCHANGED allvars
  <2>1. UNCHANGED <<cmdline, pc, log, live, call>>
    BY <1>2 DEF allvars, bootvars, vars
  <2>2. QED BY <2>1 DEF LogInv, Tagged, Initialising
<1>3. CASE \/ Halt \/ ExceptionHalt \/ IllegalInstruction \/ UnknownApp \/ RandomSoftware \/ RunOnce \/ Serve
           \/ PacketPrint \/ random_get_bytes \/ SkipDriver \/ AcquiredAll
  <2>1. pc # "kernel_main" /\ pc' # "kernel_main" /\ UNCHANGED <<vars, cmdline, log>>
    BY <1>3 DEF Halt, ExceptionHalt, IllegalInstruction, UnknownApp, RandomSoftware, RunOnce, Serve, PacketPrint,
       random_get_bytes, SkipDriver, AcquiredAll, Looping, NextApp, GoTo
  <2>2. live' = live /\ call' = call
    BY <2>1 DEF vars
  <2>3. QED BY <2>1, <2>2, QuietLog
<1>4. CASE RandomHardware \/ MacApp \/ TryDriver
  <2>1. pc # "kernel_main" /\ pc' # "kernel_main" /\ UNCHANGED <<cmdline, log>>
    BY <1>4 DEF RandomHardware, MacApp, TryDriver, Looping, NextApp, GoTo
  <2>2. UNCHANGED vars \/ \E drv, ctx : resource_acquire_available(drv, ctx)
    BY <1>4 DEF RandomHardware, MacApp, TryDriver
  <2>3. live' = live /\ (Initialising' => call' = call)
    BY <2>2 DEF vars, resource_acquire_available, Initialising
  <2>4. QED BY <2>1, <2>3, QuietLog
<1>5. CASE NotAcquired
  <2>1. pc # "kernel_main" /\ pc' # "kernel_main" /\ UNCHANGED <<cmdline, log>>
    BY <1>5 DEF NotAcquired, NextApp, GoTo
  <2>2. live' = live /\ call' = NULL
    BY <1>5 DEF NotAcquired, NoSlot, NotFound
  <2>3. QED BY <2>1, <2>2, QuietLog DEF Initialising
<1>6. CASE NetdevAcquired \/ MacAcquired \/ RandomAcquired
  <2>1. pc # "kernel_main" /\ pc' # "kernel_main" /\ UNCHANGED <<cmdline, log>> /\ InitDone
    BY <1>6 DEF NetdevAcquired, MacAcquired, RandomAcquired, NextApp, GoTo
  <2>2. QED BY <1>0, <2>1, DoneLog
<1>7. CASE StartApps \/ NetworkApp
  <2>1. pc # "kernel_main" /\ pc' # "kernel_main" /\ UNCHANGED <<vars, cmdline>>
    BY <1>7 DEF StartApps, NetworkApp, GoTo
  <2>2. live' = live /\ call' = call /\ Levelled(log, cmdline)
    BY <2>1 DEF vars, LogInv
  <2>3. log' = log \/ \E name : log' = log_register(log, name, LOG_INFO)
    BY <1>7 DEF StartApps, NetworkApp
  <2>4. Levelled(log', cmdline) /\ \A x : HasTag(log, x) => HasTag(log', x)
    BY <2>2, <2>3, RegisterLevelled
  <2>5. Initialising' => call'.driver = "virtio-rng" \/ HasTag(log', call'.driver)
    BY <2>2, <2>4 DEF LogInv, Tagged, Initialising
  <2>6. QED BY <2>1, <2>2, <2>4, <2>5, LogStep
<1>8. CASE ScanDevices
  <2>1. pc # "kernel_main" /\ pc' # "kernel_main" /\ cmdline' = cmdline /\ live' = live
        /\ call = NULL /\ call' = call
    BY <1>8 DEF ScanDevices, resources_set_devices
  <2>2. Levelled(log, cmdline)
    BY <2>1 DEF LogInv
  <2>3. PICK m : m = register_once(log, "devices")
    OBVIOUS
  <2>4. Levelled(m, cmdline) /\ \A x : HasTag(log, x) => HasTag(m, x)
    BY <2>2, <2>3, OnceLevelled
  <2>5. log' = register_once(m, "pci")
    BY <1>8, <2>3 DEF ScanDevices
  <2>6. Levelled(log', cmdline) /\ \A x : HasTag(m, x) => HasTag(log', x)
    BY <2>4, <2>5, OnceLevelled
  <2>7. QED BY <2>1, <2>4, <2>6, LogStep DEF Initialising
<1>9. CASE ManagerStep
  <2>1. pc = "acquire" /\ pc' = pc /\ cmdline' = cmdline
    BY <1>9 DEF ManagerStep
  <2>2. CASE SkipDevice \/ InitFailed
    <3>1. log' = log \/ StartInit
      BY <1>9 DEF ManagerStep
    <3>2. live' = live
      BY <2>2 DEF SkipDevice, InitFailed
    <3>3. ~StartInit
      BY <2>2 DEF StartInit, SkipDevice, InitFailed, Scanning, Candidate, Initialising
    <3>4. ~Initialising'
      <4>1. call'.slot = NULL
        BY <1>0, <2>2 DEF SkipDevice, InitFailed, Scanning, Initialising, TypeOK, CallType
      <4>2. QED BY <4>1 DEF Initialising
    <3>5. QED BY <2>1, <3>1, <3>2, <3>3, <3>4, QuietLog
  <2>3. CASE StartInit
    <3>1. /\ live' = live /\ call'.driver = call.driver /\ Levelled(log, cmdline)
      BY <1>0, <2>1, <2>3 DEF StartInit, Scanning, TypeOK, CallType, LogInv
    <3>2. ~SkipDevice /\ ~InitFailed
      BY <2>3 DEF StartInit, SkipDevice, InitFailed, Scanning, Candidate, Initialising
    <3>3. log' = IF call.driver = "virtio-rng" THEN log ELSE register_once(log, call.driver)
      BY <1>9, <3>2 DEF ManagerStep
    <3>4. /\ Levelled(log', cmdline) /\ \A x : HasTag(log, x) => HasTag(log', x)
          /\ call.driver = "virtio-rng" \/ HasTag(log', call.driver)
      BY <3>1, <3>3, OnceLevelled
    <3>5. QED BY <2>1, <3>1, <3>4, LogStep
  <2>4. QED BY <1>9, <2>2, <2>3 DEF ManagerStep
<1>10. QED
  BY <1>1, <1>2, <1>3, <1>4, <1>5, <1>6, <1>7, <1>8, <1>9 DEF BootNext

(* docs/logging.md: "Tags registered after log_init() still respect any    *)
(* pending command line overrides".  Whatever the command line and the     *)
(* order of the registrations, every tag has the level the command line    *)
(* gives it, and a driver with a working device has its tag, if there is   *)
(* room.                                                                   *)
THEOREM TagsLevelled == BootSpec => []TagLevels
<1>1. BInv /\ LogInv => TagLevels
  <2> SUFFICES ASSUME BInv, LogInv PROVE TagLevels
    OBVIOUS
  <2>1. \A i \in DOMAIN log.tags : log.tags[i].level = CommandLineLevel(cmdline, log.tags[i].name)
    <3>1. CASE pc = "kernel_main"
      <4>1. DOMAIN log.tags = {}
        BY <3>1 DEF LogInv, no_log
      <4>2. QED BY <4>1
    <3>2. CASE pc # "kernel_main"
      BY <3>2 DEF LogInv, Levelled
    <3>3. QED BY <3>1, <3>2
  <2>2. \A d \in Devices : live[d] # NULL /\ live[d].driver # "virtio-rng" => HasTag(log, live[d].driver)
    BY DEF LogInv, Tagged
  <2>3. QED BY <2>1, <2>2 DEF TagLevels, HasTag
<1>2. BInv /\ LogInv /\ [BootNext]_allvars => LogInv'
  BY LogNext
<1>3. QED BY <1>1, <1>2, LogInitInv, BootInvariant, PTL DEF BootSpec

----------------------------------------------------------------------------
(***************************************************************************)
(* The HTTP server.  First the lengths of what it sends.                   *)
(***************************************************************************)
(* The server knows nothing of a text but its length. *)
LEMMA TextIs ==
  ASSUME NEW n \in Nat
  PROVE  Text(n) \in Seq(Byte) /\ Len(Text(n)) = n
BY DEF Text, Byte

(* Joining sequences of bytes. *)
LEMMA Joined ==
  ASSUME NEW s \in Seq(Byte), NEW t \in Seq(Byte)
  PROVE  s \o t \in Seq(Byte) /\ Len(s \o t) = Len(s) + Len(t)
OBVIOUS

(* And of three. *)
LEMMA Joined3 ==
  ASSUME NEW s \in Seq(Byte), NEW t \in Seq(Byte), NEW u \in Seq(Byte)
  PROVE  s \o t \o u \in Seq(Byte) /\ Len(s \o t \o u) = Len(s) + Len(t) + Len(u)
<1>1. s \o t \in Seq(Byte) /\ Len(s \o t) = Len(s) + Len(t)
  BY Joined
<1> DEFINE v == s \o t
<1> HIDE DEF v
<1>2. v \in Seq(Byte) => v \o u \in Seq(Byte) /\ Len(v \o u) = Len(v) + Len(u)
  BY Joined
<1>3. QED BY <1>1, <1>2 DEF v

(* Sequences of up to two elements. *)
LEMMA Short ==
  ASSUME NEW S, NEW x \in S, NEW y \in S
  PROVE  Append(<<>>, x) = <<x>> /\ Append(<<x>>, y) = <<x, y>>
<1>1. <<x>> \in Seq(S) /\ Len(<<x>>) = 1 /\ <<>> \in Seq(S) /\ Len(<<>>) = 0
  OBVIOUS
<1>2. Append(<<>>, x) = <<x>>
  OBVIOUS
<1>3. <<x, y>> \in Seq(S) /\ Len(<<x, y>>) = 2
  OBVIOUS
<1> DEFINE a == Append(<<x>>, y)
<1>4. a \in Seq(S) /\ Len(a) = 2 /\ a[1] = x /\ a[2] = y
  BY <1>1, AppendProperties
<1> HIDE DEF a
<1>5. a = <<x, y>>
  BY <1>3, <1>4, SeqEqual
<1>6. QED BY <1>2, <1>5 DEF a

(* A byte is written with one to three digits. *)
LEMMA DecimalIs ==
  ASSUME NEW v \in Byte
  PROVE  write_decimal_u8(v) \in Seq(Byte) /\ Len(write_decimal_u8(v)) \in 1 .. 3
<1>1. CASE v >= 100
  <2>1. write_decimal_u8(v) = <<48 + v \div 100, 48 + (v % 100) \div 10, 48 + (v % 10)>>
    BY <1>1 DEF write_decimal_u8, Digit, Byte
  <2>2. 48 + v \div 100 \in Byte /\ 48 + (v % 100) \div 10 \in Byte /\ 48 + (v % 10) \in Byte
    BY DEF Byte
  <2>3. QED BY <2>1, <2>2
<1>2. CASE v >= 10 /\ v < 100
  <2>1. write_decimal_u8(v) = <<48 + v \div 10, 48 + (v % 10)>>
    BY <1>2 DEF write_decimal_u8, Digit, Byte
  <2>2. 48 + v \div 10 \in Byte /\ 48 + (v % 10) \in Byte
    BY DEF Byte
  <2>3. QED BY <2>1, <2>2
<1>3. CASE v < 10
  <2>1. write_decimal_u8(v) = <<48 + v>>
    BY <1>3 DEF write_decimal_u8, Digit, Byte
  <2>2. 48 + v \in Byte
    BY <1>3 DEF Byte
  <2>3. QED BY <2>1, <2>2
<1>4. QED BY <1>1, <1>2, <1>3 DEF Byte

(* The greeting, for every address. *)
LEMMA HelloIs ==
  ASSUME NEW a \in [1 .. 4 -> Byte]
  PROVE  write_hello_ip(a) \in Seq(Byte) /\ Len(write_hello_ip(a)) \in 15 .. 23
<1> DEFINE x7 == Text(7)
           x1 == Text(1)
           d1 == write_decimal_u8(a[1])
           d2 == write_decimal_u8(a[2])
           d3 == write_decimal_u8(a[3])
           d4 == write_decimal_u8(a[4])
<1>1. /\ d1 \in Seq(Byte) /\ Len(d1) \in 1 .. 3 /\ d2 \in Seq(Byte) /\ Len(d2) \in 1 .. 3
      /\ d3 \in Seq(Byte) /\ Len(d3) \in 1 .. 3 /\ d4 \in Seq(Byte) /\ Len(d4) \in 1 .. 3
  BY DecimalIs
<1>2. write_hello_ip(a) = x7 \o d1 \o x1 \o d2 \o x1 \o d3 \o x1 \o d4 \o x1
  BY DEF write_hello_ip
<1>3. /\ x7 \in Seq(Byte) /\ Len(x7) = 7
      /\ x1 \in Seq(Byte) /\ Len(x1) = 1
  BY TextIs
<1> HIDE DEF x7, x1, d1, d2, d3, d4
<1> DEFINE s1 == x7 \o d1 \o x1
           s2 == s1 \o d2 \o x1
           s3 == s2 \o d3 \o x1
           s4 == s3 \o d4 \o x1
<1>4. s1 \in Seq(Byte) /\ Len(s1) = Len(x7) + Len(d1) + Len(x1)
  BY <1>1, <1>3, Joined3, Zenon
<1> HIDE DEF s1
<1>5. s2 \in Seq(Byte) /\ Len(s2) = Len(s1) + Len(d2) + Len(x1)
  BY <1>1, <1>3, <1>4, Joined3, Zenon
<1> HIDE DEF s2
<1>6. s3 \in Seq(Byte) /\ Len(s3) = Len(s2) + Len(d3) + Len(x1)
  BY <1>1, <1>3, <1>5, Joined3, Zenon
<1> HIDE DEF s3
<1>7. s4 \in Seq(Byte) /\ Len(s4) = Len(s3) + Len(d4) + Len(x1)
  BY <1>1, <1>3, <1>6, Joined3, Zenon
<1> HIDE DEF s4
<1>8. Len(s4) \in 15 .. 23
  <2>1. /\ Len(d1) \in 1 .. 3 /\ Len(d2) \in 1 .. 3 /\ Len(d3) \in 1 .. 3 /\ Len(d4) \in 1 .. 3
        /\ Len(x7) = 7 /\ Len(x1) = 1
        /\ Len(s1) = Len(x7) + Len(d1) + Len(x1)
        /\ Len(s2) = Len(s1) + Len(d2) + Len(x1)
        /\ Len(s3) = Len(s2) + Len(d3) + Len(x1)
        /\ Len(s4) = Len(s3) + Len(d4) + Len(x1)
    BY <1>1, <1>3, <1>4, <1>5, <1>6, <1>7, Zenon
  <2>2. PICK l1 \in 1 .. 3, l2 \in 1 .. 3, l3 \in 1 .. 3, l4 \in 1 .. 3 :
               Len(d1) = l1 /\ Len(d2) = l2 /\ Len(d3) = l3 /\ Len(d4) = l4
    BY <2>1
  <2>3. Len(s1) = 8 + l1
    BY <2>1, <2>2
  <2>4. Len(s2) = 9 + l1 + l2
    BY <2>1, <2>2, <2>3
  <2>5. Len(s3) = 10 + l1 + l2 + l3
    BY <2>1, <2>2, <2>4
  <2>6. Len(s4) = 11 + l1 + l2 + l3 + l4
    BY <2>1, <2>2, <2>5
  <2>7. QED BY <2>6
<1>9. write_hello_ip(a) = s4
  BY <1>2 DEF s1, s2, s3, s4
<1>10. QED BY <1>7, <1>8, <1>9

(* A size of two digits is written as these. *)
LEMMA SizeIs ==
  ASSUME NEW v \in 10 .. 99
  PROVE  write_decimal_size(v) = <<Digit(v \div 10), Digit(v % 10)>>
<1> DEFINE d == CHOOSE f : f = [w \in 0 .. v |->
                  IF w = 0 THEN <<>> ELSE Append(f[w \div 10], Digit(w % 10))]
<1>1. write_decimal_size(v) = d[v]
  <2>1. v # 0
    OBVIOUS
  <2>2. QED BY <2>1, Zenon DEF write_decimal_size
<1>2. \E f : f = [w \in 0 .. v |-> IF w = 0 THEN <<>> ELSE Append(f[w \div 10], Digit(w % 10))]
  <2> DEFINE g == [w \in 0 .. v |-> IF w = 0 THEN <<>>
                                    ELSE IF w < 10 THEN <<Digit(w % 10)>>
                                    ELSE <<Digit(w \div 10), Digit(w % 10)>>]
  <2>1. ASSUME NEW w \in 0 .. v PROVE g[w] = IF w = 0 THEN <<>> ELSE Append(g[w \div 10], Digit(w % 10))
    <3>1. CASE w = 0
      BY <3>1
    <3>2. CASE w # 0 /\ w < 10
      <4>1. w \div 10 = 0
        BY <3>2
      <4>2. g[w \div 10] = <<>>
        BY <4>1
      <4>3. QED BY <3>2, <4>2
    <3>3. CASE w >= 10
      <4> DEFINE q == w \div 10
      <4>1. q \in 1 .. 9 /\ q \in 0 .. v
        BY <3>3
      <4>2. q % 10 = q
        BY <4>1
      <4> HIDE DEF q
      <4>3. g[q] = <<Digit(q)>>
        BY <4>1, <4>2
      <4>4. g[w] = <<Digit(q), Digit(w % 10)>>
        BY <3>3 DEF q
      <4>5. g[w] = Append(g[q], Digit(w % 10))
        <5>1. Digit(q) \in Nat /\ Digit(w % 10) \in Nat
          BY <4>1, <3>3 DEF Digit
        <5>2. Append(<<Digit(q)>>, Digit(w % 10)) = <<Digit(q), Digit(w % 10)>>
          BY <5>1, Short
        <5>3. QED BY <4>3, <4>4, <5>2
      <4>6. QED BY <3>3, <4>5 DEF q
    <3>4. QED BY <3>1, <3>2, <3>3
  <2>2. g = [w \in 0 .. v |-> g[w]]
    OBVIOUS
  <2> HIDE DEF g
  <2>3. QED BY <2>1, <2>2
<1>3. d = [w \in 0 .. v |-> IF w = 0 THEN <<>> ELSE Append(d[w \div 10], Digit(w % 10))]
  BY <1>2
<1> HIDE DEF d
<1> DEFINE q == v \div 10
<1>4. q \in 1 .. 9 /\ q \in 0 .. v /\ q \div 10 = 0 /\ q % 10 = q /\ v # 0 /\ v \in 0 .. v /\ 0 \in 0 .. v
  OBVIOUS
<1>5. d[v] = Append(d[q], Digit(v % 10))
  BY <1>3, <1>4
<1>6. d[q] = Append(d[q \div 10], Digit(q % 10)) /\ d[0] = <<>>
  BY <1>3, <1>4
<1> HIDE DEF q
<1>7. d[q] = <<Digit(q)>>
  BY <1>4, <1>6, Short
<1>8. d[v] = <<Digit(q), Digit(v % 10)>>
  <2>1. Digit(q) \in Nat /\ Digit(v % 10) \in Nat
    BY <1>4 DEF Digit
  <2>2. Append(<<Digit(q)>>, Digit(v % 10)) = <<Digit(q), Digit(v % 10)>>
    BY <2>1, Short
  <2>3. QED BY <1>5, <1>7, <2>2
<1>9. QED BY <1>1, <1>8 DEF q

(* The response: 89 bytes and the greeting. *)
LEMMA ResponseIs ==
  ASSUME NEW a \in [1 .. 4 -> Byte]
  PROVE  /\ build_http_response(a) \in Seq(Byte)
         /\ Len(build_http_response(a)) = 89 + Len(write_hello_ip(a))
<1> DEFINE h == write_hello_ip(a)
           n == Len(h)
           d == write_decimal_size(n)
<1>1. h \in Seq(Byte) /\ n \in 15 .. 23
  BY HelloIs
<1> HIDE DEF n
<1>2. d = <<Digit(n \div 10), Digit(n % 10)>>
  <2>1. n \in 10 .. 99
    BY <1>1
  <2>2. QED BY <2>1, SizeIs
<1>3. Digit(n \div 10) \in Byte /\ Digit(n % 10) \in Byte
  BY <1>1 DEF Digit, Byte
<1> HIDE DEF d
<1>4. d \in Seq(Byte) /\ Len(d) = 2
  BY <1>2, <1>3
<1>5. build_http_response(a) = Text(83) \o d \o Text(4) \o h
  BY DEF build_http_response, HeaderText, d, n
<1>6. /\ Text(83) \in Seq(Byte) /\ Len(Text(83)) = 83
      /\ Text(4) \in Seq(Byte) /\ Len(Text(4)) = 4
  BY TextIs
<1> HIDE DEF h
<1> DEFINE t == Text(83)
           u == Text(4)
           s1 == t \o d \o u
<1> HIDE DEF t, u
<1>7. s1 \in Seq(Byte) /\ Len(s1) = Len(t) + Len(d) + Len(u)
  <2>1. t \in Seq(Byte) /\ u \in Seq(Byte)
    BY <1>6 DEF t, u
  <2>2. QED BY <1>4, <2>1, Joined3, Zenon
<1> HIDE DEF s1
<1>8. s1 \o h \in Seq(Byte) /\ Len(s1 \o h) = Len(s1) + Len(h)
  BY <1>1, <1>7, Joined, Zenon
<1>9. build_http_response(a) = s1 \o h
  BY <1>5 DEF s1, t, u
<1>10. Len(s1) = 89
  <2>1. Len(t) = 83 /\ Len(u) = 4 /\ Len(d) = 2
    BY <1>4, <1>6 DEF t, u
  <2>2. Len(s1) = Len(t) + Len(d) + Len(u)
    BY <1>7
  <2>3. QED BY <2>1, <2>2
<1>11. QED BY <1>8, <1>9, <1>10 DEF h

(* Every response is between 104 and 112 bytes long. *)
LEMMA HttpLen ==
  ASSUME NEW c \in Clients
  PROVE  http_len[c] \in 104 .. 112
<1>1. ip[c] \in [1 .. 4 -> Byte]
  BY HttpAssumption
<1>2. http_len[c] = 89 + Len(write_hello_ip(ip[c]))
  BY <1>1, ResponseIs DEF http_len, http_buf
<1>3. Len(write_hello_ip(ip[c])) \in 15 .. 23
  BY <1>1, HelloIs
<1> DEFINE n == Len(write_hello_ip(ip[c]))
<1> HIDE DEF n
<1>4. n \in 15 .. 23 /\ http_len[c] = 89 + n
  BY <1>2, <1>3 DEF n
<1>5. QED BY <1>4

----------------------------------------------------------------------------
(* Sequence numbers. *)

Num == 0 .. SeqSpace - 1

(* Addition and subtraction wrap around at most once. *)
LEMMA PlusIs ==
  ASSUME SeqSpace \in Nat \ {0}, NEW a \in Num, NEW b \in Num
  PROVE  /\ Plus(a, b) \in Num
         /\ Plus(a, b) = IF a + b < SeqSpace THEN a + b ELSE a + b - SeqSpace
<1>1. CASE a + b < SeqSpace
  <2>1. a + b \in 0 .. SeqSpace - 1
    BY <1>1 DEF Num
  <2>2. (a + b) % SeqSpace = a + b
    BY <2>1, ModSmall
  <2>3. QED BY <1>1, <2>1, <2>2 DEF Plus, Num
<1>2. CASE ~(a + b < SeqSpace)
  <2> DEFINE y == a + b - SeqSpace
  <2>1. y \in 0 .. SeqSpace - 1 /\ y \in Int /\ y + SeqSpace = a + b
    BY <1>2 DEF Num
  <2> HIDE DEF y
  <2>2. y % SeqSpace = y /\ (y + SeqSpace) % SeqSpace = y % SeqSpace
    BY <2>1, ModSmall, ModShift
  <2>3. (a + b) % SeqSpace = y
    BY <2>1, <2>2
  <2>4. QED BY <1>2, <2>1, <2>3 DEF Plus, Num, y
<1>3. QED BY <1>1, <1>2

(* Subtraction, likewise. *)
LEMMA MinusIs ==
  ASSUME SeqSpace \in Nat \ {0}, NEW a \in Num, NEW b \in Num
  PROVE  /\ Minus(a, b) \in Num
         /\ Minus(a, b) = IF b <= a THEN a - b ELSE a + SeqSpace - b
<1>1. CASE b <= a
  <2> DEFINE y == a - b
  <2>1. y \in 0 .. SeqSpace - 1 /\ y \in Int /\ y + SeqSpace = a + SeqSpace - b
    BY <1>1 DEF Num
  <2> HIDE DEF y
  <2>2. y % SeqSpace = y /\ (y + SeqSpace) % SeqSpace = y % SeqSpace
    BY <2>1, ModSmall, ModShift
  <2>3. (a + SeqSpace - b) % SeqSpace = y
    BY <2>1, <2>2
  <2>4. QED BY <1>1, <2>1, <2>3 DEF Minus, Num, y
<1>2. CASE ~(b <= a)
  <2>1. a + SeqSpace - b \in 0 .. SeqSpace - 1
    BY <1>2 DEF Num
  <2>2. (a + SeqSpace - b) % SeqSpace = a + SeqSpace - b
    BY <2>1, ModSmall
  <2>3. QED BY <1>2, <2>1, <2>2 DEF Minus, Num
<1>3. QED BY <1>1, <1>2

(* Positions of a stream that began at b: going on from one, the distance  *)
(* between two, and no two of them are the same.                           *)
LEMMA PlusPlus ==
  ASSUME SeqSpace \in Nat \ {0}, NEW b \in Num, NEW o \in Num, NEW d \in Num, o + d \in Num
  PROVE  Plus(Plus(b, o), d) = Plus(b, o + d)
<1> DEFINE p == Plus(b, o)
           q == Plus(b, o + d)
           r == Plus(p, d)
<1>1. p \in Num /\ p = IF b + o < SeqSpace THEN b + o ELSE b + o - SeqSpace
  BY PlusIs
<1>2. q = IF b + (o + d) < SeqSpace THEN b + (o + d) ELSE b + (o + d) - SeqSpace
  BY PlusIs
<1> HIDE DEF p, q
<1>3. r = IF p + d < SeqSpace THEN p + d ELSE p + d - SeqSpace
  BY <1>1, PlusIs
<1> HIDE DEF r
<1>4. r = q
  BY <1>1, <1>2, <1>3 DEF Num
<1>5. QED BY <1>4 DEF p, q, r

(* The distance between two positions of a stream. *)
LEMMA Between ==
  ASSUME SeqSpace \in Nat \ {0}, NEW b \in Num, NEW o \in Num, NEW u \in Num
  PROVE  Minus(Plus(b, o), Plus(b, u)) = IF u <= o THEN o - u ELSE o + SeqSpace - u
<1> DEFINE p == Plus(b, o)
           q == Plus(b, u)
           r == Minus(p, q)
<1>1. p \in Num /\ p = IF b + o < SeqSpace THEN b + o ELSE b + o - SeqSpace
  BY PlusIs
<1>2. q \in Num /\ q = IF b + u < SeqSpace THEN b + u ELSE b + u - SeqSpace
  BY PlusIs
<1> HIDE DEF p, q
<1>3. r = IF q <= p THEN p - q ELSE p + SeqSpace - q
  BY <1>1, <1>2, MinusIs
<1> HIDE DEF r
<1>4. r = IF u <= o THEN o - u ELSE o + SeqSpace - u
  BY <1>1, <1>2, <1>3 DEF Num
<1>5. QED BY <1>4 DEF p, q, r

(* No two positions of a stream are the same sequence number. *)
LEMMA PlusInjective ==
  ASSUME SeqSpace \in Nat \ {0}, NEW b \in Num, NEW o \in Num, NEW u \in Num, Plus(b, o) = Plus(b, u)
  PROVE  o = u
<1> DEFINE p == Plus(b, o)
           q == Plus(b, u)
<1>1. p = IF b + o < SeqSpace THEN b + o ELSE b + o - SeqSpace
  BY PlusIs
<1>2. q = IF b + u < SeqSpace THEN b + u ELSE b + u - SeqSpace
  BY PlusIs
<1>3. p = q
  OBVIOUS
<1> HIDE DEF p, q
<1>4. QED BY <1>1, <1>2, <1>3 DEF Num

(* The beginning of a stream, from a position and how far it is. *)
LEMMA MinusPlus ==
  ASSUME SeqSpace \in Nat \ {0}, NEW r \in Num, NEW m \in Num
  PROVE  Plus(Minus(r, m), m) = r
<1> DEFINE p == Minus(r, m)
           q == Plus(p, m)
<1>1. p \in Num /\ p = IF m <= r THEN r - m ELSE r + SeqSpace - m
  BY MinusIs
<1> HIDE DEF p
<1>2. q = IF p + m < SeqSpace THEN p + m ELSE p + m - SeqSpace
  BY <1>1, PlusIs
<1> HIDE DEF q
<1>3. q = r
  BY <1>1, <1>2 DEF Num
<1>4. QED BY <1>3 DEF p, q

(* Going h on and then counting h more back ends at the same number. *)
LEMMA MinusStays ==
  ASSUME SeqSpace \in Nat \ {0}, NEW r \in Num, NEW m \in Num, NEW h \in Num, m + h \in Num
  PROVE  Minus(Plus(r, h), m + h) = Minus(r, m)
<1> DEFINE p == Plus(r, h)
           q == Minus(r, m)
           s == Minus(p, m + h)
<1>1. p \in Num /\ p = IF r + h < SeqSpace THEN r + h ELSE r + h - SeqSpace
  BY PlusIs
<1>2. q = IF m <= r THEN r - m ELSE r + SeqSpace - m
  BY MinusIs
<1> HIDE DEF p, q
<1>3. s = IF m + h <= p THEN p - (m + h) ELSE p + SeqSpace - (m + h)
  BY <1>1, MinusIs
<1> HIDE DEF s
<1>4. s = q
  BY <1>1, <1>2, <1>3 DEF Num
<1>5. QED BY <1>4 DEF p, q, s

(* The sizes of a client's two streams. *)
LEMMA ClientIs ==
  ASSUME NEW c \in Clients
  PROVE  /\ SeqSpace \in Nat \ {0} /\ ReqLen \in Nat \ {0} /\ requests[c] \in Nat
         /\ iss[c] \in Num /\ 0 \in Num /\ 1 \in Num
         /\ \A m \in 0 .. requests[c] :
              /\ m * ReqLen \in Nat /\ m * http_len[c] \in Num
              /\ 1 + m * ReqLen \in Num /\ 2 + m * ReqLen \in Num
<1>1. /\ requests[c] \in Nat /\ SeqSpace \in Nat /\ iss[c] \in Num /\ ReqLen \in Nat /\ ReqLen # 0
      /\ SeqSpace > 192 * (requests[c] + 1) /\ SeqSpace > ReqLen * requests[c] + 2
  <2>1. ReqLen \in Nat /\ MaxTrouble \in Nat /\ ReqLen > MaxTrouble
    BY HttpAssumption
  <2>2. ReqLen # 0
    BY <2>1
  <2>3. requests \in [Clients -> Nat] /\ SeqSpace \in Nat /\ iss \in [Clients -> 0 .. SeqSpace - 1]
    BY HttpAssumption
  <2>4. SeqSpace > 192 * (requests[c] + 1) /\ SeqSpace > ReqLen * requests[c] + 2
    BY HttpAssumption
  <2>5. QED BY <2>1, <2>2, <2>3, <2>4 DEF Num
<1> DEFINE r == requests[c]
           h == http_len[c]
<1>2. r \in Nat /\ h \in 104 .. 112 /\ SeqSpace > 192 * (r + 1) /\ SeqSpace > ReqLen * r + 2
  BY <1>1, HttpLen
<1> HIDE DEF r, h
<1>3. ASSUME NEW m \in 0 .. r
      PROVE  /\ m * ReqLen \in Nat /\ m * h \in Num /\ 1 + m * ReqLen \in Num /\ 2 + m * ReqLen \in Num
  <2>1. m \in Nat /\ r - m \in Nat
    BY <1>2
  <2>2. ReqLen * r = m * ReqLen + (r - m) * ReqLen /\ (r - m) * ReqLen \in Nat /\ m * ReqLen \in Nat
    BY <1>1, <1>2, <2>1
  <2>3. m * ReqLen + 2 < SeqSpace
    BY <1>1, <1>2, <2>2
  <2>4. m * h <= m * 112 /\ m * h \in Nat
    <3>1. 112 - h \in Nat /\ h \in Nat
      BY <1>2
    <3>2. m * 112 = m * h + m * (112 - h) /\ m * (112 - h) \in Nat /\ m * h \in Nat
      BY <2>1, <3>1
    <3>3. QED BY <2>1, <3>2
  <2>5. m * h < SeqSpace
    BY <1>1, <1>2, <2>1, <2>4
  <2>6. QED BY <1>1, <2>2, <2>3, <2>4, <2>5 DEF Num
<1>4. SeqSpace # 0 /\ 0 \in Num /\ 1 \in Num
  BY <1>1, <1>2 DEF Num
<1>5. QED BY <1>1, <1>3, <1>4 DEF r, h

----------------------------------------------------------------------------
(* The invariant of a connection. *)

(* The positions in the two streams of client c: the o-th number of its    *)
(* own, and where the response to its request k + 1 begins when the first  *)
(* one begins at b.                                                        *)
At(c, o) == Plus(iss[c], o)
ResponseAt(c, b, k) == Plus(b, k * http_len[c])

(* How far a client has sent, and where its first response begins.         *)
Sent(c) == 1 + asked[c] * ReqLen + (IF tcb[c].fin THEN 1 ELSE 0)
Base(c) == Minus(tcb[c].rcv_nxt, answered[c] * http_len[c])

(* The segments of an established client that has sent up to position n    *)
(* and made m requests: what carries data ends where a request ends, and   *)
(* acknowledges all responses before the one to this request.              *)
Segment(f, c, b, m, n) ==
  \E o \in 1 .. n, len \in 0 .. ReqLen, ack \in Num,
     flags \in SUBSET {"ACK", "PSH", "FIN"} :
    /\ f = Tcp(c, At(c, o), ack, flags, len)
    /\ "FIN" \in flags => o + 1 <= n
    /\ len > 0 => \E k \in 0 .. m - 1 : /\ o + len = 1 + (k + 1) * ReqLen
                                        /\ ack = ResponseAt(c, b, k)

FromClient(f, c, state, b, m, n) ==
  \/ f = Arp(c, "request")
  \/ f = Tcp(c, iss[c], 0, {"SYN"}, 0) /\ state \in {"syn_sent", "established"}
  \/ Segment(f, c, b, m, n) /\ state = "established"

(* The frames of the server: a response to one of the m requests stands    *)
(* where that request's response stands in the stream, and acknowledges    *)
(* the request to its end; nothing beyond n is acknowledged.               *)
FromServer(g, c, state, b, m, n) ==
  \/ g = Arp(c, "reply")
  \/ /\ \E s \in Num : g = Reply(c, s, At(c, 1), {"SYN", "ACK"}, FALSE)
     /\ state \in {"syn_sent", "established"}
  \/ /\ \/ \E k \in 0 .. m - 1 :
             g = Reply(c, ResponseAt(c, b, k), At(c, 1 + (k + 1) * ReqLen), {"PSH", "ACK"}, TRUE)
        \/ \E s \in Num, o \in 1 .. n : g = Reply(c, s, At(c, o), {"ACK"}, FALSE)
     /\ state = "established"

(* The control block of a client. *)
Block == [state : {"idle", "arp", "syn_sent", "established"},
          snd_una : Num, snd_nxt : Num,
          rcv_nxt : Num, fin : BOOLEAN]

BlockOK(c) ==
  /\ answered[c] <= asked[c] /\ asked[c] <= answered[c] + 1
  /\ asked[c] <= requests[c]
  /\ tcb[c].fin => asked[c] = requests[c] /\ tcb[c].state = "established"
  /\ tcb[c].state # "established" => asked[c] = 0
  /\ tcb[c].state \in {"idle", "arp"} => tcb[c].snd_una = iss[c] /\ tcb[c].snd_nxt = iss[c]
  /\ tcb[c].state = "syn_sent" => tcb[c].snd_una = iss[c] /\ tcb[c].snd_nxt = At(c, 1)
  /\ tcb[c].state = "established" =>
       /\ tcb[c].snd_nxt = At(c, Sent(c))
       /\ \E u \in 1 + answered[c] * ReqLen .. Sent(c) : tcb[c].snd_una = At(c, u)

HttpTypeOK ==
  /\ isn_counter \in Num
  /\ tcb \in [Clients -> Block]
  /\ asked \in [Clients -> Nat] /\ answered \in [Clients -> Nat]

(* A frame on its way to the server, and one to client c. *)
ClientFrame(f, c) == FromClient(f, c, tcb[c].state, Base(c), asked[c], Sent(c))
ServerFrame(g, c) == FromServer(g, c, tcb[c].state, Base(c), asked[c], Sent(c))

StreamInv ==
  /\ HttpTypeOK
  /\ \A c \in Clients : BlockOK(c)
  /\ \A f \in to_server : \E c \in Clients : ClientFrame(f, c)
  /\ \A g \in to_client : \E c \in Clients : ServerFrame(g, c)

(* How far a client has sent is a position of its stream, and what its     *)
(* responses are counted from is a sequence number.                        *)
LEMMA BlockIs ==
  ASSUME NEW c \in Clients, HttpTypeOK, BlockOK(c)
  PROVE  /\ tcb[c] \in Block /\ asked[c] \in Nat /\ answered[c] \in Nat
         /\ asked[c] \in 0 .. requests[c] /\ answered[c] \in 0 .. requests[c]
         /\ Sent(c) \in Num /\ 1 <= Sent(c) /\ Base(c) \in Num
<1>1. /\ tcb[c] \in Block /\ asked[c] \in Nat /\ answered[c] \in Nat
      /\ tcb[c].fin \in BOOLEAN /\ tcb[c].rcv_nxt \in Num
  BY DEF HttpTypeOK, Block
<1>2. asked[c] \in 0 .. requests[c] /\ answered[c] \in 0 .. requests[c]
  BY <1>1, ClientIs DEF BlockOK
<1> DEFINE m == asked[c] * ReqLen
           k == answered[c] * http_len[c]
<1>3. SeqSpace \in Nat \ {0} /\ m \in Nat /\ 1 + m \in Num /\ 2 + m \in Num /\ k \in Num
  BY <1>2, ClientIs
<1> HIDE DEF m, k
<1>4. Sent(c) = 1 + m \/ Sent(c) = 1 + m + 1
  <2>1. CASE tcb[c].fin
    BY <2>1 DEF Sent, m
  <2>2. CASE ~tcb[c].fin
    <3>1. Sent(c) = 1 + m + 0
      BY <2>2 DEF Sent, m
    <3>2. QED BY <1>3, <3>1
  <2>3. QED BY <2>1, <2>2
<1>5. Sent(c) \in Num /\ 1 <= Sent(c)
  BY <1>3, <1>4 DEF Num
<1>6. Base(c) \in Num
  BY <1>1, <1>3, MinusIs DEF Base, k
<1>7. QED BY <1>1, <1>2, <1>5, <1>6

(* The fields of a segment, and the length the server computes from them.  *)
LEMMA TcpIs ==
  ASSUME NEW c, NEW seq, NEW ack, NEW flags, NEW len \in 0 .. ReqLen, ReqLen \in Nat
  PROVE  LET f == Tcp(c, seq, ack, flags, len)
         IN  /\ f.type = "ip" /\ f.client = c /\ f.seq = seq /\ f.ack = ack /\ f.flags = flags
             /\ tcp_payload_len(f) = len
<1> DEFINE f == Tcp(c, seq, ack, flags, len)
<1>1. /\ f.type = "ip" /\ f.client = c /\ f.seq = seq /\ f.ack = ack /\ f.flags = flags
      /\ f.total_length = 40 + len /\ f.data_offset = 5
  BY DEF Tcp
<1> HIDE DEF f
<1>2. 40 + ReqLen \in Word
  BY HttpAssumption
<1>3. len \in 0 .. 2^16 - 1
  BY <1>2 DEF Word
<1>4. tcp_payload_len(f) = (40 + len + 2^16 - 20 - 5 * 4) % 2^16
  BY <1>1 DEF tcp_payload_len
<1>5. tcp_payload_len(f) = len
  BY <1>3, <1>4
<1>6. QED BY <1>1, <1>5 DEF f

(* The server's answers to a segment of an established client.             *)
LEMMA SegmentAnswered ==
  ASSUME NEW c \in Clients, NEW b \in Num, NEW m \in 0 .. requests[c], NEW n \in Num,
         NEW f, Segment(f, c, b, m, n), NEW g \in Response(f) \cup FinAck(f)
  PROVE  FromServer(g, c, "established", b, m, n)
<1> DEFINE i == iss[c]
<1>0. i \in Num /\ SeqSpace \in Nat \ {0} /\ 1 \in Num
  BY ClientIs
<1> HIDE DEF i
<1>1. PICK o \in 1 .. n, len \in 0 .. ReqLen, ack \in Num, flags \in SUBSET {"ACK", "PSH", "FIN"} :
        /\ f = Tcp(c, At(c, o), ack, flags, len)
        /\ "FIN" \in flags => o + 1 <= n
        /\ len > 0 => \E k \in 0 .. m - 1 : /\ o + len = 1 + (k + 1) * ReqLen
                                            /\ ack = ResponseAt(c, b, k)
  BY DEF Segment
<1>2. /\ f.client = c /\ f.seq = At(c, o) /\ f.ack = ack /\ f.flags = flags
      /\ tcp_payload_len(f) = len
  BY <1>1, TcpIs, ClientIs
<1>3. o \in Num /\ n \in Nat /\ o \in Nat
  BY <1>0 DEF Num
<1>4. CASE g \in Response(f)
  <2>1. len > 0 /\ g = Reply(c, ack, Plus(At(c, o), len), {"PSH", "ACK"}, TRUE)
    <3>1. len > 0
      BY <1>2, <1>4 DEF Response
    <3>2. QED BY <1>2, <1>4, <3>1 DEF Response
  <2>2. PICK k \in 0 .. m - 1 : o + len = 1 + (k + 1) * ReqLen /\ ack = ResponseAt(c, b, k)
    BY <1>1, <2>1
  <2>3. k + 1 \in 0 .. requests[c]
    BY ClientIs
  <2>4. len \in Num /\ o + len \in Num
    <3>1. 1 + (k + 1) * ReqLen \in Num
      BY <2>3, ClientIs
    <3>2. o + len \in Num
      BY <2>2, <3>1
    <3>3. QED BY <1>0, <1>3, <3>2, ClientIs DEF Num
  <2>5. Plus(At(c, o), len) = At(c, 1 + (k + 1) * ReqLen)
    <3>1. Plus(Plus(i, o), len) = Plus(i, o + len)
      BY <1>0, <1>3, <2>4, PlusPlus
    <3>2. QED BY <2>2, <3>1 DEF At, i
  <2>6. g = Reply(c, ResponseAt(c, b, k), At(c, 1 + (k + 1) * ReqLen), {"PSH", "ACK"}, TRUE)
    BY <2>1, <2>2, <2>5
  <2>7. QED BY <2>6 DEF FromServer
<1>5. CASE g \in FinAck(f)
  <2>1. "FIN" \in flags /\ g = Reply(c, ack, Plus(At(c, o), 1), {"ACK"}, FALSE)
    BY <1>2, <1>5 DEF FinAck
  <2>2. o + 1 \in 1 .. n /\ o + 1 \in Num
    BY <1>0, <1>1, <1>3, <2>1 DEF Num
  <2>3. Plus(At(c, o), 1) = At(c, o + 1)
    <3>1. Plus(Plus(i, o), 1) = Plus(i, o + 1)
      BY <1>0, <1>3, <2>2, PlusPlus
    <3>2. QED BY <3>1 DEF At, i
  <2>4. g = Reply(c, ack, At(c, o + 1), {"ACK"}, FALSE)
    BY <2>1, <2>3
  <2>5. QED BY <2>2, <2>4 DEF FromServer
<1>6. QED BY <1>4, <1>5

(* What one pass of the loop answers to a client's frame is a frame of the *)
(* server for that client.                                                 *)
LEMMA Answered ==
  ASSUME NEW c \in Clients, HttpTypeOK, BlockOK(c),
         NEW f, ClientFrame(f, c), NEW g \in Replies(f)
  PROVE  ServerFrame(g, c)
<1> DEFINE st == tcb[c].state
           b == Base(c)
           m == asked[c]
           n == Sent(c)
<1>1. FromClient(f, c, st, b, m, n)
  BY DEF ClientFrame
<1>2. b \in Num /\ m \in 0 .. requests[c] /\ n \in Num
  BY BlockIs
<1>3. SeqSpace \in Nat \ {0} /\ ReqLen \in Nat /\ 0 \in 0 .. ReqLen
  BY ClientIs
<1> HIDE DEF st, b, m, n
<1> SUFFICES FromServer(g, c, st, b, m, n)
  BY DEF ServerFrame, st, b, m, n
<1>4. CASE f = Arp(c, "request")
  <2>1. f.type = "arp" /\ f.opcode = "request" /\ f.client = c
    BY <1>4 DEF Arp
  <2>2. g = Arp(c, "reply")
    <3>1. ~ForServer(f)
      BY <2>1 DEF ForServer
    <3>2. Replies(f) = {Arp(f.client, "reply")}
      BY <2>1, <3>1, Zenon DEF Replies
    <3>3. QED BY <2>1, <3>2
  <2>3. QED BY <2>2 DEF FromServer
<1>5. CASE f = Tcp(c, iss[c], 0, {"SYN"}, 0) /\ st \in {"syn_sent", "established"}
  <2>1. /\ f.type = "ip" /\ f.client = c /\ f.seq = iss[c] /\ f.flags = {"SYN"}
        /\ tcp_payload_len(f) = 0
    BY <1>3, <1>5, TcpIs
  <2>2. g \in SynAck(f) \cup Response(f) \cup FinAck(f)
    BY <2>1 DEF Replies
  <2>3. Response(f) = {} /\ FinAck(f) = {}
    BY <2>1 DEF Response, FinAck
  <2>4. g = Reply(c, isn_counter, Plus(iss[c], 1), {"SYN", "ACK"}, FALSE)
    BY <2>1, <2>2, <2>3 DEF SynAck
  <2>5. isn_counter \in Num
    BY DEF HttpTypeOK
  <2>6. QED BY <1>5, <2>4, <2>5 DEF FromServer, At
<1>6. CASE Segment(f, c, b, m, n) /\ st = "established"
  <2>1. f.type = "ip" /\ "SYN" \notin f.flags
    <3>1. PICK o \in 1 .. n, len \in 0 .. ReqLen, ack \in Num, flags \in SUBSET {"ACK", "PSH", "FIN"} :
            f = Tcp(c, At(c, o), ack, flags, len)
      BY <1>6 DEF Segment
    <3>2. f.type = "ip" /\ f.flags = flags
      BY <1>3, <3>1, TcpIs
    <3>3. "SYN" \notin {"ACK", "PSH", "FIN"}
      OBVIOUS
    <3>4. QED BY <3>2, <3>3
  <2>2. g \in SynAck(f) \cup Response(f) \cup FinAck(f)
    BY <2>1 DEF Replies
  <2>3. SynAck(f) = {}
    BY <2>1 DEF SynAck
  <2>4. FromServer(g, c, "established", b, m, n)
    BY <1>2, <1>6, <2>2, <2>3, SegmentAnswered
  <2>5. QED BY <1>6, <2>4
<1>7. QED BY <1>1, <1>4, <1>5, <1>6 DEF FromClient

(* A frame stays what it is while its client goes on. *)
Onward(c) ==
  /\ tcb[c].state \in {"syn_sent", "established"} => tcb'[c].state \in {"syn_sent", "established"}
  /\ tcb[c].state = "established" => tcb'[c].state = "established" /\ Base(c)' = Base(c)
  /\ asked[c] \in Nat /\ asked'[c] \in Nat /\ asked[c] <= asked'[c]
  /\ Sent(c) \in Nat /\ Sent(c)' \in Nat /\ Sent(c) <= Sent(c)'

(* What was a frame of the streams stays one as the client goes on. *)
LEMMA FramesStay ==
  ASSUME NEW c \in Clients, Onward(c), NEW f
  PROVE  /\ ClientFrame(f, c) => ClientFrame(f, c)'
         /\ ServerFrame(f, c) => ServerFrame(f, c)'
<1> DEFINE st == tcb[c].state
           b == Base(c)
           m == asked[c]
           n == Sent(c)
           st2 == tcb'[c].state
           b2 == Base(c)'
           m2 == asked'[c]
           n2 == Sent(c)'
<1>1. /\ st \in {"syn_sent", "established"} => st2 \in {"syn_sent", "established"}
      /\ st = "established" => st2 = "established" /\ b2 = b
      /\ m \in Nat /\ m2 \in Nat /\ m <= m2
      /\ n \in Nat /\ n2 \in Nat /\ n <= n2
  BY DEF Onward
<1>2. /\ ClientFrame(f, c) <=> FromClient(f, c, st, b, m, n)
      /\ ClientFrame(f, c)' <=> FromClient(f, c, st2, b2, m2, n2)
      /\ ServerFrame(f, c) <=> FromServer(f, c, st, b, m, n)
      /\ ServerFrame(f, c)' <=> FromServer(f, c, st2, b2, m2, n2)
  BY DEF ClientFrame, ServerFrame
<1> HIDE DEF st, b, m, n, st2, b2, m2, n2
<1>3. 0 .. m - 1 \subseteq 0 .. m2 - 1 /\ 1 .. n \subseteq 1 .. n2
  BY <1>1
<1>4. ASSUME FromClient(f, c, st, b, m, n) PROVE FromClient(f, c, st2, b2, m2, n2)
  <2>1. CASE f = Arp(c, "request")
    BY <2>1 DEF FromClient
  <2>2. CASE f = Tcp(c, iss[c], 0, {"SYN"}, 0) /\ st \in {"syn_sent", "established"}
    BY <1>1, <2>2 DEF FromClient
  <2>3. CASE Segment(f, c, b, m, n) /\ st = "established"
    <3>1. PICK o \in 1 .. n, len \in 0 .. ReqLen, ack \in Num, flags \in SUBSET {"ACK", "PSH", "FIN"} :
            /\ f = Tcp(c, At(c, o), ack, flags, len)
            /\ "FIN" \in flags => o + 1 <= n
            /\ len > 0 => \E k \in 0 .. m - 1 : /\ o + len = 1 + (k + 1) * ReqLen
                                                /\ ack = ResponseAt(c, b, k)
      BY <2>3 DEF Segment
    <3>2. o \in 1 .. n2 /\ ("FIN" \in flags => o + 1 <= n2)
      BY <1>1, <3>1
    <3>3. len > 0 => \E k \in 0 .. m2 - 1 : o + len = 1 + (k + 1) * ReqLen /\ ack = ResponseAt(c, b, k)
      BY <1>3, <3>1
    <3>4. Segment(f, c, b, m2, n2)
      BY <3>1, <3>2, <3>3, Zenon DEF Segment
    <3>5. QED BY <1>1, <2>3, <3>4 DEF FromClient
  <2>4. QED BY <1>4, <2>1, <2>2, <2>3 DEF FromClient
<1>5. ASSUME FromServer(f, c, st, b, m, n) PROVE FromServer(f, c, st2, b2, m2, n2)
  <2>1. CASE f = Arp(c, "reply")
    BY <2>1 DEF FromServer
  <2>2. CASE /\ \E s \in Num : f = Reply(c, s, At(c, 1), {"SYN", "ACK"}, FALSE)
             /\ st \in {"syn_sent", "established"}
    BY <1>1, <2>2, Zenon DEF FromServer
  <2>3. CASE st = "established" /\ \E k \in 0 .. m - 1 :
                f = Reply(c, ResponseAt(c, b, k), At(c, 1 + (k + 1) * ReqLen), {"PSH", "ACK"}, TRUE)
    BY <1>1, <1>3, <2>3, Zenon DEF FromServer
  <2>4. CASE st = "established" /\ \E s \in Num, o \in 1 .. n :
                f = Reply(c, s, At(c, o), {"ACK"}, FALSE)
    BY <1>1, <1>3, <2>4, Zenon DEF FromServer
  <2>5. QED BY <1>5, <2>1, <2>2, <2>3, <2>4, Zenon DEF FromServer
<1>6. QED BY <1>2, <1>4, <1>5

(* Clients do not disturb each other. *)
Same(d) == tcb'[d] = tcb[d] /\ asked'[d] = asked[d] /\ answered'[d] = answered[d]

(* A client whose block does not change keeps its frames. *)
LEMMA SameStays ==
  ASSUME NEW d \in Clients, HttpTypeOK, BlockOK(d), Same(d)
  PROVE  BlockOK(d)' /\ Onward(d)
<1>1. Sent(d)' = Sent(d) /\ Base(d)' = Base(d)
  BY DEF Sent, Base, Same
<1>2. BlockOK(d)'
  BY <1>1 DEF BlockOK, Same, At, Plus
<1>3. Sent(d) \in Num /\ asked[d] \in Nat /\ SeqSpace \in Nat \ {0}
  BY BlockIs, ClientIs
<1>4. Sent(d) \in Nat
  BY <1>3 DEF Num
<1>5. QED BY <1>1, <1>2, <1>3, <1>4 DEF Onward, Same

(* A step of client c, or of the server for it, keeps the invariant when   *)
(* it keeps what the invariant says of c, and the frames it sends are as   *)
(* they should be.                                                         *)
LEMMA StepAt ==
  ASSUME StreamInv, HttpTypeOK', NEW c \in Clients, BlockOK(c)', Onward(c),
         \A d \in Clients \ {c} : Same(d),
         \A f \in to_server' : f \in to_server \/ ClientFrame(f, c)',
         \A g \in to_client' : g \in to_client
  PROVE  StreamInv'
<1>1. ASSUME NEW d \in Clients PROVE BlockOK(d)' /\ Onward(d)
  <2>1. CASE d = c
    BY <2>1
  <2>2. CASE d # c
    BY <2>2, SameStays DEF StreamInv
  <2>3. QED BY <2>1, <2>2
<1>2. ASSUME NEW f \in to_server' PROVE \E d \in Clients : ClientFrame(f, d)'
  <2>1. CASE f \in to_server
    <3>1. PICK d \in Clients : ClientFrame(f, d)
      BY <2>1 DEF StreamInv
    <3>2. ClientFrame(f, d)'
      BY <1>1, <3>1, FramesStay
    <3>3. QED BY <3>2
  <2>2. CASE ClientFrame(f, c)'
    BY <2>2
  <2>3. QED BY <2>1, <2>2
<1>3. ASSUME NEW g \in to_client' PROVE \E d \in Clients : ServerFrame(g, d)'
  <2>1. PICK d \in Clients : ServerFrame(g, d)
    BY DEF StreamInv
  <2>2. ServerFrame(g, d)'
    BY <1>1, <2>1, FramesStay
  <2>3. QED BY <2>2
<1>4. QED BY <1>1, <1>2, <1>3 DEF StreamInv

(* A step that leaves all clients alone. *)
LEMMA StepServer ==
  ASSUME StreamInv, isn_counter' \in Num, UNCHANGED <<tcb, asked, answered>>,
         \A f \in to_server' : f \in to_server,
         \A g \in to_client' : g \in to_client \/ \E c \in Clients : ServerFrame(g, c)
  PROVE  StreamInv'
<1>1. ASSUME NEW d \in Clients PROVE BlockOK(d)' /\ Onward(d)
  BY SameStays DEF StreamInv, Same
<1>2. ASSUME NEW f \in to_server' PROVE \E d \in Clients : ClientFrame(f, d)'
  <2>1. PICK d \in Clients : ClientFrame(f, d)
    BY DEF StreamInv
  <2>2. ClientFrame(f, d)'
    BY <1>1, <2>1, FramesStay
  <2>3. QED BY <2>2
<1>3. ASSUME NEW g \in to_client' PROVE \E d \in Clients : ServerFrame(g, d)'
  <2>1. PICK d \in Clients : ServerFrame(g, d)
    BY DEF StreamInv
  <2>2. ServerFrame(g, d)'
    BY <1>1, <2>1, FramesStay
  <2>3. QED BY <2>2
<1>4. HttpTypeOK'
  BY DEF HttpTypeOK, StreamInv
<1>5. QED BY <1>1, <1>2, <1>3, <1>4 DEF StreamInv

----------------------------------------------------------------------------
(* The steps. *)

(* The server's loop. *)
LEMMA ReceiveStreams ==
  ASSUME StreamInv, Receive
  PROVE  StreamInv'
<1>1. PICK f \in IF to_server = {} THEN Noise ELSE to_server :
        /\ Deliver(to_server, f)
        /\ to_client' = to_client \cup Replies(f)
        /\ isn_counter' = IF Syns(f) THEN Plus(isn_counter, 1) ELSE isn_counter
        /\ UNCHANGED <<tcb, asked, answered>>
  BY DEF Receive
<1>2. \A x \in to_server' : x \in to_server
  BY <1>1 DEF Deliver
<1>3. CASE f \in to_server
  <2>1. PICK c \in Clients : ClientFrame(f, c)
    BY <1>3 DEF StreamInv
  <2>2. \A g \in Replies(f) : ServerFrame(g, c)
    BY <2>1, Answered DEF StreamInv
  <2>3. isn_counter' \in Num
    <3>1. isn_counter \in Num /\ SeqSpace \in Nat \ {0} /\ 1 \in Num
      BY ClientIs DEF StreamInv, HttpTypeOK
    <3>2. Plus(isn_counter, 1) \in Num
      BY <3>1, PlusIs
    <3>3. QED BY <1>1, <3>1, <3>2
  <2>4. QED BY <1>1, <1>2, <2>2, <2>3, StepServer
<1>4. CASE f \in Noise
  <2>1. ~ForServer(f) /\ (f.type = "arp" => f.opcode # "request")
    BY <1>4, NoiseAssumption
  <2>2. Replies(f) = {}
    BY <2>1 DEF Replies
  <2>3. ~Syns(f)
    BY <2>1 DEF Syns
  <2>4. isn_counter' \in Num
    BY <1>1, <2>3 DEF StreamInv, HttpTypeOK
  <2>5. QED BY <1>1, <1>2, <2>2, <2>4, StepServer
<1>5. QED BY <1>1, <1>3, <1>4

(* A frame is lost. *)
LEMMA LoseStreams ==
  ASSUME StreamInv, Lose
  PROVE  StreamInv'
<1>1. isn_counter' \in Num
  BY DEF Lose, StreamInv, HttpTypeOK
<1>2. UNCHANGED <<tcb, asked, answered>> /\ (\A f \in to_server' : f \in to_server) /\ \A g \in to_client' : g \in to_client
  BY DEF Lose
<1>3. QED BY <1>1, <1>2, StepServer

(* A client starts to look the server up. *)
LEMMA ConnectStreams ==
  ASSUME StreamInv, NEW c \in Clients, Connect(c)
  PROVE  StreamInv'
<1> DEFINE t == tcb[c]
           u == [t EXCEPT !.state = "arp"]
<1>1. /\ t.state = "idle" /\ tcb' = [tcb EXCEPT ![c] = u]
      /\ to_server' = to_server \cup {Arp(c, "request")}
      /\ UNCHANGED <<isn_counter, to_client, asked, answered>>
  BY DEF Connect, Send
<1>2. HttpTypeOK /\ BlockOK(c) /\ t \in Block
  BY DEF StreamInv, HttpTypeOK
<1>3. u \in Block /\ u.state = "arp" /\ u.snd_una = t.snd_una /\ u.snd_nxt = t.snd_nxt
      /\ u.rcv_nxt = t.rcv_nxt /\ u.fin = t.fin
  BY <1>2 DEF Block
<1> HIDE DEF u
<1>4. tcb' \in [Clients -> Block] /\ tcb'[c] = u /\ \A d \in Clients \ {c} : tcb'[d] = tcb[d]
  BY <1>1, <1>2, <1>3 DEF HttpTypeOK
<1>5. HttpTypeOK'
  BY <1>1, <1>2, <1>4 DEF HttpTypeOK
<1>6. Sent(c)' = Sent(c)
  BY <1>1, <1>3, <1>4 DEF Sent
<1>7. BlockOK(c)'
  BY <1>1, <1>2, <1>3, <1>4 DEF BlockOK
<1>8. Onward(c)
  <2>1. Sent(c) \in Num /\ asked[c] \in Nat /\ SeqSpace \in Nat \ {0}
    BY <1>2, BlockIs, ClientIs
  <2>2. Sent(c) \in Nat
    BY <2>1 DEF Num
  <2>3. QED BY <1>1, <1>6, <2>1, <2>2 DEF Onward
<1>9. \A d \in Clients \ {c} : Same(d)
  BY <1>1, <1>4 DEF Same
<1>10. ClientFrame(Arp(c, "request"), c)'
  BY DEF ClientFrame, FromClient
<1>11. \A f \in to_server' : f \in to_server \/ ClientFrame(f, c)'
  BY <1>1, <1>10
<1>12. \A g \in to_client' : g \in to_client
  BY <1>1
<1>13. QED BY <1>5, <1>7, <1>8, <1>9, <1>11, <1>12, StepAt

(* The next response a client expects is the one it has not got yet.       *)
LEMMA NextResponse ==
  ASSUME NEW c \in Clients, HttpTypeOK, BlockOK(c)
  PROVE  ResponseAt(c, Base(c), answered[c]) = tcb[c].rcv_nxt
<1> DEFINE m == answered[c] * http_len[c]
           r == tcb[c].rcv_nxt
<1>1. answered[c] \in 0 .. requests[c] /\ tcb[c] \in Block
  BY BlockIs
<1>2. m \in Num /\ r \in Num /\ SeqSpace \in Nat \ {0}
  BY <1>1, ClientIs DEF Block
<1> HIDE DEF m, r
<1>3. Plus(Minus(r, m), m) = r
  BY <1>2, MinusPlus
<1>4. QED BY <1>3 DEF ResponseAt, Base, m, r

(* One request more is that many bytes more. *)
LEMMA OneMore ==
  ASSUME NEW k \in Nat, NEW n \in Nat
  PROVE  (k + 1) * n = k * n + n /\ k * n \in Nat
OBVIOUS

(* Numbers that grow without leaving the stream's range. *)
LEMMA NumIs ==
  ASSUME SeqSpace \in Nat \ {0}, NEW x \in Num
  PROVE  x \in Nat /\ x < SeqSpace /\ \A y \in Nat : y <= x => y \in Num
BY DEF Num

(* A request adds one segment, at the end of what was sent. *)
LEMMA RequestStreams ==
  ASSUME StreamInv, NEW c \in Clients, Request(c)
  PROVE  StreamInv'
<1> DEFINE t == tcb[c]
           k == asked[c]
           x == k * ReqLen
           i == iss[c]
           Fin(fin) == IF fin THEN 1 ELSE 0
           U(fin) == [t EXCEPT !.fin = fin, !.snd_nxt = Plus(t.snd_nxt, ReqLen + Fin(fin))]
           F(fin) == Tcp(c, t.snd_nxt, t.rcv_nxt,
                         {"ACK", "PSH"} \cup (IF fin THEN {"FIN"} ELSE {}), ReqLen)
<1>1. HttpTypeOK /\ BlockOK(c) /\ t \in Block /\ tcb \in [Clients -> Block] /\ asked \in [Clients -> Nat]
  BY DEF StreamInv, HttpTypeOK
<1>2. /\ t.state = "established" /\ k = answered[c] /\ k < requests[c]
      /\ UNCHANGED <<isn_counter, to_client, answered>>
      /\ asked' = [asked EXCEPT ![c] = k + 1]
  BY DEF Request
<1>3. PICK fin \in BOOLEAN : /\ fin => k = requests[c] - 1
                             /\ tcb' = [tcb EXCEPT ![c] = U(fin)]
                             /\ to_server' = to_server \cup {F(fin)}
  BY DEF Request, Send
<1>4. ~t.fin
  BY <1>1, <1>2, ClientIs DEF BlockOK
<1>5. /\ k \in Nat /\ requests[c] \in Nat /\ SeqSpace \in Nat \ {0} /\ ReqLen \in Nat \ {0}
      /\ x \in Nat /\ (k + 1) * ReqLen = x + ReqLen /\ 2 + (k + 1) * ReqLen \in Num /\ i \in Num
  BY <1>1, <1>2, ClientIs, OneMore
<1>0. PICK f : f = F(fin)
  OBVIOUS
<1> DEFINE e == Fin(fin)
           u == U(fin)
<1>6. e \in {0, 1} /\ (fin => e = 1) /\ (~fin => e = 0)
  OBVIOUS
<1> HIDE DEF e, x, i, k
<1>7. Sent(c) = 1 + x /\ t.snd_nxt = Plus(i, 1 + x)
  <2>1. Sent(c) = 1 + x + 0
    BY <1>4 DEF Sent, x, k
  <2>2. Sent(c) = 1 + x
    BY <1>5, <2>1
  <2>3. QED BY <1>1, <1>2, <2>2 DEF BlockOK, At, i
<1>8. 1 + x \in Num /\ ReqLen + e \in Num /\ (1 + x) + (ReqLen + e) \in Num
  BY <1>5, <1>6, NumIs DEF Num
<1>9. Plus(t.snd_nxt, ReqLen + e) = Plus(i, (1 + x) + (ReqLen + e)) /\ Plus(t.snd_nxt, ReqLen + e) \in Num
  <2>1. Plus(Plus(i, 1 + x), ReqLen + e) = Plus(i, (1 + x) + (ReqLen + e))
    BY <1>5, <1>8, PlusPlus
  <2>2. Plus(i, (1 + x) + (ReqLen + e)) \in Num
    BY <1>5, <1>8, PlusIs
  <2>3. QED BY <1>7, <2>1, <2>2
<1>10. /\ u \in Block /\ u.state = t.state /\ u.snd_una = t.snd_una /\ u.rcv_nxt = t.rcv_nxt
       /\ u.fin = fin /\ u.snd_nxt = Plus(t.snd_nxt, ReqLen + e)
  <2> HIDE DEF t
  <2>1. u = [t EXCEPT !.fin = fin, !.snd_nxt = Plus(t.snd_nxt, ReqLen + e)]
    BY DEF e
  <2> HIDE DEF u
  <2>2. QED BY <1>1, <1>9, <2>1 DEF Block
<1> HIDE DEF u
<1>11. /\ tcb' \in [Clients -> Block] /\ tcb'[c] = u /\ \A d \in Clients \ {c} : tcb'[d] = tcb[d]
  BY <1>1, <1>3, <1>10 DEF u
<1>12. asked' \in [Clients -> Nat] /\ asked'[c] = k + 1 /\ \A d \in Clients \ {c} : asked'[d] = asked[d]
  BY <1>1, <1>2, <1>5
<1>13. HttpTypeOK'
  BY <1>1, <1>2, <1>11, <1>12 DEF HttpTypeOK
<1>14. Sent(c)' = (1 + x) + (ReqLen + e)
  <2>1. Sent(c)' = 1 + (k + 1) * ReqLen + (IF fin THEN 1 ELSE 0)
    BY <1>10, <1>11, <1>12 DEF Sent
  <2>2. QED BY <1>5, <1>6, <2>1
<1>15. Base(c)' = Base(c)
  BY <1>2, <1>10, <1>11 DEF Base
<1>16. BlockOK(c)'
  <2>1. PICK v \in 1 + answered[c] * ReqLen .. Sent(c) : t.snd_una = At(c, v)
    BY <1>1, <1>2 DEF BlockOK
  <2>2. v \in 1 + answered'[c] * ReqLen .. Sent(c)'
    <3>1. answered'[c] * ReqLen = x /\ answered[c] * ReqLen = x
      BY <1>2 DEF x
    <3>2. QED BY <1>5, <1>6, <1>7, <1>14, <2>1, <3>1
  <2>3. tcb'[c].snd_nxt = At(c, Sent(c)')
    BY <1>9, <1>10, <1>11, <1>14 DEF At, i
  <2>4. /\ answered'[c] <= asked'[c] /\ asked'[c] <= answered'[c] + 1
        /\ asked'[c] <= requests[c] /\ (fin => asked'[c] = requests[c])
    BY <1>2, <1>3, <1>5, <1>12
  <2>5. tcb'[c].state = "established" /\ tcb'[c].fin = fin /\ tcb'[c].snd_una = t.snd_una
    BY <1>2, <1>10, <1>11
  <2>6. "established" # "syn_sent" /\ "established" \notin {"idle", "arp"}
    OBVIOUS
  <2>7. QED BY <2>1, <2>2, <2>3, <2>4, <2>5, <2>6, Zenon DEF BlockOK, At, Plus
<1>17. Onward(c)
  <2>1. Sent(c) \in Nat /\ Sent(c)' \in Nat /\ Sent(c) <= Sent(c)'
    BY <1>5, <1>6, <1>7, <1>14
  <2>2. asked[c] \in Nat /\ asked'[c] \in Nat /\ asked[c] <= asked'[c]
    BY <1>5, <1>12 DEF k
  <2>3. QED BY <1>2, <1>10, <1>11, <1>15, <2>1, <2>2 DEF Onward
<1>18. \A d \in Clients \ {c} : Same(d)
  BY <1>2, <1>11, <1>12 DEF Same
<1>19. ClientFrame(f, c)'
  <2> DEFINE n == Sent(c)'
             b == Base(c)
             flags == {"ACK", "PSH"} \cup (IF fin THEN {"FIN"} ELSE {})
             o == 1 + x
             ack == t.rcv_nxt
  <2>1. f = Tcp(c, At(c, o), ack, flags, ReqLen)
    BY <1>0, <1>7 DEF At, i
  <2>2. o \in 1 .. n /\ ("FIN" \in flags => o + 1 <= n)
    <3>1. "FIN" \in flags => fin
      OBVIOUS
    <3>2. n = (1 + x) + (ReqLen + e) /\ o = 1 + x
      BY <1>14
    <3> HIDE DEF n, o, flags
    <3>3. QED BY <1>5, <1>6, <3>1, <3>2
  <2>3. flags \in SUBSET {"ACK", "PSH", "FIN"} /\ ReqLen \in 0 .. ReqLen /\ ack \in Num
    BY <1>1, <1>5 DEF Block
  <2>4. k \in 0 .. (k + 1) - 1 /\ o + ReqLen = 1 + (k + 1) * ReqLen
    BY <1>5
  <2>5. ack = ResponseAt(c, b, k)
    BY <1>1, <1>2, NextResponse
  <2> HIDE DEF n, b, flags, o, ack
  <2>6. Segment(f, c, b, k + 1, n)
    BY <2>1, <2>2, <2>3, <2>4, <2>5, Zenon DEF Segment
  <2>7. FromClient(f, c, "established", b, k + 1, n)
    BY <2>6 DEF FromClient
  <2>8. tcb'[c].state = "established" /\ Base(c)' = b /\ asked'[c] = k + 1 /\ Sent(c)' = n
    BY <1>2, <1>10, <1>11, <1>12, <1>15 DEF b, n
  <2>9. QED BY <2>7, <2>8 DEF ClientFrame
<1>20. \A g \in to_server' : g \in to_server \/ ClientFrame(g, c)'
  <2>1. to_server' = to_server \cup {f}
    BY <1>0, <1>3
  <2>2. QED BY <1>19, <2>1
<1>21. \A g \in to_client' : g \in to_client
  BY <1>2
<1>22. QED BY <1>13, <1>16, <1>17, <1>18, <1>20, <1>21, StepAt

(* So does the FIN of a close. *)
LEMMA CloseStreams ==
  ASSUME StreamInv, NEW c \in Clients, Close(c)
  PROVE  StreamInv'
<1> DEFINE t == tcb[c]
           x == asked[c] * ReqLen
           i == iss[c]
           u == [t EXCEPT !.fin = TRUE, !.snd_nxt = Plus(t.snd_nxt, 1)]
<1>1. HttpTypeOK /\ BlockOK(c) /\ t \in Block /\ tcb \in [Clients -> Block]
  BY DEF StreamInv, HttpTypeOK
<1>2. /\ t.state = "established" /\ answered[c] = requests[c] /\ ~t.fin
      /\ UNCHANGED <<isn_counter, to_client, asked, answered>>
      /\ tcb' = [tcb EXCEPT ![c] = u]
  BY DEF Close
<1>3. PICK f : /\ f = Tcp(c, t.snd_nxt, t.rcv_nxt, {"ACK", "FIN"}, 0)
               /\ to_server' = to_server \cup {f}
  BY DEF Close, Send
<1>4. /\ asked[c] = requests[c] /\ x \in Nat /\ 1 + x \in Num /\ 2 + x \in Num
      /\ i \in Num /\ SeqSpace \in Nat \ {0} /\ 1 \in Num /\ ReqLen \in Nat
  <2>1. asked[c] \in 0 .. requests[c] /\ requests[c] \in Nat
    BY <1>1, BlockIs, ClientIs
  <2>2. asked[c] = requests[c]
    BY <1>1, <1>2, <2>1 DEF BlockOK
  <2>3. QED BY <2>1, <2>2, ClientIs
<1> HIDE DEF x, i
<1>5. Sent(c) = 1 + x /\ t.snd_nxt = Plus(i, 1 + x)
  <2>1. Sent(c) = 1 + x + 0
    BY <1>2 DEF Sent, x
  <2>2. Sent(c) = 1 + x
    BY <1>4, <2>1
  <2>3. QED BY <1>1, <1>2, <2>2 DEF BlockOK, At, i
<1>6. Plus(t.snd_nxt, 1) = Plus(i, 2 + x) /\ Plus(t.snd_nxt, 1) \in Num
  <2>1. (1 + x) + 1 = 2 + x
    BY <1>4
  <2>2. Plus(Plus(i, 1 + x), 1) = Plus(i, (1 + x) + 1)
    BY <1>4, <2>1, PlusPlus
  <2>3. Plus(i, 2 + x) \in Num
    BY <1>4, PlusIs
  <2>4. QED BY <1>5, <2>1, <2>2, <2>3
<1>7. /\ u \in Block /\ u.state = t.state /\ u.snd_una = t.snd_una /\ u.rcv_nxt = t.rcv_nxt
      /\ u.fin = TRUE /\ u.snd_nxt = Plus(t.snd_nxt, 1)
  <2> HIDE DEF t
  <2>1. QED BY <1>1, <1>6 DEF Block
<1> HIDE DEF u
<1>8. tcb' \in [Clients -> Block] /\ tcb'[c] = u /\ \A d \in Clients \ {c} : tcb'[d] = tcb[d]
  BY <1>1, <1>2, <1>7
<1>9. HttpTypeOK'
  BY <1>1, <1>2, <1>8 DEF HttpTypeOK
<1>10. Sent(c)' = 2 + x
  <2>1. Sent(c)' = 1 + x + 1
    BY <1>2, <1>7, <1>8 DEF Sent, x
  <2>2. QED BY <1>4, <2>1
<1>11. Base(c)' = Base(c)
  BY <1>2, <1>7, <1>8 DEF Base
<1>12. BlockOK(c)'
  <2>1. PICK v \in 1 + answered[c] * ReqLen .. Sent(c) : t.snd_una = At(c, v)
    BY <1>1, <1>2 DEF BlockOK
  <2>2. v \in 1 + answered'[c] * ReqLen .. Sent(c)'
    <3>1. answered'[c] * ReqLen = x /\ answered[c] * ReqLen = x
      BY <1>2, <1>4 DEF x
    <3>2. QED BY <1>4, <1>5, <1>10, <2>1, <3>1
  <2>3. tcb'[c].snd_nxt = At(c, Sent(c)')
    BY <1>6, <1>7, <1>8, <1>10 DEF At, i
  <2>4. /\ answered'[c] <= asked'[c] /\ asked'[c] <= answered'[c] + 1
        /\ asked'[c] <= requests[c] /\ asked'[c] = requests[c]
    BY <1>1, <1>2, <1>4 DEF BlockOK
  <2>5. tcb'[c].state = "established" /\ tcb'[c].snd_una = t.snd_una
    BY <1>2, <1>7, <1>8
  <2>6. "established" # "syn_sent" /\ "established" \notin {"idle", "arp"}
    OBVIOUS
  <2>7. QED BY <2>1, <2>2, <2>3, <2>4, <2>5, <2>6, Zenon DEF BlockOK, At, Plus
<1>13. Onward(c)
  <2>1. Sent(c) \in Nat /\ Sent(c)' \in Nat /\ Sent(c) <= Sent(c)'
    BY <1>4, <1>5, <1>10
  <2>2. asked[c] \in Nat /\ asked'[c] \in Nat /\ asked[c] <= asked'[c]
    BY <1>1, <1>2 DEF HttpTypeOK
  <2>3. QED BY <1>2, <1>7, <1>8, <1>11, <2>1, <2>2 DEF Onward
<1>14. \A d \in Clients \ {c} : Same(d)
  BY <1>2, <1>8 DEF Same
<1>15. ClientFrame(f, c)'
  <2> DEFINE n == Sent(c)'
             b == Base(c)
             o == 1 + x
             ack == t.rcv_nxt
             flags == {"ACK", "FIN"}
  <2>1. f = Tcp(c, At(c, o), ack, flags, 0)
    BY <1>3, <1>5 DEF At, i
  <2>2. o \in 1 .. n /\ o + 1 <= n
    BY <1>4, <1>10
  <2>3. flags \in SUBSET {"ACK", "PSH", "FIN"} /\ 0 \in 0 .. ReqLen /\ ack \in Num /\ ~(0 > 0)
    BY <1>1, <1>4 DEF Block
  <2> HIDE DEF n, b, flags, o, ack
  <2>4. Segment(f, c, b, asked[c], n)
    BY <2>1, <2>2, <2>3, Zenon DEF Segment
  <2>5. FromClient(f, c, "established", b, asked[c], n)
    BY <2>4 DEF FromClient
  <2>6. tcb'[c].state = "established" /\ Base(c)' = b /\ asked'[c] = asked[c] /\ Sent(c)' = n
    BY <1>2, <1>7, <1>8, <1>11 DEF b, n
  <2>7. QED BY <2>5, <2>6 DEF ClientFrame
<1>16. \A g \in to_server' : g \in to_server \/ ClientFrame(g, c)'
  BY <1>3, <1>15
<1>17. \A g \in to_client' : g \in to_client
  BY <1>2
<1>18. QED BY <1>9, <1>12, <1>13, <1>14, <1>16, <1>17, StepAt

(* What a client sends again is a frame as it has sent before: all it has  *)
(* not had acknowledged, which carries data only while a request waits for *)
(* its response.                                                           *)
LEMMA UnackedIs ==
  ASSUME NEW c \in Clients, HttpTypeOK, BlockOK(c), NEW f \in Unacked(c)
  PROVE  ClientFrame(f, c)
<1> DEFINE t == tcb[c]
           i == iss[c]
           e == IF t.fin THEN 1 ELSE 0
           n == Sent(c)
           x == asked[c] * ReqLen
           y == answered[c] * ReqLen
           k == answered[c]
<1>1. t.state \in {"idle", "arp", "syn_sent", "established"} /\ t.rcv_nxt \in Num
  BY DEF HttpTypeOK, Block
<1>2. CASE t.state = "idle"
  BY <1>2 DEF Unacked
<1>3. CASE t.state = "arp"
  <2>1. f = Arp(c, "request")
    BY <1>3 DEF Unacked
  <2>2. QED BY <2>1 DEF ClientFrame, FromClient
<1>4. CASE t.state = "syn_sent"
  <2>1. f = Tcp(c, iss[c], 0, {"SYN"}, 0)
    BY <1>4 DEF Unacked
  <2>2. QED BY <1>4, <2>1 DEF ClientFrame, FromClient
<1>5. CASE t.state = "established"
  <2> DEFINE len == Minus(t.snd_nxt, t.snd_una) - e
             flags == {"ACK"} \cup (IF t.fin THEN {"FIN"} ELSE {})
  <2>1. t.snd_una # t.snd_nxt /\ f = Tcp(c, t.snd_una, t.rcv_nxt, flags, len)
    BY <1>5 DEF Unacked
  <2>2. /\ i \in Num /\ SeqSpace \in Nat \ {0} /\ ReqLen \in Nat \ {0} /\ n \in Num
        /\ k \in Nat /\ asked[c] \in Nat /\ x \in Nat /\ y \in Nat
        /\ k <= asked[c] /\ asked[c] <= k + 1
    <3>1. k \in Nat /\ asked[c] \in Nat /\ ReqLen \in Nat \ {0}
      BY BlockIs, ClientIs
    <3>2. QED BY <3>1, BlockIs, ClientIs, OneMore DEF BlockOK
  <2>3. e \in {0, 1} /\ n = 1 + x + e /\ ("FIN" \in flags => e = 1)
    BY DEF Sent
  <2>4. PICK v \in 1 + y .. n : t.snd_una = Plus(i, v)
    BY <1>5 DEF BlockOK, At
  <2>5. t.snd_nxt = Plus(i, n)
    BY <1>5 DEF BlockOK, At
  <2>6. (asked[c] = k /\ x = y) \/ (asked[c] = k + 1 /\ x = y + ReqLen)
    <3>1. asked[c] = k \/ asked[c] = k + 1
      BY <2>2
    <3>2. (k + 1) * ReqLen = y + ReqLen
      BY <2>2, OneMore
    <3>3. QED BY <3>1, <3>2
  <2> HIDE DEF e, i, n, x, y, k
  <2>7. v \in Num /\ v # n
    BY <2>1, <2>2, <2>4, <2>5 DEF Num
  <2>8. len = n - v - e
    <3>1. Minus(Plus(i, n), Plus(i, v)) = IF v <= n THEN n - v ELSE n + SeqSpace - v
      BY <2>2, <2>7, Between
    <3>2. v <= n
      BY <2>2, <2>4 DEF Num
    <3>3. QED BY <2>4, <2>5, <3>1, <3>2
  <2> HIDE DEF len
  <2>9. len \in 0 .. ReqLen /\ v \in 1 .. n /\ v + 1 <= n
    BY <2>2, <2>3, <2>4, <2>6, <2>7, <2>8 DEF Num
  <2>10. len > 0 => asked[c] = k + 1 /\ v + len = 1 + (k + 1) * ReqLen
    <3>1. len > 0 => asked[c] = k + 1
      BY <2>2, <2>3, <2>4, <2>6, <2>8 DEF Num
    <3>2. x = asked[c] * ReqLen
      BY DEF x
    <3>3. v + len = 1 + x
      BY <2>2, <2>3, <2>4, <2>8 DEF Num
    <3>4. QED BY <3>1, <3>2, <3>3
  <2>11. t.rcv_nxt = ResponseAt(c, Base(c), k)
    BY NextResponse DEF k
  <2>12. flags \in SUBSET {"ACK", "PSH", "FIN"} /\ (len > 0 => k \in 0 .. asked[c] - 1)
    BY <2>2, <2>10
  <2>13. f = Tcp(c, At(c, v), t.rcv_nxt, flags, len)
    BY <2>1, <2>4 DEF At, i
  <2>14. Segment(f, c, Base(c), asked[c], n)
    <3> HIDE DEF flags, t
    <3>1. QED BY <1>1, <2>9, <2>10, <2>11, <2>12, <2>13, Zenon DEF Segment
  <2>15. QED BY <1>5, <2>14 DEF ClientFrame, FromClient, n
<1>6. QED BY <1>1, <1>2, <1>3, <1>4, <1>5

(* A retransmission puts nothing new into the streams. *)
LEMMA TimeoutStreams ==
  ASSUME StreamInv, NEW c \in Clients, Timeout(c)
  PROVE  StreamInv'
<1>1. /\ to_server' = to_server \cup Unacked(c)
      /\ UNCHANGED <<isn_counter, to_client, tcb, asked, answered>>
  BY DEF Timeout, Send
<1>2. HttpTypeOK /\ BlockOK(c)
  BY DEF StreamInv
<1>3. \A d \in Clients : Same(d)
  BY <1>1 DEF Same
<1>4. HttpTypeOK'
  BY <1>1, <1>2 DEF HttpTypeOK
<1>5. BlockOK(c)' /\ Onward(c)
  BY <1>2, <1>3, SameStays
<1>6. \A f \in Unacked(c) : ClientFrame(f, c)'
  BY <1>2, <1>5, UnackedIs, FramesStay
<1>7. QED BY <1>1, <1>3, <1>4, <1>5, <1>6, StepAt

(* The fields of a frame of the server: a response has its place in the    *)
(* stream, and every acknowledgement is of something sent.                 *)
Fields(g, c) ==
  /\ g.client = c /\ g.payload \in BOOLEAN /\ g.seq \in Num
  /\ tcb[c].state \in {"syn_sent", "established"}
  /\ \E o \in 1 .. Sent(c) : g.ack = At(c, o)
  /\ g.payload =>
       /\ tcb[c].state = "established"
       /\ \E k \in 0 .. asked[c] - 1 : /\ g.seq = ResponseAt(c, Base(c), k)
                                       /\ g.ack = At(c, 1 + (k + 1) * ReqLen)

(* A frame to a client that is not ARP has these fields. *)
LEMMA ServerFrameIs ==
  ASSUME NEW c \in Clients, HttpTypeOK, BlockOK(c), NEW g, ServerFrame(g, c), g.type = "ip"
  PROVE  Fields(g, c)
<1> DEFINE st == tcb[c].state
           n == Sent(c)
           b == Base(c)
           m == asked[c]
<1>1. FromServer(g, c, st, b, m, n)
  BY DEF ServerFrame
<1>2. n \in Num /\ n \in Nat /\ 1 <= n /\ b \in Num /\ m \in Nat /\ m \in 0 .. requests[c] /\ SeqSpace \in Nat \ {0}
  <2>1. n \in Num /\ 1 <= n /\ b \in Num /\ m \in Nat /\ m \in 0 .. requests[c] /\ SeqSpace \in Nat \ {0}
    BY BlockIs, ClientIs
  <2>2. QED BY <2>1 DEF Num
<1>3. CASE g = Arp(c, "reply")
  BY <1>3 DEF Arp
<1>4. ASSUME NEW s \in Num, g = Reply(c, s, At(c, 1), {"SYN", "ACK"}, FALSE),
             st \in {"syn_sent", "established"}
      PROVE  Fields(g, c)
  <2>1. g.client = c /\ g.payload = FALSE /\ g.seq = s /\ g.ack = At(c, 1)
    BY <1>4 DEF Reply
  <2>2. 1 \in 1 .. n
    BY <1>2
  <2>3. QED BY <1>4, <2>1, <2>2 DEF Fields
<1>5. ASSUME NEW k \in 0 .. m - 1, st = "established",
             g = Reply(c, ResponseAt(c, b, k), At(c, 1 + (k + 1) * ReqLen), {"PSH", "ACK"}, TRUE)
      PROVE  Fields(g, c)
  <2>1. /\ g.client = c /\ g.payload = TRUE /\ g.seq = ResponseAt(c, b, k)
        /\ g.ack = At(c, 1 + (k + 1) * ReqLen) /\ g.flags = {"PSH", "ACK"}
    BY <1>5 DEF Reply
  <2>2. g.seq \in Num
    <3>1. k \in 0 .. requests[c]
      BY <1>2, ClientIs
    <3>2. k * http_len[c] \in Num
      BY <3>1, ClientIs
    <3>3. QED BY <1>2, <2>1, <3>2, PlusIs DEF ResponseAt
  <2>3. 1 + (k + 1) * ReqLen \in 1 .. n
    <3> DEFINE y == (k + 1) * ReqLen
               x == m * ReqLen
               z == m - (k + 1)
    <3>1. k + 1 \in Nat /\ z \in Nat /\ ReqLen \in Nat /\ m = (k + 1) + z
      BY <1>2, ClientIs
    <3> HIDE DEF z
    <3>2. x = y + z * ReqLen /\ z * ReqLen \in Nat /\ y \in Nat
      BY <3>1
    <3>3. y <= x /\ y \in Nat /\ x \in Nat
      BY <3>2
    <3> HIDE DEF y, x
    <3>4. \E e \in {0, 1} : n = 1 + x + e
      BY DEF Sent, x
    <3>5. 1 + y \in 1 .. n
      BY <1>2, <3>3, <3>4
    <3>6. QED BY <3>5 DEF y
  <2>4. QED BY <1>5, <2>1, <2>2, <2>3 DEF Fields
<1>6. ASSUME NEW s \in Num, NEW o \in 1 .. n, st = "established",
             g = Reply(c, s, At(c, o), {"ACK"}, FALSE)
      PROVE  Fields(g, c)
  <2>1. g.client = c /\ g.payload = FALSE /\ g.seq = s /\ g.ack = At(c, o) /\ g.flags = {"ACK"}
    BY <1>6 DEF Reply
  <2>2. QED BY <1>6, <2>1 DEF Fields
<1>7. QED BY <1>1, <1>3, <1>4, <1>5, <1>6 DEF FromServer

(* A response that a client takes is the one to its request that waits for *)
(* one.                                                                    *)
LEMMA TakenIsAsked ==
  ASSUME NEW c \in Clients, HttpTypeOK, BlockOK(c), NEW g, ServerFrame(g, c), g.type = "ip",
         g.payload, g.seq = tcb[c].rcv_nxt
  PROVE  /\ answered[c] < asked[c] /\ tcb[c].state = "established"
         /\ g.ack = At(c, 1 + (answered[c] + 1) * ReqLen)
<1> DEFINE b == Base(c)
           j == answered[c]
           h == http_len[c]
<1>1. PICK k \in 0 .. asked[c] - 1 : g.seq = ResponseAt(c, b, k) /\ g.ack = At(c, 1 + (k + 1) * ReqLen)
  BY ServerFrameIs DEF Fields
<1>2. ResponseAt(c, b, j) = tcb[c].rcv_nxt
  BY NextResponse
<1>3. /\ SeqSpace \in Nat \ {0} /\ b \in Num /\ j \in 0 .. requests[c] /\ asked[c] \in 0 .. requests[c]
      /\ requests[c] \in Nat
  BY BlockIs, ClientIs
<1>4. k \in 0 .. requests[c] /\ k \in Nat /\ j \in Nat /\ k < asked[c]
  BY <1>3
<1>5. k * h \in Num /\ j * h \in Num
  BY <1>3, <1>4, ClientIs
<1>6. k * h = j * h
  <2> HIDE DEF b, h, j
  <2>1. Plus(b, k * h) = Plus(b, j * h)
    BY <1>1, <1>2 DEF ResponseAt, h
  <2>2. QED BY <1>3, <1>5, <2>1, PlusInjective
<1>7. k = j
  <2>1. h \in Nat /\ h >= 1
    BY HttpLen
  <2> HIDE DEF h, j
  <2>2. CASE k < j
    <3>1. j - k \in Nat /\ j - k >= 1 /\ j * h = k * h + (j - k) * h
      BY <1>4, <2>1, <2>2
    <3>2. (j - k) * h >= 1
      BY <2>1, <3>1
    <3>3. QED BY <1>4, <1>6, <2>1, <3>1, <3>2
  <2>3. CASE j < k
    <3>1. k - j \in Nat /\ k - j >= 1 /\ k * h = j * h + (k - j) * h
      BY <1>4, <2>1, <2>3
    <3>2. (k - j) * h >= 1
      BY <2>1, <3>1
    <3>3. QED BY <1>4, <1>6, <2>1, <3>1, <3>2
  <2>4. QED BY <1>4, <2>2, <2>3
<1>8. tcb[c].state = "established"
  BY ServerFrameIs DEF Fields
<1>9. QED BY <1>1, <1>4, <1>7, <1>8

(* A client that takes an acknowledgement does not go back, nor beyond     *)
(* what it has sent.                                                       *)
LEMMA AckMoves ==
  ASSUME SeqSpace \in Nat \ {0}, NEW i \in Num, NEW n \in Num, NEW v \in 1 .. n, NEW w \in 1 .. n,
         NEW t, t.snd_una = Plus(i, v), t.snd_nxt = Plus(i, n)
  PROVE  /\ Advances(t, Plus(i, w)) <=> v < w
         /\ (IF Advances(t, Plus(i, w)) THEN Plus(i, w) ELSE t.snd_una)
              = Plus(i, IF v < w THEN w ELSE v)
<1>1. v \in Num /\ w \in Num /\ v \in Nat /\ w \in Nat /\ n \in Nat
  BY DEF Num
<1>2. Minus(Plus(i, w), Plus(i, v)) = IF v <= w THEN w - v ELSE w + SeqSpace - v
  BY <1>1, Between
<1>3. Minus(Plus(i, n), Plus(i, v)) = IF v <= n THEN n - v ELSE n + SeqSpace - v
  BY <1>1, Between
<1> DEFINE p == Minus(Plus(i, w), Plus(i, v))
           q == Minus(Plus(i, n), Plus(i, v))
<1>4. p = IF v <= w THEN w - v ELSE w + SeqSpace - v
  BY <1>2
<1>5. q = n - v
  BY <1>1, <1>3
<1>6. Advances(t, Plus(i, w)) <=> p \in 1 .. q
  BY DEF Advances
<1> HIDE DEF p, q
<1>7. p \in 1 .. q <=> v < w
  BY <1>1, <1>4, <1>5 DEF Num
<1>8. QED BY <1>6, <1>7

(* The answer to the ARP request. *)
LEMMA ArpStreams ==
  ASSUME StreamInv, NEW c \in Clients, tcb[c].state = "arp",
         UNCHANGED <<isn_counter, asked, answered>>, \A g \in to_client' : g \in to_client,
         tcb' = [tcb EXCEPT ![c].state = "syn_sent", ![c].snd_nxt = Plus(iss[c], 1)],
         Send({Tcp(c, iss[c], 0, {"SYN"}, 0)})
  PROVE  StreamInv'
<1> DEFINE t == tcb[c]
           u == [t EXCEPT !.state = "syn_sent", !.snd_nxt = Plus(iss[c], 1)]
<1>1. tcb' = [tcb EXCEPT ![c] = u]
  OBVIOUS
<1>2. HttpTypeOK /\ BlockOK(c) /\ t \in Block /\ tcb \in [Clients -> Block]
  BY DEF StreamInv, HttpTypeOK
<1>3. Plus(iss[c], 1) \in Num
  BY ClientIs, PlusIs
<1>4. /\ u \in Block /\ u.state = "syn_sent" /\ u.snd_una = t.snd_una /\ u.snd_nxt = At(c, 1)
      /\ u.rcv_nxt = t.rcv_nxt /\ u.fin = t.fin
  <2> HIDE DEF t
  <2>1. QED BY <1>2, <1>3 DEF Block, At
<1> HIDE DEF u
<1>5. tcb' \in [Clients -> Block] /\ tcb'[c] = u /\ \A d \in Clients \ {c} : tcb'[d] = tcb[d]
  BY <1>1, <1>2, <1>4
<1>6. HttpTypeOK'
  BY <1>2, <1>5 DEF HttpTypeOK
<1>7. Sent(c)' = Sent(c)
  BY <1>4, <1>5 DEF Sent
<1>8. BlockOK(c)'
  <2>1. /\ answered[c] <= asked[c] /\ asked[c] <= answered[c] + 1 /\ asked[c] <= requests[c]
        /\ asked[c] = 0 /\ ~t.fin /\ t.snd_una = iss[c]
    BY <1>2 DEF BlockOK
  <2>2. /\ tcb'[c].state = "syn_sent" /\ ~tcb'[c].fin /\ tcb'[c].snd_una = iss[c]
        /\ tcb'[c].snd_nxt = At(c, 1) /\ asked'[c] = asked[c] /\ answered'[c] = answered[c]
    BY <1>4, <1>5, <2>1
  <2>3. "syn_sent" # "established" /\ "syn_sent" \notin {"idle", "arp"}
    OBVIOUS
  <2>4. QED BY <2>1, <2>2, <2>3, Zenon DEF BlockOK, At, Plus
<1>9. Onward(c)
  <2>1. Sent(c) \in Num /\ asked[c] \in Nat /\ SeqSpace \in Nat \ {0}
    BY <1>2, BlockIs, ClientIs
  <2>2. Sent(c) \in Nat
    BY <2>1 DEF Num
  <2>3. QED BY <1>7, <2>1, <2>2 DEF Onward
<1>10. \A d \in Clients \ {c} : Same(d)
  BY <1>5 DEF Same
<1>11. PICK f : f = Tcp(c, iss[c], 0, {"SYN"}, 0)
  OBVIOUS
<1>12. ClientFrame(f, c)'
  BY <1>4, <1>5, <1>11 DEF ClientFrame, FromClient
<1>13. \A g \in to_server' : g \in to_server \/ ClientFrame(g, c)'
  BY <1>11, <1>12 DEF Send
<1>14. QED BY <1>6, <1>8, <1>9, <1>10, <1>13, StepAt

(* The answer to the SYN. *)
LEMMA SynAckStreams ==
  ASSUME StreamInv, NEW c \in Clients, NEW f \in to_client, ServerFrame(f, c), f.type = "ip",
         tcb[c].state = "syn_sent", f.ack = tcb[c].snd_nxt,
         UNCHANGED <<isn_counter, asked, answered>>, \A g \in to_client' : g \in to_client,
         tcb' = [tcb EXCEPT ![c].state = "established",
                            ![c].snd_una = f.ack, ![c].rcv_nxt = Plus(f.seq, 1)],
         Send({Tcp(c, f.ack, Plus(f.seq, 1), {"ACK"}, 0)})
  PROVE  StreamInv'
<1> DEFINE t == tcb[c]
           u == [t EXCEPT !.state = "established", !.snd_una = f.ack, !.rcv_nxt = Plus(f.seq, 1)]
<1>1. tcb' = [tcb EXCEPT ![c] = u]
  OBVIOUS
<1>2. HttpTypeOK /\ BlockOK(c) /\ t \in Block /\ tcb \in [Clients -> Block]
  BY DEF StreamInv, HttpTypeOK
<1>3. SeqSpace \in Nat \ {0} /\ f.seq \in Num /\ Plus(f.seq, 1) \in Num /\ ReqLen \in Nat
  <2>1. SeqSpace \in Nat \ {0} /\ 1 \in Num /\ ReqLen \in Nat
    BY ClientIs
  <2>2. f.seq \in Num
    BY <1>2, ServerFrameIs DEF Fields
  <2>3. QED BY <2>1, <2>2, PlusIs
<1>4. /\ answered[c] <= asked[c] /\ asked[c] <= answered[c] + 1 /\ asked[c] <= requests[c]
      /\ asked[c] = 0 /\ ~t.fin /\ t.snd_nxt = At(c, 1) /\ answered[c] \in Nat
  BY <1>2 DEF BlockOK, HttpTypeOK
<1>5. /\ u \in Block /\ u.state = "established" /\ u.snd_una = At(c, 1) /\ u.snd_nxt = At(c, 1)
      /\ u.rcv_nxt = Plus(f.seq, 1) /\ u.fin = FALSE
  <2>1. f.ack = At(c, 1) /\ f.ack = t.snd_nxt /\ t.fin = FALSE
    BY <1>2, <1>4 DEF Block
  <2> HIDE DEF t
  <2>2. QED BY <1>2, <1>3, <2>1 DEF Block
<1> HIDE DEF u
<1>6. tcb' \in [Clients -> Block] /\ tcb'[c] = u /\ \A d \in Clients \ {c} : tcb'[d] = tcb[d]
  BY <1>1, <1>2, <1>5
<1>7. HttpTypeOK'
  BY <1>2, <1>6 DEF HttpTypeOK
<1>8. Sent(c) = 1 /\ Sent(c)' = 1 /\ answered[c] = 0
  <2>1. Sent(c) = 1 + 0 * ReqLen + 0 /\ Sent(c)' = 1 + 0 * ReqLen + 0
    BY <1>4, <1>5, <1>6 DEF Sent
  <2>2. QED BY <1>3, <1>4, <2>1
<1>9. BlockOK(c)'
  <2>1. 1 \in 1 + answered'[c] * ReqLen .. Sent(c)'
    <3>1. answered'[c] * ReqLen = 0
      BY <1>3, <1>8
    <3>2. QED BY <1>8, <3>1
  <2>2. /\ tcb'[c].state = "established" /\ ~tcb'[c].fin /\ tcb'[c].snd_una = At(c, 1)
        /\ tcb'[c].snd_nxt = At(c, Sent(c)') /\ asked'[c] = asked[c] /\ answered'[c] = answered[c]
    BY <1>5, <1>6, <1>8
  <2>3. "established" # "syn_sent" /\ "established" \notin {"idle", "arp"}
    OBVIOUS
  <2>4. QED BY <1>4, <2>1, <2>2, <2>3, Zenon DEF BlockOK, At, Plus
<1>10. Onward(c)
  BY <1>4, <1>5, <1>6, <1>8 DEF Onward
<1>11. \A d \in Clients \ {c} : Same(d)
  BY <1>6 DEF Same
<1>12. PICK g : g = Tcp(c, f.ack, Plus(f.seq, 1), {"ACK"}, 0)
  OBVIOUS
<1>13. ClientFrame(g, c)'
  <2>1. /\ 1 \in 1 .. 1 /\ 0 \in 0 .. ReqLen /\ ~(0 > 0) /\ "FIN" \notin {"ACK"}
        /\ {"ACK"} \in SUBSET {"ACK", "PSH", "FIN"}
    BY <1>3
  <2>2. g = Tcp(c, At(c, 1), Plus(f.seq, 1), {"ACK"}, 0)
    BY <1>4, <1>12
  <2>3. ASSUME NEW b, NEW m PROVE Segment(g, c, b, m, 1)
    BY <1>3, <2>1, <2>2, Zenon DEF Segment
  <2>4. ASSUME NEW b, NEW m PROVE FromClient(g, c, "established", b, m, 1)
    BY <2>3 DEF FromClient
  <2>5. tcb'[c].state = "established" /\ Sent(c)' = 1
    BY <1>5, <1>6, <1>8
  <2>6. QED BY <2>4, <2>5 DEF ClientFrame
<1>14. \A x \in to_server' : x \in to_server \/ ClientFrame(x, c)'
  BY <1>12, <1>13 DEF Send
<1>15. QED BY <1>7, <1>9, <1>10, <1>11, <1>14, StepAt

(* A response, or an acknowledgement, at the place the client expects.     *)
LEMMA TakeStreams ==
  ASSUME StreamInv, NEW c \in Clients, NEW f \in to_client, ServerFrame(f, c), f.type = "ip",
         tcb[c].state = "established", f.seq = tcb[c].rcv_nxt,
         UNCHANGED <<isn_counter, asked, to_server>>, \A g \in to_client' : g \in to_client,
         tcb' = [tcb EXCEPT ![c].snd_una = IF Advances(tcb[c], f.ack) THEN f.ack ELSE @,
                            ![c].rcv_nxt = Plus(@, LenOf(f))],
         answered' = [answered EXCEPT ![c] = @ + (IF f.payload THEN 1 ELSE 0)]
  PROVE  StreamInv'
<1> DEFINE t == tcb[c]
           i == iss[c]
           n == Sent(c)
           una == IF Advances(t, f.ack) THEN f.ack ELSE t.snd_una
           rcv == Plus(t.rcv_nxt, LenOf(f))
           u == [t EXCEPT !.snd_una = una, !.rcv_nxt = rcv]
           k == answered[c]
           j == IF f.payload THEN k + 1 ELSE k
           h == http_len[c]
<1>1. tcb' = [tcb EXCEPT ![c] = u]
  OBVIOUS
<1>2. HttpTypeOK /\ BlockOK(c) /\ t \in Block /\ tcb \in [Clients -> Block] /\ answered \in [Clients -> Nat]
  BY DEF StreamInv, HttpTypeOK
<1>3. /\ SeqSpace \in Nat \ {0} /\ i \in Num /\ n \in Num /\ 0 \in Num
      /\ ReqLen \in Nat /\ k \in Nat /\ asked[c] \in Nat /\ requests[c] \in Nat
      /\ asked[c] \in 0 .. requests[c] /\ k \in 0 .. requests[c] /\ Base(c) \in Num
  BY <1>2, ClientIs, BlockIs
<1>4. f.client = c /\ f.payload \in BOOLEAN /\ \E o \in 1 .. n : f.ack = At(c, o)
  BY <1>2, ServerFrameIs DEF Fields
<1>5. PICK w \in 1 .. n : f.ack = Plus(i, w) /\ (f.payload => w = 1 + (k + 1) * ReqLen /\ k < asked[c])
  <2>1. PICK w \in 1 .. n : f.ack = At(c, w)
    BY <1>4
  <2>2. CASE ~f.payload
    BY <2>1, <2>2 DEF At
  <2>3. CASE f.payload
    <3>1. k < asked[c] /\ f.ack = At(c, 1 + (k + 1) * ReqLen)
      BY <1>2, <2>3, TakenIsAsked
    <3>2. k + 1 \in 0 .. requests[c]
      BY <1>3, <3>1
    <3>3. 1 + (k + 1) * ReqLen \in Num
      BY <3>2, ClientIs
    <3>4. w \in Num
      BY <1>3 DEF Num
    <3>5. w = 1 + (k + 1) * ReqLen
      <4> HIDE DEF i, n, k
      <4>1. Plus(i, w) = Plus(i, 1 + (k + 1) * ReqLen)
        BY <2>1, <3>1 DEF At, i
      <4>2. QED BY <1>3, <3>3, <3>4, <4>1, PlusInjective
    <3>6. QED BY <2>1, <3>1, <3>5 DEF At
  <2>4. QED BY <1>4, <2>2, <2>3
<1>6. PICK v \in 1 + k * ReqLen .. n : t.snd_una = Plus(i, v)
  BY <1>2 DEF BlockOK, At
<1>7. t.snd_nxt = Plus(i, n)
  BY <1>2 DEF BlockOK, At
<1>8. k * ReqLen \in Nat /\ (k + 1) * ReqLen = k * ReqLen + ReqLen /\ n \in Nat
  <2>1. n \in Nat
    BY <1>3 DEF Num
  <2>2. QED BY <1>3, <2>1, OneMore
<1> DEFINE z == IF v < w THEN w ELSE v
<1>9. una = Plus(i, z)
  <2>1. v \in 1 .. n
    BY <1>6, <1>8
  <2> HIDE DEF t, i, n
  <2>2. (IF Advances(t, Plus(i, w)) THEN Plus(i, w) ELSE t.snd_una) = Plus(i, z)
    BY <1>3, <1>6, <1>7, <2>1, AckMoves
  <2>3. QED BY <1>5, <2>2
<1>10. j \in Nat /\ k <= j /\ z \in 1 + j * ReqLen .. n /\ z \in Num /\ j <= asked[c] /\ asked[c] <= j + 1
  <2>0. k <= asked[c] /\ asked[c] <= k + 1
    BY <1>2 DEF BlockOK
  <2>1. z \in 1 .. n /\ v <= z /\ w <= z /\ z \in Nat
    BY <1>5, <1>6, <1>8
  <2>2. z \in Num
    BY <1>3, <2>1 DEF Num
  <2>3. CASE f.payload
    <3>1. j = k + 1 /\ w = 1 + (k + 1) * ReqLen /\ k < asked[c]
      BY <1>5, <2>3
    <3>2. (k + 1) * ReqLen \in Nat
      BY <1>3, <1>8
    <3> HIDE DEF z, j, k, n
    <3>3. QED BY <1>3, <1>8, <2>0, <2>1, <2>2, <3>1, <3>2
  <2>4. CASE ~f.payload
    <3>1. j = k
      BY <2>4
    <3> HIDE DEF z, j, k, n
    <3>2. QED BY <1>3, <1>6, <1>8, <2>0, <2>1, <2>2, <3>1
  <2>5. QED BY <1>4, <2>3, <2>4
<1>11. rcv \in Num /\ Minus(rcv, j * h) = Base(c)
  <2>1. t.rcv_nxt \in Num /\ k * h \in Num
    BY <1>2, <1>3, ClientIs DEF Block
  <2>2. CASE f.payload
    <3>1. LenOf(f) = h /\ j = k + 1
      BY <1>4, <2>2 DEF LenOf
    <3>2. h \in Nat /\ h >= 1
      BY HttpLen
    <3>3. (k + 1) * h = k * h + h /\ k * h \in Nat
      BY <1>3, <3>2, OneMore
    <3>4. k + 1 \in 0 .. requests[c]
      BY <1>3, <1>5, <2>2
    <3>5. (k + 1) * h \in Num
      BY <3>4, ClientIs
    <3> DEFINE r == t.rcv_nxt
               m == k * h
    <3> HIDE DEF r, h, m, j
    <3>6. r \in Num /\ m \in Num /\ h \in Num /\ m + h \in Num /\ j * h = m + h
      BY <1>3, <2>1, <3>1, <3>2, <3>3, <3>5 DEF Num, r, m
    <3>7. Minus(Plus(r, h), m + h) = Minus(r, m) /\ Plus(r, h) \in Num
      BY <1>3, <3>6, MinusStays, PlusIs
    <3>8. rcv = Plus(r, h) /\ Base(c) = Minus(r, m)
      BY <3>1 DEF r, m, Base, h
    <3>9. QED BY <3>6, <3>7, <3>8
  <2>3. CASE ~f.payload
    <3>1. LenOf(f) = 0 /\ j = k
      BY <2>3 DEF LenOf
    <3>2. Plus(t.rcv_nxt, 0) = t.rcv_nxt
      <4> DEFINE r == t.rcv_nxt
      <4> HIDE DEF r
      <4>1. r \in Num
        BY <2>1 DEF r
      <4>2. Plus(r, 0) = IF r + 0 < SeqSpace THEN r + 0 ELSE r + 0 - SeqSpace
        BY <1>3, <4>1, PlusIs
      <4>3. Plus(r, 0) = r
        BY <1>3, <4>1, <4>2 DEF Num
      <4>4. QED BY <4>3 DEF r
    <3>3. QED BY <2>1, <3>1, <3>2 DEF Base
  <2>4. QED BY <1>4, <2>2, <2>3
<1>12. una \in Num
  BY <1>3, <1>9, <1>10, PlusIs
<1>13. /\ u \in Block /\ u.state = "established" /\ u.snd_una = Plus(i, z) /\ u.snd_nxt = t.snd_nxt
       /\ u.rcv_nxt = rcv /\ u.fin = t.fin
  <2>1. u.state = t.state /\ t.state = "established"
    BY <1>2 DEF Block
  <2> HIDE DEF una, rcv, z, t, i
  <2>2. QED BY <1>2, <1>9, <1>11, <1>12, <2>1 DEF Block
<1> HIDE DEF u, rcv, una
<1>14. tcb' \in [Clients -> Block] /\ tcb'[c] = u /\ \A d \in Clients \ {c} : tcb'[d] = tcb[d]
  BY <1>1, <1>2, <1>13
<1>15. answered' \in [Clients -> Nat] /\ answered'[c] = j /\ \A d \in Clients \ {c} : answered'[d] = answered[d]
  <2>1. answered'[c] = k + (IF f.payload THEN 1 ELSE 0) /\ \A d \in Clients \ {c} : answered'[d] = answered[d]
    BY <1>2
  <2>2. answered'[c] = j
    BY <1>3, <1>4, <2>1
  <2> HIDE DEF j
  <2>3. DOMAIN answered' = Clients /\ answered' = [d \in Clients |-> answered'[d]]
    BY <1>2
  <2>4. \A d \in Clients : answered'[d] \in Nat
    BY <1>2, <1>10, <2>1, <2>2
  <2>5. QED BY <2>1, <2>2, <2>3, <2>4
<1>16. HttpTypeOK'
  BY <1>2, <1>14, <1>15 DEF HttpTypeOK
<1>17. Sent(c)' = n
  BY <1>13, <1>14 DEF Sent
<1>18. Base(c)' = Base(c)
  BY <1>11, <1>13, <1>14, <1>15 DEF Base
<1>19. BlockOK(c)'
  <2>1. tcb'[c].snd_nxt = At(c, Sent(c)')
    BY <1>7, <1>13, <1>14, <1>17 DEF At
  <2>2. tcb'[c].snd_una = At(c, z) /\ z \in 1 + answered'[c] * ReqLen .. Sent(c)'
    BY <1>10, <1>13, <1>14, <1>15, <1>17 DEF At
  <2>3. /\ answered'[c] <= asked'[c] /\ asked'[c] <= answered'[c] + 1 /\ asked'[c] <= requests[c]
        /\ (t.fin => asked'[c] = requests[c])
    BY <1>2, <1>10, <1>15 DEF BlockOK
  <2>4. tcb'[c].state = "established" /\ tcb'[c].fin = t.fin
    BY <1>13, <1>14
  <2>5. "established" # "syn_sent" /\ "established" \notin {"idle", "arp"}
    OBVIOUS
  <2> HIDE DEF z
  <2>6. QED BY <2>1, <2>2, <2>3, <2>4, <2>5, Zenon DEF BlockOK, At, Plus
<1>20. Onward(c)
  BY <1>3, <1>8, <1>13, <1>14, <1>17, <1>18 DEF Onward
<1>21. \A d \in Clients \ {c} : Same(d)
  BY <1>14, <1>15 DEF Same
<1>22. QED BY <1>16, <1>19, <1>20, <1>21, StepAt

(* Whatever a client receives, the streams stay as they are. *)
LEMMA ClientReceiveStreams ==
  ASSUME StreamInv, NEW c \in Clients, ClientReceive(c)
  PROVE  StreamInv'
<1>1. PICK f \in to_client : /\ f.client = c /\ Deliver(to_client, f) /\ Accept(c, f)
                             /\ UNCHANGED <<isn_counter, asked>>
  BY DEF ClientReceive
<1>2. \A g \in to_client' : g \in to_client
  BY <1>1 DEF Deliver
<1>3. ServerFrame(f, c)
  <2>1. PICK d \in Clients : ServerFrame(f, d)
    BY DEF StreamInv
  <2>2. f.client = d
    <3>1. f = Arp(d, "reply") \/ \E seq, ack, flags, payload : f = Reply(d, seq, ack, flags, payload)
      BY <2>1 DEF ServerFrame, FromServer
    <3>2. QED BY <3>1 DEF Arp, Reply
  <2>3. QED BY <1>1, <2>1, <2>2
<1> DEFINE t == tcb[c]
           A == t.state = "arp" /\ f.type = "arp"
           B == t.state = "syn_sent" /\ f.type = "ip" /\ f.flags = {"SYN", "ACK"} /\ f.ack = t.snd_nxt
           D == t.state = "established" /\ f.type = "ip" /\ "SYN" \notin f.flags /\ f.seq = t.rcv_nxt
<1>4. CASE A
  <2>1. /\ tcb' = [tcb EXCEPT ![c].state = "syn_sent", ![c].snd_nxt = Plus(iss[c], 1)]
        /\ Send({Tcp(c, iss[c], 0, {"SYN"}, 0)})
        /\ UNCHANGED answered
    BY <1>1, <1>4 DEF Accept
  <2>2. QED BY <1>1, <1>2, <1>4, <2>1, ArpStreams
<1>5. CASE B
  <2>1. /\ tcb' = [tcb EXCEPT ![c].state = "established",
                              ![c].snd_una = f.ack, ![c].rcv_nxt = Plus(f.seq, 1)]
        /\ Send({Tcp(c, f.ack, Plus(f.seq, 1), {"ACK"}, 0)})
        /\ UNCHANGED answered
    BY <1>1, <1>5 DEF Accept
  <2>2. QED BY <1>1, <1>2, <1>3, <1>5, <2>1, SynAckStreams
<1>6. CASE D
  <2>1. /\ tcb' = [tcb EXCEPT ![c].snd_una = IF Advances(tcb[c], f.ack) THEN f.ack ELSE @,
                              ![c].rcv_nxt = Plus(@, LenOf(f))]
        /\ answered' = [answered EXCEPT ![c] = @ + (IF f.payload THEN 1 ELSE 0)]
        /\ UNCHANGED to_server
    BY <1>1, <1>6 DEF Accept
  <2>2. QED BY <1>1, <1>2, <1>3, <1>6, <2>1, TakeStreams
<1>7. CASE ~A /\ ~B /\ ~D
  <2>1. UNCHANGED <<tcb, to_server, answered>>
    BY <1>1, <1>7, Zenon DEF Accept
  <2>2. isn_counter' \in Num
    BY <1>1 DEF StreamInv, HttpTypeOK
  <2>3. QED BY <1>1, <1>2, <2>1, <2>2, StepServer
<1>8. QED BY <1>4, <1>5, <1>6, <1>7

(* The first connection has not begun. *)
LEMMA HttpInitInv == HttpInit => StreamInv
<1> SUFFICES ASSUME HttpInit PROVE StreamInv
  OBVIOUS
<1>1. HttpTypeOK
  <2>1. isn_counter \in Num
    BY HttpAssumption DEF HttpInit, Num
  <2>2. ASSUME NEW c \in Clients PROVE iss[c] \in Num /\ 0 \in Num
    BY ClientIs
  <2>3. tcb \in [Clients -> Block]
    BY <2>2 DEF HttpInit, Block
  <2>4. QED BY <2>1, <2>3 DEF HttpTypeOK, HttpInit
<1>2. ASSUME NEW c \in Clients PROVE BlockOK(c)
  <2>1. /\ tcb[c].state = "idle" /\ tcb[c].snd_una = iss[c] /\ tcb[c].snd_nxt = iss[c]
        /\ tcb[c].fin = FALSE /\ asked[c] = 0 /\ answered[c] = 0
    BY DEF HttpInit
  <2>2. requests[c] \in Nat
    BY ClientIs
  <2>3. QED BY <2>1, <2>2 DEF BlockOK
<1>3. QED BY <1>1, <1>2 DEF StreamInv, HttpInit

(* Every step keeps the invariant. *)
LEMMA HttpStepInv == StreamInv /\ [HttpNext]_httpVars => StreamInv'
<1> SUFFICES ASSUME StreamInv, [HttpNext]_httpVars PROVE StreamInv'
  OBVIOUS
<1>1. CASE UNCHANGED httpVars
  <2>1. isn_counter' \in Num
    BY <1>1 DEF httpVars, StreamInv, HttpTypeOK
  <2>2. QED BY <1>1, <2>1, StepServer DEF httpVars
<1>2. CASE Receive
  BY <1>2, ReceiveStreams
<1>3. CASE Lose
  BY <1>3, LoseStreams
<1>4. ASSUME NEW c \in Clients, Connect(c) \/ Request(c) \/ Close(c) \/ Timeout(c) \/ ClientReceive(c)
      PROVE  StreamInv'
  BY <1>4, ConnectStreams, RequestStreams, CloseStreams, TimeoutStreams, ClientReceiveStreams
<1>5. QED BY <1>1, <1>2, <1>3, <1>4 DEF HttpNext

(* Whatever the network loses, repeats and reorders, every frame in flight *)
(* is at a place of its client's streams, and each client's sequence       *)
(* variables are where its requests and responses put them.                *)
THEOREM StreamInvariant == HttpSpec => []StreamInv
BY HttpInitInv, HttpStepInv, PTL DEF HttpSpec

(* The invariant gives what the clients rely on. *)
LEMMA InvGivesStreams == StreamInv => Streams
<1> SUFFICES ASSUME StreamInv, NEW s \in to_client
             PROVE  /\ s.client \in Clients
                    /\ s.type = "ip" =>
                         /\ Minus(s.ack, iss[s.client]) <= Minus(tcb[s.client].snd_nxt, iss[s.client])
                         /\ (/\ s.payload
                             /\ tcb[s.client].state = "established"
                             /\ s.seq = tcb[s.client].rcv_nxt) => answered[s.client] < asked[s.client]
  BY DEF Streams
<1>1. PICK c \in Clients : ServerFrame(s, c)
  BY DEF StreamInv
<1>2. HttpTypeOK /\ BlockOK(c)
  BY DEF StreamInv
<1>3. s.client = c
  <2>1. s = Arp(c, "reply") \/ \E seq, ack, flags, payload : s = Reply(c, seq, ack, flags, payload)
    BY <1>1 DEF ServerFrame, FromServer
  <2>2. QED BY <2>1 DEF Arp, Reply
<1>4. ASSUME s.type = "ip" PROVE Minus(s.ack, iss[c]) <= Minus(tcb[c].snd_nxt, iss[c])
  <2> DEFINE i == iss[c]
             n == Sent(c)
  <2>1. PICK o \in 1 .. n : s.ack = Plus(i, o)
    BY <1>1, <1>2, <1>4, ServerFrameIs DEF Fields, At
  <2>2. tcb[c].snd_nxt = Plus(i, n)
    <3>1. CASE tcb[c].state = "established"
      BY <1>2, <3>1 DEF BlockOK, At
    <3>2. CASE tcb[c].state = "syn_sent"
      <4>1. tcb[c].snd_nxt = Plus(i, 1) /\ asked[c] = 0 /\ ~tcb[c].fin
        BY <1>2, <3>2 DEF BlockOK, At
      <4>2. n = 1 + 0 * ReqLen + 0
        BY <4>1 DEF Sent
      <4>3. n = 1
        BY <4>2, ClientIs
      <4>4. QED BY <4>1, <4>3
    <3>3. QED BY <1>1, <1>2, <1>4, <3>1, <3>2, ServerFrameIs DEF Fields
  <2>3. SeqSpace \in Nat \ {0} /\ i \in Num /\ n \in Num /\ 0 \in Num
    BY <1>2, ClientIs, BlockIs
  <2> HIDE DEF i, n
  <2>4. i = Plus(i, 0) /\ o \in Num
    <3>1. Plus(i, 0) = IF i + 0 < SeqSpace THEN i + 0 ELSE i + 0 - SeqSpace
      BY <2>3, PlusIs
    <3>2. QED BY <2>3, <3>1 DEF Num
  <2>5. Minus(Plus(i, o), Plus(i, 0)) = IF 0 <= o THEN o - 0 ELSE o + SeqSpace - 0
    BY <2>3, <2>4, Between
  <2>6. Minus(Plus(i, n), Plus(i, 0)) = IF 0 <= n THEN n - 0 ELSE n + SeqSpace - 0
    BY <2>3, Between
  <2>7. Minus(Plus(i, o), Plus(i, 0)) <= Minus(Plus(i, n), Plus(i, 0))
    BY <2>3, <2>4, <2>5, <2>6 DEF Num
  <2>8. Minus(s.ack, i) <= Minus(tcb[c].snd_nxt, i)
    BY <2>1, <2>2, <2>4, <2>7
  <2>9. QED BY <2>8 DEF i
<1>5. ASSUME s.type = "ip", s.payload, s.seq = tcb[c].rcv_nxt PROVE answered[c] < asked[c]
  BY <1>1, <1>2, <1>5, TakenIsAsked
<1>6. QED BY <1>3, <1>4, <1>5

(* For every number of clients, requests and faults: no frame in flight is *)
(* a response the client would take without having asked, and none         *)
(* acknowledges what was not sent, though app_http_hello keeps no state.   *)
THEOREM StreamsHold == HttpSpec => []Streams
BY StreamInvariant, InvGivesStreams, PTL

(* Only a client asks, one request at a time, and only what it takes from  *)
(* the server counts as an answer.                                         *)
LEMMA ServiceStep ==
  StreamInv /\ [HttpNext]_httpVars => [Abstract!Next]_(Abstract!vars)
<1> SUFFICES ASSUME StreamInv, HttpNext, ~(UNCHANGED <<asked, answered>>) PROVE Abstract!Next
  BY DEF httpVars, Abstract!vars
<1>1. CASE Receive \/ Lose
  BY <1>1 DEF Receive, Lose
<1>2. ASSUME NEW c \in Clients, Connect(c) \/ Close(c) \/ Timeout(c) PROVE FALSE
  BY <1>2 DEF Connect, Close, Timeout
<1>3. ASSUME NEW c \in Clients, Request(c) PROVE Abstract!Next
  BY <1>3 DEF Request, Abstract!Next, Abstract!Ask
<1>4. ASSUME NEW c \in Clients, ClientReceive(c) PROVE Abstract!Next
  <2>1. PICK f \in to_client : /\ f.client = c /\ Accept(c, f) /\ UNCHANGED <<isn_counter, asked>>
    BY <1>4 DEF ClientReceive
  <2>2. ServerFrame(f, c) /\ HttpTypeOK /\ BlockOK(c)
    <3>1. PICK d \in Clients : ServerFrame(f, d)
      BY DEF StreamInv
    <3>2. f.client = d
      <4>1. f = Arp(d, "reply") \/ \E seq, ack, flags, payload : f = Reply(d, seq, ack, flags, payload)
        BY <3>1 DEF ServerFrame, FromServer
      <4>2. QED BY <4>1 DEF Arp, Reply
    <3>3. QED BY <2>1, <3>1, <3>2 DEF StreamInv
  <2>3. \/ UNCHANGED answered
        \/ /\ f.type = "ip" /\ f.seq = tcb[c].rcv_nxt
           /\ answered' = [answered EXCEPT ![c] = @ + (IF f.payload THEN 1 ELSE 0)]
    BY <2>1, Zenon DEF Accept
  <2>4. f.type = "ip" /\ f.seq = tcb[c].rcv_nxt
        /\ answered' = [answered EXCEPT ![c] = @ + (IF f.payload THEN 1 ELSE 0)]
    BY <2>1, <2>3
  <2>5. CASE ~f.payload
    <3>1. answered' = [answered EXCEPT ![c] = answered[c] + 0] /\ answered \in [Clients -> Nat]
      BY <2>2, <2>4, <2>5 DEF HttpTypeOK
    <3>2. answered[c] + 0 = answered[c]
      BY <3>1
    <3>3. answered' = answered
      BY <3>1, <3>2
    <3>4. QED BY <2>1, <3>3
  <2>6. CASE f.payload
    <3>1. answered[c] < asked[c] /\ answered' = [answered EXCEPT ![c] = @ + 1]
      BY <2>2, <2>4, <2>6, TakenIsAsked
    <3>2. QED BY <2>1, <3>1 DEF Abstract!Next, Abstract!Answer
  <2>7. QED BY <2>5, <2>6
<1>5. QED BY <1>1, <1>2, <1>3, <1>4 DEF HttpNext

(* The safety part of Service: the clients see the request-reply service   *)
(* of RequestReply, whatever becomes of the frames: no request is answered *)
(* twice and no answer comes unasked.                                      *)
THEOREM AnswersOnce == HttpSpec => Abstract!Init /\ [][Abstract!Next]_(Abstract!vars)
<1>1. HttpInit => Abstract!Init
  BY DEF HttpInit, Abstract!Init
<1>2. QED BY <1>1, StreamInvariant, ServiceStep, PTL DEF HttpSpec

----------------------------------------------------------------------------
(***************************************************************************)
(* What the server puts on the wire.  The recursive sums of the code over  *)
(* the bytes of a packet exist, by the least length for which they would   *)
(* not, and are what they should be.                                       *)
(***************************************************************************)
(* f counts up the steps d from z. *)
Counts(f, n, S, z, d) ==
  /\ f \in [0 .. n -> S]
  /\ f[0] = z
  /\ \A i \in 1 .. n : f[i] = d[<<i, f[i - 1]>>]

(* Such a function exists. *)
LEMMA CountExists ==
  ASSUME NEW n \in Nat, NEW S, NEW z \in S, NEW d \in [(1 .. n) \X S -> S]
  PROVE  \E f : Counts(f, n, S, z, d)
<1> DEFINE Bad == {k \in 0 .. n : ~\E f : Counts(f, k, S, z, d)}
<1>1. ASSUME Bad # {} PROVE FALSE
  <2>1. Bad \in SUBSET Nat
    OBVIOUS
  <2> HIDE DEF Bad
  <2>2. PICK k \in Bad : \A j \in Bad : k <= j
    BY <1>1, <2>1, LeastNumber
  <2>3. k \in 0 .. n /\ ~\E f : Counts(f, k, S, z, d)
    BY DEF Bad
  <2>4. CASE k = 0
    <3> DEFINE g == [i \in 0 .. 0 |-> z]
    <3>1. Counts(g, 0, S, z, d)
      BY DEF Counts
    <3>2. QED BY <2>3, <2>4, <3>1
  <2>5. CASE k # 0
    <3>1. k - 1 \in 0 .. n /\ k - 1 \in Nat /\ ~(k <= k - 1) /\ k \in 1 .. n
      BY <2>3, <2>5
    <3>2. k - 1 \notin Bad
      BY <2>2, <3>1
    <3>3. PICK f : Counts(f, k - 1, S, z, d)
      BY <3>1, <3>2 DEF Bad
    <3>4. f \in [0 .. k - 1 -> S] /\ f[0] = z /\ \A i \in 1 .. k - 1 : f[i] = d[<<i, f[i - 1]>>]
      BY <3>3 DEF Counts
    <3> DEFINE g == [i \in 0 .. k |-> IF i = k THEN d[<<k, f[k - 1]>>] ELSE f[i]]
    <3>5. f[k - 1] \in S
      BY <3>1, <3>4
    <3>6. d[<<k, f[k - 1]>>] \in S
      BY <3>1, <3>5
    <3>7. g \in [0 .. k -> S]
      <4>1. ASSUME NEW i \in 0 .. k, i # k PROVE f[i] \in S
        <5>1. i \in 0 .. k - 1
          BY <3>1, <4>1
        <5>2. QED BY <3>4, <5>1
      <4>2. QED BY <3>6, <4>1
    <3>8. g[0] = z
      BY <3>1, <3>4
    <3>9. ASSUME NEW i \in 1 .. k PROVE g[i] = d[<<i, g[i - 1]>>]
      <4>1. i \in 0 .. k /\ i - 1 \in 0 .. k /\ i - 1 # k
        BY <3>1
      <4>2. g[i - 1] = f[i - 1]
        BY <4>1
      <4>3. CASE i = k
        <5>1. g[i] = d[<<k, f[k - 1]>>]
          BY <4>1, <4>3
        <5>2. QED BY <4>2, <4>3, <5>1
      <4>4. CASE i # k
        <5>1. i \in 1 .. k - 1
          BY <3>1, <4>4
        <5>2. g[i] = f[i]
          BY <4>1, <4>4
        <5>3. QED BY <3>4, <4>2, <5>1, <5>2
      <4>5. QED BY <4>3, <4>4
    <3> HIDE DEF g
    <3>10. Counts(g, k, S, z, d)
      BY <3>7, <3>8, <3>9 DEF Counts
    <3>11. QED BY <2>3, <3>10
  <2>6. QED BY <2>4, <2>5
<1>2. n \notin Bad
  BY <1>1
<1>3. QED BY <1>2

(* The words of b, from its first byte. *)
WordOf(b, i) == 256 * b[2 * i - 1] + b[2 * i]

WordsOf(f, n, b) ==
  /\ f \in [0 .. n -> Nat]
  /\ f[0] = 0
  /\ \A i \in 1 .. n : f[i] = f[i - 1] + WordOf(b, i)

(* Each is what word_sum adds, the bytes of a load turned round. *)
LEMMA WordIs ==
  ASSUME NEW b \in Seq(Byte), NEW i \in 1 .. Len(b) \div 2
  PROVE  /\ 2 * i - 1 \in 1 .. Len(b) /\ 2 * i \in 1 .. Len(b)
         /\ b[2 * i - 1] \in Byte /\ b[2 * i] \in Byte
         /\ WordOf(b, i) \in Nat
         /\ ntohs(load16(b, 2 * i - 1)) = WordOf(b, i)
<1>1. Len(b) \in Nat
  OBVIOUS
<1>2. 2 * i - 1 \in 1 .. Len(b) /\ 2 * i \in 1 .. Len(b) /\ i \in Int
  BY <1>1
<1>3. b[2 * i - 1] \in Byte /\ b[2 * i] \in Byte
  BY <1>2
<1>4. PICK x \in Byte, y \in Byte : b[2 * i - 1] = x /\ b[2 * i] = y
  BY <1>3
<1>5. load16(b, 2 * i - 1) = x + 256 * y
  <2>1. (2 * i - 1) + 1 = 2 * i
    BY <1>2
  <2>2. QED BY <1>4, <2>1 DEF load16
<1>6. x \in 0 .. 255 /\ y \in 0 .. 255
  BY DEF Byte
<1>7. (x + 256 * y) % 256 = x /\ (x + 256 * y) \div 256 = y
  BY <1>6
<1>8. htons(x + 256 * y) = x * 256 + y
  BY <1>7 DEF htons
<1>9. WordOf(b, i) = 256 * x + y
  BY <1>4 DEF WordOf
<1>10. 256 * x + y \in Nat /\ x * 256 + y = 256 * x + y
  BY <1>6
<1>11. QED BY <1>2, <1>3, <1>5, <1>8, <1>9, <1>10 DEF ntohs

(* The odd byte at the end. *)
OddOf(b) == IF Len(b) % 2 = 1 THEN b[Len(b)] * 256 ELSE 0

(* word_sum is the sum of the words and the odd byte. *)
LEMMA WordSumIs ==
  ASSUME NEW b \in Seq(Byte)
  PROVE  \E f : WordsOf(f, Len(b) \div 2, b) /\ word_sum(b) = f[Len(b) \div 2] + OddOf(b)
<1> DEFINE n == Len(b) \div 2
           h == CHOOSE g : g = [i \in 0 .. n |->
                  IF i = 0 THEN 0 ELSE g[i - 1] + ntohs(load16(b, 2 * i - 1))]
<1>1. word_sum(b) = h[n] + OddOf(b)
  BY Zenon DEF word_sum, OddOf
<1>2. n \in Nat
  OBVIOUS
<1>3. \E g : g = [i \in 0 .. n |-> IF i = 0 THEN 0 ELSE g[i - 1] + ntohs(load16(b, 2 * i - 1))]
  <2> DEFINE d == [p \in (1 .. n) \X Nat |-> p[2] + WordOf(b, p[1])]
  <2>1. d \in [(1 .. n) \X Nat -> Nat]
    <3>1. ASSUME NEW p \in (1 .. n) \X Nat PROVE p[2] + WordOf(b, p[1]) \in Nat
      <4>1. p[1] \in 1 .. n /\ p[2] \in Nat
        OBVIOUS
      <4>2. WordOf(b, p[1]) \in Nat
        BY <4>1, WordIs
      <4>3. QED BY <4>1, <4>2
    <3>2. QED BY <3>1
  <2>2. \A i \in 1 .. n, s \in Nat : d[<<i, s>>] = s + WordOf(b, i)
    OBVIOUS
  <2> HIDE DEF d
  <2>3. PICK g : Counts(g, n, Nat, 0, d)
    <3> HIDE DEF n
    <3>1. 0 \in Nat
      OBVIOUS
    <3>2. QED BY <1>2, <2>1, <3>1, CountExists
  <2>4. g \in [0 .. n -> Nat] /\ g[0] = 0 /\ \A i \in 1 .. n : g[i] = d[<<i, g[i - 1]>>]
    BY <2>3 DEF Counts
  <2>5. ASSUME NEW i \in 0 .. n
        PROVE  g[i] = IF i = 0 THEN 0 ELSE g[i - 1] + ntohs(load16(b, 2 * i - 1))
    <3>1. CASE i = 0
      BY <2>4, <3>1
    <3>2. CASE i # 0
      <4>1. i \in 1 .. n
        BY <1>2, <3>2
      <4>2. i - 1 \in 0 .. n
        BY <1>2, <4>1
      <4>3. g[i - 1] \in Nat
        BY <2>4, <4>2
      <4>4. g[i] = g[i - 1] + WordOf(b, i)
        BY <2>2, <2>4, <4>1, <4>3
      <4>5. ntohs(load16(b, 2 * i - 1)) = WordOf(b, i)
        BY <4>1, WordIs
      <4>6. QED BY <3>2, <4>4, <4>5
    <3>3. QED BY <3>1, <3>2
  <2>6. g = [i \in 0 .. n |-> g[i]]
    BY <2>4
  <2>7. QED BY <2>5, <2>6
<1>4. h = [i \in 0 .. n |-> IF i = 0 THEN 0 ELSE h[i - 1] + ntohs(load16(b, 2 * i - 1))]
  BY <1>3
<1> HIDE DEF h
<1>5. h[0] = 0
  BY <1>2, <1>4
<1>6. ASSUME NEW i \in 1 .. n PROVE h[i] = h[i - 1] + WordOf(b, i)
  <2>1. i \in 0 .. n /\ i # 0
    BY <1>2
  <2>2. h[i] = h[i - 1] + ntohs(load16(b, 2 * i - 1))
    BY <1>4, <2>1
  <2>3. QED BY <2>2, WordIs
<1>7. ASSUME NEW i \in 0 .. n PROVE h[i] \in Nat
  <2> DEFINE Bad == {k \in 0 .. n : h[k] \notin Nat}
  <2>1. ASSUME Bad # {} PROVE FALSE
    <3>1. Bad \in SUBSET Nat
      OBVIOUS
    <3> HIDE DEF Bad
    <3>2. PICK k \in Bad : \A j \in Bad : k <= j
      BY <2>1, <3>1, LeastNumber
    <3>3. k \in 0 .. n /\ h[k] \notin Nat
      BY DEF Bad
    <3>4. k # 0
      BY <1>5, <3>3
    <3>5. k \in 1 .. n /\ k - 1 \in 0 .. n /\ ~(k <= k - 1)
      BY <1>2, <3>3, <3>4
    <3>6. h[k - 1] \in Nat
      BY <3>2, <3>5 DEF Bad
    <3>7. QED BY <1>6, <3>3, <3>5, <3>6, WordIs
  <2>2. QED BY <2>1
<1>8. h \in [0 .. n -> Nat]
  <2>1. h = [i \in 0 .. n |-> h[i]]
    BY <1>4
  <2>2. QED BY <1>7, <2>1
<1>9. WordsOf(h, n, b)
  BY <1>5, <1>6, <1>8 DEF WordsOf
<1>10. QED BY <1>1, <1>9

(* The words of a are the words of b from the one after its k-th. *)
Shifted(a, n, b, k) ==
  \A i \in 1 .. n : WordOf(a, i) \in Nat /\ WordOf(a, i) = WordOf(b, i + k)

(* The sums of two sequences that agree on their words agree. *)
LEMMA WordsAgree ==
  ASSUME NEW a, NEW b, NEW n \in Nat, NEW m \in Nat, NEW k \in Nat, n + k <= m,
         NEW f, NEW g, WordsOf(f, n, a), WordsOf(g, m, b),
         Shifted(a, n, b, k)
  PROVE  g[n + k] = g[k] + f[n]
<1>1. /\ f \in [0 .. n -> Nat] /\ f[0] = 0 /\ \A i \in 1 .. n : f[i] = f[i - 1] + WordOf(a, i)
      /\ g \in [0 .. m -> Nat] /\ g[0] = 0 /\ \A i \in 1 .. m : g[i] = g[i - 1] + WordOf(b, i)
  BY DEF WordsOf
<1> DEFINE Bad == {i \in 0 .. n : g[i + k] # g[k] + f[i]}
<1>2. ASSUME Bad # {} PROVE FALSE
  <2>1. Bad \in SUBSET Nat
    OBVIOUS
  <2> HIDE DEF Bad
  <2>2. PICK i \in Bad : \A j \in Bad : i <= j
    BY <1>2, <2>1, LeastNumber
  <2>3. i \in 0 .. n /\ g[i + k] # g[k] + f[i]
    BY DEF Bad
  <2>4. k \in 0 .. m /\ g[k] \in Nat
    BY <1>1
  <2>5. i # 0
    BY <1>1, <2>3, <2>4
  <2>6. /\ i \in 1 .. n /\ i - 1 \in 0 .. n /\ ~(i <= i - 1) /\ i + k \in 1 .. m
        /\ (i - 1) + k \in 0 .. m /\ (i + k) - 1 = (i - 1) + k
    BY <2>3, <2>5
  <2>7. g[(i - 1) + k] = g[k] + f[i - 1]
    BY <2>2, <2>6 DEF Bad
  <2>8. g[i + k] = g[(i + k) - 1] + WordOf(b, i + k)
    BY <1>1, <2>6
  <2>9. f[i] = f[i - 1] + WordOf(a, i)
    BY <1>1, <2>6
  <2>10. WordOf(a, i) \in Nat /\ WordOf(a, i) = WordOf(b, i + k)
    BY <2>6 DEF Shifted
  <2>11. f[i] \in Nat /\ f[i - 1] \in Nat /\ g[i + k] \in Nat /\ g[(i - 1) + k] \in Nat
    BY <1>1, <2>6
  <2>12. g[i + k] = g[(i - 1) + k] + WordOf(a, i)
    BY <2>6, <2>8, <2>10
  <2> DEFINE w == WordOf(a, i)
  <2> HIDE DEF w
  <2>13. f[i] = f[i - 1] + w /\ g[i + k] = g[k] + f[i - 1] + w
    BY <2>7, <2>9, <2>12 DEF w
  <2>14. w \in Nat
    BY <2>10 DEF w
  <2>15. QED BY <2>3, <2>4, <2>11, <2>13, <2>14
<1>3. n \in 0 .. n /\ n \notin Bad
  BY <1>2
<1>4. QED BY <1>3

(* The sum is a number. *)
LEMMA WordSumNat ==
  ASSUME NEW b \in Seq(Byte)
  PROVE  word_sum(b) \in Nat
<1> DEFINE n == Len(b) \div 2
<1>1. PICK f : WordsOf(f, n, b) /\ word_sum(b) = f[n] + OddOf(b)
  BY WordSumIs
<1>2. n \in 0 .. n
  OBVIOUS
<1> HIDE DEF n
<1>3. f[n] \in Nat
  BY <1>1, <1>2 DEF WordsOf
<1>4. OddOf(b) \in Nat
  <2>1. CASE Len(b) % 2 = 1
    <3>1. Len(b) \in 1 .. Len(b)
      BY <2>1
    <3>2. b[Len(b)] \in Byte
      BY <3>1
    <3>3. b[Len(b)] \in Nat
      BY <3>2 DEF Byte
    <3>4. QED BY <2>1, <3>3 DEF OddOf
  <2>2. CASE Len(b) % 2 # 1
    BY <2>2 DEF OddOf
  <2>3. QED BY <2>1, <2>2
<1>5. QED BY <1>1, <1>3, <1>4

(* The sum of a joined sequence, when its first part ends with a word. *)
LEMMA WordSumJoined ==
  ASSUME NEW a \in Seq(Byte), NEW b \in Seq(Byte), Len(a) % 2 = 0
  PROVE  word_sum(a \o b) = word_sum(a) + word_sum(b)
<1> DEFINE c == a \o b
           n == Len(a) \div 2
           m == Len(b) \div 2
           l == Len(c) \div 2
<1>1. c \in Seq(Byte) /\ Len(c) = Len(a) + Len(b)
  BY Joined
<1>2. /\ \A i \in 1 .. Len(a) : c[i] = a[i]
      /\ \A i \in 1 .. Len(b) : c[Len(a) + i] = b[i]
  OBVIOUS
<1>3. Len(a) \in Nat /\ Len(b) \in Nat
  OBVIOUS
<1> HIDE DEF c
<1>4. PICK f : WordsOf(f, n, a) /\ word_sum(a) = f[n] + OddOf(a)
  BY WordSumIs
<1>5. PICK g : WordsOf(g, m, b) /\ word_sum(b) = g[m] + OddOf(b)
  BY WordSumIs
<1>6. PICK h : WordsOf(h, l, c) /\ word_sum(c) = h[l] + OddOf(c)
  BY <1>1, WordSumIs
<1>7. n \in Nat /\ m \in Nat /\ l \in Nat /\ l = n + m /\ Len(a) = 2 * n
  BY <1>1, <1>3
<1>8. Shifted(a, n, c, 0)
  <2>1. ASSUME NEW i \in 1 .. n PROVE WordOf(a, i) = WordOf(c, i + 0)
    <3>1. 2 * i - 1 \in 1 .. Len(a) /\ 2 * i \in 1 .. Len(a) /\ i + 0 = i
      BY <1>3, <1>7
    <3>2. c[2 * i - 1] = a[2 * i - 1] /\ c[2 * i] = a[2 * i]
      BY <1>2, <3>1
    <3>3. QED BY <3>1, <3>2 DEF WordOf
  <2>2. QED BY <2>1, WordIs DEF Shifted
<1>9. Shifted(b, m, c, n)
  <2>1. ASSUME NEW i \in 1 .. m PROVE WordOf(b, i) = WordOf(c, i + n)
    <3>1. /\ 2 * i - 1 \in 1 .. Len(b) /\ 2 * i \in 1 .. Len(b)
          /\ Len(a) + (2 * i - 1) = 2 * (i + n) - 1 /\ Len(a) + 2 * i = 2 * (i + n)
      BY <1>3, <1>7
    <3>2. c[2 * (i + n) - 1] = b[2 * i - 1] /\ c[2 * (i + n)] = b[2 * i]
      <4>1. c[Len(a) + (2 * i - 1)] = b[2 * i - 1] /\ c[Len(a) + 2 * i] = b[2 * i]
        BY <1>2, <3>1
      <4>2. QED BY <3>1, <4>1
    <3>3. QED BY <3>2 DEF WordOf
  <2>2. QED BY <2>1, WordIs DEF Shifted
<1>10. OddOf(a) = 0
  BY DEF OddOf
<1>11. OddOf(c) = OddOf(b)
  <2>1. Len(c) % 2 = Len(b) % 2
    BY <1>1, <1>3, <1>7
  <2>2. CASE Len(b) % 2 = 1
    <3>1. Len(b) \in 1 .. Len(b)
      BY <1>3, <2>2
    <3>2. c[Len(c)] = b[Len(b)]
      BY <1>1, <1>2, <3>1
    <3>3. QED BY <2>1, <2>2, <3>2 DEF OddOf
  <2>3. CASE Len(b) % 2 # 1
    BY <2>1, <2>3 DEF OddOf
  <2>4. QED BY <2>2, <2>3
<1> HIDE DEF n, m, l
<1>12. h[n + 0] = h[0] + f[n]
  <2>1. n + 0 <= l /\ 0 \in Nat
    BY <1>7
  <2>2. QED BY <1>4, <1>6, <1>7, <1>8, <2>1, WordsAgree
<1>13. h[m + n] = h[n] + g[m]
  <2>1. m + n <= l
    BY <1>7
  <2>2. QED BY <1>5, <1>6, <1>7, <1>9, <2>1, WordsAgree
<1>14. f[n] \in Nat /\ g[m] \in Nat /\ h[n] \in Nat /\ h[0] = 0 /\ h[l] \in Nat
  <2>1. n \in 0 .. n /\ m \in 0 .. m /\ n \in 0 .. l /\ l \in 0 .. l
    BY <1>7
  <2>2. QED BY <1>4, <1>5, <1>6, <2>1 DEF WordsOf
<1>15. h[n] = f[n]
  BY <1>7, <1>12, <1>14
<1>16. h[l] = f[n] + g[m]
  <2>1. m + n = l
    BY <1>7
  <2>2. QED BY <1>13, <1>15, <2>1
<1>17. word_sum(a) = f[n] /\ word_sum(c) = h[l] + OddOf(b)
  BY <1>4, <1>6, <1>10, <1>11, <1>14
<1>18. OddOf(b) \in Int
  <2>1. CASE Len(b) % 2 = 1
    <3>1. Len(b) \in 1 .. Len(b)
      BY <1>3, <2>1
    <3>2. b[Len(b)] \in Byte
      BY <3>1
    <3>3. b[Len(b)] \in Int
      BY <3>2 DEF Byte
    <3>4. QED BY <2>1, <3>3 DEF OddOf
  <2>2. CASE Len(b) % 2 # 1
    BY <2>2 DEF OddOf
  <2>3. QED BY <2>1, <2>2
<1>19. word_sum(c) = f[n] + (g[m] + OddOf(b))
  BY <1>14, <1>16, <1>17, <1>18
<1>20. QED BY <1>5, <1>17, <1>19 DEF c

(* Two bytes are one word. *)
LEMMA WordSumTwo ==
  ASSUME NEW x \in Byte, NEW y \in Byte
  PROVE  /\ <<x, y>> \in Seq(Byte) /\ Len(<<x, y>>) = 2
         /\ word_sum(<<x, y>>) = 256 * x + y
<1> DEFINE b == <<x, y>>
<1>1. b \in Seq(Byte) /\ Len(b) = 2 /\ b[1] = x /\ b[2] = y
  OBVIOUS
<1> HIDE DEF b
<1>2. Len(b) \div 2 = 1 /\ Len(b) % 2 = 0
  BY <1>1
<1>3. PICK f : WordsOf(f, 1, b) /\ word_sum(b) = f[1] + OddOf(b)
  BY <1>1, <1>2, WordSumIs
<1>4. OddOf(b) = 0
  BY <1>2 DEF OddOf
<1>5. f[0] = 0 /\ f[1] = f[0] + WordOf(b, 1)
  <2>1. 1 \in 1 .. 1 /\ 1 - 1 = 0
    OBVIOUS
  <2>2. f[0] = 0 /\ f[1] = f[1 - 1] + WordOf(b, 1)
    BY <1>3, <2>1 DEF WordsOf
  <2>3. QED BY <2>1, <2>2
<1>6. WordOf(b, 1) = 256 * x + y
  <2>1. 2 * 1 - 1 = 1 /\ 2 * 1 = 2
    OBVIOUS
  <2>2. QED BY <1>1, <2>1 DEF WordOf
<1>7. x \in Int /\ y \in Int
  BY DEF Byte
<1>8. QED BY <1>1, <1>3, <1>4, <1>5, <1>6, <1>7 DEF b

(* The padding of the receiver is the odd byte of the sender. *)
LEMMA WordSumPadded ==
  ASSUME NEW b \in Seq(Byte)
  PROVE  /\ Padded(b) \in Seq(Byte) /\ Len(Padded(b)) % 2 = 0
         /\ word_sum(Padded(b)) = word_sum(b)
<1>1. CASE Len(b) % 2 # 1
  <2>1. Padded(b) = b
    BY <1>1 DEF Padded
  <2>2. Len(b) % 2 = 0
    BY <1>1
  <2>3. QED BY <2>1, <2>2
<1>2. CASE Len(b) % 2 = 1
  <2> DEFINE c == Append(b, 0)
             n == Len(b) \div 2
  <2>1. Padded(b) = c
    BY <1>2 DEF Padded
  <2>2. 0 \in Byte
    BY DEF Byte
  <2>3. /\ c \in Seq(Byte) /\ Len(c) = Len(b) + 1 /\ c[Len(b) + 1] = 0
        /\ \A i \in 1 .. Len(b) : c[i] = b[i]
    BY <2>2, AppendProperties
  <2> HIDE DEF c
  <2>4. /\ n \in Nat /\ Len(b) = 2 * n + 1 /\ Len(c) = 2 * (n + 1) /\ Len(c) \div 2 = n + 1
        /\ Len(c) % 2 = 0
    BY <1>2, <2>3
  <2>5. PICK f : WordsOf(f, n, b) /\ word_sum(b) = f[n] + OddOf(b)
    BY WordSumIs
  <2>6. PICK g : WordsOf(g, n + 1, c) /\ word_sum(c) = g[n + 1] + OddOf(c)
    BY <2>3, <2>4, WordSumIs
  <2> HIDE DEF n
  <2>7. Shifted(b, n, c, 0)
    <3>1. ASSUME NEW i \in 1 .. n PROVE WordOf(b, i) = WordOf(c, i + 0)
      <4>1. 2 * i - 1 \in 1 .. Len(b) /\ 2 * i \in 1 .. Len(b) /\ i + 0 = i
        BY <2>4
      <4>2. c[2 * i - 1] = b[2 * i - 1] /\ c[2 * i] = b[2 * i]
        BY <2>3, <4>1
      <4>3. QED BY <4>1, <4>2 DEF WordOf
    <3>2. QED BY <3>1, WordIs DEF Shifted, n
  <2>8. g[n + 0] = g[0] + f[n]
    <3>1. n + 0 <= n + 1 /\ 0 \in Nat /\ n + 1 \in Nat
      BY <2>4
    <3>2. QED BY <2>4, <2>5, <2>6, <2>7, <3>1, WordsAgree
  <2>9. /\ g[0] = 0 /\ g[n] \in Nat /\ f[n] \in Nat /\ g[n + 1] = g[n] + WordOf(c, n + 1)
    <3>1. n \in 0 .. n /\ n \in 0 .. n + 1 /\ n + 1 \in 1 .. n + 1 /\ (n + 1) - 1 = n
      BY <2>4
    <3>2. QED BY <2>5, <2>6, <3>1 DEF WordsOf
  <2>10. b[Len(b)] \in Byte /\ Len(b) \in 1 .. Len(b)
    <3>1. Len(b) \in 1 .. Len(b)
      BY <2>4
    <3>2. QED BY <3>1
  <2>11. b[Len(b)] \in Nat
    BY <2>10 DEF Byte
  <2>12. WordOf(c, n + 1) = 256 * b[Len(b)]
    <3>1. 2 * (n + 1) - 1 = Len(b) /\ 2 * (n + 1) = Len(b) + 1
      BY <2>4
    <3>2. c[2 * (n + 1) - 1] = b[Len(b)] /\ c[2 * (n + 1)] = 0
      BY <2>3, <2>10, <3>1
    <3>3. WordOf(c, n + 1) = 256 * b[Len(b)] + 0
      BY <3>2 DEF WordOf
    <3>4. QED BY <2>11, <3>3
  <2>13. OddOf(b) = b[Len(b)] * 256 /\ OddOf(c) = 0
    BY <1>2, <2>4 DEF OddOf
  <2> DEFINE z == b[Len(b)]
  <2> HIDE DEF z
  <2>14. /\ z \in Nat /\ word_sum(b) = f[n] + z * 256
         /\ word_sum(c) = g[n + 1] + 0 /\ g[n + 1] = g[n] + 256 * z /\ g[n] = f[n]
    <3>1. n + 0 = n
      BY <2>4
    <3>2. g[n] = f[n]
      BY <2>8, <2>9, <3>1
    <3>3. QED BY <2>5, <2>6, <2>9, <2>11, <2>12, <2>13, <3>2 DEF z
  <2>15. word_sum(c) = word_sum(b)
    BY <2>9, <2>14
  <2>16. QED BY <2>1, <2>3, <2>4, <2>15
<1>3. QED BY <1>1, <1>2

(* Remainders by 2^16 - 1. *)
LEMMA Remainder ==
  ASSUME NEW v \in Int, NEW q \in Int, NEW r \in Nat, r < Ones, v = Ones * q + r
  PROVE  v % Ones = r
<1>1. Ones = 65535
  BY SMT DEF Ones
<1>2. QED BY <1>1, SMT

(* Every number has a quotient and a remainder. *)
LEMMA Quotient ==
  ASSUME NEW v \in Int
  PROVE  \E q \in Int, r \in Nat : r < Ones /\ v = Ones * q + r /\ v % Ones = r
<1>1. Ones = 65535
  BY SMT DEF Ones
<1>2. v = Ones * (v \div Ones) + (v % Ones) /\ v \div Ones \in Int /\ v % Ones \in Nat /\ v % Ones < Ones
  BY <1>1, SMT
<1>3. QED BY <1>2

(* Two bytes read one after the other count as their word. *)
LEMMA TwoBytes ==
  ASSUME NEW h \in Nat, NEW x \in Nat, NEW y \in Nat
  PROVE  ((((h % Ones) * 256 + x) % Ones) * 256 + y) % Ones = (h + (256 * x + y)) % Ones
<1>0. Ones = 65535
  BY SMT DEF Ones
<1>1. PICK q1 \in Int, r1 \in Nat : r1 < Ones /\ h = Ones * q1 + r1 /\ h % Ones = r1
  <2>1. h \in Int
    OBVIOUS
  <2>2. QED BY <2>1, Quotient
<1>2. PICK q2 \in Int, r2 \in Nat : /\ r2 < Ones /\ r1 * 256 + x = Ones * q2 + r2
                                    /\ (r1 * 256 + x) % Ones = r2
  <2>1. r1 * 256 + x \in Int
    OBVIOUS
  <2>2. QED BY <2>1, Quotient
<1>3. PICK q3 \in Int, r3 \in Nat : /\ r3 < Ones /\ r2 * 256 + y = Ones * q3 + r3
                                    /\ (r2 * 256 + y) % Ones = r3
  <2>1. r2 * 256 + y \in Int
    OBVIOUS
  <2>2. QED BY <2>1, Quotient
<1> DEFINE q == q3 + q1 - r1 + 256 * q2
<1>4. q \in Int /\ h + (256 * x + y) \in Int /\ h + (256 * x + y) = Ones * q + r3
  BY <1>0, <1>1, <1>2, <1>3, SMT
<1> HIDE DEF q
<1>5. (h + (256 * x + y)) % Ones = r3
  BY <1>3, <1>4, Remainder
<1>6. QED BY <1>1, <1>2, <1>3, <1>5

(* The reference reading of a packet is its sum by words. *)
LEMMA BigEndianIs ==
  ASSUME NEW b \in Seq(Byte), Len(b) % 2 = 0
  PROVE  BigEndian(b) = word_sum(b) % Ones
<1> DEFINE l == Len(b)
           n == Len(b) \div 2
           e == CHOOSE g : g = [i \in 0 .. l |-> IF i = 0 THEN 0 ELSE (g[i - 1] * 256 + b[i]) % Ones]
<1>0. Ones \in Nat \ {0}
  BY SMT DEF Ones
<1>1. BigEndian(b) = e[l]
  BY Zenon DEF BigEndian
<1>2. l \in Nat /\ n \in Nat /\ l = 2 * n
  OBVIOUS
<1>3. \A i \in 1 .. l : b[i] \in Nat
  <2>1. ASSUME NEW i \in 1 .. l PROVE b[i] \in Nat
    <3>1. b[i] \in Byte
      OBVIOUS
    <3>2. QED BY <3>1 DEF Byte
  <2>2. QED BY <2>1
<1> HIDE DEF l, n
<1>4. \E g : g = [i \in 0 .. l |-> IF i = 0 THEN 0 ELSE (g[i - 1] * 256 + b[i]) % Ones]
  <2> DEFINE d == [p \in (1 .. l) \X Nat |-> (p[2] * 256 + b[p[1]]) % Ones]
  <2>1. d \in [(1 .. l) \X Nat -> Nat]
    <3>1. ASSUME NEW p \in (1 .. l) \X Nat PROVE (p[2] * 256 + b[p[1]]) % Ones \in Nat
      <4>1. p[1] \in 1 .. l /\ p[2] \in Nat
        OBVIOUS
      <4>2. b[p[1]] \in Nat
        BY <1>3, <4>1
      <4>3. PICK u \in Nat, v \in Nat : p[2] = u /\ b[p[1]] = v
        BY <4>1, <4>2
      <4>4. u * 256 + v \in Int
        OBVIOUS
      <4>5. (u * 256 + v) % Ones \in Nat
        BY <4>4, Quotient
      <4>6. QED BY <4>3, <4>5
    <3>2. QED BY <3>1
  <2>2. \A i \in 1 .. l, s \in Nat : d[<<i, s>>] = (s * 256 + b[i]) % Ones
    OBVIOUS
  <2> HIDE DEF d
  <2>3. PICK g : Counts(g, l, Nat, 0, d)
    <3>1. 0 \in Nat
      OBVIOUS
    <3>2. QED BY <1>2, <2>1, <3>1, CountExists
  <2>4. g \in [0 .. l -> Nat] /\ g[0] = 0 /\ \A i \in 1 .. l : g[i] = d[<<i, g[i - 1]>>]
    BY <2>3 DEF Counts
  <2>5. ASSUME NEW i \in 0 .. l
        PROVE  g[i] = IF i = 0 THEN 0 ELSE (g[i - 1] * 256 + b[i]) % Ones
    <3>1. CASE i = 0
      BY <2>4, <3>1
    <3>2. CASE i # 0
      <4>1. i \in 1 .. l /\ i - 1 \in 0 .. l
        BY <1>2, <3>2
      <4>2. g[i - 1] \in Nat
        BY <2>4, <4>1
      <4>3. g[i] = (g[i - 1] * 256 + b[i]) % Ones
        BY <2>2, <2>4, <4>1, <4>2
      <4>4. QED BY <3>2, <4>3
    <3>3. QED BY <3>1, <3>2
  <2>6. g = [i \in 0 .. l |-> g[i]]
    BY <2>4
  <2>7. QED BY <2>5, <2>6
<1>5. e = [i \in 0 .. l |-> IF i = 0 THEN 0 ELSE (e[i - 1] * 256 + b[i]) % Ones]
  BY <1>4
<1> HIDE DEF e
<1>6. e[0] = 0
  BY <1>2, <1>5
<1>7. ASSUME NEW i \in 1 .. l PROVE e[i] = (e[i - 1] * 256 + b[i]) % Ones
  <2>1. i \in 0 .. l /\ i # 0
    BY <1>2
  <2>2. QED BY <1>5, <2>1
<1>8. PICK f : WordsOf(f, n, b) /\ word_sum(b) = f[n] + OddOf(b)
  BY WordSumIs DEF n
<1>9. OddOf(b) = 0
  BY DEF OddOf
<1>10. f \in [0 .. n -> Nat] /\ f[0] = 0 /\ \A i \in 1 .. n : f[i] = f[i - 1] + WordOf(b, i)
  BY <1>8 DEF WordsOf
<1> DEFINE Bad == {i \in 0 .. n : e[2 * i] # f[i] % Ones}
<1>11. ASSUME Bad # {} PROVE FALSE
  <2>1. Bad \in SUBSET Nat
    OBVIOUS
  <2> HIDE DEF Bad
  <2>2. PICK i \in Bad : \A j \in Bad : i <= j
    BY <1>11, <2>1, LeastNumber
  <2>3. i \in 0 .. n /\ e[2 * i] # f[i] % Ones
    BY DEF Bad
  <2>4. i # 0
    <3>1. 0 % Ones = 0
      BY SMT DEF Ones
    <3>2. 2 * 0 = 0
      OBVIOUS
    <3>3. QED BY <1>6, <1>10, <2>3, <3>1, <3>2
  <2>5. /\ i \in 1 .. n /\ i - 1 \in 0 .. n /\ ~(i <= i - 1)
        /\ 2 * i \in 1 .. l /\ 2 * i - 1 \in 1 .. l /\ (2 * i - 1) - 1 = 2 * (i - 1)
    BY <1>2, <2>3, <2>4
  <2>6. e[2 * (i - 1)] = f[i - 1] % Ones
    BY <2>2, <2>5 DEF Bad
  <2>7. e[2 * i] = (e[2 * i - 1] * 256 + b[2 * i]) % Ones
    BY <1>7, <2>5
  <2>8. e[2 * i - 1] = (e[2 * (i - 1)] * 256 + b[2 * i - 1]) % Ones
    <3>1. e[2 * i - 1] = (e[(2 * i - 1) - 1] * 256 + b[2 * i - 1]) % Ones
      BY <1>7, <2>5
    <3>2. QED BY <2>5, <3>1
  <2>9. f[i] = f[i - 1] + WordOf(b, i)
    BY <1>10, <2>5
  <2>10. PICK h \in Nat, x \in Nat, y \in Nat : f[i - 1] = h /\ b[2 * i - 1] = x /\ b[2 * i] = y
    BY <1>3, <1>10, <2>5
  <2>11. f[i] = h + (256 * x + y)
    BY <2>9, <2>10 DEF WordOf
  <2>12. e[2 * i] = ((((h % Ones) * 256 + x) % Ones) * 256 + y) % Ones
    BY <2>6, <2>7, <2>8, <2>10
  <2>13. e[2 * i] = (h + (256 * x + y)) % Ones
    BY <2>12, TwoBytes
  <2>14. QED BY <2>3, <2>11, <2>13
<1>12. n \in 0 .. n /\ n \notin Bad
  BY <1>2, <1>11
<1>13. e[2 * n] = f[n] % Ones
  BY <1>12
<1>14. f[n] \in Nat
  BY <1>10, <1>12
<1>15. QED BY <1>1, <1>2, <1>8, <1>9, <1>13, <1>14

(* The folded sum is a word, and the same number modulo 2^16 - 1. *)
LEMMA FoldStep ==
  ASSUME NEW s \in Nat, ~(s < 2^16), NEW t, t = (s % 2^16) + (s \div 2^16)
  PROVE  /\ t \in Nat /\ 1 <= t /\ t < s
         /\ \E q \in Int : s = Ones * q + t
<1>0. 2^16 = 65536 /\ Ones = 65535
  BY SMT DEF Ones
<1> DEFINE q == s \div 2^16
           r == s % 2^16
<1>1. q \in Nat /\ r \in Nat /\ s = 65536 * q + r /\ 1 <= q /\ t = r + q
  BY <1>0, SMT
<1> HIDE DEF q, r
<1>2. t \in Nat /\ 1 <= t /\ t < s
  BY <1>1, SMT
<1>3. s = Ones * q + t /\ q \in Int
  BY <1>0, <1>1, SMT
<1>4. QED BY <1>2, <1>3

(* The fold of Codec has a solution: in closed form. *)
LEMMA FoldExists ==
  \E g : g = [s \in Nat |-> IF s < 2^16 THEN s ELSE g[(s % 2^16) + (s \div 2^16)]]
<1>0. 2^16 = 65536 /\ Ones = 65535 /\ Ones \in Nat \ {0}
  BY SMT DEF Ones
<1> DEFINE g == [s \in Nat |-> IF s < 2^16 THEN s ELSE ((s - 1) % Ones) + 1]
<1>1. ASSUME NEW s \in Nat
      PROVE  g[s] = IF s < 2^16 THEN s ELSE g[(s % 2^16) + (s \div 2^16)]
  <2>1. CASE s < 2^16
    BY <2>1
  <2>2. CASE ~(s < 2^16)
    <3> DEFINE t == (s % 2^16) + (s \div 2^16)
    <3>1. t \in Nat /\ 1 <= t /\ t < s /\ \E q \in Int : s = Ones * q + t
      BY <2>2, FoldStep
    <3> HIDE DEF t
    <3>2. PICK q \in Int : s = Ones * q + t
      BY <3>1
    <3>3. PICK q1 \in Int, r1 \in Nat : r1 < Ones /\ t - 1 = Ones * q1 + r1 /\ (t - 1) % Ones = r1
      <4>1. t - 1 \in Int
        BY <3>1
      <4>2. QED BY <4>1, Quotient
    <3>4. (s - 1) % Ones = r1
      <4> DEFINE p == q + q1
      <4>1. p \in Int /\ s - 1 \in Int /\ s - 1 = Ones * p + r1
        BY <1>0, <3>1, <3>2, <3>3, SMT
      <4> HIDE DEF p
      <4>2. QED BY <3>3, <4>1, Remainder
    <3>5. g[s] = r1 + 1
      BY <2>2, <3>4
    <3>6. g[t] = r1 + 1
      <4>1. CASE t < 2^16
        <5>1. t - 1 = r1
          BY <1>0, <3>1, <3>3, <4>1, SMT
        <5>2. g[t] = t
          BY <3>1, <4>1
        <5>3. QED BY <3>1, <5>1, <5>2
      <4>2. CASE ~(t < 2^16)
        BY <3>1, <3>3, <4>2
      <4>3. QED BY <4>1, <4>2
    <3>7. QED BY <2>2, <3>5, <3>6 DEF t
  <2>3. QED BY <2>1, <2>2
<1>2. g = [s \in Nat |-> g[s]]
  OBVIOUS
<1> HIDE DEF g
<1>3. g = [s \in Nat |-> IF s < 2^16 THEN s ELSE g[(s % 2^16) + (s \div 2^16)]]
  BY <1>1, <1>2
<1>4. QED BY <1>3

(* And every solution folds to a word with the same remainder. *)
LEMMA FoldIs ==
  ASSUME NEW s \in Nat
  PROVE  fold[s] \in Nat /\ fold[s] < 2^16 /\ \E q \in Int : s = Ones * q + fold[s]
<1>0. 2^16 = 65536 /\ Ones = 65535 /\ Ones \in Nat \ {0}
  BY SMT DEF Ones
<1>1. fold = [z \in Nat |-> IF z < 2^16 THEN z ELSE fold[(z % 2^16) + (z \div 2^16)]]
  <2> DEFINE h == CHOOSE g : g = [z \in Nat |-> IF z < 2^16 THEN z ELSE g[(z % 2^16) + (z \div 2^16)]]
  <2>1. fold = h
    BY Zenon DEF fold
  <2>2. h = [z \in Nat |-> IF z < 2^16 THEN z ELSE h[(z % 2^16) + (z \div 2^16)]]
    BY FoldExists
  <2>3. QED BY <2>1, <2>2
<1> DEFINE Good(z) == fold[z] \in Nat /\ fold[z] < 2^16 /\ \E q \in Int : z = Ones * q + fold[z]
           Bad == {z \in Nat : ~Good(z)}
<1>2. ASSUME Bad # {} PROVE FALSE
  <2>1. Bad \in SUBSET Nat
    OBVIOUS
  <2> HIDE DEF Bad
  <2>2. PICK z \in Bad : \A j \in Bad : z <= j
    BY <1>2, <2>1, LeastNumber
  <2>3. z \in Nat /\ ~Good(z)
    BY DEF Bad
  <2>4. CASE z < 2^16
    <3>1. fold[z] = z
      BY <1>1, <2>3, <2>4
    <3>2. z = Ones * 0 + z /\ 0 \in Int
      BY <1>0, <2>3, SMT
    <3>3. QED BY <2>3, <2>4, <3>1, <3>2
  <2>5. CASE ~(z < 2^16)
    <3> DEFINE t == (z % 2^16) + (z \div 2^16)
    <3>1. t \in Nat /\ t < z /\ \E q \in Int : z = Ones * q + t
      BY <2>3, <2>5, FoldStep
    <3>2. fold[z] = fold[t]
      BY <1>1, <2>3, <2>5
    <3> HIDE DEF t
    <3>3. t \notin Bad
      BY <2>2, <2>3, <3>1
    <3>4. Good(t)
      BY <3>1, <3>3 DEF Bad
    <3>5. PICK q \in Int : z = Ones * q + t
      BY <3>1
    <3>6. PICK p \in Int : t = Ones * p + fold[t]
      BY <3>4
    <3>7. z = Ones * (q + p) + fold[t] /\ q + p \in Int
      BY <1>0, <3>4, <3>5, <3>6, SMT
    <3>8. QED BY <2>3, <3>2, <3>4, <3>7
  <2>6. QED BY <2>4, <2>5
<1>3. Good(s)
  BY <1>2
<1>4. QED BY <1>3

(* A sum and the complement of its fold add up to nothing. *)
LEMMA ChecksumCancels ==
  ASSUME NEW s \in Nat
  PROVE  complement16(fold[s]) \in Word /\ (s + complement16(fold[s])) % Ones = 0
<1>0. 2^16 - 1 = Ones /\ Ones = 65535 /\ 2^16 = 65536
  BY SMT DEF Ones
<1>1. fold[s] \in Nat /\ fold[s] < 2^16 /\ \E q \in Int : s = Ones * q + fold[s]
  BY FoldIs
<1> DEFINE r == fold[s]
<1> HIDE DEF r
<1>2. PICK q \in Int : r \in Nat /\ r < 2^16 /\ s = Ones * q + r
  BY <1>1 DEF r
<1>3. complement16(r) = Ones - r
  BY <1>0 DEF complement16
<1>4. s + (Ones - r) = Ones * (q + 1) + 0 /\ q + 1 \in Int /\ s + (Ones - r) \in Int
  BY <1>0, <1>2, SMT
<1>5. (s + (Ones - r)) % Ones = 0
  <2>1. 0 \in Nat /\ 0 < Ones
    BY <1>0, SMT
  <2>2. QED BY <1>4, <2>1, Remainder
<1>6. Ones - r \in Word
  BY <1>0, <1>2, SMT DEF Word
<1>7. QED BY <1>3, <1>5, <1>6 DEF r

----------------------------------------------------------------------------
(* The parts of a joined sequence. *)
LEMMA JoinedAt ==
  ASSUME NEW s \in Seq(Byte), NEW t \in Seq(Byte)
  PROVE  /\ \A i \in 1 .. Len(s) : (s \o t)[i] = s[i]
         /\ \A i \in 1 .. Len(t) : (s \o t)[Len(s) + i] = t[i]
OBVIOUS

(* It does not matter in which order three are joined. *)
LEMMA JoinedRight ==
  ASSUME NEW s \in Seq(Byte), NEW t \in Seq(Byte), NEW u \in Seq(Byte)
  PROVE  s \o t \o u = s \o (t \o u)
BY ConcatAssociative

(* SubSeq gives back what was joined. *)
LEMMA PartsOf ==
  ASSUME NEW s \in Seq(Byte), NEW t \in Seq(Byte)
  PROVE  /\ SubSeq(s \o t, 1, Len(s)) = s
         /\ SubSeq(s \o t, Len(s) + 1, Len(s) + Len(t)) = t
<1> DEFINE u == s \o t
           a == SubSeq(u, 1, Len(s))
           b == SubSeq(u, Len(s) + 1, Len(s) + Len(t))
<1>1. u \in Seq(Byte) /\ Len(u) = Len(s) + Len(t)
  BY Joined
<1>2. /\ \A i \in 1 .. Len(s) : u[i] = s[i]
      /\ \A i \in 1 .. Len(t) : u[Len(s) + i] = t[i]
  BY JoinedAt
<1>3. Len(s) \in Nat /\ Len(t) \in Nat
  OBVIOUS
<1> HIDE DEF u
<1>4. a \in Seq(Byte) /\ Len(a) = Len(s) /\ \A i \in 1 .. Len(a) : a[i] = u[i]
  BY <1>1, <1>3
<1>5. b \in Seq(Byte) /\ Len(b) = Len(t) /\ \A i \in 1 .. Len(b) : b[i] = u[Len(s) + i]
  BY <1>1, <1>3
<1> HIDE DEF a, b
<1>6. a = s
  BY <1>2, <1>4, SeqEqual
<1>7. b = t
  BY <1>2, <1>5, SeqEqual
<1>8. QED BY <1>6, <1>7 DEF a, b, u

(* A word in network order. *)
LEMMA NetworkWord ==
  ASSUME NEW v \in Word
  PROVE  /\ write_htons_unaligned(v) \in Seq(Byte) /\ Len(write_htons_unaligned(v)) = 2
         /\ word_sum(write_htons_unaligned(v)) = v
         /\ store16(htons(v)) = write_htons_unaligned(v)
         /\ write_htons_unaligned(v)[1] * 256 + write_htons_unaligned(v)[2] = v
<1> DEFINE x == v \div 256
           y == v % 256
<1>1. /\ x \in Nat /\ x < 256 /\ y \in Nat /\ y < 256 /\ v = 256 * x + y /\ x % 256 = x
  BY SMT DEF Word
<1>2. write_htons_unaligned(v) = <<x % 256, y>>
  BY Zenon DEF write_htons_unaligned
<1>3. htons(v) = y * 256 + x
  BY Zenon DEF htons
<1> HIDE DEF x, y
<1>4. (y * 256 + x) % 256 = x /\ (y * 256 + x) \div 256 = y
  BY <1>1, SMT
<1>5. write_htons_unaligned(v) = <<x, y>>
  BY <1>1, <1>2
<1>6. store16(htons(v)) = <<x, y>>
  BY <1>3, <1>4 DEF store16
<1>7. x \in Byte /\ y \in Byte
  BY <1>1, SMT DEF Byte
<1>8. word_sum(<<x, y>>) = 256 * x + y /\ <<x, y>> \in Seq(Byte) /\ Len(<<x, y>>) = 2
  BY <1>7, WordSumTwo
<1>9. x * 256 + y = v
  BY <1>1
<1>10. <<x, y>>[1] = x /\ <<x, y>>[2] = y
  OBVIOUS
<1>11. QED BY <1>1, <1>5, <1>6, <1>8, <1>9, <1>10

(* The sum of three parts. *)
LEMMA WordSumThree ==
  ASSUME NEW a \in Seq(Byte), NEW b \in Seq(Byte), NEW c \in Seq(Byte),
         Len(a) % 2 = 0, Len(b) % 2 = 0
  PROVE  /\ a \o b \o c \in Seq(Byte) /\ Len(a \o b \o c) = Len(a) + Len(b) + Len(c)
         /\ word_sum(a \o b \o c) = word_sum(a) + word_sum(b) + word_sum(c)
<1> DEFINE d == a \o b
<1>1. d \in Seq(Byte) /\ Len(d) = Len(a) + Len(b) /\ word_sum(d) = word_sum(a) + word_sum(b)
  BY Joined, WordSumJoined
<1> HIDE DEF d
<1>2. Len(d) % 2 = 0
  <2>1. PICK m \in Nat, n \in Nat : Len(a) = m /\ Len(b) = n
    OBVIOUS
  <2>2. Len(d) = m + n /\ m % 2 = 0 /\ n % 2 = 0
    BY <1>1, <2>1
  <2>3. QED BY <2>2
<1>3. d \o c \in Seq(Byte) /\ Len(d \o c) = Len(d) + Len(c) /\ word_sum(d \o c) = word_sum(d) + word_sum(c)
  BY <1>1, <1>2, Joined, WordSumJoined
<1>4. QED BY <1>1, <1>3 DEF d

(* The checksum fields before they are filled. *)
LEMMA Zeros ==
  /\ <<0, 0>> \in Seq(Byte) /\ Len(<<0, 0>>) = 2 /\ word_sum(<<0, 0>>) = 0
  /\ <<0, 0, 0, 0>> \in Seq(Byte) /\ Len(<<0, 0, 0, 0>>) = 4 /\ word_sum(<<0, 0, 0, 0>>) = 0
<1>1. 0 \in Byte
  BY DEF Byte
<1> DEFINE z == <<0, 0>>
           w == <<0, 0, 0, 0>>
<1>2. z \in Seq(Byte) /\ Len(z) = 2 /\ word_sum(z) = 256 * 0 + 0
  BY <1>1, WordSumTwo
<1>3. 256 * 0 + 0 = 0
  OBVIOUS
<1>4. w \in Seq(Byte) /\ Len(w) = 4
  BY <1>1
<1>5. w = z \o z
  OBVIOUS
<1> HIDE DEF z, w
<1>6. word_sum(w) = word_sum(z) + word_sum(z)
  <2>1. Len(z) % 2 = 0
    BY <1>2
  <2>2. QED BY <1>2, <1>5, <2>1, WordSumJoined
<1>7. QED BY <1>2, <1>3, <1>4, <1>6 DEF z, w

(* An address is four bytes. *)
LEMMA AddressIs ==
  ASSUME NEW a \in [1 .. 4 -> Byte]
  PROVE  a \in Seq(Byte) /\ Len(a) = 4
<1>1. a \in Seq(Byte)
  BY SeqDef
<1>2. DOMAIN a = 1 .. 4 /\ 4 \in Nat
  OBVIOUS
<1>3. QED BY <1>1, <1>2, LenProperties

(* The first ten bytes of an IPv4 header, of a packet of n bytes. *)
Start(n, ttl, protocol) ==
  <<69, 0>> \o store16(htons(n)) \o store16(htons(1)) \o <<0, 0, ttl, protocol>>

StartOK(w, n, protocol) ==
  w \in Seq(Byte) /\ Len(w) = 10 /\ w[3] * 256 + w[4] = n /\ w[10] = protocol

(* The total length and the protocol are in their places. *)
LEMMA StartIs ==
  ASSUME NEW n \in Word, NEW ttl \in Byte, NEW protocol \in Byte
  PROVE  StartOK(Start(n, ttl, protocol), n, protocol)
<1> DEFINE w == Start(n, ttl, protocol)
           p == store16(htons(n))
           q == store16(htons(1))
           h == <<69, 0>>
           t == <<0, 0, ttl, protocol>>
<1>1. p \in Seq(Byte) /\ Len(p) = 2 /\ p[1] * 256 + p[2] = n
  BY NetworkWord
<1>2. q \in Seq(Byte) /\ Len(q) = 2
  <2>1. 1 \in Word
    BY SMT DEF Word
  <2>2. QED BY <2>1, NetworkWord
<1>3. 69 \in Byte /\ 0 \in Byte
  BY SMT DEF Byte
<1>4. h \in Seq(Byte) /\ Len(h) = 2
  BY <1>3
<1>5. t \in Seq(Byte) /\ Len(t) = 4 /\ t[4] = protocol
  BY <1>3
<1>6. w = h \o p \o q \o t
  BY DEF Start
<1> HIDE DEF p, q, h, t, w
<1> DEFINE u == h \o p
           v == u \o q
<1>7. u \in Seq(Byte) /\ Len(u) = 4 /\ u[3] = p[1] /\ u[4] = p[2]
  <2>1. u \in Seq(Byte) /\ Len(u) = Len(h) + Len(p)
    BY <1>1, <1>4, Joined
  <2>2. \A i \in 1 .. Len(p) : u[Len(h) + i] = p[i]
    BY <1>1, <1>4, JoinedAt
  <2> HIDE DEF u
  <2>3. u[2 + 1] = p[1] /\ u[2 + 2] = p[2]
    BY <1>1, <1>4, <2>2
  <2>4. QED BY <1>1, <1>4, <2>1, <2>3
<1> HIDE DEF u
<1>8. v \in Seq(Byte) /\ Len(v) = 6 /\ v[3] = u[3] /\ v[4] = u[4]
  <2>1. v \in Seq(Byte) /\ Len(v) = Len(u) + Len(q)
    BY <1>2, <1>7, Joined
  <2>2. \A i \in 1 .. Len(u) : v[i] = u[i]
    BY <1>2, <1>7, JoinedAt
  <2> HIDE DEF v
  <2>3. QED BY <1>2, <1>7, <2>1, <2>2
<1> HIDE DEF v
<1>9. v \o t \in Seq(Byte) /\ Len(v \o t) = 10 /\ (v \o t)[3] = v[3] /\ (v \o t)[4] = v[4] /\ (v \o t)[10] = t[4]
  <2> DEFINE x == v \o t
  <2>1. x \in Seq(Byte) /\ Len(x) = Len(v) + Len(t)
    BY <1>5, <1>8, Joined
  <2>2. (\A i \in 1 .. Len(v) : x[i] = v[i]) /\ \A i \in 1 .. Len(t) : x[Len(v) + i] = t[i]
    BY <1>5, <1>8, JoinedAt
  <2> HIDE DEF x
  <2>3. x[6 + 4] = t[4] /\ x[3] = v[3] /\ x[4] = v[4]
    BY <1>5, <1>8, <2>2
  <2>4. x \in Seq(Byte) /\ Len(x) = 10 /\ x[3] = v[3] /\ x[4] = v[4] /\ x[10] = t[4]
    BY <1>5, <1>8, <2>1, <2>3
  <2>5. QED BY <2>4 DEF x
<1>10. w = v \o t
  BY <1>6 DEF u, v
<1>11. w[3] = p[1] /\ w[4] = p[2] /\ w[10] = protocol /\ w \in Seq(Byte) /\ Len(w) = 10
  BY <1>5, <1>7, <1>8, <1>9, <1>10
<1>12. StartOK(w, n, protocol)
  BY <1>1, <1>11 DEF StartOK
<1>13. QED BY <1>12 DEF w

(* The IPv4 header: where its fields stand, and that it sums to nothing. *)
HeaderOK(h, src, dst, protocol, len) ==
  /\ h \in Seq(Byte) /\ Len(h) = 20
  /\ h[3] * 256 + h[4] = 20 + len /\ h[10] = protocol
  /\ SubSeq(h, 13, 20) = src \o dst
  /\ BigEndian(h) = 0

(* ipv4_build_header builds such a header. *)
LEMMA HeaderIs ==
  ASSUME NEW src \in [1 .. 4 -> Byte], NEW dst \in [1 .. 4 -> Byte],
         NEW protocol \in Byte, NEW ttl \in Byte, NEW len \in Nat, 20 + len \in Word
  PROVE  HeaderOK(ipv4_build_header(src, dst, protocol, len, ttl), src, dst, protocol, len)
<1> DEFINE h == ipv4_build_header(src, dst, protocol, len, ttl)
           before == <<69, 0>> \o store16(htons(20 + len)) \o store16(htons(1)) \o <<0, 0, ttl, protocol>>
           after == src \o dst
           z == <<0, 0>>
           s == word_sum(before \o z \o after)
           k == complement16(fold[s])
           ck == store16(htons(k))
<1>1. h = before \o ck \o after
  BY Zenon DEF ipv4_build_header, ipv4_checksum
<1>2. /\ before \in Seq(Byte) /\ Len(before) = 10
      /\ before[3] * 256 + before[4] = 20 + len /\ before[10] = protocol
  <2> DEFINE n == 20 + len
  <2>1. n \in Word /\ before = Start(n, ttl, protocol)
    BY Zenon DEF Start
  <2> HIDE DEF n, before
  <2>2. before \in Seq(Byte) /\ Len(before) = 10 /\ before[3] * 256 + before[4] = n /\ before[10] = protocol
    <3>1. StartOK(Start(n, ttl, protocol), n, protocol)
      BY <2>1, StartIs
    <3>2. QED BY <2>1, <3>1 DEF StartOK
  <2>3. QED BY <2>2 DEF n
<1>3. after \in Seq(Byte) /\ Len(after) = 8
  <2>1. src \in Seq(Byte) /\ dst \in Seq(Byte) /\ Len(src) = 4 /\ Len(dst) = 4
    BY AddressIs
  <2>2. after \in Seq(Byte) /\ Len(after) = Len(src) + Len(dst)
    BY <2>1, Joined
  <2> HIDE DEF after
  <2>3. QED BY <2>1, <2>2
<1>4. z \in Seq(Byte) /\ Len(z) = 2 /\ word_sum(z) = 0
  BY Zeros
<1> HIDE DEF before, after, z, h
<1>5. /\ word_sum(before) \in Nat /\ word_sum(after) \in Nat
      /\ s = word_sum(before) + word_sum(z) + word_sum(after)
  <2>1. Len(before) % 2 = 0 /\ Len(z) % 2 = 0
    BY <1>2, <1>4
  <2>2. QED BY <1>2, <1>3, <1>4, <2>1, WordSumThree, WordSumNat
<1> HIDE DEF s
<1>6. s \in Nat /\ s = word_sum(before) + word_sum(after)
  BY <1>4, <1>5
<1>7. k \in Word /\ (s + k) % Ones = 0
  BY <1>6, ChecksumCancels
<1> HIDE DEF k
<1>8. ck \in Seq(Byte) /\ Len(ck) = 2 /\ word_sum(ck) = k
  BY <1>7, NetworkWord
<1> HIDE DEF ck
<1>9. /\ h \in Seq(Byte) /\ Len(h) = 20
      /\ word_sum(h) = word_sum(before) + word_sum(ck) + word_sum(after)
  <2>1. Len(before) % 2 = 0 /\ Len(ck) % 2 = 0
    BY <1>2, <1>8
  <2>2. /\ h \in Seq(Byte) /\ Len(h) = Len(before) + Len(ck) + Len(after)
        /\ word_sum(h) = word_sum(before) + word_sum(ck) + word_sum(after)
    <3> DEFINE x == before \o ck \o after
    <3>1. /\ x \in Seq(Byte) /\ Len(x) = Len(before) + Len(ck) + Len(after)
          /\ word_sum(x) = word_sum(before) + word_sum(ck) + word_sum(after)
      BY <1>2, <1>3, <1>8, <2>1, WordSumThree
    <3> HIDE DEF x
    <3>2. QED BY <1>1, <3>1 DEF x
  <2>3. QED BY <1>2, <1>3, <1>8, <2>2
<1>10. word_sum(h) = s + k
  <2>1. k \in Nat
    BY <1>7, SMT DEF Word
  <2>2. QED BY <1>5, <1>6, <1>8, <1>9, <2>1
<1>11. BigEndian(h) = 0
  <2>1. Len(h) % 2 = 0
    BY <1>9
  <2>2. QED BY <1>7, <1>9, <1>10, <2>1, BigEndianIs
<1> DEFINE b == before \o ck
<1>12. /\ b \in Seq(Byte) /\ Len(b) = 12 /\ \A i \in 1 .. 10 : b[i] = before[i]
  <2>1. b \in Seq(Byte) /\ Len(b) = Len(before) + Len(ck)
    BY <1>2, <1>8, Joined
  <2>2. \A i \in 1 .. Len(before) : b[i] = before[i]
    BY <1>2, <1>8, JoinedAt
  <2> HIDE DEF b
  <2>3. QED BY <1>2, <1>8, <2>1, <2>2
<1>13. h = b \o after
  BY <1>1
<1> HIDE DEF b
<1>14. \A i \in 1 .. 12 : h[i] = b[i]
  <2>1. \A i \in 1 .. Len(b) : (b \o after)[i] = b[i]
    BY <1>3, <1>12, JoinedAt
  <2>2. QED BY <1>12, <1>13, <2>1
<1>15. h[3] = before[3] /\ h[4] = before[4] /\ h[10] = before[10]
  BY <1>12, <1>14
<1>16. SubSeq(h, 13, 20) = after
  <2>1. SubSeq(b \o after, Len(b) + 1, Len(b) + Len(after)) = after
    BY <1>3, <1>12, PartsOf
  <2>2. Len(b) + 1 = 13 /\ Len(b) + Len(after) = 20
    BY <1>3, <1>12
  <2>3. QED BY <1>13, <2>1, <2>2
<1>17. HeaderOK(h, src, dst, protocol, len)
  BY <1>2, <1>9, <1>11, <1>15, <1>16 DEF after, HeaderOK
<1>18. QED BY <1>17 DEF h

(* A sequence number in network order, and the byte of the flags. *)
LEMMA NetworkLong ==
  ASSUME NEW v \in Nat
  PROVE  write_htonl_unaligned(v) \in Seq(Byte) /\ Len(write_htonl_unaligned(v)) = 4
<1> DEFINE x == (v \div 2^24) % 256
           y == (v \div 2^16) % 256
           z == (v \div 2^8) % 256
           w == v % 256
<1>1. x \in Byte /\ y \in Byte /\ z \in Byte /\ w \in Byte
  BY SMT DEF Byte
<1>2. write_htonl_unaligned(v) = <<x, y, z, w>>
  BY Zenon DEF write_htonl_unaligned
<1> HIDE DEF x, y, z, w
<1>3. <<x, y, z, w>> \in Seq(Byte) /\ Len(<<x, y, z, w>>) = 4
  BY <1>1
<1>4. QED BY <1>2, <1>3

(* The flags fit a byte. *)
LEMMA FlagByte ==
  ASSUME NEW flags
  PROVE  flag_byte(flags) \in Byte
<1> DEFINE Bit(f) == IF f \in flags THEN TCP_FLAG[f] ELSE 0
           a == Bit("FIN")
           b == Bit("SYN")
           c == Bit("RST")
           d == Bit("PSH")
           e == Bit("ACK")
<1>1. flag_byte(flags) = a + b + c + d + e
  BY Zenon DEF flag_byte
<1>2. a \in {0, 1} /\ b \in {0, 2} /\ c \in {0, 4} /\ d \in {0, 8} /\ e \in {0, 16}
  BY DEF TCP_FLAG
<1> HIDE DEF a, b, c, d, e
<1>3. a + b + c + d + e \in Byte
  BY <1>2, SMT DEF Byte
<1>4. QED BY <1>1, <1>3

(* The first sixteen bytes of a TCP header. *)
TcpStart(srcport, dstport, seq, ack, flags, window) ==
  write_htons_unaligned(srcport) \o write_htons_unaligned(dstport)
    \o write_htonl_unaligned(seq) \o write_htonl_unaligned(ack)
    \o <<80, flag_byte(flags)>> \o write_htons_unaligned(window)

(* They are sixteen bytes. *)
LEMMA TcpStartIs ==
  ASSUME NEW srcport \in Word, NEW dstport \in Word, NEW seq \in Nat, NEW ack \in Nat,
         NEW flags, NEW window \in Word
  PROVE  /\ TcpStart(srcport, dstport, seq, ack, flags, window) \in Seq(Byte)
         /\ Len(TcpStart(srcport, dstport, seq, ack, flags, window)) = 16
<1> DEFINE a == write_htons_unaligned(srcport)
           b == write_htons_unaligned(dstport)
           c == write_htonl_unaligned(seq)
           d == write_htonl_unaligned(ack)
           e == <<80, flag_byte(flags)>>
           f == write_htons_unaligned(window)
<1>1. /\ a \in Seq(Byte) /\ Len(a) = 2 /\ b \in Seq(Byte) /\ Len(b) = 2
      /\ f \in Seq(Byte) /\ Len(f) = 2
  BY NetworkWord
<1>2. c \in Seq(Byte) /\ Len(c) = 4 /\ d \in Seq(Byte) /\ Len(d) = 4
  BY NetworkLong
<1>3. e \in Seq(Byte) /\ Len(e) = 2
  <2>1. 80 \in Byte /\ flag_byte(flags) \in Byte
    BY FlagByte, SMT DEF Byte
  <2>2. QED BY <2>1
<1>4. TcpStart(srcport, dstport, seq, ack, flags, window) = a \o b \o c \o d \o e \o f
  BY DEF TcpStart
<1> HIDE DEF a, b, c, d, e, f
<1> DEFINE u == a \o b \o c
           v == u \o d \o e
<1>5. u \in Seq(Byte) /\ Len(u) = Len(a) + Len(b) + Len(c)
  BY <1>1, <1>2, Joined3, Zenon
<1> HIDE DEF u
<1>6. v \in Seq(Byte) /\ Len(v) = Len(u) + Len(d) + Len(e)
  BY <1>2, <1>3, <1>5, Joined3, Zenon
<1> HIDE DEF v
<1>7. v \o f \in Seq(Byte) /\ Len(v \o f) = Len(v) + Len(f)
  BY <1>1, <1>6, Joined, Zenon
<1>8. Len(u) = 8
  BY <1>1, <1>2, <1>5
<1>9. Len(v) = 14
  BY <1>2, <1>3, <1>6, <1>8
<1>10. Len(v \o f) = 16
  BY <1>1, <1>7, <1>9
<1>11. QED BY <1>4, <1>7, <1>10 DEF u, v

(* A TCP segment of w with its checksum k: w stands for the first sixteen  *)
(* bytes.  With the words of the pseudo-header it sums to nothing.         *)
Checked(w, payload, p) ==
  w \o store16(htons(complement16(fold[p + word_sum(w \o <<0, 0, 0, 0>> \o payload)])))
    \o <<0, 0>> \o payload

CheckedOK(t, payload, p) ==
  /\ t \in Seq(Byte) /\ Len(t) = 20 + Len(payload)
  /\ word_sum(t) \in Nat /\ (p + word_sum(t)) % Ones = 0

(* It does, for every payload. *)
LEMMA SegmentSum ==
  ASSUME NEW w \in Seq(Byte), Len(w) = 16, NEW payload \in Seq(Byte), NEW p \in Nat
  PROVE  CheckedOK(Checked(w, payload, p), payload, p)
<1> DEFINE t == Checked(w, payload, p)
           s == p + word_sum(w \o <<0, 0, 0, 0>> \o payload)
           z == <<0, 0>>
           zz == <<0, 0, 0, 0>>
           k == complement16(fold[s])
           ck == store16(htons(k))
<1>1. /\ z \in Seq(Byte) /\ Len(z) = 2 /\ word_sum(z) = 0
      /\ zz \in Seq(Byte) /\ Len(zz) = 4 /\ word_sum(zz) = 0
  BY Zeros
<1>2. s = p + word_sum(w \o zz \o payload) /\ t = w \o ck \o z \o payload
  BY Zenon DEF Checked
<1> HIDE DEF z, zz, s, t
<1>3. word_sum(w) \in Nat /\ word_sum(payload) \in Nat
  BY WordSumNat
<1>4. s \in Nat /\ s = p + word_sum(w) + word_sum(payload)
  <2>1. Len(w) % 2 = 0 /\ Len(zz) % 2 = 0
    BY <1>1
  <2>2. word_sum(w \o zz \o payload) = word_sum(w) + word_sum(zz) + word_sum(payload)
    BY <1>1, <2>1, WordSumThree
  <2>3. QED BY <1>1, <1>2, <1>3, <2>2
<1>5. k \in Word /\ (s + k) % Ones = 0
  BY <1>4, ChecksumCancels
<1> HIDE DEF k
<1>6. ck \in Seq(Byte) /\ Len(ck) = 2 /\ word_sum(ck) = k
  BY <1>5, NetworkWord
<1>7. k \in Nat
  BY <1>5, SMT DEF Word
<1> HIDE DEF ck
<1> DEFINE h == w \o ck \o z
<1>8. /\ h \in Seq(Byte) /\ Len(h) = Len(w) + Len(ck) + Len(z)
      /\ word_sum(h) = word_sum(w) + word_sum(ck) + word_sum(z)
  <2>1. Len(w) % 2 = 0 /\ Len(ck) % 2 = 0
    BY <1>6
  <2>2. QED BY <1>1, <1>6, <2>1, WordSumThree
<1>9. t = h \o payload
  BY <1>2
<1> HIDE DEF h
<1>10. Len(h) = 20 /\ word_sum(h) = word_sum(w) + k
  BY <1>1, <1>3, <1>6, <1>7, <1>8
<1>11. /\ t \in Seq(Byte) /\ Len(t) = Len(h) + Len(payload)
       /\ word_sum(t) = word_sum(h) + word_sum(payload)
  <2>1. Len(h) % 2 = 0
    BY <1>10
  <2>2. h \o payload \in Seq(Byte) /\ Len(h \o payload) = Len(h) + Len(payload)
    BY <1>8, Joined
  <2>3. word_sum(h \o payload) = word_sum(h) + word_sum(payload)
    BY <1>8, <2>1, WordSumJoined
  <2>4. QED BY <1>9, <2>2, <2>3
<1>12. word_sum(t) = word_sum(w) + k + word_sum(payload) /\ word_sum(t) \in Nat
  BY <1>3, <1>7, <1>10, <1>11
<1>13. p + word_sum(t) = s + k
  BY <1>3, <1>4, <1>7, <1>12
<1>14. CheckedOK(t, payload, p)
  BY <1>5, <1>10, <1>11, <1>12, <1>13 DEF CheckedOK
<1>15. QED BY <1>14 DEF t

(* The pseudo-header of the receiver sums to what the sender put in. *)
Pseudo(src, dst, protocol, len) ==
  (src \o dst) \o <<0, protocol>> \o write_htons_unaligned(len)

PseudoOK(u, src, dst, protocol, len) ==
  /\ u \in Seq(Byte) /\ Len(u) = 12
  /\ word_sum(u) = word_sum(src) + word_sum(dst) + protocol + len
  /\ word_sum(src) \in Nat /\ word_sum(dst) \in Nat

(* So it is for every pair of addresses and every length. *)
LEMMA PseudoSum ==
  ASSUME NEW src \in [1 .. 4 -> Byte], NEW dst \in [1 .. 4 -> Byte],
         NEW protocol \in Byte, NEW len \in Word
  PROVE  PseudoOK(Pseudo(src, dst, protocol, len), src, dst, protocol, len)
<1> DEFINE u == Pseudo(src, dst, protocol, len)
           a == src \o dst
           b == <<0, protocol>>
           c == write_htons_unaligned(len)
<1>1. /\ src \in Seq(Byte) /\ Len(src) = 4 /\ dst \in Seq(Byte) /\ Len(dst) = 4
      /\ word_sum(src) \in Nat /\ word_sum(dst) \in Nat
  BY AddressIs, WordSumNat
<1>2. /\ a \in Seq(Byte) /\ Len(a) = Len(src) + Len(dst)
      /\ word_sum(a) = word_sum(src) + word_sum(dst)
  <2>1. Len(src) % 2 = 0
    BY <1>1
  <2>2. QED BY <1>1, <2>1, Joined, WordSumJoined
<1>3. b \in Seq(Byte) /\ Len(b) = 2 /\ word_sum(b) = 256 * 0 + protocol
  <2>1. 0 \in Byte
    BY SMT DEF Byte
  <2>2. QED BY <2>1, WordSumTwo
<1>4. c \in Seq(Byte) /\ Len(c) = 2 /\ word_sum(c) = len
  BY NetworkWord
<1>5. u = a \o b \o c
  BY DEF Pseudo
<1> HIDE DEF a, b, c, u
<1>6. Len(a) = 8
  BY <1>1, <1>2
<1>7. /\ a \o b \o c \in Seq(Byte) /\ Len(a \o b \o c) = Len(a) + Len(b) + Len(c)
      /\ word_sum(a \o b \o c) = word_sum(a) + word_sum(b) + word_sum(c)
  <2>1. Len(a) % 2 = 0 /\ Len(b) % 2 = 0
    BY <1>3, <1>6
  <2>2. QED BY <1>2, <1>3, <1>4, <2>1, WordSumThree
<1>8. Len(u) = 12 /\ u \in Seq(Byte) /\ word_sum(u) = word_sum(a) + word_sum(b) + word_sum(c)
  <2>1. /\ u \in Seq(Byte) /\ Len(u) = Len(a) + Len(b) + Len(c)
        /\ word_sum(u) = word_sum(a) + word_sum(b) + word_sum(c)
    BY <1>5, <1>7
  <2>2. QED BY <1>3, <1>4, <1>6, <2>1
<1>9. protocol \in Nat /\ len \in Nat
  BY SMT DEF Byte, Word
<1>10. word_sum(u) = word_sum(src) + word_sum(dst) + protocol + len
  <2>1. word_sum(b) = protocol
    BY <1>3, <1>9
  <2>2. word_sum(u) = (word_sum(src) + word_sum(dst)) + protocol + len
    BY <1>2, <1>4, <1>8, <2>1
  <2>3. QED BY <2>2
<1>11. PseudoOK(u, src, dst, protocol, len)
  BY <1>1, <1>8, <1>10 DEF PseudoOK
<1>12. QED BY <1>11 DEF u

(* A packet of a header and a segment verifies. *)
LEMMA PacketVerifies ==
  ASSUME NEW src \in [1 .. 4 -> Byte], NEW dst \in [1 .. 4 -> Byte],
         NEW protocol \in Byte, NEW h \in Seq(Byte), NEW t \in Seq(Byte),
         Len(h) = 20, Len(t) \in Word,
         h[3] * 256 + h[4] = 20 + Len(t), h[10] = protocol, SubSeq(h, 13, 20) = src \o dst,
         BigEndian(h) = 0,
         (word_sum(src) + word_sum(dst) + protocol + Len(t) + word_sum(t)) % Ones = 0
  PROVE  Verifies(h \o t)
<1> DEFINE packet == h \o t
           pseudo == SubSeq(h, 13, 20) \o <<0, h[10]>> \o write_htons_unaligned(Len(t))
<1>1. packet \in Seq(Byte) /\ Len(packet) = Len(h) + Len(t)
  BY Joined
<1>2. SubSeq(packet, 1, Len(h)) = h /\ SubSeq(packet, Len(h) + 1, Len(h) + Len(t)) = t
  BY PartsOf
<1> HIDE DEF packet
<1>3. Len(h) + 1 = 21 /\ Len(packet) = 20 + Len(t)
  BY <1>1
<1>4. SubSeq(packet, 1, 20) = h /\ SubSeq(packet, 21, Len(packet)) = t
  BY <1>1, <1>2, <1>3
<1>5. /\ pseudo \in Seq(Byte) /\ Len(pseudo) = 12
      /\ word_sum(pseudo) = word_sum(src) + word_sum(dst) + protocol + Len(t)
      /\ word_sum(src) \in Nat /\ word_sum(dst) \in Nat
  <2>1. pseudo = Pseudo(src, dst, protocol, Len(t))
    BY DEF Pseudo
  <2> HIDE DEF pseudo
  <2>2. PseudoOK(Pseudo(src, dst, protocol, Len(t)), src, dst, protocol, Len(t))
    BY PseudoSum
  <2>3. QED BY <2>1, <2>2 DEF PseudoOK
<1> DEFINE q == Padded(t)
<1>6. q \in Seq(Byte) /\ Len(q) % 2 = 0 /\ word_sum(q) = word_sum(t)
  BY WordSumPadded
<1>7. Verifies(packet) <=> /\ BigEndian(h) = 0
                           /\ BigEndian(pseudo \o q) = 0
                           /\ h[3] * 256 + h[4] = Len(packet)
  BY <1>4 DEF Verifies
<1> HIDE DEF pseudo, q
<1>8. /\ pseudo \o q \in Seq(Byte) /\ Len(pseudo \o q) = Len(pseudo) + Len(q)
      /\ word_sum(pseudo \o q) = word_sum(pseudo) + word_sum(q)
  <2>1. Len(pseudo) % 2 = 0
    BY <1>5
  <2>2. QED BY <1>5, <1>6, <2>1, Joined, WordSumJoined
<1>9. Len(pseudo \o q) % 2 = 0
  <2>1. PICK n \in Nat : Len(q) = n
    BY <1>6
  <2>2. Len(pseudo \o q) = 12 + n /\ n % 2 = 0
    BY <1>5, <1>6, <1>8, <2>1
  <2>3. QED BY <2>2
<1>10. BigEndian(pseudo \o q) = (word_sum(src) + word_sum(dst) + protocol + Len(t) + word_sum(t)) % Ones
  BY <1>5, <1>6, <1>8, <1>9, BigEndianIs
<1>11. QED BY <1>3, <1>7, <1>10 DEF packet

(* Every segment of the server verifies at its receiver. *)
LEMMA SegmentVerifies ==
  ASSUME NEW c \in Clients, NEW s, s.client = c, s.seq \in Nat, s.ack \in Nat, s.payload \in BOOLEAN
  PROVE  Verifies(send_tcp_packet(s))
<1> DEFINE p == IF s.payload THEN http_buf[c] ELSE <<>>
           src == server_ip
           dst == ip[c]
           ttl == 64
           proto == IPPROTO_TCP
           window == 2^16 - 1
           len == 20 + Len(p)
           h == ipv4_build_header(src, dst, proto, len, ttl)
           w == TcpStart(HTTP_HELLO_PORT, port[c], s.seq, s.ack, s.flags, window)
           zz == <<0, 0, 0, 0>>
           seg == w \o zz \o p
           pre == word_sum(src) + word_sum(dst) + proto + Len(seg)
           sum == pre + word_sum(seg)
           head == w \o store16(htons(complement16(fold[sum]))) \o <<0, 0>>
           t == head \o p
<1>1. send_tcp_packet(s) = h \o head \o p
  <2> DEFINE e == [port |-> HTTP_HELLO_PORT, ip |-> server_ip]
             f == [port |-> port[c], ip |-> ip[c]]
             T == tcp_build_header(e, f, s.seq, s.ack, s.flags, 2^16 - 1, p)
  <2>1. send_tcp_packet(s) = h \o T \o p
    BY Zenon DEF send_tcp_packet
  <2>2. e.port = HTTP_HELLO_PORT /\ e.ip = server_ip /\ f.port = port[c] /\ f.ip = ip[c]
    OBVIOUS
  <2> HIDE DEF e, f
  <2>3. T = head
    BY <2>2, Zenon DEF tcp_build_header, tcp_checksum, TcpStart
  <2>4. QED BY <2>1, <2>3
<1>2. p \in Seq(Byte) /\ Len(p) \in Nat /\ Len(p) < 200
  <2>1. CASE s.payload
    <3>1. ip[c] \in [1 .. 4 -> Byte]
      BY HttpAssumption
    <3>2. http_buf[c] \in Seq(Byte)
      BY <3>1, ResponseIs DEF http_buf
    <3>3. http_len[c] \in 104 .. 112 /\ http_len[c] = Len(http_buf[c])
      BY HttpLen DEF http_len
    <3>4. p = http_buf[c]
      BY <2>1
    <3> HIDE DEF p
    <3>5. PICK n \in 104 .. 112 : Len(p) = n
      BY <3>3, <3>4
    <3>6. QED BY <3>2, <3>4, <3>5
  <2>2. CASE ~s.payload
    BY <2>2
  <2>3. QED BY <2>1, <2>2
<1>3. src \in [1 .. 4 -> Byte] /\ dst \in [1 .. 4 -> Byte]
  <2>1. 10 \in Byte /\ 0 \in Byte /\ 2 \in Byte /\ 15 \in Byte
    BY SMT DEF Byte
  <2>2. QED BY <2>1, HttpAssumption DEF server_ip
<1>4. ttl \in Byte /\ proto \in Byte /\ window \in Word /\ HTTP_HELLO_PORT \in Word
  BY SMT DEF IPPROTO_TCP, Byte, Word, HTTP_HELLO_PORT
<1> HIDE DEF p, src, dst, ttl, proto, window
<1>5. len \in Nat /\ 20 + len \in Word /\ len \in Word
  BY <1>2, SMT DEF Word
<1>6. /\ h \in Seq(Byte) /\ Len(h) = 20 /\ h[3] * 256 + h[4] = 20 + len
      /\ h[10] = proto /\ SubSeq(h, 13, 20) = src \o dst /\ BigEndian(h) = 0
  <2> HIDE DEF len
  <2>1. HeaderOK(h, src, dst, proto, len)
    BY <1>3, <1>4, <1>5, HeaderIs
  <2> HIDE DEF h
  <2>2. QED BY <2>1 DEF HeaderOK
<1>7. w \in Seq(Byte) /\ Len(w) = 16
  <2>1. port[c] \in Word
    BY HttpAssumption
  <2>2. QED BY <1>4, <2>1, TcpStartIs
<1> HIDE DEF h, w
<1>8. Len(seg) = len /\ seg \in Seq(Byte)
  <2>1. zz \in Seq(Byte) /\ Len(zz) = 4
    BY Zeros
  <2> HIDE DEF zz
  <2>2. seg \in Seq(Byte) /\ Len(seg) = Len(w) + Len(zz) + Len(p)
    BY <1>2, <1>7, <2>1, Joined3
  <2> HIDE DEF seg
  <2>3. QED BY <1>2, <1>7, <2>1, <2>2
<1>9. word_sum(src) \in Nat /\ word_sum(dst) \in Nat
  BY <1>3, AddressIs, WordSumNat
<1>10. proto \in Nat
  BY <1>4, SMT DEF Byte
<1>11. pre \in Nat
  <2> HIDE DEF seg, len
  <2>1. QED BY <1>5, <1>8, <1>9, <1>10
<1>12. /\ t \in Seq(Byte) /\ Len(t) = 20 + Len(p)
       /\ word_sum(t) \in Nat /\ (pre + word_sum(t)) % Ones = 0
  <2> HIDE DEF pre
  <2>1. t = Checked(w, p, pre)
    BY Zenon DEF Checked
  <2>2. CheckedOK(Checked(w, p, pre), p, pre)
    BY <1>2, <1>7, <1>11, SegmentSum
  <2> HIDE DEF t
  <2>3. QED BY <2>1, <2>2 DEF CheckedOK
<1>13. head \in Seq(Byte)
  <2>1. word_sum(seg) \in Nat
    BY <1>8, WordSumNat
  <2> HIDE DEF pre, seg
  <2>2. sum \in Nat
    BY <1>11, <2>1
  <2> HIDE DEF sum
  <2> DEFINE k == complement16(fold[sum])
             ck == store16(htons(k))
             z == <<0, 0>>
  <2>3. k \in Word
    BY <2>2, ChecksumCancels
  <2> HIDE DEF k
  <2>4. ck \in Seq(Byte)
    BY <2>3, NetworkWord
  <2>5. z \in Seq(Byte)
    BY Zeros
  <2>6. head = w \o ck \o z
    BY DEF k
  <2> HIDE DEF ck, z, head
  <2>7. QED BY <1>7, <2>4, <2>5, <2>6, Joined3
<1>14. send_tcp_packet(s) = h \o t
  <2> HIDE DEF head
  <2>1. QED BY <1>1, <1>2, <1>6, <1>13, JoinedRight
<1> HIDE DEF head, t, seg
<1>15. Len(t) = len /\ Len(t) \in Word
  BY <1>5, <1>12
<1>16. (word_sum(src) + word_sum(dst) + proto + Len(t) + word_sum(t)) % Ones = 0
  BY <1>8, <1>12, <1>15
<1>17. h[3] * 256 + h[4] = 20 + Len(t)
  BY <1>6, <1>15
<1>18. Verifies(h \o t)
  BY <1>3, <1>4, <1>6, <1>12, <1>15, <1>16, <1>17, PacketVerifies
<1>19. QED BY <1>14, <1>18

(* The bytes of a response that its Content-Length stands in. *)
DigitsOK(b, n) ==
  b[84] = 48 + n \div 10 /\ b[85] = 48 + (n % 10) /\ b[86] = 120 /\ b[87] = 120

(* Two digits, then text. *)
LEMMA ResponseDigits ==
  ASSUME NEW a \in [1 .. 4 -> Byte], NEW n \in 15 .. 23, Len(write_hello_ip(a)) = n
  PROVE  DigitsOK(build_http_response(a), n)
<1> DEFINE h == write_hello_ip(a)
           d == write_decimal_size(n)
           x == 48 + n \div 10
           y == 48 + (n % 10)
           m83 == 83
           m4 == 4
           t == Text(m83)
           u == Text(m4)
<1>1. h \in Seq(Byte)
  BY HelloIs
<1>2. d = <<x, y>>
  <2>1. n \in 10 .. 99
    OBVIOUS
  <2>2. QED BY <2>1, SizeIs DEF Digit
<1>3. x \in Byte /\ y \in Byte
  BY SMT DEF Byte
<1> HIDE DEF d, x, y
<1>4. d \in Seq(Byte) /\ Len(d) = 2 /\ d[1] = x /\ d[2] = y
  BY <1>2, <1>3
<1>5. build_http_response(a) = t \o d \o u \o h
  BY Zenon DEF build_http_response, HeaderText, d
<1>6. m83 \in Nat /\ m4 \in Nat /\ m83 = 83 /\ m4 = 4
  OBVIOUS
<1> HIDE DEF m83, m4
<1>7. t \in Seq(Byte) /\ Len(t) = m83 /\ u \in Seq(Byte) /\ Len(u) = m4
  BY <1>6, TextIs
<1>8. u[1] = 120 /\ u[2] = 120
  BY <1>6 DEF Text
<1> HIDE DEF t, u, h
<1> DEFINE v == t \o d
           z == v \o u
           r == z \o h
<1>9. v \in Seq(Byte) /\ Len(v) = 85 /\ v[84] = x /\ v[85] = y
  <2>1. v \in Seq(Byte) /\ Len(v) = Len(t) + Len(d)
    BY <1>4, <1>7, Joined
  <2>2. \A i \in 1 .. Len(d) : v[Len(t) + i] = d[i]
    BY <1>4, <1>7, JoinedAt
  <2> HIDE DEF v
  <2>3. v[83 + 1] = x /\ v[83 + 2] = y
    BY <1>4, <1>6, <1>7, <2>2
  <2>4. QED BY <1>4, <1>6, <1>7, <2>1, <2>3
<1> HIDE DEF v
<1>10. z \in Seq(Byte) /\ Len(z) = 89 /\ z[84] = x /\ z[85] = y /\ z[86] = 120 /\ z[87] = 120
  <2>1. z \in Seq(Byte) /\ Len(z) = Len(v) + Len(u)
    BY <1>7, <1>9, Joined
  <2>2. (\A i \in 1 .. Len(v) : z[i] = v[i]) /\ \A i \in 1 .. Len(u) : z[Len(v) + i] = u[i]
    <3>1. v \in Seq(Byte) /\ u \in Seq(Byte)
      BY <1>7, <1>9
    <3>2. QED BY <3>1, JoinedAt
  <2> HIDE DEF z
  <2>3. z[84] = v[84] /\ z[85] = v[85] /\ z[85 + 1] = u[1] /\ z[85 + 2] = u[2]
    BY <1>6, <1>7, <1>9, <2>2
  <2>4. QED BY <1>6, <1>7, <1>8, <1>9, <2>1, <2>3
<1> HIDE DEF z
<1>11. \A i \in 1 .. 89 : r[i] = z[i]
  <2>1. \A i \in 1 .. Len(z) : r[i] = z[i]
    <3>1. z \in Seq(Byte) /\ h \in Seq(Byte)
      BY <1>1, <1>10 DEF h
    <3>2. QED BY <3>1, JoinedAt
  <2> HIDE DEF r
  <2>2. QED BY <1>10, <2>1
<1>12. build_http_response(a) = r
  BY <1>5 DEF v, z
<1> HIDE DEF r
<1>13. r[84] = x /\ r[85] = y /\ r[86] = 120 /\ r[87] = 120
  BY <1>10, <1>11
<1>14. DigitsOK(r, n)
  BY <1>13 DEF x, y, DigitsOK
<1>15. QED BY <1>12, <1>14

(* The length it announces is the length of its body. *)
LEMMA ContentLengthIs ==
  ASSUME NEW a \in [1 .. 4 -> Byte]
  PROVE  ContentLength(build_http_response(a)).value = ContentLength(build_http_response(a)).body
<1> DEFINE b == build_http_response(a)
           l == Len(b)
<1>1. PICK n \in 15 .. 23 : Len(write_hello_ip(a)) = n
  BY HelloIs
<1>2. l = 89 + n
  BY <1>1, ResponseIs
<1>3. b[84] = 48 + n \div 10 /\ b[85] = 48 + (n % 10) /\ b[86] = 120 /\ b[87] = 120
  <2>1. DigitsOK(b, n)
    BY <1>1, ResponseDigits
  <2> HIDE DEF b
  <2>2. QED BY <2>1 DEF DigitsOK
<1> HIDE DEF b, l
<1> DEFINE P(k) == \A i \in 1 .. 4 : b[HeaderText + i] \in 48 .. 57 <=> i <= k
           digits == CHOOSE k \in 1 .. 4 : P(k)
           v == CHOOSE f : f = [i \in 0 .. digits |->
                  IF i = 0 THEN 0 ELSE f[i - 1] * 10 + (b[HeaderText + i] - 48)]
<1>4. ContentLength(b) = [value |-> v[digits], body |-> (l - HeaderText - 4) - digits]
  BY Zenon DEF ContentLength, l
<1>5. PICK x \in 1 .. 2, y \in 0 .. 9 : n = 10 * x + y /\ b[84] = 48 + x /\ b[85] = 48 + y
  BY <1>3, SMT
<1>6. b[HeaderText + 1] = 48 + x /\ b[HeaderText + 2] = 48 + y /\ b[HeaderText + 3] = 120 /\ b[HeaderText + 4] = 120
  <2>1. HeaderText + 1 = 84 /\ HeaderText + 2 = 85 /\ HeaderText + 3 = 86 /\ HeaderText + 4 = 87
    BY DEF HeaderText
  <2>2. QED BY <1>3, <1>5, <2>1
<1>7. digits = 2
  <2>1. b[HeaderText + 1] \in 48 .. 57 /\ b[HeaderText + 2] \in 48 .. 57
    BY <1>6
  <2>2. b[HeaderText + 3] \notin 48 .. 57 /\ b[HeaderText + 4] \notin 48 .. 57
    BY <1>6
  <2>3. P(2)
    BY <2>1, <2>2
  <2>4. ASSUME NEW k \in 1 .. 4, P(k) PROVE k = 2
    <3>1. 2 <= k /\ ~(3 <= k)
      BY <2>1, <2>2, <2>4
    <3>2. QED BY <3>1
  <2> HIDE DEF P
  <2>5. QED BY <2>3, <2>4
<1> HIDE DEF digits
<1>8. v[digits] = n
  <2> DEFINE g == [i \in 0 .. 2 |-> IF i = 0 THEN 0 ELSE IF i = 1 THEN x ELSE 10 * x + y]
  <2>1. g[0] = 0 /\ g[1] = x /\ g[2] = 10 * x + y
    OBVIOUS
  <2>2. ASSUME NEW i \in 0 .. digits
        PROVE  g[i] = IF i = 0 THEN 0 ELSE g[i - 1] * 10 + (b[HeaderText + i] - 48)
    <3>1. i = 0 \/ i = 1 \/ i = 2
      BY <1>7
    <3>2. CASE i = 0
      BY <2>1, <3>2
    <3>3. CASE i = 1
      <4>1. i - 1 = 0 /\ b[HeaderText + i] = 48 + x
        BY <1>6, <3>3
      <4>2. g[i - 1] * 10 + (b[HeaderText + i] - 48) = x
        BY <2>1, <4>1
      <4>3. QED BY <2>1, <3>3, <4>2
    <3>4. CASE i = 2
      <4>1. i - 1 = 1 /\ b[HeaderText + i] = 48 + y
        BY <1>6, <3>4
      <4>2. g[i - 1] * 10 + (b[HeaderText + i] - 48) = 10 * x + y
        BY <2>1, <4>1
      <4>3. QED BY <2>1, <3>4, <4>2
    <3>5. QED BY <3>1, <3>2, <3>3, <3>4
  <2>3. g = [i \in 0 .. digits |-> g[i]]
    BY <1>7
  <2> HIDE DEF g
  <2>4. g = [i \in 0 .. digits |-> IF i = 0 THEN 0 ELSE g[i - 1] * 10 + (b[HeaderText + i] - 48)]
    BY <2>2, <2>3
  <2>5. \E f : f = [i \in 0 .. digits |-> IF i = 0 THEN 0 ELSE f[i - 1] * 10 + (b[HeaderText + i] - 48)]
    BY <2>4
  <2>6. v = [i \in 0 .. digits |-> IF i = 0 THEN 0 ELSE v[i - 1] * 10 + (b[HeaderText + i] - 48)]
    BY <2>5
  <2> HIDE DEF v
  <2>7. v[0] = 0
    BY <1>7, <2>6
  <2>8. v[1] = v[1 - 1] * 10 + (b[HeaderText + 1] - 48)
    BY <1>7, <2>6
  <2>9. v[2] = v[2 - 1] * 10 + (b[HeaderText + 2] - 48)
    BY <1>7, <2>6
  <2>10. v[1] = x
    BY <1>6, <2>7, <2>8
  <2>11. v[2] = 10 * x + y
    BY <1>6, <2>9, <2>10
  <2>12. QED BY <1>5, <1>7, <2>11
<1> HIDE DEF v
<1>9. (l - HeaderText - 4) - digits = n
  BY <1>2, <1>7 DEF HeaderText
<1>10. QED BY <1>4, <1>8, <1>9 DEF b

(* So it is for every frame on its way to a client. *)
LEMMA InvGivesFrames == StreamInv => FramesVerify
<1> SUFFICES ASSUME StreamInv, NEW s \in to_client, s.type = "ip"
             PROVE  /\ Verifies(send_tcp_packet(s))
                    /\ s.payload =>
                         /\ ContentLength(http_buf[s.client]).value =
                              ContentLength(http_buf[s.client]).body
                         /\ http_len[s.client] <= 192
                         /\ Len(write_hello_ip(ip[s.client])) <= 32
  BY DEF FramesVerify
<1>1. PICK c \in Clients : ServerFrame(s, c)
  BY DEF StreamInv
<1>2. HttpTypeOK /\ BlockOK(c)
  BY DEF StreamInv
<1>3. s.client = c /\ s.payload \in BOOLEAN /\ s.seq \in Num /\ \E o \in 1 .. Sent(c) : s.ack = At(c, o)
  BY <1>1, <1>2, ServerFrameIs DEF Fields
<1>4. SeqSpace \in Nat \ {0} /\ iss[c] \in Num /\ Sent(c) \in Num
  BY <1>2, ClientIs, BlockIs
<1>5. s.ack \in Num
  <2>1. PICK o \in 1 .. Sent(c) : s.ack = At(c, o)
    BY <1>3
  <2>2. o \in Num
    BY <1>4 DEF Num
  <2>3. QED BY <1>4, <2>1, <2>2, PlusIs DEF At
<1>6. s.seq \in Nat /\ s.ack \in Nat
  BY <1>3, <1>4, <1>5 DEF Num
<1>7. Verifies(send_tcp_packet(s))
  BY <1>3, <1>6, SegmentVerifies
<1>8. ip[c] \in [1 .. 4 -> Byte]
  BY HttpAssumption
<1>9. ContentLength(http_buf[c]).value = ContentLength(http_buf[c]).body
  <2>1. http_buf[c] = build_http_response(ip[c])
    BY DEF http_buf
  <2>2. QED BY <1>8, <2>1, ContentLengthIs
<1>10. http_len[c] <= 192
  BY HttpLen
<1>11. Len(write_hello_ip(ip[c])) <= 32
  <2>1. PICK n \in 15 .. 23 : Len(write_hello_ip(ip[c])) = n
    BY <1>8, HelloIs
  <2>2. QED BY <2>1
<1>12. QED BY <1>3, <1>7, <1>9, <1>10, <1>11

(* Every frame the server sends verifies, for every address, port, window  *)
(* of sequence numbers and set of flags: the checksums that                *)
(* ipv4_build_header and tcp_build_header put in, over payloads of odd and *)
(* even length, the total length, and the Content-Length of                *)
(* build_http_response.                                                    *)
THEOREM FramesVerified == HttpSpec => []FramesVerify
<1>1. StreamInv => FramesVerify
  BY InvGivesFrames
<1>2. QED BY <1>1, StreamInvariant, PTL
=============================================================================
