-------------------------------- MODULE Boot --------------------------------
(***************************************************************************)
(* A whole boot: kernel_main (kernel/kernel.c) starts logging, hands the   *)
(* scanned devices to the resource manager and runs the app= parameters    *)
(* of the command line in order (kernel/init_apps.c).  The applications    *)
(* and the network device layer (apps/netdev-mac/netdev.c) are the         *)
(* manager's callers; this module composes them with module Resources and  *)
(* with the logging system of module Log.                                  *)
(*                                                                         *)
(* One CPU runs all of it: the only choices are the command line, whether  *)
(* an init_context succeeds, and what the network brings packet-print.     *)
(***************************************************************************)
EXTENDS Resources, FiniteSets, SequencesExt

CONSTANTS
  CmdLines,                        \* the command lines: token sequences, NULL
  MAX_LOG_TAGS, MAX_OVERRIDES,
  MAX_NETDEV_CONTEXTS_PER_DRIVER,  \* netdev.c
  MAX_NET_DEVICES,                 \* mac_*.c
  MAX_HARDWARE_RNG_DEVICES,        \* random.c
  MAX_DEVICES                      \* mac_all.c

INSTANCE Log

(* The order in which netdev_acquire_all tries the drivers. *)
NetDrivers == <<"rtl8139", "virtio-net", "e1000">>

(* The static contexts[] arrays of netdev.c, mac_*.c and random.c. *)
Context(owner, drv, i) == [owner |-> owner, driver |-> drv, index |-> i]
NetdevContexts ==
  {Context("netdev", drv, i) : drv \in Range(NetDrivers),
                               i \in 0 .. MAX_NETDEV_CONTEXTS_PER_DRIVER - 1}
MacContexts ==
  {Context("mac", drv, i) : drv \in Range(NetDrivers),
                            i \in 0 .. MAX_NET_DEVICES - 1}
RandomContexts ==
  {Context("random", "virtio-rng", i) :
     i \in 0 .. MAX_HARDWARE_RNG_DEVICES - 1}

ASSUME BootAssumption ==
  /\ Range(NetDrivers) \cup {"virtio-rng"} \subseteq Drivers
  /\ Contexts = NetdevContexts \cup MacContexts \cup RandomContexts
  /\ MAX_NETDEV_CONTEXTS_PER_DRIVER \in Nat /\ MAX_NET_DEVICES \in Nat
  /\ MAX_HARDWARE_RNG_DEVICES \in Nat /\ MAX_DEVICES \in Nat
  /\ MAX_OVERRIDES \in Nat
  /\ \A c \in CmdLines : c = NULL \/ c \in Seq(Range(c))

(* max_devices of the applications that call netdev_acquire_all. *)
max_devices ==
  [a \in {"mac-all", "arp-broadcast", "packet-print", "http-hello"} |->
     CASE a = "mac-all" -> MAX_DEVICES
       [] a = "arp-broadcast" -> 3
       [] OTHER -> 1]

(* The driver of app=mac-<driver>. *)
mac_driver == [a \in {"mac-rtl8139", "mac-virtio-net", "mac-e1000"} |->
  CASE a = "mac-rtl8139" -> "rtl8139" [] a = "mac-virtio-net" -> "virtio-net"
    [] OTHER -> "e1000"]

VARIABLES
  cmdline,       \* what platform_get_cmdline returned
  pc,            \* where control is
  app_param,     \* the token init_apps is at
  log,           \* the state of log.c
  netdev_index,  \* the static <driver>_index of netdev_acquire_all
  device_count,  \* the static device_count of mac_*.c
  random_state,  \* random_state of random.c, and whether the PRNG is seeded
  entries,       \* devices[] of the running application
  trying,        \* the driver netdev_acquire_all tries, as an index
  failed         \* history: inits that failed since netdev's loop went round

static   == <<netdev_index, device_count, random_state>>
loop     == <<entries, trying, failed>>
bootvars == <<cmdline, pc, app_param, log, static, loop>>
allvars  == <<vars, bootvars>>

app == cmdline[app_param].value

BootInit ==
  /\ Init
  /\ cmdline \in CmdLines
  /\ pc = "kernel_main"
  /\ app_param = 0
  /\ log = no_log
  /\ netdev_index = [drv \in Range(NetDrivers) |-> 0]
  /\ device_count = [drv \in Range(NetDrivers) |-> 0]
  /\ random_state = [resources |-> <<>>, next_device_index |-> 0,
                     initialized |-> FALSE]
  /\ entries = <<>>
  /\ trying = 1
  /\ failed = {}

----------------------------------------------------------------------------
(* kernel_main up to the scan: logging, and the kernel's own tag. *)
StartLogging ==
  /\ pc = "kernel_main"
  /\ log' = log_register(log_init(log, cmdline), "kernel", LOG_INFO)
  /\ pc' = "scan"
  /\ UNCHANGED <<vars, cmdline, app_param, static, loop>>

(* devices_scan, devices_enumerate and device_tree_print, for their tags;  *)
(* the list they build is DeviceList.  Then resources_set_devices.         *)
ScanDevices ==
  /\ pc = "scan"
  /\ log' = register_once(register_once(log, "devices"), "pci")
  /\ resources_set_devices
  /\ pc' = "init"
  /\ UNCHANGED <<cmdline, app_param, static, loop>>

(* Seeded fault: the search starts at the current token again. *)
find_param_again(i) ==
  LET found == {j \in 1 .. Len(cmdline) : j >= i /\ cmdline[j].key = "app"}
  IN  IF found = {} THEN NULL ELSE Min(found)

(* The next token that is "app" or "app=...", after position i. *)
find_param(i) ==
  LET found == {j \in i + 1 .. Len(cmdline) : cmdline[j].key = "app"}
  IN  IF found = {} THEN NULL ELSE Min(found)

(* The head of init_apps' loop: the next application, or the return. *)
GoTo(param) ==
  /\ app_param' = param
  /\ pc' = IF param = NULL THEN "return" ELSE "app"

StartApps ==
  /\ pc = "init"
  /\ log' = log_register(log, "init", LOG_INFO)
  /\ GoTo(IF cmdline = NULL THEN NULL ELSE find_param(0))
  /\ UNCHANGED <<vars, cmdline, static, loop>>

NextApp == GoTo(find_param(app_param))

(* kernel_main ends in platform_halt ... *)
Halt ==
  /\ pc = "return"
  /\ pc' = "halted"
  /\ UNCHANGED <<vars, cmdline, app_param, log, static, loop>>

(* ... and so does the exception handler that app=illegal-instruction runs *)
(* into, on each platform.                                                 *)
ExceptionHalt ==
  /\ pc = "exception"
  /\ pc' = "halted"
  /\ UNCHANGED <<vars, cmdline, app_param, log, static, loop>>

----------------------------------------------------------------------------
(* app=illegal-instruction does not return; an unknown value runs nothing. *)
IllegalInstruction ==
  /\ pc = "app"
  /\ app = "illegal-instruction"
  /\ pc' = "exception"
  /\ UNCHANGED <<vars, cmdline, app_param, log, static, loop>>

UnknownApp ==
  /\ pc = "app"
  /\ app \notin DOMAIN max_devices \cup DOMAIN mac_driver \cup
                {"illegal-instruction", "random-software", "random-hardware"}
  /\ NextApp
  /\ UNCHANGED <<vars, cmdline, log, static, loop>>

RandomSoftware ==
  /\ pc = "app"
  /\ app = "random-software"
  /\ pc' = "random_get_bytes"
  /\ UNCHANGED <<vars, cmdline, app_param, log, static, loop>>

(* random_hardware_init, up to the manager's answer. *)
RandomHardware ==
  LET n == Len(random_state.resources)
  IN  /\ pc = "app"
      /\ app = "random-hardware"
      /\ \/ /\ n >= MAX_HARDWARE_RNG_DEVICES
            /\ pc' = "random_get_bytes"
            /\ UNCHANGED vars
         \/ /\ n < MAX_HARDWARE_RNG_DEVICES
            /\ resource_acquire_available("virtio-rng",
                 Context("random", "virtio-rng", n))
            /\ pc' = "acquire"
      /\ UNCHANGED <<cmdline, app_param, log, static, loop>>

(* Seeded fault: the index is reduced by the capacity, not by the count. *)
random_get_bytes_capacity ==
  /\ pc = "random_get_bytes"
  /\ random_state' = [random_state EXCEPT !.initialized = TRUE,
       !.next_device_index = IF random_state.resources = <<>> THEN @
                             ELSE (@ + 1) % MAX_HARDWARE_RNG_DEVICES]
  /\ NextApp
  /\ UNCHANGED <<vars, cmdline, log, netdev_index, device_count, loop>>

(* random_get_bytes: the PRNG is seeded once; a read turns to the next     *)
(* acquired device, and to the PRNG when the device fails or there is none.*)
random_get_bytes ==
  /\ pc = "random_get_bytes"
  /\ random_state' = [random_state EXCEPT !.initialized = TRUE,
       !.next_device_index = IF random_state.resources = <<>> THEN @
                             ELSE (@ + 1) % Len(random_state.resources)]
  /\ NextApp
  /\ UNCHANGED <<vars, cmdline, log, netdev_index, device_count, loop>>

(* app_mac_rtl8139, app_mac_virtio_net, app_mac_e1000, to the answer. *)
MacApp ==
  /\ pc = "app"
  /\ app \in DOMAIN mac_driver
  /\ LET drv == mac_driver[app]
     IN  \/ /\ device_count[drv] >= MAX_NET_DEVICES
            /\ NextApp
            /\ UNCHANGED vars
         \/ /\ device_count[drv] < MAX_NET_DEVICES
            /\ resource_acquire_available(drv,
                 Context("mac", drv, device_count[drv]))
            /\ pc' = "acquire"
            /\ UNCHANGED app_param
  /\ UNCHANGED <<cmdline, log, static, loop>>

(* The other applications first acquire their devices; packet-print and    *)
(* http-hello register a tag, each time they are started.                  *)
NetworkApp ==
  /\ pc = "app"
  /\ app \in DOMAIN max_devices
  /\ log' = IF app \in {"packet-print", "http-hello"}
            THEN log_register(log, app, LOG_INFO) ELSE log
  /\ entries' = <<>>
  /\ trying' = 1
  /\ failed' = {}
  /\ pc' = "netdev_acquire_all"
  /\ UNCHANGED <<vars, cmdline, app_param, static>>

----------------------------------------------------------------------------
Drv == NetDrivers[trying]

Looping == pc = "netdev_acquire_all" /\ Len(entries) < max_devices[app]

(* One attempt of netdev_acquire_all's loop body. *)
TryDriver ==
  /\ Looping
  /\ trying <= Len(NetDrivers)
  /\ netdev_index[Drv] < MAX_NETDEV_CONTEXTS_PER_DRIVER
  /\ resource_acquire_available(Drv, Context("netdev", Drv, netdev_index[Drv]))
  /\ pc' = "acquire"
  /\ UNCHANGED <<cmdline, app_param, log, static, loop>>

(* Its contexts are used up: the next driver. *)
SkipDriver ==
  /\ Looping
  /\ trying <= Len(NetDrivers)
  /\ netdev_index[Drv] >= MAX_NETDEV_CONTEXTS_PER_DRIVER
  /\ trying' = trying + 1
  /\ UNCHANGED <<vars, cmdline, pc, app_param, log, entries, failed, static>>

(* The loop ends with max_devices entries, or when no driver has another.  *)
AcquiredAll ==
  /\ pc = "netdev_acquire_all"
  /\ Len(entries) >= max_devices[app] \/ trying > Len(NetDrivers)
  /\ pc' = "run"
  /\ UNCHANGED <<vars, cmdline, app_param, log, static, loop>>

(***************************************************************************)
(* The manager at work inside "acquire".  Every init_context but the       *)
(* virtio-rng driver's registers the driver's tag.                         *)
(***************************************************************************)
ManagerStep ==
  /\ pc = "acquire"
  /\ \/ SkipDevice /\ UNCHANGED <<log, failed>>
     \/ /\ StartInit
        /\ log' = IF call.driver = "virtio-rng" THEN log
                  ELSE register_once(log, call.driver)
        /\ UNCHANGED failed
     \/ /\ InitFailed
        /\ failed' = failed \cup {device[call.slot]}
        /\ UNCHANGED log
  /\ UNCHANGED <<cmdline, pc, app_param, entries, trying, static>>

(* Seeded fault: netdev_acquire_all forgets to move to the next context. *)
NetdevAcquired_same ==
  /\ pc = "acquire" /\ app \in DOMAIN max_devices
  /\ InitDone
  /\ entries' = Append(entries, [resource |-> call.slot,
                         driver |-> call.driver, context |-> call.context])
  /\ trying' = 1
  /\ failed' = {}
  /\ pc' = "netdev_acquire_all"
  /\ UNCHANGED <<cmdline, app_param, log, static>>

(* The manager returned a resource to netdev_acquire_all: record the       *)
(* entry, move to the driver's next context and go round the loop.         *)
NetdevAcquired ==
  /\ pc = "acquire" /\ app \in DOMAIN max_devices
  /\ InitDone
  /\ entries' = Append(entries, [resource |-> call.slot,
                         driver |-> call.driver, context |-> call.context])
  /\ netdev_index' = [netdev_index EXCEPT ![Drv] = @ + 1]
  /\ trying' = 1
  /\ failed' = {}
  /\ pc' = "netdev_acquire_all"
  /\ UNCHANGED <<cmdline, app_param, log, device_count, random_state>>

MacAcquired ==
  /\ pc = "acquire" /\ app \in DOMAIN mac_driver
  /\ InitDone
  /\ device_count' = [device_count EXCEPT ![call.driver] = @ + 1]
  /\ NextApp
  /\ UNCHANGED <<cmdline, log, netdev_index, random_state, loop>>

RandomAcquired ==
  /\ pc = "acquire" /\ app = "random-hardware"
  /\ InitDone
  /\ random_state' = [random_state EXCEPT !.resources = Append(@, call.slot)]
  /\ pc' = "random_get_bytes"
  /\ UNCHANGED <<cmdline, app_param, log, netdev_index, device_count, loop>>

(* Seeded fault: netdev_acquire_all gives up at the first driver that has  *)
(* no device left.                                                         *)
NotAcquired_break ==
  /\ pc = "acquire"
  /\ NoSlot \/ NotFound
  /\ \/ /\ app \in DOMAIN max_devices
        /\ trying' = Len(NetDrivers) + 1
        /\ pc' = "netdev_acquire_all"
        /\ UNCHANGED app_param
     \/ /\ app \in DOMAIN mac_driver
        /\ NextApp
        /\ UNCHANGED trying
     \/ /\ app = "random-hardware"
        /\ pc' = "random_get_bytes"
        /\ UNCHANGED <<app_param, trying>>
  /\ UNCHANGED <<cmdline, log, entries, failed, static>>

(* The manager returned NULL. *)
NotAcquired ==
  /\ pc = "acquire"
  /\ NoSlot \/ NotFound
  /\ \/ /\ app \in DOMAIN max_devices
        /\ trying' = trying + 1
        /\ pc' = "netdev_acquire_all"
        /\ UNCHANGED app_param
     \/ /\ app \in DOMAIN mac_driver
        /\ NextApp
        /\ UNCHANGED trying
     \/ /\ app = "random-hardware"
        /\ pc' = "random_get_bytes"
        /\ UNCHANGED <<app_param, trying>>
  /\ UNCHANGED <<cmdline, log, entries, failed, static>>

----------------------------------------------------------------------------
(* app_mac_all prints, app_arp_broadcast transmits once on its first       *)
(* device and looks once at the others: both return whatever happens.      *)
RunOnce ==
  /\ pc = "run"
  /\ app \in {"mac-all", "arp-broadcast"}
  /\ NextApp
  /\ UNCHANGED <<vars, cmdline, log, static, loop>>

(* packet-print and http-hello return at once without a device, and enter  *)
(* their receive loop otherwise; http-hello's (module HttpHello) is        *)
(* endless.                                                                *)
Serve ==
  /\ pc = "run"
  /\ app \in {"packet-print", "http-hello"}
  /\ \/ entries = <<>> /\ NextApp
     \/ /\ entries # <<>>
        /\ pc' = app
        /\ UNCHANGED app_param
  /\ UNCHANGED <<vars, cmdline, log, static, loop>>

(* The frames packet-print tells apart.  `request' is the payload it       *)
(* answers: "ping-", an ICMP echo request, an ARP request.                 *)
Frames ==
  [length : {41, 42, 54}, type : {"ip", "arp", "other"},
   protocol : {"udp", "tcp", "icmp", "other"}, for_us : BOOLEAN,
   port : {5000, 8080, 80}, request : BOOLEAN]

(* handled_request after a pass of the loop over frame f: an answered UDP  *)
(* or ICMP request ends the application if the reply was transmitted, a    *)
(* TCP segment to port 8080 does by itself; an ARP reply does not.         *)
handled_request(f, transmitted) ==
  /\ f.length >= 42
  /\ f.type = "ip"
  /\ f.for_us
  /\ \/ f.protocol = "udp" /\ f.port = 5000 /\ f.request /\ transmitted
     \/ f.protocol = "tcp" /\ f.length >= 54 /\ f.port = 8080
     \/ f.protocol = "icmp" /\ f.request /\ transmitted

PacketPrint ==
  /\ pc = "packet-print"
  /\ \E f \in Frames, transmitted \in BOOLEAN :
       IF handled_request(f, transmitted) THEN NextApp
       ELSE UNCHANGED <<pc, app_param>>
  /\ UNCHANGED <<vars, cmdline, log, static, loop>>

BootNext ==
  \/ StartLogging \/ ScanDevices \/ StartApps \/ Halt \/ ExceptionHalt
  \/ IllegalInstruction \/ UnknownApp
  \/ RandomSoftware \/ RandomHardware \/ random_get_bytes
  \/ MacApp \/ NetworkApp
  \/ TryDriver \/ SkipDriver \/ AcquiredAll
  \/ ManagerStep
  \/ NetdevAcquired \/ MacAcquired \/ RandomAcquired \/ NotAcquired
  \/ RunOnce \/ Serve \/ PacketPrint

BootSpec == BootInit /\ [][BootNext]_allvars

(* The CPU keeps running; for packet-print this says that a peer sends it  *)
(* something it answers, and that an answer gets out.                      *)
BootFairSpec == BootSpec /\ WF_allvars(BootNext)

----------------------------------------------------------------------------
(***************************************************************************)
(* The level a command line gives a tag, said without the registry: the    *)
(* first of the overrides that were kept, else the last global level, else *)
(* the default.                                                            *)
(***************************************************************************)
CommandLineLevel(line, name) ==
  LET tokens   == IF line = NULL THEN <<>> ELSE line
      level    == [i \in DOMAIN tokens |-> parse_level(tokens[i].value)]
      Valid(k) == {i \in DOMAIN tokens : tokens[i].key = k /\ level[i] # NULL}
      Earlier(i) == {j \in Valid("log.") : j < i}
      naming   == {i \in Valid("log.") :
                     /\ tokens[i].tag = name
                     /\ Cardinality(Earlier(i)) < MAX_OVERRIDES}
  IN  CASE naming # {} -> level[Min(naming)]
        [] naming = {} /\ Valid("log") # {} -> level[Max(Valid("log"))]
        [] OTHER -> LOG_INFO

(* docs/logging.md: "Tags registered after log_init() still respect any    *)
(* pending command line overrides".  Every registered tag has the level    *)
(* the command line gives it, at whatever point of the boot it registered, *)
(* and a driver with a working device has its tag unless the registry of   *)
(* log.c is full.                                                          *)
TagLevels ==
  /\ \A i \in DOMAIN log.tags :
       log.tags[i].level = CommandLineLevel(cmdline, log.tags[i].name)
  /\ \A d \in Devices :
       (live[d] # NULL /\ live[d].driver # "virtio-rng") =>
         \/ Len(log.tags) = MAX_LOG_TAGS
         \/ \E i \in DOMAIN log.tags : log.tags[i].name = live[d].driver

(* What an application holds works: each entry netdev_acquire_all filled   *)
(* in names a listed resource whose device was initialised for exactly the *)
(* driver and context of the entry, and so does each device random.c       *)
(* reads; the round-robin index names an acquired device; and no two       *)
(* devices were given the same context to work on.                         *)
EntriesLive ==
  LET Works(r, drv, ctx) ==
        r \in Listed /\ live[device[r]] = [driver |-> drv, context |-> ctx]
  IN  /\ \A i \in DOMAIN entries :
           Works(entries[i].resource, entries[i].driver, entries[i].context)
      /\ \A i \in DOMAIN random_state.resources :
           Works(random_state.resources[i], "virtio-rng",
                 Context("random", "virtio-rng", i - 1))
      /\ \/ random_state.next_device_index = 0
         \/ random_state.next_device_index < Len(random_state.resources)
      /\ \A d, e \in {f \in Devices : live[f] # NULL} :
           live[d].context = live[e].context => d = e

(* netdev_acquire_all leaves no device behind: when it returns fewer       *)
(* entries than asked for, every device one of its drivers matches is      *)
(* allocated, or failed to initialise in the last round, or its driver's   *)
(* static contexts or the manager's pool are used up.                      *)
AcquiresAll ==
  pc = "run" =>
    \/ Len(entries) = max_devices[app]
    \/ PoolFull
    \/ \A d \in Range(DeviceList), drv \in Range(NetDrivers) :
         device_matches_driver(d, drv) =>
           \/ device_is_allocated(d)
           \/ d \in failed
           \/ netdev_index[drv] = MAX_NETDEV_CONTEXTS_PER_DRIVER

(* The applications are callers as module Resources assumes them: a boot   *)
(* is a behaviour of its specification, so what is proved of the manager   *)
(* holds in it; above all, no application passes a context in use.         *)
HonoursManager == Spec

(* kernel_main reaches platform_halt, whatever fails to initialise, unless *)
(* http-hello got a device.  packet-print returns only after it answered a *)
(* request: that one it can answer comes while it polls, and that its      *)
(* reply gets out, is the assumption stated at BootFairSpec.               *)
Halts == <>(pc \in {"halted", "http-hello"})

=============================================================================
