---------------------------- MODULE AccelService ----------------------------
(***************************************************************************)
(* Gen11::start as an IOService: the scheduler it selects, the display     *)
(* machine it provides, the capabilities and names it publishes, and what  *)
(* runs beside the accelerator afterwards: the delayed child checks (V45,  *)
(* V59) that start stuck children, and the part of the health monitor      *)
(* (V60, V77) that terminates display-pipe clients.  start's registers and *)
(* the other timers are in GtInterrupts.                                   *)
(*                                                                         *)
(* Each setProperty, registerService, getState and terminate is a step of  *)
(* its own; the driver, IOKit's configuration thread and WindowServer run  *)
(* in between.  A child is never attached twice.                           *)
(***************************************************************************)
EXTENDS Integers, FiniteSets

CONSTANTS
  Devices,      \* children named IGAccelDevice
  Shared,       \* children named IGAccelSharedUserClient
  Pipes,        \* clients whose class name contains DisplayPipe
  Checks,       \* delayed checks; seven in the code
  Iterations,   \* the 60 of the monitor and of getV77KillDelayIterations
  Boots         \* the ways the machine is booted, see Boot below

Absent == 99    \* a boot argument or property that is not there
Rescuable == Devices \cup Shared
Children == Rescuable \cup Pipes
NoChild == "no child"

(***************************************************************************)
(* A boot: isRealTGL (processPatcher sets tryGuC with it), the arguments   *)
(* that are flags, the values of ngreenSched, the provider's SchedulerType *)
(* and ngreenV77DelayKill, and where the accelerator's personality comes   *)
(* from: NootedGreen's Info.plist, the dictionary that controller start    *)
(* injects, or a bare match without names.  calls: the delayed checks for  *)
(* which a thread call can be allocated.                                   *)
(***************************************************************************)
Flags == {"ngreendp1=0", "ngreendp1=1", "-ngreendp1", "ngreendp0=0", "ngreendp0=1",
          "-ngreendp0", "ngreenexp=0", "ngreenexp=1", "-ngreenexp"}

Boot == [real : BOOLEAN, gate : BOOLEAN, mapped : BOOLEAN, flags : SUBSET Flags,
         sched : Int, plist : Int, delay : Int, calls : SUBSET (1 .. Checks),
         personality : {"plist", "injected", "bare"}]

ASSUME ChildrenAssumption ==
  /\ Devices \cap Shared = {} /\ Rescuable \cap Pipes = {}
  /\ NoChild \notin Children
ASSUME BoundsAssumption == Checks \in Nat /\ Iterations \in Nat \ {0}
ASSUME BootsAssumption == Boots \subseteq Boot

VARIABLES
  boot,         \* the boot
  pc,           \* how far start is
  service,      \* the accelerator: "held", or "freed" by IOKit, or "wild"
  sched,        \* GraphicsSchedulerSelect on the service
  dev,          \* the Development dictionary
  named,        \* MetalPluginName and its companions are on the service
  caps,         \* DisplayPipeSupported as the service shows it
  machine,      \* member 0x378 and what was called on it
  stubbed,      \* loadGuCBinary pretended to have loaded the firmware
  registered,   \* registerService was called on the accelerator
  kids,         \* kids[k]: the state of child k
  check,        \* check[c]: delayed check c
  left,         \* left[c]: children of c's snapshot still to visit
  zero,         \* zero[c]: the child c has just read state 0 of
  mon,          \* the monitor's timer
  count,        \* v60Count
  doomed,       \* clients of the monitor's snapshot still to terminate
  cut           \* the monitor's chain ended before its last iteration

config == <<sched, dev, named, caps>>
checks == <<check, left, zero>>
monitor == <<mon, count, doomed, cut>>
vars == <<boot, pc, service, config, machine, stubbed, registered, kids, checks, monitor>>

NoDev == [present |-> FALSE, sched |-> Absent, multi |-> FALSE, fallback |-> FALSE]

-----------------------------------------------------------------------------
(***************************************************************************)
(* The policies: functions of the boot arguments.                          *)
(***************************************************************************)
shouldUseSpoofedSafeSchedulerPolicy == ~boot.real

\* A value overrides the flag of the same name; ngreendp1=0 says nothing.
isDisplayPipeForceDisabled ==
  /\ boot.flags \cap {"ngreendp1=1", "-ngreendp1"} = {}
  /\ \/ "ngreendp0=1" \in boot.flags
     \/ "-ngreendp0" \in boot.flags /\ "ngreendp0=0" \notin boot.flags

isExperimentalMonitorEnabled ==
  \/ "ngreenexp=1" \in boot.flags
  \/ "-ngreenexp" \in boot.flags /\ "ngreenexp=0" \notin boot.flags

getV77KillDelayIterations ==
  IF boot.delay = Absent \/ boot.delay > Iterations THEN Iterations
  ELSE IF boot.delay < 0 THEN 0 ELSE boot.delay

\* Mutant: the safe policy overrules the boot argument only.
MutSchedType ==
  LET default == IF boot.real THEN 3 ELSE 5
  IN  IF boot.sched \in 3 .. 5
        THEN IF shouldUseSpoofedSafeSchedulerPolicy THEN 5 ELSE boot.sched
        ELSE IF boot.plist \in 3 .. 5 THEN boot.plist ELSE default

\* start's choice: ngreenSched, then SchedulerType, then the platform's default.
schedType ==
  LET default == IF boot.real THEN 3 ELSE 5
      safe == shouldUseSpoofedSafeSchedulerPolicy
  IN  IF boot.sched \in 3 .. 5
        THEN IF safe THEN 5 ELSE boot.sched
        ELSE IF boot.plist = Absent THEN default
        ELSE IF safe THEN 5
        ELSE IF boot.plist \in 3 .. 5 THEN boot.plist ELSE default

-----------------------------------------------------------------------------
Init ==
  /\ boot \in Boots
  /\ pc = "config" /\ service = "held"
  /\ sched = Absent
  /\ dev = IF boot.personality = "plist"
             THEN [present |-> TRUE, sched |-> 5, multi |-> TRUE, fallback |-> TRUE]
             ELSE NoDev
  /\ named = (boot.personality # "bare")
  /\ caps = \/ boot.personality = "plist"
            \/ boot.personality = "injected" /\ ~isDisplayPipeForceDisabled
  /\ machine = [made |-> FALSE, started |-> FALSE, probed |-> FALSE]
  /\ stubbed = FALSE
  /\ registered = FALSE
  /\ kids = [k \in Children |-> "none"]
  /\ check = [c \in 1 .. Checks |-> "idle"]
  /\ left = [c \in 1 .. Checks |-> {}]
  /\ zero = [c \in 1 .. Checks |-> NoChild]
  /\ mon = "off" /\ count = 0 /\ doomed = {} /\ cut = FALSE

(***************************************************************************)
(* start up to the original: the scheduler and the Development dictionary, *)
(* which is copied only if it exists, and made for the ForceWake selection *)
(* where the hardware is not Tiger Lake.                                   *)
(***************************************************************************)
Development ==
  [present |-> dev.present \/ ~boot.real,
   sched |-> IF dev.present THEN schedType ELSE Absent,
   multi |-> dev.multi \/ ~boot.real,
   fallback |-> dev.present]

Configure ==
  /\ pc = "config"
  /\ sched' = schedType
  /\ dev' = Development
  /\ pc' = "original"
  /\ UNCHANGED <<boot, service, named, caps, machine, stubbed, registered, kids, checks, monitor>>

(***************************************************************************)
(* The original start (external).  It may make a display machine and probe *)
(* its pipes, may register the service, and may call the firmware loader,  *)
(* whose hook runs the original only where GuC is allowed and otherwise    *)
(* claims success; canLoadFirmware never refuses.  What it returns shows   *)
(* only when the hook has returned too, see Returns.                       *)
(***************************************************************************)
DriverMakesMachine ==
  /\ pc = "original"
  /\ ~machine.made
  /\ machine' = [made |-> TRUE, started |-> TRUE, probed |-> TRUE]
  /\ UNCHANGED <<boot, pc, service, config, stubbed, registered, kids, checks, monitor>>

DriverRegisters ==
  /\ pc = "original"
  /\ ~registered
  /\ registered' = TRUE
  /\ UNCHANGED <<boot, pc, service, config, machine, stubbed, kids, checks, monitor>>

loadGuCBinary ==
  /\ pc = "original"
  /\ stubbed' = shouldUseSpoofedSafeSchedulerPolicy
  /\ UNCHANGED <<boot, pc, service, config, machine, registered, kids, checks, monitor>>

OriginalReturns ==
  /\ pc = "original"
  /\ pc' = "backing"
  /\ UNCHANGED <<boot, service, config, machine, stubbed, registered, kids, checks, monitor>>

(***************************************************************************)
(* The rest of start does not look at what the original returned.          *)
(*                                                                         *)
(* ensureDisplayPipeBacking: a machine that is missing is made, unless its *)
(* allocation or init fails; whoever made it, it is started here.  A start *)
(* that fails, or has no PCI provider, is only logged: the pipes are       *)
(* probed all the same, unless external displays are gated.                *)
(***************************************************************************)
\* Mutant: the pipes of a machine made here are not probed.
MutEnsureDisplayPipeBacking ==
  /\ pc = "backing"
  /\ \/ \E ok \in BOOLEAN :
          machine' = [machine EXCEPT !.made = TRUE, !.started = @ \/ ok]
     \/ ~machine.made /\ UNCHANGED machine
  /\ pc' = "names"
  /\ UNCHANGED <<boot, service, config, stubbed, registered, kids, checks, monitor>>

ensureDisplayPipeBacking ==
  /\ pc = "backing"
  /\ \/ \E ok \in BOOLEAN :
          machine' = [made |-> TRUE, started |-> machine.started \/ ok,
                      probed |-> machine.probed \/ ~boot.gate]
     \/ ~machine.made /\ UNCHANGED machine
  /\ pc' = "names"
  /\ UNCHANGED <<boot, service, config, stubbed, registered, kids, checks, monitor>>

applyDisplayPipePolicy == caps' = ~isDisplayPipeForceDisabled

\* V45: the names are set, with the policy, only if MetalPluginName is missing.
InjectNames ==
  /\ pc = "names"
  /\ IF named THEN UNCHANGED <<named, caps>> ELSE named' = TRUE /\ applyDisplayPipePolicy
  /\ pc' = "policy"
  /\ UNCHANGED <<boot, service, sched, dev, machine, stubbed, registered, kids, checks, monitor>>

\* Mutant: the policy is left to the branch for a missing MetalPluginName.
MutFinalPolicy ==
  /\ pc = "policy"
  /\ pc' = "register"
  /\ UNCHANGED <<boot, service, config, machine, stubbed, registered, kids, checks, monitor>>

FinalPolicy ==
  /\ pc = "policy"
  /\ applyDisplayPipePolicy
  /\ pc' = "register"
  /\ UNCHANGED <<boot, service, sched, dev, named, machine, stubbed, registered, kids, checks, monitor>>

Register ==
  /\ pc = "register"
  /\ registered' = TRUE
  /\ pc' = "schedule"
  /\ UNCHANGED <<boot, service, config, machine, stubbed, kids, checks, monitor>>

(***************************************************************************)
(* Each timer is scheduled only if its thread call could be allocated.     *)
(***************************************************************************)
Schedule ==
  /\ pc = "schedule"
  /\ check' = [c \in 1 .. Checks |-> IF c \in boot.calls THEN "due" ELSE "done"]
  /\ IF isExperimentalMonitorEnabled
       THEN \E got \in BOOLEAN : mon' = (IF got THEN "armed" ELSE "off") /\ cut' = ~got
       ELSE UNCHANGED <<mon, cut>>
  /\ pc' = "return"
  /\ UNCHANGED <<boot, service, config, machine, stubbed, registered, kids, left, zero, count, doomed>>

-----------------------------------------------------------------------------
(***************************************************************************)
(* Clients of a registered accelerator get devices attached (some never    *)
(* leave state 0) and close them, IOKit's configuration thread completes a *)
(* registration, WindowServer opens display pipes as the capabilities of   *)
(* the service allow (external).                                           *)
(***************************************************************************)
SetKid(k, s) ==
  /\ kids' = [kids EXCEPT ![k] = s]
  /\ UNCHANGED <<boot, pc, service, config, machine, stubbed, registered, checks, monitor>>

Attach(k) ==
  /\ k \in Rescuable /\ kids[k] = "none"
  /\ service = "held" /\ registered
  /\ \E s \in {"stuck", "up"} : SetKid(k, s)

Configured(k) == kids[k] = "asked" /\ SetKid(k, "up")

OpenPipe(k) ==
  /\ k \in Pipes /\ kids[k] = "none"
  /\ service = "held" /\ registered /\ caps /\ machine.probed
  /\ \E d \in Devices : kids[d] = "up"
  /\ SetKid(k, "open")

Close(k) ==
  /\ service = "held" /\ kids[k] \in {"stuck", "asked", "up", "open"}
  /\ SetKid(k, "dead")

(***************************************************************************)
(* v45DelayedChildCheck: a snapshot of the children (those it only logs    *)
(* are left out); of each one with a name to rescue the state is read and, *)
(* if it is 0, registerService is called.  That has no effect on a child   *)
(* that died in between, nor on one whose registration is pending.         *)
(***************************************************************************)
Live(k) == kids[k] \notin {"none", "dead"}

CheckFires(c) ==
  /\ check[c] = "due" /\ service = "held"
  /\ check' = [check EXCEPT ![c] = "scan"]
  /\ left' = [left EXCEPT ![c] = {k \in Rescuable : Live(k)}]
  /\ UNCHANGED <<boot, pc, service, config, machine, stubbed, registered, kids, zero, monitor>>

\* Mutant: only the device itself is known by name.
MutRescues(k) == k \in Devices /\ kids[k] \in {"stuck", "asked"}

\* The child's state is 0 and its name one of the two.
Rescues(k) == k \in Rescuable /\ kids[k] \in {"stuck", "asked"}

CheckReads(c) ==
  /\ check[c] = "scan" /\ zero[c] = NoChild
  /\ \E k \in left[c] :
       /\ left' = [left EXCEPT ![c] = @ \ {k}]
       /\ zero' = [zero EXCEPT ![c] = IF Rescues(k) THEN k ELSE NoChild]
  /\ UNCHANGED <<boot, pc, service, config, machine, stubbed, registered, kids, check, monitor>>

Asked(s) == IF s = "stuck" THEN "asked" ELSE s

CheckRegisters(c) ==
  /\ check[c] = "scan" /\ zero[c] # NoChild
  /\ kids' = [kids EXCEPT ![zero[c]] = Asked(@)]
  /\ zero' = [zero EXCEPT ![c] = NoChild]
  /\ UNCHANGED <<boot, pc, service, config, machine, stubbed, registered, check, left, monitor>>

CheckEnds(c) ==
  /\ check[c] = "scan" /\ zero[c] = NoChild /\ left[c] = {}
  /\ check' = [check EXCEPT ![c] = "done"]
  /\ UNCHANGED <<boot, pc, service, config, machine, stubbed, registered, kids, left, zero, monitor>>

(***************************************************************************)
(* v60GpuHealthMonitor: the count, the test of the mapping, the clients to *)
(* terminate unless the kill is still delayed, and the next timer.         *)
(***************************************************************************)
KillDelayed(n) == getV77KillDelayIterations > 0 /\ n <= getV77KillDelayIterations

MonitorFires ==
  /\ mon = "armed" /\ service = "held"
  /\ count' = count + 1
  /\ IF boot.mapped
       THEN mon' = "scan" /\ UNCHANGED cut
       ELSE mon' = "off" /\ cut' = TRUE
  /\ UNCHANGED <<boot, pc, service, config, machine, stubbed, registered, kids, checks, doomed>>

MonitorLooks ==
  /\ mon = "scan"
  /\ doomed' = IF KillDelayed(count) THEN {} ELSE {k \in Pipes : Live(k)}
  /\ mon' = "kill"
  /\ UNCHANGED <<boot, pc, service, config, machine, stubbed, registered, kids, checks, count, cut>>

MonitorTerminates ==
  /\ mon = "kill"
  /\ \E k \in doomed :
       /\ kids' = [kids EXCEPT ![k] = "dead"]
       /\ doomed' = doomed \ {k}
  /\ UNCHANGED <<boot, pc, service, config, machine, stubbed, registered, checks, mon, count, cut>>

\* Mutant: the last iteration is lost.
MutRearms(n) == n < Iterations - 1

Rearms(n) == n < Iterations

MonitorRearms ==
  /\ mon = "kill" /\ doomed = {}
  /\ \/ Rearms(count) /\ mon' = "armed" /\ UNCHANGED cut
     \/ Rearms(count) /\ mon' = "off" /\ cut' = TRUE
     \/ ~Rearms(count) /\ mon' = "off" /\ UNCHANGED cut
  /\ UNCHANGED <<boot, pc, service, config, machine, stubbed, registered, kids, checks, count, doomed>>

(***************************************************************************)
(* start returns what the original returned.  IOKit frees a service whose  *)
(* start returned false.  The timers keep the bare pointer; a callback     *)
(* that fires afterwards reads freed memory, and nothing is said of what   *)
(* follows.                                                                *)
(***************************************************************************)
Returns ==
  /\ pc = "return"
  /\ service' \in {"held", "freed"}
  /\ pc' = "done"
  /\ UNCHANGED <<boot, config, machine, stubbed, registered, kids, checks, monitor>>

StaleCallback ==
  /\ service = "freed"
  /\ mon = "armed" \/ \E c \in 1 .. Checks : check[c] = "due"
  /\ service' = "wild"
  /\ UNCHANGED <<boot, pc, config, machine, stubbed, registered, kids, checks, monitor>>

-----------------------------------------------------------------------------
Start == Configure \/ ensureDisplayPipeBacking \/ InjectNames \/ FinalPolicy \/ Register \/ Schedule
         \/ Returns

Check(c) == CheckFires(c) \/ CheckReads(c) \/ CheckRegisters(c) \/ CheckEnds(c)

Monitor == MonitorFires \/ MonitorLooks \/ MonitorTerminates \/ MonitorRearms

Next ==
  \/ Start \/ OriginalReturns
  \/ DriverMakesMachine \/ DriverRegisters \/ loadGuCBinary
  \/ \E k \in Children : Attach(k) \/ Configured(k) \/ OpenPipe(k) \/ Close(k)
  \/ \E c \in 1 .. Checks : Check(c)
  \/ Monitor
  \/ StaleCallback

Spec == Init /\ [][Next]_vars

(***************************************************************************)
(* start's thread runs, timers fire and their handlers run to their end,   *)
(* and IOKit completes registrations.                                      *)
(***************************************************************************)
FairSpec ==
  /\ Spec
  /\ WF_vars(Start)
  /\ \A c \in 1 .. Checks : WF_vars(Check(c))
  /\ \A k \in Rescuable : WF_vars(Configured(k))
  /\ WF_vars(Monitor)

-----------------------------------------------------------------------------
\* The service, its children and its timers are well formed.
TypeOK ==
  /\ boot \in Boots
  /\ pc \in {"config", "original", "backing", "names", "policy", "register", "schedule", "return", "done"}
  /\ service \in {"held", "freed", "wild"}
  /\ sched \in {Absent, 3, 4, 5}
  /\ dev \in [present : BOOLEAN, sched : {Absent, 3, 4, 5}, multi : BOOLEAN, fallback : BOOLEAN]
  /\ named \in BOOLEAN /\ caps \in BOOLEAN /\ registered \in BOOLEAN /\ cut \in BOOLEAN /\ stubbed \in BOOLEAN
  /\ machine \in [made : BOOLEAN, started : BOOLEAN, probed : BOOLEAN]
  /\ kids \in [Children -> {"none", "stuck", "asked", "up", "open", "dead"}]
  /\ check \in [1 .. Checks -> {"idle", "due", "scan", "done"}]
  /\ left \in [1 .. Checks -> SUBSET Rescuable]
  /\ zero \in [1 .. Checks -> Rescuable \cup {NoChild}]
  /\ mon \in {"off", "armed", "scan", "kill"}
  /\ count \in 0 .. Iterations /\ doomed \subseteq Pipes

\* Whatever boot argument, Info.plist and personality say, the two places the
\* driver reads the scheduler from agree, and a scheduler that needs firmware
\* is never selected where loadGuCBinary only pretends to have loaded it.
SchedulerHasItsFirmware ==
  pc # "config" => /\ dev.sched \in {Absent, sched}
                   /\ sched # 5 => ~stubbed

\* V59: a device or shared client that is stuck at state 0 while some delayed
\* check is still to fire does not stay stuck, whatever dies, gets attached or
\* is registered by another check in between.
ChildRescued ==
  \A k \in Rescuable :
    (kids[k] = "stuck" /\ \E c \in 1 .. Checks : check[c] = "due")
      ~> (kids[k] # "stuck" \/ service # "held")

\* The chain the comment before the checks describes: with pipes allowed, no
\* gate and a display machine that could be started, a stuck device with a check
\* to come ends in a service on which WindowServer can open a display pipe.  A
\* machine whose start failed is probed too (TGL.cpp:445-456), and nothing is
\* said of its pipes.
PipeActivates ==
  \A d \in Devices :
    (/\ kids[d] = "stuck" /\ \E c \in 1 .. Checks : check[c] = "due"
     /\ ~isDisplayPipeForceDisabled /\ ~boot.gate /\ machine.started)
      ~> \/ registered /\ caps /\ named /\ machine.probed /\ kids[d] = "up"
         \/ kids[d] = "dead" \/ service # "held"

\* V78: while the monitor has a tick to come and the delay leaves it one that
\* kills, every display-pipe client that appears is terminated, also one that
\* appears before the last tick.
PipeTerminated ==
  \A k \in Pipes :
    (kids[k] = "open" /\ mon = "armed" /\ getV77KillDelayIterations < Iterations)
      ~> (kids[k] = "dead" \/ cut \/ service # "held")

\* ngreendp0 with the monitor: the personality may have shown pipe support,
\* and clients may have come, before start applied the policy; once start is
\* through they go and none comes back.
PipesGone ==
  (/\ pc = "done" /\ isDisplayPipeForceDisabled /\ isExperimentalMonitorEnabled
   /\ getV77KillDelayIterations < Iterations)
    ~> (cut \/ service # "held" \/ [](\A k \in Pipes : kids[k] # "open"))
=============================================================================
