-------------------------- MODULE AccelServiceProofs --------------------------
(***************************************************************************)
(* Types, the scheduler and the display pipes in AccelService, for every   *)
(* set of boots, children, checks and iterations of the monitor.           *)
(***************************************************************************)
EXTENDS AccelService, TLAPS

States == {"none", "stuck", "asked", "up", "open", "dead"}
Schedulers == {Absent, 3, 4, 5}

\* start, the accelerator's own state and its properties.
ServiceTyped ==
  /\ boot \in Boots
  /\ pc \in {"config", "original", "backing", "names", "policy", "register", "schedule", "return", "done"}
  /\ service \in {"held", "freed", "wild"}
  /\ sched \in Schedulers
  /\ dev \in [present : BOOLEAN, sched : Schedulers, multi : BOOLEAN, fallback : BOOLEAN]
  /\ machine \in [made : BOOLEAN, started : BOOLEAN, probed : BOOLEAN]

FlagsTyped ==
  /\ named \in BOOLEAN /\ caps \in BOOLEAN /\ registered \in BOOLEAN
  /\ cut \in BOOLEAN /\ stubbed \in BOOLEAN

\* The children and the delayed checks.
ChecksTyped ==
  /\ kids \in [Children -> States]
  /\ check \in [1 .. Checks -> {"idle", "due", "scan", "done"}]
  /\ left \in [1 .. Checks -> SUBSET Rescuable]
  /\ zero \in [1 .. Checks -> Rescuable \cup {NoChild}]

\* The monitor counts to the bound and no further: it is armed below it only,
\* and not before start schedules it.
MonitorTyped ==
  /\ mon \in {"off", "armed", "scan", "kill"}
  /\ count \in 0 .. Iterations /\ doomed \subseteq Pipes
  /\ mon = "armed" => count < Iterations
  /\ pc \notin {"return", "done"} => mon = "off" /\ count = 0

\* What start selected, and where the firmware loader was stubbed.
Selected ==
  /\ pc # "config" => sched = schedType /\ dev.sched \in {Absent, schedType}
  /\ stubbed => ~boot.real

IInv == ServiceTyped /\ FlagsTyped /\ ChecksTyped /\ MonitorTyped /\ Selected

\* The choice is one of the three schedulers, and where the hardware is not
\* Tiger Lake it is the one without firmware (start, TGL.cpp:2922-2954).
LEMMA SchedTypeRange ==
  ASSUME boot \in Boots
  PROVE  schedType \in {3, 4, 5} /\ (~boot.real => schedType = 5)
<1>1. boot.real \in BOOLEAN /\ boot.sched \in Int /\ boot.plist \in Int
  BY BootsAssumption DEF Boot
<1>2. CASE boot.real
  BY <1>1, <1>2 DEF schedType, shouldUseSpoofedSafeSchedulerPolicy
<1>3. CASE ~boot.real
  BY <1>1, <1>3 DEF schedType, shouldUseSpoofedSafeSchedulerPolicy
<1>4. QED
  BY <1>2, <1>3

\* The initial states satisfy the invariant.
LEMMA InitInv == Init => IInv
<1> SUFFICES ASSUME Init PROVE IInv
  OBVIOUS
<1>1. ServiceTyped
  BY DEF Init, ServiceTyped, Schedulers, NoDev, Absent
<1>2. FlagsTyped
  BY Zenon DEF Init, FlagsTyped
<1>3. ChecksTyped
  BY DEF Init, ChecksTyped, States
<1>4. MonitorTyped
  BY BoundsAssumption DEF Init, MonitorTyped
<1>5. Selected
  BY DEF Init, Selected
<1>6. QED
  BY <1>1, <1>2, <1>3, <1>4, <1>5 DEF IInv

\* Configure is the only step that selects: it selects once, from the boot.
LEMMA ConfigureInv == IInv /\ Configure => IInv'
<1> SUFFICES ASSUME IInv, Configure PROVE IInv'
  OBVIOUS
<1> USE DEF IInv, Configure, checks, monitor
<1>1. schedType \in {3, 4, 5} /\ boot' = boot
  BY SchedTypeRange DEF ServiceTyped
<1>2. boot.real \in BOOLEAN
  BY BootsAssumption DEF Boot, ServiceTyped
<1>3. schedType' = schedType
  BY <1>1 DEF schedType, shouldUseSpoofedSafeSchedulerPolicy
<1>4. dev.present \in BOOLEAN /\ dev.multi \in BOOLEAN
  BY DEF ServiceTyped
<1>5. /\ dev' \in [present : BOOLEAN, sched : Schedulers, multi : BOOLEAN, fallback : BOOLEAN]
      /\ dev'.sched \in {Absent, schedType}
  <2>1. (dev.present \/ ~boot.real) \in BOOLEAN /\ (dev.multi \/ ~boot.real) \in BOOLEAN
    BY Zenon
  <2>2. (IF dev.present THEN schedType ELSE Absent) \in Schedulers \cap {Absent, schedType}
    BY <1>1, <1>4, Zenon DEF Schedulers
  <2>3. QED
    BY <1>4, <2>1, <2>2 DEF Development
<1>6. ServiceTyped'
  BY <1>1, <1>5 DEF ServiceTyped, Schedulers
<1>7. FlagsTyped'
  BY DEF FlagsTyped
<1>8. ChecksTyped' /\ MonitorTyped'
  BY DEF ChecksTyped, MonitorTyped
<1>9. Selected'
  BY <1>1, <1>3, <1>5 DEF Selected
<1>10. QED
  BY <1>6, <1>7, <1>8, <1>9

\* A step that leaves the boot, the selection and the firmware alone and does
\* not begin start keeps what was selected.
LEMMA SelectedKept ==
  ASSUME Selected, UNCHANGED <<boot, sched, dev, stubbed>>, pc' = pc \/ pc # "config"
  PROVE  Selected'
<1>1. schedType' = schedType
  BY DEF schedType, shouldUseSpoofedSafeSchedulerPolicy
<1>2. QED
  BY <1>1 DEF Selected

\* start after the original, which leaves the selection alone.
LEMMA StartInv ==
  ASSUME IInv,
         \/ ensureDisplayPipeBacking \/ InjectNames \/ FinalPolicy \/ Register \/ Schedule
         \/ Returns \/ OriginalReturns
  PROVE  IInv'
<1> USE DEF IInv, config, checks, monitor
<1>1. CASE ensureDisplayPipeBacking
  <2>1. machine' \in [made : BOOLEAN, started : BOOLEAN, probed : BOOLEAN]
    <3>1. CASE ~machine.made /\ machine' = machine
      BY <3>1 DEF ServiceTyped
    <3>2. ASSUME NEW ok \in BOOLEAN,
                 machine' = [made |-> TRUE, started |-> machine.started \/ ok,
                             probed |-> machine.probed \/ ~boot.gate]
          PROVE  machine' \in [made : BOOLEAN, started : BOOLEAN, probed : BOOLEAN]
      <4>1. /\ (machine.probed \/ ~boot.gate) \in BOOLEAN
            /\ (machine.started \/ ok) \in BOOLEAN
        BY Zenon
      <4>2. QED
        BY <3>2, <4>1, Zenon
    <3>3. QED
      BY <1>1, <3>1, <3>2 DEF ensureDisplayPipeBacking
  <2>2. ServiceTyped'
    BY <1>1, <2>1 DEF ensureDisplayPipeBacking, ServiceTyped, Schedulers
  <2>3. FlagsTyped' /\ ChecksTyped' /\ MonitorTyped'
    BY <1>1 DEF ensureDisplayPipeBacking, FlagsTyped, ChecksTyped, MonitorTyped
  <2>4. Selected'
    BY <1>1, SelectedKept DEF ensureDisplayPipeBacking
  <2>5. QED
    BY <2>2, <2>3, <2>4
<1>2. CASE InjectNames
  <2>1. ServiceTyped' /\ ChecksTyped' /\ MonitorTyped'
    BY <1>2 DEF InjectNames, ServiceTyped, ChecksTyped, MonitorTyped, Schedulers
  <2>2. FlagsTyped'
    BY <1>2, Zenon DEF InjectNames, FlagsTyped, applyDisplayPipePolicy
  <2>3. Selected'
    BY <1>2, SelectedKept DEF InjectNames
  <2>4. QED
    BY <2>1, <2>2, <2>3
<1>3. CASE FinalPolicy
  <2>1. ServiceTyped' /\ ChecksTyped' /\ MonitorTyped'
    BY <1>3 DEF FinalPolicy, ServiceTyped, ChecksTyped, MonitorTyped, Schedulers
  <2>2. FlagsTyped'
    BY <1>3, Zenon DEF FinalPolicy, FlagsTyped, applyDisplayPipePolicy
  <2>3. Selected'
    BY <1>3, SelectedKept DEF FinalPolicy
  <2>4. QED
    BY <2>1, <2>2, <2>3
<1>4. CASE Register
  <2>1. ServiceTyped' /\ FlagsTyped' /\ ChecksTyped' /\ MonitorTyped'
    BY <1>4 DEF Register, ServiceTyped, FlagsTyped, ChecksTyped, MonitorTyped, Schedulers
  <2>2. Selected'
    BY <1>4, SelectedKept DEF Register
  <2>3. QED
    BY <2>1, <2>2
<1>5. CASE Schedule
  <2>1. ServiceTyped'
    BY <1>5 DEF Schedule, ServiceTyped, Schedulers
  <2>2. ChecksTyped'
    BY <1>5 DEF Schedule, ChecksTyped
  <2>3. MonitorTyped'
    <3>1. mon' \in {"off", "armed"}
      BY <1>5 DEF Schedule, MonitorTyped
    <3>2. QED
      BY <1>5, <3>1, BoundsAssumption DEF Schedule, MonitorTyped
  <2>4. FlagsTyped'
    BY <1>5, Zenon DEF Schedule, FlagsTyped
  <2>5. Selected'
    BY <1>5, SelectedKept DEF Schedule
  <2>6. QED
    BY <2>1, <2>2, <2>3, <2>4, <2>5
<1>6. CASE Returns
  <2>1. ServiceTyped' /\ FlagsTyped' /\ ChecksTyped' /\ MonitorTyped'
    BY <1>6 DEF Returns, ServiceTyped, FlagsTyped, ChecksTyped, MonitorTyped, Schedulers
  <2>2. Selected'
    BY <1>6, SelectedKept DEF Returns
  <2>3. QED
    BY <2>1, <2>2
<1>7. CASE OriginalReturns
  <2>1. ServiceTyped' /\ FlagsTyped' /\ ChecksTyped' /\ MonitorTyped'
    BY <1>7 DEF OriginalReturns, ServiceTyped, FlagsTyped, ChecksTyped, MonitorTyped, Schedulers
  <2>2. Selected'
    BY <1>7, SelectedKept DEF OriginalReturns
  <2>3. QED
    BY <2>1, <2>2
<1>8. QED
  BY <1>1, <1>2, <1>3, <1>4, <1>5, <1>6, <1>7

\* What the original start does, the firmware loader among it: the stub claims
\* success only where GuC is not allowed.
LEMMA OriginalInv ==
  ASSUME IInv, DriverMakesMachine \/ DriverRegisters \/ loadGuCBinary
  PROVE  IInv'
<1> USE DEF IInv, config, checks, monitor
<1>1. CASE DriverMakesMachine
  <2>1. ServiceTyped' /\ FlagsTyped' /\ ChecksTyped' /\ MonitorTyped'
    BY <1>1 DEF DriverMakesMachine, ServiceTyped, FlagsTyped, ChecksTyped, MonitorTyped, Schedulers
  <2>2. Selected'
    BY <1>1, SelectedKept DEF DriverMakesMachine
  <2>3. QED
    BY <2>1, <2>2
<1>2. CASE DriverRegisters
  <2>1. ServiceTyped' /\ FlagsTyped' /\ ChecksTyped' /\ MonitorTyped'
    BY <1>2 DEF DriverRegisters, ServiceTyped, FlagsTyped, ChecksTyped, MonitorTyped, Schedulers
  <2>2. Selected'
    BY <1>2, SelectedKept DEF DriverRegisters
  <2>3. QED
    BY <2>1, <2>2
<1>3. CASE loadGuCBinary
  <2>1. ServiceTyped' /\ ChecksTyped' /\ MonitorTyped'
    BY <1>3 DEF loadGuCBinary, ServiceTyped, ChecksTyped, MonitorTyped, Schedulers
  <2>2. FlagsTyped' /\ (stubbed' <=> ~boot.real)
    BY <1>3, Zenon DEF loadGuCBinary, FlagsTyped, shouldUseSpoofedSafeSchedulerPolicy
  <2>3. schedType' = schedType
    BY <1>3 DEF loadGuCBinary, schedType, shouldUseSpoofedSafeSchedulerPolicy
  <2>4. Selected'
    BY <1>3, <2>2, <2>3 DEF loadGuCBinary, Selected
  <2>5. QED
    BY <2>1, <2>2, <2>4
<1>4. QED
  BY <1>1, <1>2, <1>3

\* The driver, IOKit and WindowServer change the state of one child.
LEMMA KidsInv ==
  ASSUME IInv, NEW k \in Children, Attach(k) \/ Configured(k) \/ OpenPipe(k) \/ Close(k)
  PROVE  IInv'
<1> USE DEF IInv, config, checks, monitor
<1>1. PICK s \in States : SetKid(k, s)
  BY DEF Attach, Configured, OpenPipe, Close, States
<1>2. ServiceTyped' /\ FlagsTyped' /\ MonitorTyped'
  BY <1>1 DEF SetKid, ServiceTyped, FlagsTyped, MonitorTyped, Schedulers
<1>3. ChecksTyped'
  BY <1>1 DEF SetKid, ChecksTyped
<1>4. Selected'
  BY <1>1, SelectedKept DEF SetKid
<1>5. QED
  BY <1>2, <1>3, <1>4

\* A delayed check touches the children it may rescue and its own snapshot.
LEMMA CheckInv ==
  ASSUME IInv, NEW c \in 1 .. Checks, Check(c)
  PROVE  IInv'
<1> USE DEF IInv, config, checks, monitor
<1>1. UNCHANGED <<boot, pc, service, config, machine, stubbed, registered, monitor>>
  BY DEF Check, CheckFires, CheckReads, CheckRegisters, CheckEnds
<1>2. ServiceTyped' /\ FlagsTyped' /\ MonitorTyped'
  BY <1>1 DEF ServiceTyped, FlagsTyped, MonitorTyped, Schedulers
<1>3. Selected'
  BY <1>1, SelectedKept
<1>4. ChecksTyped'
  <2>1. CASE CheckFires(c)
    BY <2>1 DEF CheckFires, ChecksTyped
  <2>2. CASE CheckReads(c)
    BY <2>2 DEF CheckReads, ChecksTyped
  <2>3. CASE CheckRegisters(c)
    <3>1. zero[c] \in Children
      BY <2>3 DEF CheckRegisters, ChecksTyped, Children
    <3>2. Asked(kids[zero[c]]) \in States
      BY <3>1 DEF Asked, ChecksTyped, States
    <3>3. QED
      BY <2>3, <3>1, <3>2 DEF CheckRegisters, ChecksTyped
  <2>4. CASE CheckEnds(c)
    BY <2>4 DEF CheckEnds, ChecksTyped
  <2>5. QED
    BY <2>1, <2>2, <2>3, <2>4 DEF Check
<1>5. QED
  BY <1>2, <1>3, <1>4

\* The monitor counts, and kills only display-pipe clients.
LEMMA MonitorInv ==
  ASSUME IInv, Monitor
  PROVE  IInv'
<1> USE DEF IInv, config, checks, monitor
<1>1. UNCHANGED <<boot, pc, service, config, machine, stubbed, registered, checks>>
  BY DEF Monitor, MonitorFires, MonitorLooks, MonitorTerminates, MonitorRearms
<1>2. ServiceTyped'
  BY <1>1 DEF ServiceTyped, Schedulers
<1>3. Selected'
  BY <1>1, SelectedKept
<1>4. cut' \in BOOLEAN
  BY Zenon DEF Monitor, MonitorFires, MonitorLooks, MonitorTerminates, MonitorRearms, FlagsTyped
<1>5. FlagsTyped'
  BY <1>1, <1>4 DEF FlagsTyped
<1>6. ChecksTyped'
  <2>1. kids' \in [Children -> States]
    BY DEF Monitor, MonitorFires, MonitorLooks, MonitorTerminates, MonitorRearms, ChecksTyped, States
  <2>2. QED
    BY <1>1, <2>1 DEF ChecksTyped
<1>7. MonitorTyped'
  <2>1. mon # "off" /\ pc \in {"return", "done"}
    BY DEF Monitor, MonitorFires, MonitorLooks, MonitorTerminates, MonitorRearms, MonitorTyped, ServiceTyped
  <2>2. CASE MonitorFires
    BY <1>1, <2>1, <2>2, BoundsAssumption DEF MonitorFires, MonitorTyped
  <2>3. CASE MonitorLooks
    BY <1>1, <2>1, <2>3 DEF MonitorLooks, MonitorTyped
  <2>4. CASE MonitorTerminates
    BY <1>1, <2>1, <2>4 DEF MonitorTerminates, MonitorTyped
  <2>5. CASE MonitorRearms
    BY <1>1, <2>1, <2>5 DEF MonitorRearms, MonitorTyped, Rearms
  <2>6. QED
    BY <2>2, <2>3, <2>4, <2>5 DEF Monitor
<1>8. QED
  BY <1>2, <1>3, <1>5, <1>6, <1>7

\* Every step keeps the invariant.
LEMMA StepInv == IInv /\ [Next]_vars => IInv'
<1> SUFFICES ASSUME IInv, [Next]_vars PROVE IInv'
  OBVIOUS
<1>1. CASE StaleCallback \/ UNCHANGED vars
  <2>1. UNCHANGED <<boot, pc, config, machine, stubbed, registered, kids, checks, monitor>>
        /\ service' \in {service, "wild"}
    BY <1>1 DEF StaleCallback, vars
  <2>2. ServiceTyped' /\ FlagsTyped' /\ ChecksTyped' /\ MonitorTyped'
    BY <2>1 DEF IInv, ServiceTyped, FlagsTyped, ChecksTyped, MonitorTyped, Schedulers, config, checks, monitor
  <2>3. Selected'
    BY <2>1, SelectedKept DEF IInv, config
  <2>4. QED
    BY <2>2, <2>3 DEF IInv
<1>2. QED
  BY <1>1, ConfigureInv, StartInv, OriginalInv, KidsInv, CheckInv, MonitorInv DEF Next, Start

\* The invariant of the accelerator's service.
THEOREM ServiceInvariant == Spec => []IInv
<1>1. QED
  BY InitInv, StepInv, PTL DEF Spec

\* start, its children and its timers stay well formed; above all the monitor
\* never runs past its last iteration (TGL.cpp:2780).
THEOREM ServiceTypes == Spec => []TypeOK
<1>1. IInv => TypeOK
  BY DEF IInv, TypeOK, ServiceTyped, FlagsTyped, ChecksTyped, MonitorTyped, Schedulers, States
<1>2. QED
  BY <1>1, ServiceInvariant, PTL

\* For every boot the two places the driver reads the scheduler from agree,
\* and where loadGuCBinary only claims to have loaded the firmware the
\* scheduler that needs none is selected (TGL.cpp:2922-2981, 1589).
THEOREM SchedulerFirmware == Spec => []SchedulerHasItsFirmware
<1>1. IInv => SchedulerHasItsFirmware
  BY SchedTypeRange DEF IInv, ServiceTyped, Selected, SchedulerHasItsFirmware
<1>2. QED
  BY <1>1, ServiceInvariant, PTL

-----------------------------------------------------------------------------
(* Display pipes that are forced off.                                      *)

\* The ticks of the monitor that are over.
TicksDone == IF mon \in {"scan", "kill"} THEN count - 1 ELSE count

\* With ngreendp0, once a tick of the monitor past the kill delay is over, no
\* display-pipe client is open: not one that came before start applied the
\* policy, nor one that came during the sweep, and none comes back.
PipesStayGone ==
  isDisplayPipeForceDisabled /\ boot.mapped /\ TicksDone > 0 /\ ~KillDelayed(TicksDone) =>
    \A k \in Pipes : kids[k] # "open"

\* start has applied the policy before it registers the service.
PolicyApplied ==
  pc \in {"register", "schedule", "return", "done"} => (caps <=> ~isDisplayPipeForceDisabled)

\* The monitor's snapshot has every client that is open.
SnapshotComplete ==
  isDisplayPipeForceDisabled /\ mon = "kill" /\ ~KillDelayed(count) =>
    \A k \in Pipes : kids[k] = "open" => k \in doomed

PipesInv == PolicyApplied /\ SnapshotComplete /\ PipesStayGone

\* The policies depend on the boot arguments alone.
LEMMA PolicyFixed ==
  ASSUME boot' = boot
  PROVE  /\ isDisplayPipeForceDisabled' <=> isDisplayPipeForceDisabled
         /\ getV77KillDelayIterations' = getV77KillDelayIterations
BY Zenon DEF isDisplayPipeForceDisabled, getV77KillDelayIterations

\* No step changes the boot.
LEMMA BootFixed == ASSUME [Next]_vars PROVE boot' = boot
BY Zenon DEF Next, vars, Start, Configure, ensureDisplayPipeBacking, InjectNames, FinalPolicy, Register,
   Schedule, Returns, OriginalReturns, DriverMakesMachine, DriverRegisters, loadGuCBinary, Attach,
   Configured, OpenPipe, Close, SetKid, Check, CheckFires, CheckReads, CheckRegisters, CheckEnds,
   Monitor, MonitorFires, MonitorLooks, MonitorTerminates, MonitorRearms, StaleCallback

\* Only FinalPolicy brings start to its registration, and nothing after it
\* changes the capabilities.
LEMMA PolicyStays ==
  ASSUME IInv, PolicyApplied, [Next]_vars PROVE PolicyApplied'
<1> USE DEF config, checks, monitor
<1>1. isDisplayPipeForceDisabled' <=> isDisplayPipeForceDisabled
  BY BootFixed, PolicyFixed
<1>2. CASE FinalPolicy
  BY <1>1, <1>2, Zenon DEF FinalPolicy, applyDisplayPipePolicy, PolicyApplied
<1>3. CASE Configure \/ ensureDisplayPipeBacking \/ InjectNames \/ OriginalReturns
  <2>1. pc' \in {"original", "backing", "names", "policy"}
    BY <1>3 DEF Configure, ensureDisplayPipeBacking, InjectNames, OriginalReturns
  <2>. QED BY <2>1 DEF PolicyApplied
<1>4. CASE Register \/ Schedule \/ Returns
  <2>1. caps' = caps /\ pc \in {"register", "schedule", "return"}
    BY <1>4, Zenon DEF Register, Schedule, Returns
  <2>. QED BY <1>1, <2>1, Zenon DEF PolicyApplied
<1>5. ASSUME caps' = caps, pc' = pc PROVE PolicyApplied'
  BY <1>1, <1>5 DEF PolicyApplied
<1>6. CASE DriverMakesMachine \/ DriverRegisters \/ loadGuCBinary \/ StaleCallback \/ UNCHANGED vars
  BY <1>5, <1>6 DEF DriverMakesMachine, DriverRegisters, loadGuCBinary, StaleCallback, vars
<1>7. ASSUME NEW k \in Children, Attach(k) \/ Configured(k) \/ OpenPipe(k) \/ Close(k)
      PROVE  PolicyApplied'
  BY <1>5, <1>7 DEF Attach, Configured, OpenPipe, Close, SetKid
<1>8. ASSUME NEW c \in 1 .. Checks, Check(c) PROVE PolicyApplied'
  BY <1>5, <1>8 DEF Check, CheckFires, CheckReads, CheckRegisters, CheckEnds
<1>9. CASE Monitor
  BY <1>5, <1>9, Zenon DEF Monitor, MonitorFires, MonitorLooks, MonitorTerminates, MonitorRearms
<1>. QED
  BY <1>2, <1>3, <1>4, <1>6, <1>7, <1>8, <1>9 DEF Next, Start

\* A client opens a pipe only on a service that shows the capability.
LEMMA OpensWithCaps ==
  ASSUME IInv, [Next]_vars, NEW k \in Pipes, kids'[k] = "open", kids[k] # "open"
  PROVE  caps /\ UNCHANGED <<pc, mon, count, doomed>>
<1> USE DEF config, checks, monitor
<1>1. kids \in [Children -> States] /\ k \in Children /\ k \notin Rescuable
  BY ChildrenAssumption DEF IInv, ChecksTyped, Children
<1>2. ASSUME NEW j \in Children, OpenPipe(j) PROVE caps /\ UNCHANGED <<pc, mon, count, doomed>>
  BY <1>2 DEF OpenPipe, SetKid
<1>3. ASSUME NEW j \in Children, Attach(j) \/ Configured(j) \/ Close(j) PROVE FALSE
  BY <1>1, <1>3 DEF Attach, Configured, Close, SetKid
<1>4. ASSUME NEW c \in 1 .. Checks, Check(c) PROVE FALSE
  <2>1. CASE CheckRegisters(c)
    <3>1. zero[c] \in Rescuable BY <2>1 DEF CheckRegisters, IInv, ChecksTyped
    <3>. QED BY <1>1, <2>1, <3>1 DEF CheckRegisters, Children
  <2>. QED BY <1>4, <2>1 DEF Check, CheckFires, CheckReads, CheckEnds
<1>5. CASE Monitor
  <2>1. CASE MonitorTerminates BY <1>1, <2>1 DEF MonitorTerminates
  <2>. QED BY <1>5, <2>1 DEF Monitor, MonitorFires, MonitorLooks, MonitorRearms
<1>6. ASSUME kids' = kids PROVE FALSE
  BY <1>6
<1>. QED
  BY <1>2, <1>3, <1>4, <1>5, <1>6, Zenon DEF Next, vars, Start, Configure, ensureDisplayPipeBacking,
     InjectNames, FinalPolicy, Register, Schedule, Returns, OriginalReturns, DriverMakesMachine,
     DriverRegisters, loadGuCBinary, StaleCallback

\* Where pipes are forced off and the monitor runs or has run, none opens.
LEMMA NoneOpens ==
  ASSUME IInv, PolicyApplied, [Next]_vars, isDisplayPipeForceDisabled,
         mon # "off" \/ count > 0, NEW k \in Pipes, kids'[k] = "open"
  PROVE  kids[k] = "open"
<1> SUFFICES ASSUME kids[k] # "open" PROVE FALSE
  OBVIOUS
<1>1. caps BY OpensWithCaps
<1>2. pc \in {"return", "done"} BY DEF IInv, MonitorTyped, ServiceTyped
<1>. QED BY <1>1, <1>2 DEF PolicyApplied

\* What a step does to the monitor's timer, count and snapshot.
LEMMA MonitorSteps ==
  ASSUME IInv, [Next]_vars
  PROVE  \/ UNCHANGED <<mon, count, doomed>>
         \/ mon' \in {"off", "armed"} /\ count' = 0
         \/ Monitor
<1> USE DEF config, checks, monitor
<1>1. CASE Schedule
  <2>1. mon = "off" /\ count = 0 BY <1>1, ZenonT(30) DEF Schedule, IInv, MonitorTyped
  <2>. QED BY <1>1, <2>1 DEF Schedule
<1>2. CASE \/ Configure \/ ensureDisplayPipeBacking \/ InjectNames \/ FinalPolicy \/ Register
           \/ Returns \/ OriginalReturns \/ DriverMakesMachine \/ DriverRegisters \/ loadGuCBinary
           \/ StaleCallback \/ UNCHANGED vars
  BY <1>2 DEF Configure, ensureDisplayPipeBacking, InjectNames, FinalPolicy, Register, Returns,
     OriginalReturns, DriverMakesMachine, DriverRegisters, loadGuCBinary, StaleCallback, vars
<1>3. ASSUME NEW k \in Children, Attach(k) \/ Configured(k) \/ OpenPipe(k) \/ Close(k)
      PROVE  UNCHANGED <<mon, count, doomed>>
  BY <1>3 DEF Attach, Configured, OpenPipe, Close, SetKid
<1>4. ASSUME NEW c \in 1 .. Checks, Check(c) PROVE UNCHANGED <<mon, count, doomed>>
  BY <1>4 DEF Check, CheckFires, CheckReads, CheckRegisters, CheckEnds
<1>. QED BY <1>1, <1>2, <1>3, <1>4 DEF Next, Start

\* The monitor's sweep: the snapshot is complete when it is taken, stays so as
\* none opens meanwhile, and is empty when the tick is over.
LEMMA SweepStays ==
  ASSUME IInv, PipesInv, [Next]_vars PROVE SnapshotComplete' /\ PipesStayGone'
<1> USE DEF PipesInv
<1>1. /\ isDisplayPipeForceDisabled' <=> isDisplayPipeForceDisabled
      /\ getV77KillDelayIterations' = getV77KillDelayIterations /\ boot' = boot
  BY BootFixed, PolicyFixed
<1>2. \A n : KillDelayed(n)' <=> KillDelayed(n)
  BY <1>1 DEF KillDelayed
<1>3. /\ kids \in [Children -> States] /\ Pipes \subseteq Children /\ count \in Int
      /\ mon \in {"off", "armed", "scan", "kill"}
  BY DEF IInv, ChecksTyped, MonitorTyped, Children
<1>4. ASSUME Monitor, NEW k \in Pipes, kids'[k] = "open" PROVE kids[k] = "open"
  <2>1. CASE MonitorTerminates BY <1>3, <1>4, <2>1 DEF MonitorTerminates
  <2>. QED BY <1>4, <2>1 DEF Monitor, MonitorFires, MonitorLooks, MonitorRearms
<1>5. SnapshotComplete'
  <2> SUFFICES ASSUME isDisplayPipeForceDisabled, mon' = "kill", ~KillDelayed(count'),
                      NEW k \in Pipes, kids'[k] = "open"
               PROVE  k \in doomed'
    BY <1>1, <1>2 DEF SnapshotComplete, KillDelayed
  <2>1. CASE UNCHANGED <<mon, count, doomed>>
    <3>1. kids[k] = "open" BY <2>1, NoneOpens
    <3>. QED BY <2>1, <3>1 DEF SnapshotComplete
  <2>2. CASE Monitor
    <3>1. kids[k] = "open" BY <1>4, <2>2
    <3>2. CASE MonitorLooks BY <3>1, <3>2 DEF MonitorLooks, KillDelayed, Live
    <3>3. CASE MonitorTerminates
      <4>1. k \in doomed BY <3>1, <3>3 DEF MonitorTerminates, SnapshotComplete
      <4>. QED BY <1>3, <3>3, <4>1 DEF MonitorTerminates
    <3>. QED BY <2>2, <3>2, <3>3 DEF Monitor, MonitorFires, MonitorRearms
  <2>. QED BY <2>1, <2>2, MonitorSteps
<1>6. PipesStayGone'
  <2> SUFFICES ASSUME isDisplayPipeForceDisabled, boot.mapped, TicksDone' > 0,
                      ~KillDelayed(TicksDone'), NEW k \in Pipes, kids'[k] = "open"
               PROVE  FALSE
    BY <1>1, <1>2 DEF PipesStayGone, KillDelayed
  <2>1. ASSUME TicksDone' = TicksDone, kids[k] = "open" PROVE FALSE
    BY <2>1 DEF PipesStayGone
  <2>2. CASE UNCHANGED <<mon, count, doomed>>
    <3>1. TicksDone' = TicksDone BY <2>2 DEF TicksDone
    <3>2. mon # "off" \/ count > 0 BY <1>3, <3>1 DEF TicksDone
    <3>. QED BY <2>1, <3>1, <3>2, NoneOpens
  <2>3. CASE mon' \in {"off", "armed"} /\ count' = 0 BY <2>3 DEF TicksDone
  <2>4. CASE Monitor
    <3>1. kids[k] = "open" BY <1>4, <2>4
    <3>2. CASE MonitorRearms
      <4>1. TicksDone' = count /\ mon = "kill" /\ doomed = {}
        BY <3>2 DEF MonitorRearms, TicksDone
      <4>. QED BY <3>1, <4>1 DEF SnapshotComplete
    <3>3. CASE MonitorFires \/ MonitorLooks \/ MonitorTerminates
      BY <1>3, <2>1, <3>1, <3>3 DEF MonitorFires, MonitorLooks, MonitorTerminates, TicksDone
    <3>. QED BY <2>4, <3>2, <3>3 DEF Monitor
  <2>. QED BY <2>2, <2>3, <2>4, MonitorSteps
<1>. QED BY <1>5, <1>6

\* The safety half of PipesGone, for every number of clients and ticks: with
\* ngreendp0, v60GpuHealthMonitor's first tick past the kill delay leaves no
\* display-pipe client open, and none opens afterwards (TGL.cpp:2142-2174).
THEOREM PipesSwept == Spec => []PipesStayGone
<1>1. Init => PipesInv
  <2> SUFFICES ASSUME Init PROVE PipesInv OBVIOUS
  <2>1. pc = "config" /\ mon = "off" /\ count = 0 BY DEF Init
  <2>. QED BY <2>1 DEF PipesInv, PolicyApplied, SnapshotComplete, PipesStayGone, TicksDone
<1>2. IInv /\ PipesInv /\ [Next]_vars => PipesInv'
  BY PolicyStays, SweepStays DEF PipesInv
<1>3. PipesInv => PipesStayGone BY DEF PipesInv
<1>. QED BY <1>1, <1>2, <1>3, ServiceInvariant, PTL DEF Spec
=============================================================================
