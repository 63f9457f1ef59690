# NootedGreen in TLA+

NootedGreen is a Lilu plugin that makes Apple's Tiger Lake graphics drivers run
on Tiger Lake and Raptor Lake laptops. It runs inside the kernel, hooks the
driver's functions, writes GPU registers, arms timers and edits the device's
registry entry. The driver, the hardware, IOKit and user space all run at the
same time as it does, and the repository has no unit tests. This directory holds
TLA+ models of the parts where the order of events matters, TLC runs that check
them on small instances, and TLAPS proofs for every size.

Paths are relative to `src/NootedGreen/` unless they start with `src/`.
`TGL.cpp` is `iTGL/TGL.cpp`.

## Inventory

| Part | State | Operations | What makes it hard |
|---|---|---|---|
| Engine tracker (TGL.cpp 72-171, 5948-6643) | five flags per engine (`NGTglEngineState`) | the context, ring-buffer and command-streamer hooks | driver threads share the record without a lock; a flag is tested before the original call and used after it |
| Interrupt timers (TGL.cpp 2040-3759, 6645-6758) | interrupt masks and enables, EMR, ERROR_GEN6; one-shot timers | `start`, `v54IrqWatchdog`, `v60GpuHealthMonitor`, `v71EmrEnforcer`, hangcheck, `resetGraphicsEngine` | read, decide, write back from five threads; timer chains that must not break |
| ForceWake (TGL.cpp 3874-4125) | request and acknowledge bits per domain | `forceWake`, its fallback, the hangcheck dump, `start`'s own requests | hardware that acknowledges late or not at all; bits shared by callers |
| Plane guards (NGreen.hpp 81-174, TGL.cpp 233-243, 2410-2692, 4274-4383, 5224-5234) | PLANE_CTL, PLANE_SURF, the V93 slot array | `writeReg32/64`, `raWriteRegister32/32b`, `tWriteRegister32/64`, `FastWriteRegister32`, the V79 and V88 experiments | check and write are two steps; an unlocked cache that sees one path only |
| Boot (NGreen.cpp 30-501, 588-640; DYLDPatches.cpp 42-55) | registry properties, policy flags, stolen size | `processPatcher`, `configRead16/32` | the entry appears late, user space and the driver start in between |
| Kext patching (NGreen.cpp 511-586, TGL.cpp 640-1346, PatcherPlus.cpp) | applied routes and patches, the patcher's sticky error | `processKext` per kext | optional symbols, partial failure, arrival order |
| Display link (TGL.cpp 4515-4613, 5256-5296) | one DPCD cache | `wrapICLReadAUX`, `computeLaneCount` | one cache for all ports, hot-plug |
| Display bring-up (TGL.cpp 1833-1926, 4623-5104, 5298-5331, 5773-5836) | clock, firmware image, gate, personality | clock probe, C-state set-up, online and mode hooks, controller start | wake repeats it; kexts load in either order |
| Accelerator as a service (TGL.cpp 270-463, 1589-1652, 1942-2035, 2142-2174, 2914-3024, 3422-3532; Info.plist) | scheduler choice, capabilities, display machine, child services and their state | `start`, `ensureDisplayPipeBacking`, delayed checks, termination | clients, IOKit and timers act on the same children; a failed start leaves timers behind |
| Merge nub (Utilities/DisplayMergeNub.cpp) | a display's property table | `probe`, the merge loop, the recursive merge | copy and put-back around another writer; a loop that ends at the first failure |
| Capabilities, blit3D, DYLD byte patches, HDMI, network log, RCS trace | data | | not modelled, see below |

How they interact: `processPatcher` (IgpuBoot) sets the policy flags the other
parts read; `processKext` (KextPatching) decides which hooks exist; `start`
(GtInterrupts, ForceWake) runs once the driver matches and arms the timers,
among them the monitor that also touches the display plane (PlaneGuard) and the
accelerator's children (AccelService, which has the rest of `start`); controller
start (DisplayBringup) injects the accelerator's personality.

## Modules

Each component module has its state, `Init`, one action per hook or step,
`Next`, `Spec` and its properties. `MC<Name>` gives values to constants.
`<Name>Proofs` holds theorems; `DisplayProofs` those of the three display modules,
whose state does not overlap (DisplayLink and DisplayMergeNub name their `Init`,
`Next` and `Spec` `LinkInit`, `MergeInit` and so on for this). `DisplayParts` runs
those three, one at a time. `Mut...` operators are deliberately wrong
variants of the definition that follows them: each property is known to fail
when one of them is used, so none holds for free.

| Module | Models | Abstraction |
|---|---|---|
| `EngineTracker` | the tracker and its hooks, as calls with a program counter (entry test, original, bookkeeping, the register reads of the smoke test) | registers are zero or not zero; an engine is RCS, BCS or none |
| `EngineBringup` | EngineTracker composed with the order in which the driver calls the hooks, or with a driver free to call any | the driver's scripts are external, from the V90 comment and the hooks' own sequence tests |
| `EngineLife` | abstract: an engine earns its stages for good, passes only with both, and lets nobody through once quarantined | no hooks, no samples; EngineTracker implements it (`ImplementsLife`) |
| `GtInterrupts` | every thread is a sequence of register steps (read, fix, acknowledge, arm) | a register is the set of bits that matter |
| `GtScenarios` | GtInterrupts with a choice of which callbacks run beside `start` and which registers are disturbed | the threads left out do not touch the disturbed registers, or only write the wanted value |
| `AccelService` | `start` as an IOService, the firmware hooks, the delayed child checks and the monitor's V77 part, with the original start, clients, IOKit and WindowServer as other actors | a child is its kind and state; a boot is its arguments and personality |
| `DisplayMergeNub` | `probe`, its shallow merge entry by entry and its merge loop step by step, with the display's driver beside it; the merge of two dictionaries is a parameter | a dictionary is a function to leaves and dictionaries |
| `DictionaryMerge` | that parameter: the set of outcomes of the recursive `MergeDictionaryIntoDictionary`, failed allocations and insertions included, and a definition of a merge by paths to compare with | the same |
| `ForceWake` | the handshake, domain by domain | a request register is a set of bits; delays are a bounded number of polls |
| `PlaneGuard` | the plugin's write paths to a plane's registers (see below), each read and write of a register or of the slot array a step | the surface latches when PLANE_SURF is written (external) |
| `IgpuBoot` | `processPatcher` in its stages, with IOKit, user space and the driver as other actors | a property is absent, the user's or ours |
| `KextPatching` | per kext the list of its groups of solves, routes and patches | a group is found or missing; bytes are left out |
| `DisplayLink` | AUX reads, lane computation, training and hot-plug on a set of ports | a sink is its rates and lane count |
| `DisplayBringup` | clock, firmware, gate, personality | frequencies keep their values; framebuffer 0 is the built-in one |
| `DisplayParts` | a choice of one of DisplayBringup, DisplayLink and DictionaryMerge | the other two stay in an initial state |

`PROJECT.json` maps each definition to the source lines it stands for.

Choices a reader may wonder about:

- **Platforms.** `isRealTGL` is set true for every CPU once the device was found
  (`NGreen.cpp:401`), and stays false only when `DeviceInfo` could
  not be made. The code for `isRealTGL = FALSE` is therefore live only in that
  case; the models keep both values, and `EngineTracker` takes every combination
  of the three platform flags, which includes the ones a boot produces.
- **MMIO** is taken to be mapped when hooks run, except where a hook asks
  (`mmioReady` in the tracker). The health monitor asks too and ends its chain when
  there is no mapping (`MonitorBails`); no code takes the mapping down, so the models
  leave that open.
- **Write paths.** `PlaneGuard` has `tWriteRegister32` and so `writeReg32`;
  `tWriteRegister64` and so `writeReg64`, which has the same guard but uses the byte
  offset as an index, so that its write misses the plane; `raWriteRegister32` in both
  forms (32b only adds its two offsets), with and without an object; and
  `FastWriteRegister32`. What the driver writes past the plugin is not there.
- **History variables.** `raced` (PlaneGuard) holds the threads whose decision another
  thread has overtaken; `owner` and `foreign` (DisplayLink) tell whose sink filled the
  cache; `over` and `late` (DisplayMergeNub) tell what the driver wrote last; `lacking`
  (KextPatching) that something mandatory was missing. No action depends on them.
- **The driver** is the least constrained environment that makes sense: any hook at
  any time. Where an assumption is needed it is a named constant: `DriverQuiet`
  (how many ticks before the watchdog's last one the driver stops disabling
  interrupts). Nothing in the repository shows that an enable waits for surface
  writes in flight, or that Lilu clears the patcher's error between two kexts, so
  neither is assumed. The driver's scripts of `EngineBringup` keep the order the hooks
  ask for (`WellBehaved`: ring set up before its tail moves, control on before a
  submission, never off).
- **A service whose start failed** is freed by IOKit while its timers still hold the
  pointer. `AccelService` marks a callback that then fires (`StaleCallback`); the
  liveness properties speak of a service that is held.
- **A thread call that cannot be allocated** ends the chain it belongs to. In
  `AccelService` it may fail at any tick (`cut`); in `GtInterrupts` the constant
  `Pool` bounds the calls, and the chain properties are stated while there are
  calls to spare.
- **ForceWake callers** have a request bit of their own, as the driver's normal and
  interrupt contexts do.
- **Display link.** The driver may compute lanes at any time, also from a cache that
  another port or an earlier sink filled, and link training may fall back to a lower
  rate or fewer lanes. Short and failed AUX reads and the backlight block are no steps
  of the model, as they leave the cache alone or only log.
- **A failed route of `cs_validate_page`**, a failed start of the display machine and a
  failed PLL mapping are outcomes of their steps.
- **WindowServer** starts no earlier than the wait for the device (`NGreen.cpp:294`).

## Runs

| Run | Shows | Bounds |
|---|---|---|
| `EngineBringup` | order of readiness, what quarantines RCS, how often a quarantined engine is still reached; the tracker implements `EngineLife`, so verdicts are final; in the driver's own order RCS is never quarantined on real Tiger Lake and finally passes | 2 threads; free calls on every platform, and both known orders |
| `Gt` | neither chain of timers has a gap, `start` returns, no stale write-back undoes a mask or enable, errors are masked again and again | four scenarios; 2 ticks of the watchdog, driver quiet for 2, 1 tick of the monitor, the enforcer for ever |
| `ForceWake` | held domains stay requested, the fallback bit and bit 0 are taken back, dumps are bounded | 2 callers, one shared domain, 1 fallback pass, hangcheck at the first call, `start` |
| `PlaneGuard` | an enabled plane begins to show address zero only by an unguarded write, or by one that another thread overtook | 2 drivers on all five paths, 2 planes, 1 cache slot (so that it overflows, and two threads may claim it) |
| `PlaneToggle` | the plane V88 turned off is live again; a blocked zero write keeps the picture | 1 driver and the monitor, 2 planes, 2 surfaces, 1 cache slot |
| `IgpuBoot` | user space is not earlier than the hook, user identity kept, what a matched driver reads is final, the 32-bit stolen size does not wrap | all boot arguments and properties; the mode-select bytes at the edge of each range |
| `KextPatching` | mandatory hooks are all there, or panic; a panic has something missing or an uncleared error behind it | 5 kexts in any order, both framebuffer flavours, 4 sets of boot arguments that take every branch |
| `Display` | bring-up: clock probe, one firmware image, gate; link: the lane count follows the sink, the link reads back; merge nub: every entry arrives, other keys are kept, what is lost is confined, the merge is the union of paths | 2 framebuffers, the clocks the source lists, known and unknown references, any number of wakes; 2 ports, 2 sinks, an override that counts and one that does not; dictionaries up to two levels, empty ones too, 2 probes, 2 writes of the driver |
| `AccelService` | the selected scheduler has its firmware, stuck children are started, the display pipe can be opened, unwanted pipe clients go and stay away | 6 boots that take every branch of the policies; 1 device, 1 shared client, 2 pipe clients, 2 checks, 2 monitor ticks |
| `PlaneGuardRace` (violation) | a plane enabled between the guard's check and its write is armed with zero | 2 drivers on the exported path |
| `KextReroute` (violation) | with tracing the stored original of `resumeScheduling` is its own hook | the accelerator's kext |
| `DisplayLanes` (violation) | a port is given the lane count of another port's sink | 2 ports |

Bounds are small because the interesting cases need two actors and one
repetition: a second thread between a test and a write, a second tick, one slot
too few. The scenarios of `Gt` split the registers by question to keep the run
short: the watchdog and the enforcer share only ERROR_GEN6, which both clear.
`KextPatching.cfg` leaves out one kext, IOAccelF2, whose steps clear the error they
may leave and are of kinds the others have.

Type invariants (`TypeOK`) are proved for every instance rather than run, and so is
`VerdictsAreFinal`, which the refinement checked by `EngineBringup` implies.

Deadlock is not checked where the system really ends: a boot that is done or
panicked, a driver start that returned with no timer left, a controller that
failed to start.

## Where code and text disagree

`PlaneGuardRace`, `KextReroute` and `DisplayLanes` are the disagreements kept as runs.
These others were met while modelling; the models follow the code. The properties
`RcsQuarantineNeedsSequenceError`, `IdentityKept`, `LanesAsAdvertised`, `LossConfined`
and `DumpsBounded`, which say what the code does where a text says something else,
name that text in their comments.

| Code | Text |
|---|---|
| TGL.cpp:6028 defers for RCS at every stage and never quarantines it | TGL.cpp:6026-6027: later stages "will re-check and quarantine only if the registers are still 0" |
| TGL.cpp:2828: the enforcer frees no timer and ends when one cannot be allocated | src/README.md:33 "50ms timer runs indefinitely"; TGL.cpp:2826-2827 "never stop", "each timer fires once and is freed" |
| TGL.cpp:3574 acknowledges ERROR_GEN6 with the value read earlier, which sets bits again if the register is R/W | TGL.cpp:3564-3565 calls it W1C, TGL.cpp:3684-3685 "R/W (not W1C)" |
| TGL.cpp:3921: the dump flag is tested and set without a lock, so two calls may dump (`DumpsBounded` is what holds) | TGL.cpp:3916 "once on the 30th call" |
| TGL.cpp:3317: `start` shares bit 0 with the hangcheck, which may release it during the report | "now with Blitter ForceWake held!" |
| TGL.cpp:4317: V93 restores the last surface it saw, not the last one written by any path | "keeping last" |
| TGL.cpp:2688: the V88 toggle writes back the PLANE_CTL it read before, over a change of the driver | TGL.cpp:2687 "Re-enable plane with same settings" |
| TGL.cpp:233: the exported write does not intercept EMR | src/README.md:35 "on all MMIO write paths" |
| NGreen.cpp:401 sets `isRealTGL` on every CPU | NGreen.hpp:282; src/README.md:121-127 |
| NGreen.cpp:338 seeds properties whatever `seedIGPUProps` is | src/README.md:94 "opt-in"; src/README.md:85 "Disabled by default"; src/README.md:17 "handled cleanly by config.plist only" |
| DYLDPatches.cpp:53-54 only logs that the page hook could not be routed | NGreen.cpp:294-297: the hook comes first so that WindowServer is patched |
| NGreen.cpp:557 and 568 only log a failed patch and leave the patcher's error, which the next plain patch of any kext takes for its own, so that a kext with nothing missing may panic | "Failed to apply AGDP board-id patch", logged as a failure to live with |
| NGreen.cpp:52: the undefined platform id triggers seeding, which keeps it | NGreen.cpp:51 "undefined" |
| NGreen.cpp:618: a 32-bit read at the device id spoofs the wrong half | NGreen.cpp:612 "unaligned reads may happen" |
| TGL.cpp:2995 selects a function that coexist mode does not hook | TGL.cpp:2992 "(which we hook)" |
| TGL.cpp:5271: the default is the sink's count | src/README.md:84 "(default 2 lanes)" |
| TGL.cpp:4537-4541 show the cached count as the link's, also when `ngreenLanes` trained fewer lanes | TGL.cpp:5262: the override comes first |
| TGL.cpp:5321 forces online, not changed | src/README.md:29 "forces online + changed" |
| TGL.cpp:4671 names Ice Lake if the controller starts before the accelerator kext loads | src/README.md:161 "Primary (preferred): TGL" |
| TGL.cpp:2148 with the default delay of 60 (TGL.cpp:512) terminates no display-pipe client in any of the 60 iterations | TGL.cpp:2145 "Must kill these clients whenever they appear" |
| DisplayMergeNub.cpp:74 replaces the display's nested dictionaries by the personality's before the loop merges them (the shipped personality is flat) | DisplayMergeNub.cpp:95 "merge our entry into it, recursively" |
| DisplayMergeNub.cpp:270-273: a nested copy that cannot be made ends the merge with the result of the entry before, so a partial merge may count as a success | the other breaks of that loop report the failure |

## Fairness

- `EngineBringup`: weak fairness of each driver thread; a kernel thread in a hook
  runs on, as hooks take no lock.
- `GtScenarios` (`FairSSpec`): weak fairness of the plugin's threads and of due timers
  (`thread_call` runs an entered call). None for the driver's disturbances. The
  driver's own `start` continues once an interrupt can be delivered (the V53
  comment; external).
- `PlaneGuard`: weak fairness of the monitor's steps.
- `AccelService`: weak fairness of `start`'s own steps, of each delayed check and of
  the monitor (entered thread calls run), and of IOKit's completion of a
  registration that was asked for. None for the original start, for clients or
  for WindowServer.

## Proofs

All theorems hold for every value of the constants that satisfies the modules'
assumptions and, where stated, an extra hypothesis.

- **EngineTrackerProofs.** `ReadinessOrder` is not inductive: a hook sets a flag
  after the original call, relying on the test before it. The invariant adds
  `CallInv`, what a call in flight has seen; a late-original part, that a call past
  its test is counted once; and `FailInv`, that a failing verdict only comes from
  `Decide`. From it follow `ReadinessOrderHolds`, `LateOriginalsBounded`,
  `VerdictsFinal` and `RcsQuarantineSequence` (only a call on RCS itself, out of
  sequence, quarantines it on real Tiger Lake), for any number of calls.
  `TrackerImplementsLife` is the refinement: each step of a hook is a step of
  `EngineLife` or a stutter; `CallInv` supplies the guards.
  For the driver composed with the hooks, `RcsNeverQuarantinedHolds` shows that any
  number of threads with `WellBehaved` scripts never quarantine RCS there. Its
  invariant relates each thread's place in its script to the flags: a call that a
  hook would refuse is never the next one, because what the hook asks for was done
  earlier in the same script and is never undone. `BringupIsTracker` shows that such
  a bring-up is a behaviour of `EngineTracker`, so all of the above applies to it.
- **GtInterruptsProofs.** `GtTyped` places program counters inside the programs;
  `StaleWritesUndoNothing` needs no invariant beyond types, as a fix is computed
  so that bits another thread corrected stay corrected; `WatchdogChain` shows that
  each tick arms its successor before it ends and that `start` arms the first
  before it calls the driver; `EnforcerForever` shows the same of the enforcer,
  whose chain has no last tick.
- **ForceWakeProofs.** The invariant says which bits each call may rely on at each
  stage; the masked write changes one bit of one register (`RequestFrame`), and no
  call writes another's bit (`OwnBit`), so `DomainStaysAwake` and `NoFallbackLeft`.
  `NoBit0Left` does the same for the bit that `start` and the hangcheck share.
  `DumpsOncePerContext` counts a caller that is past the unlocked test as if it had
  dumped (`DumpInv`): the test admits no one once the flag is set, and while it is
  clear nobody has dumped, so there are never more dumps than contexts.
- **PlaneGuardProofs.** `PlaneInvariant` and `ZeroTakesARace` assume nothing beyond the
  constants: any threads, planes, slots and paths, V93 on or off, the monitor running.
  The property looks at one step, the write that arms a plane, but what makes it true
  lies several steps back. `Decided` carries it: a thread about to write zero on a
  guarded path has found its plane off, or turned it off, and nobody has enabled it
  since, or the thread is in `raced`; one about to use a cached surface has one, or is
  in `raced`. `PlaneGuardRace` shows that the race does happen.
  `BlockedWriteKeepsSurface` assumes `OneWriter`: V93 on and one driver thread that
  writes through `raWriteRegister32`, the only path that fills the cache. A plane then
  has one slot (`SlotInv`), the search never misses it (`SearchInv`), what is cached is
  what the plane shows or what is on its way to it (`CacheShown`), and a write past the
  guard carries what is cached (`WriteInv`). A second path would write surfaces the
  cache never sees, and two threads may give a plane two slots. The plane of the
  monitor is left out, as the toggle writes it directly.
- **DisplayProofs.**
  - Link, for any ports, sinks, overrides and fallbacks: a port that owns the cache has
    its own sink's count in it (`CacheOwned`), so that a port which was never answered
    from a foreign cache was given what it was shown (`CountsOwn`); what is trained is
    at most what was computed (`LinkComputed`) and rates are capped before they are
    shown (`RatesCapped`). `DisplayLanes` shows that foreign answers do happen.
  - Bring-up: `ExternalsStayDark` for any set of framebuffers; `ClockProbeSafe` for the
    CD clocks the source lists (`KnownClocks`) and any reference; `FirmwareExclusive`,
    for any number of wakes, from `ImageWritten`: an image was written only by the kind
    of call the boot argument selects, and the member is clear while an original runs
    that must not load; `DisplayTyped`.
  - Merge nub, for any dictionaries, number of probes and number of driver writes:
    `TheirsAreKept` needs only that the loop's keys are the personality's
    (`KeysApart`). `LossIsConfined` adds what the copy holds while it is out
    (`CopyHolds`) and assumes that a copy which is put back keeps its target's keys
    (`MergeKeepsKeys`). `EntriesArrive` adds that what was written whole is whole in the
    table and in the copy (`Arrived`), and assumes that a copy which is put back
    includes its source if no allocation cut it short or if its target did, and that an
    entry more takes nothing away (`MergeIncludesSource`). Both hypotheses are about a recursive definition and need
    an induction over the depth of a dictionary, which TLAPS cannot do here, so TLC
    evaluates them for the recursive merge (`MergeHypotheses` in `MCDisplay`). The
    driver's entry in a dictionary is under a key the personality does not have there
    (`DriverKeyAssumption`).
- **IgpuBootProofs.** The properties are not inductive alone: `NeverUnpatched` needs that
  the hook has been tried before user space can start (`HookSettled`), and
  `PublishedIsFinal` that the personality is published after the last change of what a
  driver reads (`PublishedLate`). `StolenBounded` goes through the ranges of the
  mode-select byte, all 256 values.
- **KextPatchingProofs.** For any kexts in any order, anything missing and any boot
  arguments. `AllOrPanicHolds`: every mandatory group of the kext in hand is in effect
  or still to come (`ProgressInv`), and the steps to come are steps of that kext
  (`BranchInv`). `PanicExplainedHolds`: the patcher's error is sticky across kexts, so
  `ErrorInv` says of every state that a pending error was left by one of the failures
  nothing clears, or will be cleared by the branch in hand (`MCCSInv`).
- **AccelServiceProofs.** `SchedulerFirmware` needs that what start wrote is what
  `schedType` computes and that a stub ran only off real hardware (`Selected`);
  `ServiceTypes` needs that an armed monitor has iterations left (`MonitorTyped`).
  `PipesSwept` is the safety half of the liveness property `PipesGone`: with
  `ngreendp0`, once a tick of the monitor past the kill delay is over, no display-pipe
  client is open, then or later. It rests on the policy being applied before the
  service is registered (`PolicyApplied`), so that no client comes while the monitor
  sweeps, and on its snapshot holding every open client (`SnapshotComplete`).

Only model-checked: the liveness properties (`RcsEventuallyPasses`, `StartReturns`,
`EnforcedForever`, `PlaneComesBack`, `ChildRescued`, `PipeActivates`,
`PipeTerminated`, `PipesGone`), because TLAPS does not reason about fairness; and
`MergeIsUnion`, which says what a recursive definition computes and needs induction
over data. Every other property of the passing runs has a theorem.

## Not modelled

- Capabilities, GPU info, blit3D, `probe`, HDMI and firmware tables: straight-line
  edits of driver data by one thread, and constant tables. `initHardwareCaps` lowers
  the SKU around the original call and restores it after.
- The bytes of DYLD and kext patches.
- The V72 interception of EMR writes in `raWriteRegister32`: the driver of
  `GtInterrupts` writes EMR directly, which the paths without V72 allow.
- RCS trace, register dumps and the IGScheduler5 hooks (TGL.cpp 6042-6287): they read
  registers, log and forward to the original.
- The network log (`NetDbg.cpp`) is in no build phase of the Xcode project.
- `readAndClearInterrupts`, `allocateDisplayResources`, `wrapLoadGuCBinary` and the
  begin/end reset hooks are never routed, so no execution reaches them.
- `src/MacKernelSDK` and the Lilu headers, which make up nearly all lines under
  `src/`, are other projects' interfaces. The map covers about 4800 lines, which is
  well over a third of the plugin's own 12400.

## Plan

1. An abstract specification of a plane ("shows a surface or is off", but for a race)
   that PlaneGuard implements.
2. A composition of IgpuBoot and KextPatching, so that platform flags and hooks
   come from one boot.
3. ForceWake callers that share a context's bit.
