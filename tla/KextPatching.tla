---------------------------- MODULE KextPatching ----------------------------
(***************************************************************************)
(* NGreen::processKext and Gen11::processKext: what is solved, routed and  *)
(* patched in each kext Lilu reports, in which order, and what a failure   *)
(* does.  Kexts are reported one at a time, in any order.  The requests of *)
(* one array are one group; PatcherPlus stops a group at its first         *)
(* failure, with the earlier requests in effect.                           *)
(***************************************************************************)
EXTENDS Sequences, FiniteSets

CONSTANTS
  Kexts,          \* the kexts that load on this machine
  Args,           \* the sets of boot arguments the machine may be booted with
  Flavours        \* framebuffer kexts on the machine: "prod", "debug"

AllKexts == {"IOAccelF2", "AGDP", "Backlight", "MCCS", "FB", "HW"}
AllArgs == {"nbwegcoex", "ngreenfullmtl", "rcsTrace", "tglTrace", "ngreenRefProbeF2"}

ASSUME KextAssumption ==
  /\ Kexts \subseteq AllKexts
  /\ Args \subseteq SUBSET AllArgs /\ Args # {}
  /\ Flavours \subseteq {"prod", "debug"} /\ Flavours # {}

VARIABLES
  args,       \* the boot arguments
  real,       \* NGreen::isRealTGL, as processPatcher left it
  flavour,    \* which framebuffer kext is installed
  kext,       \* the kext being processed, or "none"
  todo,       \* the steps left of its branch
  done,       \* the kexts whose processKext has returned
  err,        \* KernelPatcher's sticky error: the group that raised it, or "none"
  applied,    \* groups in effect
  partial,    \* groups that stopped at a failure, with a prefix in effect
  lacking,    \* some mandatory symbol or pattern was missing
  panic,
  routed,     \* functions that jump to their hook
  looped      \* hooks whose stored original leads back to the hook

platform == <<args, real, flavour>>
vars == <<args, real, flavour, kext, todo, done, err, applied, partial, lacking, panic,
          routed, looped>>

-----------------------------------------------------------------------------
(* Steps: an operation on a group of requests.  A mandatory step is inside *)
(* PANIC_COND.                                                             *)
Must(op, g) == [op |-> op, group |-> g, must |-> TRUE]
May(op, g) == [op |-> op, group |-> g, must |-> FALSE]
If(arg, s) == IF arg \in args THEN s ELSE << >>

IOAccelF2Steps ==
  << May("mask", "f2"), May("clear", "f2"), May("mask", "f1"), May("clear", "f1") >>

AGDPSteps == << May("apply", "boardId") >>

(* The second step only follows a successful route. *)
BacklightSteps == << May("rawRoute", "setDisplay"), May("apply", "panelName") >>

MCCSSteps == << May("rawRoute", "probes"), May("clear", "probes") >>

(* The framebuffer branch.  The flavour is found by solving a symbol the   *)
(* production kext lacks, directly through the patcher.                    *)
FBRoutes(f) == << Must("route", "fbCommon"), Must("route", f) >>

FBPatches(f) ==
  << Must("apply", IF f = "prod" THEN "prodPatches" ELSE "debugPatches") >>
      \o IF f = "debug" /\ "ngreenRefProbeF2" \in args /\ ~real
         THEN << Must("apply", "probeF2") >> ELSE << >>

FBSteps(f) ==
  << May("probe", "isprod"), Must("solve", "setCDClock") >> \o FBRoutes(f) \o FBPatches(f)

(* The accelerator branch. *)
HWSolves ==
  << Must("solve", "displayMachine") >> \o If("rcsTrace", << May("solve", "traceSymbols") >>)

HWRoutes ==
  << Must("route", "accelerator"), Must("solve", "schedControl"), Must("route", "firmware"),
     Must("route", "policy") >>
      \o If("tglTrace", << Must("route", "wopcm") >>)
      \o << Must("route", "scheduler5") >>

HWTraceRoutes ==
  If("rcsTrace", << May("route", "rcsInit"), May("route", "resumeScheduling") >>)

HWCoexistRoutes ==
  IF "nbwegcoex" \notin args \/ "ngreenfullmtl" \in args
  THEN << Must("route", "forceWake"), Must("route", "gpuInfo") >> ELSE << >>

(* Three of the four patches of the spoofed topology are plain, the last   *)
(* one is masked.                                                          *)
HWPatches ==
  << Must("apply", "sku") >>
      \o IF real THEN << >>
         ELSE << Must("apply", "topology"), Must("mask", "devstart"), May("mask", "devstartLong") >>

HWSteps == HWSolves \o HWRoutes \o HWTraceRoutes \o HWCoexistRoutes \o HWPatches

Steps(k) ==
  CASE k = "IOAccelF2" -> IOAccelF2Steps
    [] k = "AGDP" -> AGDPSteps
    [] k = "Backlight" -> BacklightSteps
    [] k = "MCCS" -> MCCSSteps
    [] k = "FB" -> FBSteps(flavour)
    [] OTHER -> HWSteps

(* The hooks a route group installs.  The policy group routes              *)
(* resumeScheduling too.                                                   *)
Hooks(g) == IF g = "policy" THEN {"policy", "resumeScheduling"} ELSE {g}

-----------------------------------------------------------------------------
Init ==
  /\ args \in Args
  /\ real \in BOOLEAN
  /\ flavour \in Flavours
  /\ kext = "none" /\ todo = << >> /\ done = {}
  /\ err = "none" /\ applied = {} /\ partial = {}
  /\ lacking = FALSE /\ panic = FALSE
  /\ routed = {} /\ looped = {}

(* Lilu reports a kext once, by its load index. *)
processKext(k) ==
  /\ ~panic /\ kext = "none" /\ k \notin done
  /\ kext' = k
  /\ todo' = Steps(k)
  /\ UNCHANGED <<platform, done, err, applied, partial, lacking, panic, routed, looped>>

(* Nothing clears the patcher's error between two kexts. *)
Returns ==
  /\ ~panic /\ kext # "none" /\ todo = << >>
  /\ done' = done \cup {kext}
  /\ kext' = "none"
  /\ UNCHANGED <<platform, todo, err, applied, partial, lacking, panic, routed, looped>>

Step == Head(todo)
Doing(ops) == ~panic /\ todo # << >> /\ Step.op \in ops

(* Lilu (readChain) returns the previous jump destination as the original  *)
(* of a function that is already routed: here, the plugin's own hook.      *)
Reroute(g) ==
  /\ routed' = routed \cup Hooks(g)
  /\ looped' = looped \cup (routed \cap Hooks(g))

(* A group that succeeds is in effect as a whole. *)
InEffect ==
  /\ applied' = applied \cup {Step.group}
  /\ todo' = Tail(todo)
  /\ UNCHANGED <<partial, lacking, panic>>

\* Mutant: the result of routeAll and applyAll is only logged.
MutFails ==
  /\ todo' = Tail(todo)
  /\ partial' = partial \cup {Step.group}
  /\ UNCHANGED <<applied, panic>>

(* A group that fails stays in effect up to its first failure, and         *)
(* PANIC_COND fires for a mandatory one.  A failed backlight route skips   *)
(* its patch.                                                              *)
Fails ==
  /\ panic' = Step.must
  /\ todo' = IF Step.op = "rawRoute" /\ kext = "Backlight" THEN << >> ELSE Tail(todo)
  /\ partial' = partial \cup {Step.group}
  /\ UNCHANGED applied

\* Mutant: a symbol that is not found leaves the patcher's error set.
MutSolveKeepsError ==
  /\ Doing({"solve"})
  /\ \/ InEffect /\ UNCHANGED err
     \/ Fails /\ lacking' = (lacking \/ Step.must) /\ err' = Step.group
  /\ UNCHANGED <<platform, kext, done, routed, looped>>

(* SolveRequestPlus::solve clears the error of a missing symbol.           *)
solveAll ==
  /\ Doing({"solve"})
  /\ \/ InEffect /\ UNCHANGED err
     \/ Fails /\ lacking' = (lacking \/ Step.must) /\ err' = "none"
  /\ UNCHANGED <<platform, kext, done, routed, looped>>

(* RouteRequestPlus::route clears the error of a failed route; none of the *)
(* requests has a pattern to route by instead.  Whether a successful       *)
(* routeMultiple resets an older error is up to Lilu.                      *)
routeAll ==
  /\ Doing({"route"})
  /\ \/ InEffect /\ err' \in {err, "none"} /\ Reroute(Step.group)
     \/ Fails /\ lacking' = (lacking \/ Step.must) /\ err' = "none" /\ UNCHANGED <<routed, looped>>
  /\ UNCHANGED <<platform, kext, done>>

(* routeMultiple without PatcherPlus leaves its error set. *)
RawRoute ==
  /\ Doing({"rawRoute"})
  /\ \/ InEffect /\ UNCHANGED err /\ Reroute(Step.group)
     \/ Fails /\ UNCHANGED <<lacking, routed, looped>> /\ err' = Step.group
  /\ UNCHANGED <<platform, kext, done>>

(* LookupPatchPlus::apply of a plain patch: success is the patcher having  *)
(* no error afterwards, whenever that error was raised.                    *)
applyAll ==
  /\ Doing({"apply"})
  /\ \/ err = "none" /\ InEffect /\ UNCHANGED err
     \/ Fails /\ err' = Step.group /\ lacking' = (lacking \/ Step.must)
     \/ err # "none" /\ Fails /\ UNCHANGED <<err, lacking>>
  /\ UNCHANGED <<platform, kext, done, routed, looped>>

(* LookupPatchPlus::apply of a masked patch does not touch the error. *)
ApplyMasked ==
  /\ Doing({"mask"})
  /\ \/ InEffect
     \/ Fails /\ lacking' = (lacking \/ Step.must)
  /\ UNCHANGED <<platform, kext, done, err, routed, looped>>

(* clearError, and the probe for AppleIntelBaseController::start.          *)
ClearOrProbe ==
  /\ Doing({"clear", "probe"})
  /\ err' = IF Step.op = "clear" THEN "none"
            ELSE IF flavour = "prod" THEN Step.group ELSE err
  /\ todo' = Tail(todo)
  /\ UNCHANGED <<platform, kext, done, applied, partial, lacking, panic, routed, looped>>

Next ==
  \/ \E k \in Kexts : processKext(k)
  \/ solveAll \/ routeAll \/ RawRoute \/ applyAll \/ ApplyMasked \/ ClearOrProbe
  \/ Returns

Spec == Init /\ [][Next]_vars

-----------------------------------------------------------------------------
(* Properties *)

(* The groups a kext needs. *)
Mandatory(k) == {Steps(k)[i].group : i \in {j \in DOMAIN Steps(k) : Steps(k)[j].must}}

(* The drivers only ever run with every mandatory group in effect: a kext  *)
(* whose processKext returned has all of them, whole, and no group of the  *)
(* other framebuffer flavour.  routeAll and applyAll can leave a prefix    *)
(* behind; the panic keeps that from being used.                           *)
AllOrPanic ==
  \A k \in done :
      /\ Mandatory(k) \subseteq applied
      /\ Mandatory(k) \cap partial = {}
      /\ k = "FB" => {"prod", "debug"} \cap applied = {flavour}

(* The failures that are only logged and leave the error set: the board-id *)
(* patch, the backlight's route and patch, and, with the production        *)
(* framebuffer, the probe for a symbol it lacks.                           *)
Uncleared ==
  {"boardId", "setDisplay", "panelName"} \cup IF flavour = "prod" THEN {"isprod"} ELSE {}

(* Why a boot panics: a symbol or pattern it cannot do without is missing, *)
(* or a plain patch took for its own an error that one of the four         *)
(* uncleared failures left, maybe while another kext was processed.  The   *)
(* sticky error is a second cause indeed: NGreen.cpp:557 and 568 only log, *)
(* and nothing clears the error before the next kext.  Every other request *)
(* that may be missing leaves no trace: TGL.cpp:1273 wants the long form   *)
(* of the deviceStart patch "optional (non-fatal)".                        *)
PanicExplained == panic => lacking \/ err \in Uncleared

(* kern_patcher.hpp:460: what a hook stores and calls as the original is   *)
(* the driver's function ("trampoline storage to the original symbol") and *)
(* not the hook itself.  The run that checks it refutes it: with tracing   *)
(* on, resumeScheduling is routed twice into one original pointer.         *)
OriginalReached == looped = {}
=============================================================================
