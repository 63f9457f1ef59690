--------------------------- MODULE DisplayBringup ---------------------------
(***************************************************************************)
(* The display side of the framebuffer kext: the controller's start and    *)
(* wake (CD clock, display firmware, the accelerator personality), and the *)
(* hooks on each framebuffer that keep external outputs out of the         *)
(* bring-up while NGreen::gateExternalDisplays holds.                      *)
(*                                                                         *)
(* The hooks run one after another on the driver's work loop; what is      *)
(* concurrent is the loading of the accelerator kext and hot-plug.         *)
(* Frequencies are in kHz.                                                 *)
(***************************************************************************)
EXTENDS Integers, FiniteSets

CONSTANTS
  Framebuffers,   \* framebuffer indices; index 0 is the built-in panel
  Refs,           \* the reference clock codes DSSM may hold
  Cdclks,         \* CD clock fields firmware and hot-plug may leave
  DmcArgs         \* the values of the boot argument ngreen-dmc

CD648 == 1294     \* ICL_CDCLK_FREQ_648_0, 0x50E
CD652 == 1304     \* ICL_CDCLK_FREQ_652_8, 0x518

ASSUME FramebuffersAssumption == Framebuffers \subseteq Nat
ASSUME ClockAssumption == Refs \subseteq 0 .. 7 /\ Cdclks \subseteq Nat
ASSUME DmcAssumption == DmcArgs \subseteq {"skip", "tgl", "adlp"}

None == "none"
Unanswered == [online |-> FALSE, changed |-> FALSE]

VARIABLES
  gate,        \* NGreen::gateExternalDisplays
  dmcArg,      \* ngreen-dmc
  hwLoaded,    \* Gen11::tglHWLoaded
  ctrl,        \* how far the controller is
  ref,         \* DSSM's reference clock code
  pll,         \* BXT_DE_PLL_ENABLE bit 31
  cdclk,       \* the frequency field of CDCLK_CTL
  csr,         \* the controller's member 0xB48: load Apple's CSR firmware
  origB48,     \* hwInitializeCState's copy of it
  images,      \* the firmware images written since boot
  bundle,      \* the bundle named by the accelerator personality
  connected,   \* connected[f]: member 0x1e0 of framebuffer f
  answer,      \* answer[f]: what getOnlineInfo last returned
  driven       \* framebuffers on which an original enable or mode set ran

boot == <<gate, dmcArg>>
clock == <<ref, pll, cdclk>>
cstate == <<csr, origB48, images>>
heads == <<connected, answer, driven>>
vars == <<boot, hwLoaded, ctrl, clock, cstate, bundle, heads>>

\* The state of the controller and of its framebuffers is well formed.
TypeOK ==
  /\ gate \in BOOLEAN
  /\ dmcArg \in {"skip", "tgl", "adlp"}
  /\ hwLoaded \in BOOLEAN
  /\ ctrl \in {"off", "clock", "cstate", "original", "restore", "started", "up", "failed", "panic"}
  /\ ref \in 0 .. 7
  /\ pll \in BOOLEAN
  /\ cdclk \in Nat
  /\ csr \in BOOLEAN /\ origB48 \in BOOLEAN
  /\ images \subseteq {"apple", "tgl", "adlp"}
  /\ bundle \in {None, "TGL", "ICL"}
  /\ connected \subseteq Framebuffers
  /\ answer \in [Framebuffers -> [online : BOOLEAN, changed : BOOLEAN]]
  /\ driven \subseteq Framebuffers

Init ==
  /\ gate \in BOOLEAN
  /\ dmcArg \in DmcArgs
  /\ hwLoaded = FALSE
  /\ ctrl = "off"
  /\ ref \in Refs
  /\ pll \in BOOLEAN
  /\ cdclk \in Cdclks
  /\ csr \in BOOLEAN /\ origB48 = csr
  /\ images = {}
  /\ bundle = None
  /\ connected = {}
  /\ answer = [f \in Framebuffers |-> Unanswered]
  /\ driven = {}

(***************************************************************************)
(* Lilu hands the accelerator kext to Gen11::processKext at any time.      *)
(***************************************************************************)
AcceleratorLoads ==
  /\ ~hwLoaded
  /\ hwLoaded' = TRUE
  /\ UNCHANGED <<boot, ctrl, clock, cstate, bundle, heads>>

(***************************************************************************)
(* AppleIntelBaseControllerstart up to the original, whose work includes   *)
(* the clock and the C-state hooks below.                                  *)
(***************************************************************************)
AppleIntelBaseControllerstart ==
  /\ ctrl = "off"
  /\ ctrl' = "clock"
  /\ UNCHANGED <<boot, hwLoaded, clock, cstate, bundle, heads>>

(***************************************************************************)
(* Apple's setCDClockFrequency: the PLL runs and the field holds the clock *)
(* that is half the PLL's, less one megahertz, in units of half a          *)
(* megahertz.  Its probeCDClockFrequency panics unless the PLL runs at one *)
(* of the two high clocks.                                                 *)
(***************************************************************************)
FieldOf(pllFrequency) == (pllFrequency \div 2 - 1000 + 250) \div 500

Panics(on, field) == ~on \/ field \notin {CD648, CD652}

\* Mutant: the ratio of the 24 MHz reference is used for every reference.
MutPLLFrequency(r) ==
  IF r = 0 THEN 24000 * 54 ELSE IF r = 1 THEN 19200 * 54 ELSE IF r = 2 THEN 38400 * 34 ELSE 0

\* sanitizeCDClockFrequency's switch: 24, 19.2 and 38.4 MHz; 0 for the default.
PLLFrequency(r) ==
  IF r = 0 THEN 24000 * 54 ELSE IF r = 1 THEN 19200 * 68 ELSE IF r = 2 THEN 38400 * 34 ELSE 0

sanitizeCDClockFrequency(field) ==
  IF PLLFrequency(ref) = 0 THEN field ELSE FieldOf(PLLFrequency(ref))

wrapProbeCDClockFrequency ==
  /\ ctrl = "clock"
  /\ pll' = TRUE
  /\ cdclk' = IF cdclk < CD648 THEN sanitizeCDClockFrequency(cdclk) ELSE cdclk
  /\ ctrl' = IF Panics(pll', cdclk') THEN "panic" ELSE "cstate"
  /\ UNCHANGED <<boot, hwLoaded, ref, cstate, bundle, heads>>

(***************************************************************************)
(* hwInitializeCState: the original loads Apple's image when member 0xB48  *)
(* says so; with ngreen-dmc the member is cleared around the original and  *)
(* the plugin's own image is written over whatever an earlier call wrote.  *)
(***************************************************************************)
Replaces == dmcArg # "skip"

\* Mutant: the member is left as it was around the original.
MutSuppressCsrLoad ==
  /\ ctrl = "cstate"
  /\ origB48' = csr
  /\ ctrl' = "original"
  /\ UNCHANGED <<boot, hwLoaded, clock, csr, images, bundle, heads>>

SuppressCsrLoad ==
  /\ ctrl = "cstate"
  /\ origB48' = csr
  /\ csr' = IF Replaces THEN FALSE ELSE csr
  /\ ctrl' = "original"
  /\ UNCHANGED <<boot, hwLoaded, clock, images, bundle, heads>>

OriginalCState ==
  /\ ctrl = "original"
  /\ images' = IF csr THEN images \cup {"apple"} ELSE images
  /\ ctrl' = "restore"
  /\ UNCHANGED <<boot, hwLoaded, clock, csr, origB48, bundle, heads>>

WriteDmc ==
  /\ ctrl = "restore"
  /\ csr' = origB48
  /\ images' = IF Replaces THEN images \cup {dmcArg} ELSE images
  /\ ctrl' = "started"
  /\ UNCHANGED <<boot, hwLoaded, clock, origB48, bundle, heads>>

hwInitializeCState == SuppressCsrLoad \/ OriginalCState \/ WriteDmc

(***************************************************************************)
(* The original start returns.  When it succeeded the hook names the       *)
(* accelerator's bundles after the kext that has been processed by then    *)
(* and adds the personality to the catalogue.  A wake publishes nothing.   *)
(***************************************************************************)
InjectPersonality ==
  /\ ctrl = "started"
  /\ bundle = None
  /\ \/ /\ ctrl' = "up"
        /\ bundle' = IF hwLoaded THEN "TGL" ELSE "ICL"
     \/ /\ ctrl' = "failed"
        /\ UNCHANGED bundle
  /\ UNCHANGED <<boot, hwLoaded, clock, cstate, heads>>

Resumed ==
  /\ ctrl = "started"
  /\ bundle # None
  /\ ctrl' = "up"
  /\ UNCHANGED <<boot, hwLoaded, clock, cstate, bundle, heads>>

(***************************************************************************)
(* Sleep and wake: the four prepareTo... methods are replaced by stubs,    *)
(* and firmware leaves the clock as it likes.                              *)
(***************************************************************************)
Wake ==
  /\ ctrl = "up"
  /\ pll' \in BOOLEAN
  /\ cdclk' \in Cdclks
  /\ ctrl' = "clock"
  /\ UNCHANGED <<boot, hwLoaded, ref, cstate, bundle, heads>>

-----------------------------------------------------------------------------
(***************************************************************************)
(* The framebuffer hooks.                                                  *)
(***************************************************************************)
isBuiltInFramebufferObject(f) == f = 0

shouldGateExternalDisplayBringup == gate

Gated(f) == shouldGateExternalDisplayBringup /\ ~isBuiltInFramebufferObject(f)

setFramebufferGateState(f, on) ==
  connected' = IF on THEN connected \cup {f} ELSE connected \ {f}

\* The driver's own hot-plug code writes the member as well.
DriverDetects(f) ==
  /\ ctrl = "up"
  /\ \E on \in BOOLEAN : setFramebufferGateState(f, on)
  /\ UNCHANGED <<boot, hwLoaded, ctrl, clock, cstate, bundle, answer, driven>>

getOnlineInfo(f) ==
  /\ ctrl = "up"
  /\ \E changed \in BOOLEAN :   \* as the original set it
       answer' = [answer EXCEPT ![f] = IF Gated(f)
                                         THEN [online |-> FALSE, changed |-> FALSE]
                                         ELSE [online |-> TRUE, changed |-> changed]]
  /\ setFramebufferGateState(f, ~Gated(f))
  /\ UNCHANGED <<boot, hwLoaded, ctrl, clock, cstate, bundle, driven>>

(***************************************************************************)
(* enableController and setDisplayMode have the same control.              *)
(***************************************************************************)
\* Mutant: the gate looks at the connector's state instead of its kind.
MutEnableOrSetMode(f) ==
  /\ ctrl = "up"
  /\ \/ Gated(f) /\ f \notin connected /\ UNCHANGED <<connected, driven>>
     \/ /\ Gated(f) => f \in connected
        /\ driven' = driven \cup {f}
        /\ UNCHANGED connected
  /\ UNCHANGED <<boot, hwLoaded, ctrl, clock, cstate, bundle, answer>>

enableOrSetDisplayMode(f) ==
  /\ ctrl = "up"
  /\ \/ /\ Gated(f)
        /\ setFramebufferGateState(f, FALSE)
        /\ UNCHANGED driven
     \/ /\ ~Gated(f)
        /\ IF isBuiltInFramebufferObject(f)
             THEN setFramebufferGateState(f, TRUE)
             ELSE UNCHANGED connected
        /\ driven' = driven \cup {f}
  /\ UNCHANGED <<boot, hwLoaded, ctrl, clock, cstate, bundle, answer>>

connectionChanged(f) ==
  /\ ctrl = "up"
  /\ \/ Gated(f) /\ setFramebufferGateState(f, FALSE)
     \/ /\ ~Gated(f)
        /\ \E ret \in BOOLEAN :   \* the original's result
             IF ret /\ isBuiltInFramebufferObject(f)
               THEN setFramebufferGateState(f, TRUE)
               ELSE UNCHANGED connected
  /\ UNCHANGED <<boot, hwLoaded, ctrl, clock, cstate, bundle, answer, driven>>

Controller ==
  \/ AppleIntelBaseControllerstart
  \/ wrapProbeCDClockFrequency
  \/ hwInitializeCState
  \/ InjectPersonality
  \/ Resumed
  \/ Wake

Framebuffer(f) ==
  \/ DriverDetects(f)
  \/ getOnlineInfo(f)
  \/ enableOrSetDisplayMode(f)
  \/ connectionChanged(f)

Next == AcceleratorLoads \/ Controller \/ \E f \in Framebuffers : Framebuffer(f)

Spec == Init /\ [][Next]_vars

-----------------------------------------------------------------------------
(***************************************************************************)
(* Whichever of the clocks the source lists firmware or hot-plug left, at  *)
(* start and at every wake, Apple's probeCDClockFrequency finds one that   *)
(* it accepts: the PLL ratios of sanitizeCDClockFrequency give exactly the *)
(* two clocks it wants.  The exception is the switch's default, a          *)
(* reference code other than the three: it returns with the low clock in   *)
(* place and the probe panics.                                             *)
(***************************************************************************)
PanicNeedsUnknownRef == ctrl = "panic" => PLLFrequency(ref) = 0

(***************************************************************************)
(* Over all calls of hwInitializeCState, at start and at every wake, no    *)
(* firmware image is ever written over another one: where the plugin       *)
(* writes its own, none of the originals in between has loaded Apple's.    *)
(***************************************************************************)
OneFirmwareImage == Cardinality(images) <= 1

(***************************************************************************)
(* While the gate is closed no external framebuffer is reported online or  *)
(* reaches the driver's own enable or mode set, whatever hot-plug does.    *)
(***************************************************************************)
GatedStayDark ==
  gate => \A f \in Framebuffers \ {0} : f \notin driven /\ ~answer[f].online
=============================================================================
