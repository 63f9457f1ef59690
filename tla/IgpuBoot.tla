------------------------------ MODULE IgpuBoot ------------------------------
(***************************************************************************)
(* NGreen::processPatcher (NGreen.cpp): the cs_validate_page hook, the     *)
(* seeding of the IGPU registry properties, the bring-up policy, the       *)
(* stolen-memory size, the publication of the framebuffer personality and  *)
(* the spoofing of PCI configuration reads.  User space, IOKit matching    *)
(* and the framebuffer driver run while it does: the registry entry may    *)
(* appear late, WindowServer starts during the long DeviceInfo wait, and   *)
(* the driver matches as soon as the personality is published.             *)
(***************************************************************************)
EXTENDS Integers, FiniteSets

CONSTANTS
  Args,       \* the sets of boot arguments the machine may be booted with
  GmsValues,  \* values of the graphics mode select byte, 0..255
  Reads       \* kinds of configuration read the driver makes

AllArgs == {"-nbdyldoff", "-ngreenforceprops", "-ngreenlegacypll", "-NGreenNoExternal"}
AllReads == {"16@DeviceID", "32@VendorID", "32@DeviceID"}

ASSUME ArgsAssumption == Args \subseteq SUBSET AllArgs /\ Args # {}
ASSUME GmsAssumption == GmsValues \subseteq 0..255 /\ GmsValues # {}
ASSUME ReadsAssumption == Reads \subseteq AllReads

(* "built-in" stands for the four identity strings that are handled alike: *)
(* built-in, AAPL,slot-name, hda-gfx and model.                            *)
Props == {"AAPL,ig-platform-id", "device-id", "built-in", "framebuffer-unifiedmem",
        "saved-config"}

(* The device id the graphics has in configuration space. *)
Phys == "phys"

VARIABLES
  stage,      \* how far processPatcher has come
  args,       \* the boot arguments
  visible,    \* the IGPU entry resolves by its IOService path
  props,      \* the registry properties of the entry
  user,       \* what they were at power-on
  seed,       \* the local seedIGPUProps
  iGPU,       \* NGreen::iGPU is set
  policy,     \* the policy flags of NGreen that are true
  gms,        \* the firmware's graphics mode select
  stolen,     \* NGreen::stolen_size, in megabytes
  published,  \* the framebuffer personality is in the catalogue
  rmmio,      \* NGreen::rmmio is mapped
  pll,        \* the display PLL: as "firmware" left it, "locked" or "unlocked"
  hooked,     \* the route of _cs_validate_page: "no", "yes" or "failed"
  server,     \* WindowServer: "down", "patched" or "unpatched"
  routed      \* the widths of configuration read that are routed

env == <<args, user, gms>>
late == <<published, rmmio, pll, routed>>
vars == <<stage, args, visible, props, user, seed, iGPU, policy, gms, stolen, published, rmmio,
        pll, hooked, server, routed>>

(* The 32-bit product n * 1024 * 1024, counted in megabytes. *)
TimesMiB(n) == n % 4096

Init ==
  /\ stage = "hook"
  /\ args \in Args
  /\ gms \in GmsValues
  /\ user \in [Props -> {"absent", "user", "0x8A5C0002"}]
  /\ \A p \in Props \ {"AAPL,ig-platform-id"} : user[p] # "0x8A5C0002"
  /\ props = user
  /\ visible \in BOOLEAN
  /\ seed = FALSE /\ iGPU = FALSE
  /\ policy = {"gateExternalDisplays"}
  /\ stolen = 0
  /\ published = FALSE /\ rmmio = FALSE /\ pll = "firmware"
  /\ hooked = "no" /\ server = "down" /\ routed = {}

Goto(s) == stage' = s

-----------------------------------------------------------------------------
(* Stage 1 *)

\* Mutant: the hook is established after the device has been set up.
MutHookLate ==
  /\ \/ stage = "hook" /\ Goto("decide") /\ UNCHANGED hooked
     \/ stage = "publish" /\ hooked = "no" /\ hooked' = "yes" /\ UNCHANGED stage
  /\ UNCHANGED <<env, visible, props, seed, iGPU, policy, stolen, server, late>>

(* DYLDPatches::processPatcher: a failed route is only logged.             *)
HookCsValidatePage ==
  /\ stage = "hook"
  /\ hooked' \in IF "-nbdyldoff" \in args THEN {"no"} ELSE {"yes", "failed"}
  /\ Goto("decide")
  /\ UNCHANGED <<env, visible, props, seed, iGPU, policy, stolen, server, late>>

(* IOKit publishes the PCI nub on its own thread. *)
EntryAppears ==
  /\ ~visible
  /\ visible' = TRUE
  /\ UNCHANGED <<env, stage, props, seed, iGPU, policy, stolen, hooked, server, late>>

-----------------------------------------------------------------------------
(* Stage 2: whether and what to seed *)

shouldForceRPLBringupPlatform == props["AAPL,ig-platform-id"] \in {"absent", "0x8A5C0002"}

shouldAutoSeedIGPUPropertiesEarly ==
  visible /\ (shouldForceRPLBringupPlatform \/ props["device-id"] = "absent")

DecideSeeding ==
  /\ stage = "decide"
  /\ seed' = ("-ngreenforceprops" \in args \/ shouldAutoSeedIGPUPropertiesEarly)
  /\ Goto("early")
  /\ UNCHANGED <<env, visible, props, iGPU, policy, stolen, hooked, server, late>>

\* Mutant: the guards on missing properties are dropped.
MutSeedAll(ps) == [p \in Props |-> "ours"]

(* seedIGPUPropertiesOnEntry: every property is set only when missing. *)
Seeded(ps) == [p \in Props |-> IF ps[p] = "absent" THEN "ours" ELSE ps[p]]

(* seedIGPUPropertiesEarly: the entry is skipped when no path resolves. *)
SeedEarly ==
  /\ stage = "early"
  /\ props' = IF seed /\ visible THEN Seeded(props) ELSE props
  /\ Goto("device")
  /\ UNCHANGED <<env, visible, seed, iGPU, policy, stolen, hooked, server, late>>

-----------------------------------------------------------------------------
(* Stage 3: the device *)

(* DeviceInfo::create may fail, which is only logged. *)
CreateDeviceInfo ==
  /\ stage = "device"
  /\ \/ Goto("switchoff") /\ visible' = TRUE
     \/ Goto("failed") /\ UNCHANGED visible
  /\ UNCHANGED <<env, props, seed, iGPU, policy, stolen, hooked, server, late>>

(* The properties that are overwritten when seeding was decided. *)
Overwritten(ps) == IF seed THEN [ps EXCEPT !["built-in"] = "ours"] ELSE ps

(* After the long processSwitchOff: the cast (which panics when the built- *)
(* in video is no PCI device), power-up, renaming and the second seeding,  *)
(* which does not depend on seedIGPUProps.                                 *)
IdentifyDevice ==
  /\ stage = "switchoff"
  /\ \/ Goto("panic") /\ UNCHANGED <<iGPU, props>>
     \/ /\ Goto("policy")
        /\ iGPU' = TRUE
        /\ props' = Overwritten(Seeded(props))
  /\ UNCHANGED <<env, visible, seed, policy, stolen, hooked, server, late>>

\* Mutant: the byte is scaled for every value below the 4 MB encodings.
MutStolenMegabytes(g) ==
  LET size == IF g < 16 * 15 THEN g * 32 ELSE ((g % 16) + 1) * 4
  IN  IF size < 128 THEN 128 ELSE size

(* The size in megabytes for a graphics mode select; the encodings the     *)
(* code does not know leave the member at its initial 0.                   *)
StolenMegabytes(g) ==
  LET size == IF g < 16 \/ g \in {32, 48, 64} THEN g * 32
              ELSE IF g \in 240..254 THEN ((g % 16) + 1) * 4
              ELSE 0
  IN  IF size < 128 THEN 128 ELSE size

(* The bring-up policy.  The CPU model is read and logged only.            *)
SetPolicy ==
  /\ stage = "policy"
  /\ policy' = {"isRealTGL", "tryGuC"}
                 \cup (IF "-NGreenNoExternal" \in args THEN {"gateExternalDisplays"} ELSE {})
  /\ stolen' = TimesMiB(StolenMegabytes(gms))
  /\ props' = IF seed THEN [props EXCEPT !["framebuffer-unifiedmem"] = "ours"] ELSE props
  /\ Goto("publish")
  /\ UNCHANGED <<env, visible, seed, iGPU, hooked, server, late>>

-----------------------------------------------------------------------------
(* Stages 4 and 5 *)

\* Mutant: the personality is published as soon as there is a device.
MutPublishEarly ==
  /\ published' = TRUE
  /\ \/ stage = "policy" /\ ~published /\ UNCHANGED stage
     \/ stage = "publish" /\ Goto("pll")
  /\ UNCHANGED <<env, visible, props, seed, iGPU, policy, stolen, hooked, server, rmmio, pll, routed>>

(* publishTglFramebufferPersonality: from here on the framebuffer driver   *)
(* may match and start.  The constant properties of the accelerator that   *)
(* are set next are left out.                                              *)
PublishPersonality ==
  /\ stage = "publish"
  /\ published' = TRUE
  /\ Goto("pll")
  /\ UNCHANGED <<env, visible, props, seed, iGPU, policy, stolen, hooked, server, rmmio, pll, routed>>

(* The optional PLL programming: mapping the registers may fail, which     *)
(* setRMMIOIfNecessary dereferences; the poll is bounded and a lock that   *)
(* never comes is ignored.                                                 *)
LegacyPll ==
  /\ stage = "pll"
  /\ \/ /\ "-ngreenlegacypll" \notin args
        /\ Goto("route16") /\ UNCHANGED <<rmmio, pll>>
     \/ /\ "-ngreenlegacypll" \in args
        /\ \/ Goto("panic") /\ UNCHANGED <<rmmio, pll>>
           \/ Goto("route16") /\ rmmio' = TRUE /\ pll' \in {"locked", "unlocked"}
  /\ UNCHANGED <<env, visible, props, seed, iGPU, policy, stolen, hooked, server, published, routed>>

(* The two configuration reads are routed one after the other, while the   *)
(* driver may be reading.                                                  *)
RouteConfigRead(from, width, to) ==
  /\ stage = from
  /\ routed' = routed \cup {width}
  /\ Goto(to)
  /\ UNCHANGED <<env, visible, props, seed, iGPU, policy, stolen, hooked, server, published, rmmio, pll>>

-----------------------------------------------------------------------------
(* The rest of the machine *)

(* WindowServer comes up while DeviceInfo waits, or later; what it maps    *)
(* from the shared cache is patched only when the hook is in place.        *)
WindowServerStarts ==
  /\ server = "down"
  /\ stage \notin {"hook", "decide", "early", "panic"}
  /\ server' = IF hooked = "yes" THEN "patched" ELSE "unpatched"
  /\ UNCHANGED <<env, stage, visible, props, seed, iGPU, policy, stolen, hooked, late>>

(* configRead16 at the device id: the property replaces the register.      *)
configRead16 == props["device-id"]

(* configRead32: the property goes into the high half, which is where the  *)
(* device id is for the aligned read; an unaligned read at the device id   *)
(* has it in the low half, which stays as it is.                           *)
configRead32(offset) == IF offset = "VendorID" THEN props["device-id"] ELSE Phys

(* The device id that the framebuffer driver finds in a configuration read *)
(* at this moment.                                                         *)
DeviceIdRead(kind) ==
  CASE kind = "16@DeviceID" /\ 16 \in routed -> configRead16
    [] kind = "32@VendorID" /\ 32 \in routed -> configRead32("VendorID")
    [] kind = "32@DeviceID" /\ 32 \in routed -> configRead32("DeviceID")
    [] OTHER -> Phys

processPatcher ==
  \/ HookCsValidatePage \/ DecideSeeding \/ SeedEarly \/ CreateDeviceInfo
  \/ IdentifyDevice \/ SetPolicy \/ PublishPersonality \/ LegacyPll
  \/ RouteConfigRead("route16", 16, "route32")
  \/ RouteConfigRead("route32", 32, "done")

Next ==
  \/ processPatcher
  \/ EntryAppears
  \/ WindowServerStarts

Spec == Init /\ [][Next]_vars

-----------------------------------------------------------------------------
(* Properties *)

(* NGreen.cpp:294-297: WindowServer never comes up with CoreDisplay        *)
(* unpatched because it was earlier than the hook, however long the device *)
(* takes and even when it is never found.  What remains is -nbdyldoff and  *)
(* a route that failed: DYLDPatches.cpp:53-54 only logs that, and user     *)
(* space then comes up unpatched.                                          *)
NeverUnpatched == server = "unpatched" => "-nbdyldoff" \in args \/ hooked = "failed"

(* NGreen.cpp:179: whatever platform id and device id the user injected    *)
(* survive both seedings, and once the device has been identified neither  *)
(* is missing, whether or not the entry was visible to the early pass.     *)
(* The second half is the code's, against src/README.md:17, 85 and 94,     *)
(* which say that the seeding is opt-in and disabled by default: the late  *)
(* pass depends on no boot argument.                                       *)
IdentityKept ==
  \A p \in {"AAPL,ig-platform-id", "device-id"} :
      /\ user[p] # "absent" => props[p] = user[p]
      /\ iGPU => props[p] # "absent"

(* What the driver may rest on from the moment it can match                *)
(* (NGreen.cpp:430): the registry properties, the bring-up policy and the  *)
(* stolen size are final, and the device id that a kind of read returns    *)
(* changes at most once, from the physical to the injected one.  That it   *)
(* does change under a running driver, that the two widths change one      *)
(* after the other, and that an unaligned read keeps the physical id       *)
(* (NGreen.cpp:612) is how the code is.                                    *)
PublishedIsFinal ==
  [][published =>
        /\ UNCHANGED <<props, policy, stolen>>
        /\ \A kind \in Reads :
              DeviceIdRead(kind) # Phys => DeviceIdRead(kind)' = DeviceIdRead(kind)]_vars

(* stolen_size is at least 128 MB and its 32-bit product never wraps, for  *)
(* every graphics mode select the firmware can report.                     *)
StolenNeverWraps ==
  stage \in {"publish", "pll", "route16", "route32", "done"} =>
      stolen >= 128 /\ stolen = StolenMegabytes(gms)
=============================================================================
