--------------------------- MODULE IgpuBootProofs ---------------------------
(***************************************************************************)
(* The invariants of IgpuBoot for every set of boot arguments, graphics    *)
(* mode select and kind of configuration read.  Each follows from where    *)
(* processPatcher is: the hook is tried before the first stage is over,    *)
(* the registry properties change only before the driver can match, and    *)
(* both seedings leave what is there alone.                                *)
(***************************************************************************)
EXTENDS IgpuBoot, TLAPS

Stages == {"hook", "decide", "early", "device", "failed", "switchoff", "panic", "policy",
           "publish", "pll", "route16", "route32", "done"}
Byte == 0 .. 255
Megabytes == 128 .. 2048
Values == {"absent", "user", "0x8A5C0002", "ours"}

\* How far processPatcher is, and what it has set by then.
Typed ==
  /\ stage \in Stages
  /\ gms \in Byte
  /\ user \in [Props -> Values] /\ props \in [Props -> Values]
  /\ hooked \in {"no", "yes", "failed"} /\ visible \in BOOLEAN /\ seed \in BOOLEAN
  /\ iGPU \in BOOLEAN /\ published \in BOOLEAN

\* The hook has been tried by the end of the first stage.
HookSettled ==
  /\ stage # "hook" => (hooked = "no" => "-nbdyldoff" \in args)
  /\ stage = "hook" => server = "down"
  /\ NeverUnpatched

\* The personality is published after the last change of what a driver reads.
PublishedLate == published => stage \in {"pll", "route16", "route32", "done", "panic"}

IInv == Typed /\ HookSettled /\ IdentityKept /\ PublishedLate /\ StolenNeverWraps

\* The size of the stolen memory is between 128 MB and 2 GB whatever byte the
\* firmware left (NGreen.cpp:410-428), so its 32-bit product in bytes fits.
LEMMA StolenBounded ==
  ASSUME NEW g \in Byte
  PROVE  /\ StolenMegabytes(g) \in Megabytes
         /\ TimesMiB(StolenMegabytes(g)) = StolenMegabytes(g)
<1>1. StolenMegabytes(g) \in Megabytes
  <2>1. CASE g < 16 \/ g \in {32, 48, 64}
    BY <2>1, SMT DEF StolenMegabytes, Byte, Megabytes
  <2>2. CASE ~(g < 16 \/ g \in {32, 48, 64}) /\ g \in 240 .. 254
    BY <2>2, SMT DEF StolenMegabytes, Byte, Megabytes
  <2>3. CASE ~(g < 16 \/ g \in {32, 48, 64}) /\ g \notin 240 .. 254
    BY <2>3, SMT DEF StolenMegabytes, Byte, Megabytes
  <2>4. QED
    BY <2>1, <2>2, <2>3
<1>2. \A n \in Megabytes : TimesMiB(n) = n
  BY SMT DEF TimesMiB, Megabytes
<1>3. QED
  BY <1>1, <1>2

\* Seeding fills what is missing and touches nothing else
\* (seedIGPUPropertiesOnEntry).
LEMMA SeedingKeeps ==
  ASSUME NEW ps \in [Props -> Values]
  PROVE  /\ Seeded(ps) \in [Props -> Values]
         /\ \A p \in Props : /\ ps[p] # "absent" => Seeded(ps)[p] = ps[p]
                             /\ Seeded(ps)[p] # "absent"
BY DEF Seeded, Values

\* The initial states satisfy the invariant.
LEMMA InitInv == Init => IInv
<1> SUFFICES ASSUME Init PROVE IInv
  OBVIOUS
<1>1. user \in [Props -> Values]
  BY DEF Init, Values
<1>2. Typed
  BY <1>1, GmsAssumption DEF Init, Typed, Stages, Byte
<1>3. IdentityKept
  BY DEF Init, IdentityKept
<1>4. QED
  BY <1>2, <1>3 DEF Init, IInv, HookSettled, NeverUnpatched, PublishedLate, StolenNeverWraps

\* Steps that leave alone what the driver has seen and the size of the stolen
\* memory need only be looked at for the properties and the hook.
LEMMA StepInv == IInv /\ [Next]_vars => IInv'
<1> SUFFICES ASSUME IInv, [Next]_vars PROVE IInv'
  OBVIOUS
<1> USE DEF IInv, Typed, HookSettled, NeverUnpatched, PublishedLate, env, late, Goto
<1>p. {"AAPL,ig-platform-id", "device-id"} \subseteq Props
  BY DEF Props
<1>1. CASE HookCsValidatePage
  BY <1>1, ZenonT(30) DEF HookCsValidatePage, Stages, IdentityKept, StolenNeverWraps
<1>2. CASE DecideSeeding
  BY <1>2 DEF DecideSeeding, Stages, IdentityKept, StolenNeverWraps
<1>3. CASE SeedEarly
  <2>1. props' \in [Props -> Values]
    BY <1>3, SeedingKeeps DEF SeedEarly
  <2>2. IdentityKept'
    BY <1>3, <1>p, SeedingKeeps DEF SeedEarly, IdentityKept
  <2>3. QED
    BY <1>3, <2>1, <2>2 DEF SeedEarly, Stages, StolenNeverWraps
<1>4. CASE CreateDeviceInfo
  BY <1>4, ZenonT(30) DEF CreateDeviceInfo, Stages, IdentityKept, StolenNeverWraps
<1>5. CASE IdentifyDevice
  <2>1. CASE Goto("panic") /\ UNCHANGED <<iGPU, props>>
    BY <1>5, <2>1, ZenonT(30) DEF IdentifyDevice, Stages, IdentityKept, StolenNeverWraps
  <2>2. CASE Goto("policy") /\ iGPU' = TRUE /\ props' = Overwritten(Seeded(props))
    <3>1. /\ props' \in [Props -> Values]
          /\ \A p \in {"AAPL,ig-platform-id", "device-id"} : props'[p] = Seeded(props)[p]
      BY <2>2, <1>p, SeedingKeeps DEF Overwritten, Values
    <3>2. IdentityKept'
      BY <1>5, <2>2, <3>1, <1>p, SeedingKeeps DEF IdentifyDevice, IdentityKept
    <3>3. QED
      BY <1>5, <2>2, <3>1, <3>2 DEF IdentifyDevice, Stages, StolenNeverWraps
  <2>3. QED
    BY <1>5, <2>1, <2>2, Zenon DEF IdentifyDevice
<1>6. CASE SetPolicy
  <2>1. /\ props' \in [Props -> Values]
        /\ \A p \in {"AAPL,ig-platform-id", "device-id"} : props'[p] = props[p]
    BY <1>6, <1>p DEF SetPolicy, Values
  <2>2. IdentityKept'
    BY <1>6, <2>1 DEF SetPolicy, IdentityKept
  <2>3. stolen' >= 128 /\ stolen' = StolenMegabytes(gms)
    <3>0. gms \in Byte
      OBVIOUS
    <3>1. /\ StolenMegabytes(gms) \in Megabytes
          /\ TimesMiB(StolenMegabytes(gms)) = StolenMegabytes(gms)
      BY <3>0, StolenBounded, Zenon
    <3>2. stolen' = TimesMiB(StolenMegabytes(gms))
      BY <1>6 DEF SetPolicy
    <3>3. QED
      BY <3>1, <3>2, SMT DEF Megabytes
  <2>4. QED
    BY <1>6, <2>1, <2>2, <2>3 DEF SetPolicy, Stages, StolenNeverWraps
<1>7. CASE PublishPersonality
  BY <1>7, ZenonT(30) DEF PublishPersonality, Stages, IdentityKept, StolenNeverWraps
<1>8. CASE LegacyPll
  BY <1>8, ZenonT(30) DEF LegacyPll, Stages, IdentityKept, StolenNeverWraps
<1>9. CASE RouteConfigRead("route16", 16, "route32") \/ RouteConfigRead("route32", 32, "done")
  <2>1. stage \in {"route16", "route32"} /\ stage' \in {"route32", "done"}
    BY <1>9 DEF RouteConfigRead
  <2>2. UNCHANGED <<env, visible, props, seed, iGPU, stolen, hooked, server, published>>
    BY <1>9 DEF RouteConfigRead
  <2>3. Typed' /\ PublishedLate'
    BY <2>1, <2>2 DEF Stages
  <2>4. HookSettled' /\ IdentityKept'
    BY <2>1, <2>2 DEF IdentityKept
  <2>5. StolenNeverWraps'
    BY <2>1, <2>2 DEF StolenNeverWraps
  <2>6. QED
    BY <2>3, <2>4, <2>5
<1>10. CASE EntryAppears
  <2>1. Typed' /\ PublishedLate'
    BY <1>10 DEF EntryAppears
  <2>2. HookSettled'
    BY <1>10 DEF EntryAppears
  <2>3. IdentityKept'
    BY <1>10 DEF EntryAppears, IdentityKept
  <2>4. StolenNeverWraps'
    BY <1>10 DEF EntryAppears, StolenNeverWraps
  <2>5. QED
    BY <2>1, <2>2, <2>3, <2>4
<1>11. CASE WindowServerStarts
  <2>1. Typed' /\ PublishedLate'
    BY <1>11 DEF WindowServerStarts
  <2>2. HookSettled'
    BY <1>11 DEF WindowServerStarts
  <2>3. IdentityKept'
    BY <1>11 DEF WindowServerStarts, IdentityKept
  <2>4. StolenNeverWraps'
    BY <1>11 DEF WindowServerStarts, StolenNeverWraps
  <2>5. QED
    BY <2>1, <2>2, <2>3, <2>4
<1>12. CASE UNCHANGED vars
  <2>1. Typed' /\ PublishedLate'
    BY <1>12 DEF vars
  <2>2. HookSettled'
    BY <1>12 DEF vars
  <2>3. IdentityKept'
    BY <1>12 DEF vars, IdentityKept
  <2>4. StolenNeverWraps'
    BY <1>12 DEF vars, StolenNeverWraps
  <2>5. QED
    BY <2>1, <2>2, <2>3, <2>4
<1>13. QED
  BY <1>1, <1>2, <1>3, <1>4, <1>5, <1>6, <1>7, <1>8, <1>9, <1>10, <1>11, <1>12
     DEF Next, processPatcher

\* The invariant of processPatcher and of what runs beside it.
THEOREM BootInvariant == Spec => []IInv
<1>1. Init => IInv
  BY InitInv
<1>2. IInv /\ [Next]_vars => IInv'
  BY StepInv
<1>3. QED
  BY <1>1, <1>2, PTL DEF Spec

\* WindowServer is never earlier than the hook, whenever it starts and whatever
\* becomes of the device (NGreen.cpp:294-297): it is unpatched only with
\* -nbdyldoff or after a route that failed.
THEOREM UserSpacePatched == Spec => []NeverUnpatched
<1>1. IInv => NeverUnpatched
  BY DEF IInv, HookSettled
<1>2. QED
  BY <1>1, BootInvariant, PTL

\* Injected ids survive both seedings, and after them none is missing
\* (NGreen.cpp:179).
THEOREM IdentitySurvives == Spec => []IdentityKept
<1>1. IInv => IdentityKept
  BY DEF IInv
<1>2. QED
  BY <1>1, BootInvariant, PTL

\* Nothing the driver reads changes once it can match, and a configuration read
\* that returns the injected id keeps doing so (NGreen.cpp:430-488).
THEOREM SettledWhenPublished == Spec => PublishedIsFinal
<1> DEFINE Settled ==
      published =>
        /\ UNCHANGED <<props, policy, stolen>>
        /\ \A kind \in Reads :
              DeviceIdRead(kind) # Phys => DeviceIdRead(kind)' = DeviceIdRead(kind)
<1>1. IInv /\ [Next]_vars => [Settled]_vars
  <2> SUFFICES ASSUME IInv, [Next]_vars, published PROVE Settled
    OBVIOUS
  <2>1. stage \in {"pll", "route16", "route32", "done", "panic"}
    BY DEF IInv, PublishedLate
  <2>2. UNCHANGED <<props, policy, stolen>> /\ routed \subseteq routed'
    <3>1. CASE LegacyPll
      BY <3>1, Zenon DEF LegacyPll
    <3>2. CASE RouteConfigRead("route16", 16, "route32") \/ RouteConfigRead("route32", 32, "done")
      BY <3>2, Zenon DEF RouteConfigRead
    <3>3. CASE EntryAppears \/ WindowServerStarts
      BY <3>3 DEF EntryAppears, WindowServerStarts, late
    <3>4. CASE UNCHANGED vars
      BY <3>4 DEF vars
    <3>5. CASE HookCsValidatePage \/ DecideSeeding \/ SeedEarly \/ CreateDeviceInfo
               \/ IdentifyDevice \/ SetPolicy \/ PublishPersonality
      BY <2>1, <3>5 DEF HookCsValidatePage, DecideSeeding, SeedEarly, CreateDeviceInfo,
                        IdentifyDevice, SetPolicy, PublishPersonality
    <3> QED
      BY <3>1, <3>2, <3>3, <3>4, <3>5 DEF Next, processPatcher
  <2>3. ASSUME NEW kind \in Reads, DeviceIdRead(kind) # Phys
        PROVE  DeviceIdRead(kind)' = DeviceIdRead(kind)
    <3>1. kind \in AllReads
      BY ReadsAssumption
    <3>2. CASE kind = "16@DeviceID"
      BY <2>2, <2>3, <3>2 DEF DeviceIdRead, configRead16
    <3>3. CASE kind = "32@VendorID"
      BY <2>2, <2>3, <3>3 DEF DeviceIdRead, configRead32
    <3>4. CASE kind = "32@DeviceID"
      BY <2>2, <2>3, <3>4 DEF DeviceIdRead, configRead32
    <3> QED
      BY <3>1, <3>2, <3>3, <3>4 DEF AllReads
  <2> QED
    BY <2>2, <2>3
<1>2. QED
  BY <1>1, BootInvariant, PTL DEF Spec, PublishedIsFinal

\* The stolen size never wraps, for each of the 256 values of the byte.
THEOREM StolenSizeFits == Spec => []StolenNeverWraps
<1>1. IInv => StolenNeverWraps
  BY DEF IInv
<1>2. QED
  BY <1>1, BootInvariant, PTL
=============================================================================
