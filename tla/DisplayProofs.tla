---------------------------- MODULE DisplayProofs ----------------------------
(***************************************************************************)
(* Proofs about the three display components: DisplayBringup, for any      *)
(* number of framebuffers; DisplayLink, for any number of ports, any sinks *)
(* and any override; and DisplayMergeNub, for any dictionaries.            *)
(***************************************************************************)
EXTENDS DisplayBringup, DisplayLink, DisplayMergeNub, FiniteSetTheorems, TLAPS

-----------------------------------------------------------------------------
(* The controller and its framebuffers.                                    *)

(***************************************************************************)
(* What the clock hook relies on: no clock above the threshold is anything *)
(* but one of the two that Apple's probe accepts.                          *)
(***************************************************************************)
KnownClocks == \A field \in Cdclks : field < CD648 \/ field \in {CD648, CD652}

\* The CD clock is one that firmware left or that the hook set.
ClockKnown == cdclk \in Cdclks \cup {CD648, CD652}

\* The images written are the one ngreen-dmc names, or Apple's without it, and
\* the original finds the member cleared where the plugin writes its own.
ImageWritten ==
  /\ images \subseteq {IF Replaces THEN dmcArg ELSE "apple"}
  /\ ctrl = "original" /\ Replaces => ~csr

-----------------------------------------------------------------------------
(***************************************************************************)
(* The three PLL frequencies of sanitizeCDClockFrequency give one of the   *)
(* two clocks Apple's probe accepts.                                       *)
(***************************************************************************)
LEMMA SanitisedClock ==
  ASSUME ref \in 0 .. 2, NEW field
  PROVE  sanitizeCDClockFrequency(field) \in {CD648, CD652}
  <1>1. FieldOf(24000 * 54) = CD648 /\ 24000 * 54 # 0
    BY SMT DEF FieldOf, CD648
  <1>2. FieldOf(19200 * 68) = CD652 /\ 19200 * 68 # 0
    BY SMT DEF FieldOf, CD652
  <1>3. FieldOf(38400 * 34) = CD652 /\ 38400 * 34 # 0
    BY SMT DEF FieldOf, CD652
  <1>4. ref = 0 \/ ref = 1 \/ ref = 2
    OBVIOUS
  <1> QED
    BY <1>1, <1>2, <1>3, <1>4, SMT DEF sanitizeCDClockFrequency, PLLFrequency

\* The type invariant is inductive.
LEMMA TypeStep == TypeOK /\ [Next]_vars => TypeOK'
  <1> SUFFICES ASSUME TypeOK, [Next]_vars PROVE TypeOK'
    OBVIOUS
  <1>1. CASE UNCHANGED vars
    BY <1>1 DEF TypeOK, vars, boot, clock, cstate, heads
  <1>2. CASE AcceleratorLoads
    BY <1>2 DEF TypeOK, AcceleratorLoads, boot, clock, cstate, heads
  <1>3. CASE AppleIntelBaseControllerstart
    BY <1>3 DEF TypeOK, AppleIntelBaseControllerstart, boot, clock, cstate, heads
  <1>4. CASE wrapProbeCDClockFrequency
    <2>1. sanitizeCDClockFrequency(cdclk) \in Nat
      <3>1. CASE ref \in 0 .. 2
        BY <3>1, SanitisedClock, SMT DEF CD648, CD652
      <3>2. CASE ref \notin 0 .. 2
        <4>1. PLLFrequency(ref) = 0
          BY <3>2, SMT DEF PLLFrequency
        <4> QED
          BY <4>1, SMT DEF sanitizeCDClockFrequency, TypeOK
      <3> QED
        BY <3>1, <3>2
    <2>2. cdclk' \in Nat
      BY <1>4, <2>1 DEF wrapProbeCDClockFrequency, TypeOK
    <2> QED
      BY <1>4, <2>2 DEF TypeOK, wrapProbeCDClockFrequency, boot, cstate, heads
  <1>5. CASE hwInitializeCState
    BY <1>5, ZenonT(30) DEF TypeOK, hwInitializeCState, SuppressCsrLoad, OriginalCState, WriteDmc,
                  Replaces, boot, clock, cstate, heads
  <1>6. CASE InjectPersonality
    BY <1>6 DEF TypeOK, InjectPersonality, boot, clock, cstate, heads
  <1>7. CASE Resumed
    BY <1>7 DEF TypeOK, Resumed, boot, clock, cstate, heads
  <1>8. CASE Wake
    BY <1>8, ClockAssumption DEF TypeOK, Wake, boot, cstate, heads
  <1>9. ASSUME NEW f \in Framebuffers, Framebuffer(f) PROVE TypeOK'
    <2>1. CASE DriverDetects(f)
      BY <2>1 DEF TypeOK, DriverDetects, setFramebufferGateState, boot, clock, cstate
    <2>2. CASE getOnlineInfo(f)
      BY <2>2 DEF TypeOK, getOnlineInfo, setFramebufferGateState, boot, clock, cstate
    <2>3. CASE enableOrSetDisplayMode(f)
      BY <2>3 DEF TypeOK, enableOrSetDisplayMode, setFramebufferGateState, boot, clock, cstate
    <2>4. CASE connectionChanged(f)
      BY <2>4 DEF TypeOK, connectionChanged, setFramebufferGateState, boot, clock, cstate
    <2> QED
      BY <1>9, <2>1, <2>2, <2>3, <2>4 DEF Framebuffer
  <1> QED
    BY <1>1, <1>2, <1>3, <1>4, <1>5, <1>6, <1>7, <1>8, <1>9 DEF Next, Controller

(***************************************************************************)
(* Type correctness of the controller and its framebuffers.                *)
(***************************************************************************)
THEOREM DisplayTyped == Spec => []TypeOK
  <1>1. Init => TypeOK
    <2> SUFFICES ASSUME Init PROVE TypeOK
      OBVIOUS
    <2>1. Unanswered \in [online : BOOLEAN, changed : BOOLEAN]
      BY DEF Unanswered
    <2>2. answer \in [Framebuffers -> [online : BOOLEAN, changed : BOOLEAN]]
      BY <2>1, Zenon DEF Init
    <2>3. ref \in 0 .. 7 /\ cdclk \in Nat /\ dmcArg \in {"skip", "tgl", "adlp"}
      BY ClockAssumption, DmcAssumption DEF Init
    <2> QED
      BY <2>2, <2>3, Zenon DEF Init, TypeOK
  <1> QED
    BY <1>1, TypeStep, PTL DEF Spec

-----------------------------------------------------------------------------
(***************************************************************************)
(* While the gate is closed no external framebuffer comes up, however many *)
(* there are and whatever hot-plug writes to their connected member.       *)
(***************************************************************************)
THEOREM ExternalsStayDark == Spec => []GatedStayDark
  <1>1. Init => GatedStayDark
    BY DEF Init, GatedStayDark, Unanswered
  <1>2. TypeOK /\ GatedStayDark /\ [Next]_vars => GatedStayDark'
    <2> SUFFICES ASSUME TypeOK, GatedStayDark, [Next]_vars PROVE GatedStayDark'
      OBVIOUS
    <2>1. ASSUME UNCHANGED <<gate, answer, driven>> PROVE GatedStayDark'
      BY <2>1 DEF GatedStayDark
    <2>2. ASSUME NEW f \in Framebuffers, getOnlineInfo(f) PROVE GatedStayDark'
      BY <2>2 DEF GatedStayDark, getOnlineInfo, Gated, shouldGateExternalDisplayBringup,
                  isBuiltInFramebufferObject, TypeOK, boot
    <2>3. ASSUME NEW f \in Framebuffers, enableOrSetDisplayMode(f) PROVE GatedStayDark'
      BY <2>3, Zenon DEF GatedStayDark, enableOrSetDisplayMode, Gated,
         shouldGateExternalDisplayBringup, isBuiltInFramebufferObject, boot
    <2>4. CASE UNCHANGED vars
      BY <2>1, <2>4 DEF vars, boot, heads
    <2>5. CASE AcceleratorLoads \/ Controller
      BY <2>1, <2>5, Zenon DEF AcceleratorLoads, Controller, AppleIntelBaseControllerstart,
           wrapProbeCDClockFrequency, hwInitializeCState, SuppressCsrLoad, OriginalCState,
           WriteDmc, InjectPersonality, Resumed, Wake, boot, heads
    <2>6. ASSUME NEW f \in Framebuffers, Framebuffer(f) PROVE GatedStayDark'
      BY <2>1, <2>2, <2>3, <2>6, Zenon DEF Framebuffer, DriverDetects, connectionChanged, boot
    <2> QED
      BY <2>4, <2>5, <2>6 DEF Next
  <1> QED
    BY <1>1, <1>2, DisplayTyped, PTL DEF Spec

-----------------------------------------------------------------------------
(***************************************************************************)
(* With the CD clocks the source knows, Apple's probe panics, at start or  *)
(* at any wake, only under a reference code the source does not know.      *)
(***************************************************************************)
THEOREM ClockProbeSafe ==
  ASSUME KnownClocks
  PROVE  Spec => []PanicNeedsUnknownRef
  <1> DEFINE I == ClockKnown /\ PanicNeedsUnknownRef
  <1>1. Init => I
    BY DEF Init, ClockKnown, PanicNeedsUnknownRef
  <1>2. TypeOK /\ I /\ [Next]_vars => I'
    <2> SUFFICES ASSUME TypeOK, I, [Next]_vars PROVE I'
      OBVIOUS
    <2>0. ref' = ref => PLLFrequency(ref)' = PLLFrequency(ref)
      BY DEF PLLFrequency
    <2>1. CASE wrapProbeCDClockFrequency
      <3>0. ref' = ref
        BY <2>1, Zenon DEF wrapProbeCDClockFrequency
      <3>1. CASE ref \in 0 .. 2
        <4>1. cdclk' \in {CD648, CD652}
          BY <2>1, <3>1, SanitisedClock
             DEF wrapProbeCDClockFrequency, KnownClocks, ClockKnown, CD648, CD652
        <4> QED
          BY <2>1, <4>1 DEF wrapProbeCDClockFrequency, Panics, ClockKnown, PanicNeedsUnknownRef
      <3>2. CASE ref \notin 0 .. 2
        <4>1. PLLFrequency(ref) = 0
          BY <3>2, SMT DEF PLLFrequency
        <4>2. cdclk' = cdclk
          BY <2>1, <4>1, Zenon DEF wrapProbeCDClockFrequency, sanitizeCDClockFrequency
        <4> QED
          BY <2>0, <3>0, <4>1, <4>2, Zenon DEF ClockKnown, PanicNeedsUnknownRef
      <3> QED
        BY <3>1, <3>2
    <2>2. CASE Wake
      BY <2>2 DEF Wake, ClockKnown, PanicNeedsUnknownRef
    <2>3. CASE UNCHANGED vars
      BY <2>0, <2>3, Zenon DEF vars, clock, ClockKnown, PanicNeedsUnknownRef
    <2>4. ASSUME NEW f \in Framebuffers, Framebuffer(f) PROVE I'
      BY <2>0, <2>4, Zenon DEF Framebuffer, DriverDetects, getOnlineInfo,
           enableOrSetDisplayMode, connectionChanged, clock, ClockKnown, PanicNeedsUnknownRef
    <2>5. CASE AcceleratorLoads
      BY <2>0, <2>5, Zenon DEF AcceleratorLoads, clock, ClockKnown, PanicNeedsUnknownRef
    <2>6. CASE \/ AppleIntelBaseControllerstart \/ hwInitializeCState
               \/ InjectPersonality \/ Resumed
      <3>1. ctrl' # "panic" /\ cdclk' = cdclk
        BY <2>6, Zenon DEF AppleIntelBaseControllerstart, hwInitializeCState, SuppressCsrLoad,
             OriginalCState, WriteDmc, InjectPersonality, Resumed, clock
      <3> QED
        BY <3>1 DEF ClockKnown, PanicNeedsUnknownRef
    <2> QED
      BY <2>1, <2>2, <2>3, <2>4, <2>5, <2>6 DEF Next, Controller
  <1>3. I => PanicNeedsUnknownRef
    OBVIOUS
  <1> QED
    BY <1>1, <1>2, <1>3, DisplayTyped, PTL DEF Spec

(***************************************************************************)
(* Over all calls of hwInitializeCState, however many wakes there are, at  *)
(* most one firmware image is ever written: each call finds the member     *)
(* 0xB48 as the call before it left it, and clears it for its original.    *)
(***************************************************************************)
THEOREM FirmwareExclusive == Spec => []OneFirmwareImage
  <1>1. Init => ImageWritten
    BY DEF Init, ImageWritten
  <1>2. ImageWritten /\ [Next]_vars => ImageWritten'
    <2> SUFFICES ASSUME ImageWritten, [Next]_vars PROVE ImageWritten'
      OBVIOUS
    <2>1. ASSUME UNCHANGED <<dmcArg, images>>, ctrl' # "original" PROVE ImageWritten'
      BY <2>1 DEF ImageWritten, Replaces
    <2>2. ASSUME UNCHANGED <<dmcArg, images, csr, ctrl>> PROVE ImageWritten'
      BY <2>2 DEF ImageWritten, Replaces
    <2>3. CASE SuppressCsrLoad
      BY <2>3 DEF SuppressCsrLoad, ImageWritten, Replaces, boot
    <2>4. CASE OriginalCState
      BY <2>4 DEF OriginalCState, ImageWritten, Replaces, boot
    <2>5. CASE WriteDmc
      BY <2>5 DEF WriteDmc, ImageWritten, Replaces, boot
    <2>6. CASE UNCHANGED vars
      BY <2>2, <2>6, Zenon DEF vars, boot, cstate
    <2>7. CASE AcceleratorLoads
      BY <2>2, <2>7, Zenon DEF AcceleratorLoads, boot, cstate
    <2>8. ASSUME NEW f \in Framebuffers, Framebuffer(f) PROVE ImageWritten'
      BY <2>2, <2>8, Zenon DEF Framebuffer, DriverDetects, getOnlineInfo,
           enableOrSetDisplayMode, connectionChanged, boot, cstate
    <2>9. CASE \/ AppleIntelBaseControllerstart \/ Wake
               \/ wrapProbeCDClockFrequency \/ InjectPersonality \/ Resumed
      <3>1. UNCHANGED <<boot, cstate>> /\ ctrl' # "original"
        BY <2>9 DEF AppleIntelBaseControllerstart, Wake, wrapProbeCDClockFrequency,
             InjectPersonality, Resumed
      <3> QED
        BY <2>1, <3>1 DEF boot, cstate
    <2> QED
      BY <2>3, <2>4, <2>5, <2>6, <2>7, <2>8, <2>9 DEF Next, Controller, hwInitializeCState
  <1>3. ImageWritten => OneFirmwareImage
    <2> SUFFICES ASSUME NEW i, images \subseteq {i} PROVE Cardinality(images) <= 1
      BY DEF ImageWritten, OneFirmwareImage
    <2>1. IsFiniteSet({i}) /\ Cardinality({i}) = 1
      BY FS_Singleton, Zenon
    <2>2. Cardinality(images) \in Nat /\ Cardinality(images) <= Cardinality({i})
      BY <2>1, FS_Subset, FS_CardinalityType
    <2> QED
      BY <2>1, <2>2
  <1> QED
    BY <1>1, <1>2, <1>3, PTL DEF Spec

-----------------------------------------------------------------------------
(* The DisplayPort link.                                                   *)

\* The cache is that of the port that filled it last, whose driver side knows
\* the same sink.
CacheOwned ==
  owner \in Ports =>
    /\ dpcd.valid
    /\ dpcd.lanes = sink[owner].lanes
    /\ caps[owner].lanes = ShownLanes(sink[owner].lanes)

\* A port that was never answered from another's cache has its own sink's count.
CountsOwn ==
  \A p \in Ports : Spoofed /\ p \notin foreign /\ lanes[p] # NoCount =>
    /\ lanes[p].count = ShownLanes(sink[p].lanes)
    /\ caps[p].lanes = ShownLanes(sink[p].lanes)

\* Training takes at most the count that was computed.
LinkComputed ==
  \A p \in Ports : Spoofed /\ p \notin foreign /\ link[p] # NoLink =>
    lanes[p] # NoCount /\ link[p].lanes <= lanes[p].count

\* On a spoofed platform no rate shown or trained is above HBR2.
RatesCapped ==
  ~isRealTGL => \A p \in Ports : caps[p].rate <= HBR2 /\ link[p].rate <= HBR2

LinkInv ==
  /\ LinkTypeOK
  /\ CacheOwned
  /\ CountsOwn
  /\ LinkComputed
  /\ RatesCapped
  /\ ReadsBackItsLink

-----------------------------------------------------------------------------
(***************************************************************************)
(* Without an override and with a valid cache, computeLaneCount gives the  *)
(* count that wrapICLReadAUX shows, and with or without it a lane count.   *)
(***************************************************************************)
LEMMA SanitisersAgree ==
  /\ Spoofed /\ dpcd.valid => SpoofedLanes = ShownLanes(dpcd.lanes)
  /\ SpoofedLanes \in LaneCounts
  BY DEF Spoofed, SpoofedLanes, ShownLanes, sanitizeDpcdLaneCount,
         getConfiguredLaneCountOverride, LaneCounts

\* The initial state satisfies the invariant.
LEMMA InitLinkInv == LinkInit => LinkInv
  <1> SUFFICES ASSUME LinkInit PROVE LinkInv
    OBVIOUS
  <1>1. LinkTypeOK
    BY SinksAssumption, ArgumentAssumption
       DEF LinkInit, LinkTypeOK, NoLink, NoCount, Link, LaneCounts
  <1>2. CacheOwned /\ CountsOwn
    BY PortsAssumption DEF LinkInit, CacheOwned, CountsOwn
  <1>3. RatesCapped
    BY DEF LinkInit, RatesCapped, NoLink, HBR2
  <1>4. LinkComputed /\ ReadsBackItsLink
    BY DEF LinkInit, LinkComputed, ReadsBackItsLink, NoLink
  <1> QED
    BY <1>1, <1>2, <1>3, <1>4 DEF LinkInv

\* What a capability read shows is well formed and capped.
LEMMA ShownValues ==
  ASSUME isRealTGL \in BOOLEAN, NEW s \in Sink, NEW address \in CapsAddresses
  PROVE  /\ ShownLanes(s.lanes) \in 0 .. 31
         /\ ShownRate(s, address) \in 0 .. 255
         /\ ~isRealTGL => ShownRate(s, address) <= HBR2
  <1>1. PICK r \in 0 .. 255 : r = s.rate[address]
    BY DEF Sink
  <1>2. PICK n \in 0 .. 31 : n = s.lanes
    BY DEF Sink
  <1>3. ShownLanes(n) \in 0 .. 31
    BY DEF ShownLanes, LaneCounts
  <1>4. {0, r, Capped(r)} \subseteq 0 .. 255 /\ 0 <= HBR2 /\ Capped(r) <= HBR2
    BY DEF Capped, HBR2
  <1>5. /\ ShownRate(s, address) \in {0, r, Capped(r)}
        /\ ~isRealTGL => ShownRate(s, address) \in {0, Capped(r)}
    BY <1>1, Zenon DEF ShownRate
  <1> QED
    BY <1>2, <1>3, <1>4, <1>5, ZenonT(30)

\* Reading a capability block preserves the invariant: it refills the cache.
LEMMA ReadCapsKeeps ==
  ASSUME LinkInv, NEW p \in Ports, NEW address \in CapsAddresses, ReadCaps(p, address)
  PROVE  LinkInv'
  <1>t. LinkTypeOK BY Zenon DEF LinkInv
  <1>c. CacheOwned BY Zenon DEF LinkInv
  <1>o. CountsOwn BY Zenon DEF LinkInv
  <1>l. LinkComputed BY Zenon DEF LinkInv
  <1>r. RatesCapped BY Zenon DEF LinkInv
  <1>b. ReadsBackItsLink BY Zenon DEF LinkInv
  <1>0. sink[p] \in Sink /\ sink[p].lanes \in 0 .. 31
    BY <1>t DEF LinkTypeOK, Sink
  <1>1. PICK r : r = ShownRate(sink[p], address)
    OBVIOUS
  <1>2. PICK n : n = ShownLanes(sink[p].lanes)
    BY ZenonT(30)
  <1>3. r \in 0 .. 255 /\ n \in 0 .. 31 /\ (~isRealTGL => r <= HBR2)
    BY <1>t, <1>0, <1>1, <1>2, ShownValues DEF LinkTypeOK
  <1>4. caps' = [caps EXCEPT ![p] = [rate |-> r, lanes |-> n]]
    BY <1>1, <1>2 DEF ReadCaps
  <1>5. /\ UNCHANGED <<isRealTGL, lanesArg, sink, lanes, link, config, foreign>>
        /\ dpcd' = [valid |-> TRUE, lanes |-> sink[p].lanes]
        /\ owner' = p
    BY Zenon DEF ReadCaps, args
  <1>6. LinkTypeOK'
    BY <1>t, <1>0, <1>3, <1>4, <1>5, Zenon DEF LinkTypeOK, Link
  <1>7. LinkComputed' /\ ReadsBackItsLink'
    BY <1>l, <1>b, <1>5 DEF LinkComputed, ReadsBackItsLink, Spoofed, getConfiguredLaneCountOverride
  <1>8. RatesCapped'
    BY <1>t, <1>r, <1>3, <1>4, <1>5 DEF RatesCapped, LinkTypeOK
  <1>9. \A m : ShownLanes(m)' = ShownLanes(m)
    BY <1>5 DEF ShownLanes
  <1>10. caps'[p].lanes = n /\ \A q \in Ports : q # p => caps'[q] = caps[q]
    BY <1>t, <1>4 DEF LinkTypeOK
  <1>11. CacheOwned'
    BY <1>c, <1>2, <1>5, <1>9, <1>10 DEF CacheOwned, ShownLanes
  <1>12. CountsOwn'
    BY <1>o, <1>2, <1>5, <1>9, <1>10, Zenon
       DEF CountsOwn, Spoofed, getConfiguredLaneCountOverride, ShownLanes
  <1> QED
    BY <1>6, <1>7, <1>8, <1>11, <1>12, ZenonT(30) DEF LinkInv

\* Reading the link configuration back preserves the invariant: what the hook
\* puts in place of the lane count is the lane count, or one of the exceptions.
LEMMA ReadLinkKeeps ==
  ASSUME LinkInv, NEW p \in Ports, ReadLink(p)
  PROVE  LinkInv'
  <1>t. LinkTypeOK BY Zenon DEF LinkInv
  <1>c. CacheOwned BY Zenon DEF LinkInv
  <1>o. CountsOwn BY Zenon DEF LinkInv
  <1>l. LinkComputed BY Zenon DEF LinkInv
  <1>r. RatesCapped BY Zenon DEF LinkInv
  <1>b. ReadsBackItsLink BY Zenon DEF LinkInv
  <1>0. PICK n : n = IF ~isRealTGL /\ dpcd.valid /\ dpcd.lanes \in LaneCounts
                       THEN dpcd.lanes ELSE link[p].lanes
    BY Zenon
  <1>1. /\ UNCHANGED <<isRealTGL, lanesArg, sink, dpcd, caps, lanes, link, owner>>
        /\ link[p] # NoLink
        /\ foreign' = IF owner = p THEN foreign ELSE foreign \cup {p}
    BY ZenonT(30) DEF ReadLink, Answers, args
  <1>2. /\ link[p] \in Link /\ link[p].rate \in 0 .. 255 /\ link[p].lanes \in 0 .. 31
        /\ dpcd.lanes \in 0 .. 31
    <2>1. link[p] \in Link /\ dpcd \in [valid : BOOLEAN, lanes : 0 .. 31]
      BY <1>t, Zenon DEF LinkTypeOK
    <2> QED
      BY <2>1 DEF Link
  <1>3. n \in 0 .. 31
    BY <1>0, <1>2, Zenon
  <1>4. config' = [config EXCEPT ![p] = [rate |-> link[p].rate, lanes |-> n]]
    <2>1. CASE isRealTGL
      <3>1. link[p] = [rate |-> link[p].rate, lanes |-> link[p].lanes]
        BY <1>2 DEF Link
      <3> QED
        BY <1>0, <2>1, <3>1, ZenonT(30) DEF ReadLink
    <2>2. CASE ~isRealTGL
      <3>1. PICK r \in 0 .. 255 : r = link[p].rate /\ r <= HBR2
        BY <1>r, <1>2, <2>2, Zenon DEF RatesCapped
      <3>2. Capped(r) = r
        BY <3>1 DEF Capped, HBR2
      <3> QED
        BY <1>0, <2>2, <3>1, <3>2, Zenon DEF ReadLink
    <2> QED
      BY <2>1, <2>2
  <1>5. \/ n = link[p].lanes
        \/ /\ ~isRealTGL
           /\ \/ getConfiguredLaneCountOverride # 0
              \/ link[p].lanes < lanes[p].count
              \/ p \in foreign'
    <2>0. ~isRealTGL \/ n = link[p].lanes
      BY <1>0, Zenon
    <2> SUFFICES ASSUME Spoofed, p \notin foreign', n # link[p].lanes
                 PROVE  link[p].lanes < lanes[p].count
      BY <2>0, Zenon DEF Spoofed
    <2>1. owner = p /\ p \notin foreign
      BY <1>1
    <2>2. n = dpcd.lanes /\ dpcd.lanes \in LaneCounts /\ dpcd.lanes = sink[p].lanes
      BY <1>0, <1>c, <2>1, Zenon DEF CacheOwned, Spoofed
    <2>3. /\ lanes[p] # NoCount /\ link[p].lanes <= lanes[p].count
          /\ lanes[p].count = ShownLanes(sink[p].lanes)
      BY <1>o, <1>l, <1>1, <2>1 DEF LinkComputed, CountsOwn
    <2>4. lanes[p].count = n
      BY <2>2, <2>3, Zenon DEF ShownLanes, Spoofed
    <2> QED
      BY <1>2, <1>3, <2>3, <2>4
  <1>6. [rate |-> link[p].rate, lanes |-> n] \in Link
    BY <1>2, <1>3, Zenon DEF Link
  <1>7. LinkTypeOK'
    BY <1>t, <1>1, <1>4, <1>6 DEF LinkTypeOK
  <1>8. CacheOwned' /\ RatesCapped'
    BY <1>c, <1>r, <1>1 DEF CacheOwned, RatesCapped, ShownLanes
  <1>9. CountsOwn' /\ LinkComputed'
    BY <1>o, <1>l, <1>1 DEF CountsOwn, LinkComputed, ShownLanes, Spoofed, getConfiguredLaneCountOverride
  <1>10. ReadsBackItsLink'
    <2>1. \A q \in Ports : q # p => config'[q] = config[q]
      BY <1>t, <1>4 DEF LinkTypeOK
    <2>2. config'[p].rate = link[p].rate /\ config'[p].lanes = n
      BY <1>t, <1>4 DEF LinkTypeOK
    <2>3. \A q \in Ports : q # p => (q \in foreign' <=> q \in foreign)
      BY <1>1
    <2> QED
      BY <1>b, <1>1, <1>5, <2>1, <2>2, <2>3, Zenon
         DEF ReadsBackItsLink, getConfiguredLaneCountOverride
  <1> QED
    BY <1>7, <1>8, <1>9, <1>10, Zenon DEF LinkInv

\* Computing a lane count preserves the invariant, before or after training.
LEMMA ComputeKeeps ==
  ASSUME LinkInv, NEW p \in Ports, computeLaneCount(p)
  PROVE  LinkInv'
  <1>t. LinkTypeOK BY Zenon DEF LinkInv
  <1>c. CacheOwned BY Zenon DEF LinkInv
  <1>o. CountsOwn BY Zenon DEF LinkInv
  <1>l. LinkComputed BY Zenon DEF LinkInv
  <1>r. RatesCapped BY Zenon DEF LinkInv
  <1>b. ReadsBackItsLink BY Zenon DEF LinkInv
  <1>1. /\ UNCHANGED <<isRealTGL, lanesArg, sink, dpcd, caps, link, config, owner>>
        /\ foreign' = IF owner = p THEN foreign ELSE foreign \cup {p}
    BY Zenon DEF computeLaneCount, Answers, args
  <1>2. PICK n \in LaneCounts :
          /\ ~isRealTGL => n = SpoofedLanes
          /\ lanes' = [lanes EXCEPT ![p] = [count |-> n, shown |-> caps[p].lanes]]
    BY SanitisersAgree, Zenon DEF computeLaneCount, OriginalLanes
  <1>3. Spoofed /\ p \notin foreign' =>
          /\ n = ShownLanes(sink[p].lanes)
          /\ caps[p].lanes = ShownLanes(sink[p].lanes)
          /\ p \notin foreign
    BY <1>c, <1>1, <1>2, SanitisersAgree DEF CacheOwned, Spoofed
  <1>4. [count |-> n, shown |-> caps[p].lanes] \in [count : {0} \cup LaneCounts, shown : 0 .. 31]
    BY <1>t, <1>2 DEF LinkTypeOK, Link
  <1>5. LinkTypeOK'
    BY <1>t, <1>1, <1>2, <1>4, Zenon DEF LinkTypeOK
  <1>6. CacheOwned' /\ RatesCapped'
    BY <1>c, <1>r, <1>1 DEF CacheOwned, RatesCapped, ShownLanes
  <1>7. /\ lanes'[p].count = n /\ lanes'[p] # NoCount
        /\ \A q \in Ports : q # p => lanes'[q] = lanes[q] /\ (q \in foreign' <=> q \in foreign)
    BY <1>t, <1>1, <1>2 DEF LinkTypeOK, NoCount, LaneCounts
  <1>8. CountsOwn'
    BY <1>o, <1>1, <1>3, <1>7, Zenon
       DEF CountsOwn, ShownLanes, Spoofed, getConfiguredLaneCountOverride
  <1>9. Spoofed /\ p \notin foreign' /\ lanes[p] # NoCount => lanes[p].count = n
    BY <1>o, <1>3, Zenon DEF CountsOwn
  <1>10. LinkComputed'
    BY <1>l, <1>1, <1>3, <1>7, <1>9, Zenon DEF LinkComputed, Spoofed, getConfiguredLaneCountOverride
  <1>11. ReadsBackItsLink'
    <2> SUFFICES ASSUME NEW q \in Ports, config[q] # NoLink
                 PROVE  /\ config[q].rate = link[q].rate
                        /\ \/ config[q].lanes = link[q].lanes
                           \/ /\ ~isRealTGL
                              /\ \/ getConfiguredLaneCountOverride # 0
                                 \/ link[q].lanes < lanes'[q].count
                                 \/ q \in foreign'
      BY <1>b, <1>1, Zenon DEF ReadsBackItsLink, getConfiguredLaneCountOverride
    <2>1. CASE q # p
      BY <1>b, <1>7, <2>1, Zenon DEF ReadsBackItsLink
    <2>2. CASE q = p
      <3>1. foreign \subseteq foreign'
        BY <1>1
      <3>2. lanes[p] = NoCount => ~(link[p].lanes < lanes[p].count)
        <4>1. link[p] \in Link
          BY <1>t DEF LinkTypeOK
        <4>2. link[p].lanes \in 0 .. 31
          BY <4>1 DEF Link
        <4>3. NoCount.count = 0
          BY DEF NoCount
        <4>4. ~(link[p].lanes < 0)
          BY <4>2
        <4> QED
          BY <4>3, <4>4, Zenon
      <3> QED
        BY <1>b, <1>7, <1>9, <2>2, <3>1, <3>2, Zenon DEF ReadsBackItsLink, Spoofed
    <2> QED
      BY <2>1, <2>2
  <1> QED
    BY <1>5, <1>6, <1>8, <1>10, <1>11, Zenon DEF LinkInv

\* Training preserves the invariant: it uses at most what was computed and shown.
LEMMA TrainKeeps ==
  ASSUME LinkInv, NEW p \in Ports, TrainLink(p)
  PROVE  LinkInv'
  <1>t. LinkTypeOK BY Zenon DEF LinkInv
  <1>c. CacheOwned BY Zenon DEF LinkInv
  <1>o. CountsOwn BY Zenon DEF LinkInv
  <1>l. LinkComputed BY Zenon DEF LinkInv
  <1>r. RatesCapped BY Zenon DEF LinkInv
  <1>b. ReadsBackItsLink BY Zenon DEF LinkInv
  <1>1. /\ UNCHANGED <<isRealTGL, lanesArg, sink, dpcd, caps, lanes, owner, foreign>>
        /\ lanes[p] # NoCount
        /\ config' = [config EXCEPT ![p] = NoLink]
    BY Zenon DEF TrainLink, args, history
  <1>0. caps[p] \in Link
    BY <1>t DEF LinkTypeOK
  <1>2. PICK shown \in 0 .. 255 : shown = caps[p].rate
    BY <1>0 DEF Link
  <1>3. PICK rate \in 0 .. 255, n \in LaneCounts :
          /\ rate <= caps[p].rate /\ n <= lanes[p].count
          /\ link' = [link EXCEPT ![p] = [rate |-> rate, lanes |-> n]]
    BY <1>2, RatesAssumption, ZenonT(30) DEF TrainLink
  <1>4. [rate |-> rate, lanes |-> n] \in Link /\ NoLink \in Link
    BY DEF Link, NoLink, LaneCounts
  <1>5. LinkTypeOK'
    BY <1>t, <1>1, <1>3, <1>4, Zenon DEF LinkTypeOK
  <1>6. CacheOwned' /\ CountsOwn'
    BY <1>c, <1>o, <1>1 DEF CacheOwned, CountsOwn, ShownLanes, Spoofed, getConfiguredLaneCountOverride
  <1>7. /\ link'[p].rate = rate /\ link'[p].lanes = n /\ config'[p] = NoLink
        /\ \A q \in Ports : q # p => link'[q] = link[q] /\ config'[q] = config[q]
    BY <1>t, <1>1, <1>3 DEF LinkTypeOK
  <1>8. RatesCapped'
    <2>1. ~isRealTGL => shown <= HBR2
      BY <1>r, <1>2, Zenon DEF RatesCapped
    <2>2. shown <= HBR2 /\ rate <= shown => rate <= HBR2
      BY DEF HBR2
    <2>3. ~isRealTGL => rate <= HBR2
      BY <1>2, <1>3, <2>1, <2>2, Zenon
    <2> QED
      BY <1>r, <1>1, <1>7, <2>3, Zenon DEF RatesCapped
  <1>9. Spoofed' = Spoofed /\ getConfiguredLaneCountOverride' = getConfiguredLaneCountOverride
    BY <1>1, Zenon DEF Spoofed, getConfiguredLaneCountOverride
  <1>10. LinkComputed'
    <2> SUFFICES ASSUME NEW q \in Ports, Spoofed, q \notin foreign, link'[q] # NoLink
                 PROVE  lanes[q] # NoCount /\ link'[q].lanes <= lanes[q].count
      BY <1>1, <1>9, Zenon DEF LinkComputed
    <2>1. CASE q = p
      BY <1>1, <1>3, <1>7, <2>1, Zenon
    <2>2. CASE q # p
      BY <1>l, <1>7, <2>2, Zenon DEF LinkComputed
    <2> QED
      BY <2>1, <2>2
  <1>11. ReadsBackItsLink'
    BY <1>b, <1>1, <1>7, <1>9, Zenon DEF ReadsBackItsLink
  <1> QED
    BY <1>5, <1>6, <1>8, <1>10, <1>11, Zenon DEF LinkInv

\* A hot-plug preserves the invariant: nothing is known of the new sink, and the
\* cache is no port's.
LEMMA HotPlugKeeps ==
  ASSUME LinkInv, NEW p \in Ports, HotPlug(p)
  PROVE  LinkInv'
  <1>t. LinkTypeOK BY Zenon DEF LinkInv
  <1>c. CacheOwned BY Zenon DEF LinkInv
  <1>o. CountsOwn BY Zenon DEF LinkInv
  <1>l. LinkComputed BY Zenon DEF LinkInv
  <1>r. RatesCapped BY Zenon DEF LinkInv
  <1>b. ReadsBackItsLink BY Zenon DEF LinkInv
  <1>1. /\ UNCHANGED <<isRealTGL, lanesArg, dpcd>>
        /\ caps' = [caps EXCEPT ![p] = NoLink]
        /\ lanes' = [lanes EXCEPT ![p] = NoCount]
        /\ link' = [link EXCEPT ![p] = NoLink]
        /\ config' = [config EXCEPT ![p] = NoLink]
        /\ owner' = IF owner = p THEN NoPort ELSE owner
        /\ foreign' = foreign \ {p}
    BY Zenon DEF HotPlug, args
  <1>2. PICK s \in Sink : sink' = [sink EXCEPT ![p] = s]
    BY SinksAssumption, Zenon DEF HotPlug
  <1>3. LinkTypeOK'
    <2>1. NoLink \in Link /\ NoCount \in [count : {0} \cup LaneCounts, shown : 0 .. 31]
      BY DEF Link, NoLink, NoCount
    <2>2. /\ sink' \in [Ports -> Sink] /\ caps' \in [Ports -> Link]
          /\ lanes' \in [Ports -> [count : {0} \cup LaneCounts, shown : 0 .. 31]]
          /\ link' \in [Ports -> Link] /\ config' \in [Ports -> Link]
      BY <1>t, <1>1, <1>2, <2>1, Zenon DEF LinkTypeOK
    <2>3. owner' \in Ports \cup {NoPort} /\ foreign' \subseteq Ports
      BY <1>t, <1>1 DEF LinkTypeOK
    <2> QED
      BY <1>t, <1>1, <2>2, <2>3, Zenon DEF LinkTypeOK
  <1>4. /\ caps'[p] = NoLink /\ lanes'[p] = NoCount /\ link'[p] = NoLink /\ config'[p] = NoLink
        /\ \A q \in Ports : q # p =>
             /\ caps'[q] = caps[q] /\ lanes'[q] = lanes[q] /\ link'[q] = link[q]
             /\ config'[q] = config[q] /\ sink'[q] = sink[q]
             /\ (q \in foreign' <=> q \in foreign)
    <2>1. /\ caps'[p] = NoLink /\ lanes'[p] = NoCount
          /\ \A q \in Ports : q # p => caps'[q] = caps[q] /\ lanes'[q] = lanes[q]
      BY <1>t, <1>1 DEF LinkTypeOK
    <2>2. /\ link'[p] = NoLink /\ config'[p] = NoLink
          /\ \A q \in Ports : q # p => link'[q] = link[q] /\ config'[q] = config[q]
      BY <1>t, <1>1 DEF LinkTypeOK
    <2>3. \A q \in Ports : q # p => sink'[q] = sink[q] /\ (q \in foreign' <=> q \in foreign)
      BY <1>t, <1>1, <1>2 DEF LinkTypeOK
    <2> QED
      BY <2>1, <2>2, <2>3, Zenon
  <1>s. /\ Spoofed' = Spoofed /\ getConfiguredLaneCountOverride' = getConfiguredLaneCountOverride
        /\ \A m : ShownLanes(m)' = ShownLanes(m)
    BY <1>1, Zenon DEF Spoofed, getConfiguredLaneCountOverride, ShownLanes
  <1>5. CacheOwned'
    <2> SUFFICES ASSUME owner' \in Ports
                 PROVE  /\ dpcd'.valid /\ dpcd'.lanes = sink'[owner'].lanes
                        /\ caps'[owner'].lanes = ShownLanes(sink[owner].lanes)'
      BY Zenon DEF CacheOwned
    <2>1. owner' = owner /\ owner # p
      BY <1>1, PortsAssumption, Zenon
    <2>2. caps'[owner] = caps[owner] /\ sink'[owner] = sink[owner]
      BY <1>4, <2>1, Zenon
    <2>3. ShownLanes(sink[owner].lanes)' = ShownLanes(sink[owner].lanes)
      BY <1>1, <2>1, <2>2, Zenon DEF ShownLanes
    <2> QED
      BY <1>c, <1>1, <2>1, <2>2, <2>3, Zenon DEF CacheOwned
  <1>6. CountsOwn' /\ LinkComputed'
    <2>1. CountsOwn'
      <3> SUFFICES ASSUME NEW q \in Ports, Spoofed, q \notin foreign', lanes'[q] # NoCount
                   PROVE  /\ lanes'[q].count = ShownLanes(sink[q].lanes)'
                          /\ caps'[q].lanes = ShownLanes(sink[q].lanes)'
        BY <1>s, Zenon DEF CountsOwn
      <3>1. q # p /\ q \notin foreign /\ lanes[q] # NoCount
        BY <1>4, Zenon
      <3> QED
        <4>1. lanes'[q] = lanes[q] /\ caps'[q] = caps[q] /\ sink'[q] = sink[q]
          BY <1>4, <3>1, Zenon
        <4>2. ShownLanes(sink[q].lanes)' = ShownLanes(sink[q].lanes)
          BY <1>1, <4>1, Zenon DEF ShownLanes
        <4> QED
          BY <1>o, <3>1, <4>1, <4>2, Zenon DEF CountsOwn
    <2>2. LinkComputed'
      BY <1>l, <1>4, <1>s, Zenon DEF LinkComputed
    <2> QED
      BY <2>1, <2>2
  <1>7. RatesCapped'
    <2>1. NoLink.rate <= HBR2
      BY DEF NoLink, HBR2
    <2> QED
      BY <1>r, <1>1, <1>4, <2>1, Zenon DEF RatesCapped
  <1>8. ReadsBackItsLink'
    <2> SUFFICES ASSUME NEW q \in Ports, config'[q] # NoLink
                 PROVE  /\ config'[q].rate = link'[q].rate
                        /\ \/ config'[q].lanes = link'[q].lanes
                           \/ /\ ~isRealTGL
                              /\ \/ getConfiguredLaneCountOverride # 0
                                 \/ link'[q].lanes < lanes'[q].count
                                 \/ q \in foreign'
      BY <1>1, <1>s, Zenon DEF ReadsBackItsLink
    <2>1. q # p
      BY <1>4, Zenon
    <2> QED
      BY <1>b, <1>4, <2>1, Zenon DEF ReadsBackItsLink
  <1> QED
    BY <1>3, <1>5, <1>6, <1>7, <1>8, Zenon DEF LinkInv

-----------------------------------------------------------------------------
(***************************************************************************)
(* The invariant holds for any ports, sinks, overrides and fallbacks.      *)
(***************************************************************************)
THEOREM LinkInvariant == LinkSpec => []LinkInv
  <1>1. LinkInit => LinkInv
    BY InitLinkInv
  <1>2. LinkInv /\ [LinkNext]_linkVars => LinkInv'
    <2> SUFFICES ASSUME LinkInv, [LinkNext]_linkVars PROVE LinkInv'
      BY Zenon
    <2>1. CASE UNCHANGED linkVars
      <3>1. UNCHANGED <<isRealTGL, lanesArg, sink, dpcd, caps, lanes, link, config, owner, foreign>>
        BY <2>1, Zenon DEF linkVars, args, history
      <3>2. LinkTypeOK' /\ CacheOwned' /\ RatesCapped'
        BY <3>1, Zenon DEF LinkInv, LinkTypeOK, CacheOwned, RatesCapped, ShownLanes
      <3>3. CountsOwn' /\ LinkComputed' /\ ReadsBackItsLink'
        BY <3>1, Zenon DEF LinkInv, CountsOwn, LinkComputed, ReadsBackItsLink, ShownLanes, Spoofed,
                    getConfiguredLaneCountOverride
      <3> QED
        BY <3>2, <3>3, Zenon DEF LinkInv
    <2>2. CASE LinkNext
      BY <2>2, ReadCapsKeeps, ReadLinkKeeps, ComputeKeeps, TrainKeeps, HotPlugKeeps, Zenon
         DEF LinkNext, wrapICLReadAUX
    <2> QED
      BY <2>1, <2>2
  <1> QED
    BY <1>1, <1>2, PTL DEF LinkSpec

(***************************************************************************)
(* Without an override, computeLaneCount answers what a port's sink was    *)
(* shown to offer, unless the port was answered from a cache that another  *)
(* port's sink, or an earlier one of its own, had filled.                  *)
(***************************************************************************)
THEOREM LanesFollowTheSink == LinkSpec => []LanesAsAdvertised
  <1>1. LinkInv => LanesAsAdvertised
    BY Zenon DEF LinkInv, LanesAsAdvertised, CountsOwn
  <1> QED
    BY <1>1, LinkInvariant, PTL

(***************************************************************************)
(* wrapICLReadAUX's rewriting of the link configuration never shows in the *)
(* rate, and shows in the lane count only after an override, a fallback or *)
(* an answer from another sink's cache.                                    *)
(***************************************************************************)
THEOREM LinkReadsBack == LinkSpec => []ReadsBackItsLink
  <1>1. LinkInv => ReadsBackItsLink
    BY Zenon DEF LinkInv
  <1> QED
    BY <1>1, LinkInvariant, PTL

-----------------------------------------------------------------------------
(* The merge nub.                                                          *)

\* The loop works on keys of the personality, and what the driver set under
\* other keys is kept apart from them.
KeysApart ==
  /\ DOMAIN theirs \cap DOMAIN ours = {}
  /\ todo \subseteq DOMAIN ours
  /\ pc \in {"put", "set"} => key \in DOMAIN ours

\* What a step of the nub or of the display's driver does to the table.
LEMMA TableSteps ==
  ASSUME KeysApart, [MergeNext]_mergeVars
  PROVE  /\ ours' = ours
         /\ \/ table' = table /\ theirs' = theirs
            \/ \E k \in DOMAIN ours : \E x : table' = With(table, k, x) /\ theirs' = theirs
            \/ \E k, x : /\ k \notin DOMAIN ours
                         /\ table' = With(table, k, x) /\ theirs' = With(theirs, k, x)
<1> USE DEF nub, driver
<1>1. CASE probe \/ ShallowEnds \/ Look BY <1>1, Zenon DEF probe, ShallowEnds, Look
<1>2. CASE ShallowMerge BY <1>2, Zenon DEF ShallowMerge, Overwrite, KeysApart
<1>3. CASE PutBack BY <1>3, Zenon DEF PutBack, KeysApart
<1>4. CASE SetEntry BY <1>4, Zenon DEF SetEntry, Overwrite, KeysApart
<1>5. CASE Break \/ LoopEnds BY <1>5 DEF Break, LoopEnds, Leave
<1>6. ASSUME NEW k, NEW x, DriverSets(k, x)
      PROVE  /\ ours' = ours
             /\ table' = With(table, k, x)
             /\ IF k \in DOMAIN ours THEN theirs' = theirs ELSE theirs' = With(theirs, k, x)
  BY <1>6, Zenon DEF DriverSets, DriverWrites
<1>7. ASSUME NEW k, DriverNests(k)
      PROVE  /\ ours' = ours /\ k \in DOMAIN ours /\ theirs' = theirs
             /\ \E x : table' = With(table, k, x)
  BY <1>7 DEF DriverNests, DriverWrites
<1>8. CASE UNCHANGED mergeVars BY <1>8 DEF mergeVars
<1>. QED BY <1>1, <1>2, <1>3, <1>4, <1>5, <1>6, <1>7, <1>8, Zenon DEF MergeNext

\* Every step keeps the keys apart.
LEMMA KeysStayApart ==
  ASSUME KeysApart, [MergeNext]_mergeVars PROVE KeysApart'
<1> USE DEF nub, driver
<1>1. DOMAIN theirs' \cap DOMAIN ours' = {}
  <2>1. ours' = ours BY TableSteps
  <2>2. CASE theirs' = theirs BY <2>1, <2>2 DEF KeysApart
  <2>3. ASSUME NEW k, NEW x, k \notin DOMAIN ours, theirs' = With(theirs, k, x)
        PROVE  DOMAIN theirs' \cap DOMAIN ours' = {}
    <3>1. DOMAIN theirs' = DOMAIN theirs \cup {k} BY <2>3 DEF With
    <3>. QED BY <2>1, <2>3, <3>1 DEF KeysApart
  <2>. QED BY <2>2, <2>3, TableSteps
<1>2. todo' \subseteq DOMAIN ours' /\ (pc' \in {"put", "set"} => key' \in DOMAIN ours')
  <2>1. CASE probe BY <2>1 DEF probe, KeysApart
  <2>2. CASE ShallowMerge \/ ShallowEnds
    BY <2>2 DEF ShallowMerge, ShallowEnds, KeysApart
  <2>3. CASE Look BY <2>3, Zenon DEF Look, KeysApart
  <2>4. CASE PutBack \/ SetEntry BY <2>4 DEF PutBack, SetEntry, NextKey, KeysApart
  <2>5. CASE Break \/ LoopEnds BY <2>5, Zenon DEF Break, LoopEnds, Leave
  <2>6. ASSUME NEW k, NEW x, DriverSets(k, x) \/ DriverNests(k)
        PROVE  ours' = ours /\ todo' = todo /\ pc' = pc /\ key' = key
    BY <2>6, Zenon DEF DriverSets, DriverNests, DriverWrites
  <2>7. CASE UNCHANGED mergeVars BY <2>7, Zenon DEF mergeVars, KeysApart
  <2>. QED BY <2>1, <2>2, <2>3, <2>4, <2>5, <2>6, <2>7 DEF MergeNext, KeysApart
<1>. QED BY <1>1, <1>2 DEF KeysApart

\* DisplayMergeNub touches nothing the display or its driver has under other
\* keys than the personality's, whatever dictionaries are merged, however the
\* merge is computed and whenever the driver writes.
THEOREM TheirsAreKept == MergeSpec => []TheirsKept
<1>1. MergeInit => KeysApart /\ TheirsKept
  <2> SUFFICES ASSUME MergeInit PROVE KeysApart /\ TheirsKept OBVIOUS
  <2>1. theirs = [k \in DOMAIN table \ DOMAIN ours |-> table[k]] BY DEF MergeInit
  <2>2. todo = {} /\ pc = "idle" BY DEF MergeInit
  <2>. QED BY <2>1, <2>2 DEF KeysApart, TheirsKept
<1>2. KeysApart /\ TheirsKept /\ [MergeNext]_mergeVars => KeysApart' /\ TheirsKept'
  <2> SUFFICES ASSUME KeysApart, TheirsKept, [MergeNext]_mergeVars PROVE TheirsKept'
    BY KeysStayApart
  <2>1. CASE table' = table /\ theirs' = theirs BY <2>1, Zenon DEF TheirsKept
  <2>3. ASSUME NEW k \in DOMAIN ours, NEW x,
               table' = With(table, k, x), theirs' = theirs
        PROVE  TheirsKept'
    <3>1. /\ DOMAIN table' = DOMAIN table \cup {k}
          /\ \A j \in DOMAIN table : j # k => table'[j] = table[j]
      BY <2>3 DEF With
    <3>. QED BY <2>3, <3>1 DEF TheirsKept, KeysApart
  <2>4. ASSUME NEW k, NEW x, table' = With(table, k, x), theirs' = With(theirs, k, x)
        PROVE  TheirsKept'
    <3>1. /\ DOMAIN table' = DOMAIN table \cup {k} /\ table'[k] = x
          /\ \A j \in DOMAIN table : j # k => table'[j] = table[j]
      BY <2>4 DEF With
    <3>2. /\ DOMAIN theirs' = DOMAIN theirs \cup {k} /\ theirs'[k] = x
          /\ \A j \in DOMAIN theirs : j # k => theirs'[j] = theirs[j]
      BY <2>4 DEF With
    <3>. QED BY <3>1, <3>2 DEF TheirsKept
  <2>. QED BY <2>1, <2>3, <2>4, TableSteps
<1>. QED BY <1>1, <1>2, PTL DEF MergeSpec

\* MergeDictionaryIntoDictionary removes no key of its target, cut short or not.
MergeKeepsKeys ==
  \A source, target : \A c \in Merge(source, target) :
    c.ok => DOMAIN target \subseteq DOMAIN c.dict

\* A copy that is out has the driver's entry if the display has it and the
\* driver has not written since.
CopyHolds ==
  /\ pc = "put" /\ copy.ok /\ ~late /\ HasDriverEntry(key) => DriverKey \in DOMAIN copy.dict
  /\ late \in BOOLEAN /\ writes \in Nat

\* The loop of DisplayMergeNub puts a dictionary back without an entry the
\* display's driver has in it only if the driver wrote it after the copy, for any
\* dictionaries and any merge that keeps its target's keys; the other losses are
\* those of the shallow merge, of an entry that is set, and of the driver itself.
THEOREM LossIsConfined ==
  ASSUME MergeKeepsKeys PROVE MergeSpec => LossConfined
<1> USE DEF nub, driver
<1> DEFINE Confined ==
      \A k \in DOMAIN ours :
        HasDriverEntry(k) /\ ~HasDriverEntry(k)' =>
          \/ pc = "shallow"
          \/ pc = "set" /\ key = k
          \/ pc = "put" /\ key = k /\ late
          \/ writes' # writes
<1>1. MergeInit => CopyHolds
  <2> SUFFICES ASSUME MergeInit PROVE CopyHolds
    OBVIOUS
  <2>1. pc = "idle" /\ late = FALSE /\ writes = 0 BY Zenon DEF MergeInit
  <2>. QED BY <2>1, Zenon DEF CopyHolds
<1>2. CopyHolds /\ [MergeNext]_mergeVars => CopyHolds'
  <2> SUFFICES ASSUME CopyHolds, [MergeNext]_mergeVars PROVE CopyHolds'
    OBVIOUS
  <2>1. CASE Look
    <3>1. late' = FALSE /\ table' = table /\ writes' = writes BY <2>1, Zenon DEF Look
    <3>2. CASE pc' = "put"
      <4>1. PICK k : /\ key' = k
                     /\ \/ BothDicts(k) /\ copy' \in Merge(ours[k].d, table[k].d)
                        \/ pc' = "set"
        BY <2>1, Zenon DEF Look
      <4>2. copy' \in Merge(ours[k].d, table[k].d) BY <3>2, <4>1
      <4>3. copy'.ok => DOMAIN table[k].d \subseteq DOMAIN copy'.dict
        BY <4>2, Zenon DEF MergeKeepsKeys
      <4>. QED BY <3>1, <4>1, <4>3, Zenon DEF CopyHolds, HasDriverEntry
    <3>3. CASE pc' # "put" BY <3>1, <3>3, Zenon DEF CopyHolds
    <3>. QED BY <3>2, <3>3
  <2>2. CASE probe \/ ShallowMerge \/ ShallowEnds
    <3>1. pc' # "put" /\ late' = late /\ writes' = writes
      BY <2>2, Zenon DEF probe, ShallowMerge, ShallowEnds
    <3>. QED BY <3>1, Zenon DEF CopyHolds
  <2>3. CASE PutBack \/ SetEntry \/ Break \/ LoopEnds
    <3>1. late' = late /\ writes' = writes
      BY <2>3, Zenon DEF PutBack, SetEntry, Break, LoopEnds, Leave
    <3>2. pc' = "loop" \/ pc' = "idle"
      BY <2>3, Zenon DEF PutBack, SetEntry, NextKey, Break, LoopEnds, Leave
    <3>. QED BY <3>1, <3>2, Zenon DEF CopyHolds
  <2>4. ASSUME NEW k, NEW x, DriverWrites(k, x) PROVE CopyHolds'
    <3>1. /\ table' = With(table, k, x) /\ late' = (late \/ key = k)
          /\ pc' = pc /\ key' = key /\ copy' = copy /\ writes' = writes + 1
      BY <2>4, Zenon DEF DriverWrites
    <3>w. writes' \in Nat BY <3>1 DEF CopyHolds
    <3>2. CASE key = k
      <4>1. late' = TRUE BY <3>1, <3>2, Zenon
      <4>. QED BY <3>w, <4>1, Zenon DEF CopyHolds
    <3>3. CASE key # k
      <4>1. /\ DOMAIN table' = DOMAIN table \cup {k}
            /\ \A j \in DOMAIN table : j # k => table'[j] = table[j]
        BY <3>1, Zenon DEF With
      <4>2. HasDriverEntry(key)' => HasDriverEntry(key)
        BY <3>1, <3>3, <4>1, Zenon DEF HasDriverEntry
      <4>3. late' = late BY <3>1, <3>3, Zenon DEF CopyHolds
      <4>. QED BY <3>1, <3>w, <4>2, <4>3, Zenon DEF CopyHolds
    <3>. QED BY <3>2, <3>3
  <2>5. CASE UNCHANGED mergeVars
    BY <2>5, Zenon DEF mergeVars, CopyHolds, HasDriverEntry
  <2>. QED BY <2>1, <2>2, <2>3, <2>4, <2>5, Zenon DEF MergeNext, DriverSets, DriverNests
<1>3. CopyHolds /\ [MergeNext]_mergeVars => [Confined]_mergeVars
  <2> SUFFICES ASSUME CopyHolds, [MergeNext]_mergeVars, NEW k \in DOMAIN ours,
                      HasDriverEntry(k), ~HasDriverEntry(k)'
               PROVE  \/ pc = "shallow"
                      \/ pc = "set" /\ key = k
                      \/ pc = "put" /\ key = k /\ late
                      \/ writes' # writes
    OBVIOUS
  <2>0. table' # table BY DEF HasDriverEntry
  <2>1. CASE PutBack
    <3>1. /\ table' = With(table, key, Dict(copy.dict)) /\ pc = "put" /\ copy.ok
      BY <2>1, Zenon DEF PutBack
    <3>2. /\ DOMAIN table' = DOMAIN table \cup {key}
          /\ table'[key] = Dict(copy.dict)
          /\ \A j \in DOMAIN table : j # key => table'[j] = table[j]
      BY <3>1 DEF With
    <3>3. IsDict(Dict(copy.dict)) /\ Dict(copy.dict).d = copy.dict BY ZenonT(30) DEF IsDict, Dict
    <3>4. key = k BY <3>2 DEF HasDriverEntry
    <3>5. DriverKey \notin DOMAIN copy.dict BY <3>2, <3>3, <3>4 DEF HasDriverEntry
    <3>. QED BY <3>1, <3>4, <3>5 DEF CopyHolds
  <2>2. CASE SetEntry
    <3>1. table' = With(table, key, ours[key]) /\ pc = "set" BY <2>2, Zenon DEF SetEntry, Overwrite
    <3>2. /\ DOMAIN table' = DOMAIN table \cup {key}
          /\ \A j \in DOMAIN table : j # key => table'[j] = table[j]
      BY <3>1 DEF With
    <3>. QED BY <3>1, <3>2 DEF HasDriverEntry
  <2>3. CASE ShallowMerge BY <2>3 DEF ShallowMerge
  <2>4. CASE probe \/ ShallowEnds \/ Look \/ Break \/ LoopEnds \/ UNCHANGED mergeVars
    BY <2>0, <2>4, Zenon DEF probe, ShallowEnds, Look, Break, LoopEnds, Leave, mergeVars
  <2>5. ASSUME NEW l, NEW x, DriverWrites(l, x) PROVE writes' # writes
    BY <2>5 DEF DriverWrites, CopyHolds
  <2>. QED BY <2>1, <2>2, <2>3, <2>4, <2>5 DEF MergeNext, DriverSets, DriverNests
<1>. QED BY <1>1, <1>2, <1>3, PTL DEF MergeSpec, LossConfined

(***************************************************************************)
(* What the theorem needs of the merge and of Includes: a value includes   *)
(* itself, a merge that is put back includes its source if it is whole or  *)
(* if its target did, and another entry of the driver's takes nothing away.*)
(***************************************************************************)
MergeIncludesSource ==
  \A f \in Personalities : \A k \in DOMAIN f :
    /\ Includes(f[k], f[k])
    /\ IsDict(f[k]) =>
         \A x : IsDict(x) => \A c \in Merge(f[k].d, x.d) :
           c.ok /\ (c.whole \/ Includes(x, f[k])) => Includes(Dict(c.dict), f[k])
    /\ \A x, v : /\ IsDict(x) /\ Includes(x, f[k])
                 /\ IsDict(f[k]) => DriverKey \notin DOMAIN f[k].d
                 => Includes(Dict(With(x.d, DriverKey, v)), f[k])

\* Every entry we have written whole since the driver did is in the table, in
\* the middle of a probe too, and in the copy that is about to be put.
Arrived ==
  /\ ours \in Personalities
  /\ EveryEntryArrives
  /\ pc = "put" /\ copy.ok /\ (copy.whole \/ key \notin over) =>
       Includes(Dict(copy.dict), ours[key])

\* What DisplayMergeNub has written whole stays whole until the display's driver
\* sets it: neither a later probe, nor a merge cut short by a failed allocation
\* and put back as a success, nor the loop's end at any failure takes an entry
\* away.
THEOREM EntriesArrive ==
  ASSUME MergeIncludesSource PROVE MergeSpec => []EveryEntryArrives
<1>1. MergeInit => KeysApart /\ Arrived
  <2> SUFFICES ASSUME MergeInit PROVE KeysApart /\ Arrived OBVIOUS
  <2>1. theirs = [k \in DOMAIN table \ DOMAIN ours |-> table[k]] BY DEF MergeInit
  <2>2. todo = {} /\ pc = "idle" /\ ours \in Personalities /\ over = DOMAIN ours
    BY DEF MergeInit
  <2>. QED BY <2>1, <2>2 DEF KeysApart, Arrived, EveryEntryArrives
<1>2. KeysApart /\ Arrived /\ [MergeNext]_mergeVars => KeysApart' /\ Arrived'
  <2> SUFFICES ASSUME KeysApart, Arrived, [MergeNext]_mergeVars PROVE Arrived'
    BY KeysStayApart, ZenonT(30)
  <2> USE DEF nub, driver, EveryEntryArrives
  <2>0. ours' = ours /\ ours' \in Personalities BY TableSteps DEF Arrived
  <2>1. CASE probe \/ ShallowEnds
    <3>1. pc' # "put" /\ table' = table /\ over' = over
      BY <2>1 DEF probe, ShallowEnds
    <3>. QED BY <2>0, <3>1 DEF Arrived
  <2>2. CASE Look
    <3>1. PICK k \in todo : /\ key' = k
                            /\ \/ BothDicts(k) /\ copy' \in Merge(ours[k].d, table[k].d)
                               \/ pc' = "set"
      BY <2>2, Zenon DEF Look
    <3>2. k \in DOMAIN ours BY <3>1, Zenon DEF KeysApart
    <3>3. table' = table /\ over' = over BY <2>2, Zenon DEF Look
    <3>4. ASSUME pc' = "put", copy'.ok, copy'.whole \/ k \notin over
          PROVE  Includes(Dict(copy'.dict), ours[k])
      <4>1. BothDicts(k) /\ copy' \in Merge(ours[k].d, table[k].d) BY <3>1, <3>4
      <4>2. k \notin over => Includes(table[k], ours[k]) BY <3>2, Zenon DEF Arrived
      <4>3. IsDict(table[k]) /\ IsDict(ours[k]) BY <4>1, Zenon DEF BothDicts
      <4>. QED BY <2>0, <3>2, <3>4, <4>1, <4>2, <4>3, Zenon DEF MergeIncludesSource
    <3>. QED BY <2>0, <3>1, <3>3, <3>4, Zenon DEF Arrived
  <2>3. ASSUME NEW k \in DOMAIN ours, NEW x, table' = With(table, k, x),
               Includes(x, ours[k]) \/ k \in over', over \ {k} \subseteq over'
        PROVE  \A l \in DOMAIN ours \ over' :
                 l \in DOMAIN table' /\ Includes(table'[l], ours[l])
    <3>1. /\ DOMAIN table' = DOMAIN table \cup {k} /\ table'[k] = x
          /\ \A j \in DOMAIN table : j # k => table'[j] = table[j]
      BY <2>3, Zenon DEF With
    <3>. QED BY <2>3, <3>1, Zenon DEF Arrived
  <2>4. CASE PutBack
    <3>1. /\ table' = With(table, key, Dict(copy.dict))
          /\ over' = IF copy.whole THEN over \ {key} ELSE over
          /\ pc = "put" /\ copy.ok /\ pc' = "loop"
      BY <2>4, Zenon DEF PutBack, NextKey
    <3>2. key \in DOMAIN ours BY <3>1, Zenon DEF KeysApart
    <3>3. Includes(Dict(copy.dict), ours[key]) \/ key \in over'
      BY <3>1, Zenon DEF Arrived
    <3>4. over \ {key} \subseteq over' BY <3>1
    <3>5. pc' # "put" BY <3>1
    <3>. QED BY <2>0, <2>3, <3>1, <3>2, <3>3, <3>4, <3>5, Zenon DEF Arrived
  <2>5. ASSUME NEW k \in DOMAIN ours, Overwrite(k), pc' # "put" PROVE Arrived'
    <3>1. table' = With(table, k, ours[k]) /\ over' = over \ {k}
      BY <2>5, Zenon DEF Overwrite
    <3>2. Includes(ours[k], ours[k]) BY <2>0, Zenon DEF MergeIncludesSource
    <3>. QED BY <2>0, <2>3, <2>5, <3>1, <3>2, Zenon DEF Arrived
  <2>6. CASE SetEntry
    <3>1. Overwrite(key) /\ key \in DOMAIN ours /\ pc' # "put"
      BY <2>6, Zenon DEF SetEntry, NextKey, KeysApart
    <3>. QED BY <2>5, <3>1, Zenon
  <2>7. CASE ShallowMerge
    <3>1. \E k \in DOMAIN ours : Overwrite(k) BY <2>7, Zenon DEF ShallowMerge, KeysApart
    <3>2. pc' # "put" BY <2>7, Zenon DEF ShallowMerge
    <3>. QED BY <2>5, <3>1, <3>2, Zenon
  <2>8. CASE Break \/ LoopEnds
    BY <2>0, <2>8, Zenon DEF Break, LoopEnds, Leave, Arrived
  <2>9. ASSUME NEW k, NEW x, DriverSets(k, x) PROVE Arrived'
    <3>1. pc' = pc /\ key' = key /\ copy' = copy /\ table' = With(table, k, x)
      BY <2>9, Zenon DEF DriverSets, DriverWrites
    <3>2. CASE k \in DOMAIN ours
      <4>1. over' = over \cup {k} BY <2>9, <3>2, Zenon DEF DriverSets
      <4>. QED BY <2>0, <2>3, <3>1, <3>2, <4>1, Zenon DEF Arrived
    <3>3. CASE k \notin DOMAIN ours
      <4>1. over' = over BY <2>9, <3>3, Zenon DEF DriverSets
      <4>2. /\ DOMAIN table' = DOMAIN table \cup {k}
            /\ \A j \in DOMAIN table : j # k => table'[j] = table[j]
        BY <3>1, Zenon DEF With
      <4>. QED BY <2>0, <3>1, <3>3, <4>1, <4>2, ZenonT(30) DEF Arrived
    <3>. QED BY <3>2, <3>3, Zenon
  <2>10. ASSUME NEW k, DriverNests(k) PROVE Arrived'
    <3>1. PICK x : x = Dict(With(table[k].d, DriverKey, Leaf("driver"))) BY Zenon
    <3>2. /\ table' = With(table, k, x) /\ k \in DOMAIN ours /\ IsDict(table[k])
          /\ pc' = pc /\ key' = key /\ copy' = copy /\ over' = over
      BY <2>10, <3>1, Zenon DEF DriverNests, DriverWrites
    <3>3. Includes(x, ours[k]) \/ k \in over
      <4> SUFFICES ASSUME k \notin over PROVE Includes(x, ours[k]) BY Zenon
      <4>1. Includes(table[k], ours[k]) BY <3>2, Zenon DEF Arrived
      <4>2. IsDict(ours[k]) => DriverKey \notin DOMAIN ours[k].d
        BY <2>0, <3>2, DriverKeyAssumption, Zenon
      <4>. QED BY <2>0, <3>1, <3>2, <4>1, <4>2, Zenon DEF MergeIncludesSource
    <3>. QED BY <2>0, <2>3, <3>2, <3>3, Zenon DEF Arrived
  <2>11. CASE UNCHANGED mergeVars
    BY <2>11, Zenon DEF mergeVars, Arrived
  <2>. QED BY <2>1, <2>2, <2>4, <2>6, <2>7, <2>8, <2>9, <2>10, <2>11 DEF MergeNext
<1>3. Arrived => EveryEntryArrives BY DEF Arrived
<1>. QED BY <1>1, <1>2, <1>3, PTL DEF MergeSpec
=============================================================================
