----------------------------- MODULE PlaneGuard -----------------------------
(***************************************************************************)
(* Writes to the display planes' PLANE_CTL and PLANE_SURF registers:       *)
(*   "export"    Gen11::tWriteRegister32, the stub linked into the         *)
(*               framebuffer driver, and so NGreen::writeReg32             *)
(*   "export64"  tWriteRegister64 and so writeReg64, which has the same    *)
(*               guard but takes the byte offset for an index: its write   *)
(*               lands on a register that is none of the plane's           *)
(*   "ra"        AppleIntelRegisterAccessManager::WriteRegister32 in both  *)
(*               its forms (raWriteRegister32 and raWriteRegister32b),     *)
(*               ending in Apple's own write                               *)
(*   "raNull"    the same hook without an object, ending in writeReg32     *)
(*   "fast"      FastWriteRegister32, hooked without a plane guard         *)
(* and by the health monitor's plane experiments (V79, V88).  The guards   *)
(* look at the plane and write it in separate register accesses, and the   *)
(* V93 guard's cache is searched, claimed and used without a lock.  A      *)
(* write of PLANE_SURF arms the plane: it latches the enable bit and the   *)
(* surface.  The 64-bit and offset forms of the manager's own functions    *)
(* are not hooked.                                                         *)
(***************************************************************************)
EXTENDS Integers

CONSTANTS
  Drivers,       \* threads of the framebuffer driver
  Monitors,      \* {} or the thread running v60GpuHealthMonitor
  Planes, MonitorPlane,   \* the planes, and the one at 0x70180
  NoPlane,       \* the surfReg of a free slot
  Surfaces,      \* non-zero surface addresses
  Paths,         \* the write paths the driver uses
  V93,           \* isV93PlaneGuardEnabled()
  Slots          \* the length of v93States (8)

Zero == 0
Surf0 == Surfaces \cup {Zero}
Threads == Drivers \cup Monitors
AllPaths == {"export", "export64", "ra", "raNull", "fast"}
CtlBits == {"on", "tiled"}
NoSlot == 0      \* nullptr

ASSUME PlanesAssumption ==
  /\ MonitorPlane \in Planes /\ NoPlane \notin Planes /\ Zero \notin Surfaces
  /\ Drivers \cap Monitors = {}
ASSUME PathsAssumption ==
  /\ Paths \subseteq AllPaths /\ V93 \in BOOLEAN
  /\ Slots \in Nat \ {0}

PC == {"idle", "v93Find", "v93Free", "v93Claim", "v93Clear", "v93Store", "v93Ctl",
       "v93Cached", "v93Use", "v93Surf", "v93Off",
       "guard", "guardSurf", "guardOff", "put",
       "v79", "v79Ctl", "v79Surf", "v88", "v88Arm", "toggle", "toggleOff",
       "commitOff", "toggleOn", "commitOn"}

VARIABLES
  ctl, surf,            \* the registers of each plane
  liveOn, liveSurf,     \* what each plane was last armed with
  slotReg, slotLast,    \* v93States: surfReg and lastNonZeroSurf of each slot
  wanted,               \* MonitorPlane was last enabled by the driver, not turned off
  raced,                \* threads about to write on a decision that was overtaken
  pc,                   \* where each thread is
  plane, path, val,     \* the write it performs
  asked,                \* the value it was asked to write
  seen,                 \* the PLANE_CTL value it read
  slot                  \* the slot of v93States it looks at

regs == <<ctl, surf, liveOn, liveSurf>>
v93States == <<slotReg, slotLast>>
history == <<wanted, raced>>
locals == <<plane, path, val, asked, seen, slot>>
vars == <<regs, v93States, history, pc, locals>>

\* The plane registers, v93States and the writes in progress are well formed.
TypeOK ==
  /\ ctl \in [Planes -> SUBSET CtlBits] /\ surf \in [Planes -> Surf0]
  /\ liveOn \subseteq Planes /\ liveSurf \in [Planes -> Surf0]
  /\ slotReg \in [1 .. Slots -> Planes \cup {NoPlane}]
  /\ slotLast \in [1 .. Slots -> Surf0]
  /\ wanted \in BOOLEAN /\ raced \subseteq Threads
  /\ pc \in [Threads -> PC]
  /\ plane \in [Threads -> Planes] /\ path \in [Threads -> AllPaths]
  /\ val \in [Threads -> Surf0] /\ asked \in [Threads -> Surf0]
  /\ seen \in [Threads -> SUBSET CtlBits]
  /\ slot \in [Threads -> 0 .. Slots]

\* The driver takes over planes the firmware left off.
Init ==
  /\ ctl = [p \in Planes |-> {}] /\ surf = [p \in Planes |-> Zero]
  /\ liveOn = {} /\ liveSurf = surf
  /\ slotReg = [i \in 1 .. Slots |-> NoPlane] /\ slotLast = [i \in 1 .. Slots |-> Zero]
  /\ wanted = FALSE /\ raced = {}
  /\ pc = [t \in Threads |-> IF t \in Monitors THEN "v79" ELSE "idle"]
  /\ plane = [t \in Threads |-> MonitorPlane]
  /\ path = [t \in Threads |-> "export"]
  /\ val = [t \in Threads |-> Zero] /\ asked = val
  /\ seen = [t \in Threads |-> {}]
  /\ slot = [t \in Threads |-> NoSlot]

-----------------------------------------------------------------------------
(* Registers.                                                              *)

Goto(t, l) == pc' = [pc EXCEPT ![t] = l]

\* An enabling write overtakes the threads that are about to write the surface.
SetCtl(p, bits) ==
  /\ ctl' = [ctl EXCEPT ![p] = bits]
  /\ raced' = IF "on" \in bits
                THEN raced \cup {t \in Threads : pc[t] = "put" /\ plane[t] = p}
                ELSE raced
  /\ UNCHANGED <<surf, liveOn, liveSurf>>

\* Writing PLANE_SURF arms the plane with its current PLANE_CTL.
Arm(p, v) ==
  /\ surf' = [surf EXCEPT ![p] = v]
  /\ liveSurf' = [liveSurf EXCEPT ![p] = v]
  /\ liveOn' = IF "on" \in ctl[p] THEN liveOn \cup {p} ELSE liveOn \ {p}
  /\ UNCHANGED ctl

-----------------------------------------------------------------------------
(* The driver's writes.                                                    *)

\* Where a PLANE_SURF write by path h begins.
EntryOf(h) == IF h \in {"ra", "raNull"} /\ V93 THEN "v93Find"
              ELSE IF h \in {"export", "export64", "raNull"} THEN "guard"
              ELSE "put"

WriteSurf(t, h, p, v) ==
  /\ pc[t] = "idle"
  /\ Goto(t, EntryOf(h))
  /\ plane' = [plane EXCEPT ![t] = p] /\ path' = [path EXCEPT ![t] = h]
  /\ val' = [val EXCEPT ![t] = v] /\ asked' = [asked EXCEPT ![t] = v]
  /\ slot' = [slot EXCEPT ![t] = IF EntryOf(h) = "v93Find" THEN 1 ELSE NoSlot]
  /\ UNCHANGED <<regs, v93States, history, seen>>

\* One write of PLANE_CTL; FastWriteRegister32 clears the tiling field of the
\* plane at 0x70180.  Only the monitor looks at the tiling, and at that plane's,
\* and writeReg64 does not reach PLANE_CTL.
WriteCtl(t, h, p, bits) ==
  /\ pc[t] = "idle" /\ h # "export64"
  /\ "tiled" \in bits => p = MonitorPlane /\ Monitors # {}
  /\ SetCtl(p, IF h = "fast" /\ p = MonitorPlane THEN bits \ {"tiled"} ELSE bits)
  /\ wanted' = IF p = MonitorPlane THEN "on" \in bits ELSE wanted
  /\ UNCHANGED <<v93States, pc, locals>>

\* A guard turns t's plane off.
TurnOff(t) ==
  /\ SetCtl(plane[t], seen[t] \ {"on"})
  /\ wanted' = (wanted /\ plane[t] # MonitorPlane)

-----------------------------------------------------------------------------
(* raWriteRegister32's V93 guard.                                          *)

\* What follows the guard: Apple's write, or writeReg32 and its own guard.
After(t) == IF path[t] = "raNull" THEN "guard" ELSE "put"

\* What follows getV93State.
Found(t) == IF val[t] # Zero THEN "v93Store" ELSE "v93Ctl"

\* t goes on at l with slot i.
Look(t, i, l) ==
  /\ slot' = [slot EXCEPT ![t] = i]
  /\ Goto(t, l)
  /\ UNCHANGED <<regs, v93States, history, plane, path, val, asked, seen>>

\* getV93State: look for the plane's slot, then for a free one.
V93Find(t) ==
  LET i == slot[t] IN
  /\ pc[t] = "v93Find"
  /\ IF slotReg[i] = plane[t] THEN Look(t, i, Found(t))
     ELSE IF i < Slots THEN Look(t, i + 1, "v93Find")
     ELSE Look(t, 1, "v93Free")

V93Free(t) ==
  LET i == slot[t] IN
  /\ pc[t] = "v93Free"
  /\ IF slotReg[i] = NoPlane THEN Look(t, i, "v93Claim")
     ELSE IF i < Slots THEN Look(t, i + 1, "v93Free")
     ELSE Look(t, NoSlot, Found(t))

\* Claim the free slot, then clear its surface.
V93Claim(t) ==
  /\ pc[t] = "v93Claim"
  /\ slotReg' = [slotReg EXCEPT ![slot[t]] = plane[t]]
  /\ Goto(t, "v93Clear")
  /\ UNCHANGED <<regs, slotLast, history, locals>>

V93Clear(t) ==
  /\ pc[t] = "v93Clear"
  /\ slotLast' = [slotLast EXCEPT ![slot[t]] = Zero]
  /\ raced' = raced \cup {x \in Threads : pc[x] = "v93Use" /\ slot[x] = slot[t]}
  /\ Goto(t, Found(t))
  /\ UNCHANGED <<regs, slotReg, wanted, locals>>

\* Leave the guard with value v; the slot is forgotten.
Pass(t, v) ==
  /\ val' = [val EXCEPT ![t] = v] /\ slot' = [slot EXCEPT ![t] = NoSlot]
  /\ Goto(t, After(t))
  /\ UNCHANGED <<plane, path, asked>>

\* Mutant: a non-zero write is cached only when the slot is empty.
MutV93Store(t) ==
  /\ pc[t] = "v93Store"
  /\ slotLast' = IF slot[t] = NoSlot \/ slotLast[slot[t]] # Zero
                   THEN slotLast ELSE [slotLast EXCEPT ![slot[t]] = val[t]]
  /\ Pass(t, val[t])
  /\ UNCHANGED <<regs, slotReg, history, seen>>

\* Cache a surface that is not zero.
V93Store(t) ==
  /\ pc[t] = "v93Store"
  /\ slotLast' = IF slot[t] = NoSlot
                   THEN slotLast ELSE [slotLast EXCEPT ![slot[t]] = val[t]]
  /\ Pass(t, val[t])
  /\ UNCHANGED <<regs, slotReg, history, seen>>

\* On a zero write read PLANE_CTL; a plane that is off takes the zero.
V93ReadCtl(t) ==
  LET bits == ctl[plane[t]] IN
  /\ pc[t] = "v93Ctl"
  /\ IF "on" \notin bits
     THEN Pass(t, val[t]) /\ UNCHANGED seen
     ELSE /\ seen' = [seen EXCEPT ![t] = bits]
          /\ Goto(t, IF slot[t] # NoSlot THEN "v93Cached" ELSE "v93Surf")
          /\ UNCHANGED <<plane, path, val, asked, slot>>
  /\ UNCHANGED <<regs, v93States, history>>

\* Is a surface cached?  Its use is another read of the cache.
V93TestCached(t) ==
  /\ pc[t] = "v93Cached"
  /\ Look(t, slot[t], IF slotLast[slot[t]] # Zero THEN "v93Use" ELSE "v93Surf")

V93UseCached(t) ==
  /\ pc[t] = "v93Use"
  /\ Pass(t, slotLast[slot[t]])
  /\ seen' = [seen EXCEPT ![t] = {}]
  /\ UNCHANGED <<regs, v93States, history>>

\* Nothing cached: take the surface the register holds, or turn the plane off.
V93ReadSurf(t) ==
  LET v == surf[plane[t]] IN
  /\ pc[t] = "v93Surf"
  /\ val' = [val EXCEPT ![t] = v]
  /\ Goto(t, IF v # Zero THEN "v93Store" ELSE "v93Off")
  /\ seen' = [seen EXCEPT ![t] = IF v # Zero THEN {} ELSE @]
  /\ UNCHANGED <<regs, v93States, history, plane, path, asked, slot>>

V93Disable(t) ==
  /\ pc[t] = "v93Off"
  /\ TurnOff(t)
  /\ Pass(t, val[t])
  /\ seen' = [seen EXCEPT ![t] = {}]
  /\ UNCHANGED v93States

-----------------------------------------------------------------------------
(* The guard of writeReg32 and writeReg64.                                 *)

\* Mutant: the guard looks at the surface only, not at the plane.
MutGuardCheck(t) ==
  /\ pc[t] = "guard"
  /\ Goto(t, "put")
  /\ raced' = raced \ {t}
  /\ UNCHANGED <<regs, v93States, wanted, locals>>

GuardCheck(t) ==
  LET bits == ctl[plane[t]] IN
  /\ pc[t] = "guard"
  /\ IF val[t] = Zero /\ "on" \in bits
     THEN seen' = [seen EXCEPT ![t] = bits] /\ Goto(t, "guardSurf")
     ELSE UNCHANGED seen /\ Goto(t, "put")
  /\ raced' = raced \ {t}
  /\ UNCHANGED <<regs, v93States, wanted, plane, path, val, asked, slot>>

GuardReadSurf(t) ==
  LET v == surf[plane[t]] IN
  /\ pc[t] = "guardSurf"
  /\ val' = [val EXCEPT ![t] = v]
  /\ Goto(t, IF v # Zero THEN "put" ELSE "guardOff")
  /\ UNCHANGED <<regs, v93States, history, plane, path, asked, seen, slot>>

GuardDisable(t) ==
  /\ pc[t] = "guardOff"
  /\ TurnOff(t)
  /\ Goto(t, "put")
  /\ UNCHANGED <<v93States, locals>>

\* The write itself; V79 is the only part of the monitor that gets here.
Put(t) ==
  /\ pc[t] = "put"
  /\ IF path[t] = "export64" THEN UNCHANGED regs ELSE Arm(plane[t], val[t])
  /\ raced' = raced \ {t}
  /\ Goto(t, IF t \in Monitors THEN "v88" ELSE "idle")
  /\ plane' = [plane EXCEPT ![t] = MonitorPlane]
  /\ path' = [path EXCEPT ![t] = "export"]
  /\ val' = [val EXCEPT ![t] = Zero] /\ asked' = [asked EXCEPT ![t] = Zero]
  /\ seen' = [seen EXCEPT ![t] = {}]
  /\ UNCHANGED <<v93States, wanted, slot>>

-----------------------------------------------------------------------------
(* v60GpuHealthMonitor, experiments on the plane at 0x70180.               *)

\* V79: a tiled plane is made linear and re-armed with the surface it has.
V79Read(t) ==
  /\ pc[t] = "v79"
  /\ IF "tiled" \in ctl[MonitorPlane]
     THEN seen' = [seen EXCEPT ![t] = ctl[MonitorPlane]] /\ Goto(t, "v79Ctl")
     ELSE UNCHANGED seen /\ Goto(t, "v88")
  /\ UNCHANGED <<regs, v93States, history, plane, path, val, asked, slot>>

V79WriteCtl(t) ==
  /\ pc[t] = "v79Ctl"
  /\ SetCtl(MonitorPlane, seen[t] \ {"tiled"})
  /\ Goto(t, "v79Surf")
  /\ UNCHANGED <<v93States, wanted, locals>>

V79ReadSurf(t) ==
  /\ pc[t] = "v79Surf"
  /\ val' = [val EXCEPT ![t] = surf[MonitorPlane]]
  /\ Goto(t, "guard")
  /\ UNCHANGED <<regs, v93States, history, plane, path, asked, seen, slot>>

\* V88: remember the surface and fill its pages; if one could be filled, re-arm
\* it (never with zero), and in the fifth round turn the plane off and on again.
V88Read(t) ==
  LET v == surf[MonitorPlane] IN
  /\ pc[t] = "v88"
  /\ \/ /\ v # Zero
        /\ val' = [val EXCEPT ![t] = v] /\ Goto(t, "v88Arm")
     \/ UNCHANGED val /\ Goto(t, "v79")     \* filled = 0, or nothing to arm
  /\ UNCHANGED <<regs, v93States, history, plane, path, asked, seen, slot>>

V88Write(t, at, next) ==
  /\ pc[t] = at /\ Arm(MonitorPlane, val[t]) /\ Goto(t, next)
  /\ UNCHANGED <<v93States, history, locals>>

\* The last write of V88.
V88Ends(t, at) ==
  /\ pc[t] = at /\ Arm(MonitorPlane, val[t]) /\ Goto(t, "v79")
  /\ val' = [val EXCEPT ![t] = Zero] /\ seen' = [seen EXCEPT ![t] = {}]
  /\ UNCHANGED <<v93States, history, plane, path, asked, slot>>

ToggleRead(t) ==
  /\ pc[t] = "toggle"
  /\ seen' = [seen EXCEPT ![t] = ctl[MonitorPlane]]
  /\ Goto(t, "toggleOff")
  /\ UNCHANGED <<regs, v93States, history, plane, path, val, asked, slot>>

\* Mutant: the plane is written as disabled both times.
MutToggleCtl(t, at, bits, next) ==
  /\ pc[t] = at /\ SetCtl(MonitorPlane, bits \ {"on"}) /\ Goto(t, next)
  /\ UNCHANGED <<v93States, wanted, locals>>

ToggleCtl(t, at, bits, next) ==
  /\ pc[t] = at /\ SetCtl(MonitorPlane, bits) /\ Goto(t, next)
  /\ UNCHANGED <<v93States, wanted, locals>>

Monitor(t) ==
  \/ V79Read(t) \/ V79WriteCtl(t) \/ V79ReadSurf(t) \/ V88Read(t)
  \/ V88Ends(t, "v88Arm") \/ V88Write(t, "v88Arm", "toggle")
  \/ ToggleRead(t)
  \/ ToggleCtl(t, "toggleOff", seen[t] \ {"on"}, "commitOff")
  \/ V88Write(t, "commitOff", "toggleOn")
  \/ ToggleCtl(t, "toggleOn", seen[t], "commitOn")
  \/ V88Ends(t, "commitOn")

-----------------------------------------------------------------------------
V93Guard(t) ==
  \/ V93Find(t) \/ V93Free(t) \/ V93Claim(t) \/ V93Clear(t)
  \/ V93Store(t) \/ V93ReadCtl(t) \/ V93TestCached(t) \/ V93UseCached(t)
  \/ V93ReadSurf(t) \/ V93Disable(t)

WriteReg(t) == GuardCheck(t) \/ GuardReadSurf(t) \/ GuardDisable(t)

Guards(t) == V93Guard(t) \/ WriteReg(t)

Driver(t) ==
  \E h \in Paths :
    \/ \E p \in Planes, v \in Surf0 : WriteSurf(t, h, p, v)
    \/ \E p \in Planes, bits \in SUBSET CtlBits : WriteCtl(t, h, p, bits)

Next ==
  \/ \E t \in Threads : Guards(t) \/ Put(t)
  \/ \E t \in Drivers : Driver(t)
  \/ \E t \in Monitors : Monitor(t)

Spec == Init /\ [][Next]_vars

\* The monitor's thread call runs to its end.
FairSpec ==
  Spec /\ \A t \in Monitors : WF_vars(Monitor(t) \/ Guards(t) \/ Put(t))

-----------------------------------------------------------------------------
(* Properties.                                                             *)

\* NGreen.hpp:96, "prevent enabled display planes from being armed with
\* SURF=0": no plane scans out from address zero.
ZeroNeverArmed == \A p \in liveOn : liveSurf[p] # Zero

\* The paths no guard looks at.
Unguarded == IF V93 THEN {"fast"} ELSE {"fast", "ra"}

\* What the guards do prevent: an enabled plane begins to scan out from zero only
\* by a write on a path without a guard, or by one whose decision was overtaken
\* by another thread.  Another thread enabled the plane after the guard found it
\* off or turned it off (NGreen.hpp:102-125, TGL.cpp:4313-4341), or cleared, for a
\* slot both had claimed, the cached surface between its test and its use
\* (TGL.cpp:4316-4321).  No number of retries, tiled planes, toggles or full slot
\* tables is another way.
ZeroNeedsRace ==
  [][\A p \in Planes :
       p \in liveOn' /\ liveSurf'[p] = Zero /\ ~(p \in liveOn /\ liveSurf[p] = Zero)
         => \E t \in Threads : /\ pc[t] = "put" /\ pc'[t] # "put" /\ plane[t] = p
                               /\ t \in raced \/ path[t] \in Unguarded]_vars

\* A blocked zero write keeps the picture: the guard re-arms the surface the
\* plane shows, if it shows one; it does not bring back another.  This is said
\* of the planes that only raWriteRegister32 writes, with or without a slot in
\* v93States, and not of the one the monitor re-arms behind its back.
GuardKeepsSurface ==
  [][\A t \in Drivers :
       pc[t] = "put" /\ pc'[t] # "put" /\ asked[t] = Zero /\ val[t] # Zero
       /\ plane[t] # MonitorPlane
         => surf[plane[t]] \in {Zero, surf'[plane[t]]}]_vars

\* The V88 toggle does not leave the screen dark: once it has committed the plane
\* as off, the plane is live again later, unless the driver wrote it off or asked
\* for a zero surface that made a guard turn it off.
PlaneComesBack ==
  \A t \in Monitors :
    pc[t] = "toggleOn" /\ "on" \in seen[t] ~> MonitorPlane \in liveOn \/ ~wanted
=============================================================================
