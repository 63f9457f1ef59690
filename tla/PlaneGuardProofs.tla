-------------------------- MODULE PlaneGuardProofs --------------------------
(***************************************************************************)
(* The guards of writeReg32 and raWriteRegister32, for any number of       *)
(* threads, planes, surfaces and cache slots, on every write path and with *)
(* the monitor running: an enabled plane is armed with zero only by a      *)
(* write without a guard or by one that another thread overtook.  And      *)
(* which surface a blocked write of zero brings back.                      *)
(***************************************************************************)
EXTENDS PlaneGuard, TLAPS

-----------------------------------------------------------------------------
(* Types.                                                                  *)

\* The registers, the cache and the threads start well formed.
LEMMA InitTyped == ASSUME Init PROVE TypeOK
<1>1. /\ ctl \in [Planes -> SUBSET CtlBits] /\ surf \in [Planes -> Surf0]
      /\ liveOn \subseteq Planes /\ liveSurf \in [Planes -> Surf0]
      /\ wanted \in BOOLEAN /\ raced \subseteq Threads
  BY Zenon DEF Init, Surf0, Zero
<1>2. /\ slotReg \in [1 .. Slots -> Planes \cup {NoPlane}]
      /\ slotLast \in [1 .. Slots -> Surf0]
  BY Zenon DEF Init, Surf0
<1>3. /\ pc \in [Threads -> PC]
      /\ plane \in [Threads -> Planes] /\ path \in [Threads -> AllPaths]
      /\ val \in [Threads -> Surf0] /\ asked \in [Threads -> Surf0]
      /\ seen \in [Threads -> SUBSET CtlBits]
  BY PlanesAssumption, Zenon DEF Init, Surf0, AllPaths, PC
<1>4. slot \in [Threads -> 0 .. Slots]
  BY PathsAssumption DEF Init, NoSlot
<1>. QED BY <1>1, <1>2, <1>3, <1>4, Zenon DEF TypeOK

\* Writes of PLANE_CTL and PLANE_SURF keep the registers' types.
LEMMA RegistersTyped ==
  ASSUME TypeOK, NEW p \in Planes
  PROVE  /\ \A bits \in SUBSET CtlBits :
              SetCtl(p, bits) => /\ ctl' \in [Planes -> SUBSET CtlBits]
                                 /\ raced' \subseteq Threads
                                 /\ UNCHANGED <<surf, liveOn, liveSurf>>
         /\ \A v \in Surf0 :
              Arm(p, v) => /\ surf' \in [Planes -> Surf0] /\ liveOn' \subseteq Planes
                           /\ liveSurf' \in [Planes -> Surf0] /\ ctl' = ctl
<1>1. ASSUME NEW bits \in SUBSET CtlBits, SetCtl(p, bits)
      PROVE  ctl' \in [Planes -> SUBSET CtlBits] /\ raced' \subseteq Threads
  BY <1>1 DEF TypeOK, SetCtl
<1>2. ASSUME NEW v \in Surf0, Arm(p, v)
      PROVE  /\ surf' \in [Planes -> Surf0] /\ liveOn' \subseteq Planes
             /\ liveSurf' \in [Planes -> Surf0]
  BY <1>2 DEF TypeOK, Arm
<1>. QED BY <1>1, <1>2, Zenon DEF SetCtl, Arm

\* What a thread in the middle of its write has in its locals.
LEMMA LocalTypes ==
  ASSUME TypeOK, NEW t \in Threads
  PROVE  /\ plane[t] \in Planes /\ val[t] \in Surf0 /\ surf[plane[t]] \in Surf0
         /\ seen[t] \in SUBSET CtlBits /\ seen[t] \ {"on"} \in SUBSET CtlBits
         /\ seen[t] \ {"tiled"} \in SUBSET CtlBits
         /\ ctl[plane[t]] \in SUBSET CtlBits /\ slot[t] \in 0 .. Slots
         /\ After(t) \in PC /\ Found(t) \in PC
         /\ surf[MonitorPlane] \in Surf0 /\ ctl[MonitorPlane] \in SUBSET CtlBits
<1>1. After(t) \in PC /\ Found(t) \in PC BY Zenon DEF After, Found, PC
<1>2. /\ plane[t] \in Planes /\ val[t] \in Surf0 /\ seen[t] \in SUBSET CtlBits
      /\ slot[t] \in 0 .. Slots /\ MonitorPlane \in Planes
  BY PlanesAssumption, Zenon DEF TypeOK
<1>3. /\ surf[plane[t]] \in Surf0 /\ ctl[plane[t]] \in SUBSET CtlBits
      /\ surf[MonitorPlane] \in Surf0 /\ ctl[MonitorPlane] \in SUBSET CtlBits
  BY <1>2, Zenon DEF TypeOK
<1>4. seen[t] \ {"on"} \in SUBSET CtlBits /\ seen[t] \ {"tiled"} \in SUBSET CtlBits
  BY <1>2, Zenon
<1>. QED BY <1>1, <1>2, <1>3, <1>4, Zenon

\* The V93 guard keeps the types.
LEMMA V93Typed ==
  ASSUME TypeOK, NEW t \in Threads, V93Guard(t),
         pc[t] \in {"v93Find", "v93Free", "v93Claim", "v93Clear", "v93Cached", "v93Use"}
           => slot[t] # NoSlot
  PROVE  TypeOK'
<1> USE DEF regs, v93States, history, locals
<1>0. /\ plane[t] \in Planes /\ val[t] \in Surf0 /\ surf[plane[t]] \in Surf0
      /\ seen[t] \in SUBSET CtlBits /\ seen[t] \ {"on"} \in SUBSET CtlBits
      /\ ctl[plane[t]] \in SUBSET CtlBits /\ slot[t] \in 0 .. Slots
      /\ After(t) \in PC /\ Found(t) \in PC
  BY LocalTypes
<1>1. ASSUME NEW i \in 0 .. Slots, NEW l \in PC, Look(t, i, l) PROVE TypeOK'
  BY <1>1, Zenon DEF Look, Goto, TypeOK
<1>2. ASSUME NEW v \in Surf0, Pass(t, v)
      PROVE  /\ pc' \in [Threads -> PC] /\ val' \in [Threads -> Surf0]
             /\ slot' \in [Threads -> 0 .. Slots]
             /\ UNCHANGED <<plane, path, asked>>
  <2>1. NoSlot \in 0 .. Slots BY PathsAssumption DEF NoSlot
  <2>. QED BY <1>0, <1>2, <2>1, Zenon DEF Pass, Goto, TypeOK
<1>3. 1 \in 0 .. Slots /\ NoSlot \in 0 .. Slots /\ (slot[t] < Slots => slot[t] + 1 \in 0 .. Slots)
  BY <1>0, PathsAssumption DEF NoSlot
<1>4. CASE V93Find(t) \/ V93Free(t)
  <2>1. {"v93Find", "v93Free", "v93Claim"} \subseteq PC BY DEF PC
  <2>. QED BY <1>0, <1>1, <1>3, <1>4, <2>1, Zenon DEF V93Find, V93Free
<1>5. slot[t] # NoSlot => slot[t] \in 1 .. Slots BY <1>0 DEF NoSlot
<1>6. CASE V93Claim(t)
  <2>1. slotReg' \in [1 .. Slots -> Planes \cup {NoPlane}]
    BY <1>0, <1>5, <1>6, Zenon DEF V93Claim, TypeOK
  <2>2. pc' \in [Threads -> PC] BY <1>6, Zenon DEF V93Claim, Goto, TypeOK, PC
  <2>. QED BY <1>6, <2>1, <2>2, Zenon DEF V93Claim, TypeOK
<1>7. CASE V93Clear(t)
  <2>1. slotLast' \in [1 .. Slots -> Surf0]
    BY <1>0, <1>5, <1>7, Zenon DEF V93Clear, TypeOK, Surf0
  <2>2. pc' \in [Threads -> PC] BY <1>0, <1>7, Zenon DEF V93Clear, Goto, TypeOK
  <2>3. raced' \subseteq Threads BY <1>7, Zenon DEF V93Clear, TypeOK
  <2>. QED BY <1>7, <2>1, <2>2, <2>3, Zenon DEF V93Clear, TypeOK
<1>8. CASE V93Store(t)
  <2>1. slotLast' \in [1 .. Slots -> Surf0]
    BY <1>0, <1>5, <1>8, Zenon DEF V93Store, TypeOK
  <2>. QED BY <1>0, <1>2, <1>8, <2>1, Zenon DEF V93Store, TypeOK
<1>9. CASE V93ReadCtl(t)
  <2>1. CASE "on" \notin ctl[plane[t]]
    BY <1>0, <1>2, <1>9, <2>1, Zenon DEF V93ReadCtl, TypeOK
  <2>2. CASE "on" \in ctl[plane[t]]
    <3>1. \E l \in PC : Goto(t, l) BY <1>9, <2>2, Zenon DEF V93ReadCtl, PC
    <3>2. seen' = [seen EXCEPT ![t] = ctl[plane[t]]]
          /\ UNCHANGED <<regs, v93States, history, plane, path, val, asked, slot>>
      BY <1>9, <2>2, Zenon DEF V93ReadCtl
    <3>. QED BY <1>0, <3>1, <3>2, Zenon DEF Goto, TypeOK
  <2>. QED BY <2>1, <2>2
<1>10. CASE V93TestCached(t)
  <2>1. {"v93Use", "v93Surf"} \subseteq PC BY DEF PC
  <2>. QED BY <1>0, <1>1, <1>10, <2>1, Zenon DEF V93TestCached
<1>11. CASE V93UseCached(t)
  <2>1. slotLast[slot[t]] \in Surf0 BY <1>5, <1>11, Zenon DEF V93UseCached, TypeOK
  <2>. QED BY <1>2, <1>11, <2>1, Zenon DEF V93UseCached, TypeOK
<1>12. CASE V93ReadSurf(t)
  <2>1. \E l \in PC : Goto(t, l) BY <1>12, Zenon DEF V93ReadSurf, PC
  <2>2. seen' \in [Threads -> SUBSET CtlBits]
    BY <1>0, <1>12, Zenon DEF V93ReadSurf, TypeOK
  <2>. QED BY <1>0, <1>12, <2>1, <2>2, Zenon DEF V93ReadSurf, Goto, TypeOK
<1>13. CASE V93Disable(t)
  <2>1. /\ ctl' \in [Planes -> SUBSET CtlBits] /\ raced' \subseteq Threads
        /\ UNCHANGED <<surf, liveOn, liveSurf>>
    BY <1>0, <1>13, RegistersTyped, Zenon DEF V93Disable, TurnOff
  <2>2. wanted' \in BOOLEAN BY <1>13, Zenon DEF V93Disable, TurnOff
  <2>. QED BY <1>0, <1>2, <1>13, <2>1, <2>2, Zenon DEF V93Disable, TypeOK
<1>. QED BY <1>4, <1>6, <1>7, <1>8, <1>9, <1>10, <1>11, <1>12, <1>13, Zenon DEF V93Guard

\* The guard of writeReg32 and the write itself keep the types.
LEMMA WriteRegTyped ==
  ASSUME TypeOK, NEW t \in Threads, WriteReg(t) \/ Put(t) PROVE TypeOK'
<1> USE DEF regs, v93States, history, locals
<1>0. /\ plane[t] \in Planes /\ val[t] \in Surf0 /\ surf[plane[t]] \in Surf0
      /\ seen[t] \ {"on"} \in SUBSET CtlBits /\ ctl[plane[t]] \in SUBSET CtlBits
  BY LocalTypes
<1>1. CASE GuardCheck(t)
  <2>1. \E l \in PC : Goto(t, l) BY <1>1, Zenon DEF GuardCheck, PC
  <2>2. seen' \in [Threads -> SUBSET CtlBits] BY <1>0, <1>1, Zenon DEF GuardCheck, TypeOK
  <2>3. raced' \subseteq Threads BY <1>1, Zenon DEF GuardCheck, TypeOK
  <2>. QED BY <1>1, <2>1, <2>2, <2>3, Zenon DEF GuardCheck, Goto, TypeOK
<1>2. CASE GuardReadSurf(t)
  <2>1. \E l \in PC : Goto(t, l) BY <1>2, Zenon DEF GuardReadSurf, PC
  <2>. QED BY <1>0, <1>2, <2>1, Zenon DEF GuardReadSurf, Goto, TypeOK
<1>3. CASE GuardDisable(t)
  <2>1. /\ ctl' \in [Planes -> SUBSET CtlBits] /\ raced' \subseteq Threads
        /\ UNCHANGED <<surf, liveOn, liveSurf>>
    BY <1>0, <1>3, RegistersTyped, Zenon DEF GuardDisable, TurnOff
  <2>2. wanted' \in BOOLEAN BY <1>3, Zenon DEF GuardDisable, TurnOff
  <2>3. pc' \in [Threads -> PC] BY <1>3, Zenon DEF GuardDisable, Goto, TypeOK, PC
  <2>. QED BY <1>3, <2>1, <2>2, <2>3, Zenon DEF GuardDisable, TypeOK
<1>4. CASE Put(t)
  <2>1. /\ surf' \in [Planes -> Surf0] /\ liveOn' \subseteq Planes
        /\ liveSurf' \in [Planes -> Surf0] /\ ctl' \in [Planes -> SUBSET CtlBits]
    <3>1. CASE path[t] = "export64" BY <1>4, <3>1, Zenon DEF Put, TypeOK
    <3>2. CASE path[t] # "export64"
      <4>1. Arm(plane[t], val[t]) BY <1>4, <3>2, Zenon DEF Put
      <4>. QED BY <1>0, <4>1, RegistersTyped, Zenon DEF TypeOK
    <3>. QED BY <3>1, <3>2
  <2>2. \E l \in PC : Goto(t, l) BY <1>4, Zenon DEF Put, PC
  <2>3. raced' \subseteq Threads BY <1>4, Zenon DEF Put, TypeOK
  <2>4. "export" \in AllPaths /\ Zero \in Surf0 /\ MonitorPlane \in Planes
    BY PlanesAssumption, Zenon DEF AllPaths, Surf0
  <2>. QED BY <1>4, <2>1, <2>2, <2>3, <2>4, Zenon DEF Put, Goto, TypeOK
<1>. QED BY <1>1, <1>2, <1>3, <1>4, Zenon DEF WriteReg

\* The driver's own operations keep the types.
LEMMA DriverTyped ==
  ASSUME TypeOK, NEW t \in Drivers, Driver(t) PROVE TypeOK'
<1> USE DEF regs, v93States, history, locals
<1>1. PICK h \in Paths :
        \/ \E p \in Planes, v \in Surf0 : WriteSurf(t, h, p, v)
        \/ \E p \in Planes, bits \in SUBSET CtlBits : WriteCtl(t, h, p, bits)
  BY Zenon DEF Driver
<1>2. h \in AllPaths /\ EntryOf(h) \in PC
  BY PathsAssumption, Zenon DEF EntryOf, PC
<1>3. ASSUME NEW p \in Planes, NEW v \in Surf0, WriteSurf(t, h, p, v) PROVE TypeOK'
  <2>1. 1 \in 0 .. Slots /\ NoSlot \in 0 .. Slots BY PathsAssumption DEF NoSlot
  <2>2. slot' \in [Threads -> 0 .. Slots] BY <1>3, <2>1, Zenon DEF WriteSurf, TypeOK
  <2>. QED BY <1>2, <1>3, <2>2, Zenon DEF WriteSurf, Goto, TypeOK
<1>4. ASSUME NEW p \in Planes, NEW bits \in SUBSET CtlBits, WriteCtl(t, h, p, bits)
      PROVE  TypeOK'
  <2> DEFINE b == IF h = "fast" /\ p = MonitorPlane THEN bits \ {"tiled"} ELSE bits
  <2>1. b \in SUBSET CtlBits /\ SetCtl(p, b) BY <1>4, Zenon DEF WriteCtl
  <2> HIDE DEF b
  <2>2. /\ ctl' \in [Planes -> SUBSET CtlBits] /\ raced' \subseteq Threads
        /\ UNCHANGED <<surf, liveOn, liveSurf>>
    BY <2>1, RegistersTyped, Zenon
  <2>3. wanted' \in BOOLEAN
    <3>1. wanted' = ("on" \in bits) \/ wanted' = wanted BY <1>4, Zenon DEF WriteCtl
    <3>2. ("on" \in bits) \in BOOLEAN OBVIOUS
    <3>. QED BY <3>1, <3>2, Zenon DEF TypeOK
  <2>. QED BY <1>4, <2>2, <2>3, Zenon DEF WriteCtl, TypeOK
<1>. QED BY <1>1, <1>3, <1>4, Zenon

\* The monitor's experiments keep the types.
LEMMA MonitorTyped ==
  ASSUME TypeOK, NEW t \in Monitors, Monitor(t) PROVE TypeOK'
<1> USE DEF regs, v93States, history, locals
<1>0. /\ t \in Threads /\ MonitorPlane \in Planes /\ val[t] \in Surf0
      /\ surf[MonitorPlane] \in Surf0 /\ ctl[MonitorPlane] \in SUBSET CtlBits
      /\ seen[t] \in SUBSET CtlBits /\ seen[t] \ {"on"} \in SUBSET CtlBits
      /\ seen[t] \ {"tiled"} \in SUBSET CtlBits
  <2>1. t \in Threads BY Zenon DEF Threads
  <2>. QED BY <2>1, LocalTypes, PlanesAssumption, Zenon
<1>1. CASE V79Read(t) \/ ToggleRead(t)
  <2>1. \E l \in PC : Goto(t, l) BY <1>1, Zenon DEF V79Read, ToggleRead, PC
  <2>2. seen' \in [Threads -> SUBSET CtlBits]
    BY <1>0, <1>1, Zenon DEF V79Read, ToggleRead, TypeOK
  <2>3. pc' \in [Threads -> PC] BY <2>1, Zenon DEF Goto, TypeOK
  <2>4. UNCHANGED <<regs, v93States, history, plane, path, val, asked, slot>>
    BY <1>1, Zenon DEF V79Read, ToggleRead
  <2>. QED BY <2>2, <2>3, <2>4, Zenon DEF TypeOK
<1>2. ASSUME NEW bits \in SUBSET CtlBits, NEW l \in PC, SetCtl(MonitorPlane, bits),
             Goto(t, l), UNCHANGED <<v93States, wanted, locals>>
      PROVE  TypeOK'
  <2>1. /\ ctl' \in [Planes -> SUBSET CtlBits] /\ raced' \subseteq Threads
        /\ UNCHANGED <<surf, liveOn, liveSurf>>
    BY <1>0, <1>2, RegistersTyped, Zenon
  <2>. QED BY <1>2, <2>1, Zenon DEF Goto, TypeOK
<1>3. {"v79Surf", "v79", "toggle", "toggleOn", "commitOff", "commitOn"} \subseteq PC BY DEF PC
<1>4. CASE V79WriteCtl(t) BY <1>0, <1>2, <1>3, <1>4, Zenon DEF V79WriteCtl
<1>5. CASE V79ReadSurf(t)
  <2>1. pc' \in [Threads -> PC] BY <1>5, Zenon DEF V79ReadSurf, Goto, TypeOK, PC
  <2>. QED BY <1>0, <1>5, <2>1, Zenon DEF V79ReadSurf, TypeOK
<1>6. CASE V88Read(t)
  <2>1. \E l \in PC : Goto(t, l) BY <1>6, Zenon DEF V88Read, PC
  <2>2. val' \in [Threads -> Surf0] BY <1>0, <1>6, Zenon DEF V88Read, TypeOK
  <2>. QED BY <1>6, <2>1, <2>2, Zenon DEF V88Read, Goto, TypeOK
<1>7. ASSUME Arm(MonitorPlane, val[t])
      PROVE  /\ surf' \in [Planes -> Surf0] /\ liveOn' \subseteq Planes
             /\ liveSurf' \in [Planes -> Surf0] /\ ctl' = ctl
  BY <1>0, <1>7, RegistersTyped, Zenon
<1>8. ASSUME NEW at, NEW l \in PC, V88Write(t, at, l) PROVE TypeOK'
  BY <1>7, <1>8, Zenon DEF V88Write, Goto, TypeOK
<1>9. ASSUME NEW at, V88Ends(t, at) PROVE TypeOK'
  <2>1. Zero \in Surf0 BY Zenon DEF Surf0
  <2>. QED BY <1>3, <1>7, <1>9, <2>1, Zenon DEF V88Ends, Goto, TypeOK
<1>10. ASSUME NEW at, NEW bits \in SUBSET CtlBits, NEW l \in PC, ToggleCtl(t, at, bits, l)
       PROVE  TypeOK'
  BY <1>2, <1>10, Zenon DEF ToggleCtl
<1>. QED BY <1>0, <1>1, <1>3, <1>4, <1>5, <1>6, <1>8, <1>9, <1>10, Zenon DEF Monitor

-----------------------------------------------------------------------------
(* Who may arm zero.                                                       *)

AtSlot == {"v93Find", "v93Free", "v93Claim", "v93Clear", "v93Cached", "v93Use"}
InV88 == {"v88Arm", "toggle", "toggleOff", "commitOff", "toggleOn", "commitOn"}

\* A thread about to write zero behind a guard has found its plane off, or turned
\* it off, and it has been off since, or another thread overtook it.  A thread
\* about to use a cached surface has one, or it was overtaken.
Decided(t) ==
  /\ pc[t] = "put" /\ val[t] = Zero /\ path[t] \notin Unguarded =>
       "on" \notin ctl[plane[t]] \/ t \in raced
  /\ pc[t] = "v93Use" => slotLast[slot[t]] # Zero \/ t \in raced
  /\ pc[t] \in AtSlot => slot[t] # NoSlot
  /\ pc[t] = "v93Store" => val[t] # Zero
  /\ pc[t] \in InV88 => val[t] # Zero

IInv == TypeOK /\ \A t \in Threads : Decided(t)

\* A step of t leaves the other threads' locals alone.
Local(t) ==
  \A x \in Threads \ {t} :
    /\ pc'[x] = pc[x] /\ plane'[x] = plane[x] /\ path'[x] = path[x]
    /\ val'[x] = val[x] /\ asked'[x] = asked[x] /\ slot'[x] = slot[x]

\* Every step is some thread's, and touches no other thread's locals.
LEMMA StepsAreLocal ==
  ASSUME TypeOK, NEW t \in Threads,
         Guards(t) \/ Put(t) \/ (t \in Drivers /\ Driver(t)) \/ (t \in Monitors /\ Monitor(t))
  PROVE  Local(t)
<1> USE DEF locals
<1>1. ASSUME NEW f, NEW f1, NEW x \in Threads \ {t},
             \E S : f \in [Threads -> S],
             f1 = f \/ \E v : f1 = [f EXCEPT ![t] = v]
      PROVE  f1[x] = f[x]
  BY <1>1, Zenon
<1> DEFINE Moved(f, f1) == f1 = f \/ \E v : f1 = [f EXCEPT ![t] = v]
<1>2. ASSUME Moved(pc, pc'), Moved(plane, plane'), Moved(path, path'), Moved(val, val'),
             Moved(asked, asked'), Moved(slot, slot')
      PROVE  Local(t)
  BY <1>1, <1>2, Zenon DEF Local, TypeOK
<1>3. CASE V93Find(t) \/ V93Free(t) \/ V93TestCached(t)
  <2>1. \E i, l : Look(t, i, l) BY <1>3, Zenon DEF V93Find, V93Free, V93TestCached
  <2>. QED BY <1>2, <2>1, Zenon DEF Look, Goto
<1>4. CASE V93Claim(t) \/ V93Clear(t)
  BY <1>2, <1>4, Zenon DEF V93Claim, V93Clear, Goto
<1>5. ASSUME NEW v, Pass(t, v) PROVE Local(t)
  BY <1>2, <1>5, Zenon DEF Pass, Goto
<1>6. CASE V93Store(t) \/ V93UseCached(t) \/ V93Disable(t)
  BY <1>5, <1>6, Zenon DEF V93Store, V93UseCached, V93Disable
<1>7. CASE V93ReadCtl(t)
  <2>1. CASE "on" \notin ctl[plane[t]] BY <1>5, <1>7, <2>1, Zenon DEF V93ReadCtl
  <2>2. CASE "on" \in ctl[plane[t]] BY <1>2, <1>7, <2>2, Zenon DEF V93ReadCtl, Goto
  <2>. QED BY <2>1, <2>2
<1>8. CASE V93ReadSurf(t) BY <1>2, <1>8, Zenon DEF V93ReadSurf, Goto
<1>9. CASE WriteReg(t)
  BY <1>2, <1>9, Zenon DEF WriteReg, GuardCheck, GuardReadSurf, GuardDisable, Goto
<1>10. CASE Put(t) BY <1>2, <1>10, Zenon DEF Put, Goto
<1>11. CASE Driver(t)
  BY <1>2, <1>11, Zenon DEF Driver, WriteSurf, WriteCtl, Goto
<1>12. CASE V79Read(t) \/ V79WriteCtl(t) \/ V79ReadSurf(t) \/ V88Read(t) \/ ToggleRead(t)
  BY <1>2, <1>12, Zenon DEF V79Read, V79WriteCtl, V79ReadSurf, V88Read, ToggleRead, Goto
<1>13. ASSUME NEW at, NEW l, V88Write(t, at, l) PROVE Local(t)
  BY <1>2, <1>13, Zenon DEF V88Write, Goto
<1>14. ASSUME NEW at, V88Ends(t, at) PROVE Local(t) BY <1>2, <1>14, Zenon DEF V88Ends, Goto
<1>15. ASSUME NEW at, NEW b, NEW l, ToggleCtl(t, at, b, l) PROVE Local(t)
  BY <1>2, <1>15, Zenon DEF ToggleCtl, Goto
<1>16. CASE Monitor(t) BY <1>12, <1>13, <1>14, <1>15, <1>16, Zenon DEF Monitor
<1>. QED BY <1>3, <1>4, <1>6, <1>7, <1>8, <1>9, <1>10, <1>11, <1>16, Zenon DEF Guards, V93Guard

\* What a step of t may do to the others: take a thread out of no race but its
\* own, and turn a plane on, or empty a slot, only by overtaking who relies on it.
Harmless(t) ==
  /\ raced \ {t} \subseteq raced'
  /\ \A x \in Threads \ {t} :
       /\ pc[x] = "put" /\ "on" \in ctl'[plane[x]] =>
            "on" \in ctl[plane[x]] \/ x \in raced'
       /\ pc[x] = "v93Use" /\ slotLast'[slot[x]] = Zero =>
            slotLast[slot[x]] = Zero \/ x \in raced'

\* A harmless step of t that keeps its own decision keeps everyone's.
LEMMA AllDecided ==
  ASSUME IInv, NEW t \in Threads, Local(t), Harmless(t), Decided(t)'
  PROVE  \A x \in Threads : Decided(x)'
<1> SUFFICES ASSUME NEW x \in Threads \ {t} PROVE Decided(x)'
  BY Zenon
<1>1. Decided(x) BY Zenon DEF IInv
<1>2. /\ pc'[x] = pc[x] /\ plane'[x] = plane[x] /\ path'[x] = path[x]
      /\ val'[x] = val[x] /\ slot'[x] = slot[x]
  BY Zenon DEF Local
<1>3. x \in raced => x \in raced' BY Zenon DEF Harmless
<1>. QED BY <1>1, <1>2, <1>3, Zenon DEF Harmless, Decided, Unguarded

\* Writing PLANE_CTL overtakes the threads about to write the plane's surface.
LEMMA SetCtlHarmless ==
  ASSUME TypeOK, NEW t \in Threads, NEW p \in Planes, NEW bits, SetCtl(p, bits),
         slotLast' = slotLast
  PROVE  Harmless(t)
<1>1. raced \subseteq raced' BY Zenon DEF SetCtl
<1>2. ASSUME NEW x \in Threads, pc[x] = "put", "on" \in ctl'[plane[x]]
      PROVE  "on" \in ctl[plane[x]] \/ x \in raced'
  <2>1. CASE plane[x] = p /\ "on" \in bits BY <1>2, <2>1, Zenon DEF SetCtl
  <2>2. CASE plane[x] = p /\ "on" \notin bits
    BY <1>2, <2>2, Zenon DEF SetCtl, TypeOK
  <2>3. CASE plane[x] # p BY <1>2, <2>3, Zenon DEF SetCtl, TypeOK
  <2>. QED BY <2>1, <2>2, <2>3
<1>. QED BY <1>1, <1>2, Zenon DEF Harmless

\* A step that leaves PLANE_CTL, the cache and the other threads' races alone.
LEMMA QuietHarmless ==
  ASSUME NEW t \in Threads, ctl' = ctl, slotLast' = slotLast, raced \ {t} \subseteq raced'
  PROVE  Harmless(t)
BY Zenon DEF Harmless

\* The V93 guard: a zero passes it on a plane seen off or turned off, or by a
\* cached surface that another thread cleared.
LEMMA V93Decides ==
  ASSUME IInv, NEW t \in Threads, V93Guard(t)
  PROVE  Harmless(t) /\ Decided(t)'
<1> USE DEF regs, v93States, history, locals
<1>0. /\ TypeOK /\ Decided(t) /\ plane[t] \in Planes /\ slot[t] \in 0 .. Slots
      /\ pc \in [Threads -> PC] /\ slot \in [Threads -> 0 .. Slots]
      /\ val \in [Threads -> Surf0] /\ ctl \in [Planes -> SUBSET CtlBits]
      /\ slotLast \in [1 .. Slots -> Surf0]
  BY Zenon DEF IInv, TypeOK
<1>1. pc[t] \in AtSlot => slot[t] # NoSlot /\ slot[t] \in 1 .. Slots
  <2>1. slot[t] # NoSlot => slot[t] \in 1 .. Slots BY <1>0 DEF NoSlot
  <2>. QED BY <1>0, <2>1, Zenon DEF Decided
<1>2. 1 # NoSlot /\ slot[t] + 1 # NoSlot BY <1>0 DEF NoSlot
<1>3. Found(t) = IF val[t] # Zero THEN "v93Store" ELSE "v93Ctl" BY Zenon DEF Found
<1>4. After(t) = "guard" \/ After(t) = "put" BY Zenon DEF After
<1>5. ASSUME NEW i, NEW l, Look(t, i, l)
      PROVE  /\ pc'[t] = l /\ slot'[t] = i /\ val' = val
             /\ ctl' = ctl /\ slotLast' = slotLast /\ raced' = raced
  BY <1>0, <1>5, Zenon DEF Look, Goto
<1>6. ASSUME NEW v, Pass(t, v)
      PROVE  pc'[t] = After(t) /\ val'[t] = v /\ plane' = plane /\ path' = path
  BY <1>0, <1>6, Zenon DEF Pass, Goto
<1>7. CASE V93Find(t)
  <2>1. pc[t] \in AtSlot BY <1>7, Zenon DEF V93Find, AtSlot
  <2>2. CASE slotReg[slot[t]] = plane[t]
    <3>1. Look(t, slot[t], Found(t)) BY <1>7, <2>2, Zenon DEF V93Find
    <3>. QED BY <1>3, <1>5, <3>1, QuietHarmless, Zenon DEF Decided, AtSlot, InV88
  <2>3. CASE slotReg[slot[t]] # plane[t]
    <3>1. \/ Look(t, slot[t] + 1, "v93Find") \/ Look(t, 1, "v93Free")
      BY <1>7, <2>3, Zenon DEF V93Find
    <3>2. /\ pc'[t] = "v93Find" \/ pc'[t] = "v93Free"
          /\ slot'[t] # NoSlot /\ ctl' = ctl /\ slotLast' = slotLast /\ raced' = raced
      BY <1>2, <1>5, <3>1, Zenon
    <3>. QED BY <3>2, QuietHarmless, Zenon DEF Decided, AtSlot, InV88
  <2>. QED BY <2>2, <2>3
<1>8. CASE V93Free(t)
  <2>1. slot[t] # NoSlot BY <1>1, <1>8, Zenon DEF V93Free, AtSlot
  <2>2. \/ Look(t, slot[t], "v93Claim") \/ Look(t, slot[t] + 1, "v93Free")
        \/ Look(t, NoSlot, Found(t))
    BY <1>8, Zenon DEF V93Free
  <2>3. /\ \/ (pc'[t] = "v93Claim" \/ pc'[t] = "v93Free") /\ slot'[t] # NoSlot
           \/ pc'[t] = Found(t) /\ val' = val
        /\ ctl' = ctl /\ slotLast' = slotLast /\ raced' = raced
    BY <1>2, <1>5, <2>1, <2>2, Zenon
  <2>. QED BY <1>3, <2>3, QuietHarmless, Zenon DEF Decided, AtSlot, InV88
<1>9. CASE V93Claim(t)
  <2>1. /\ pc'[t] = "v93Clear" /\ slot' = slot /\ slot[t] # NoSlot
        /\ ctl' = ctl /\ slotLast' = slotLast /\ raced' = raced
    BY <1>0, <1>1, <1>9, Zenon DEF V93Claim, Goto, AtSlot
  <2>. QED BY <2>1, QuietHarmless, Zenon DEF Decided, AtSlot, InV88
<1>10. CASE V93Clear(t)
  <2>1. /\ pc'[t] = Found(t) /\ val' = val /\ ctl' = ctl
        /\ slotLast' = [slotLast EXCEPT ![slot[t]] = Zero]
        /\ raced' = raced \cup {x \in Threads : pc[x] = "v93Use" /\ slot[x] = slot[t]}
    BY <1>0, <1>10, Zenon DEF V93Clear, Goto
  <2>2. Decided(t)' BY <1>3, <2>1, Zenon DEF Decided, AtSlot, InV88
  <2>3. ASSUME NEW x \in Threads, pc[x] = "v93Use", slotLast'[slot[x]] = Zero
        PROVE  slotLast[slot[x]] = Zero \/ x \in raced'
    <3>1. slot[x] \in 1 .. Slots
      <4>1. slot[x] \in 0 .. Slots /\ slot[x] # NoSlot
        BY <1>0, <2>3, Zenon DEF IInv, Decided, AtSlot
      <4>. QED BY <4>1 DEF NoSlot
    <3>2. CASE slot[x] = slot[t] BY <2>1, <2>3, <3>2, Zenon
    <3>3. CASE slot[x] # slot[t] BY <1>0, <2>1, <2>3, <3>1, <3>3, Zenon
    <3>. QED BY <3>2, <3>3
  <2>. QED BY <2>1, <2>2, <2>3, Zenon DEF Harmless
<1>11. CASE V93Store(t)
  <2>1. /\ val[t] # Zero /\ Pass(t, val[t]) /\ ctl' = ctl /\ raced' = raced
        /\ slotLast' = slotLast \/ slotLast' = [slotLast EXCEPT ![slot[t]] = val[t]]
    BY <1>0, <1>11, Zenon DEF V93Store, Decided
  <2>2. Decided(t)' BY <1>4, <1>6, <2>1, Zenon DEF Decided, AtSlot, InV88
  <2>3. ASSUME NEW x \in Threads, pc[x] = "v93Use", slotLast'[slot[x]] = Zero
        PROVE  slotLast[slot[x]] = Zero
    <3>1. slot[x] \in 1 .. Slots
      <4>1. slot[x] \in 0 .. Slots /\ slot[x] # NoSlot
        BY <1>0, <2>3, Zenon DEF IInv, Decided, AtSlot
      <4>. QED BY <4>1 DEF NoSlot
    <3>. QED BY <1>0, <2>1, <2>3, <3>1, Zenon
  <2>. QED BY <2>1, <2>2, <2>3, Zenon DEF Harmless
<1>12. CASE V93ReadCtl(t)
  <2>1. ctl' = ctl /\ slotLast' = slotLast /\ raced' = raced /\ pc[t] = "v93Ctl"
    BY <1>12, Zenon DEF V93ReadCtl
  <2>2. CASE "on" \notin ctl[plane[t]]
    <3>1. Pass(t, val[t]) BY <1>12, <2>2, Zenon DEF V93ReadCtl
    <3>. QED BY <1>4, <1>6, <2>1, <2>2, <3>1, QuietHarmless, Zenon DEF Decided, AtSlot, InV88
  <2>3. CASE "on" \in ctl[plane[t]]
    <3>1. /\ pc'[t] = IF slot[t] # NoSlot THEN "v93Cached" ELSE "v93Surf"
          /\ slot' = slot
      BY <1>0, <1>12, <2>3, Zenon DEF V93ReadCtl, Goto
    <3>. QED BY <2>1, <3>1, QuietHarmless, Zenon DEF Decided, AtSlot, InV88
  <2>. QED BY <2>2, <2>3
<1>13. CASE V93TestCached(t)
  <2>1. /\ slot[t] # NoSlot
        /\ Look(t, slot[t], IF slotLast[slot[t]] # Zero THEN "v93Use" ELSE "v93Surf")
    BY <1>1, <1>13, Zenon DEF V93TestCached, AtSlot
  <2>2. /\ pc'[t] = IF slotLast[slot[t]] # Zero THEN "v93Use" ELSE "v93Surf"
        /\ slot'[t] = slot[t] /\ ctl' = ctl /\ slotLast' = slotLast /\ raced' = raced
    BY <1>5, <2>1, Zenon
  <2>. QED BY <2>1, <2>2, QuietHarmless, Zenon DEF Decided, AtSlot, InV88
<1>14. CASE V93UseCached(t)
  <2>1. /\ Pass(t, slotLast[slot[t]]) /\ ctl' = ctl /\ slotLast' = slotLast
        /\ raced' = raced
        /\ slotLast[slot[t]] # Zero \/ t \in raced
    BY <1>0, <1>14, Zenon DEF V93UseCached, Decided
  <2>2. /\ pc'[t] = "guard" \/ pc'[t] = "put"
        /\ val'[t] # Zero \/ t \in raced'
    BY <1>4, <1>6, <2>1, Zenon
  <2>. QED BY <2>1, <2>2, QuietHarmless, Zenon DEF Decided, AtSlot, InV88
<1>15. CASE V93ReadSurf(t)
  <2>1. /\ val'[t] = surf[plane[t]] /\ ctl' = ctl /\ slotLast' = slotLast /\ raced' = raced
        /\ pc'[t] = IF surf[plane[t]] # Zero THEN "v93Store" ELSE "v93Off"
    BY <1>0, <1>15, Zenon DEF V93ReadSurf, Goto
  <2>. QED BY <2>1, QuietHarmless, Zenon DEF Decided, AtSlot, InV88
<1>16. CASE V93Disable(t)
  <2>1. /\ SetCtl(plane[t], seen[t] \ {"on"}) /\ Pass(t, val[t]) /\ slotLast' = slotLast
    BY <1>16, Zenon DEF V93Disable, TurnOff
  <2>2. "on" \notin ctl'[plane[t]] BY <1>0, <2>1, Zenon DEF SetCtl
  <2>3. Decided(t)' BY <1>4, <1>6, <2>1, <2>2, Zenon DEF Decided, AtSlot, InV88
  <2>. QED BY <1>0, <2>1, <2>3, SetCtlHarmless, Zenon
<1>. QED BY <1>7, <1>8, <1>9, <1>10, <1>11, <1>12, <1>13, <1>14, <1>15, <1>16, Zenon
            DEF V93Guard

\* writeReg32's guard and the write: a zero gets to "put" on a plane seen off or
\* turned off, and the guard starts from a decision of its own.
LEMMA WriteRegDecides ==
  ASSUME IInv, NEW t \in Threads, WriteReg(t) \/ Put(t)
  PROVE  Harmless(t) /\ Decided(t)'
<1> USE DEF regs, v93States, history, locals
<1>0. /\ TypeOK /\ plane[t] \in Planes /\ pc \in [Threads -> PC]
      /\ val \in [Threads -> Surf0] /\ ctl \in [Planes -> SUBSET CtlBits]
  BY Zenon DEF IInv, TypeOK
<1>1. CASE GuardCheck(t)
  <2>1. /\ pc'[t] = IF val[t] = Zero /\ "on" \in ctl[plane[t]] THEN "guardSurf" ELSE "put"
        /\ val' = val /\ plane' = plane /\ ctl' = ctl /\ slotLast' = slotLast
        /\ raced' = raced \ {t}
    BY <1>0, <1>1, Zenon DEF GuardCheck, Goto
  <2>. QED BY <2>1, QuietHarmless, Zenon DEF Decided, AtSlot, InV88
<1>2. CASE GuardReadSurf(t)
  <2>1. /\ pc'[t] = IF surf[plane[t]] # Zero THEN "put" ELSE "guardOff"
        /\ val'[t] = surf[plane[t]] /\ ctl' = ctl /\ slotLast' = slotLast /\ raced' = raced
    BY <1>0, <1>2, Zenon DEF GuardReadSurf, Goto
  <2>. QED BY <2>1, QuietHarmless, Zenon DEF Decided, AtSlot, InV88
<1>3. CASE GuardDisable(t)
  <2>1. /\ SetCtl(plane[t], seen[t] \ {"on"}) /\ pc'[t] = "put" /\ plane' = plane
        /\ slotLast' = slotLast
    BY <1>0, <1>3, Zenon DEF GuardDisable, TurnOff, Goto
  <2>2. "on" \notin ctl'[plane[t]] BY <1>0, <2>1, Zenon DEF SetCtl
  <2>3. Decided(t)' BY <2>1, <2>2, Zenon DEF Decided, AtSlot, InV88
  <2>. QED BY <1>0, <2>1, <2>3, SetCtlHarmless, Zenon
<1>4. CASE Put(t)
  <2>1. /\ pc'[t] = "v88" \/ pc'[t] = "idle"
        /\ slotLast' = slotLast /\ raced' = raced \ {t}
    BY <1>0, <1>4, Zenon DEF Put, Goto
  <2>2. ctl' = ctl BY <1>4, Zenon DEF Put, Arm
  <2>. QED BY <2>1, <2>2, QuietHarmless, Zenon DEF Decided, AtSlot, InV88
<1>. QED BY <1>1, <1>2, <1>3, <1>4, Zenon DEF WriteReg

\* The driver enters a write through a guard or by an unguarded path, and its
\* enables overtake the writes in flight.
LEMMA DriverDecides ==
  ASSUME IInv, NEW t \in Drivers, Driver(t)
  PROVE  Harmless(t) /\ Decided(t)'
<1> USE DEF regs, v93States, history, locals
<1>0. /\ TypeOK /\ t \in Threads /\ pc \in [Threads -> PC] /\ path \in [Threads -> AllPaths]
      /\ slot \in [Threads -> 0 .. Slots] /\ Decided(t)
  BY Zenon DEF IInv, TypeOK, Threads
<1>1. PICK h \in Paths :
        \/ \E p \in Planes, v \in Surf0 : WriteSurf(t, h, p, v)
        \/ \E p \in Planes, bits \in SUBSET CtlBits : WriteCtl(t, h, p, bits)
  BY Zenon DEF Driver
<1>2. /\ EntryOf(h) \in {"v93Find", "guard", "put"}
      /\ EntryOf(h) = "put" => h \in Unguarded
  BY PathsAssumption, Zenon DEF EntryOf, Unguarded, AllPaths
<1>3. ASSUME NEW p \in Planes, NEW v \in Surf0, WriteSurf(t, h, p, v)
      PROVE  Harmless(t) /\ Decided(t)'
  <2>1. /\ pc'[t] = EntryOf(h) /\ path'[t] = h
        /\ slot'[t] = IF EntryOf(h) = "v93Find" THEN 1 ELSE NoSlot
        /\ ctl' = ctl /\ slotLast' = slotLast /\ raced' = raced
    BY <1>0, <1>3, Zenon DEF WriteSurf, Goto
  <2>2. 1 # NoSlot BY DEF NoSlot
  <2>3. Unguarded' = Unguarded BY Zenon DEF Unguarded
  <2>. QED BY <1>0, <1>2, <2>1, <2>2, <2>3, QuietHarmless, Zenon DEF Decided, AtSlot, InV88
<1>4. ASSUME NEW p \in Planes, NEW bits \in SUBSET CtlBits, WriteCtl(t, h, p, bits)
      PROVE  Harmless(t) /\ Decided(t)'
  <2>1. /\ pc'[t] = "idle" /\ slotLast' = slotLast /\ \E b : SetCtl(p, b)
    BY <1>0, <1>4, Zenon DEF WriteCtl
  <2>. QED BY <1>0, <2>1, SetCtlHarmless, Zenon DEF Decided, AtSlot, InV88
<1>. QED BY <1>1, <1>3, <1>4, Zenon

\* The monitor's experiments never hold a zero to arm, and enter writeReg32's
\* guard with what they read.
LEMMA MonitorDecides ==
  ASSUME IInv, NEW t \in Monitors, Monitor(t)
  PROVE  Harmless(t) /\ Decided(t)'
<1> USE DEF regs, v93States, history, locals
<1>0. /\ TypeOK /\ t \in Threads /\ MonitorPlane \in Planes /\ pc \in [Threads -> PC]
      /\ val \in [Threads -> Surf0] /\ Decided(t)
  BY PlanesAssumption, Zenon DEF IInv, TypeOK, Threads
<1>1. CASE V79Read(t)
  <2>1. /\ pc'[t] = "v79Ctl" \/ pc'[t] = "v88"
        /\ ctl' = ctl /\ slotLast' = slotLast /\ raced' = raced
    BY <1>0, <1>1, Zenon DEF V79Read, Goto
  <2>. QED BY <1>0, <2>1, QuietHarmless, Zenon DEF Decided, AtSlot, InV88
<1>2. CASE V79WriteCtl(t)
  <2>1. /\ pc'[t] = "v79Surf" /\ slotLast' = slotLast /\ \E b : SetCtl(MonitorPlane, b)
    BY <1>0, <1>2, Zenon DEF V79WriteCtl, Goto
  <2>. QED BY <1>0, <2>1, SetCtlHarmless, Zenon DEF Decided, AtSlot, InV88
<1>3. CASE V79ReadSurf(t)
  <2>1. pc'[t] = "guard" /\ ctl' = ctl /\ slotLast' = slotLast /\ raced' = raced
    BY <1>0, <1>3, Zenon DEF V79ReadSurf, Goto
  <2>. QED BY <1>0, <2>1, QuietHarmless, Zenon DEF Decided, AtSlot, InV88
<1>4. CASE V88Read(t)
  <2>1. /\ pc'[t] = "v79" \/ (pc'[t] = "v88Arm" /\ val'[t] # Zero)
        /\ ctl' = ctl /\ slotLast' = slotLast /\ raced' = raced
    BY <1>0, <1>4, Zenon DEF V88Read, Goto
  <2>. QED BY <1>0, <2>1, QuietHarmless, Zenon DEF Decided, AtSlot, InV88
<1>5. ASSUME NEW at \in InV88, NEW l \in InV88, V88Write(t, at, l)
      PROVE  Harmless(t) /\ Decided(t)'
  <2>1. /\ pc'[t] = l /\ val' = val /\ val[t] # Zero
        /\ ctl' = ctl /\ slotLast' = slotLast /\ raced' = raced
    BY <1>0, <1>5, Zenon DEF V88Write, Goto, Arm, Decided
  <2>2. l \notin AtSlot /\ l # "put" /\ l # "v93Store" BY Zenon DEF InV88, AtSlot
  <2>. QED BY <1>0, <2>1, <2>2, QuietHarmless, Zenon DEF Decided, AtSlot
<1>6. ASSUME NEW at, V88Ends(t, at) PROVE Harmless(t) /\ Decided(t)'
  <2>1. pc'[t] = "v79" /\ ctl' = ctl /\ slotLast' = slotLast /\ raced' = raced
    BY <1>0, <1>6, Zenon DEF V88Ends, Goto, Arm
  <2>. QED BY <1>0, <2>1, QuietHarmless, Zenon DEF Decided, AtSlot, InV88
<1>7. CASE ToggleRead(t)
  <2>1. /\ pc'[t] = "toggleOff" /\ val' = val /\ val[t] # Zero
        /\ ctl' = ctl /\ slotLast' = slotLast /\ raced' = raced
    BY <1>0, <1>7, Zenon DEF ToggleRead, Goto, Decided, InV88
  <2>. QED BY <1>0, <2>1, QuietHarmless, Zenon DEF Decided, AtSlot, InV88
<1>8. ASSUME NEW at \in InV88, NEW bits, NEW l \in InV88, ToggleCtl(t, at, bits, l)
      PROVE  Harmless(t) /\ Decided(t)'
  <2>1. /\ pc'[t] = l /\ val' = val /\ val[t] # Zero
        /\ slotLast' = slotLast /\ SetCtl(MonitorPlane, bits)
    BY <1>0, <1>8, Zenon DEF ToggleCtl, Goto, Decided
  <2>2. l \notin AtSlot /\ l # "put" /\ l # "v93Store" BY Zenon DEF InV88, AtSlot
  <2>. QED BY <1>0, <2>1, <2>2, SetCtlHarmless, Zenon DEF Decided, AtSlot
<1>9. {"v88Arm", "toggle", "toggleOff", "commitOff", "toggleOn", "commitOn"} \subseteq InV88
  BY Zenon DEF InV88
<1>. QED BY <1>1, <1>2, <1>3, <1>4, <1>5, <1>6, <1>7, <1>8, <1>9, Zenon DEF Monitor

\* The inductive invariant of the plane guards, for any threads, planes and slots,
\* every path and the monitor's experiments.
THEOREM PlaneInvariant == Spec => []IInv
<1>1. Init => IInv
  <2> SUFFICES ASSUME Init PROVE IInv OBVIOUS
  <2>1. \A t \in Threads : pc[t] = "v79" \/ pc[t] = "idle" BY Zenon DEF Init
  <2>. QED BY <2>1, InitTyped, Zenon DEF IInv, Decided, AtSlot, InV88
<1>2. IInv /\ [Next]_vars => IInv'
  <2> SUFFICES ASSUME IInv, [Next]_vars PROVE IInv' OBVIOUS
  <2>0. TypeOK BY Zenon DEF IInv
  <2>1. CASE UNCHANGED vars
    <3>1. TypeOK' BY <2>0, <2>1, Zenon DEF TypeOK, vars, regs, v93States, history, locals
    <3>2. ASSUME NEW t \in Threads PROVE Decided(t)'
      <4>1. Decided(t) BY Zenon DEF IInv
      <4>2. /\ pc' = pc /\ val' = val /\ path' = path /\ plane' = plane /\ slot' = slot
            /\ ctl' = ctl /\ raced' = raced /\ slotLast' = slotLast
        BY <2>1, Zenon DEF vars, regs, v93States, history, locals
      <4>. QED BY <4>1, <4>2, Zenon DEF Decided, Unguarded
    <3>. QED BY <3>1, <3>2, Zenon DEF IInv
  <2>2. ASSUME NEW t \in Threads, V93Guard(t) PROVE IInv'
    <3>1. TypeOK'
      <4>1. pc[t] \in AtSlot => slot[t] # NoSlot BY Zenon DEF IInv, Decided
      <4>. QED BY <2>0, <2>2, <4>1, V93Typed, Zenon DEF AtSlot
    <3>. QED BY <2>0, <2>2, <3>1, V93Decides, StepsAreLocal, AllDecided, Zenon DEF IInv, Guards
  <2>3. ASSUME NEW t \in Threads, WriteReg(t) \/ Put(t) PROVE IInv'
    BY <2>0, <2>3, WriteRegTyped, WriteRegDecides, StepsAreLocal, AllDecided, Zenon
       DEF IInv, Guards
  <2>4. ASSUME NEW t \in Drivers, Driver(t) PROVE IInv'
    <3>1. t \in Threads BY Zenon DEF Threads
    <3>. QED BY <2>0, <2>4, <3>1, DriverTyped, DriverDecides, StepsAreLocal, AllDecided, Zenon
                DEF IInv
  <2>5. ASSUME NEW t \in Monitors, Monitor(t) PROVE IInv'
    <3>1. t \in Threads BY Zenon DEF Threads
    <3>. QED BY <2>0, <2>5, <3>1, MonitorTyped, MonitorDecides, StepsAreLocal, AllDecided, Zenon
                DEF IInv
  <2>. QED BY <2>1, <2>2, <2>3, <2>4, <2>5, Zenon DEF Next, Guards
<1>. QED BY <1>1, <1>2, PTL DEF Spec

\* However the checks and the writes of the threads interleave, an enabled plane
\* begins to scan out from zero only by a write without a guard, or by one that
\* another thread overtook between its decision and its write.
THEOREM ZeroTakesARace == Spec => ZeroNeedsRace
<1> DEFINE Raced ==
      \A p \in Planes :
        p \in liveOn' /\ liveSurf'[p] = Zero /\ ~(p \in liveOn /\ liveSurf[p] = Zero)
          => \E t \in Threads : /\ pc[t] = "put" /\ pc'[t] # "put" /\ plane[t] = p
                                /\ t \in raced \/ path[t] \in Unguarded
<1>1. IInv /\ [Next]_vars => [Raced]_vars
  <2> SUFFICES ASSUME IInv, [Next]_vars, NEW p \in Planes, p \in liveOn',
                      liveSurf'[p] = Zero, ~(p \in liveOn /\ liveSurf[p] = Zero)
               PROVE  \E t \in Threads : /\ pc[t] = "put" /\ pc'[t] # "put" /\ plane[t] = p
                                         /\ t \in raced \/ path[t] \in Unguarded
    BY Zenon
  <2> USE DEF regs
  <2>0. /\ liveSurf \in [Planes -> Surf0] /\ pc \in [Threads -> PC]
        /\ MonitorPlane \in Planes /\ \A t \in Threads : plane[t] \in Planes
    BY PlanesAssumption, Zenon DEF IInv, TypeOK
  <2>1. ~(liveOn' = liveOn /\ liveSurf' = liveSurf) OBVIOUS
  <2>2. ASSUME NEW q \in Planes, NEW v, Arm(q, v) PROVE p = q /\ "on" \in ctl[q] /\ v = Zero
    BY <2>0, <2>2, Zenon DEF Arm
  <2>3. ASSUME NEW t \in Threads, Guards(t) PROVE FALSE
    <3>1. UNCHANGED <<liveOn, liveSurf>>
      BY <2>3, ZenonT(30) DEF Guards, V93Guard, WriteReg, V93Find, V93Free, V93Claim, V93Clear,
         V93Store, V93ReadCtl, V93TestCached, V93UseCached, V93ReadSurf, V93Disable, Look,
         TurnOff, SetCtl, GuardCheck, GuardReadSurf, GuardDisable
    <3>. QED BY <2>1, <3>1
  <2>4. ASSUME NEW t \in Threads, Put(t)
        PROVE  \E x \in Threads : /\ pc[x] = "put" /\ pc'[x] # "put" /\ plane[x] = p
                                  /\ x \in raced \/ path[x] \in Unguarded
    <3>1. pc[t] = "put" /\ pc'[t] # "put" BY <2>0, <2>4, Zenon DEF Put, Goto
    <3>2. Arm(plane[t], val[t]) BY <2>1, <2>4, Zenon DEF Put
    <3>3. plane[t] = p /\ "on" \in ctl[plane[t]] /\ val[t] = Zero
      BY <2>0, <2>2, <3>2, Zenon
    <3>4. Decided(t) BY Zenon DEF IInv
    <3>. QED BY <3>1, <3>3, <3>4, Zenon DEF Decided
  <2>5. ASSUME NEW t \in Drivers, Driver(t) PROVE FALSE
    <3>1. UNCHANGED <<liveOn, liveSurf>> BY <2>5, Zenon DEF Driver, WriteSurf, WriteCtl, SetCtl
    <3>. QED BY <2>1, <3>1
  <2>6. ASSUME NEW t \in Monitors, Monitor(t) PROVE FALSE
    <3>1. Decided(t) BY Zenon DEF IInv, Threads
    <3>2. ASSUME NEW at \in InV88, pc[t] = at, Arm(MonitorPlane, val[t]) PROVE FALSE
      BY <2>0, <2>2, <3>1, <3>2, Zenon DEF Decided
    <3>3. "v88Arm" \in InV88 /\ "commitOff" \in InV88 /\ "commitOn" \in InV88
      BY Zenon DEF InV88
    <3>4. UNCHANGED <<liveOn, liveSurf>>
      BY <2>6, <3>2, <3>3, ZenonT(30) DEF Monitor, V79Read, V79WriteCtl, V79ReadSurf, V88Read,
         V88Write, V88Ends, ToggleRead, ToggleCtl, SetCtl
    <3>. QED BY <2>1, <3>4
  <2>7. CASE UNCHANGED vars BY <2>1, <2>7, Zenon DEF vars
  <2>. QED BY <2>3, <2>4, <2>5, <2>6, <2>7, Zenon DEF Next
<1>. QED BY <1>1, PlaneInvariant, PTL DEF Spec, ZeroNeedsRace

-----------------------------------------------------------------------------
(* Which surface a blocked write of zero re-arms.                          *)

\* The driver writes through raWriteRegister32, V93 on, from one thread.
OneWriter ==
  V93 /\ Paths \subseteq {"ra", "raNull"} /\ \A t, u \in Drivers : t = u

HasSlot == {"v93Store", "v93Ctl", "v93Cached", "v93Use", "v93Surf"}
InV93 == {"v93Find", "v93Free", "v93Claim", "v93Clear", "v93Off"} \cup HasSlot

\* A plane has one slot, and a free slot caches nothing.
SlotInv ==
  /\ \A i, j \in 1 .. Slots : slotReg[i] = slotReg[j] /\ slotReg[i] # NoPlane => i = j
  /\ \A i \in 1 .. Slots : slotReg[i] = NoPlane => slotLast[i] = Zero

\* The surface a slot caches is the one its plane shows, or on its way to it.
CacheShown(i) ==
  slotReg[i] \notin {NoPlane, MonitorPlane} =>
    \/ slotLast[i] = Zero \/ surf[slotReg[i]] \in {Zero, slotLast[i]}
    \/ \E t \in Drivers :
         pc[t] \in {"guard", "put"} /\ plane[t] = slotReg[i] /\ val[t] = slotLast[i]

\* How far getV93State has come.
SearchInv(t) ==
  /\ pc[t] = "v93Find" => \A j \in 1 .. Slots : j < slot[t] => slotReg[j] # plane[t]
  /\ pc[t] \in {"v93Free", "v93Claim"} => \A j \in 1 .. Slots : slotReg[j] # plane[t]
  /\ pc[t] = "v93Claim" => slotReg[slot[t]] = NoPlane
  /\ pc[t] = "v93Clear" => slotReg[slot[t]] = plane[t] /\ slotLast[slot[t]] = Zero
  /\ pc[t] \in HasSlot /\ slot[t] = NoSlot => \A j \in 1 .. Slots : slotReg[j] # plane[t]
  /\ pc[t] \in HasSlot /\ slot[t] # NoSlot => slotReg[slot[t]] = plane[t]

\* A write past the V93 guard carries what is cached, and if it was a write of
\* zero, what its plane shows.
WriteInv(t) ==
  /\ path[t] # "export64"
  /\ pc[t] \in {"v93Find", "v93Free", "v93Claim", "v93Clear"} => val[t] = asked[t]
  /\ pc[t] = "v93Store" /\ plane[t] # MonitorPlane =>
       val[t] = asked[t] \/ val[t] = surf[plane[t]]
  /\ pc[t] \in {"v93Ctl", "v93Off", "guardOff"} => val[t] = Zero
  /\ pc[t] \in {"guard", "put"} /\ plane[t] # MonitorPlane =>
       /\ val[t] = Zero \/ \A i \in 1 .. Slots :
                             slotReg[i] = plane[t] => slotLast[i] \in {Zero, val[t]}
       /\ asked[t] = Zero /\ val[t] # Zero => surf[plane[t]] \in {Zero, val[t]}

SurfaceInv ==
  /\ SlotInv
  /\ \A i \in 1 .. Slots : CacheShown(i)
  /\ \A t \in Drivers : SearchInv(t) /\ WriteInv(t)
  /\ \A t \in Monitors : plane[t] = MonitorPlane /\ pc[t] \notin InV93

\* A step that leaves the driver's writes, the cache and the surfaces of its
\* planes alone keeps the invariant.
LEMMA OutsideDriver ==
  ASSUME TypeOK, SurfaceInv, slotReg' = slotReg, slotLast' = slotLast,
         \A p \in Planes \ {MonitorPlane} : surf'[p] = surf[p],
         \A t \in Drivers : /\ pc'[t] = pc[t] /\ plane'[t] = plane[t] /\ path'[t] = path[t]
                            /\ val'[t] = val[t] /\ asked'[t] = asked[t]
                            /\ slot'[t] = slot[t],
         \A t \in Monitors : plane'[t] = MonitorPlane /\ pc'[t] \notin InV93
  PROVE  SurfaceInv'
<1>0. \A t \in Drivers : plane[t] \in Planes BY Zenon DEF TypeOK, Threads
<1>1. SlotInv' BY Zenon DEF SurfaceInv, SlotInv
<1>2. ASSUME NEW i \in 1 .. Slots PROVE CacheShown(i)'
  <2>1. CacheShown(i) /\ slotReg[i] \in Planes \cup {NoPlane}
    BY Zenon DEF SurfaceInv, TypeOK
  <2>2. slotReg[i] \notin {NoPlane, MonitorPlane} => surf'[slotReg[i]] = surf[slotReg[i]]
    BY <2>1, Zenon
  <2>. QED BY <2>1, <2>2, Zenon DEF CacheShown
<1>3. ASSUME NEW t \in Drivers PROVE SearchInv(t)' /\ WriteInv(t)'
  <2>1. SearchInv(t) /\ WriteInv(t) BY Zenon DEF SurfaceInv
  <2>2. SearchInv(t)' BY <2>1, Zenon DEF SearchInv
  <2>3. plane[t] # MonitorPlane => surf'[plane[t]] = surf[plane[t]] BY <1>0, Zenon
  <2>4. WriteInv(t)' BY <2>1, <2>3, Zenon DEF WriteInv
  <2>. QED BY <2>2, <2>4
<1>. QED BY <1>1, <1>2, <1>3, Zenon DEF SurfaceInv

\* v60GpuHealthMonitor's accesses, its own guarded write included, stay on the
\* plane at 0x70180 and do not touch the cache.
LEMMA MonitorKeepsSurface ==
  ASSUME TypeOK, SurfaceInv, NEW t \in Monitors, Guards(t) \/ Put(t) \/ Monitor(t)
  PROVE  SurfaceInv'
<1> USE DEF regs, v93States, history, locals
<1>0. /\ t \in Threads /\ t \notin Drivers /\ plane[t] = MonitorPlane /\ pc[t] \notin InV93
      /\ MonitorPlane \in Planes /\ Drivers \subseteq Threads /\ Monitors \subseteq Threads
      /\ pc \in [Threads -> PC] /\ plane \in [Threads -> Planes]
  BY PlanesAssumption, Zenon DEF TypeOK, Threads, SurfaceInv
<1>1. ~V93Guard(t)
  BY <1>0, Zenon DEF V93Guard, V93Find, V93Free, V93Claim, V93Clear, V93Store, V93ReadCtl,
     V93TestCached, V93UseCached, V93ReadSurf, V93Disable, InV93, HasSlot
<1>2. Local(t)
  BY <1>0, StepsAreLocal, Zenon
<1> DEFINE Kept == /\ slotReg' = slotReg /\ slotLast' = slotLast
                   /\ surf' = surf \/ \E v : Arm(MonitorPlane, v)
                   /\ plane'[t] = MonitorPlane /\ pc'[t] \notin InV93
<1>3. ASSUME WriteReg(t) PROVE Kept
  <2>1. \E l \in {"guardSurf", "guardOff", "put"} : Goto(t, l)
    BY <1>3, Zenon DEF WriteReg, GuardCheck, GuardReadSurf, GuardDisable
  <2>2. UNCHANGED <<slotReg, slotLast, surf, plane>>
    BY <1>3, Zenon DEF WriteReg, GuardCheck, GuardReadSurf, GuardDisable, TurnOff, SetCtl
  <2>. QED BY <1>0, <2>1, <2>2, Zenon DEF Goto, InV93, HasSlot
<1>4. ASSUME Put(t) PROVE Kept
  <2>1. pc'[t] = "v88" /\ plane'[t] = MonitorPlane BY <1>0, <1>4, Zenon DEF Put, Goto
  <2>. QED BY <1>0, <1>4, <2>1, Zenon DEF Put, InV93, HasSlot
<1>5. ASSUME NEW l \in {"v79", "v79Ctl", "v79Surf", "guard", "v88", "v88Arm", "toggle",
                        "toggleOff", "commitOff", "toggleOn", "commitOn"},
             Goto(t, l), UNCHANGED <<slotReg, slotLast, plane>>,
             surf' = surf \/ \E v : Arm(MonitorPlane, v)
      PROVE  Kept
  BY <1>0, <1>5, Zenon DEF Goto, InV93, HasSlot
<1>6. ASSUME V79Read(t) \/ V79WriteCtl(t) \/ V79ReadSurf(t) \/ V88Read(t) \/ ToggleRead(t)
      PROVE  Kept
  BY <1>5, <1>6, Zenon DEF V79Read, V79WriteCtl, V79ReadSurf, V88Read, ToggleRead, SetCtl
<1>7. ASSUME NEW at, V88Ends(t, at) PROVE Kept BY <1>5, <1>7, Zenon DEF V88Ends
<1>8. ASSUME NEW at, NEW l \in {"toggle", "toggleOn"}, V88Write(t, at, l) PROVE Kept
  BY <1>5, <1>8, Zenon DEF V88Write
<1>9. ASSUME NEW at, NEW b, NEW l \in {"commitOff", "commitOn"}, ToggleCtl(t, at, b, l)
      PROVE  Kept
  BY <1>5, <1>9, Zenon DEF ToggleCtl, SetCtl
<1>10. ASSUME Monitor(t) PROVE Kept
  BY <1>6, <1>7, <1>8, <1>9, <1>10, Zenon DEF Monitor
<1>11. Kept BY <1>1, <1>3, <1>4, <1>10, Zenon DEF Guards
<1>12. \A p \in Planes \ {MonitorPlane} : surf'[p] = surf[p]
  BY <1>11, Zenon DEF Arm, TypeOK
<1>13. \A x \in Monitors : plane'[x] = MonitorPlane /\ pc'[x] \notin InV93
  BY <1>0, <1>2, <1>11, Zenon DEF Local, SurfaceInv
<1>14. \A x \in Drivers : /\ pc'[x] = pc[x] /\ plane'[x] = plane[x] /\ path'[x] = path[x]
                          /\ val'[x] = val[x] /\ asked'[x] = asked[x] /\ slot'[x] = slot[x]
  BY <1>0, <1>2, Zenon DEF Local
<1>. QED BY <1>11, <1>12, <1>13, <1>14, OutsideDriver, Zenon

\* With one driver thread, a step of it keeps the invariant when it keeps it for
\* the slots and for its own write.
LEMMA DriverMoves ==
  ASSUME OneWriter, SurfaceInv, NEW t \in Drivers, Local(t), SlotInv',
         \A i \in 1 .. Slots : CacheShown(i)', SearchInv(t)', WriteInv(t)'
  PROVE  SurfaceInv'
<1>0. Drivers = {t} /\ Monitors \subseteq Threads \ {t}
  BY PlanesAssumption, Zenon DEF OneWriter, Threads
<1>1. \A x \in Monitors : plane'[x] = MonitorPlane /\ pc'[x] \notin InV93
  BY <1>0, Zenon DEF SurfaceInv, Local
<1>. QED BY <1>0, <1>1, Zenon DEF SurfaceInv

\* Before the driver's write is past the V93 guard, or when it has none, each
\* cached surface is the one its plane shows.
LEMMA CacheSettled ==
  ASSUME OneWriter, SurfaceInv, NEW t \in Drivers, pc[t] \notin {"guard", "put"}
  PROVE  /\ \A i \in 1 .. Slots :
              slotReg[i] \notin {NoPlane, MonitorPlane} =>
                slotLast[i] = Zero \/ surf[slotReg[i]] \in {Zero, slotLast[i]}
         /\ slotReg' = slotReg /\ slotLast' = slotLast /\ surf' = surf =>
              \A i \in 1 .. Slots : CacheShown(i)'
<1>1. \A u \in Drivers : u = t BY Zenon DEF OneWriter
<1>2. ASSUME NEW i \in 1 .. Slots, slotReg[i] \notin {NoPlane, MonitorPlane}
      PROVE  slotLast[i] = Zero \/ surf[slotReg[i]] \in {Zero, slotLast[i]}
  <2>1. CacheShown(i) BY Zenon DEF SurfaceInv
  <2>. QED BY <1>1, <1>2, <2>1, Zenon DEF CacheShown
<1>. QED BY <1>2, Zenon DEF CacheShown

\* getV93State finds the plane's slot, claims a free one or does without.
LEMMA SearchKeepsSurface ==
  ASSUME OneWriter, IInv, SurfaceInv, NEW t \in Drivers,
         V93Find(t) \/ V93Free(t) \/ V93Claim(t) \/ V93Clear(t)
  PROVE  SurfaceInv'
<1> USE DEF regs, v93States, history, locals
<1>0. /\ t \in Threads /\ TypeOK /\ SearchInv(t) /\ WriteInv(t) /\ Decided(t) /\ SlotInv
      /\ plane[t] \in Planes /\ plane[t] # NoPlane /\ slot[t] \in 0 .. Slots
      /\ pc \in [Threads -> PC] /\ slot \in [Threads -> 0 .. Slots]
      /\ slotReg \in [1 .. Slots -> Planes \cup {NoPlane}] /\ slotLast \in [1 .. Slots -> Surf0]
  BY PlanesAssumption, Zenon DEF IInv, TypeOK, Threads, SurfaceInv
<1>1. Local(t) BY <1>0, StepsAreLocal, Zenon DEF Guards, V93Guard
<1>2. /\ pc[t] \in {"v93Find", "v93Free", "v93Claim", "v93Clear"}
      /\ plane' = plane /\ path' = path /\ val' = val /\ asked' = asked /\ surf' = surf
  BY Zenon DEF V93Find, V93Free, V93Claim, V93Clear, Look
<1>3. slot[t] # NoSlot /\ slot[t] \in 1 .. Slots
  <2>1. slot[t] # NoSlot BY <1>0, <1>2, Zenon DEF Decided, AtSlot
  <2>. QED BY <1>0, <2>1 DEF NoSlot
<1>4. /\ val[t] = asked[t] /\ path[t] # "export64" /\ pc[t] \notin {"guard", "put"}
  BY <1>0, <1>2, Zenon DEF WriteInv
<1>5. Found(t) = "v93Store" \/ Found(t) = "v93Ctl" BY Zenon DEF Found
<1>6. ASSUME pc'[t] \in {"v93Find", "v93Free", "v93Claim", "v93Clear", Found(t)}
      PROVE  WriteInv(t)'
  <2>1. CASE pc'[t] = Found(t) BY <1>2, <1>4, <2>1, Zenon DEF WriteInv, Found
  <2>2. CASE pc'[t] # Found(t) BY <1>2, <1>4, <1>6, <2>2, Zenon DEF WriteInv
  <2>. QED BY <2>1, <2>2
<1>7. ASSUME NEW i \in 0 .. Slots, NEW l, Look(t, i, l)
      PROVE  /\ pc'[t] = l /\ slot'[t] = i /\ slotReg' = slotReg /\ slotLast' = slotLast
             /\ SlotInv' /\ \A j \in 1 .. Slots : CacheShown(j)'
  <2>1. pc'[t] = l /\ slot'[t] = i /\ slotReg' = slotReg /\ slotLast' = slotLast
    BY <1>0, <1>7, Zenon DEF Look, Goto
  <2>. QED BY <1>0, <1>2, <1>4, <2>1, CacheSettled, Zenon DEF SlotInv
<1>8. /\ slot[t] < Slots => slot[t] + 1 \in 0 .. Slots
      /\ \A j \in 1 .. Slots : j < slot[t] + 1 => j < slot[t] \/ j = slot[t]
      /\ ~(slot[t] < Slots) => \A j \in 1 .. Slots : j < slot[t] \/ j = slot[t]
      /\ 1 \in 0 .. Slots /\ NoSlot \in 0 .. Slots
  BY <1>3, PathsAssumption DEF NoSlot
<1>9. CASE V93Find(t)
  <2>0. \A j \in 1 .. Slots : j < slot[t] => slotReg[j] # plane[t]
    BY <1>0, <1>9, Zenon DEF V93Find, SearchInv
  <2>1. CASE slotReg[slot[t]] = plane[t]
    <3>1. Look(t, slot[t], Found(t)) BY <1>9, <2>1, Zenon DEF V93Find
    <3>2. SearchInv(t)'
      BY <1>0, <1>2, <1>3, <1>5, <1>7, <2>1, <3>1, Zenon DEF SearchInv, HasSlot
    <3>3. WriteInv(t)' BY <1>0, <1>5, <1>6, <1>7, <3>1, Zenon
    <3>. QED BY <1>0, <1>1, <1>7, <3>1, <3>2, <3>3, DriverMoves, Zenon
  <2>2. CASE slotReg[slot[t]] # plane[t] /\ slot[t] < Slots
    <3>1. Look(t, slot[t] + 1, "v93Find") BY <1>9, <2>2, Zenon DEF V93Find
    <3>2. /\ pc'[t] = "v93Find" /\ slot'[t] = slot[t] + 1 /\ slotReg' = slotReg
          /\ SlotInv' /\ \A j \in 1 .. Slots : CacheShown(j)'
      BY <1>7, <1>8, <2>2, <3>1, Zenon
    <3>3. SearchInv(t)'
      BY <1>2, <1>8, <2>0, <2>2, <3>2, Zenon DEF SearchInv, HasSlot
    <3>4. WriteInv(t)' BY <1>6, <3>2, Zenon
    <3>. QED BY <1>0, <1>1, <3>2, <3>3, <3>4, DriverMoves, Zenon
  <2>3. CASE slotReg[slot[t]] # plane[t] /\ ~(slot[t] < Slots)
    <3>1. Look(t, 1, "v93Free") BY <1>9, <2>3, Zenon DEF V93Find
    <3>2. /\ pc'[t] = "v93Free" /\ slotReg' = slotReg
          /\ SlotInv' /\ \A j \in 1 .. Slots : CacheShown(j)'
      BY <1>7, <1>8, <3>1, Zenon
    <3>3. SearchInv(t)'
      BY <1>2, <1>8, <2>0, <2>3, <3>2, Zenon DEF SearchInv, HasSlot
    <3>4. WriteInv(t)' BY <1>6, <3>2, Zenon
    <3>. QED BY <1>0, <1>1, <3>2, <3>3, <3>4, DriverMoves, Zenon
  <2>. QED BY <2>1, <2>2, <2>3, Zenon
<1>10. CASE V93Free(t)
  <2>0. \A j \in 1 .. Slots : slotReg[j] # plane[t]
    BY <1>0, <1>10, Zenon DEF V93Free, SearchInv
  <2>1. \/ slotReg[slot[t]] = NoPlane /\ Look(t, slot[t], "v93Claim")
        \/ slot[t] < Slots /\ Look(t, slot[t] + 1, "v93Free")
        \/ Look(t, NoSlot, Found(t))
    BY <1>10, Zenon DEF V93Free
  <2>2. /\ slotReg' = slotReg /\ SlotInv' /\ \A j \in 1 .. Slots : CacheShown(j)'
        /\ \/ pc'[t] = "v93Claim" /\ slot'[t] = slot[t] /\ slotReg[slot[t]] = NoPlane
           \/ pc'[t] = "v93Free"
           \/ pc'[t] = Found(t) /\ slot'[t] = NoSlot
    <3>1. CASE slotReg[slot[t]] = NoPlane /\ Look(t, slot[t], "v93Claim")
      BY <1>0, <1>7, <3>1, Zenon
    <3>2. CASE slot[t] < Slots /\ Look(t, slot[t] + 1, "v93Free") BY <1>7, <1>8, <3>2, Zenon
    <3>3. CASE Look(t, NoSlot, Found(t)) BY <1>7, <1>8, <3>3, Zenon
    <3>. QED BY <2>1, <3>1, <3>2, <3>3, Zenon
  <2>3. SearchInv(t)' BY <1>2, <1>5, <2>0, <2>2, Zenon DEF SearchInv, HasSlot
  <2>4. WriteInv(t)' BY <1>5, <1>6, <2>2, Zenon
  <2>. QED BY <1>0, <1>1, <2>2, <2>3, <2>4, DriverMoves, Zenon
<1>11. CASE V93Claim(t)
  <2>1. /\ pc'[t] = "v93Clear" /\ slot' = slot /\ slotLast' = slotLast
        /\ slotReg'[slot[t]] = plane[t]
        /\ \A j \in 1 .. Slots : j # slot[t] => slotReg'[j] = slotReg[j]
    BY <1>0, <1>3, <1>11, Zenon DEF V93Claim, Goto
  <2>2. slotReg[slot[t]] = NoPlane /\ \A j \in 1 .. Slots : slotReg[j] # plane[t]
    BY <1>0, <1>11, Zenon DEF V93Claim, SearchInv
  <2>3. slotLast[slot[t]] = Zero BY <1>0, <1>3, <2>2, Zenon DEF SlotInv
  <2>4. SlotInv'
    <3>1. ASSUME NEW i \in 1 .. Slots, NEW j \in 1 .. Slots, slotReg'[i] = slotReg'[j],
                 slotReg'[i] # NoPlane
          PROVE  i = j
      <4>1. CASE i # slot[t] /\ j # slot[t] BY <1>0, <2>1, <3>1, <4>1, Zenon DEF SlotInv
      <4>2. CASE i = slot[t] \/ j = slot[t] BY <2>1, <2>2, <3>1, <4>2, Zenon
      <4>. QED BY <4>1, <4>2
    <3>2. ASSUME NEW i \in 1 .. Slots, slotReg'[i] = NoPlane PROVE slotLast'[i] = Zero
      BY <1>0, <2>1, <3>2, Zenon DEF SlotInv
    <3>. QED BY <3>1, <3>2, Zenon DEF SlotInv
  <2>5. ASSUME NEW j \in 1 .. Slots PROVE CacheShown(j)'
    BY <1>2, <1>4, <2>1, <2>3, CacheSettled, Zenon DEF CacheShown
  <2>6. SearchInv(t)' BY <1>2, <2>1, <2>3, Zenon DEF SearchInv, HasSlot
  <2>7. WriteInv(t)' BY <1>6, <2>1, Zenon
  <2>. QED BY <1>0, <1>1, <2>4, <2>5, <2>6, <2>7, DriverMoves, Zenon
<1>12. CASE V93Clear(t)
  <2>1. /\ pc'[t] = Found(t) /\ slot' = slot /\ slotReg' = slotReg
        /\ slotLast' = [slotLast EXCEPT ![slot[t]] = Zero]
    BY <1>0, <1>12, Zenon DEF V93Clear, Goto
  <2>2. slotReg[slot[t]] = plane[t] /\ slotLast[slot[t]] = Zero
    BY <1>0, <1>12, Zenon DEF V93Clear, SearchInv
  <2>3. \A j \in 1 .. Slots : slotLast'[j] = slotLast[j] BY <1>0, <2>1, <2>2, Zenon
  <2>4. SlotInv' BY <1>0, <2>1, <2>3, Zenon DEF SlotInv
  <2>5. ASSUME NEW j \in 1 .. Slots PROVE CacheShown(j)'
    BY <1>2, <1>4, <2>1, <2>3, CacheSettled, Zenon DEF CacheShown
  <2>6. SearchInv(t)' BY <1>2, <1>3, <1>5, <2>1, <2>2, Zenon DEF SearchInv, HasSlot
  <2>7. WriteInv(t)' BY <1>5, <1>6, <2>1, Zenon
  <2>. QED BY <1>0, <1>1, <2>4, <2>5, <2>6, <2>7, DriverMoves, Zenon
<1>. QED BY <1>9, <1>10, <1>11, <1>12

\* raWriteRegister32's V93 guard: what it caches is on its way to the plane, and
\* what it puts in place of a zero is what the plane shows.
LEMMA V93KeepsSurface ==
  ASSUME OneWriter, IInv, SurfaceInv, NEW t \in Drivers,
         \/ V93Store(t) \/ V93ReadCtl(t) \/ V93TestCached(t) \/ V93UseCached(t)
         \/ V93ReadSurf(t) \/ V93Disable(t)
  PROVE  SurfaceInv'
<1> USE DEF regs, v93States, history, locals
<1>0. /\ t \in Threads /\ TypeOK /\ SearchInv(t) /\ WriteInv(t) /\ Decided(t) /\ SlotInv
      /\ plane[t] \in Planes /\ plane[t] # NoPlane /\ slot[t] \in 0 .. Slots
      /\ pc \in [Threads -> PC] /\ slot \in [Threads -> 0 .. Slots]
      /\ val \in [Threads -> Surf0] /\ slotLast \in [1 .. Slots -> Surf0]
  BY PlanesAssumption, Zenon DEF IInv, TypeOK, Threads, SurfaceInv
<1>1. Local(t) BY <1>0, StepsAreLocal, Zenon DEF Guards, V93Guard
<1>2. /\ pc[t] \in {"v93Store", "v93Ctl", "v93Cached", "v93Use", "v93Surf", "v93Off"}
      /\ plane' = plane /\ path' = path /\ asked' = asked /\ surf' = surf
      /\ slotReg' = slotReg
  BY Zenon DEF V93Store, V93ReadCtl, V93TestCached, V93UseCached, V93ReadSurf, V93Disable,
     Look, Pass, TurnOff, SetCtl
<1>3. pc[t] \notin {"guard", "put"} /\ path[t] # "export64" BY <1>0, <1>2, Zenon DEF WriteInv
<1>4. slot[t] # NoSlot => slot[t] \in 1 .. Slots BY <1>0 DEF NoSlot
<1>5. After(t) = "guard" \/ After(t) = "put" BY Zenon DEF After
<1>6. ASSUME NEW v, Pass(t, v)
      PROVE  pc'[t] = After(t) /\ val'[t] = v /\ SearchInv(t)'
  <2>1. pc'[t] = After(t) /\ val'[t] = v BY <1>0, <1>6, Zenon DEF Pass, Goto
  <2>. QED BY <1>5, <2>1, Zenon DEF SearchInv, HasSlot
<1>7. ASSUME slotLast' = slotLast PROVE SlotInv' /\ \A i \in 1 .. Slots : CacheShown(i)'
  BY <1>0, <1>2, <1>3, <1>7, CacheSettled, Zenon DEF SlotInv
<1>8. ASSUME Pass(t, Zero), slotLast' = slotLast PROVE SurfaceInv'
  <2>1. WriteInv(t)' BY <1>2, <1>3, <1>5, <1>6, <1>8, Zenon DEF WriteInv
  <2>. QED BY <1>1, <1>6, <1>7, <1>8, <2>1, DriverMoves, Zenon
<1>9. ASSUME pc[t] \in HasSlot, slotLast' = slotLast, val'[t] = val[t], slot' = slot,
             pc'[t] \in {"v93Cached", "v93Use", "v93Surf"}
      PROVE  SurfaceInv'
  <2>1. SearchInv(t)' BY <1>0, <1>2, <1>9, Zenon DEF SearchInv, HasSlot
  <2>2. WriteInv(t)' BY <1>2, <1>3, <1>9, Zenon DEF WriteInv
  <2>. QED BY <1>1, <1>7, <1>9, <2>1, <2>2, DriverMoves, Zenon
<1>10. CASE V93Store(t)
  <2>1. /\ pc[t] = "v93Store" /\ val[t] # Zero /\ Pass(t, val[t])
        /\ slot[t] = NoSlot => slotLast' = slotLast
        /\ slot[t] # NoSlot => slotLast' = [slotLast EXCEPT ![slot[t]] = val[t]]
    BY <1>0, <1>10, Zenon DEF V93Store, Decided
  <2>2. /\ slot[t] = NoSlot => \A j \in 1 .. Slots : slotReg[j] # plane[t]
        /\ slot[t] # NoSlot => slotReg[slot[t]] = plane[t]
    BY <1>0, <2>1, Zenon DEF SearchInv, HasSlot
  <2>3. \A j \in 1 .. Slots : slotReg[j] # plane[t] => slotLast'[j] = slotLast[j]
    BY <1>0, <1>4, <2>1, <2>2, Zenon
  <2>4. \A j \in 1 .. Slots : slotReg[j] = plane[t] => slotLast'[j] = val[t]
    <3>1. ASSUME NEW j \in 1 .. Slots, slotReg[j] = plane[t] PROVE j = slot[t] /\ slot[t] # NoSlot
      BY <1>0, <1>4, <2>2, <3>1, Zenon DEF SlotInv
    <3>. QED BY <1>0, <2>1, <3>1, Zenon
  <2>5. pc'[t] = After(t) /\ val'[t] = val[t] /\ SearchInv(t)' BY <1>6, <2>1, Zenon
  <2>6. SlotInv' BY <1>0, <1>2, <2>3, Zenon DEF SlotInv
  <2>7. ASSUME NEW j \in 1 .. Slots PROVE CacheShown(j)'
    <3>1. CASE slotReg[j] = plane[t]
      BY <1>2, <1>5, <2>4, <2>5, <3>1, Zenon DEF CacheShown
    <3>2. CASE slotReg[j] # plane[t]
      BY <1>2, <1>3, <2>3, <3>2, CacheSettled, Zenon DEF CacheShown
    <3>. QED BY <3>1, <3>2
  <2>8. plane[t] # MonitorPlane => val[t] = asked[t] \/ val[t] = surf[plane[t]]
    BY <1>0, <2>1, Zenon DEF WriteInv
  <2>9. WriteInv(t)'
    BY <1>2, <1>3, <1>5, <2>1, <2>4, <2>5, <2>8, Zenon DEF WriteInv
  <2>. QED BY <1>1, <2>5, <2>6, <2>7, <2>9, DriverMoves, Zenon
<1>11. CASE V93ReadCtl(t)
  <2>1. pc[t] = "v93Ctl" /\ slotLast' = slotLast BY <1>11, Zenon DEF V93ReadCtl
  <2>2. CASE "on" \notin ctl[plane[t]]
    <3>1. Pass(t, val[t]) BY <1>11, <2>2, Zenon DEF V93ReadCtl
    <3>2. val[t] = Zero BY <1>0, <2>1, Zenon DEF WriteInv
    <3>. QED BY <1>8, <2>1, <3>1, <3>2, Zenon
  <2>3. CASE "on" \in ctl[plane[t]]
    <3>1. /\ pc'[t] \in {"v93Cached", "v93Surf"} /\ val' = val /\ slot' = slot
      BY <1>0, <1>11, <2>3, Zenon DEF V93ReadCtl, Goto
    <3>. QED BY <1>9, <2>1, <3>1, Zenon DEF HasSlot
  <2>. QED BY <2>2, <2>3
<1>12. CASE V93TestCached(t)
  <2>1. /\ pc[t] = "v93Cached" /\ slotLast' = slotLast /\ val' = val
        /\ pc'[t] \in {"v93Use", "v93Surf"} /\ slot' = [slot EXCEPT ![t] = slot[t]]
    BY <1>0, <1>12, Zenon DEF V93TestCached, Look, Goto
  <2>2. slot' = slot BY <1>0, <2>1, Zenon
  <2>. QED BY <1>9, <2>1, <2>2, Zenon DEF HasSlot
<1>13. CASE V93UseCached(t)
  <2>1. pc[t] = "v93Use" /\ slotLast' = slotLast /\ Pass(t, slotLast[slot[t]])
    BY <1>13, Zenon DEF V93UseCached
  <2>2. slot[t] \in 1 .. Slots /\ slotReg[slot[t]] = plane[t]
    BY <1>0, <1>4, <2>1, Zenon DEF Decided, AtSlot, SearchInv, HasSlot
  <2>3. \A j \in 1 .. Slots : slotReg[j] = plane[t] => j = slot[t]
    BY <1>0, <2>2, Zenon DEF SlotInv
  <2>4. plane[t] # MonitorPlane =>
          slotLast[slot[t]] = Zero \/ surf[plane[t]] \in {Zero, slotLast[slot[t]]}
    BY <1>0, <1>3, <2>2, CacheSettled, Zenon
  <2>5. pc'[t] = After(t) /\ val'[t] = slotLast[slot[t]] /\ SearchInv(t)' BY <1>6, <2>1, Zenon
  <2>6. WriteInv(t)' BY <1>2, <1>3, <1>5, <2>1, <2>3, <2>4, <2>5, Zenon DEF WriteInv
  <2>. QED BY <1>1, <1>7, <2>1, <2>5, <2>6, DriverMoves, Zenon
<1>14. CASE V93ReadSurf(t)
  <2>1. /\ pc[t] = "v93Surf" /\ slotLast' = slotLast /\ slot' = slot
        /\ val'[t] = surf[plane[t]]
        /\ pc'[t] = IF surf[plane[t]] # Zero THEN "v93Store" ELSE "v93Off"
    BY <1>0, <1>14, Zenon DEF V93ReadSurf, Goto
  <2>2. SearchInv(t)' BY <1>0, <1>2, <2>1, Zenon DEF SearchInv, HasSlot
  <2>3. WriteInv(t)' BY <1>2, <1>3, <2>1, Zenon DEF WriteInv
  <2>. QED BY <1>1, <1>7, <2>1, <2>2, <2>3, DriverMoves, Zenon
<1>15. CASE V93Disable(t)
  <2>1. slotLast' = slotLast /\ Pass(t, Zero)
    BY <1>0, <1>15, Zenon DEF V93Disable, WriteInv
  <2>. QED BY <1>8, <2>1, Zenon
<1>. QED BY <1>10, <1>11, <1>12, <1>13, <1>14, <1>15

\* writeReg32's guard, behind the V93 guard when there is no object: it keeps a
\* surface that is on its way and reads the plane's own for a zero.
LEMMA WriteRegKeepsSurface ==
  ASSUME OneWriter, IInv, SurfaceInv, NEW t \in Drivers, WriteReg(t)
  PROVE  SurfaceInv'
<1> USE DEF regs, v93States, history, locals
<1>0. /\ t \in Threads /\ TypeOK /\ WriteInv(t) /\ SlotInv /\ plane[t] \in Planes
      /\ pc \in [Threads -> PC] /\ val \in [Threads -> Surf0]
      /\ \A u \in Drivers : u = t
  BY Zenon DEF IInv, TypeOK, Threads, SurfaceInv, OneWriter
<1>1. Local(t) BY <1>0, StepsAreLocal, Zenon DEF Guards
<1>2. /\ plane' = plane /\ path' = path /\ asked' = asked /\ surf' = surf
      /\ slotReg' = slotReg /\ slotLast' = slotLast
  BY Zenon DEF WriteReg, GuardCheck, GuardReadSurf, GuardDisable, TurnOff, SetCtl
<1>3. pc'[t] \in {"guardSurf", "guardOff", "put"}
  BY <1>0, Zenon DEF WriteReg, GuardCheck, GuardReadSurf, GuardDisable, Goto
<1>4. SlotInv' /\ SearchInv(t)'
  BY <1>0, <1>2, <1>3, Zenon DEF SlotInv, SearchInv, HasSlot
<1>5. CASE GuardCheck(t)
  <2>1. /\ val' = val /\ pc[t] = "guard"
        /\ pc'[t] = "put" \/ (pc'[t] = "guardSurf" /\ val[t] = Zero)
    BY <1>0, <1>5, Zenon DEF GuardCheck, Goto
  <2>2. ASSUME NEW i \in 1 .. Slots PROVE CacheShown(i)'
    <3>1. CacheShown(i) BY Zenon DEF SurfaceInv
    <3>. QED BY <1>0, <1>2, <2>1, <3>1, Zenon DEF CacheShown
  <2>3. WriteInv(t)' BY <1>0, <1>2, <2>1, Zenon DEF WriteInv
  <2>. QED BY <1>1, <1>4, <2>2, <2>3, DriverMoves, Zenon
<1>6. CASE GuardReadSurf(t)
  <2>1. /\ pc[t] = "guardSurf" /\ val'[t] = surf[plane[t]]
        /\ pc'[t] = IF surf[plane[t]] # Zero THEN "put" ELSE "guardOff"
    BY <1>0, <1>6, Zenon DEF GuardReadSurf, Goto
  <2>2. /\ \A i \in 1 .. Slots :
             slotReg[i] \notin {NoPlane, MonitorPlane} =>
               slotLast[i] = Zero \/ surf[slotReg[i]] \in {Zero, slotLast[i]}
        /\ \A i \in 1 .. Slots : CacheShown(i)'
    BY <1>2, <2>1, CacheSettled, Zenon
  <2>3. plane[t] # MonitorPlane /\ surf[plane[t]] # Zero =>
          \A i \in 1 .. Slots : slotReg[i] = plane[t] => slotLast[i] \in {Zero, surf[plane[t]]}
    BY <1>0, <2>2, PlanesAssumption, Zenon
  <2>4. WriteInv(t)' BY <1>0, <1>2, <2>1, <2>3, Zenon DEF WriteInv
  <2>. QED BY <1>1, <1>4, <2>2, <2>4, DriverMoves, Zenon
<1>7. CASE GuardDisable(t)
  <2>1. val' = val /\ val[t] = Zero /\ pc[t] = "guardOff" /\ pc'[t] = "put"
    BY <1>0, <1>7, Zenon DEF GuardDisable, Goto, WriteInv
  <2>2. \A i \in 1 .. Slots : CacheShown(i)' BY <1>2, <2>1, CacheSettled, Zenon
  <2>3. WriteInv(t)' BY <1>0, <1>2, <2>1, Zenon DEF WriteInv
  <2>. QED BY <1>1, <1>4, <2>2, <2>3, DriverMoves, Zenon
<1>. QED BY <1>5, <1>6, <1>7, Zenon DEF WriteReg

\* The write itself makes the plane show what is cached, or turns it to zero.
LEMMA PutKeepsSurface ==
  ASSUME OneWriter, IInv, SurfaceInv, NEW t \in Drivers, Put(t)
  PROVE  SurfaceInv'
<1> USE DEF regs, v93States
<1>0. /\ t \in Threads /\ t \notin Monitors /\ TypeOK /\ WriteInv(t) /\ SlotInv
      /\ plane[t] \in Planes /\ surf \in [Planes -> Surf0] /\ pc \in [Threads -> PC]
      /\ \A u \in Drivers : u = t
  BY PlanesAssumption, Zenon DEF IInv, TypeOK, Threads, SurfaceInv, OneWriter
<1>1. Local(t) BY <1>0, StepsAreLocal, Zenon
<1>2. /\ slotReg' = slotReg /\ slotLast' = slotLast /\ pc[t] = "put" /\ pc'[t] = "idle"
      /\ Arm(plane[t], val[t])
  BY <1>0, Zenon DEF Put, Goto, WriteInv
<1>3. path'[t] # "export64"
  <2>1. path \in [Threads -> AllPaths] BY <1>0, Zenon DEF TypeOK
  <2>2. path'[t] = "export" BY <1>0, <2>1, Zenon DEF Put
  <2>. QED BY <2>2, Zenon
<1>4. surf'[plane[t]] = val[t] /\ \A p \in Planes \ {plane[t]} : surf'[p] = surf[p]
  BY <1>0, <1>2, Zenon DEF Arm
<1>5. ASSUME NEW i \in 1 .. Slots PROVE CacheShown(i)'
  <2>1. CacheShown(i) /\ slotReg[i] \in Planes \cup {NoPlane} BY <1>0, Zenon DEF SurfaceInv, TypeOK
  <2>2. CASE slotReg[i] = plane[t]
    BY <1>0, <1>2, <1>4, <2>2, Zenon DEF CacheShown, WriteInv
  <2>3. CASE slotReg[i] # plane[t]
    BY <1>0, <1>2, <1>4, <2>1, <2>3, Zenon DEF CacheShown
  <2>. QED BY <2>2, <2>3
<1>6. SlotInv' /\ SearchInv(t)' BY <1>0, <1>2, Zenon DEF SlotInv, SearchInv, HasSlot
<1>7. WriteInv(t)' BY <1>2, <1>3, Zenon DEF WriteInv
<1>. QED BY <1>1, <1>5, <1>6, <1>7, DriverMoves, Zenon

\* The driver's writes enter through the V93 guard.
LEMMA DriverKeepsSurface ==
  ASSUME OneWriter, IInv, SurfaceInv, NEW t \in Drivers, Driver(t)
  PROVE  SurfaceInv'
<1> USE DEF regs, v93States, history, locals
<1>0. /\ t \in Threads /\ TypeOK /\ SlotInv /\ pc \in [Threads -> PC]
      /\ path \in [Threads -> AllPaths] /\ val \in [Threads -> Surf0]
      /\ asked \in [Threads -> Surf0] /\ slot \in [Threads -> 0 .. Slots]
  BY Zenon DEF IInv, TypeOK, Threads, SurfaceInv
<1>1. Local(t) BY <1>0, StepsAreLocal, Zenon
<1>2. PICK h \in Paths :
        \/ \E p \in Planes, v \in Surf0 : WriteSurf(t, h, p, v)
        \/ \E p \in Planes, bits \in SUBSET CtlBits : WriteCtl(t, h, p, bits)
  BY Zenon DEF Driver
<1>3. EntryOf(h) = "v93Find" /\ h # "export64" BY Zenon DEF EntryOf, OneWriter
<1>4. ASSUME NEW p \in Planes, NEW v \in Surf0, WriteSurf(t, h, p, v)
      PROVE  SurfaceInv'
  <2>1. /\ slotReg' = slotReg /\ slotLast' = slotLast /\ surf' = surf
        /\ pc[t] = "idle" /\ pc'[t] = "v93Find" /\ val'[t] = v /\ asked'[t] = v
        /\ slot'[t] = 1 /\ path'[t] = h
    BY <1>0, <1>3, <1>4, Zenon DEF WriteSurf, Goto
  <2>2. SlotInv' /\ \A i \in 1 .. Slots : CacheShown(i)'
    BY <1>0, <2>1, CacheSettled, Zenon DEF SlotInv
  <2>3. \A j \in 1 .. Slots : ~(j < 1) BY PathsAssumption
  <2>4. SearchInv(t)' BY <2>1, <2>3, Zenon DEF SearchInv, HasSlot
  <2>5. WriteInv(t)' BY <1>3, <2>1, Zenon DEF WriteInv
  <2>. QED BY <1>1, <2>2, <2>4, <2>5, DriverMoves, Zenon
<1>5. ASSUME NEW p \in Planes, NEW bits \in SUBSET CtlBits, WriteCtl(t, h, p, bits)
      PROVE  SurfaceInv'
  <2>1. /\ slotReg' = slotReg /\ slotLast' = slotLast /\ surf' = surf /\ pc' = pc
        /\ plane' = plane /\ path' = path /\ val' = val /\ asked' = asked /\ slot' = slot
    BY <1>5, Zenon DEF WriteCtl, SetCtl
  <2>2. \A m \in Monitors : plane'[m] = MonitorPlane /\ pc'[m] \notin InV93
    BY <2>1, Zenon DEF SurfaceInv
  <2>. QED BY <1>0, <2>1, <2>2, OutsideDriver, Zenon
<1>. QED BY <1>2, <1>4, <1>5, Zenon

\* The inductive invariant of the V93 cache, with the monitor running.
THEOREM SurfaceInvariant ==
  ASSUME OneWriter PROVE Spec => []SurfaceInv
<1>1. Init => SurfaceInv
  <2> SUFFICES ASSUME Init PROVE SurfaceInv OBVIOUS
  <2>1. \A t \in Drivers : t \in Threads /\ t \notin Monitors
    BY PlanesAssumption, Zenon DEF Threads
  <2>2. ASSUME NEW t \in Drivers PROVE pc[t] = "idle" /\ path[t] = "export"
    BY <2>1, Zenon DEF Init
  <2>3. \A t \in Drivers : SearchInv(t) /\ WriteInv(t)
    BY <2>2, Zenon DEF SearchInv, WriteInv, HasSlot
  <2>4. SlotInv /\ \A i \in 1 .. Slots : CacheShown(i) BY Zenon DEF Init, SlotInv, CacheShown
  <2>5. ASSUME NEW t \in Monitors PROVE plane[t] = MonitorPlane /\ pc[t] \notin InV93
    <3>1. plane[t] = MonitorPlane /\ pc[t] = "v79" BY Zenon DEF Init, Threads
    <3>. QED BY <3>1, Zenon DEF InV93, HasSlot
  <2>. QED BY <2>3, <2>4, <2>5, Zenon DEF SurfaceInv
<1>2. IInv /\ SurfaceInv /\ [Next]_vars => SurfaceInv'
  <2> SUFFICES ASSUME IInv, SurfaceInv, [Next]_vars PROVE SurfaceInv' OBVIOUS
  <2>0. TypeOK BY Zenon DEF IInv
  <2>1. CASE UNCHANGED vars
    <3>1. /\ slotReg' = slotReg /\ slotLast' = slotLast /\ surf' = surf /\ pc' = pc
          /\ plane' = plane /\ path' = path /\ val' = val /\ asked' = asked /\ slot' = slot
      BY <2>1, Zenon DEF vars, regs, v93States, locals
    <3>2. \A m \in Monitors : plane'[m] = MonitorPlane /\ pc'[m] \notin InV93
      BY <3>1, Zenon DEF SurfaceInv
    <3>. QED BY <2>0, <3>1, <3>2, OutsideDriver, Zenon
  <2>2. ASSUME NEW t \in Drivers, V93Guard(t) PROVE SurfaceInv'
    BY <2>2, SearchKeepsSurface, V93KeepsSurface, Zenon DEF V93Guard
  <2>3. ASSUME NEW t \in Drivers, Guards(t) \/ Put(t) \/ Driver(t) PROVE SurfaceInv'
    BY <2>2, <2>3, WriteRegKeepsSurface, PutKeepsSurface, DriverKeepsSurface, Zenon DEF Guards
  <2>4. ASSUME NEW t \in Monitors, Guards(t) \/ Put(t) \/ Monitor(t) PROVE SurfaceInv'
    BY <2>0, <2>4, MonitorKeepsSurface, Zenon
  <2>. QED BY <2>1, <2>3, <2>4, Zenon DEF Next, Threads
<1>. QED BY <1>1, <1>2, PlaneInvariant, PTL DEF Spec

\* raWriteRegister32 keeps the picture when it blocks a write of zero: on every
\* plane the monitor leaves alone it re-arms the surface the plane shows and
\* brings back no older one, for any planes, surfaces and number of cache slots.
THEOREM BlockedWriteKeepsSurface ==
  ASSUME OneWriter PROVE Spec => GuardKeepsSurface
<1> DEFINE Keeps ==
      \A t \in Drivers :
        pc[t] = "put" /\ pc'[t] # "put" /\ asked[t] = Zero /\ val[t] # Zero
        /\ plane[t] # MonitorPlane
          => surf[plane[t]] \in {Zero, surf'[plane[t]]}
<1>1. IInv /\ SurfaceInv /\ [Next]_vars => [Keeps]_vars
  <2> SUFFICES ASSUME IInv, SurfaceInv, [Next]_vars, NEW t \in Drivers,
                      pc[t] = "put", pc'[t] # "put", asked[t] = Zero, val[t] # Zero,
                      plane[t] # MonitorPlane
               PROVE  surf[plane[t]] \in {Zero, surf'[plane[t]]}
    BY Zenon
  <2>1. /\ TypeOK /\ t \in Threads /\ t \notin Monitors /\ plane[t] \in Planes
        /\ surf[plane[t]] \in {Zero, val[t]}
    BY PlanesAssumption, Zenon DEF SurfaceInv, WriteInv, IInv, TypeOK, Threads
  <2>2. CASE Put(t)
    BY <2>1, <2>2, Zenon DEF Put, Arm, TypeOK, regs
  <2>3. CASE UNCHANGED vars BY <2>3, Zenon DEF vars
  <2>4. ~Guards(t) /\ ~Driver(t)
    BY Zenon DEF Driver, WriteSurf, WriteCtl, Guards, V93Guard, V93Find, V93Free, V93Claim, V93Clear,
       V93Store, V93ReadCtl, V93TestCached, V93UseCached, V93ReadSurf, V93Disable, WriteReg,
       GuardCheck, GuardReadSurf, GuardDisable
  <2>5. ASSUME NEW x \in Threads, x # t, Local(x) PROVE FALSE
    BY <2>1, <2>5, Zenon DEF Local
  <2>6. ASSUME NEW x \in Threads, x # t,
               Guards(x) \/ Put(x) \/ (x \in Drivers /\ Driver(x)) \/ (x \in Monitors /\ Monitor(x))
        PROVE  FALSE
    BY <2>1, <2>5, <2>6, StepsAreLocal, Zenon
  <2>. QED BY <2>1, <2>2, <2>3, <2>4, <2>6, Zenon DEF Next, Threads
<1>. QED BY <1>1, PlaneInvariant, SurfaceInvariant, PTL DEF Spec, GuardKeepsSurface
=============================================================================
