------------------------- MODULE KextPatchingProofs -------------------------
(***************************************************************************)
(* Proofs about KextPatching: for every set of kexts, of boot arguments    *)
(* and of framebuffer flavours.                                            *)
(***************************************************************************)
EXTENDS KextPatching, Naturals, SequenceTheorems, TLAPS

(* Which branch of processKext a group belongs to: no group is shared by   *)
(* two kexts.                                                              *)
Owner(g) ==
  CASE g \in {"f2", "f1"} -> "IOAccelF2"
    [] g = "boardId" -> "AGDP"
    [] g \in {"setDisplay", "panelName"} -> "Backlight"
    [] g = "probes" -> "MCCS"
    [] g \in {"isprod", "setCDClock", "fbCommon", "prod", "debug", "prodPatches",
              "debugPatches", "probeF2"} -> "FB"
    [] OTHER -> "HW"

(* The groups inside a PANIC_COND.                                         *)
Essential ==
  {"setCDClock", "fbCommon", "prod", "debug", "prodPatches", "debugPatches", "probeF2",
   "displayMachine", "accelerator", "schedControl", "firmware", "policy", "wopcm",
   "scheduler5", "forceWake", "gpuInfo", "sku", "topology", "devstart"}

(* The groups whose failure is only logged.                                *)
Optional ==
  {"f2", "f1", "boardId", "setDisplay", "panelName", "probes", "isprod", "traceSymbols",
   "rcsInit", "resumeScheduling", "devstartLong"}

Ops == {"mask", "clear", "apply", "rawRoute", "probe", "solve", "route"}
StepRec == [op : Ops, group : Essential \cup Optional, must : BOOLEAN]

(* What the steps of kext k have in common, whatever the boot arguments:   *)
(* clearError and the probe are never mandatory, the two kexts with        *)
(* mandatory groups install every route through PatcherPlus and have no    *)
(* optional plain patch.                                                   *)
StepsOf(k) ==
  {s \in StepRec :
     /\ Owner(s.group) = k
     /\ s.must <=> s.group \in Essential
     /\ s.op \in {"clear", "probe", "rawRoute"} => ~s.must
     /\ s.op = "probe" => s.group = "isprod"
     /\ k \in {"FB", "HW"} => s.op # "rawRoute" /\ (s.op = "apply" => s.must)
     /\ k = "IOAccelF2" => s.op \in {"mask", "clear"}
     /\ s.group \in {"prod", "debug"} => s.group = flavour}

Left == Range(todo)

TypeInv ==
  /\ flavour \in {"prod", "debug"}
  /\ kext \in AllKexts \cup {"none"}
  /\ done \subseteq AllKexts

(* The steps left are steps of the kext in hand, which is not done.        *)
BranchInv ==
  /\ todo \in Seq(StepsOf(kext))
  /\ kext = "none" => todo = << >>
  /\ kext \notin done

(* Every mandatory group of the kext in hand is in effect or still to come, *)
(* and none has failed.                                                    *)
ProgressInv ==
  /\ ~panic /\ kext # "none" =>
       \A g \in Mandatory(kext) : g \in applied \/ \E s \in Left : s.must /\ s.group = g
  /\ ~panic => partial \cap Essential = {}
  /\ {"prod", "debug"} \cap applied \subseteq {flavour}

(* The error pending is that of an uncleared failure, or the MCCS route's, *)
(* which the next step clears.                                             *)
ErrorInv ==
  ~panic =>
    \/ err \in Uncleared \cup {"none"}
    \/ err = "probes" /\ kext = "MCCS" /\ todo = << May("clear", "probes") >>

(* How far the MCCS branch is. *)
MCCSInv ==
  kext = "MCCS" => todo \in {MCCSSteps, << May("clear", "probes") >>, << >>}

IInv == TypeInv /\ BranchInv /\ ProgressInv /\ AllOrPanic /\ MCCSInv /\ ErrorInv /\ PanicExplained

-----------------------------------------------------------------------------
(* The steps of the branches.                                              *)

\* A mandatory step about an essential group.
LEMMA MustStep ==
  ASSUME NEW k, NEW g \in Essential, Owner(g) = k,
         NEW op \in {"apply", "mask", "solve", "route"},
         k # "IOAccelF2", g \in {"prod", "debug"} => g = flavour
  PROVE  Must(op, g) \in StepsOf(k)
<1>1. op \in Ops
  BY DEF Ops
<1>2. Must(op, g) \in StepRec
  BY <1>1 DEF Must, StepRec
<1>3. Must(op, g).op = op /\ Must(op, g).group = g /\ Must(op, g).must = TRUE
  BY DEF Must
<1> QED
  BY <1>2, <1>3 DEF StepsOf

\* An optional step about an optional group.
LEMMA MayStep ==
  ASSUME NEW k, NEW g \in Optional, Owner(g) = k, NEW op \in Ops,
         k \in {"FB", "HW"} => op \notin {"rawRoute", "apply"},
         k = "IOAccelF2" => op \in {"mask", "clear"}, op = "probe" => g = "isprod"
  PROVE  May(op, g) \in StepsOf(k)
<1>1. May(op, g) \in StepRec
  BY DEF May, StepRec
<1>2. May(op, g).op = op /\ May(op, g).group = g /\ May(op, g).must = FALSE
  BY DEF May
<1>3. g \notin {"prod", "debug"} /\ g \notin Essential
  BY DEF Essential, Optional
<1> QED
  BY <1>1, <1>2, <1>3 DEF StepsOf

\* The branches of IOAcceleratorFamily2, AGDP, backlight and MCCS.
LEMMA SmallBranches ==
  /\ IOAccelF2Steps \in Seq(StepsOf("IOAccelF2"))
  /\ AGDPSteps \in Seq(StepsOf("AGDP"))
  /\ BacklightSteps \in Seq(StepsOf("Backlight"))
  /\ MCCSSteps \in Seq(StepsOf("MCCS"))
<1>1. /\ Owner("f1") = "IOAccelF2" /\ Owner("f2") = "IOAccelF2" /\ Owner("boardId") = "AGDP"
      /\ Owner("setDisplay") = "Backlight" /\ Owner("panelName") = "Backlight"
      /\ Owner("probes") = "MCCS"
  BY DEF Owner
<1>2. /\ "f1" \in Optional /\ "f2" \in Optional /\ "boardId" \in Optional
      /\ "setDisplay" \in Optional /\ "panelName" \in Optional /\ "probes" \in Optional
  BY DEF Optional
<1>3. "mask" \in Ops /\ "clear" \in Ops /\ "apply" \in Ops /\ "rawRoute" \in Ops
  BY DEF Ops
<1>4. /\ May("mask", "f1") \in StepsOf("IOAccelF2")
      /\ May("clear", "f1") \in StepsOf("IOAccelF2")
      /\ May("mask", "f2") \in StepsOf("IOAccelF2")
      /\ May("clear", "f2") \in StepsOf("IOAccelF2")
  BY <1>1, <1>2, <1>3, MayStep
<1>5. /\ May("apply", "boardId") \in StepsOf("AGDP")
      /\ May("rawRoute", "setDisplay") \in StepsOf("Backlight")
      /\ May("apply", "panelName") \in StepsOf("Backlight")
      /\ May("rawRoute", "probes") \in StepsOf("MCCS")
      /\ May("clear", "probes") \in StepsOf("MCCS")
  BY <1>1, <1>2, <1>3, MayStep
<1> QED
  BY <1>4, <1>5 DEF IOAccelF2Steps, AGDPSteps, BacklightSteps, MCCSSteps

\* The framebuffer branch: every part of it.
LEMMA FBParts ==
  ASSUME flavour \in {"prod", "debug"}
  PROVE  /\ << May("probe", "isprod"), Must("solve", "setCDClock") >> \in Seq(StepsOf("FB"))
         /\ FBRoutes(flavour) \in Seq(StepsOf("FB"))
         /\ FBPatches(flavour) \in Seq(StepsOf("FB"))
<1>1. /\ Owner("isprod") = "FB" /\ Owner("setCDClock") = "FB" /\ Owner("fbCommon") = "FB"
      /\ Owner("prodPatches") = "FB" /\ Owner("debugPatches") = "FB" /\ Owner("probeF2") = "FB"
      /\ Owner(flavour) = "FB"
  BY DEF Owner
<1>2. /\ "isprod" \in Optional /\ "setCDClock" \in Essential /\ "fbCommon" \in Essential
      /\ "prodPatches" \in Essential /\ "debugPatches" \in Essential /\ "probeF2" \in Essential
      /\ flavour \in Essential
  BY DEF Optional, Essential
<1>3. May("probe", "isprod") \in StepsOf("FB")
  BY <1>1, <1>2, MayStep DEF Ops
<1>4. /\ Must("solve", "setCDClock") \in StepsOf("FB")
      /\ Must("route", "fbCommon") \in StepsOf("FB")
      /\ Must("route", flavour) \in StepsOf("FB")
  BY <1>1, <1>2, MustStep
<1>5. /\ Must("apply", "prodPatches") \in StepsOf("FB")
      /\ Must("apply", "debugPatches") \in StepsOf("FB")
      /\ Must("apply", "probeF2") \in StepsOf("FB")
  BY <1>1, <1>2, MustStep
<1>6. FBPatches(flavour) \in Seq(StepsOf("FB"))
  BY <1>5, ConcatProperties DEF FBPatches
<1>7. FBRoutes(flavour) \in Seq(StepsOf("FB"))
  BY <1>4 DEF FBRoutes
<1> QED
  BY <1>3, <1>4, <1>6, <1>7

\* The accelerator branch: every part of it.
LEMMA HWParts ==
  /\ HWSolves \in Seq(StepsOf("HW"))
  /\ HWRoutes \in Seq(StepsOf("HW"))
  /\ HWTraceRoutes \in Seq(StepsOf("HW"))
  /\ HWCoexistRoutes \in Seq(StepsOf("HW"))
  /\ HWPatches \in Seq(StepsOf("HW"))
<1>1. /\ Owner("displayMachine") = "HW" /\ Owner("accelerator") = "HW"
      /\ Owner("schedControl") = "HW" /\ Owner("firmware") = "HW" /\ Owner("policy") = "HW"
      /\ Owner("wopcm") = "HW" /\ Owner("scheduler5") = "HW" /\ Owner("forceWake") = "HW"
      /\ Owner("gpuInfo") = "HW" /\ Owner("sku") = "HW" /\ Owner("topology") = "HW"
      /\ Owner("devstart") = "HW"
  BY DEF Owner
<1>2. /\ "displayMachine" \in Essential /\ "accelerator" \in Essential
      /\ "schedControl" \in Essential /\ "firmware" \in Essential /\ "policy" \in Essential
      /\ "wopcm" \in Essential /\ "scheduler5" \in Essential /\ "forceWake" \in Essential
      /\ "gpuInfo" \in Essential /\ "sku" \in Essential /\ "topology" \in Essential
      /\ "devstart" \in Essential
  BY DEF Essential
<1>3. /\ Owner("traceSymbols") = "HW" /\ Owner("rcsInit") = "HW"
      /\ Owner("resumeScheduling") = "HW" /\ Owner("devstartLong") = "HW"
  BY DEF Owner
<1>4. /\ "traceSymbols" \in Optional /\ "rcsInit" \in Optional
      /\ "resumeScheduling" \in Optional /\ "devstartLong" \in Optional
  BY DEF Optional
<1>5. "solve" \in Ops /\ "route" \in Ops /\ "mask" \in Ops
  BY DEF Ops
<1>6. /\ Must("solve", "displayMachine") \in StepsOf("HW")
      /\ May("solve", "traceSymbols") \in StepsOf("HW")
  BY <1>1, <1>2, <1>3, <1>4, <1>5, MustStep, MayStep
<1>7. HWSolves \in Seq(StepsOf("HW"))
  BY <1>6, ConcatProperties DEF HWSolves, If
<1>8. /\ Must("route", "accelerator") \in StepsOf("HW")
      /\ Must("solve", "schedControl") \in StepsOf("HW")
      /\ Must("route", "firmware") \in StepsOf("HW")
      /\ Must("route", "policy") \in StepsOf("HW")
      /\ Must("route", "wopcm") \in StepsOf("HW")
      /\ Must("route", "scheduler5") \in StepsOf("HW")
  BY <1>1, <1>2, MustStep
<1>9. HWRoutes \in Seq(StepsOf("HW"))
  BY <1>8, ConcatProperties DEF HWRoutes, If
<1>10. /\ May("route", "rcsInit") \in StepsOf("HW")
       /\ May("route", "resumeScheduling") \in StepsOf("HW")
  BY <1>3, <1>4, <1>5, MayStep
<1>11. HWTraceRoutes \in Seq(StepsOf("HW"))
  BY <1>10 DEF HWTraceRoutes, If
<1>12. /\ Must("route", "forceWake") \in StepsOf("HW")
       /\ Must("route", "gpuInfo") \in StepsOf("HW")
  BY <1>1, <1>2, MustStep
<1>13. HWCoexistRoutes \in Seq(StepsOf("HW"))
  BY <1>12 DEF HWCoexistRoutes
<1>14. /\ Must("apply", "sku") \in StepsOf("HW")
       /\ Must("apply", "topology") \in StepsOf("HW")
       /\ Must("mask", "devstart") \in StepsOf("HW")
       /\ May("mask", "devstartLong") \in StepsOf("HW")
  BY <1>1, <1>2, <1>3, <1>4, <1>5, MustStep, MayStep
<1>15. HWPatches \in Seq(StepsOf("HW"))
  BY <1>14, ConcatProperties DEF HWPatches
<1> QED
  BY <1>7, <1>9, <1>11, <1>13, <1>15

\* The steps of every branch of processKext.
LEMMA StepsTyped ==
  ASSUME flavour \in {"prod", "debug"}, NEW k \in AllKexts
  PROVE  Steps(k) \in Seq(StepsOf(k))
<1>1. HWSteps \in Seq(StepsOf("HW"))
  BY HWParts, ConcatProperties DEF HWSteps
<1>2. FBSteps(flavour) \in Seq(StepsOf("FB"))
  BY FBParts, ConcatProperties DEF FBSteps
<1> QED
  BY <1>1, <1>2, SmallBranches DEF Steps, AllKexts

\* The elements of a concatenation.
LEMMA InConcat ==
  ASSUME NEW S, NEW s \in Seq(S), NEW u \in Seq(S), NEW x,
         x \in Range(s) \/ x \in Range(u)
  PROVE  x \in Range(s \o u)
  BY RangeConcatenation

\* The framebuffer's flavour is one of its mandatory groups.
LEMMA FlavourMandatory ==
  ASSUME flavour \in {"prod", "debug"}
  PROVE  flavour \in Mandatory("FB")
<1> DEFINE s == Must("route", flavour)
           H == << May("probe", "isprod"), Must("solve", "setCDClock") >> \o FBRoutes(flavour)
<1>1. FBRoutes(flavour) = << Must("route", "fbCommon"), Must("route", flavour) >>
  BY DEF FBRoutes
<1>2. s \in Range(FBRoutes(flavour))
  BY <1>1 DEF Range
<1>3. << May("probe", "isprod"), Must("solve", "setCDClock") >> \in Seq(StepsOf("FB"))
      /\ FBRoutes(flavour) \in Seq(StepsOf("FB")) /\ FBPatches(flavour) \in Seq(StepsOf("FB"))
  BY FBParts
<1>4. s \in Range(H) /\ H \in Seq(StepsOf("FB"))
  BY <1>2, <1>3, InConcat, ConcatProperties, Zenon
<1> HIDE DEF H
<1>5. s \in Range(H \o FBPatches(flavour))
  BY <1>3, <1>4, InConcat
<1>6. Steps("FB") = H \o FBPatches(flavour)
  BY DEF Steps, FBSteps, H
<1> HIDE DEF s
<1>7. PICK i \in DOMAIN Steps("FB") : Steps("FB")[i] = s
  BY <1>5, <1>6, Zenon DEF Range
<1>8. s.must = TRUE /\ s.group = flavour
  BY DEF s, Must
<1>9. i \in {j \in DOMAIN Steps("FB") : Steps("FB")[j].must}
  BY <1>7, <1>8
<1> QED
  BY <1>7, <1>8, <1>9 DEF Mandatory

-----------------------------------------------------------------------------
(* Taking a step.                                                          *)

\* The head and the tail of what is left.
LEMMA HeadTail ==
  ASSUME NEW S, NEW s \in Seq(S), s # << >>
  PROVE  /\ Head(s) \in S /\ Tail(s) \in Seq(S)
         /\ Range(s) = {Head(s)} \cup Range(Tail(s))
<1>1. /\ Head(s) = s[1] /\ Head(s) \in S /\ Tail(s) \in Seq(S) /\ Len(s) \in Nat \ {0}
      /\ Len(Tail(s)) = Len(s) - 1
      /\ \A i \in 1 .. Len(Tail(s)) : Tail(s)[i] = s[i + 1]
  OBVIOUS
<1>2. /\ Range(s) = {s[i] : i \in 1 .. Len(s)}
      /\ Range(Tail(s)) = {Tail(s)[i] : i \in 1 .. Len(Tail(s))}
  BY <1>1, RangeEquality, ZenonT(30)
<1>3. Range(s) \subseteq {Head(s)} \cup Range(Tail(s))
  <2> SUFFICES ASSUME NEW i \in 1 .. Len(s), i # 1
               PROVE  s[i] \in Range(Tail(s))
    BY <1>1, <1>2
  <2>1. i - 1 \in 1 .. Len(Tail(s)) /\ (i - 1) + 1 = i
    BY <1>1
  <2>2. Tail(s)[i - 1] = s[i]
    BY <1>1, <2>1
  <2> QED
    BY <1>2, <2>1, <2>2, Zenon
<1>4. {Head(s)} \cup Range(Tail(s)) \subseteq Range(s)
  <2>1. Head(s) \in Range(s)
    BY <1>1, <1>2
  <2>2. \A i \in 1 .. Len(Tail(s)) : i + 1 \in 1 .. Len(s)
    BY <1>1
  <2>3. \A i \in 1 .. Len(Tail(s)) : Tail(s)[i] \in Range(s)
    BY <1>1, <1>2, <2>2
  <2> QED
    BY <1>2, <2>1, <2>3
<1> QED
  BY <1>1, <1>3, <1>4

(* The operations on a group of requests, and what they have in common.    *)
Works == solveAll \/ routeAll \/ RawRoute \/ applyAll \/ ApplyMasked \/ ClearOrProbe

Skips ==
  /\ Step.op \in {"clear", "probe"}
  /\ todo' = Tail(todo)
  /\ UNCHANGED <<applied, partial, panic>>

\* Every operation finishes, fails or skips the first step left.
LEMMA WorksCases ==
  ASSUME BranchInv, Works
  PROVE  /\ ~panic /\ todo # << >> /\ kext # "none"
         /\ UNCHANGED <<args, real, flavour, kext, done>>
         /\ InEffect \/ Fails \/ Skips
<1>1. todo # << >> => kext # "none"
  BY DEF BranchInv
<1>2. CASE solveAll
  BY <1>1, <1>2 DEF solveAll, Doing, platform
<1>3. CASE routeAll
  BY <1>1, <1>3, Zenon DEF routeAll, Doing, platform
<1>4. CASE RawRoute
  BY <1>1, <1>4 DEF RawRoute, Doing, platform
<1>5. CASE applyAll
  BY <1>1, <1>5 DEF applyAll, Doing, platform
<1>6. CASE ApplyMasked
  BY <1>1, <1>6 DEF ApplyMasked, Doing, platform
<1>7. CASE ClearOrProbe
  BY <1>1, <1>7 DEF ClearOrProbe, Doing, platform, Skips
<1> QED
  BY <1>2, <1>3, <1>4, <1>5, <1>6, <1>7 DEF Works

\* The platform is fixed at boot, so the branches are.
LEMMA SameSteps ==
  ASSUME UNCHANGED <<args, real, flavour>>
  PROVE  \A k : Steps(k)' = Steps(k) /\ StepsOf(k)' = StepsOf(k) /\ Mandatory(k)' = Mandatory(k)
<1>1. \A k : Steps(k)' = Steps(k)
  <2>1. FBSteps(flavour)' = FBSteps(flavour)
    BY DEF FBSteps, FBRoutes, FBPatches
  <2>2. HWSteps' = HWSteps
    BY DEF HWSteps, HWSolves, HWRoutes, HWTraceRoutes, HWCoexistRoutes, HWPatches, If
  <2> QED
    BY <2>1, <2>2 DEF Steps, IOAccelF2Steps, AGDPSteps, BacklightSteps, MCCSSteps
<1>2. \A k : StepsOf(k)' = StepsOf(k)
  BY DEF StepsOf
<1> QED
  BY <1>1, <1>2 DEF Mandatory

\* A mandatory group belongs to its kext and is essential.
LEMMA MandatoryOwned ==
  ASSUME flavour \in {"prod", "debug"}, NEW k \in AllKexts, NEW g \in Mandatory(k)
  PROVE  /\ Owner(g) = k /\ g \in Essential
         /\ \E s \in Range(Steps(k)) : s.must /\ s.group = g
<1>1. PICK i \in DOMAIN Steps(k) : Steps(k)[i].must /\ Steps(k)[i].group = g
  BY DEF Mandatory
<1>2. Steps(k) \in Seq(StepsOf(k))
  BY StepsTyped
<1>3. Steps(k)[i] \in StepsOf(k)
  BY <1>1, <1>2
<1> QED
  BY <1>1, <1>3 DEF StepsOf, Range

-----------------------------------------------------------------------------
(* The invariant.                                                          *)

\* The steps left are always those of the kext in hand.
LEMMA BranchNext ==
  ASSUME TypeInv, BranchInv, [Next]_vars
  PROVE  TypeInv' /\ BranchInv' /\ UNCHANGED <<args, real, flavour>>
<1>1. ASSUME NEW k \in Kexts, processKext(k)
      PROVE  TypeInv' /\ BranchInv' /\ UNCHANGED <<args, real, flavour>>
  <2>1. k \in AllKexts /\ k # "none"
    BY KextAssumption DEF AllKexts
  <2>2. UNCHANGED <<args, real, flavour>>
    BY <1>1 DEF processKext, platform
  <2>3. Steps(k) \in Seq(StepsOf(k)) /\ StepsOf(k)' = StepsOf(k)
    BY <2>1, <2>2, StepsTyped, SameSteps DEF TypeInv
  <2>4. BranchInv'
    BY <1>1, <2>1, <2>3 DEF BranchInv, processKext
  <2> QED
    BY <1>1, <2>1, <2>2, <2>4 DEF TypeInv, processKext
<1>2. CASE Works
  <2>1. UNCHANGED <<args, real, flavour, kext, done>> /\ todo # << >> /\ kext # "none"
    BY <1>2, WorksCases
  <2>2. StepsOf(kext)' = StepsOf(kext)
    BY <2>1, SameSteps DEF StepsOf
  <2>3. Tail(todo) \in Seq(StepsOf(kext)) /\ << >> \in Seq(StepsOf(kext))
    BY <2>1, HeadTail DEF BranchInv
  <2>4. todo' \in Seq(StepsOf(kext))
    BY <1>2, <2>3, WorksCases, Zenon DEF InEffect, Fails, Skips
  <2> QED
    BY <2>1, <2>2, <2>4 DEF TypeInv, BranchInv
<1>3. CASE Returns
  <2>1. UNCHANGED <<args, real, flavour>> /\ todo' = << >> /\ kext' = "none"
    BY <1>3 DEF Returns, platform
  <2>2. BranchInv'
    BY <1>3, <2>1 DEF BranchInv, Returns, TypeInv, AllKexts
  <2> QED
    BY <1>3, <2>1, <2>2 DEF TypeInv, Returns
<1>4. CASE UNCHANGED vars
  <2>1. UNCHANGED <<args, real, flavour, kext, todo, done>>
    BY <1>4 DEF vars, platform
  <2>2. StepsOf(kext)' = StepsOf(kext)
    BY <2>1, SameSteps DEF StepsOf
  <2> QED
    BY <2>1, <2>2 DEF TypeInv, BranchInv
<1> QED
  BY <1>1, <1>2, <1>3, <1>4 DEF Next, Works

\* A mandatory group of the kext in hand that is not in effect is still to come.
LEMMA ProgressNext ==
  ASSUME TypeInv, BranchInv, ProgressInv, [Next]_vars
  PROVE  ProgressInv'
<1>1. UNCHANGED <<args, real, flavour>> /\ flavour \in {"prod", "debug"}
  BY BranchNext DEF TypeInv
<1>2. \A k : Steps(k)' = Steps(k) /\ Mandatory(k)' = Mandatory(k)
  BY <1>1, SameSteps
<1>3. ASSUME NEW k \in Kexts, processKext(k)
      PROVE  ProgressInv'
  <2>1. k \in AllKexts /\ kext' = k /\ todo' = Steps(k)
    BY <1>3, KextAssumption DEF processKext
  <2>2. Left' = Range(Steps(k))
    BY <2>1 DEF Left, Range
  <2>3. \A g \in Mandatory(k) : \E s \in Left' : s.must /\ s.group = g
    BY <1>1, <2>1, <2>2, MandatoryOwned
  <2> QED
    BY <1>1, <1>2, <1>3, <2>1, <2>3 DEF ProgressInv, processKext
<1>4. CASE Works
  <2>1. ~panic /\ todo # << >> /\ kext # "none" /\ UNCHANGED <<kext, done>>
    BY <1>4, WorksCases
  <2>2. Step \in StepsOf(kext) /\ Left = {Step} \cup Range(Tail(todo))
    BY <2>1, HeadTail DEF BranchInv, Step, Left
  <2>3. Step.must <=> Step.group \in Essential
    BY <2>2 DEF StepsOf
  <2>4. CASE InEffect
    <3>1. Left' = Range(Tail(todo)) /\ applied' = applied \cup {Step.group}
          /\ partial' = partial /\ panic' = panic
      BY <2>4 DEF InEffect, Left, Range
    <3>2. Step.group \in {"prod", "debug"} => Step.group = flavour
      BY <2>2 DEF StepsOf
    <3>3. \A g \in Mandatory(kext)' : g \in applied' \/ \E s \in Left' : s.must /\ s.group = g
      BY <1>2, <2>1, <2>2, <3>1 DEF ProgressInv
    <3> QED
      BY <1>1, <2>1, <3>1, <3>2, <3>3 DEF ProgressInv
  <2>5. CASE Fails
    <3>1. panic' = Step.must /\ partial' = partial \cup {Step.group} /\ applied' = applied
      BY <2>5 DEF Fails
    <3>2. CASE Step.must
      BY <1>1, <3>1, <3>2 DEF ProgressInv
    <3>3. CASE ~Step.must
      <4>1. partial' \cap Essential = {}
        BY <2>1, <2>3, <3>1, <3>3 DEF ProgressInv
      <4>2. ASSUME NEW g \in Mandatory(kext)
            PROVE  g \in applied' \/ \E s \in Left' : s.must /\ s.group = g
        <5>1. CASE kext = "Backlight"
          <6>1. Owner(g) = "Backlight" /\ g \in Essential
            BY <1>1, <5>1, MandatoryOwned DEF AllKexts
          <6> QED
            BY <6>1 DEF Owner, Essential
        <5>2. CASE kext # "Backlight"
          <6>1. Left' = Range(Tail(todo))
            BY <2>5, <5>2 DEF Fails, Left, Range
          <6> QED
            BY <2>1, <2>2, <3>1, <3>3, <4>2, <6>1 DEF ProgressInv
        <5> QED
          BY <5>1, <5>2
      <4> QED
        BY <1>1, <1>2, <2>1, <3>1, <4>1, <4>2 DEF ProgressInv
    <3> QED
      BY <3>2, <3>3
  <2>6. CASE Skips
    <3>1. Left' = Range(Tail(todo)) /\ UNCHANGED <<applied, partial, panic>> /\ ~Step.must
      BY <2>2, <2>6 DEF Skips, Left, Range, StepsOf
    <3>2. \A g \in Mandatory(kext)' : g \in applied' \/ \E s \in Left' : s.must /\ s.group = g
      BY <1>2, <2>1, <2>2, <3>1 DEF ProgressInv
    <3> QED
      BY <1>1, <2>1, <3>1, <3>2 DEF ProgressInv
  <2> QED
    BY <1>4, <2>4, <2>5, <2>6, WorksCases
<1>5. CASE Returns
  BY <1>1, <1>5 DEF Returns, ProgressInv
<1>6. CASE UNCHANGED vars
  <2>1. UNCHANGED <<kext, todo, applied, partial, panic>>
    BY <1>6 DEF vars
  <2>2. Left' = Left
    BY <2>1 DEF Left, Range
  <2> QED
    BY <1>1, <1>2, <2>1, <2>2 DEF ProgressInv
<1> QED
  BY <1>3, <1>4, <1>5, <1>6 DEF Next, Works

\* The kexts that are done keep their groups: what fails later is of another kext.
LEMMA DoneNext ==
  ASSUME TypeInv, BranchInv, ProgressInv, AllOrPanic, [Next]_vars
  PROVE  AllOrPanic'
<1>1. UNCHANGED <<args, real, flavour>> /\ flavour \in {"prod", "debug"}
  BY BranchNext DEF TypeInv
<1>2. \A k : Mandatory(k)' = Mandatory(k)
  BY <1>1, SameSteps
<1>3. CASE Works
  <2>1. todo # << >> /\ UNCHANGED <<kext, done>>
    BY <1>3, WorksCases
  <2>2. Step \in StepsOf(kext)
    BY <2>1, HeadTail DEF BranchInv, Step
  <2>3. Owner(Step.group) = kext /\ kext \notin done
    BY <2>2 DEF StepsOf, BranchInv
  <2>4. /\ applied' = applied \/ applied' = applied \cup {Step.group}
        /\ partial' = partial \/ partial' = partial \cup {Step.group}
    BY <1>3, WorksCases DEF InEffect, Fails, Skips
  <2>5. ASSUME NEW k \in done
        PROVE  /\ Mandatory(k) \subseteq applied' /\ Mandatory(k) \cap partial' = {}
               /\ k = "FB" => {"prod", "debug"} \cap applied' = {flavour}
    <3>1. Step.group \notin Mandatory(k)
      BY <1>1, <2>3, MandatoryOwned DEF TypeInv
    <3>2. k = "FB" => Step.group \notin {"prod", "debug"}
      BY <2>3 DEF Owner
    <3> QED
      BY <2>4, <3>1, <3>2 DEF AllOrPanic
  <2> QED
    BY <1>1, <1>2, <2>1, <2>5 DEF AllOrPanic
<1>4. CASE Returns
  <2>1. ~panic /\ kext # "none" /\ todo = << >> /\ UNCHANGED <<applied, partial>>
        /\ done' = done \cup {kext}
    BY <1>4 DEF Returns
  <2>2. kext \in AllKexts
    BY <2>1 DEF TypeInv
  <2>3. Left = {}
    BY <2>1 DEF Left, Range
  <2>4. Mandatory(kext) \subseteq applied
    BY <2>1, <2>3 DEF ProgressInv
  <2>5. Mandatory(kext) \cap partial = {}
    BY <1>1, <2>1, <2>2, MandatoryOwned DEF ProgressInv
  <2>6. kext = "FB" => {"prod", "debug"} \cap applied = {flavour}
    <3>1. kext = "FB" => flavour \in Mandatory("FB")
      BY <1>1, FlavourMandatory
    <3> QED
      BY <1>1, <2>4, <3>1 DEF ProgressInv
  <2> QED
    BY <1>1, <1>2, <2>1, <2>4, <2>5, <2>6 DEF AllOrPanic
<1>5. CASE (\E k \in Kexts : processKext(k)) \/ UNCHANGED vars
  <2>1. UNCHANGED <<done, applied, partial>>
    BY <1>5 DEF processKext, vars
  <2> QED
    BY <1>1, <1>2, <2>1 DEF AllOrPanic
<1> QED
  BY <1>3, <1>4, <1>5 DEF Next, Works

\* An operation of the MCCS branch leaves the clearError or nothing to do.
LEMMA MCCSStep ==
  ASSUME MCCSInv, kext = "MCCS", todo # << >>
  PROVE  \/ /\ Step.op = "rawRoute" /\ Tail(todo) = << May("clear", "probes") >>
         \/ /\ Step.op = "clear" /\ Tail(todo) = << >>
<1>1. todo \in {MCCSSteps, << May("clear", "probes") >>}
  BY DEF MCCSInv
<1>2. CASE todo = MCCSSteps
  <2>1. Head(todo) = May("rawRoute", "probes") /\ Tail(todo) = << May("clear", "probes") >>
    BY <1>2 DEF MCCSSteps
  <2> QED
    BY <2>1 DEF Step, May
<1>3. CASE todo = << May("clear", "probes") >>
  <2>1. Head(todo) = May("clear", "probes") /\ Tail(todo) = << >>
    BY <1>3
  <2> QED
    BY <2>1 DEF Step, May
<1> QED
  BY <1>1, <1>2, <1>3

\* The MCCS branch is taken step by step.
LEMMA MCCSNext ==
  ASSUME BranchInv, MCCSInv, [Next]_vars
  PROVE  MCCSInv'
<1>1. CASE \E k \in Kexts : processKext(k)
  BY <1>1 DEF processKext, MCCSInv, Steps, MCCSSteps
<1>2. CASE Works
  <2>1. todo # << >> /\ UNCHANGED kext
    BY <1>2, WorksCases
  <2>2. todo' = Tail(todo) \/ todo' = << >>
    BY <1>2, WorksCases DEF InEffect, Fails, Skips
  <2> QED
    BY <2>1, <2>2, MCCSStep, Zenon DEF MCCSInv
<1>3. CASE Returns
  BY <1>3 DEF Returns, MCCSInv
<1>4. CASE UNCHANGED vars
  BY <1>4 DEF vars, MCCSInv, MCCSSteps
<1> QED
  BY <1>1, <1>2, <1>3, <1>4 DEF Next, Works

\* Which error is pending, and what a panic is about.
LEMMA ErrorNext ==
  ASSUME TypeInv, BranchInv, MCCSInv, ErrorInv, PanicExplained, [Next]_vars
  PROVE  ErrorInv' /\ PanicExplained'
<1>1. UNCHANGED flavour /\ Uncleared' = Uncleared
  BY BranchNext DEF Uncleared
<1>2. CASE \E k \in Kexts : processKext(k)
  <2>1. ~panic /\ kext = "none" /\ UNCHANGED <<err, panic, lacking>>
    BY <1>2 DEF processKext
  <2>2. err \in Uncleared \cup {"none"}
    BY <2>1 DEF ErrorInv
  <2> QED
    BY <1>1, <2>1, <2>2 DEF ErrorInv, PanicExplained
<1>3. CASE Works
  <2>1. ~panic /\ todo # << >> /\ kext # "none" /\ UNCHANGED kext
    BY <1>3, WorksCases
  <2>2. Step \in StepsOf(kext)
    BY <2>1, HeadTail DEF BranchInv, Step
  <2>3. Step.must => kext \in {"FB", "HW"}
    BY <2>2 DEF StepsOf, Essential, Owner
  <2>4. Step.op # "clear" => err \in Uncleared \cup {"none"}
    <3>1. todo = << May("clear", "probes") >> => Step.op = "clear"
      BY DEF Step, May
    <3> QED
      BY <2>1, <3>1 DEF ErrorInv
  <2>5. ASSUME err' \in Uncleared \cup {"none"}, panic' => lacking' \/ err' \in Uncleared
        PROVE  ErrorInv' /\ PanicExplained'
    BY <1>1, <2>5, Zenon DEF ErrorInv, PanicExplained
  <2>6. ASSUME InEffect, Step.op # "clear", UNCHANGED err \/ err' = "none"
        PROVE  ErrorInv' /\ PanicExplained'
    <3>1. err' \in Uncleared \cup {"none"}
      BY <2>4, <2>6
    <3>2. ~panic'
      BY <2>1, <2>6 DEF InEffect
    <3> QED
      BY <2>5, <3>1, <3>2
  <2>7. ASSUME Fails, lacking' = (lacking \/ Step.must), Step.op # "clear",
               UNCHANGED err \/ err' = "none"
        PROVE  ErrorInv' /\ PanicExplained'
    <3>1. err' \in Uncleared \cup {"none"}
      BY <2>4, <2>7
    <3>2. panic' => lacking'
      BY <2>7, Zenon DEF Fails
    <3> QED
      BY <2>5, <3>1, <3>2
  <2>8. CASE solveAll
    <3>1. Step.op # "clear"
      BY <2>8 DEF solveAll, Doing
    <3> QED
      BY <2>8, <3>1, <2>6, <2>7, Zenon DEF solveAll
  <2>9. CASE routeAll
    <3>1. Step.op # "clear"
      BY <2>9 DEF routeAll, Doing
    <3>2. err' \in {err, "none"} => UNCHANGED err \/ err' = "none"
      OBVIOUS
    <3> QED
      BY <2>9, <3>1, <3>2, <2>6, <2>7, Zenon DEF routeAll
  <2>10. CASE RawRoute
    <3>1. Step.op = "rawRoute"
      BY <2>10 DEF RawRoute, Doing
    <3>2. CASE InEffect /\ UNCHANGED err
      BY <3>1, <3>2, <2>6
    <3>3. CASE Fails /\ err' = Step.group
      <4>1. ~Step.must /\ kext \notin {"FB", "HW", "IOAccelF2"}
        BY <2>2, <3>1 DEF StepsOf
      <4>2. ~panic'
        BY <3>3, <4>1 DEF Fails
      <4>3. CASE kext = "MCCS"
        <5>1. Step.group = "probes"
          BY <2>2, <4>1, <4>3 DEF StepsOf, StepRec, Owner, Essential, Optional
        <5>2. todo' = << May("clear", "probes") >>
          BY <2>1, <3>1, <3>3, <4>3, MCCSStep DEF Fails
        <5> QED
          BY <2>1, <3>3, <4>2, <4>3, <5>1, <5>2 DEF ErrorInv, PanicExplained
      <4>4. CASE kext # "MCCS"
        <5>1. kext \in {"AGDP", "Backlight"}
          BY <2>1, <4>1, <4>4 DEF TypeInv, AllKexts
        <5>2. Step.group \in {"boardId", "setDisplay", "panelName"}
          BY <2>2, <4>1, <5>1 DEF StepsOf, StepRec, Owner, Essential, Optional
        <5>3. err' \in Uncleared
          BY <3>3, <5>2 DEF Uncleared
        <5> QED
          BY <2>5, <4>2, <5>3
      <4> QED
        BY <4>3, <4>4
    <3> QED
      BY <2>10, <3>2, <3>3 DEF RawRoute
  <2>11. CASE applyAll
    <3>1. Step.op = "apply"
      BY <2>11 DEF applyAll, Doing
    <3>2. err \in Uncleared \cup {"none"}
      BY <2>4, <3>1
    <3>3. CASE InEffect /\ UNCHANGED err
      BY <3>1, <3>3, <2>6
    <3>4. CASE Fails /\ err' = Step.group /\ lacking' = (lacking \/ Step.must)
      <4>1. CASE Step.must
        <5>1. panic' /\ lacking'
          BY <3>4, <4>1, Zenon DEF Fails
        <5> QED
          BY <5>1 DEF ErrorInv, PanicExplained
      <4>2. CASE ~Step.must
        <5>1. kext \notin {"FB", "HW", "IOAccelF2"} /\ kext # "MCCS"
          BY <2>1, <2>2, <3>1, <4>2, MCCSStep DEF StepsOf
        <5>2. kext \in {"AGDP", "Backlight"}
          BY <2>1, <5>1 DEF TypeInv, AllKexts
        <5>3. Step.group \in {"boardId", "setDisplay", "panelName"}
          BY <2>2, <4>2, <5>2 DEF StepsOf, StepRec, Owner, Essential, Optional
        <5>4. err' \in Uncleared
          BY <3>4, <5>3 DEF Uncleared
        <5> QED
          BY <2>5, <5>4
      <4> QED
        BY <4>1, <4>2
    <3>5. CASE err # "none" /\ UNCHANGED err
      BY <2>5, <3>2, <3>5
    <3> QED
      BY <2>11, <3>3, <3>4, <3>5, Zenon DEF applyAll
  <2>12. CASE ApplyMasked
    <3>1. Step.op # "clear"
      BY <2>12 DEF ApplyMasked, Doing
    <3> QED
      BY <2>12, <3>1, <2>6, <2>7 DEF ApplyMasked
  <2>13. CASE ClearOrProbe
    <3>1. ~panic' /\ Step.op \in {"clear", "probe"}
      BY <2>1, <2>13 DEF ClearOrProbe, Doing
    <3>2. CASE Step.op = "clear"
      <4>1. err' = "none"
        BY <2>13, <3>2 DEF ClearOrProbe
      <4> QED
        BY <2>5, <3>1, <4>1
    <3>3. CASE Step.op = "probe"
      <4>1. Step.op # "clear" /\ Step.group = "isprod"
        BY <2>2, <3>3 DEF StepsOf
      <4>2. err' = IF flavour = "prod" THEN "isprod" ELSE err
        BY <2>13, <4>1 DEF ClearOrProbe
      <4>3. err' \in Uncleared \cup {"none"}
        BY <2>4, <4>1, <4>2 DEF Uncleared
      <4> QED
        BY <2>5, <3>1, <4>3
    <3> QED
      BY <3>1, <3>2, <3>3
  <2> QED
    BY <1>3, <2>8, <2>9, <2>10, <2>11, <2>12, <2>13 DEF Works
<1>4. CASE Returns
  <2>1. todo = << >> /\ UNCHANGED <<err, panic, lacking>>
    BY <1>4 DEF Returns
  <2>2. todo # << May("clear", "probes") >>
    BY <2>1
  <2> QED
    BY <1>1, <2>1, <2>2 DEF ErrorInv, PanicExplained
<1>5. CASE UNCHANGED vars
  <2>1. UNCHANGED <<kext, todo, err, panic, lacking>>
    BY <1>5 DEF vars
  <2> QED
    BY <1>1, <2>1 DEF ErrorInv, PanicExplained, May
<1> QED
  BY <1>2, <1>3, <1>4, <1>5 DEF Next, Works

\* The state in which Lilu calls the plugin first.
LEMMA InitIInv == Init => IInv
<1> SUFFICES ASSUME Init PROVE IInv
  OBVIOUS
<1>1. /\ kext = "none" /\ todo = << >> /\ done = {} /\ err = "none" /\ applied = {} /\ partial = {}
      /\ panic = FALSE
      /\ flavour \in {"prod", "debug"}
  BY KextAssumption DEF Init
<1>2. TypeInv /\ BranchInv /\ MCCSInv
  BY <1>1 DEF TypeInv, BranchInv, MCCSInv
<1>3. ProgressInv /\ AllOrPanic
  BY <1>1 DEF ProgressInv, AllOrPanic
<1> QED
  BY <1>1, <1>2, <1>3 DEF IInv, ErrorInv, PanicExplained

-----------------------------------------------------------------------------
(* The theorems.                                                           *)

\* The inductive invariant holds in every boot.
THEOREM Inductive == Spec => []IInv
<1>1. Init => IInv
  BY InitIInv
<1>2. IInv /\ [Next]_vars => IInv'
  BY BranchNext, ProgressNext, DoneNext, MCCSNext, ErrorNext DEF IInv
<1> QED
  BY <1>1, <1>2, PTL DEF Spec

\* A kext whose processKext returned has every mandatory group in effect and
\* whole, whatever failed before, in between or in a later kext.
THEOREM AllOrPanicHolds == Spec => []AllOrPanic
<1>1. IInv => AllOrPanic
  BY DEF IInv
<1> QED
  BY <1>1, Inductive, PTL

\* A boot panics (PANIC_COND) over something that is missing, or over the error
\* that the board-id patch, the backlight or the production probe left behind:
\* in any order of kexts no other optional request can make a boot panic.
THEOREM PanicExplainedHolds == Spec => []PanicExplained
<1>1. IInv => PanicExplained
  BY DEF IInv
<1> QED
  BY <1>1, Inductive, PTL
=============================================================================
