------------------------- MODULE EngineTrackerProofs -------------------------
(***************************************************************************)
(* Proofs about EngineTracker for any number of concurrent calls, any      *)
(* platform flags and any engines, and about the well-behaved driver of    *)
(* EngineBringup for any number of threads and any scripts that keep its   *)
(* order.                                                                  *)
(***************************************************************************)
EXTENDS EngineBringup, TLAPS

CallsTyped ==
  pc \in [Calls -> PC] /\ op \in [Calls -> Op] /\ eng \in [Calls -> Engine]

\* Moving a call to another stage keeps the calls well formed.
LEMMA GotoTyped ==
  ASSUME CallsTyped, NEW c \in Calls, NEW l \in PC, Goto(c, l)
  PROVE  CallsTyped'
  BY DEF CallsTyped, Goto

\* Ending a call keeps the calls well formed.
LEMMA ReturnTyped ==
  ASSUME CallsTyped, NEW c \in Calls, Return(c)
  PROVE  CallsTyped'
  BY DEF CallsTyped, Return, PC, Op, Engine

\* Marking never adds anything but a tracked engine, and removes nothing.
LEMMA MarkTyped ==
  ASSUME NEW S, S \subseteq Tracked, NEW e
  PROVE  Mark(S, e) \subseteq Tracked /\ S \subseteq Mark(S, e)
  BY DEF Mark

\* The steps of a call, one disjunct per handler stage.
CallStep(c) ==
  \/ \E o \in Op, e \in Engine : Enter(c, o, e)
  \/ InitRingControlPre(c)
  \/ UpdateRingTailPre(c)
  \/ SubmitToRingPre(c)
  \/ Original(c)
  \/ ContextInitPost(c)
  \/ InitRingGPUVirtualAddressPost(c)
  \/ InitRingRegistersPost(c)
  \/ InitRingControlPost(c)
  \/ ResetRingHeadPost(c)
  \/ UpdateRingTailPost(c)
  \/ RingBufferInitPost(c)
  \/ SubmitToRingPost(c)
  \/ ResumeSchedulingPost(c)
  \/ SubmitExecListPost(c)
  \/ PrepareExecListAndSubmitPost(c)
  \/ \E saw \in BOOLEAN : SampleRegisters(c, saw)
  \/ Decide(c)
  \/ ApplyVerdict(c)

\* Every step of the specification is a step of one call.
LEMMA NextIsCallStep == Next => \E c \in Calls : CallStep(c)
  BY DEF Next, Pre, Post, CallStep

-----------------------------------------------------------------------------
\* What a call in flight has earned: past its own check, a hook that needs a
\* ready ring has one, and a passing verdict not yet written was justified.
CallInv ==
  \A c \in Calls :
    /\ (op[c] \in HasPre /\ pc[c] \in {"original", "post"} /\ eng[c] \in Tracked)
         => eng[c] \in ringReady
    /\ pc[c] = "pass" => eng[c] \in contextSeen \cap ringReady

\* A failing verdict not yet written is not RCS's on a real Tiger Lake.
FailInv ==
  \A c \in Calls : pc[c] = "fail" /\ platform.realTGL => eng[c] # "RCS"

IInv ==
  TypeOK /\ ReadinessOrder /\ CallInv /\ AtMostOneLateOriginal /\ FailInv

\* The initial state satisfies the inductive invariant.
LEMMA InitIInv == Init => IInv
  BY PlatformsAssumption
  DEF Init, NGTglEngineState, IInv, TypeOK, ReadinessOrder, CallInv,
      AtMostOneLateOriginal, FailInv, PC, Op, GuardedOps, StreamerOps, Engine,
      Tracked

\* Every step preserves the types.
LEMMA StepTypeOK == TypeOK /\ [Next]_vars => TypeOK'
  <1> SUFFICES ASSUME TypeOK, [Next]_vars PROVE TypeOK'
    OBVIOUS
  <1> CallsTyped
    BY DEF TypeOK, CallsTyped
  <1> USE MarkTyped, GotoTyped, ReturnTyped DEF TypeOK, CallsTyped, PC, flags, calls
  <1>1. CASE UNCHANGED vars
    BY <1>1, Zenon DEF vars
  <1>2. CASE Next
    <2> PICK c \in Calls : CallStep(c)
      BY <1>2, NextIsCallStep
    <2>1. ASSUME NEW o \in Op, NEW e \in Engine, Enter(c, o, e) PROVE TypeOK'
      BY <2>1 DEF Enter
    <2>2. CASE InitRingControlPre(c)
      BY <2>2 DEF InitRingControlPre
    <2>3. CASE UpdateRingTailPre(c)
      BY <2>3 DEF UpdateRingTailPre, RequireOrQuarantine
    <2>4. CASE SubmitToRingPre(c)
      BY <2>4 DEF SubmitToRingPre, RequireOrQuarantine
    <2>5. CASE Original(c)
      BY <2>5 DEF Original
    <2>6. CASE ContextInitPost(c) \/ InitRingGPUVirtualAddressPost(c)
      BY <2>6 DEF ContextInitPost, InitRingGPUVirtualAddressPost
    <2>7. CASE InitRingRegistersPost(c)
      BY <2>7 DEF InitRingRegistersPost
    <2>8. CASE InitRingControlPost(c)
      BY <2>8 DEF InitRingControlPost
    <2>9. CASE ResetRingHeadPost(c) \/ UpdateRingTailPost(c)
      BY <2>9 DEF ResetRingHeadPost, UpdateRingTailPost
    <2>10. CASE RingBufferInitPost(c) \/ ResumeSchedulingPost(c)
      BY <2>10 DEF RingBufferInitPost, ResumeSchedulingPost
    <2>11. CASE SubmitToRingPost(c)
      BY <2>11 DEF SubmitToRingPost
    <2>12. CASE SubmitExecListPost(c) \/ PrepareExecListAndSubmitPost(c)
      BY <2>12 DEF SubmitExecListPost, PrepareExecListAndSubmitPost,
                   EvaluateUnlessPassed
    <2>13. ASSUME NEW saw \in BOOLEAN, SampleRegisters(c, saw) PROVE TypeOK'
      BY <2>13 DEF SampleRegisters
    <2>14. CASE Decide(c)
      BY <2>14 DEF Decide
    <2>15. CASE ApplyVerdict(c)
      BY <2>15 DEF ApplyVerdict
    <2> QED
      BY <2>1, <2>2, <2>3, <2>4, <2>5, <2>6, <2>7, <2>8, <2>9, <2>10, <2>11,
         <2>12, <2>13, <2>14, <2>15, Zenon DEF CallStep
  <1> QED
    BY <1>1, <1>2

\* Every step preserves the order in which the flags are earned.  A hook's
\* bookkeeping relies on the check it made before the original, hence CallInv.
LEMMA StepOrder ==
  TypeOK /\ ReadinessOrder /\ CallInv /\ [Next]_vars
    => ReadinessOrder' /\ CallInv'
  <1> SUFFICES ASSUME TypeOK, ReadinessOrder, CallInv, [Next]_vars
               PROVE  ReadinessOrder' /\ CallInv'
    OBVIOUS
  <1>1. CASE UNCHANGED vars
    BY <1>1, Zenon DEF vars, flags, calls, ReadinessOrder, CallInv
  <1>2. CASE Next
    <2> PICK c \in Calls : CallStep(c)
      BY <1>2, NextIsCallStep
    <2> USE DEF TypeOK, ReadinessOrder, CallInv, HasPre, At, Mark, Goto, Return,
                flags, Tracked
    <2>1. ASSUME NEW o \in Op, NEW e \in Engine, Enter(c, o, e) PROVE ReadinessOrder' /\ CallInv'
      BY <2>1 DEF Enter
    <2>2. CASE InitRingControlPre(c)
      BY <2>2, Zenon DEF InitRingControlPre
    <2>3. CASE UpdateRingTailPre(c)
      BY <2>3 DEF UpdateRingTailPre, RequireOrQuarantine
    <2>4. CASE SubmitToRingPre(c)
      BY <2>4 DEF SubmitToRingPre, RequireOrQuarantine
    <2>5. CASE Original(c)
      BY <2>5 DEF Original
    <2>6. CASE ContextInitPost(c)
      BY <2>6 DEF ContextInitPost
    <2>7. CASE InitRingGPUVirtualAddressPost(c)
      BY <2>7 DEF InitRingGPUVirtualAddressPost
    <2>8. CASE InitRingRegistersPost(c)
      BY <2>8 DEF InitRingRegistersPost
    <2>9. CASE InitRingControlPost(c)
      <3>1. CASE At(c, "initRingControlOn", "post")
        BY <2>9, <3>1, Zenon DEF InitRingControlPost
      <3>2. CASE At(c, "initRingControlOff", "post")
        BY <2>9, <3>2, ZenonT(30) DEF InitRingControlPost
      <3> QED
        BY <2>9, <3>1, <3>2 DEF InitRingControlPost
    <2>10. CASE ResetRingHeadPost(c)
      BY <2>10, Zenon DEF ResetRingHeadPost
    <2>11. CASE UpdateRingTailPost(c)
      BY <2>11 DEF UpdateRingTailPost
    <2>12. CASE RingBufferInitPost(c) \/ ResumeSchedulingPost(c)
      BY <2>12, ZenonT(30) DEF RingBufferInitPost, ResumeSchedulingPost
    <2>13. CASE SubmitToRingPost(c)
      BY <2>13 DEF SubmitToRingPost
    <2>14. CASE SubmitExecListPost(c) \/ PrepareExecListAndSubmitPost(c)
      BY <2>14, ZenonT(30) DEF SubmitExecListPost, PrepareExecListAndSubmitPost,
                   EvaluateUnlessPassed
    <2>15. ASSUME NEW saw \in BOOLEAN, SampleRegisters(c, saw) PROVE ReadinessOrder' /\ CallInv'
      BY <2>15 DEF SampleRegisters
    <2>16. CASE Decide(c)
      BY <2>16 DEF Decide, BootstrapPasses
    <2>17. CASE ApplyVerdict(c)
      BY <2>17, Zenon DEF ApplyVerdict
    <2> QED
      BY <2>1, <2>2, <2>3, <2>4, <2>5, <2>6, <2>7, <2>8, <2>9, <2>10, <2>11,
         <2>12, <2>13, <2>14, <2>15, <2>16, <2>17, Zenon DEF CallStep
  <1> QED
    BY <1>1, <1>2

\* Outside entry and the original, a step neither runs an original nor brings
\* a call in front of one, and lifts no quarantine.
LEMMA LateFrame ==
  ASSUME AtMostOneLateOriginal, NEW c \in Calls, CallsTyped,
         lateRan \in [Tracked -> SUBSET Calls],
         UNCHANGED <<platform, lateRan>>, quarantined \subseteq quarantined',
         \/ Return(c)
         \/ \E l \in PC : /\ Goto(c, l)
                          /\ l \in {"pre", "original"} =>
                               pc[c] \in {"pre", "original"}
  PROVE  AtMostOneLateOriginal'
  <1> SUFFICES ASSUME NEW e \in Tracked, NEW d \in lateRan[e],
                      pc'[d] \in {"pre", "original"},
                      e \in StoppedBy(op[d], eng[d])'
               PROVE  FALSE
    BY DEF AtMostOneLateOriginal
  <1>1. e \in StoppedBy(op'[d], eng'[d])
    BY DEF StoppedBy, UseSpoofedSafeSchedulerPolicy
  <1>2. CASE Return(c)
    BY <1>1, <1>2 DEF Return, AtMostOneLateOriginal, CallsTyped
  <1>3. CASE \E l \in PC : /\ Goto(c, l)
                           /\ l \in {"pre", "original"} =>
                                pc[c] \in {"pre", "original"}
    <2> PICK l \in PC : /\ Goto(c, l)
                        /\ l \in {"pre", "original"} =>
                             pc[c] \in {"pre", "original"}
      BY <1>3
    <2>1. d \in Calls /\ pc[d] \in {"pre", "original"}
      BY DEF Goto, CallsTyped
    <2> QED
      BY <1>1, <2>1 DEF Goto, AtMostOneLateOriginal, StoppedBy
  <1> QED
    BY <1>2, <1>3

\* Every step preserves the bound on late originals: a slot that has run one
\* finds its engine quarantined and is turned away on entry.
LEMMA StepLate ==
  TypeOK /\ AtMostOneLateOriginal /\ [Next]_vars => AtMostOneLateOriginal'
  <1> SUFFICES ASSUME TypeOK, AtMostOneLateOriginal, [Next]_vars
               PROVE  AtMostOneLateOriginal'
    OBVIOUS
  <1>1. CASE UNCHANGED vars
    BY <1>1 DEF vars, flags, calls, AtMostOneLateOriginal, StoppedBy,
                UseSpoofedSafeSchedulerPolicy
  <1>2. CASE Next
    <2> PICK c \in Calls : CallStep(c)
      BY <1>2, NextIsCallStep
    <2> CallsTyped
      BY DEF TypeOK, CallsTyped
    <2> USE LateFrame, MarkTyped DEF TypeOK, PC, flags, At
    <2>1. ASSUME NEW o \in Op, NEW e \in Engine, Enter(c, o, e) PROVE AtMostOneLateOriginal'
      BY <2>1 DEF Enter, Blocked, ShouldBlockTrackedEngine, StreamerBlocked,
                  AtMostOneLateOriginal, StoppedBy, UseSpoofedSafeSchedulerPolicy
    <2>2. CASE InitRingControlPre(c)
      BY <2>2 DEF InitRingControlPre
    <2>3. CASE UpdateRingTailPre(c)
      BY <2>3 DEF UpdateRingTailPre, RequireOrQuarantine
    <2>4. CASE SubmitToRingPre(c)
      BY <2>4 DEF SubmitToRingPre, RequireOrQuarantine
    <2>5. CASE Original(c)
      <3> SUFFICES ASSUME NEW e \in Tracked, NEW d \in lateRan'[e]
                   PROVE  /\ e \in quarantined
                          /\ pc'[d] \in {"pre", "original"} =>
                               e \notin StoppedBy(op[d], eng[d])
        BY <2>5, ZenonT(30) DEF AtMostOneLateOriginal, Original, Goto, StoppedBy,
                    UseSpoofedSafeSchedulerPolicy
      <3>1. CASE d = c
        BY <2>5, <3>1 DEF Original, Goto, AtMostOneLateOriginal
      <3>2. CASE d # c
        BY <2>5, <3>2, Zenon DEF Original, Goto, AtMostOneLateOriginal
      <3> QED
        BY <3>1, <3>2, Zenon
    <2>6. CASE ContextInitPost(c)
      BY <2>6 DEF ContextInitPost
    <2>7. CASE InitRingGPUVirtualAddressPost(c)
      BY <2>7 DEF InitRingGPUVirtualAddressPost
    <2>8. CASE InitRingRegistersPost(c)
      BY <2>8 DEF InitRingRegistersPost
    <2>9. CASE InitRingControlPost(c)
      BY <2>9 DEF InitRingControlPost
    <2>10. CASE ResetRingHeadPost(c)
      BY <2>10 DEF ResetRingHeadPost
    <2>11. CASE UpdateRingTailPost(c)
      BY <2>11 DEF UpdateRingTailPost
    <2>12. CASE RingBufferInitPost(c) \/ ResumeSchedulingPost(c)
      BY <2>12 DEF RingBufferInitPost, ResumeSchedulingPost
    <2>13. CASE SubmitToRingPost(c)
      BY <2>13 DEF SubmitToRingPost
    <2>14. CASE SubmitExecListPost(c) \/ PrepareExecListAndSubmitPost(c)
      BY <2>14 DEF SubmitExecListPost, PrepareExecListAndSubmitPost,
                   EvaluateUnlessPassed
    <2>15. ASSUME NEW saw \in BOOLEAN, SampleRegisters(c, saw) PROVE AtMostOneLateOriginal'
      BY <2>15 DEF SampleRegisters
    <2>16. CASE Decide(c)
      BY <2>16 DEF Decide
    <2>17. CASE ApplyVerdict(c)
      BY <2>17 DEF ApplyVerdict
    <2> QED
      BY <2>1, <2>2, <2>3, <2>4, <2>5, <2>6, <2>7, <2>8, <2>9, <2>10, <2>11,
         <2>12, <2>13, <2>14, <2>15, <2>16, <2>17 DEF CallStep
  <1> QED
    BY <1>1, <1>2

\* Every step preserves FailInv: only Decide reaches a failing verdict.
LEMMA StepFail == TypeOK /\ FailInv /\ [Next]_vars => FailInv'
  <1> SUFFICES ASSUME TypeOK, FailInv, [Next]_vars PROVE FailInv'
    OBVIOUS
  <1> USE DEF TypeOK, FailInv
  <1>1. CASE UNCHANGED vars
    BY <1>1, ZenonT(30) DEF vars, calls
  <1>2. CASE Next
    <2> PICK c \in Calls : CallStep(c)
      BY <1>2, NextIsCallStep
    <2>1. ASSUME NEW l \in PC \ {"fail"}, Goto(c, l), UNCHANGED platform
          PROVE  FailInv'
      BY <2>1 DEF Goto
    <2>2. ASSUME Return(c), UNCHANGED platform PROVE FailInv'
      BY <2>2 DEF Return
    <2>3. CASE Decide(c)
      BY <2>3 DEF Decide, Goto, Return
    <2>4. ASSUME NEW o \in Op, NEW e \in Engine, Enter(c, o, e) PROVE FailInv'
      BY <2>4, Zenon DEF Enter
    <2>5. CASE \/ InitRingControlPre(c) \/ UpdateRingTailPre(c)
               \/ SubmitToRingPre(c) \/ Original(c)
      BY <2>1, <2>2, <2>5, ZenonT(30) DEF InitRingControlPre, UpdateRingTailPre,
           SubmitToRingPre, RequireOrQuarantine, Original, PC
    <2>6. CASE \/ ContextInitPost(c) \/ InitRingGPUVirtualAddressPost(c)
               \/ InitRingRegistersPost(c) \/ InitRingControlPost(c)
               \/ ResetRingHeadPost(c) \/ UpdateRingTailPost(c)
               \/ RingBufferInitPost(c) \/ SubmitToRingPost(c)
               \/ ResumeSchedulingPost(c) \/ SubmitExecListPost(c)
               \/ PrepareExecListAndSubmitPost(c)
      BY <2>1, <2>2, <2>6 DEF ContextInitPost, InitRingGPUVirtualAddressPost,
           InitRingRegistersPost, InitRingControlPost, ResetRingHeadPost,
           UpdateRingTailPost, RingBufferInitPost, SubmitToRingPost,
           ResumeSchedulingPost, SubmitExecListPost,
           PrepareExecListAndSubmitPost, EvaluateUnlessPassed, PC
    <2>7. CASE ApplyVerdict(c) \/ \E saw \in BOOLEAN : SampleRegisters(c, saw)
      BY <2>1, <2>2, <2>7 DEF ApplyVerdict, SampleRegisters, PC
    <2> QED
      BY <2>3, <2>4, <2>5, <2>6, <2>7 DEF CallStep
  <1> QED
    BY <1>1, <1>2

-----------------------------------------------------------------------------
\* However many hooks run at once, the flags stay within their types, are
\* earned in order, and a quarantine lets each call slot reach the driver at
\* most once more.
THEOREM TrackerInvariant == Spec => []IInv
  <1>1. IInv /\ [Next]_vars => IInv'
    BY StepTypeOK, StepOrder, StepLate, StepFail DEF IInv
  <1> QED
    BY InitIInv, <1>1, PTL DEF Spec

\* ReadinessOrder for every number of concurrent hook calls: no interleaving
\* enables a control, records a submission or passes a smoke test on an engine
\* whose ring is not ready.
THEOREM ReadinessOrderHolds == Spec => []ReadinessOrder
  BY TrackerInvariant, PTL DEF IInv

\* AtMostOneLateOriginal for every number of concurrent hook calls: what still
\* reaches the driver after a quarantine is bounded by the calls in flight.
THEOREM LateOriginalsBounded == Spec => []AtMostOneLateOriginal
  BY TrackerInvariant, PTL DEF IInv

\* The step behind VerdictsAreFinal: no hook clears a verdict or a readiness.
LEMMA StepVerdicts ==
  TypeOK /\ [Next]_vars =>
    [/\ quarantined \subseteq quarantined'
     /\ smokePassed \subseteq smokePassed'
     /\ contextSeen \subseteq contextSeen'
     /\ ringReady \subseteq ringReady']_flags
  <1> SUFFICES ASSUME TypeOK, Next
               PROVE  /\ quarantined \subseteq quarantined'
                      /\ smokePassed \subseteq smokePassed'
                      /\ contextSeen \subseteq contextSeen'
                      /\ ringReady \subseteq ringReady'
    BY DEF vars
  <1> PICK c \in Calls : CallStep(c)
    BY NextIsCallStep
  <1> USE MarkTyped DEF TypeOK, flags
  <1>1. CASE \/ UpdateRingTailPre(c) \/ SubmitToRingPre(c)
             \/ InitRingControlPre(c) \/ ApplyVerdict(c)
    BY <1>1 DEF UpdateRingTailPre, SubmitToRingPre, RequireOrQuarantine,
                InitRingControlPre, ApplyVerdict
  <1>2. CASE \/ ContextInitPost(c) \/ InitRingGPUVirtualAddressPost(c)
             \/ InitRingRegistersPost(c) \/ InitRingControlPost(c)
             \/ ResetRingHeadPost(c) \/ UpdateRingTailPost(c)
             \/ SubmitToRingPost(c)
    BY <1>2 DEF ContextInitPost, InitRingGPUVirtualAddressPost,
                InitRingRegistersPost, InitRingControlPost, ResetRingHeadPost,
                UpdateRingTailPost, SubmitToRingPost
  <1>3. CASE UNCHANGED flags
    BY <1>3, ZenonT(30)
  <1>4. CASE \/ RingBufferInitPost(c) \/ ResumeSchedulingPost(c)
             \/ SubmitExecListPost(c) \/ PrepareExecListAndSubmitPost(c)
             \/ (\E saw \in BOOLEAN : SampleRegisters(c, saw))
             \/ Decide(c) \/ Original(c)
             \/ (\E o \in Op, e \in Engine : Enter(c, o, e))
    BY <1>3, <1>4 DEF RingBufferInitPost, ResumeSchedulingPost,
         SubmitExecListPost, PrepareExecListAndSubmitPost, EvaluateUnlessPassed,
         SampleRegisters, Decide, Original, Enter
  <1> QED
    BY <1>1, <1>2, <1>4 DEF CallStep

\* No hook ever takes back a quarantine, a passed smoke test, a seen context
\* or a ready ring, in any interleaving.
THEOREM VerdictsFinal == Spec => VerdictsAreFinal
  <1>1. IInv /\ [Next]_vars =>
          [/\ quarantined \subseteq quarantined'
           /\ smokePassed \subseteq smokePassed'
           /\ contextSeen \subseteq contextSeen'
           /\ ringReady \subseteq ringReady']_flags
    BY StepVerdicts DEF IInv
  <1> QED
    BY TrackerInvariant, <1>1, PTL DEF Spec, VerdictsAreFinal

\* The step behind RcsQuarantineNeedsSequenceError.
LEMMA StepRcsQuarantine ==
  ASSUME IInv, Next, platform.realTGL, "RCS" \in quarantined' \ quarantined
  PROVE  \E c \in Calls :
           /\ eng[c] = "RCS"
           /\ \/ At(c, "updateRingTail", "pre") /\ "RCS" \notin ringReady
              \/ At(c, "submitToRing", "pre") /\ "RCS" \notin controlReady
  <1> PICK c \in Calls : CallStep(c)
    BY NextIsCallStep
  <1>1. CASE UpdateRingTailPre(c)
    BY <1>1 DEF UpdateRingTailPre, RequireOrQuarantine, Mark, At
  <1>2. CASE SubmitToRingPre(c)
    BY <1>2 DEF SubmitToRingPre, RequireOrQuarantine, Mark, At
  <1>3. CASE ApplyVerdict(c)
    BY <1>3 DEF ApplyVerdict, Mark, IInv, FailInv
  <1>4. CASE UNCHANGED quarantined
    BY <1>4
  <1>5. CASE \/ ContextInitPost(c) \/ InitRingGPUVirtualAddressPost(c)
             \/ InitRingRegistersPost(c) \/ InitRingControlPost(c)
             \/ ResetRingHeadPost(c) \/ UpdateRingTailPost(c)
             \/ SubmitToRingPost(c) \/ InitRingControlPre(c)
    BY <1>4, <1>5 DEF ContextInitPost, InitRingGPUVirtualAddressPost,
         InitRingRegistersPost, InitRingControlPost, ResetRingHeadPost,
         UpdateRingTailPost, SubmitToRingPost, InitRingControlPre
  <1>6. CASE \/ RingBufferInitPost(c) \/ ResumeSchedulingPost(c)
             \/ SubmitExecListPost(c) \/ PrepareExecListAndSubmitPost(c)
             \/ (\E saw \in BOOLEAN : SampleRegisters(c, saw))
             \/ Decide(c) \/ Original(c)
             \/ (\E o \in Op, e \in Engine : Enter(c, o, e))
    BY <1>4, <1>6 DEF RingBufferInitPost, ResumeSchedulingPost,
         SubmitExecListPost, PrepareExecListAndSubmitPost, EvaluateUnlessPassed,
         SampleRegisters, Decide, Original, Enter, flags
  <1> QED
    BY <1>1, <1>2, <1>3, <1>5, <1>6 DEF CallStep

\* On a real Tiger Lake no smoke test, however it interleaves with bring-up,
\* quarantines RCS: only a call on RCS out of sequence does.
THEOREM RcsQuarantineSequence == Spec => RcsQuarantineNeedsSequenceError
  <1>1. IInv /\ [Next]_vars =>
          [platform.realTGL /\ "RCS" \in quarantined' \ quarantined =>
             \E c \in Calls :
               /\ eng[c] = "RCS"
               /\ \/ At(c, "updateRingTail", "pre") /\ "RCS" \notin ringReady
                  \/ At(c, "submitToRing", "pre") /\ "RCS" \notin controlReady]_vars
    BY StepRcsQuarantine
  <1> QED
    BY TrackerInvariant, <1>1, PTL DEF Spec, RcsQuarantineNeedsSequenceError

-----------------------------------------------------------------------------
(* The tracker implements EngineLife.                                      *)

\* A step of a call that neither enters nor leaves the stages before the
\* driver's original lets nobody in or out.
LEMMA AdmittedKept ==
  ASSUME CallsTyped, NEW c \in Calls, UNCHANGED platform,
         \/ Return(c) /\ pc[c] \notin {"pre", "original"}
         \/ \E l \in PC : /\ Goto(c, l)
                          /\ (l \in {"pre", "original"}) = (pc[c] \in {"pre", "original"})
  PROVE  admitted' = admitted
  <1>1. \A d \in Calls, e \in Tracked :
          (pc'[d] \in {"pre", "original"} /\ e \in StoppedBy(op[d], eng[d])')
            <=> (pc[d] \in {"pre", "original"} /\ e \in StoppedBy(op[d], eng[d]))
    BY DEF CallsTyped, Return, Goto, StoppedBy, UseSpoofedSafeSchedulerPolicy
  <1> QED
    BY <1>1 DEF admitted

\* A call that runs the original or is turned away is the only one to leave.
LEMMA AdmittedLeaves ==
  ASSUME CallsTyped, NEW c \in Calls, UNCHANGED platform,
         Return(c) \/ Goto(c, "post")
  PROVE  admitted' = Life!Without(c)
  <1>1. \A d \in Calls, e \in Tracked :
          (pc'[d] \in {"pre", "original"} /\ e \in StoppedBy(op[d], eng[d])')
            <=> (/\ d # c /\ pc[d] \in {"pre", "original"}
                 /\ e \in StoppedBy(op[d], eng[d]))
    BY DEF CallsTyped, Return, Goto, StoppedBy, UseSpoofedSafeSchedulerPolicy
  <1> QED
    BY <1>1 DEF admitted, Life!Without

\* A hook past its test of the quarantine is an admission to the engines that
\* would have stopped it, none of which is quarantined.
LEMMA EnterAdmits ==
  ASSUME TypeOK, NEW c \in Calls, NEW o \in Op, NEW e \in Engine, Enter(c, o, e)
  PROVE  Life!Admit(c, StoppedBy(o, e))
  <1>1. StoppedBy(o, e) \cap quarantined = {}
    BY DEF Enter, Blocked, ShouldBlockTrackedEngine, StreamerBlocked, StoppedBy
  <1>2. \A q \in Tracked : c \notin admitted[q]
    BY DEF Enter, admitted
  <1>3. \A d \in Calls, q \in Tracked :
          (pc'[d] \in {"pre", "original"} /\ q \in StoppedBy(op[d], eng[d])')
            <=> (\/ d = c /\ q \in StoppedBy(o, e)
                 \/ d # c /\ pc[d] \in {"pre", "original"} /\ q \in StoppedBy(op[d], eng[d]))
    BY ZenonT(30) DEF TypeOK, Enter, StoppedBy, UseSpoofedSafeSchedulerPolicy
  <1>4. admitted' = [q \in Tracked |-> IF q \in StoppedBy(o, e)
                                      THEN admitted[q] \cup {c} ELSE admitted[q]]
    <2>1. \A q \in Tracked :
            {d \in Calls : pc'[d] \in {"pre", "original"}
                           /\ q \in StoppedBy(op[d], eng[d])'}
              = IF q \in StoppedBy(o, e) THEN admitted[q] \cup {c} ELSE admitted[q]
      BY <1>2, <1>3 DEF admitted
    <2> QED
      BY <2>1 DEF admitted
  <1> QED
    BY <1>1, <1>2, <1>4 DEF Life!Admit, Enter, flags

\* Every step of a hook is a step of the life cycle or leaves it alone.
LEMMA StepLife ==
  IInv /\ [Next]_vars => [Life!Next]_(Life!vars)
  <1> SUFFICES ASSUME IInv, [Next]_vars PROVE Life!Next \/ UNCHANGED Life!vars
    OBVIOUS
  <1> TypeOK /\ CallsTyped
    BY DEF IInv, TypeOK, CallsTyped
  <1>1. CASE UNCHANGED vars
    BY <1>1, Zenon DEF vars, flags, calls, Life!vars, admitted, StoppedBy,
                UseSpoofedSafeSchedulerPolicy
  <1>2. CASE Next
    <2> PICK c \in Calls : CallStep(c)
      BY <1>2, NextIsCallStep
    <2> USE DEF PC, flags, Life!Next, Life!vars
    <2>1. ASSUME NEW o \in Op, NEW e \in Engine, Enter(c, o, e) PROVE Life!Next
      <3>1. StoppedBy(o, e) \in SUBSET Tracked
        BY DEF StoppedBy
      <3> QED
        BY <2>1, <3>1, EnterAdmits
    <2>2. CASE InitRingControlPre(c)
      <3>1. admitted' = admitted
        BY <2>2, AdmittedKept DEF InitRingControlPre, At
      <3> QED
        BY <2>2, <3>1 DEF InitRingControlPre, Life!Ready, Mark
    <2>3. CASE UpdateRingTailPre(c) \/ SubmitToRingPre(c)
      <3>1. CASE Goto(c, "original") /\ UNCHANGED <<platform, flags>>
        BY <2>3, <3>1, AdmittedKept DEF UpdateRingTailPre, SubmitToRingPre, At
      <3>2. CASE /\ Return(c) /\ eng[c] \in Tracked
                 /\ quarantined' = Mark(quarantined, eng[c])
                 /\ UNCHANGED <<platform, contextSeen, ringReady, smokePassed>>
        <4>1. admitted' = Life!Without(c)
          BY <3>2, AdmittedLeaves, ZenonT(30)
        <4> QED
          BY <3>2, <4>1 DEF Life!Stop, Mark
      <3> QED
        BY <2>3, <3>1, <3>2, ZenonT(30) DEF UpdateRingTailPre, SubmitToRingPre,
                                RequireOrQuarantine
    <2>4. CASE Original(c)
      BY <2>4, AdmittedLeaves DEF Original, Life!Leave
    <2>5. CASE ContextInitPost(c) \/ InitRingGPUVirtualAddressPost(c)
      <3>1. admitted' = admitted
        BY <2>5, AdmittedKept DEF ContextInitPost, InitRingGPUVirtualAddressPost, At
      <3> QED
        BY <2>5, <3>1 DEF ContextInitPost, InitRingGPUVirtualAddressPost,
                          Life!See, Mark
    <2>6. CASE InitRingRegistersPost(c)
      <3>1. admitted' = admitted
        BY <2>6, AdmittedKept DEF InitRingRegistersPost, At
      <3> QED
        BY <2>6, <3>1 DEF InitRingRegistersPost, Life!Ready, Mark
    <2>7. CASE \/ InitRingControlPost(c) \/ ResetRingHeadPost(c)
               \/ UpdateRingTailPost(c) \/ RingBufferInitPost(c)
               \/ SubmitToRingPost(c) \/ ResumeSchedulingPost(c)
      <3>1. UNCHANGED <<contextSeen, ringReady, smokePassed, quarantined, lateRan>>
        BY <2>7 DEF InitRingControlPost, ResetRingHeadPost, UpdateRingTailPost,
             RingBufferInitPost, SubmitToRingPost, ResumeSchedulingPost
      <3>2. admitted' = admitted
        <4>1. CASE InitRingControlPost(c)
          BY <4>1, AdmittedKept DEF InitRingControlPost, At
        <4>2. CASE ResetRingHeadPost(c) \/ UpdateRingTailPost(c)
          BY <4>2, AdmittedKept DEF ResetRingHeadPost, UpdateRingTailPost, At
        <4>3. CASE RingBufferInitPost(c) \/ ResumeSchedulingPost(c)
          BY <4>3, AdmittedKept DEF RingBufferInitPost, ResumeSchedulingPost, At
        <4>4. CASE SubmitToRingPost(c)
          BY <4>4, AdmittedKept DEF SubmitToRingPost, At
        <4> QED
          BY <2>7, <4>1, <4>2, <4>3, <4>4
      <3> QED
        BY <3>1, <3>2
    <2>8. CASE SubmitExecListPost(c) \/ PrepareExecListAndSubmitPost(c)
      BY <2>8, AdmittedKept DEF SubmitExecListPost,
           PrepareExecListAndSubmitPost, EvaluateUnlessPassed, At
    <2>9. CASE Decide(c) \/ \E saw \in BOOLEAN : SampleRegisters(c, saw)
      BY <2>9, AdmittedKept DEF Decide, SampleRegisters
    <2>10. CASE ApplyVerdict(c)
      <3>1. admitted' = admitted
        BY <2>10, AdmittedKept, ZenonT(30) DEF ApplyVerdict
      <3>2. CASE pc[c] = "pass"
        <4>1. eng[c] \in contextSeen \cap ringReady /\ eng[c] \in Tracked
          BY <3>2, Zenon DEF IInv, CallInv, TypeOK
        <4> QED
          BY <2>10, <3>1, <3>2, <4>1 DEF ApplyVerdict, Life!Pass, Mark
      <3>3. CASE pc[c] = "fail"
        BY <2>10, <3>1, <3>3 DEF ApplyVerdict, Life!Stop, Mark
      <3> QED
        BY <2>10, <3>2, <3>3 DEF ApplyVerdict
    <2> QED
      BY <2>1, <2>2, <2>3, <2>4, <2>5, <2>6, <2>7, <2>8, <2>9, <2>10 DEF CallStep
  <1> QED
    BY <1>1, <1>2

\* The tracker implements the engine life cycle for any number of concurrent
\* hook calls: no interleaving of the hooks' unlocked reads and writes admits
\* a caller to a quarantined engine or passes an engine without its stages.
THEOREM TrackerImplementsLife == Spec => ImplementsLife
  <1>1. Init => Life!Init
    BY DEF Init, NGTglEngineState, Life!Init, admitted
  <1> QED
    BY <1>1, TrackerInvariant, StepLife, PTL DEF Spec, ImplementsLife, Life!Spec

-----------------------------------------------------------------------------
(* The well-behaved driver.                                                *)

\* Thread c is in a hook of ops whose bookkeeping is still to come.
Setting(c, ops) == pc[c] \in {"pre", "original", "post"} /\ op[c] \in ops

\* Thread c brings RCS up in order: what a later call needs is there, is being
\* set up by the thread, or comes first in what is left of its script.
InOrder(c) ==
  /\ \/ "RCS" \in ringReady
     \/ Setting(c, RingOps)
     \/ Before(script[c], RingOps, "updateRingTail")
  /\ \/ "RCS" \in controlReady
     \/ Setting(c, {"initRingControlOn"})
     \/ Before(script[c], {"initRingControlOn"}, "submitToRing")
  /\ At(c, "updateRingTail", "pre") => "RCS" \in ringReady
  /\ At(c, "submitToRing", "pre") => "RCS" \in controlReady

\* A thread calls the hooks for its own engine and never disables a control.
ThreadInv(c) ==
  /\ pc[c] # "idle" => op[c] \in StreamerOps \/ eng[c] = EngineOf[c]
  /\ op[c] # "initRingControlOff"
  /\ \A i \in 1 .. Len(script[c]) : script[c][i] # "initRingControlOff"
  /\ platform.realTGL /\ EngineOf[c] = "RCS" => InOrder(c)

DriverInv ==
  /\ script \in [Calls -> Seq(Op)]
  /\ ~free => \A c \in Calls : ThreadInv(c)

\* What is left of a script keeps its order until the thread makes a call of first.
LEMMA BeforeTail ==
  ASSUME NEW s \in Seq(Op), s # <<>>, NEW first, NEW use, Before(s, first, use),
         Head(s) \notin first
  PROVE  Head(s) # use /\ Before(Tail(s), first, use)
<1>1. /\ Head(s) = s[1] /\ Len(s) \in Nat \ {0} /\ Len(Tail(s)) = Len(s) - 1
      /\ \A i \in 1 .. Len(Tail(s)) : Tail(s)[i] = s[i + 1]
  OBVIOUS
<1>2. Head(s) # use
  BY <1>1 DEF Before
<1>3. ASSUME NEW i \in 1 .. Len(Tail(s)), Tail(s)[i] = use
      PROVE  \E j \in 1 .. i - 1 : Tail(s)[j] \in first
  <2>1. i + 1 \in 1 .. Len(s) /\ s[i + 1] = use
    BY <1>1, <1>3
  <2>2. PICK j \in 1 .. (i + 1) - 1 : s[j] \in first
    BY <2>1 DEF Before
  <2>3. j # 1
    BY <1>1, <2>2
  <2>4. j - 1 \in 1 .. i - 1 /\ j - 1 \in 1 .. Len(Tail(s)) /\ (j - 1) + 1 = j
    BY <1>1, <2>2, <2>3
  <2>5. Tail(s)[j - 1] \in first
    BY <1>1, <2>2, <2>4
  <2> QED
    BY <2>4, <2>5, Zenon
<1> QED
  BY <1>2, <1>3 DEF Before

\* What the hardware answers is one of the two answers a sample may have.
LEMMA HookStepCases ==
  ASSUME NEW c \in Calls, HookStep(c)
  PROVE  \/ Pre(c) \/ Post(c) \/ Decide(c) \/ ApplyVerdict(c)
         \/ \E saw \in BOOLEAN : SampleRegisters(c, saw)
<1>1. CASE SampleRegisters(c, eng[c] \in programmed \cap active)
  <2>1. CASE eng[c] \in programmed \cap active
    <3>1. SampleRegisters(c, TRUE)
      BY <1>1, <2>1 DEF SampleRegisters
    <3> QED
      BY <3>1, Zenon
  <2>2. CASE eng[c] \notin programmed \cap active
    <3>1. SampleRegisters(c, FALSE)
      BY <1>1, <2>2 DEF SampleRegisters
    <3> QED
      BY <3>1, Zenon
  <2> QED
    BY <2>1, <2>2
<1> QED
  BY <1>1 DEF HookStep

\* The driver's steps are steps of the hooks, or leave them alone.
LEMMA DriverIsTracker ==
  ASSUME DriverInv, [BNext]_<<vars, driver>>
  PROVE  [Next]_vars
<1>1. ASSUME NEW c \in Calls, CallNext(c) PROVE [Next]_vars
  <2> DEFINE o == Head(script[c])
             e == IF o \in StreamerOps THEN "RCS" ELSE EngineOf[c]
  <2>1. o \in Op
    BY <1>1 DEF DriverInv, CallNext
  <2>2. e \in Engine
    BY DriverAssumption, EnginesAssumption, Zenon DEF Engine, Tracked
  <2>3. Enter(c, o, e) \/ UNCHANGED vars
    BY <1>1 DEF CallNext
  <2> QED
    BY <2>1, <2>2, <2>3 DEF Next
<1>2. ASSUME NEW c \in Calls, RunOriginal(c) PROVE Next
  BY <1>2 DEF RunOriginal, Next
<1>3. ASSUME NEW c \in Calls, HookStep(c) PROVE Next
  BY <1>3, HookStepCases DEF Next
<1>4. CASE ~free /\ \E c \in Calls : Step(c)
  BY <1>1, <1>2, <1>3, <1>4, Zenon DEF Step
<1> QED
  BY <1>4 DEF BNext, FreeCall, Finished

\* The steps of a hook after its entry: it goes on or returns, keeps what it has
\* set up, and sets up what it is for.
LEMMA HookMoves ==
  ASSUME IInv, NEW c \in Calls,
         Pre(c) \/ Original(c) \/ Post(c) \/ (\E saw \in BOOLEAN : SampleRegisters(c, saw))
           \/ Decide(c) \/ ApplyVerdict(c)
  PROVE  /\ pc[c] # "idle"
         /\ (\E l \in PC \ {"pre", "idle"} : Goto(c, l)) \/ Return(c)
         /\ UNCHANGED platform
         /\ ringReady \subseteq ringReady'
         /\ op[c] # "initRingControlOff" => controlReady \subseteq controlReady'
         /\ Setting(c, RingOps) /\ eng[c] = "RCS" => "RCS" \in ringReady' \/ Setting(c, RingOps)'
         /\ Setting(c, {"initRingControlOn"}) /\ eng[c] = "RCS"
              => "RCS" \in controlReady' \/ Setting(c, {"initRingControlOn"})'
<1> USE DEF Setting, RingOps, At
<1> TypeOK
  BY Zenon DEF IInv
<1>1. CASE InitRingControlPre(c)
  BY <1>1, Zenon DEF InitRingControlPre, Goto, Mark, PC, TypeOK
<1>2. CASE UpdateRingTailPre(c) \/ SubmitToRingPre(c)
  BY <1>2, Zenon DEF UpdateRingTailPre, SubmitToRingPre, RequireOrQuarantine, Goto, PC
<1>3. CASE Original(c)
  BY <1>3, Zenon DEF Original, Goto, PC, flags, TypeOK
<1>4. CASE InitRingRegistersPost(c)
  BY <1>4, Zenon DEF InitRingRegistersPost, Mark, Tracked
<1>5. CASE InitRingControlPost(c)
  <2>1. CASE op[c] = "initRingControlOn"
    <3>1. pc[c] = "post" /\ Goto(c, "sample") /\ UNCHANGED <<platform, ringReady>>
          /\ controlReady' = Mark(controlReady, eng[c])
      BY <1>5, <2>1, Zenon DEF InitRingControlPost
    <3>2. eng[c] = "RCS" => "RCS" \in ringReady
      BY <2>1, <3>1, Zenon DEF IInv, CallInv, HasPre, Tracked
    <3> QED
      BY <2>1, <3>1, <3>2, Zenon DEF Mark, Tracked, PC
  <2>2. CASE op[c] # "initRingControlOn"
    BY <1>5, <2>2, Zenon DEF InitRingControlPost
  <2> QED
    BY <2>1, <2>2
<1>6. CASE \/ ContextInitPost(c) \/ InitRingGPUVirtualAddressPost(c)
           \/ ResetRingHeadPost(c) \/ UpdateRingTailPost(c)
  BY <1>6, Zenon DEF ContextInitPost, InitRingGPUVirtualAddressPost, ResetRingHeadPost,
              UpdateRingTailPost, PC
<1>7. CASE RingBufferInitPost(c) \/ SubmitToRingPost(c) \/ ResumeSchedulingPost(c)
  BY <1>7, Zenon DEF RingBufferInitPost, SubmitToRingPost, ResumeSchedulingPost, flags, PC
<1>8. CASE SubmitExecListPost(c) \/ PrepareExecListAndSubmitPost(c)
  BY <1>8, Zenon DEF SubmitExecListPost, PrepareExecListAndSubmitPost, EvaluateUnlessPassed, flags, PC
<1>9. CASE (\E saw \in BOOLEAN : SampleRegisters(c, saw)) \/ Decide(c) \/ ApplyVerdict(c)
  BY <1>9, Zenon DEF SampleRegisters, Decide, ApplyVerdict, flags, PC
<1> QED
  BY <1>1, <1>2, <1>3, <1>4, <1>5, <1>6, <1>7, <1>8, <1>9, Zenon DEF Pre, Post

\* A thread that makes no step keeps its order: nobody takes back what it set up.
LEMMA ThreadFrame ==
  ASSUME NEW d \in Calls, ThreadInv(d), UNCHANGED platform,
         pc'[d] = pc[d], op'[d] = op[d], eng'[d] = eng[d], script'[d] = script[d],
         ringReady \subseteq ringReady', controlReady \subseteq controlReady'
  PROVE  ThreadInv(d)'
  BY ZenonT(30) DEF ThreadInv, InOrder, Setting, At, Before

\* A thread makes the next call of its script.
LEMMA CallKeepsOrder ==
  ASSUME IInv, DriverInv, RcsNeverQuarantined, ~free, NEW c \in Calls, CallNext(c)
  PROVE  ThreadInv(c)'
<1> DEFINE o == Head(script[c])
           e == IF o \in StreamerOps THEN "RCS" ELSE EngineOf[c]
<1>1. /\ pc[c] = "idle" /\ script[c] # <<>> /\ script[c] \in Seq(Op) /\ ThreadInv(c)
      /\ Enter(c, o, e) \/ (Blocked(o, e) /\ UNCHANGED vars)
      /\ script'[c] = Tail(script[c])
  BY DEF CallNext, DriverInv
<1>2. /\ o = script[c][1] /\ 1 \in 1 .. Len(script[c])
      /\ \A i \in 1 .. Len(Tail(script[c])) :
           i + 1 \in 1 .. Len(script[c]) /\ Tail(script[c])[i] = script[c][i + 1]
  BY <1>1
<1>3. o # "initRingControlOff" /\ \A i \in 1 .. Len(script'[c]) : script'[c][i] # "initRingControlOff"
  BY <1>1, <1>2, Zenon DEF ThreadInv
<1>4. UNCHANGED <<platform, ringReady, controlReady>>
  BY <1>1, Zenon DEF Enter, vars, flags
<1>5. /\ pc'[c] # "idle" => op'[c] = o /\ (o \in StreamerOps \/ eng'[c] = EngineOf[c])
      /\ op'[c] \in {o, op[c]}
  BY <1>1, Zenon DEF Enter, vars, calls, IInv, TypeOK
<1>6. ASSUME platform.realTGL, EngineOf[c] = "RCS"
      PROVE  InOrder(c)'
  <2>1. ~Blocked(o, e)
    BY <1>6, Zenon DEF Blocked, ShouldBlockTrackedEngine, StreamerBlocked, UseSpoofedSafeSchedulerPolicy,
                RcsNeverQuarantined, GuardedOps, StreamerOps
  <2>2. pc'[c] = (IF o \in HasPre THEN "pre" ELSE "original") /\ op'[c] = o
    BY <1>1, <2>1, Zenon DEF Enter, IInv, TypeOK
  <2>3. InOrder(c) /\ ~Setting(c, RingOps) /\ ~Setting(c, {"initRingControlOn"})
    BY <1>1, <1>6, Zenon DEF ThreadInv, Setting
  <2>4. \/ "RCS" \in ringReady
        \/ o \in RingOps
        \/ o # "updateRingTail" /\ Before(Tail(script[c]), RingOps, "updateRingTail")
    BY <1>1, <2>3, BeforeTail, ZenonT(30) DEF InOrder
  <2>5. \/ "RCS" \in controlReady
        \/ o = "initRingControlOn"
        \/ o # "submitToRing" /\ Before(Tail(script[c]), {"initRingControlOn"}, "submitToRing")
    BY <1>1, <2>3, BeforeTail DEF InOrder
  <2>6. /\ o \in RingOps => Setting(c, RingOps)' /\ o # "updateRingTail"
        /\ o = "initRingControlOn" => Setting(c, {"initRingControlOn"})' /\ o # "submitToRing"
    BY <2>2 DEF Setting, RingOps
  <2>7. /\ Before(script[c], RingOps, "updateRingTail")'
             <=> Before(Tail(script[c]), RingOps, "updateRingTail")
        /\ Before(script[c], {"initRingControlOn"}, "submitToRing")'
             <=> Before(Tail(script[c]), {"initRingControlOn"}, "submitToRing")
    BY <1>1 DEF Before
  <2>8. /\ At(c, "updateRingTail", "pre")' => o = "updateRingTail"
        /\ At(c, "submitToRing", "pre")' => o = "submitToRing"
    BY <2>2 DEF At
  <2> QED
    BY <1>4, <2>4, <2>5, <2>6, <2>7, <2>8 DEF InOrder
<1>7. op[c] # "initRingControlOff"
  BY <1>1, Zenon DEF ThreadInv
<1> QED
  BY <1>3, <1>4, <1>5, <1>6, <1>7, Zenon DEF ThreadInv

\* A thread inside a hook.
LEMMA HookKeepsOrder ==
  ASSUME IInv, DriverInv, ~free, NEW c \in Calls, RunOriginal(c) \/ HookStep(c)
  PROVE  ThreadInv(c)' /\ UNCHANGED <<platform, script>> /\ ringReady \subseteq ringReady'
           /\ controlReady \subseteq controlReady'
<1>1. ThreadInv(c) /\ UNCHANGED script
  BY Zenon DEF DriverInv, RunOriginal, HookStep, driver
<1>2. Pre(c) \/ Original(c) \/ Post(c) \/ (\E saw \in BOOLEAN : SampleRegisters(c, saw))
        \/ Decide(c) \/ ApplyVerdict(c)
  BY HookStepCases, Zenon DEF RunOriginal
<1>3. /\ pc[c] # "idle"
      /\ (\E l \in PC \ {"pre", "idle"} : Goto(c, l)) \/ Return(c)
      /\ UNCHANGED platform
      /\ ringReady \subseteq ringReady' /\ controlReady \subseteq controlReady'
      /\ Setting(c, RingOps) /\ eng[c] = "RCS" => "RCS" \in ringReady' \/ Setting(c, RingOps)'
      /\ Setting(c, {"initRingControlOn"}) /\ eng[c] = "RCS"
           => "RCS" \in controlReady' \/ Setting(c, {"initRingControlOn"})'
  BY <1>1, <1>2, HookMoves, Zenon DEF ThreadInv
<1>4. /\ pc'[c] # "pre"
      /\ op'[c] \in {op[c], "contextInit"}
      /\ pc'[c] # "idle" => op'[c] = op[c] /\ eng'[c] = eng[c]
  BY <1>3, Zenon DEF Goto, Return, IInv, TypeOK
<1>5. ASSUME platform.realTGL, EngineOf[c] = "RCS"
      PROVE  InOrder(c)'
  <2>1. InOrder(c)
    BY <1>1, <1>5, Zenon DEF ThreadInv
  <2>2. Setting(c, RingOps) => eng[c] = "RCS"
    BY <1>1, <1>3, <1>5, Zenon DEF ThreadInv, Setting, RingOps, StreamerOps
  <2>3. Setting(c, {"initRingControlOn"}) => eng[c] = "RCS"
    BY <1>1, <1>3, <1>5, Zenon DEF ThreadInv, Setting, StreamerOps
  <2>4. /\ Before(script[c], RingOps, "updateRingTail")' <=> Before(script[c], RingOps, "updateRingTail")
        /\ Before(script[c], {"initRingControlOn"}, "submitToRing")'
             <=> Before(script[c], {"initRingControlOn"}, "submitToRing")
    BY <1>1 DEF Before
  <2>5. ~At(c, "updateRingTail", "pre")' /\ ~At(c, "submitToRing", "pre")'
    BY <1>4 DEF At
  <2> QED
    BY <1>3, <2>1, <2>2, <2>3, <2>4, <2>5, Zenon DEF InOrder
<1> QED
  BY <1>1, <1>3, <1>4, <1>5, Zenon DEF ThreadInv

\* Every step of the threads keeps every thread's order.
LEMMA DriverNext ==
  ASSUME IInv, DriverInv, RcsNeverQuarantined, [BNext]_<<vars, driver>>
  PROVE  DriverInv'
<1>1. CASE UNCHANGED <<vars, driver>>
  <2>1. UNCHANGED <<platform, ringReady, controlReady, pc, op, eng, free, script>>
    BY <1>1 DEF vars, driver, flags, calls
  <2> QED
    BY <2>1, ThreadFrame DEF DriverInv
<1>2. CASE FreeCall
  BY <1>2 DEF FreeCall, driver, DriverInv
<1>3. ASSUME NEW c \in Calls, ~free, Step(c)
      PROVE  DriverInv'
  <2>1. UNCHANGED free
    BY <1>3, Zenon DEF Step, CallNext, RunOriginal, HookStep, driver
  <2>2. /\ ThreadInv(c)' /\ UNCHANGED platform /\ ringReady \subseteq ringReady'
        /\ controlReady \subseteq controlReady'
        /\ script' \in [Calls -> Seq(Op)]
        /\ \A d \in Calls \ {c} : script'[d] = script[d]
        /\ \A d \in Calls \ {c} : pc'[d] = pc[d] /\ op'[d] = op[d] /\ eng'[d] = eng[d]
    <3>1. CASE CallNext(c)
      <4>1. ThreadInv(c)'
        BY <1>3, <3>1, CallKeepsOrder, ZenonT(30)
      <4>2. script[c] \in Seq(Op) /\ script[c] # <<>>
        BY <3>1 DEF CallNext, DriverInv
      <4>3. Tail(script[c]) \in Seq(Op)
        BY <4>2
      <4>4. script' \in [Calls -> Seq(Op)] /\ \A d \in Calls \ {c} : script'[d] = script[d]
        BY <3>1, <4>3, Zenon DEF CallNext, DriverInv
      <4>5. UNCHANGED <<platform, ringReady, controlReady>>
        BY <3>1, Zenon DEF CallNext, Enter, vars, flags
      <4>6. \A d \in Calls \ {c} : pc'[d] = pc[d] /\ op'[d] = op[d] /\ eng'[d] = eng[d]
        BY <3>1, Zenon DEF CallNext, Enter, vars, calls, IInv, TypeOK
      <4> QED
        BY <4>1, <4>4, <4>5, <4>6
    <3>2. CASE RunOriginal(c) \/ HookStep(c)
      <4>1. /\ ThreadInv(c)' /\ UNCHANGED <<platform, script>> /\ ringReady \subseteq ringReady'
            /\ controlReady \subseteq controlReady'
        BY <1>3, <3>2, HookKeepsOrder, Zenon
      <4>2. (\E l \in PC : Goto(c, l)) \/ Return(c)
        BY <3>2, HookStepCases, HookMoves, Zenon DEF RunOriginal
      <4>3. \A d \in Calls \ {c} : pc'[d] = pc[d] /\ op'[d] = op[d] /\ eng'[d] = eng[d]
        BY <4>2 DEF Goto, Return, IInv, TypeOK
      <4> QED
        BY <4>1, <4>3 DEF DriverInv
    <3> QED
      BY <1>3, <3>1, <3>2, Zenon DEF Step
  <2>3. \A d \in Calls \ {c} : ThreadInv(d)'
    BY <1>3, <2>2, ThreadFrame, Zenon DEF DriverInv
  <2> QED
    BY <2>1, <2>2, <2>3, Zenon DEF DriverInv
<1> QED
  BY <1>1, <1>2, <1>3 DEF BNext, Finished

\* No hook changes the platform flags.
LEMMA NextKeepsPlatform == Next => UNCHANGED platform
<1> SUFFICES ASSUME Next PROVE UNCHANGED platform
  OBVIOUS
<1> PICK c \in Calls : CallStep(c)
  BY NextIsCallStep
<1> QED
  BY Zenon DEF CallStep, Enter, InitRingControlPre, UpdateRingTailPre, SubmitToRingPre,
         RequireOrQuarantine, Original, ContextInitPost, InitRingGPUVirtualAddressPost,
         InitRingRegistersPost, InitRingControlPost, ResetRingHeadPost, UpdateRingTailPost,
         RingBufferInitPost, SubmitToRingPost, ResumeSchedulingPost, SubmitExecListPost,
         PrepareExecListAndSubmitPost, EvaluateUnlessPassed, SampleRegisters, Decide,
         ApplyVerdict

\* The driver in order is never found out of sequence.
LEMMA QuarantineNext ==
  ASSUME IInv, DriverInv, RcsNeverQuarantined, [BNext]_<<vars, driver>>
  PROVE  RcsNeverQuarantined'
<1>1. UNCHANGED free
  BY Zenon DEF BNext, Step, CallNext, RunOriginal, HookStep, FreeCall, Finished, driver
<1>2. [Next]_vars
  BY DriverIsTracker
<1>3. CASE UNCHANGED vars
  BY <1>1, <1>3, Zenon DEF vars, flags, RcsNeverQuarantined
<1>4. CASE Next
  <2> SUFFICES ASSUME ~free, platform'.realTGL, "RCS" \in quarantined'
               PROVE  FALSE
    BY <1>1 DEF RcsNeverQuarantined
  <2>1. platform' = platform
    BY <1>4, NextKeepsPlatform
  <2>2. "RCS" \notin quarantined
    BY <2>1 DEF RcsNeverQuarantined
  <2>3. PICK c \in Calls :
          /\ eng[c] = "RCS"
          /\ \/ At(c, "updateRingTail", "pre") /\ "RCS" \notin ringReady
             \/ At(c, "submitToRing", "pre") /\ "RCS" \notin controlReady
    BY <1>4, <2>1, <2>2, StepRcsQuarantine
  <2>4. EngineOf[c] = "RCS" /\ ThreadInv(c)
    BY <2>3 DEF DriverInv, ThreadInv, At, StreamerOps
  <2> QED
    BY <2>1, <2>3, <2>4, Zenon DEF ThreadInv, InOrder
<1> QED
  BY <1>2, <1>3, <1>4, Zenon

\* The threads start with a whole script.
LEMMA InitDriver == BInit => IInv /\ DriverInv /\ RcsNeverQuarantined
<1> SUFFICES ASSUME BInit PROVE IInv /\ DriverInv /\ RcsNeverQuarantined
  OBVIOUS
<1>1. IInv
  BY InitIInv DEF BInit
<1>2. RcsNeverQuarantined
  BY DEF BInit, Init, NGTglEngineState, RcsNeverQuarantined
<1>3. script \in [Calls -> Seq(Op)] /\ (~free => \A c \in Calls : WellBehaved(script[c]))
  <2>1. CASE free
    <3>1. script \in [Calls -> {<<>>}]
      BY <2>1 DEF BInit
    <3>2. <<>> \in Seq(Op)
      OBVIOUS
    <3> QED
      BY <2>1, <3>1, <3>2, Zenon
  <2>2. CASE ~free
    <3>1. script \in [Calls -> Scripts]
      BY <2>2 DEF BInit
    <3> QED
      BY <2>2, <3>1, DriverAssumption
  <2> QED
    BY <2>1, <2>2
<1>4. \A c \in Calls : pc[c] = "idle" /\ op[c] = "contextInit"
  BY ZenonT(30) DEF BInit, Init
<1>5. DriverInv
  BY <1>3, <1>4 DEF DriverInv, ThreadInv, InOrder, WellBehaved, At
<1> QED
  BY <1>1, <1>2, <1>5

BringupInv == IInv /\ DriverInv /\ RcsNeverQuarantined

\* The order of every thread is an invariant of the driver and the hooks.
LEMMA BringupInvariant == BSpec => []BringupInv
<1>1. BInit => BringupInv
  BY InitDriver DEF BringupInv
<1>2. BringupInv /\ [BNext]_<<vars, driver>> => BringupInv'
  <2> SUFFICES ASSUME BringupInv, [BNext]_<<vars, driver>> PROVE BringupInv'
    OBVIOUS
  <2> USE DEF BringupInv
  <2>1. IInv'
    BY DriverIsTracker, StepTypeOK, StepOrder, StepLate, StepFail DEF IInv
  <2> QED
    BY <2>1, DriverNext, QuarantineNext
<1> QED
  BY <1>1, <1>2, PTL DEF BSpec

\* With any number of driver threads, whatever the order of their scripts allows
\* and whatever the other engine's threads do meanwhile, a real Tiger Lake never
\* quarantines RCS: the hooks' checks see the order the driver kept.
THEOREM RcsNeverQuarantinedHolds == BSpec => []RcsNeverQuarantined
<1>1. BringupInv => RcsNeverQuarantined
  BY DEF BringupInv
<1> QED
  BY <1>1, BringupInvariant, PTL

\* The driver composed with the hooks is a behaviour of the hooks, so everything
\* proved of EngineTracker holds of every such bring-up.
THEOREM BringupIsTracker == BSpec => Spec
<1>1. BInit => Init
  BY DEF BInit
<1>2. BringupInv /\ [BNext]_<<vars, driver>> => [Next]_vars
  BY DriverIsTracker DEF BringupInv
<1> QED
  BY <1>1, <1>2, BringupInvariant, PTL DEF BSpec, Spec
=============================================================================
