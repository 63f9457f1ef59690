---------------------------- MODULE EngineTracker ----------------------------
(***************************************************************************)
(* The engine bring-up tracker of the Tiger Lake hardware hooks            *)
(* (iTGL/TGL.cpp).  The driver's context, ring-buffer and command-streamer *)
(* entry points are routed through hooks that record, per tracked engine   *)
(* (gTglBringupState.bcs and .rcs), how far its bring-up has come, smoke-  *)
(* test the ring registers, and quarantine an engine that fails: a         *)
(* quarantined engine's hooks return without calling the driver.           *)
(*                                                                         *)
(* The flags are plain globals without a lock and the hooks run on any     *)
(* driver thread, so every hook is cut where it reads or writes them.  A   *)
(* call c is one activation of a hook; two activations of one thread (a    *)
(* hook entered from inside another hook's original) are two calls.        *)
(*                                                                         *)
(* Each flag is the set of tracked engines for which it is true.  lastTail *)
(* is left out: the code only logs it.                                     *)
(***************************************************************************)
CONSTANTS
  Calls,       \* hook activations that may be in flight at once
  Platforms,   \* the platform flags the hooks may find in NGreen::callback
  ContextEngines   \* the engines the driver's contexts belong to

Tracked == {"BCS", "RCS"}

\* getTrackedEngineFromContext: "None" for any other engine type.
Engine == Tracked \cup {"None"}

GuardedOps == {"initRingGPUVirtualAddress", "initRingRegisters",
               "initRingControlOn", "initRingControlOff", "resetRingHead",
               "updateRingTail", "ringBufferInit", "submitToRing"}

StreamerOps == {"resumeScheduling", "submitExecList",
                "prepareExecListAndSubmit"}

Op == {"contextInit"} \cup GuardedOps \cup StreamerOps

PC == {"idle", "pre", "original", "post", "sample", "sawLive", "sawZero",
       "pass", "fail"}

Platform == [realTGL : BOOLEAN, tryGuC : BOOLEAN, mmioReady : BOOLEAN]

ASSUME PlatformsAssumption == Platforms \subseteq Platform
ASSUME EnginesAssumption == ContextEngines \subseteq Engine

VARIABLES
  platform,      \* isRealTGL, tryGuC and mmioReady(), fixed before the hooks run
  contextSeen, ringReady, controlReady, submitted, smokePassed, quarantined,
  pc, op, eng,   \* where each call is, its hook and its engine
  lateRan        \* history: calls that ran an engine's original while it was
                 \* quarantined

flags == <<contextSeen, ringReady, controlReady, submitted, smokePassed,
           quarantined>>
calls == <<pc, op, eng>>
vars == <<platform, flags, calls, lateRan>>

\* The flags of gTglBringupState belong to the tracked engines only, and each
\* hook activation is at one of the steps of the hooks.
TypeOK ==
  /\ platform \in Platform
  /\ contextSeen \subseteq Tracked
  /\ ringReady \subseteq Tracked
  /\ controlReady \subseteq Tracked
  /\ submitted \subseteq Tracked
  /\ smokePassed \subseteq Tracked
  /\ quarantined \subseteq Tracked
  /\ pc \in [Calls -> PC]
  /\ op \in [Calls -> Op]
  /\ eng \in [Calls -> Engine]
  /\ lateRan \in [Tracked -> SUBSET Calls]

NGTglEngineState ==
  /\ contextSeen = {} /\ ringReady = {} /\ controlReady = {}
  /\ submitted = {} /\ smokePassed = {} /\ quarantined = {}

Init ==
  /\ platform \in Platforms
  /\ NGTglEngineState
  /\ pc = [c \in Calls |-> "idle"]
  /\ op = [c \in Calls |-> "contextInit"]
  /\ eng = [c \in Calls |-> "None"]
  /\ lateRan = [e \in Tracked |-> {}]

-----------------------------------------------------------------------------
\* Marking "None" changes nothing: trackedEngineState returns a null pointer.
Mark(flag, e) == flag \cup ({e} \cap Tracked)

At(c, o, l) == pc[c] = l /\ op[c] = o

Goto(c, l) == pc' = [pc EXCEPT ![c] = l] /\ UNCHANGED <<op, eng>>

Return(c) ==
  /\ pc' = [pc EXCEPT ![c] = "idle"]
  /\ op' = [op EXCEPT ![c] = "contextInit"]
  /\ eng' = [eng EXCEPT ![c] = "None"]

UseSpoofedSafeSchedulerPolicy == ~platform.realTGL /\ ~platform.tryGuC

\* Mutant: the block test looks at the wrong flag.
MutBlockIfPassed(e) == e \in smokePassed

ShouldBlockTrackedEngine(e) == e \in quarantined

\* The streamer hooks carry no engine: they are stopped by BCS's quarantine,
\* and only under the spoofed-safe policy.
StreamerBlocked == UseSpoofedSafeSchedulerPolicy /\ "BCS" \in quarantined

Blocked(o, e) ==
  \/ o \in GuardedOps /\ ShouldBlockTrackedEngine(e)
  \/ o \in StreamerOps /\ StreamerBlocked

\* The engines whose quarantine is meant to stop a call of o on e.
StoppedBy(o, e) ==
  {q \in Tracked :
     \/ o \in GuardedOps /\ q = e
     \/ o \in StreamerOps /\ q = "BCS" /\ UseSpoofedSafeSchedulerPolicy}

HasPre == {"initRingControlOn", "updateRingTail", "submitToRing"}

\* A hook is entered: it finds its engine, returns at once if the engine is
\* blocked, and otherwise goes on to its own checks or to the original.
Enter(c, o, e) ==
  /\ pc[c] = "idle"
  /\ IF o \in StreamerOps THEN e = "RCS"  \* the engine these hooks evaluate
                          ELSE e \in ContextEngines
  /\ ~Blocked(o, e)
  /\ pc' = [pc EXCEPT ![c] = IF o \in HasPre THEN "pre" ELSE "original"]
  /\ op' = [op EXCEPT ![c] = o]
  /\ eng' = [eng EXCEPT ![c] = e]
  /\ UNCHANGED <<platform, flags, lateRan>>

\* Mutant: enabling the control no longer marks the ring ready.
MutControlWithoutRing(c) ==
  /\ At(c, "initRingControlOn", "pre")
  /\ Goto(c, "original")
  /\ UNCHANGED <<platform, flags, lateRan>>

\* A ring that was not set up is taken to be ready: the driver may program
\* the ring registers after the ring control.
InitRingControlPre(c) ==
  /\ At(c, "initRingControlOn", "pre")
  /\ ringReady' = Mark(ringReady, eng[c])
  /\ Goto(c, "original")
  /\ UNCHANGED <<platform, contextSeen, controlReady, submitted, smokePassed,
                 quarantined, lateRan>>

\* A check that fails quarantines the engine and ends the hook.
RequireOrQuarantine(c, ready) ==
  /\ IF eng[c] \in Tracked \ ready
     THEN quarantined' = Mark(quarantined, eng[c]) /\ Return(c)
     ELSE UNCHANGED quarantined /\ Goto(c, "original")
  /\ UNCHANGED <<platform, contextSeen, ringReady, controlReady, submitted,
                 smokePassed, lateRan>>

UpdateRingTailPre(c) ==
  At(c, "updateRingTail", "pre") /\ RequireOrQuarantine(c, ringReady)

SubmitToRingPre(c) ==
  At(c, "submitToRing", "pre") /\ RequireOrQuarantine(c, controlReady)

\* The driver's own function runs.
Original(c) ==
  /\ pc[c] = "original"
  /\ lateRan' = [e \in Tracked |->
       IF e \in StoppedBy(op[c], eng[c]) \cap quarantined
       THEN lateRan[e] \cup {c} ELSE lateRan[e]]
  /\ Goto(c, "post")
  /\ UNCHANGED <<platform, flags>>

-----------------------------------------------------------------------------
(* After the original: the bookkeeping of each hook.                       *)

ContextInitPost(c) ==
  /\ At(c, "contextInit", "post")
  /\ contextSeen' = Mark(contextSeen, eng[c])
  /\ Return(c)
  /\ UNCHANGED <<platform, ringReady, controlReady, submitted, smokePassed,
                 quarantined, lateRan>>

InitRingGPUVirtualAddressPost(c) ==
  /\ At(c, "initRingGPUVirtualAddress", "post")
  /\ contextSeen' = Mark(contextSeen, eng[c])
  /\ Return(c)
  /\ UNCHANGED <<platform, ringReady, controlReady, submitted, smokePassed,
                 quarantined, lateRan>>

InitRingRegistersPost(c) ==
  /\ At(c, "initRingRegisters", "post")
  /\ ringReady' = Mark(ringReady, eng[c])
  /\ Return(c)
  /\ UNCHANGED <<platform, contextSeen, controlReady, submitted, smokePassed,
                 quarantined, lateRan>>

\* enable = true evaluates the engine, enable = false only clears the flag.
InitRingControlPost(c) ==
  /\ \/ /\ At(c, "initRingControlOn", "post")
        /\ controlReady' = Mark(controlReady, eng[c])
        /\ Goto(c, "sample")
     \/ /\ At(c, "initRingControlOff", "post")
        /\ controlReady' = controlReady \ {eng[c]}
        /\ Return(c)
  /\ UNCHANGED <<platform, contextSeen, ringReady, submitted, smokePassed,
                 quarantined, lateRan>>

ResetRingHeadPost(c) ==
  /\ At(c, "resetRingHead", "post")
  /\ submitted' = submitted \ {eng[c]}
  /\ Return(c)
  /\ UNCHANGED <<platform, contextSeen, ringReady, controlReady, smokePassed,
                 quarantined, lateRan>>

\* Evaluates even an engine that has already passed.
UpdateRingTailPost(c) ==
  /\ At(c, "updateRingTail", "post")
  /\ submitted' = Mark(submitted, eng[c])
  /\ Goto(c, "sample")
  /\ UNCHANGED <<platform, contextSeen, ringReady, controlReady, smokePassed,
                 quarantined, lateRan>>

RingBufferInitPost(c) ==
  /\ At(c, "ringBufferInit", "post")
  /\ Return(c)
  /\ UNCHANGED <<platform, flags, lateRan>>

SubmitToRingPost(c) ==
  /\ At(c, "submitToRing", "post")
  /\ submitted' = Mark(submitted, eng[c])
  /\ IF eng[c] \in Tracked \ smokePassed THEN Goto(c, "sample") ELSE Return(c)
  /\ UNCHANGED <<platform, contextSeen, ringReady, controlReady, smokePassed,
                 quarantined, lateRan>>

ResumeSchedulingPost(c) ==
  /\ At(c, "resumeScheduling", "post")
  /\ Return(c)
  /\ UNCHANGED <<platform, flags, lateRan>>

EvaluateUnlessPassed(c) ==
  /\ IF eng[c] \in smokePassed THEN Return(c) ELSE Goto(c, "sample")
  /\ UNCHANGED <<platform, flags, lateRan>>

SubmitExecListPost(c) ==
  At(c, "submitExecList", "post") /\ EvaluateUnlessPassed(c)

PrepareExecListAndSubmitPost(c) ==
  At(c, "prepareExecListAndSubmit", "post") /\ EvaluateUnlessPassed(c)

-----------------------------------------------------------------------------
(* evaluateTrackedEngineBootstrap: sample the registers, then combine the  *)
(* sample with the flags, then write the verdict.  The registers belong to *)
(* the hardware: saw tells whether START, CTL and one of TAIL, HEAD,       *)
(* EXECLIST_STATUS and CONTEXT_STATUS_PTR were read as nonzero.            *)

SampleRegisters(c, saw) ==
  /\ pc[c] = "sample"
  /\ IF eng[c] \in Tracked /\ platform.mmioReady
     THEN Goto(c, IF saw THEN "sawLive" ELSE "sawZero")
     ELSE Return(c)
  /\ UNCHANGED <<platform, flags, lateRan>>

\* Mutant: an engine nobody made a context for can pass.
MutPassWithoutContext(c) ==
  pc[c] = "sawLive" /\ eng[c] \in ringReady \cap controlReady

BootstrapPasses(c) ==
  /\ pc[c] = "sawLive"
  /\ eng[c] \in contextSeen \cap ringReady \cap controlReady

\* Mutant: the V90 deferral is missing.
MutNoDeferral(c) ==
  /\ pc[c] \in {"sawLive", "sawZero"}
  /\ Goto(c, IF BootstrapPasses(c) THEN "pass" ELSE "fail")
  /\ UNCHANGED <<platform, flags, lateRan>>

\* On a real Tiger Lake a failing RCS is deferred instead of quarantined.
Decide(c) ==
  /\ pc[c] \in {"sawLive", "sawZero"}
  /\ \/ BootstrapPasses(c) /\ Goto(c, "pass")
     \/ /\ ~BootstrapPasses(c)
        /\ IF platform.realTGL /\ eng[c] = "RCS" THEN Return(c)
                                                 ELSE Goto(c, "fail")
  /\ UNCHANGED <<platform, flags, lateRan>>

ApplyVerdict(c) ==
  /\ \/ /\ pc[c] = "pass"
        /\ smokePassed' = Mark(smokePassed, eng[c])
        /\ UNCHANGED quarantined
     \/ /\ pc[c] = "fail"
        /\ quarantined' = Mark(quarantined, eng[c])
        /\ UNCHANGED smokePassed
  /\ Return(c)
  /\ UNCHANGED <<platform, contextSeen, ringReady, controlReady, submitted,
                 lateRan>>

Pre(c) == InitRingControlPre(c) \/ UpdateRingTailPre(c) \/ SubmitToRingPre(c)

Post(c) ==
  \/ ContextInitPost(c) \/ InitRingGPUVirtualAddressPost(c)
  \/ InitRingRegistersPost(c) \/ InitRingControlPost(c)
  \/ ResetRingHeadPost(c) \/ UpdateRingTailPost(c) \/ RingBufferInitPost(c)
  \/ SubmitToRingPost(c) \/ ResumeSchedulingPost(c)
  \/ SubmitExecListPost(c) \/ PrepareExecListAndSubmitPost(c)

Next ==
  \E c \in Calls :
    \/ \E o \in Op, e \in Engine : Enter(c, o, e)
    \/ Pre(c)
    \/ Original(c)
    \/ Post(c)
    \/ \E saw \in BOOLEAN : SampleRegisters(c, saw)
    \/ Decide(c)
    \/ ApplyVerdict(c)

Spec == Init /\ [][Next]_vars

-----------------------------------------------------------------------------
(* Properties.                                                             *)

\* The order in which the flags are earned survives every interleaving of
\* hooks: a ring control is enabled, work submitted or a smoke test passed
\* only on an engine whose ring is ready, and a smoke test is passed only
\* after a context was seen.  (initRingControl, updateRingTail, submitToRing
\* and evaluateTrackedEngineBootstrap; submitToRing guards on ringReady only
\* through controlReady.)
ReadinessOrder ==
  /\ controlReady \subseteq ringReady
  /\ submitted \subseteq ringReady
  /\ smokePassed \subseteq contextSeen \cap ringReady

\* Quarantine stops an engine up to calls in flight: the hooks test the flag
\* once, on entry, so a call already past the test still reaches the driver,
\* but no call slot ever does so twice for one engine, nor starts a new call.
AtMostOneLateOriginal ==
  \A e \in Tracked : \A c \in lateRan[e] :
    /\ e \in quarantined
    /\ pc[c] \in {"pre", "original"} => e \notin StoppedBy(op[c], eng[c])

\* On a real Tiger Lake only a sequencing error of the driver on RCS itself
\* quarantines RCS: a tail update before its ring is ready, or a submission
\* before its control is.  A failed smoke test, at whatever stage and however the reads
\* interleave with bring-up, never does: the V90 deferral is tested at every stage.
\* Its comment (TGL.cpp:6026-6027) says otherwise, that the later stages "will
\* re-check and quarantine only if the registers are still 0 after full init".
RcsQuarantineNeedsSequenceError ==
  [][platform.realTGL /\ "RCS" \in quarantined' \ quarantined =>
       \E c \in Calls :
         /\ eng[c] = "RCS"
         /\ \/ At(c, "updateRingTail", "pre") /\ "RCS" \notin ringReady
            \/ At(c, "submitToRing", "pre") /\ "RCS" \notin controlReady]_vars

\* Nothing forgives an engine: a quarantine, a passed smoke test and the
\* readiness they rest on are never taken back, whatever hook runs later.
VerdictsAreFinal ==
  [][/\ quarantined \subseteq quarantined'
     /\ smokePassed \subseteq smokePassed'
     /\ contextSeen \subseteq contextSeen'
     /\ ringReady \subseteq ringReady']_flags

\* The callers an engine's quarantine would have stopped and that are past
\* the test of it.
admitted == [e \in Tracked |->
  {c \in Calls : pc[c] \in {"pre", "original"} /\ e \in StoppedBy(op[c], eng[c])}]

Life == INSTANCE EngineLife WITH
  Engines <- Tracked, Callers <- Calls, seen <- contextSeen,
  ready <- ringReady, passed <- smokePassed, stopped <- quarantined

\* The hooks implement the engine life cycle: cut into their reads and writes
\* of the unlocked flags, they still let no caller through to an engine that
\* is already quarantined, pass an engine only with its context and ring, and
\* forget nothing.
ImplementsLife == Life!Spec
=============================================================================
