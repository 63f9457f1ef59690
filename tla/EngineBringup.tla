---------------------------- MODULE EngineBringup ----------------------------
(***************************************************************************)
(* EngineTracker driven by a well-behaved driver: every call slot is a     *)
(* driver thread that brings one engine up by calling the hooked entry     *)
(* points in the order of its script, on hardware whose ring registers     *)
(* become nonzero once the driver has programmed them.  The scripts are    *)
(* the two orders the hooks name: initRingRegisters before initRingControl *)
(* and, with scheduler 5, after it.                                        *)
(*                                                                         *)
(* Beside it stands the driver that keeps to no script: it makes any call  *)
(* at any time, on hardware that answers anything (EngineTracker itself).  *)
(***************************************************************************)
EXTENDS EngineTracker, Naturals, Sequences

CONSTANTS
  EngineOf,    \* the engine each driver thread brings up
  Scripts,     \* the call sequences a driver thread may follow
  FreeEngines  \* the engines of the driver that keeps to no script

\* In script s an operation of first comes before any use.
Before(s, first, use) ==
  \A i \in 1 .. Len(s) : s[i] = use => \E j \in 1 .. i - 1 : s[j] \in first

RingOps == {"initRingRegisters", "initRingControlOn"}

\* A driver that sets a ring up before it moves its tail, enables its control
\* before it submits to it, and does not disable it again.
WellBehaved(s) ==
  /\ Before(s, RingOps, "updateRingTail")
  /\ Before(s, {"initRingControlOn"}, "submitToRing")
  /\ \A i \in 1 .. Len(s) : s[i] # "initRingControlOff"

ASSUME DriverAssumption ==
  /\ EngineOf \in [Calls -> ContextEngines]
  /\ Scripts \subseteq Seq(Op)
  /\ \A s \in Scripts : WellBehaved(s)
  /\ FreeEngines \subseteq ContextEngines

VARIABLES
  free,        \* the driver keeps to no script
  script,      \* the calls each driver thread has still to make
  programmed,  \* engines whose START and CTL the driver has written
  active       \* engines with a nonzero tail, head or context status

driver == <<free, script, programmed, active>>

BInit ==
  /\ Init
  /\ free \in BOOLEAN
  /\ script \in [Calls -> IF free THEN {<<>>} ELSE Scripts]
  /\ programmed = {}
  /\ active = {}

\* The driver makes its next call; a blocked hook returns at once.
CallNext(c) ==
  /\ pc[c] = "idle" /\ script[c] # <<>>
  /\ LET o == Head(script[c])
         e == IF o \in StreamerOps THEN "RCS" ELSE EngineOf[c]
     IN \/ Enter(c, o, e)
        \/ Blocked(o, e) /\ UNCHANGED vars
  /\ script' = [script EXCEPT ![c] = Tail(@)]
  /\ UNCHANGED <<free, programmed, active>>

\* The driver's originals program the ring and then move its tail.
RunOriginal(c) ==
  /\ Original(c)
  /\ programmed' = IF op[c] = "initRingRegisters"
                   THEN programmed \cup {eng[c]} ELSE programmed
  /\ active' = IF op[c] = "updateRingTail" THEN active \cup {eng[c]} ELSE active
  /\ UNCHANGED <<free, script>>

HookStep(c) ==
  /\ \/ Pre(c) \/ Post(c) \/ Decide(c) \/ ApplyVerdict(c)
     \/ SampleRegisters(c, eng[c] \in programmed \cap active)
  /\ UNCHANGED driver

Step(c) == CallNext(c) \/ RunOriginal(c) \/ HookStep(c)

FreeCall ==
  /\ free
  /\ Next
  /\ \A c \in Calls : eng'[c] \in FreeEngines \cup {"None"}
  /\ UNCHANGED driver

Finished ==
  /\ ~free
  /\ \A c \in Calls : pc[c] = "idle" /\ script[c] = <<>>
  /\ UNCHANGED <<vars, driver>>

BNext == (~free /\ \E c \in Calls : Step(c)) \/ FreeCall \/ Finished

BSpec == BInit /\ [][BNext]_<<vars, driver>>

\* Driver threads keep running: a hook always returns to its caller.
FairBSpec ==
  BSpec /\ \A c \in Calls : WF_<<vars, driver>>(~free /\ Step(c))

-----------------------------------------------------------------------------
\* A well-behaved bring-up of RCS on a real Tiger Lake is never quarantined,
\* whichever order the driver programs the ring in and whatever the other
\* engine's thread does meanwhile: this is what the V90 deferral is for.
RcsNeverQuarantined == platform.realTGL /\ ~free => "RCS" \notin quarantined

\* And it is not deferred for ever: RCS passes its smoke test at the latest
\* when its tail is updated.
RcsEventuallyPasses == platform.realTGL /\ platform.mmioReady /\ ~free ~> "RCS" \in smokePassed
=============================================================================
