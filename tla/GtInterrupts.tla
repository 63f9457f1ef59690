---------------------------- MODULE GtInterrupts ----------------------------
(***************************************************************************)
(* Interrupt and error enforcement.  Gen11::start, the three timer         *)
(* callbacks it arms (v54IrqWatchdog, v60GpuHealthMonitor, v71EmrEnforcer) *)
(* and the resetGraphicsEngine hook share six registers with the driver    *)
(* they patch, and none of them holds a lock: each reads a register, tests *)
(* what it read, and writes back later.  Every read and every write is a   *)
(* step of its own here, so a written value may be stale.                  *)
(*                                                                         *)
(* A handler is a sequence of register steps, in the order of the code.    *)
(***************************************************************************)
EXTENDS Integers, Sequences

CONSTANTS
  Callbacks,    \* the callbacks there are: v60 is opt-in (-ngreenexp)
  RealTGL,      \* NGreen::isRealTGL
  ErrorClears,  \* how ERROR_GEN6 clears: "W1C" or, as V56 found, "RW"
  DriverRegs,   \* the registers the driver and the hardware disturb
  DriverQuiet,  \* the v54 tick from which the driver leaves interrupts alone
  V54Ticks,     \* v54IrqWatchdog re-arms until it ran this often (5)
  V60Ticks,     \* v60GpuHealthMonitor re-arms until it ran this often (60)
  Pool          \* thread calls the kernel can allocate; -1 for no limit

ASSUME ParameterAssumption ==
  /\ Callbacks \subseteq {"reset", "hang", "v54", "v60", "v71"}
  /\ RealTGL \in BOOLEAN
  /\ ErrorClears \in {"W1C", "RW"}
  /\ DriverQuiet \in Nat /\ V54Ticks \in Nat \ {0} /\ V60Ticks \in Nat \ {0}
  /\ Pool \in Nat \cup {-1}

\* A register is the set of its bits that are one, of those the code tests:
\* bit 31 of GFX_MSTR_IRQ, the RCS0 and BCS bits of RENDER_COPY_INTR_ENABLE,
\* the completion bits of RCS0_RSVD_INTR_MASK, and for EMR and ERROR_GEN6
\* whether every error is masked and whether one is pending.
Bits == [MSTR_IRQ    |-> {"irq"},
         RC_INTR_EN  |-> {"RCS", "BCS"},
         RCS_MASK    |-> {"completion"},
         EMR_RCS     |-> {"all"},
         EMR_BCS     |-> {"all"},
         ERROR_GEN6  |-> {"pending"}]

InterruptRegs == {"MSTR_IRQ", "RC_INTR_EN", "RCS_MASK"}
Reg == InterruptRegs \cup {"EMR_RCS", "EMR_BCS", "ERROR_GEN6"}
Value == {"irq", "RCS", "BCS", "completion", "all", "pending"}

ASSUME DriverRegsAssumption == DriverRegs \subseteq Reg

Timers == Callbacks \ {"reset", "hang"}
Threads == {"start"} \cup Callbacks

VARIABLES
  reg,    \* the registers
  pc,     \* for each thread, the index of its next step; 0 when not running
  seen,   \* what each thread read last from each register
  armed,  \* the timers that are due to fire
  ticks,  \* the static counters of v54, v60 and (hangcheckDumped) the hangcheck
  calls   \* thread calls allocated so far: no code frees one

vars == <<reg, pc, seen, armed, ticks, calls>>

-----------------------------------------------------------------------------
(* The steps of a handler.                                                 *)

Read(r)   == [do |-> "read", reg |-> r]
Fix(r)    == [do |-> "fix", reg |-> r]      \* write, if what was read is wrong
Set(r)    == [do |-> "set", reg |-> r]      \* write, whatever was read
\* Write back the errors that were read; if none were, go on `else` steps on.
Ack(else) == [do |-> "ack", else |-> else]
Still     == [do |-> "still"]               \* read again: is the error unchanged?
Arm(t)    == [do |-> "arm", timer |-> t]
Call      == [do |-> "call"]                \* the driver's own implementation
Rearm     == [do |-> "rearm"]

\* Mutant: the watchdog does not unmask the completion interrupts.
MutNoUnmask ==
  << Read("MSTR_IRQ"), Fix("MSTR_IRQ"), Read("RC_INTR_EN"), Fix("RC_INTR_EN"),
     Read("ERROR_GEN6"), Fix("ERROR_GEN6"), Rearm >>

v54IrqWatchdog ==
  << Read("MSTR_IRQ"), Fix("MSTR_IRQ"),
     Read("RC_INTR_EN"), Fix("RC_INTR_EN"),
     Read("RCS_MASK"), Fix("RCS_MASK"),
     Read("ERROR_GEN6"), Fix("ERROR_GEN6"), Rearm >>

\* The error and the RCS mask are read at the top, long before they are used.
v60GpuHealthMonitor ==
  << Read("ERROR_GEN6"), Read("EMR_RCS"), Fix("ERROR_GEN6"), Fix("EMR_RCS"),
     Read("RC_INTR_EN"), Read("RCS_MASK"), Fix("RC_INTR_EN"), Fix("RCS_MASK"),
     Rearm >>

\* Mutant: the enforcer masks the errors of RCS only.
MutEnforceRcsOnly ==
  << Read("EMR_RCS"), Fix("EMR_RCS"), Read("ERROR_GEN6"), Fix("ERROR_GEN6"), Rearm >>

v71EmrEnforcer ==
  << Read("EMR_RCS"), Read("EMR_BCS"), Fix("EMR_RCS"), Fix("EMR_BCS"),
     Read("ERROR_GEN6"), Fix("ERROR_GEN6"), Rearm >>

\* start() before the driver's own start, that start, at once after it (V65) the
\* three levels again, and then the enforcer and, with -ngreenexp, the monitor.
StartHead ==
  << Read("ERROR_GEN6"), Ack(1),
     Set("MSTR_IRQ"), Read("RC_INTR_EN"), Set("RC_INTR_EN"),
     Read("RCS_MASK"), Set("RCS_MASK"), Read("ERROR_GEN6"), Fix("ERROR_GEN6"),
     Arm("v54"),
     Call,
     Read("RC_INTR_EN"), Set("RC_INTR_EN"), Read("RCS_MASK"), Set("RCS_MASK"),
     Set("MSTR_IRQ"), Read("ERROR_GEN6"), Fix("ERROR_GEN6"),
     Arm("v71"), Arm("v60") >>

CallAt == 11        \* the places of Call and Arm("v71")
EnforcerAt == 19

V47 == << Read("MSTR_IRQ"), Fix("MSTR_IRQ") >>

\* V51: up to three attempts to clear the errors by writing them back.
ClearErrors ==
  << Read("ERROR_GEN6"), Ack(6), Read("ERROR_GEN6"), Ack(4),
     Read("ERROR_GEN6"), Ack(2), Read("ERROR_GEN6") >>

\* V55 (five more attempts), V57 (clear by zero, else by ones) and mask all.
SpoofedClear ==
  << Read("ERROR_GEN6"), Ack(10), Read("ERROR_GEN6"), Ack(8), Read("ERROR_GEN6"),
     Ack(6), Read("ERROR_GEN6"), Ack(4), Read("ERROR_GEN6"), Ack(2),
     Read("ERROR_GEN6"),
     Read("ERROR_GEN6"), Set("ERROR_GEN6"), Still, Ack(1),
     Set("EMR_RCS"), Set("EMR_BCS") >>

StartTail == V47 \o ClearErrors \o (IF RealTGL THEN <<>> ELSE SpoofedClear)

start == StartHead \o StartTail

resetGraphicsEngine ==
  << Read("ERROR_GEN6"), Fix("ERROR_GEN6"), Set("EMR_RCS"), Set("EMR_BCS"),
     Call,
     Read("ERROR_GEN6"), Fix("ERROR_GEN6"), Set("EMR_RCS"), Set("EMR_BCS") >>

\* V47 again, in the one call of forceWake that dumps the state of a hung GPU.
Hangcheck == V47

Program == [start |-> start, reset |-> resetGraphicsEngine, hang |-> Hangcheck,
            v54 |-> v54IrqWatchdog, v60 |-> v60GpuHealthMonitor,
            v71 |-> v71EmrEnforcer]

-----------------------------------------------------------------------------
Done == Len(start) + 1     \* start() has returned
DriverStarted == pc["start"] >= CallAt

At(t, what) == /\ pc[t] \in 1 .. Len(Program[t])
               /\ Program[t][pc[t]].do = what

Cur(t) == Program[t][pc[t]]

\* n steps on; a callback or a hook that came to its end is not running.
Advance(t, n) ==
  pc' = [pc EXCEPT ![t] = IF pc[t] + n <= Len(Program[t]) \/ t = "start"
                          THEN pc[t] + n ELSE 0]

NothingSeen == [r \in Reg |-> {}]

Init ==
  /\ \E ones \in SUBSET Reg : reg = [r \in Reg |-> IF r \in ones THEN Bits[r] ELSE {}]
  /\ pc = [t \in Threads |-> IF t = "start" THEN 1 ELSE 0]
  /\ seen = [t \in Threads |-> NothingSeen]
  /\ armed = {}
  /\ ticks = [t \in {"v54", "v60", "hang"} |-> 0]
  /\ calls = 0

ReadReg(t) ==
  /\ At(t, "read")
  /\ seen' = [seen EXCEPT ![t][Cur(t).reg] = reg[Cur(t).reg]]
  /\ Advance(t, 1)
  /\ UNCHANGED <<reg, armed, ticks, calls>>

\* Mutant: tier 1 is written with the bit that was found missing only.
MutTargetDropsBcs(r, v) ==
  CASE r = "RC_INTR_EN" -> v \cup {"RCS"}
    [] r \in {"RCS_MASK", "ERROR_GEN6"} -> {}
    [] OTHER -> Bits[r]

\* The value written to r by a thread that read v from it: for the tier-1
\* enables and the tier-2 mask, what it read with the wanted bits set or cleared.
Target(r, v) ==
  CASE r = "RC_INTR_EN" -> v \cup {"RCS", "BCS"}
    [] r = "RCS_MASK" -> v \ {"completion"}
    [] r = "ERROR_GEN6" -> {}
    [] OTHER -> Bits[r]

\* The test before the write.  v54IrqWatchdog looks at the RCS0 bit alone.
NeedsFix(t, r, v) ==
  IF t = "v54" /\ r = "RC_INTR_EN" THEN "RCS" \notin v ELSE v # Target(r, v)

\* What the hardware makes of writing v to r.
Write(r, v) ==
  reg' = [reg EXCEPT ![r] = IF r = "ERROR_GEN6" /\ ErrorClears = "W1C"
                            THEN @ \ v ELSE v]

Forget(t, r) == seen' = [seen EXCEPT ![t][r] = {}]

FixReg(t) ==
  /\ At(t, "fix")
  /\ LET r == Cur(t).reg
     IN /\ IF NeedsFix(t, r, seen[t][r])
           THEN Write(r, Target(r, seen[t][r]))
           ELSE UNCHANGED reg
        /\ Forget(t, r)
  /\ Advance(t, 1)
  /\ UNCHANGED <<armed, ticks, calls>>

SetReg(t) ==
  /\ At(t, "set")
  /\ LET r == Cur(t).reg
     IN /\ Write(r, Target(r, seen[t][r]))
        /\ IF r = "ERROR_GEN6" THEN UNCHANGED seen ELSE Forget(t, r)
  /\ Advance(t, 1)
  /\ UNCHANGED <<armed, ticks, calls>>

AckErrors(t) ==
  /\ At(t, "ack")
  /\ IF seen[t]["ERROR_GEN6"] # {}
     THEN Write("ERROR_GEN6", seen[t]["ERROR_GEN6"]) /\ Advance(t, 1)
     ELSE UNCHANGED reg /\ Advance(t, Cur(t).else)
  /\ Forget(t, "ERROR_GEN6")
  /\ UNCHANGED <<armed, ticks, calls>>

StillPending(t) ==
  /\ At(t, "still")
  /\ seen' = [seen EXCEPT ![t]["ERROR_GEN6"] = @ \cap reg["ERROR_GEN6"]]
  /\ Advance(t, 1)
  /\ UNCHANGED <<reg, armed, ticks, calls>>

\* thread_call_allocate and thread_call_enter_delayed: a timer that cannot be
\* allocated is silently left out.
ArmTimer(u) ==
  IF calls # Pool
  THEN /\ armed' = armed \cup {u}
       /\ calls' = IF Pool = -1 THEN calls ELSE calls + 1
  ELSE UNCHANGED <<armed, calls>>

StartArms ==
  /\ At("start", "arm")
  /\ IF Cur("start").timer \in Timers
     THEN ArmTimer(Cur("start").timer) ELSE UNCHANGED <<armed, calls>>
  /\ Advance("start", 1)
  /\ UNCHANGED <<reg, seen, ticks>>

\* A completion interrupt of RCS reaches the driver.
Deliverable == /\ reg["MSTR_IRQ"] # {}
               /\ "RCS" \in reg["RC_INTR_EN"]
               /\ reg["RCS_MASK"] = {}

\* The driver's own start() returns once its first submission completed: V53
\* found that it hangs for as long as no completion interrupt can be taken.
OriginalStart ==
  /\ At("start", "call") /\ Deliverable
  /\ Advance("start", 1)
  /\ UNCHANGED <<reg, seen, armed, ticks, calls>>

\* The driver resets the engines whenever it wants, and calls forceWake often
\* enough to run the hangcheck, once.
HookBegins(h) ==
  /\ h \in {"reset", "hang"} \cap Callbacks
  /\ DriverStarted /\ pc[h] = 0
  /\ h = "hang" => ticks["hang"] = 0
  /\ ticks' = IF h = "hang" THEN [ticks EXCEPT !["hang"] = 1] ELSE ticks
  /\ pc' = [pc EXCEPT ![h] = 1]
  /\ UNCHANGED <<reg, seen, armed, calls>>

\* What the driver's reset does to the registers are steps of DriverWrites.
OriginalReset ==
  /\ At("reset", "call")
  /\ Advance("reset", 1)
  /\ UNCHANGED <<reg, seen, armed, ticks, calls>>

TimerFires(t) ==
  /\ t \in armed /\ pc[t] = 0
  /\ armed' = armed \ {t}
  /\ pc' = [pc EXCEPT ![t] = 1]
  /\ ticks' = IF t = "v71" THEN ticks ELSE [ticks EXCEPT ![t] = @ + 1]
  /\ UNCHANGED <<reg, seen, calls>>

\* Mutant: one tick too few.
MutKeepsTicking(t) == t = "v54" => ticks[t] < V54Ticks - 1

\* Mutant: the enforcer covers a window only, as its first version (V71) did.
MutEnforcerStops(t) == /\ t = "v54" => ticks[t] < V54Ticks
                       /\ t = "v60" => ticks[t] < V60Ticks
                       /\ t = "v71" => pc["start"] < Done

\* v71EmrEnforcer re-arms for ever, the others until their counter is full.
KeepsTicking(t) == /\ t = "v54" => ticks[t] < V54Ticks
                   /\ t = "v60" => ticks[t] < V60Ticks

TimerEnds(t) ==
  /\ At(t, "rearm")
  /\ IF KeepsTicking(t) THEN ArmTimer(t) ELSE UNCHANGED <<armed, calls>>
  /\ Advance(t, 1)
  /\ UNCHANGED <<reg, seen, ticks>>

\* The monitor first looks whether the MMIO mapping is there, and if not ends its
\* chain.  No code here takes the mapping down; whoever may have is left open.
MonitorBails ==
  /\ pc["v60"] = 1
  /\ pc' = [pc EXCEPT !["v60"] = 0]
  /\ UNCHANGED <<reg, seen, armed, ticks, calls>>

\* From the moment it is started the driver, or the hardware, may disturb a
\* register behind the back of the hooks (V72: "Apple writes EMR via direct
\* MMIO"); the hardware raises errors, it does not take them back.
DriverWrites(r, v) ==
  /\ DriverStarted
  /\ r \in DriverRegs /\ v # reg[r]
  /\ r = "ERROR_GEN6" => v # {}
  /\ r \in InterruptRegs => ticks["v54"] < DriverQuiet
  /\ reg' = [reg EXCEPT ![r] = v]
  /\ UNCHANGED <<pc, seen, armed, ticks, calls>>

\* One step of a thread of the plugin, from a read to the end of a callback.
Step(t) ==
  \/ ReadReg(t) \/ FixReg(t) \/ SetReg(t) \/ AckErrors(t) \/ StillPending(t)
  \/ t = "start" /\ (StartArms \/ OriginalStart)
  \/ t = "reset" /\ OriginalReset
  \/ t = "v60" /\ MonitorBails
  \/ t \in Timers /\ (TimerFires(t) \/ TimerEnds(t))

Next ==
  \/ \E t \in Threads : Step(t)
  \/ \E h \in {"reset", "hang"} : HookBegins(h)
  \/ \E r \in Reg : \E v \in SUBSET Bits[r] : DriverWrites(r, v)

Spec == Init /\ [][Next]_vars

\* A thread that runs goes on running, and a timer that is due fires; nothing
\* is assumed of when the driver writes or resets.
FairSpec == Spec /\ \A t \in Threads : WF_vars(Step(t))

-----------------------------------------------------------------------------
(* Properties.                                                             *)

Registers == {f \in [Reg -> SUBSET Value] : \A r \in Reg : f[r] \subseteq Bits[r]}

\* Registers, what was read of them, the program counters and the timers of
\* start() and its callbacks are well formed; only opted-in timers are armed.
TypeOK ==
  /\ reg \in Registers
  /\ pc \in [Threads -> Nat]
  /\ seen \in [Threads -> Registers]
  /\ armed \subseteq Timers
  /\ ticks \in [{"v54", "v60", "hang"} -> Nat]
  /\ calls \in Nat

\* The bits of r that keep interrupts or errors from being as the plugin wants
\* them.
Wrong(r) == IF r \in {"RCS_MASK", "ERROR_GEN6"} THEN reg[r] ELSE Bits[r] \ reg[r]

PluginStep == pc' # pc

\* However stale the value a thread read, what it writes back never undoes the
\* work of another: no step of start(), of a callback or of the reset hook
\* disables an interrupt the plugin wants or unmasks an error.
NeverUndone ==
  [][PluginStep => \A r \in Reg \ {"ERROR_GEN6"} : Wrong(r)' \subseteq Wrong(r)]_vars

\* From before the driver's start(), which may wait for an interrupt that is
\* not delivered, until its last tick the watchdog is due or running: nothing
\* but a kernel out of thread calls breaks the chain of one-shot timers.
WatchdogCovers ==
  /\ "v54" \in Callbacks /\ calls # Pool
  /\ DriverStarted /\ ticks["v54"] < V54Ticks
  => "v54" \in armed \/ pc["v54"] # 0

\* From the point where start() arms it the enforcer is due or running for ever
\* ("Re-arm FOREVER"): again only a kernel out of thread calls, which no
\* callback frees, ends the chain.
EnforcerCovers ==
  /\ "v71" \in Callbacks /\ calls # Pool
  /\ pc["start"] > EnforcerAt
  => "v71" \in armed \/ pc["v71"] # 0

\* start() returns if the driver disables interrupts only before the last tick
\* of the watchdog begins, whatever it did to the three levels before.
StartReturns == <>(pc["start"] = Done)

\* Each engine's errors are masked again and again, and pending errors cleared,
\* for ever (v71EmrEnforcer), however often the driver unmasks them.
ErrorsKeptMasked ==
  /\ []<>(Wrong("EMR_RCS") = {})
  /\ []<>(Wrong("EMR_BCS") = {})
  /\ []<>(Wrong("ERROR_GEN6") = {})
=============================================================================
