------------------------- MODULE GtInterruptsProofs -------------------------
(***************************************************************************)
(* What GtInterrupts guarantees for every choice of callbacks, counters    *)
(* and error-clearing semantics: its state is well typed, and no write of  *)
(* a stale value undoes what another thread enforced.                      *)
(***************************************************************************)
EXTENDS GtInterrupts, TLAPS

StepRec ==
  [do : {"read", "fix", "set"}, reg : Reg] \cup [do : {"ack"}, else : Nat]
  \cup [do : {"arm"}, timer : {"v54", "v60", "v71"}]
  \cup [do : {"still", "call", "rearm"}]

\* Every step of every program is a step record over registers and values that
\* exist.
LEMMA ProgramTyped ==
  /\ \A t \in Threads : Program[t] \in Seq(StepRec)
  /\ StartHead \in Seq(StepRec) /\ StartTail \in Seq(StepRec)
<1> USE DEF StepRec, Read, Fix, Set, Ack, Still, Arm, Call, Rearm, Reg, InterruptRegs
<1>1. v54IrqWatchdog \in Seq(StepRec)
  BY DEF v54IrqWatchdog
<1>2. v60GpuHealthMonitor \in Seq(StepRec)
  BY DEF v60GpuHealthMonitor
<1>3. v71EmrEnforcer \in Seq(StepRec)
  BY DEF v71EmrEnforcer
<1>4. resetGraphicsEngine \in Seq(StepRec)
  BY DEF resetGraphicsEngine
<1>5. StartHead \in Seq(StepRec)
  BY DEF StartHead
<1>6. V47 \in Seq(StepRec)
  BY DEF V47
<1>7. ClearErrors \in Seq(StepRec)
  BY DEF ClearErrors
<1>8. SpoofedClear \in Seq(StepRec)
  BY DEF SpoofedClear
<1>9. <<>> \in Seq(StepRec)
  OBVIOUS
<1>10. StartTail \in Seq(StepRec)
  BY <1>6, <1>7, <1>8, <1>9, ParameterAssumption DEF StartTail
<1>11. Hangcheck \in Seq(StepRec)
  BY <1>6 DEF Hangcheck
<1>12. start \in Seq(StepRec)
  BY <1>5, <1>10 DEF start
<1> QED
  BY <1>1, <1>2, <1>3, <1>4, <1>5, <1>10, <1>11, <1>12, ParameterAssumption
  DEF Program, Threads

\* The facts about single steps of the two programs the watchdog depends on.
LEMMA WatchdogProgram ==
  /\ Len(v54IrqWatchdog) = 9
  /\ v54IrqWatchdog[9].do = "rearm"
  /\ \A i \in 1 .. 8 : v54IrqWatchdog[i].do \in {"read", "fix"}
  BY DEF v54IrqWatchdog, Read, Fix, Rearm

\* A concatenation starts with its first part.
LEMMA ConcatPrefix ==
  ASSUME NEW S, NEW s \in Seq(S), NEW u \in Seq(S), NEW i \in 1 .. Len(s)
  PROVE  (s \o u)[i] = s[i]
  OBVIOUS

\* Where start() arms the watchdog and the enforcer: no step before the driver's
\* start, or from there to the arming of the enforcer, is jumped over.
LEMMA StartProgram ==
  /\ start[10].do = "arm" /\ start[10].timer = "v54"
  /\ start[19].do = "arm" /\ start[19].timer = "v71"
  /\ \A i \in 1 .. 19 : start[i].do = "ack" => start[i].else = 1
<1>1. Len(StartHead) = 20 /\ StartHead[10] = Arm("v54") /\ StartHead[19] = Arm("v71")
  BY DEF StartHead
<1>2. \A i \in 1 .. 19 : StartHead[i].do = "ack" => StartHead[i].else = 1
  BY DEF StartHead, Read, Fix, Set, Ack, Arm, Call
<1>3. \A i \in 1 .. 19 : start[i] = StartHead[i]
  <2> TAKE i \in 1 .. 19
  <2>1. StartHead \in Seq(StepRec) /\ StartTail \in Seq(StepRec)
    BY ProgramTyped
  <2>2. i \in 1 .. Len(StartHead)
    BY <1>1
  <2>3. (StartHead \o StartTail)[i] = StartHead[i]
    BY <2>1, <2>2, ConcatPrefix, Zenon
  <2> QED
    BY <2>3 DEF start
<1> QED
  BY <1>1, <1>2, <1>3 DEF Arm

-----------------------------------------------------------------------------
\* Only steps of a thread move its program counter, and they keep it a number.
LEMMA AdvanceTyped ==
  ASSUME TypeOK, NEW t \in Threads, NEW n \in Nat, Advance(t, n)
  PROVE  pc' \in [Threads -> Nat]
  BY DEF TypeOK, Advance

\* A step of a program is a step record.
LEMMA CurTyped ==
  ASSUME NEW t \in Threads, NEW what, At(t, what)
  PROVE  Cur(t) \in StepRec /\ Cur(t).do = what
  BY ProgramTyped DEF At, Cur

\* What a thread writes is a value of the register.
LEMMA WriteTyped ==
  ASSUME reg \in Registers, NEW r \in Reg, NEW v, v \subseteq Bits[r],
         Write(r, v)
  PROVE  reg' \in Registers
  <1>1. \A q \in Reg : Bits[q] \subseteq Value
    BY DEF Bits, Reg, InterruptRegs, Value
  <1> QED
    BY <1>1 DEF Registers, Write

\* What a fix writes is a value of the register.
LEMMA TargetTyped ==
  ASSUME NEW r \in Reg, NEW v, v \subseteq Bits[r]
  PROVE  Target(r, v) \subseteq Bits[r]
  BY DEF Target, Bits, Reg, InterruptRegs

\* A thread that reads a register remembers a value of the register.
LEMMA SeenTyped ==
  ASSUME TypeOK, NEW t \in Threads, NEW r \in Reg, NEW v, v \subseteq Bits[r],
         seen' = [seen EXCEPT ![t][r] = v]
  PROVE  seen' \in [Threads -> Registers]
  <1>1. [seen[t] EXCEPT ![r] = v] \in Registers
    BY DEF TypeOK, Registers, Bits, Reg, InterruptRegs, Value
  <1> QED
    BY <1>1 DEF TypeOK

\* Forgetting what was read leaves well-typed memories.
LEMMA ForgetTyped ==
  ASSUME TypeOK, NEW t \in Threads, NEW r \in Reg, Forget(t, r)
  PROVE  seen' \in [Threads -> Registers]
  <1>1. [seen[t] EXCEPT ![r] = {}] \in Registers
    BY DEF TypeOK, Registers
  <1> QED
    BY <1>1 DEF TypeOK, Forget

\* The memory of a thread that has read nothing is well typed.
LEMMA NothingSeenTyped == NothingSeen \in Registers
  BY DEF NothingSeen, Registers

\* The initial states are well typed.
LEMMA InitTypeOK == Init => TypeOK
  <1> SUFFICES ASSUME Init PROVE TypeOK
    OBVIOUS
  <1>1. \A q \in Reg : Bits[q] \subseteq Value
    BY DEF Bits, Reg, InterruptRegs, Value
  <1>2. reg \in Registers
    BY <1>1 DEF Init, Registers
  <1> QED
    BY <1>2, NothingSeenTyped DEF Init, TypeOK

\* Every step of a thread of the plugin preserves the types.
LEMMA ThreadTypeOK ==
  ASSUME TypeOK, NEW t \in Threads, Step(t)
  PROVE  TypeOK'
  <1>1. CASE ReadReg(t)
    <2>1. Cur(t).reg \in Reg
      BY <1>1, CurTyped DEF ReadReg, StepRec
    <2>2. reg[Cur(t).reg] \subseteq Bits[Cur(t).reg]
      BY <2>1 DEF TypeOK, Registers
    <2>3. seen' \in [Threads -> Registers]
      BY <1>1, <2>1, <2>2, SeenTyped, Zenon DEF ReadReg
    <2>4. pc' \in [Threads -> Nat]
      BY <1>1, AdvanceTyped DEF ReadReg
    <2> QED
      BY <1>1, <2>3, <2>4 DEF ReadReg, TypeOK
  <1>2. CASE FixReg(t) \/ SetReg(t)
    <2>1. Cur(t).reg \in Reg
      BY <1>2, CurTyped DEF FixReg, SetReg, StepRec
    <2> DEFINE r == Cur(t).reg
    <2>2. seen[t][r] \subseteq Bits[r]
      BY <2>1 DEF TypeOK, Registers
    <2>3. reg' \in Registers
      <3>1. Target(r, seen[t][r]) \subseteq Bits[r]
        BY <2>1, <2>2, TargetTyped
      <3>2. UNCHANGED reg \/ Write(r, Target(r, seen[t][r]))
        BY <1>2 DEF FixReg, SetReg
      <3> QED
        BY <2>1, <3>1, <3>2, WriteTyped DEF TypeOK
    <2>4. seen' \in [Threads -> Registers]
      <3>1. CASE UNCHANGED seen
        BY <3>1 DEF TypeOK
      <3>2. CASE Forget(t, r)
        BY <2>1, <3>2, ForgetTyped
      <3> QED
        BY <1>2, <3>1, <3>2 DEF FixReg, SetReg
    <2>5. pc' \in [Threads -> Nat]
      BY <1>2, AdvanceTyped DEF FixReg, SetReg
    <2> QED
      BY <1>2, <2>3, <2>4, <2>5 DEF FixReg, SetReg, TypeOK
  <1>3. CASE AckErrors(t)
    <2>1. Cur(t).else \in Nat
      BY <1>3, CurTyped DEF AckErrors, StepRec
    <2>2. "ERROR_GEN6" \in Reg
      BY DEF Reg
    <2>3. seen[t]["ERROR_GEN6"] \subseteq Bits["ERROR_GEN6"]
      BY <2>2 DEF TypeOK, Registers
    <2>4. reg' \in Registers
      BY <1>3, <2>2, <2>3, WriteTyped DEF AckErrors, TypeOK
    <2>5. seen' \in [Threads -> Registers]
      BY <1>3, <2>2, ForgetTyped DEF AckErrors
    <2>6. pc' \in [Threads -> Nat]
      BY <1>3, <2>1, AdvanceTyped DEF AckErrors
    <2> QED
      BY <1>3, <2>4, <2>5, <2>6 DEF AckErrors, TypeOK
  <1>4. CASE StillPending(t)
    <2>1. "ERROR_GEN6" \in Reg
      BY DEF Reg
    <2>2. seen[t]["ERROR_GEN6"] \cap reg["ERROR_GEN6"] \subseteq Bits["ERROR_GEN6"]
      BY <2>1 DEF TypeOK, Registers
    <2>3. seen' = [seen EXCEPT ![t]["ERROR_GEN6"] =
                     seen[t]["ERROR_GEN6"] \cap reg["ERROR_GEN6"]]
      BY <1>4 DEF StillPending, TypeOK
    <2>4. seen' \in [Threads -> Registers]
      BY <2>1, <2>2, <2>3, SeenTyped, Zenon
    <2>5. pc' \in [Threads -> Nat]
      BY <1>4, AdvanceTyped DEF StillPending
    <2> QED
      BY <1>4, <2>4, <2>5 DEF StillPending, TypeOK
  <1>5. CASE t = "start" /\ (StartArms \/ OriginalStart)
    <2>1. pc' \in [Threads -> Nat]
      BY <1>5, AdvanceTyped DEF StartArms, OriginalStart
    <2> QED
      BY <1>5, <2>1, ParameterAssumption
      DEF StartArms, OriginalStart, ArmTimer, TypeOK
  <1>6. CASE t = "reset" /\ OriginalReset
    <2>1. pc' \in [Threads -> Nat]
      BY <1>6, AdvanceTyped DEF OriginalReset
    <2> QED
      BY <1>6, <2>1 DEF OriginalReset, TypeOK
  <1>7. CASE t \in Timers /\ TimerFires(t)
    BY <1>7, ParameterAssumption DEF TimerFires, TypeOK, Timers
  <1>8. CASE t \in Timers /\ TimerEnds(t)
    <2>1. pc' \in [Threads -> Nat]
      BY <1>8, AdvanceTyped DEF TimerEnds
    <2> QED
      BY <1>8, <2>1, ParameterAssumption DEF TimerEnds, ArmTimer, TypeOK
  <1>9. CASE t = "v60" /\ MonitorBails
    BY <1>9 DEF MonitorBails, TypeOK
  <1> QED
    BY <1>1, <1>2, <1>3, <1>4, <1>5, <1>6, <1>7, <1>8, <1>9 DEF Step

\* And so does every step of the driver.
LEMMA StepTypeOK == TypeOK /\ [Next]_vars => TypeOK'
  <1> SUFFICES ASSUME TypeOK, [Next]_vars PROVE TypeOK'
    OBVIOUS
  <1>1. CASE UNCHANGED vars
    BY <1>1 DEF vars, TypeOK
  <1>2. CASE \E t \in Threads : Step(t)
    BY <1>2, ThreadTypeOK
  <1>3. ASSUME NEW h \in {"reset", "hang"}, HookBegins(h) PROVE TypeOK'
    BY <1>3, Zenon DEF HookBegins, TypeOK
  <1>4. ASSUME NEW r \in Reg, NEW v \in SUBSET Bits[r], DriverWrites(r, v)
        PROVE  TypeOK'
    <2>1. \A q \in Reg : Bits[q] \subseteq Value
      BY DEF Bits, Reg, InterruptRegs, Value
    <2>2. reg' \in Registers
      BY <1>4, <2>1 DEF DriverWrites, TypeOK, Registers
    <2> QED
      BY <1>4, <2>2 DEF DriverWrites, TypeOK
  <1> QED
    BY <1>1, <1>2, <1>3, <1>4 DEF Next

\* The registers, and what each thread remembers of them, hold only bits the
\* register has.
THEOREM GtTyped == Spec => []TypeOK
  BY InitTypeOK, StepTypeOK, PTL DEF Spec

-----------------------------------------------------------------------------
\* A write of Target leaves nothing wrong with its register, and a write to one
\* register leaves the others alone.
LEMMA WriteUndoesNothing ==
  ASSUME TypeOK, NEW r \in Reg, NEW v, v \subseteq Bits[r],
         Write(r, Target(r, v)), NEW q \in Reg \ {"ERROR_GEN6"}
  PROVE  Wrong(q)' \subseteq Wrong(q)
  <1>1. CASE q = r
    BY <1>1 DEF Write, Target, Wrong, TypeOK, Registers, Bits, Reg, InterruptRegs
  <1>2. CASE q # r
    BY <1>2 DEF Write, Wrong, TypeOK, Registers
  <1> QED
    BY <1>1, <1>2

\* Clearing error bits leaves the masks and enables alone.
LEMMA AckUndoesNothing ==
  ASSUME TypeOK, NEW v, Write("ERROR_GEN6", v), NEW q \in Reg \ {"ERROR_GEN6"}
  PROVE  Wrong(q)' \subseteq Wrong(q)
  BY DEF Write, Wrong, TypeOK, Registers

\* A step that leaves the registers alone undoes nothing.
LEMMA StutterUndoesNothing ==
  ASSUME UNCHANGED reg, NEW q \in Reg
  PROVE  Wrong(q)' \subseteq Wrong(q)
  BY DEF Wrong

\* No step of a thread of the plugin makes a register wrong.
LEMMA ThreadUndoesNothing ==
  ASSUME TypeOK, NEW t \in Threads, Step(t), NEW q \in Reg \ {"ERROR_GEN6"}
  PROVE  Wrong(q)' \subseteq Wrong(q)
  <1>1. CASE FixReg(t) \/ SetReg(t)
    <2>1. Cur(t).reg \in Reg
      BY <1>1, CurTyped DEF FixReg, SetReg, StepRec
    <2>2. PICK r \in Reg : /\ r = Cur(t).reg
                           /\ UNCHANGED reg \/ Write(r, Target(r, seen[t][r]))
      BY <1>1, <2>1 DEF FixReg, SetReg
    <2>3. PICK v : v = seen[t][r]
      OBVIOUS
    <2>4. v \subseteq Bits[r]
      BY <2>3 DEF TypeOK, Registers
    <2> QED
      BY <2>2, <2>3, <2>4, WriteUndoesNothing, StutterUndoesNothing
  <1>2. CASE AckErrors(t)
    BY <1>2, AckUndoesNothing, StutterUndoesNothing DEF AckErrors
  <1>3. CASE UNCHANGED reg
    BY <1>3, StutterUndoesNothing
  <1> QED
    BY <1>1, <1>2, <1>3
    DEF Step, ReadReg, StillPending, StartArms, OriginalStart, OriginalReset,
        MonitorBails, TimerFires, TimerEnds

\* NeverUndone, for any set of callbacks, any counters and either way of
\* clearing errors.
THEOREM StaleWritesUndoNothing == Spec => NeverUndone
  <1> DEFINE Undoes == \E q \in Reg \ {"ERROR_GEN6"} : ~(Wrong(q)' \subseteq Wrong(q))
  <1>1. TypeOK /\ [Next]_vars => [PluginStep => ~Undoes]_vars
    <2> SUFFICES ASSUME TypeOK, Next, PluginStep,
                        NEW q \in Reg \ {"ERROR_GEN6"}
                 PROVE  Wrong(q)' \subseteq Wrong(q)
      OBVIOUS
    <2>1. CASE \E t \in Threads : Step(t)
      BY <2>1, ThreadUndoesNothing
    <2>2. CASE \E h \in {"reset", "hang"} : HookBegins(h)
      BY <2>2, StutterUndoesNothing DEF HookBegins
    <2>3. CASE \E r \in Reg : \E v \in SUBSET Bits[r] : DriverWrites(r, v)
      BY <2>3 DEF DriverWrites, PluginStep
    <2> QED
      BY <2>1, <2>2, <2>3 DEF Next
  <1>2. [PluginStep => ~Undoes]_vars
          => [PluginStep => \A r \in Reg \ {"ERROR_GEN6"} :
                Wrong(r)' \subseteq Wrong(r)]_vars
    OBVIOUS
  <1> QED
    BY <1>1, <1>2, GtTyped, PTL DEF Spec, NeverUndone

-----------------------------------------------------------------------------
\* A thread moves no program counter but its own, and disarms no timer but
\* itself.
LEMMA StepFrame ==
  ASSUME TypeOK, NEW t \in Threads, Step(t), NEW u \in Threads, u # t
  PROVE  /\ pc'[u] = pc[u]
         /\ u \in armed => u \in armed'
         /\ u = "v54" => ticks'[u] = ticks[u]
  BY DEF Step, TypeOK, ReadReg, FixReg, SetReg, AckErrors, StillPending,
         StartArms, OriginalStart, OriginalReset, MonitorBails, TimerFires,
         TimerEnds, ArmTimer, Advance, Timers

\* A kernel that ran out of thread calls stays out of them: none is freed.
LEMMA PoolStaysEmpty == [Next]_vars /\ calls = Pool => calls' = Pool
  BY DEF Next, vars, Step, ReadReg, FixReg, SetReg, AckErrors, StillPending,
         StartArms, OriginalStart, OriginalReset, MonitorBails, TimerFires,
         TimerEnds, ArmTimer, HookBegins, DriverWrites

\* The step of start() by which the driver is first called arms the watchdog.
LEMMA StartCovers ==
  ASSUME TypeOK, "v54" \in Callbacks, calls' # Pool, Step("start"),
         ~DriverStarted, DriverStarted'
  PROVE  "v54" \in armed'
  <1>0. "start" \in Threads /\ Program["start"] = start /\ pc["start"] \in Nat
    BY DEF Threads, Program, TypeOK
  <1>1. pc["start"] <= 10 /\ pc'["start"] >= 11
    BY <1>0 DEF DriverStarted, CallAt
  <1>2. "start" \notin Timers
    BY ParameterAssumption DEF Timers
  <1>3. /\ pc["start"] \in 1 .. Len(start)
        /\ \/ pc'["start"] = pc["start"] + 1
           \/ start[pc["start"]].do = "ack"
              /\ pc'["start"] = pc["start"] + start[pc["start"]].else
    BY <1>0, <1>2 DEF Step, TypeOK, ReadReg, FixReg, SetReg, AckErrors,
       StillPending, StartArms, OriginalStart, Advance, At, Cur
  <1>4. pc["start"] = 10
    <2>1. pc["start"] \in 1 .. 10
      BY <1>0, <1>1, <1>3, SMTT(30)
    <2>2. start[pc["start"]].do = "ack" => start[pc["start"]].else = 1
      BY <2>1, StartProgram
    <2>3. pc'["start"] = pc["start"] + 1
      BY <1>3, <2>2
    <2> QED
      BY <1>0, <1>1, <2>3
  <1>5. StartArms
    BY <1>0, <1>2, <1>4, StartProgram
    DEF Step, ReadReg, FixReg, SetReg, AckErrors, StillPending, OriginalStart, At
  <1>6. Cur("start").timer = "v54" /\ "v54" \in Timers
    BY <1>0, <1>4, StartProgram DEF Cur, Timers
  <1> QED
    BY <1>5, <1>6 DEF StartArms, ArmTimer

\* A tick that is not the last one arms the next before it ends.
LEMMA TickCovers ==
  ASSUME TypeOK, "v54" \in Callbacks, calls' # Pool, Step("v54"),
         ticks'["v54"] < V54Ticks
  PROVE  "v54" \in armed' \/ pc'["v54"] # 0
  <1>0. "v54" \in Threads /\ Program["v54"] = v54IrqWatchdog /\ pc["v54"] \in Nat
    BY DEF Threads, Program, TypeOK
  <1>1. CASE TimerFires("v54")
    BY <1>0, <1>1 DEF TimerFires, TypeOK
  <1>2. CASE ReadReg("v54") \/ FixReg("v54")
    <2>1. pc["v54"] \in 1 .. 8
      BY <1>0, <1>2, WatchdogProgram DEF ReadReg, FixReg, At
    <2> QED
      BY <1>0, <1>2, <2>1, WatchdogProgram DEF ReadReg, FixReg, Advance, TypeOK
  <1>3. CASE TimerEnds("v54")
    <2>1. ticks'["v54"] = ticks["v54"]
      BY <1>3 DEF TimerEnds, TypeOK
    <2>2. KeepsTicking("v54")
      BY <2>1 DEF KeepsTicking
    <2> QED
      BY <1>3, <2>1, <2>2 DEF TimerEnds, ArmTimer
  <1>4. ~SetReg("v54") /\ ~AckErrors("v54") /\ ~StillPending("v54")
    BY <1>0, WatchdogProgram DEF SetReg, AckErrors, StillPending, At
  <1> QED
    BY <1>1, <1>2, <1>3, <1>4 DEF Step

\* Every step keeps the watchdog armed or running.
LEMMA StepCovers == TypeOK /\ WatchdogCovers /\ [Next]_vars => WatchdogCovers'
  <1> SUFFICES ASSUME TypeOK, WatchdogCovers, [Next]_vars,
                      "v54" \in Callbacks, calls' # Pool,
                      DriverStarted', ticks'["v54"] < V54Ticks
               PROVE  "v54" \in armed' \/ pc'["v54"] # 0
    BY DEF WatchdogCovers
  <1>0. "start" \in Threads /\ "v54" \in Threads /\ calls # Pool
    BY PoolStaysEmpty DEF Threads
  <1>1. CASE UNCHANGED vars \/ \E r \in Reg : \E v \in SUBSET Bits[r] : DriverWrites(r, v)
    BY <1>0, <1>1 DEF vars, DriverWrites, WatchdogCovers, DriverStarted
  <1>2. ASSUME NEW h \in {"reset", "hang"}, HookBegins(h)
        PROVE  "v54" \in armed' \/ pc'["v54"] # 0
    <2>1. /\ pc'["start"] = pc["start"] /\ pc'["v54"] = pc["v54"]
          /\ ticks'["v54"] = ticks["v54"] /\ armed' = armed
      BY <1>0, <1>2 DEF HookBegins, TypeOK
    <2> QED
      BY <1>0, <2>1 DEF WatchdogCovers, DriverStarted
  <1>3. CASE Step("start")
    <2>1. CASE ~DriverStarted
      BY <1>3, <2>1, StartCovers
    <2>2. CASE DriverStarted
      BY <1>0, <1>3, <2>2, StepFrame DEF WatchdogCovers
    <2> QED
      BY <2>1, <2>2
  <1>4. CASE Step("v54")
    BY <1>4, TickCovers
  <1>5. ASSUME NEW t \in Threads, t # "start", t # "v54", Step(t)
        PROVE  "v54" \in armed' \/ pc'["v54"] # 0
    BY <1>0, <1>5, StepFrame DEF WatchdogCovers, DriverStarted
  <1> QED
    BY <1>1, <1>2, <1>3, <1>4, <1>5 DEF Next

\* WatchdogCovers, for every number of ticks: the chain of one-shot watchdog
\* timers has no gap from the call of the driver's start() to the last tick.
THEOREM WatchdogChain == Spec => []WatchdogCovers
  <1>1. Init => WatchdogCovers
    BY DEF Init, WatchdogCovers, DriverStarted, CallAt, Threads
  <1> QED
    BY <1>1, StepCovers, GtTyped, PTL DEF Spec
-----------------------------------------------------------------------------
\* The steps of the enforcer.
LEMMA EnforcerProgram ==
  /\ Len(v71EmrEnforcer) = 7
  /\ v71EmrEnforcer[7].do = "rearm"
  /\ \A i \in 1 .. 6 : v71EmrEnforcer[i].do \in {"read", "fix"}
  BY DEF v71EmrEnforcer, Read, Fix, Rearm

\* The step of start() that passes the arming arms the enforcer.
LEMMA StartArmsEnforcer ==
  ASSUME TypeOK, "v71" \in Callbacks, calls' # Pool, Step("start"),
         ~(pc["start"] > EnforcerAt), pc'["start"] > EnforcerAt
  PROVE  "v71" \in armed'
  <1>0. "start" \in Threads /\ Program["start"] = start /\ pc["start"] \in Nat
    BY DEF Threads, Program, TypeOK
  <1>1. pc["start"] <= 19 /\ pc'["start"] >= 20 /\ pc'["start"] \in Nat
    BY <1>0, ThreadTypeOK DEF TypeOK, EnforcerAt
  <1>2. "start" \notin Timers
    BY ParameterAssumption DEF Timers
  <1>3. /\ pc["start"] \in 1 .. Len(start)
        /\ \/ pc'["start"] = pc["start"] + 1
           \/ start[pc["start"]].do = "ack"
              /\ pc'["start"] = pc["start"] + start[pc["start"]].else
    BY <1>0, <1>2 DEF Step, TypeOK, ReadReg, FixReg, SetReg, AckErrors,
       StillPending, StartArms, OriginalStart, Advance, At, Cur
  <1>4. pc["start"] = 19
    <2>1. pc["start"] \in 1 .. 19
      <3>1. pc["start"] >= 1
        BY <1>3
      <3> QED
        BY <1>0, <1>1, <3>1
    <2>2. start[pc["start"]].do = "ack" => start[pc["start"]].else = 1
      BY <2>1, StartProgram
    <2>3. pc'["start"] = pc["start"] + 1
      BY <1>3, <2>2
    <2> QED
      BY <1>0, <1>1, <2>3
  <1>5. StartArms
    BY <1>0, <1>2, <1>4, StartProgram
    DEF Step, ReadReg, FixReg, SetReg, AckErrors, StillPending, OriginalStart, At
  <1>6. Cur("start").timer = "v71" /\ "v71" \in Timers
    BY <1>0, <1>4, StartProgram DEF Cur, Timers
  <1> QED
    BY <1>5, <1>6 DEF StartArms, ArmTimer

\* Every run of the enforcer arms the next before it ends.
LEMMA EnforcerTickCovers ==
  ASSUME TypeOK, "v71" \in Callbacks, calls' # Pool, Step("v71")
  PROVE  "v71" \in armed' \/ pc'["v71"] # 0
  <1>0. "v71" \in Threads /\ Program["v71"] = v71EmrEnforcer /\ pc["v71"] \in Nat
    BY DEF Threads, Program, TypeOK
  <1>1. CASE TimerFires("v71")
    BY <1>0, <1>1 DEF TimerFires, TypeOK
  <1>2. CASE ReadReg("v71") \/ FixReg("v71")
    <2>1. pc["v71"] \in 1 .. 6
      BY <1>0, <1>2, EnforcerProgram DEF ReadReg, FixReg, At
    <2> QED
      BY <1>0, <1>2, <2>1, EnforcerProgram DEF ReadReg, FixReg, Advance, TypeOK
  <1>3. CASE TimerEnds("v71")
    BY <1>3 DEF TimerEnds, ArmTimer, KeepsTicking
  <1>4. ~SetReg("v71") /\ ~AckErrors("v71") /\ ~StillPending("v71")
    BY <1>0, EnforcerProgram DEF SetReg, AckErrors, StillPending, At
  <1> QED
    BY <1>1, <1>2, <1>3, <1>4 DEF Step

\* EnforcerCovers, for every pool of thread calls and every set of callbacks:
\* as long as the kernel can allocate, the enforcer never stops.
THEOREM EnforcerForever == Spec => []EnforcerCovers
  <1>1. Init => EnforcerCovers
    BY DEF Init, EnforcerCovers, EnforcerAt, Threads
  <1>2. TypeOK /\ EnforcerCovers /\ [Next]_vars => EnforcerCovers'
    <2> SUFFICES ASSUME TypeOK, EnforcerCovers, [Next]_vars,
                        "v71" \in Callbacks, calls' # Pool,
                        pc'["start"] > EnforcerAt
                 PROVE  "v71" \in armed' \/ pc'["v71"] # 0
      BY DEF EnforcerCovers
    <2>0. "start" \in Threads /\ "v71" \in Threads /\ calls # Pool
      BY PoolStaysEmpty DEF Threads
    <2>1. CASE UNCHANGED vars \/ \E r \in Reg : \E v \in SUBSET Bits[r] : DriverWrites(r, v)
      BY <2>0, <2>1 DEF vars, DriverWrites, EnforcerCovers
    <2>2. ASSUME NEW h \in {"reset", "hang"}, HookBegins(h)
          PROVE  "v71" \in armed' \/ pc'["v71"] # 0
      <3>1. pc'["start"] = pc["start"] /\ pc'["v71"] = pc["v71"] /\ armed' = armed
        BY <2>0, <2>2 DEF HookBegins, TypeOK
      <3> QED
        BY <2>0, <3>1 DEF EnforcerCovers
    <2>3. CASE Step("start")
      <3>1. CASE ~(pc["start"] > EnforcerAt)
        BY <2>3, <3>1, StartArmsEnforcer
      <3>2. CASE pc["start"] > EnforcerAt
        BY <2>0, <2>3, <3>2, StepFrame DEF EnforcerCovers
      <3> QED
        BY <3>1, <3>2
    <2>4. CASE Step("v71")
      BY <2>4, EnforcerTickCovers
    <2>5. ASSUME NEW t \in Threads, t # "start", t # "v71", Step(t)
          PROVE  "v71" \in armed' \/ pc'["v71"] # 0
      BY <2>0, <2>5, StepFrame DEF EnforcerCovers
    <2> QED
      BY <2>1, <2>2, <2>3, <2>4, <2>5 DEF Next
  <1> QED
    BY <1>1, <1>2, GtTyped, PTL DEF Spec
=============================================================================
