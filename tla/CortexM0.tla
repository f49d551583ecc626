------------------------------ MODULE CortexM0 ------------------------------
(***************************************************************************)
(* The exception and sleep machinery of the Cortex-M0+ cores: class Cpu of *)
(* src/core/cpu.cpp with the register banks of src/core/registers.cpp and  *)
(* the NVIC, SCR and AIRCR registers of src/core/scs.cpp.                  *)
(*                                                                         *)
(* One call of Cpu::step is one action: it takes the most urgent eligible  *)
(* exception, idles in a sleep, or executes one instruction.  Instructions *)
(* are told apart only by what they do to this state: general registers,   *)
(* memory contents and cycle counts are left out.  Addresses are counted   *)
(* in words, so that a stack pointer that is not 8-byte aligned is odd.    *)
(*                                                                         *)
(* Firmware is any sequence of instructions that keeps the calling         *)
(* convention: a handler returns with the EXC_RETURN it found in LR and    *)
(* with the stack pointer it was entered with, and leaves the priority of  *)
(* an active exception and the PSP alone.  The two stacks lie in memory of *)
(* their own, whose words are counted from the same base.                  *)
(***************************************************************************)
EXTENDS Integers, Sequences, FiniteSets, SequencesExt

CONSTANTS
    Cores,      \* the cores
    Core0,      \* the core that runs from reset; the others wait for a launch
    Irqs,       \* external interrupts, by exception number (16 .. 41)
    Levels,     \* effective priorities firmware uses, of 0 .. 3
    StackTop,   \* the stack pointers' first value, in words
    StackBase,  \* the lowest word of stack memory
    MaxLocals   \* bound: words a code level pushes beyond its entry

ASSUME CoresAssumption == Core0 \in Cores /\ IsFiniteSet(Cores)
ASSUME IrqsAssumption == Irqs \subseteq 16..41
ASSUME LevelsAssumption == Levels \subseteq 0..3 /\ 0 \in Levels
ASSUME StackAssumption ==
    /\ StackTop \in Nat
    /\ StackBase \in Nat
    /\ StackBase < StackTop
    /\ MaxLocals \in Nat

VARIABLES
    running,      \* core1_running_: Simulator::step steps this core
    pending,      \* pending_, as the set of pending exceptions
    enabled,      \* irq_enabled_, as the set of enabled interrupts
    prio,         \* effective_priority of priority_[e]
    ipsr,         \* the exception being handled; 0 in Thread mode
    primask,      \* PRIMASK
    spsel,        \* CONTROL.SPSEL: Thread mode uses PSP
    sp,           \* the banked stack pointers, in words
    sleep,        \* asleep_ with sleep_is_wfe_: "awake", "wfi" or "wfe"
    event,        \* event_, the WFE event register
    sleepOnExit,  \* SCR.SLEEPONEXIT
    frames,       \* the exception frames in stack memory, innermost last
    lockup,       \* the last Cpu::step of this core returned Lockup
    before        \* history: the context each frame's exception interrupted

nvic == <<pending, enabled, prio>>
regs == <<ipsr, primask, spsel, sp>>
doze == <<sleep, event, sleepOnExit>>
stack == <<frames, before>>
vars == <<running, nvic, regs, doze, stack, lockup>>

-----------------------------------------------------------------------------
HardFault == 3
SVCall == 11
PendSV == 14
Thread == 0

Pendable == {PendSV} \cup Irqs
Configurable == {SVCall} \cup Pendable
Exceptions == {HardFault} \cup Configurable

FrameWords == 8
HandlerMSP == "F1"  \* EXC_RETURN: back to Handler mode on MSP
ThreadMSP == "F9"   \*             back to Thread mode on MSP
ThreadPSP == "FD"   \*             back to Thread mode on PSP

Banks == {"msp", "psp"}
NoPriority == 256

\* Cpu::priority_of, for any assignment of the configurable priorities
PriorityIn(ps, e) == IF e = HardFault THEN -1 ELSE ps[e]
Priority(c, e) == PriorityIn(prio[c], e)

\* Cpu::current_execution_priority
ExecPriority(c) ==
    LET active == IF ipsr[c] = Thread THEN NoPriority ELSE Priority(c, ipsr[c])
    IN  IF primask[c] /\ active > 0 THEN 0 ELSE active

\* Mutant: an exception preempts its own priority level.
EligibleAtOwnLevel(c) ==
    {e \in pending[c] :
        /\ e \in Irqs => e \in enabled[c]
        /\ ~(primask[c] /\ Priority(c, e) >= 0)
        /\ Priority(c, e) <= ExecPriority(c)}

\* What the loop of Cpu::highest_pending_exception may choose from ...
Eligible(c) ==
    {e \in pending[c] :
        /\ e \in Irqs => e \in enabled[c]
        /\ ~(primask[c] /\ Priority(c, e) >= 0)
        /\ Priority(c, e) < ExecPriority(c)}

\* ... and what it chooses: the most urgent, the lowest number among equals.
IsHighest(c, e) ==
    /\ e \in Eligible(c)
    /\ \A f \in Eligible(c) :
          Priority(c, e) < Priority(c, f) \/ (Priority(c, e) = Priority(c, f) /\ e <= f)

\* Mutant: Handler mode follows CONTROL.SPSEL.
BankBySpsel(c) == IF spsel[c] THEN "psp" ELSE "msp"

\* RegisterFile::sp: Handler mode always uses MSP
Bank(c) == IF ipsr[c] # Thread \/ ~spsel[c] THEN "msp" ELSE "psp"

\* Mutant: the frame is pushed where the stack pointer happens to be.
FramePtrUnaligned(p) == p - FrameWords

\* The 8-byte aligned frame below a stack pointer.  Bit 9 of the stacked xPSR
\* (realigned) remembers that a word was skipped.
FramePtr(p) == (p - FrameWords) - ((p - FrameWords) % 2)

\* The bank an EXC_RETURN value selects in Cpu::exception_return
ReturnBank(ret) == IF ret = ThreadPSP THEN "psp" ELSE "msp"

Frame == [exc : {Thread} \cup Exceptions, realigned : BOOLEAN, ptr : Int,
          ret : {HandlerMSP, ThreadMSP, ThreadPSP}, entry : Int]
Context == [ipsr : {Thread} \cup Exceptions, sp : [Banks -> Int], onPsp : BOOLEAN]

\* What running code would miss if an exception did not give it back
Level(c) == [ipsr |-> ipsr[c], sp |-> sp[c], onPsp |-> Bank(c) = "psp"]

-----------------------------------------------------------------------------
Init ==
    /\ running = [c \in Cores |-> c = Core0]
    /\ pending = [c \in Cores |-> {}]
    /\ enabled = [c \in Cores |-> {}]
    /\ prio = [c \in Cores |-> [e \in Configurable |-> 0]]
    /\ ipsr = [c \in Cores |-> Thread]
    /\ primask = [c \in Cores |-> FALSE]
    /\ spsel = [c \in Cores |-> FALSE]
    /\ sp = [c \in Cores |-> [b \in Banks |-> IF b = "msp" THEN StackTop ELSE 0]]
    /\ sleep = [c \in Cores |-> "awake"]
    /\ event = [c \in Cores |-> FALSE]
    /\ sleepOnExit = [c \in Cores |-> FALSE]
    /\ frames = [c \in Cores |-> <<>>]
    /\ before = [c \in Cores |-> <<>>]
    /\ lockup = [c \in Cores |-> FALSE]

-----------------------------------------------------------------------------
\* Exception entry and return

\* Cpu::take_exception of e by core c.  An asynchronous exception has stopped
\* being pending before the call.  Entry is a wake event even when stacking
\* then fails.
TakeException(c, e) ==
    LET ptr == FramePtr(sp[c][Bank(c)])
        frame == [exc |-> ipsr[c], realigned |-> sp[c][Bank(c)] % 2 = 1, ptr |-> ptr,
                  ret |-> IF ipsr[c] # Thread THEN HandlerMSP
                          ELSE IF spsel[c] THEN ThreadPSP ELSE ThreadMSP,
                  entry |-> IF Bank(c) = "msp" THEN ptr ELSE sp[c]["msp"]]
    IN  \/ /\ e = HardFault /\ ExecPriority(c) <= -1
           /\ lockup' = [lockup EXCEPT ![c] = TRUE]
           /\ UNCHANGED <<regs, stack, doze>>
        \/ /\ ~(e = HardFault /\ ExecPriority(c) <= -1)
           /\ sleep' = [sleep EXCEPT ![c] = "awake"]
           /\ event' = [event EXCEPT ![c] = TRUE]
           /\ UNCHANGED <<primask, spsel, sleepOnExit>>
           /\ \/ /\ ptr < StackBase
                 /\ lockup' = [lockup EXCEPT ![c] = TRUE]
                 /\ UNCHANGED <<ipsr, sp, stack>>
              \/ /\ ptr >= StackBase
                 /\ lockup' = [lockup EXCEPT ![c] = FALSE]
                 /\ sp' = [sp EXCEPT ![c][Bank(c)] = ptr]
                 /\ ipsr' = [ipsr EXCEPT ![c] = e]
                 /\ frames' = [frames EXCEPT ![c] = Append(@, frame)]
                 /\ before' = [before EXCEPT ![c] = Append(@, Level(c))]

\* Mutant: the handled interrupt is cleared on every core.
TakePendingClearingAll(c) ==
    /\ running[c]
    /\ \E e \in pending[c] :
          /\ IsHighest(c, e)
          /\ pending' = [d \in Cores |-> pending[d] \ {e}]
          /\ TakeException(c, e)
    /\ UNCHANGED <<running, enabled, prio>>

\* Mutant: the sleep test comes before the delivery.
TakePendingAwake(c) ==
    /\ running[c] /\ sleep[c] = "awake"
    /\ \E e \in pending[c] :
          /\ IsHighest(c, e)
          /\ pending' = [pending EXCEPT ![c] = @ \ {e}]
          /\ TakeException(c, e)
    /\ UNCHANGED <<running, enabled, prio>>

\* The asynchronous delivery at the top of Cpu::step
TakePending(c) ==
    /\ running[c]
    /\ \E e \in pending[c] :
          /\ IsHighest(c, e)
          /\ pending' = [pending EXCEPT ![c] = @ \ {e}]
          /\ TakeException(c, e)
    /\ UNCHANGED <<running, enabled, prio>>

\* The sleep of Cpu::step: nothing eligible, and no event for a WFE
Idle(c) ==
    /\ running[c]
    /\ Eligible(c) = {}
    /\ sleep[c] # "awake" /\ ~(sleep[c] = "wfe" /\ event[c])
    /\ lockup' = [lockup EXCEPT ![c] = FALSE]
    /\ UNCHANGED <<running, nvic, regs, doze, stack>>

\* The rest of Cpu::step executes an instruction.
CanExecute(c) ==
    /\ running[c]
    /\ Eligible(c) = {}
    /\ sleep[c] = "awake" \/ (sleep[c] = "wfe" /\ event[c])

\* event_ after the wake test of Cpu::step, which consumes the event of a WFE
EventNow(c) == event[c] /\ sleep[c] = "awake"

\* Most instructions leave the core awake and the event register alone.
StaysAwake(c) ==
    /\ lockup' = [lockup EXCEPT ![c] = FALSE]
    /\ sleep' = [sleep EXCEPT ![c] = "awake"]
    /\ event' = [event EXCEPT ![c] = EventNow(c)]
    /\ UNCHANGED sleepOnExit

\* BX LR and POP {.., PC} in a handler: Cpu::exception_return.  The handler
\* keeps the convention, so LR and MSP are what entry left.
ExceptionReturn(c) ==
    LET f == Last(frames[c])
        bank == ReturnBank(f.ret)
        toThread == f.exc = Thread
    IN  /\ CanExecute(c)
        /\ frames[c] # <<>>
        /\ sp[c]["msp"] = f.entry
        /\ sp' = [sp EXCEPT ![c][bank] = @ + FrameWords + (IF f.realigned THEN 1 ELSE 0)]
        /\ ipsr' = [ipsr EXCEPT ![c] = f.exc]
        /\ spsel' = [spsel EXCEPT ![c] = IF toThread THEN f.ret = ThreadPSP ELSE @]
        /\ sleep' = [sleep EXCEPT ![c] = IF sleepOnExit[c] /\ toThread THEN "wfi" ELSE "awake"]
        /\ event' = [event EXCEPT ![c] = EventNow(c)]
        /\ frames' = [frames EXCEPT ![c] = Front(@)]
        /\ before' = [before EXCEPT ![c] = Front(@)]
        /\ lockup' = [lockup EXCEPT ![c] = FALSE]
        /\ UNCHANGED <<running, nvic, primask, sleepOnExit>>

-----------------------------------------------------------------------------
\* The other instructions

\* Any instruction that changes nothing modelled here
Plain(c) ==
    /\ CanExecute(c)
    /\ StaysAwake(c)
    /\ UNCHANGED <<running, nvic, regs, stack>>

\* UNDEFINED, a bus error, or an instruction that cannot be fetched: HardFault
Fault(c) ==
    /\ CanExecute(c)
    /\ TakeException(c, HardFault)
    /\ UNCHANGED <<running, nvic>>

\* SVC: Cpu::step enters SVCall whatever the priorities and PRIMASK are.
Svc(c) ==
    /\ CanExecute(c)
    /\ TakeException(c, SVCall)
    /\ UNCHANGED <<running, nvic>>

Wfi(c) ==
    /\ CanExecute(c)
    /\ \/ /\ pending[c] # {}
          /\ StaysAwake(c)
       \/ /\ pending[c] = {}
          /\ sleep' = [sleep EXCEPT ![c] = "wfi"]
          /\ event' = [event EXCEPT ![c] = EventNow(c)]
          /\ UNCHANGED sleepOnExit
          /\ lockup' = [lockup EXCEPT ![c] = FALSE]
    /\ UNCHANGED <<running, nvic, regs, stack>>

Wfe(c) ==
    /\ CanExecute(c)
    /\ event' = [event EXCEPT ![c] = FALSE]
    /\ lockup' = [lockup EXCEPT ![c] = FALSE]
    /\ \/ EventNow(c) /\ sleep' = [sleep EXCEPT ![c] = "awake"]
       \/ ~EventNow(c) /\ sleep' = [sleep EXCEPT ![c] = "wfe"]
    /\ UNCHANGED <<running, nvic, regs, sleepOnExit, stack>>

\* Mutant: an event is recorded but does not end a WFE sleep.
SevNoWake(c) ==
    /\ CanExecute(c)
    /\ event' = [d \in Cores |-> TRUE]
    /\ sleep' = [sleep EXCEPT ![c] = "awake"]
    /\ lockup' = [lockup EXCEPT ![c] = FALSE]
    /\ UNCHANGED <<running, nvic, regs, sleepOnExit, stack>>

\* SEV: Cpu::signal_event on this core and on its sev_target_
Sev(c) ==
    /\ CanExecute(c)
    /\ event' = [d \in Cores |-> TRUE]
    /\ sleep' = [d \in Cores |-> IF d = c \/ sleep[d] = "wfe" THEN "awake" ELSE sleep[d]]
    /\ lockup' = [lockup EXCEPT ![c] = FALSE]
    /\ UNCHANGED <<running, nvic, regs, sleepOnExit, stack>>

\* CPSID (m = TRUE), CPSIE, and MSR PRIMASK
SetPrimask(c, m) ==
    /\ CanExecute(c)
    /\ primask' = [primask EXCEPT ![c] = m]
    /\ StaysAwake(c)
    /\ UNCHANGED <<running, nvic, ipsr, spsel, sp, stack>>

\* MSR CONTROL: the code lets a handler write SPSEL too.
SetSpsel(c, s) ==
    /\ CanExecute(c)
    /\ spsel' = [spsel EXCEPT ![c] = s]
    /\ StaysAwake(c)
    /\ UNCHANGED <<running, nvic, ipsr, primask, sp, stack>>

\* MSR PSP, as Thread mode prepares its process stack
SetPsp(c) ==
    /\ CanExecute(c)
    /\ Bank(c) = "msp" /\ ipsr[c] = Thread
    /\ sp' = [sp EXCEPT ![c]["psp"] = StackTop]
    /\ StaysAwake(c)
    /\ UNCHANGED <<running, nvic, ipsr, primask, spsel, stack>>

\* The stack pointer the running level was entered with
EntrySp(c) == IF ipsr[c] = Thread THEN StackTop ELSE Last(frames[c]).entry

\* PUSH and POP of one word: what makes a stack pointer odd
PushPop(c, words) ==
    /\ CanExecute(c)
    /\ sp[c][Bank(c)] + words \in (EntrySp(c) - MaxLocals)..EntrySp(c)
    /\ sp[c][Bank(c)] + words >= StackBase
    /\ sp' = [sp EXCEPT ![c][Bank(c)] = @ + words]
    /\ StaysAwake(c)
    /\ UNCHANGED <<running, nvic, ipsr, primask, spsel, stack>>

-----------------------------------------------------------------------------
\* Stores to the System Control Space

ScsStore(c) ==
    /\ CanExecute(c)
    /\ lockup' = [lockup EXCEPT ![c] = FALSE]
    /\ sleep' = [sleep EXCEPT ![c] = "awake"]
    /\ event' = [event EXCEPT ![c] = EventNow(c)]
    /\ UNCHANGED <<running, regs, stack>>

\* NVIC_ISER and NVIC_ICER
WriteEnable(c, i, on) ==
    /\ ScsStore(c)
    /\ enabled' = [enabled EXCEPT ![c] = IF on THEN @ \cup {i} ELSE @ \ {i}]
    /\ UNCHANGED <<pending, prio, sleepOnExit>>

\* NVIC_ISPR and NVIC_ICPR; PENDSVSET and PENDSVCLR of ICSR
WritePending(c, e, on) ==
    /\ ScsStore(c)
    /\ pending' = [pending EXCEPT ![c] = IF on THEN @ \cup {e} ELSE @ \ {e}]
    /\ UNCHANGED <<enabled, prio, sleepOnExit>>

\* An exception that runs or that a frame on the stack interrupted
Active(c) == {ipsr[c]} \cup {frames[c][k].exc : k \in DOMAIN frames[c]}

\* NVIC_IPR, SHPR2 and SHPR3
WritePriority(c, e, p) ==
    /\ e \notin Active(c)
    /\ ScsStore(c)
    /\ prio' = [prio EXCEPT ![c][e] = p]
    /\ UNCHANGED <<pending, enabled, sleepOnExit>>

\* SCR
WriteSleepOnExit(c, on) ==
    /\ ScsStore(c)
    /\ sleepOnExit' = [sleepOnExit EXCEPT ![c] = on]
    /\ UNCHANGED nvic

\* Cpu::reset of the cores in R, and core1_running_ = false.  The priorities
\* are not reset.
ResetCores(R) ==
    /\ running' = [c \in Cores |-> running[c] /\ (c \in R => c = Core0)]
    /\ pending' = [c \in Cores |-> IF c \in R THEN {} ELSE pending[c]]
    /\ enabled' = [c \in Cores |-> IF c \in R THEN {} ELSE enabled[c]]
    /\ ipsr' = [c \in Cores |-> IF c \in R THEN Thread ELSE ipsr[c]]
    /\ primask' = [c \in Cores |-> c \notin R /\ primask[c]]
    /\ spsel' = [c \in Cores |-> c \notin R /\ spsel[c]]
    /\ sp' = [c \in Cores |->
                IF c \in R THEN [b \in Banks |-> IF b = "msp" THEN StackTop ELSE 0] ELSE sp[c]]
    /\ sleep' = [c \in Cores |-> IF c \in R THEN "awake" ELSE sleep[c]]
    /\ event' = [c \in Cores |-> c \notin R /\ event[c]]
    /\ sleepOnExit' = [c \in Cores |-> c \notin R /\ sleepOnExit[c]]
    /\ frames' = [c \in Cores |-> IF c \in R THEN <<>> ELSE frames[c]]
    /\ before' = [c \in Cores |-> IF c \in R THEN <<>> ELSE before[c]]
    /\ UNCHANGED prio

\* AIRCR.SYSRESETREQ, with the hook Simulator installs
SystemReset(c) ==
    /\ CanExecute(c)
    /\ ResetCores(Cores)
    /\ lockup' = [lockup EXCEPT ![c] = FALSE]

-----------------------------------------------------------------------------
\* What happens between the instructions

\* InterruptController: an interrupt line is pended on, and cleared from,
\* every core.
RaiseIrq(i) ==
    /\ pending' = [c \in Cores |-> pending[c] \cup {i}]
    /\ UNCHANGED <<running, enabled, prio, regs, doze, stack, lockup>>

LowerIrq(i) ==
    /\ pending' = [c \in Cores |-> pending[c] \ {i}]
    /\ UNCHANGED <<running, enabled, prio, regs, doze, stack, lockup>>

\* The watchdog's reset hook: core 0, and core 1 if PSM_WDSEL says so
WatchdogReset(R) ==
    /\ ResetCores(R)
    /\ UNCHANGED lockup

\* The launch callback of Simulator: the registers are reset, the rest of the
\* core (pending_, irq_enabled_, asleep_, event_, sleep_on_exit_) is not.
Launch(c) ==
    /\ c # Core0
    /\ running' = [running EXCEPT ![c] = TRUE]
    /\ ipsr' = [ipsr EXCEPT ![c] = Thread]
    /\ primask' = [primask EXCEPT ![c] = FALSE]
    /\ spsel' = [spsel EXCEPT ![c] = FALSE]
    /\ sp' = [sp EXCEPT ![c] = [b \in Banks |-> IF b = "msp" THEN StackTop ELSE 0]]
    /\ frames' = [frames EXCEPT ![c] = <<>>]
    /\ before' = [before EXCEPT ![c] = <<>>]
    /\ UNCHANGED <<nvic, doze, lockup>>

-----------------------------------------------------------------------------
\* Cpu::step, by what it does: exceptions, the stacks, the sleep modes, the
\* System Control Space.
ExceptionStep(c) ==
    \/ TakePending(c)
    \/ ExceptionReturn(c)
    \/ Plain(c)
    \/ Fault(c)
    \/ Svc(c)
    \/ \E m \in BOOLEAN : SetPrimask(c, m)

StackStep(c) ==
    \/ \E s \in BOOLEAN : SetSpsel(c, s)
    \/ SetPsp(c)
    \/ \E words \in {-1, 1} : PushPop(c, words)

SleepStep(c) ==
    \/ Idle(c)
    \/ Wfi(c)
    \/ Wfe(c)
    \/ Sev(c)
    \/ \E on \in BOOLEAN : WriteSleepOnExit(c, on)

NvicStep(c) ==
    \/ \E i \in Irqs, on \in BOOLEAN : WriteEnable(c, i, on)
    \/ \E e \in Pendable, on \in BOOLEAN : WritePending(c, e, on)
    \/ \E e \in Configurable, p \in Levels : WritePriority(c, e, p)

ResetStep ==
    \/ \E c \in Cores : SystemReset(c) \/ Launch(c)
    \/ \E R \in SUBSET Cores : Core0 \in R /\ WatchdogReset(R)

Step(c) == ExceptionStep(c) \/ StackStep(c) \/ SleepStep(c) \/ NvicStep(c)

IrqStep == \E i \in Irqs : RaiseIrq(i) \/ LowerIrq(i)

Next == (\E c \in Cores : Step(c)) \/ ResetStep \/ IrqStep

Spec == Init /\ [][Next]_vars

-----------------------------------------------------------------------------
TypeOK ==
    /\ running \in [Cores -> BOOLEAN]
    /\ pending \in [Cores -> SUBSET Pendable]
    /\ enabled \in [Cores -> SUBSET Irqs]
    /\ prio \in [Cores -> [Configurable -> Levels]]
    /\ ipsr \in [Cores -> {Thread} \cup Exceptions]
    /\ primask \in [Cores -> BOOLEAN]
    /\ spsel \in [Cores -> BOOLEAN]
    /\ sp \in [Cores -> [Banks -> Int]]
    /\ sleep \in [Cores -> {"awake", "wfi", "wfe"}]
    /\ event \in [Cores -> BOOLEAN]
    /\ sleepOnExit \in [Cores -> BOOLEAN]
    /\ frames \in [Cores -> Seq(Frame)]
    /\ before \in [Cores -> Seq(Context)]
    /\ lockup \in [Cores -> BOOLEAN]

\* A core that sleeps in a WFE has no event waiting: whatever raises the event
\* register (SEV, exception entry) also ends the sleep, so the test of event_
\* in the sleep branch of Cpu::step never succeeds and no event is slept over.
NoEventSleptOver == \A c \in Cores : sleep[c] = "wfe" => ~event[c]

\* Whenever a handler may return, the stack its EXC_RETURN selects points at
\* the frame its own entry pushed, whatever was nested above it, however the
\* stack was aligned and whatever the handler wrote to CONTROL.SPSEL.
ReturnFindsFrame ==
    \A c \in Cores : frames[c] # <<>> =>
        LET f == Last(frames[c])
        IN  sp[c]["msp"] = f.entry => sp[c][ReturnBank(f.ret)] = f.ptr

\* PSP as the exception that pushed frame k of core c left it
PspAfter(c, k) ==
    IF k = Len(frames[c]) THEN sp[c]["psp"] ELSE before[c][k + 1].sp["psp"]

\* Why a return finds its frame: every frame lies right below the stack pointer
\* of the context it interrupted, MSP at handler entry tells the bank, and no
\* handler moves PSP.
FrameInv(c, k) ==
    LET f == frames[c][k]
        b == before[c][k]
    IN  /\ f.exc = b.ipsr
        /\ f.exc = Thread <=> k = 1
        /\ f.ret = ThreadPSP <=> b.onPsp
        /\ b.onPsp => f.exc = Thread
        /\ b.sp[ReturnBank(f.ret)] = f.ptr + FrameWords + (IF f.realigned THEN 1 ELSE 0)
        /\ f.entry = IF b.onPsp THEN b.sp["msp"] ELSE f.ptr
        /\ PspAfter(c, k) = IF b.onPsp THEN f.ptr ELSE b.sp["psp"]

StackInv(c) ==
    /\ Len(before[c]) = Len(frames[c])
    /\ ipsr[c] = Thread <=> Len(frames[c]) = 0
    /\ \A k \in 1..Len(frames[c]) : FrameInv(c, k)

StacksHold == \A c \in Cores : StackInv(c)

\* The exception that pushed frame k of core c
Handler(c, k) == IF k = Len(frames[c]) THEN ipsr[c] ELSE frames[c][k + 1].exc

\* Every exception on the stack is more urgent than the one it preempted: only
\* an SVC, which Cpu::step enters without comparing priorities, can nest the
\* other way.
NestingOrdered ==
    \A c \in Cores : \A k \in 2..Len(frames[c]) :
        Handler(c, k) # SVCall => Priority(c, Handler(c, k)) < Priority(c, frames[c][k].exc)

\* An exception return gives back what its exception took: the same exception
\* number, both stack pointers and the stack selection of the code resumed.
ResumesInterrupted ==
    [][\A c \in Cores : ExceptionReturn(c) => Level(c)' = Last(before[c])]_vars

\* A core never drops a pending exception: what a step of Cpu::step stops from
\* being pending is the handler it enters.  Otherwise a store or its line took
\* it back, or a reset; only a stack overflow, reported as a lockup, loses one.
NoneDropped ==
    [][\A c \in Cores : \A e \in pending[c] \ pending'[c] :
          \/ ipsr'[c] = e /\ Len(frames'[c]) = Len(frames[c]) + 1
          \/ lockup'[c]
          \/ e \in Irqs /\ LowerIrq(e)
          \/ WritePending(c, e, FALSE)
          \/ \E R \in SUBSET Cores : c \in R /\ ResetCores(R)]_vars

=============================================================================
