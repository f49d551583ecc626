--------------------------- MODULE CortexM0Proofs ---------------------------
(***************************************************************************)
(* What holds of CortexM0 for every set of cores, interrupts and           *)
(* priorities and every stack size; and of Alu, whose operators the        *)
(* instructions of the same cores compute with, Memory, their bus, and     *)
(* GdbStub, the debugger that has Armv6m execute any program, for words of *)
(* every width.                                                            *)
(***************************************************************************)
EXTENDS CortexM0, GdbStub, Numbers, SequenceTheorems, FiniteSetTheorems, TLAPS

-----------------------------------------------------------------------------
(* Lemmas about the operators *)

\* A frame pointer with its realignment word leads back to the stack pointer.
LEMMA FrameArithmetic ==
    ASSUME NEW p \in Int
    PROVE  /\ FramePtr(p) \in Int
           /\ p = FramePtr(p) + FrameWords + (IF p % 2 = 1 THEN 1 ELSE 0)
<1>1. p % 2 \in {0, 1} /\ (p - 8) % 2 = p % 2
  OBVIOUS
<1>2. QED
  BY <1>1 DEF FramePtr, FrameWords

\* Popping a sequence: type, length and elements of what is left.
LEMMA FrontFacts ==
    ASSUME NEW S, NEW s \in Seq(S), Len(s) # 0
    PROVE  /\ Len(s) \in Nat \ {0}
           /\ Last(s) = s[Len(s)] /\ Last(s) \in S
           /\ Front(s) \in Seq(S)
           /\ Len(Front(s)) = Len(s) - 1
           /\ \A k \in 1..(Len(s) - 1) : Front(s)[k] = s[k]
<1>1. Len(s) \in Nat \ {0}
  OBVIOUS
<1>2. \A k \in 1..Len(s) : s[k] \in S
  BY ElementOfSeq
<1>3. \A k \in 1..(Len(s) - 1) : s[k] \in S
  BY <1>1, <1>2
<1>. DEFINE m == Len(s) - 1
<1>4. 1 \in Int /\ m \in Int /\ \A i \in 1..m : s[i] \in S
  BY <1>1, <1>3
<1>6. /\ SubSeq(s, 1, m) \in Seq(S)
      /\ Len(SubSeq(s, 1, m)) = IF 1 <= m THEN m - 1 + 1 ELSE 0
      /\ \A i \in 1..(m - 1 + 1) : SubSeq(s, 1, m)[i] = s[1 + i - 1]
  <2>. HIDE DEF m
  <2>. QED  BY <1>4, SubSeqProperties
<1>5. \A k \in 1..(Len(s) - 1) : s[1 + k - 1] = s[k]
  BY <1>1
<1>7. /\ Front(s) \in Seq(S)
      /\ Len(Front(s)) = m
      /\ \A k \in 1..m : Front(s)[k] = s[k]
  <2>1. Front(s) = SubSeq(s, 1, m)
    BY DEF Front
  <2>. HIDE DEF m
  <2>2. (IF 1 <= m THEN m - 1 + 1 ELSE 0) = m /\ 1..(m - 1 + 1) = 1..m
    <3>1. m \in Nat
      BY <1>1 DEF m
    <3>2. m - 1 + 1 = m
      BY <3>1
    <3>3. (IF 1 <= m THEN m ELSE 0) = m
      BY <3>1
    <3>4. QED
      BY <3>2, <3>3, Zenon
  <2>3. \A k \in 1..m : s[1 + k - 1] = s[k]
    BY <1>5 DEF m
  <2>4. QED
    BY <1>6, <2>1, <2>2, <2>3, Zenon
<1>8. QED
  BY <1>1, <1>2, <1>7 DEF Last

LEMMA FrontType ==
    ASSUME NEW S, NEW s \in Seq(S)
    PROVE  Front(s) \in Seq(S)
<1>1. CASE Len(s) # 0
  BY <1>1, FrontFacts
<1>2. CASE Len(s) = 0
  <2>1. 1 \in Int /\ Len(s) - 1 \in Int /\ Len(s) - 1 < 1
    BY <1>2
  <2>2. SubSeq(s, 1, Len(s) - 1) = << >>
    BY <2>1, SubSeqEmpty
  <2>3. QED
    BY <2>2, EmptySeq DEF Front
<1>3. QED
  BY <1>1, <1>2

\* The names of exceptions and of Thread mode
LEMMA Numbers ==
    /\ Irqs \subseteq Exceptions /\ Configurable \subseteq Exceptions
    /\ Pendable \subseteq Configurable
    /\ HardFault \in Exceptions /\ SVCall \in Exceptions
    /\ Thread \notin Exceptions /\ Thread \notin Pendable
    /\ HardFault \notin Configurable
BY IrqsAssumption
   DEF Exceptions, Configurable, Pendable, HardFault, SVCall, PendSV, Thread

-----------------------------------------------------------------------------
(* Types *)

LEMMA InitType == Init => TypeOK
BY CoresAssumption, LevelsAssumption, StackAssumption, EmptySeq
   DEF Init, TypeOK, Banks, Thread

\* Exception entry keeps the types of what it changes.
LEMMA TakeExceptionType ==
    ASSUME TypeOK, NEW c \in Cores, NEW e \in Exceptions, TakeException(c, e)
    PROVE  /\ ipsr' \in [Cores -> {Thread} \cup Exceptions]
           /\ primask' \in [Cores -> BOOLEAN]
           /\ spsel' \in [Cores -> BOOLEAN]
           /\ sp' \in [Cores -> [Banks -> Int]]
           /\ sleep' \in [Cores -> {"awake", "wfi", "wfe"}]
           /\ event' \in [Cores -> BOOLEAN]
           /\ sleepOnExit' \in [Cores -> BOOLEAN]
           /\ frames' \in [Cores -> Seq(Frame)]
           /\ before' \in [Cores -> Seq(Context)]
           /\ lockup' \in [Cores -> BOOLEAN]
<1>. DEFINE ptr == FramePtr(sp[c][Bank(c)])
            frame == [exc |-> ipsr[c], realigned |-> sp[c][Bank(c)] % 2 = 1, ptr |-> ptr,
                      ret |-> IF ipsr[c] # Thread THEN HandlerMSP
                              ELSE IF spsel[c] THEN ThreadPSP ELSE ThreadMSP,
                      entry |-> IF Bank(c) = "msp" THEN ptr ELSE sp[c]["msp"]]
<1>1. Bank(c) \in Banks /\ sp[c] \in [Banks -> Int] /\ "msp" \in Banks
  BY DEF Bank, Banks, TypeOK
<1>2. ptr \in Int
  BY <1>1, FrameArithmetic
<1>3. frame \in Frame
  <2>. HIDE DEF ptr
  <2>. QED  BY <1>1, <1>2 DEF Frame, TypeOK
<1>4. Level(c) \in Context
  BY <1>1 DEF Level, Context, TypeOK
<1>5. /\ Append(frames[c], frame) \in Seq(Frame)
      /\ Append(before[c], Level(c)) \in Seq(Context)
  <2>. HIDE DEF frame
  <2>. QED  BY <1>3, <1>4, AppendProperties DEF TypeOK
<1>6. CASE UNCHANGED <<regs, stack, doze>> /\ lockup' = [lockup EXCEPT ![c] = TRUE]
  BY <1>6 DEF TypeOK, regs, stack, doze
<1>7. CASE /\ sleep' = [sleep EXCEPT ![c] = "awake"]
           /\ event' = [event EXCEPT ![c] = TRUE]
           /\ lockup' = [lockup EXCEPT ![c] = TRUE]
           /\ UNCHANGED <<primask, spsel, sleepOnExit, ipsr, sp, stack>>
  BY <1>7 DEF TypeOK, stack
<1>8. CASE /\ sleep' = [sleep EXCEPT ![c] = "awake"]
           /\ event' = [event EXCEPT ![c] = TRUE]
           /\ lockup' = [lockup EXCEPT ![c] = FALSE]
           /\ sp' = [sp EXCEPT ![c][Bank(c)] = ptr]
           /\ ipsr' = [ipsr EXCEPT ![c] = e]
           /\ frames' = [frames EXCEPT ![c] = Append(@, frame)]
           /\ before' = [before EXCEPT ![c] = Append(@, Level(c))]
           /\ UNCHANGED <<primask, spsel, sleepOnExit>>
  <2>. HIDE DEF frame, ptr
  <2>. QED  BY <1>1, <1>2, <1>5, <1>8 DEF TypeOK
<1>9. QED
  BY <1>6, <1>7, <1>8 DEF TakeException

\* So does exception return.
LEMMA ExceptionReturnType ==
    ASSUME TypeOK, NEW c \in Cores, ExceptionReturn(c)
    PROVE  TypeOK'
<1>. DEFINE f == Last(frames[c])
            bank == ReturnBank(f.ret)
            up == sp[c][bank] + FrameWords + (IF f.realigned THEN 1 ELSE 0)
<1>1. frames[c] \in Seq(Frame) /\ before[c] \in Seq(Context)
  BY DEF TypeOK
<1>2. Len(frames[c]) # 0
  BY <1>1, EmptySeq DEF ExceptionReturn
<1>3. f \in Frame
  BY <1>1, <1>2, FrontFacts
<1>4. f.exc \in {Thread} \cup Exceptions /\ f.realigned \in BOOLEAN
  <2>. HIDE DEF f
  <2>. QED  BY <1>3 DEF Frame
<1>5. bank \in Banks /\ sp[c] \in [Banks -> Int]
  BY DEF ReturnBank, Banks, TypeOK
<1>6. up \in Int
  <2>. HIDE DEF f, bank
  <2>. QED  BY <1>5 DEF FrameWords
<1>7. Front(frames[c]) \in Seq(Frame) /\ Front(before[c]) \in Seq(Context)
  BY <1>1, FrontType
<1>8. /\ sp' = [sp EXCEPT ![c][bank] = up]
      /\ ipsr' = [ipsr EXCEPT ![c] = f.exc]
      /\ spsel' = [spsel EXCEPT ![c] = IF f.exc = Thread THEN f.ret = ThreadPSP ELSE spsel[c]]
      /\ sleep' = [sleep EXCEPT ![c] =
                      IF sleepOnExit[c] /\ f.exc = Thread THEN "wfi" ELSE "awake"]
      /\ event' = [event EXCEPT ![c] = EventNow(c)]
      /\ frames' = [frames EXCEPT ![c] = Front(frames[c])]
      /\ before' = [before EXCEPT ![c] = Front(before[c])]
      /\ lockup' = [lockup EXCEPT ![c] = FALSE]
      /\ UNCHANGED <<running, nvic, primask, sleepOnExit>>
  BY <1>5 DEF ExceptionReturn, TypeOK
<1>9. EventNow(c) \in BOOLEAN
  BY DEF EventNow, TypeOK
<1>10. QED
  <2>. HIDE DEF f, bank, up
  <2>. QED  BY <1>4, <1>5, <1>6, <1>7, <1>8, <1>9 DEF TypeOK, nvic

\* The instructions that take no exception
LEMMA InstructionType ==
    ASSUME TypeOK, NEW c \in Cores,
           \/ Plain(c) \/ Wfi(c) \/ Wfe(c) \/ Sev(c) \/ SetPsp(c) \/ Idle(c)
           \/ \E m \in BOOLEAN : SetPrimask(c, m) \/ SetSpsel(c, m)
           \/ \E words \in {-1, 1} : PushPop(c, words)
    PROVE  TypeOK'
<1>1. EventNow(c) \in BOOLEAN
  BY DEF EventNow, TypeOK
<1>2. Bank(c) \in Banks /\ "psp" \in Banks /\ sp[c] \in [Banks -> Int] /\ StackTop \in Int
  BY StackAssumption DEF Bank, Banks, TypeOK
<1>3. CASE Plain(c) \/ Idle(c)
  BY <1>1, <1>3 DEF Plain, Idle, StaysAwake, TypeOK, nvic, regs, stack, doze
<1>4. CASE Wfi(c) \/ Wfe(c) \/ Sev(c)
  BY <1>1, <1>4 DEF Wfi, Wfe, Sev, StaysAwake, TypeOK, nvic, regs, stack
<1>5. CASE SetPsp(c)
  BY <1>1, <1>2, <1>5 DEF SetPsp, StaysAwake, TypeOK, nvic, stack
<1>6. CASE \E m \in BOOLEAN : SetPrimask(c, m) \/ SetSpsel(c, m)
  BY <1>1, <1>6 DEF SetPrimask, SetSpsel, StaysAwake, TypeOK, nvic, stack
<1>7. ASSUME NEW words \in {-1, 1}, PushPop(c, words)
      PROVE  TypeOK'
  <2>1. sp[c][Bank(c)] + words \in Int
    BY <1>2, <1>7
  <2>2. QED
    BY <1>1, <1>2, <1>7, <2>1 DEF PushPop, StaysAwake, TypeOK, nvic, stack
<1>8. QED
  BY <1>3, <1>4, <1>5, <1>6, <1>7

\* Stores to the System Control Space
LEMMA ScsStoreType ==
    ASSUME TypeOK, NEW c \in Cores,
           \/ \E i \in Irqs, on \in BOOLEAN : WriteEnable(c, i, on)
           \/ \E e \in Pendable, on \in BOOLEAN : WritePending(c, e, on)
           \/ \E e \in Configurable, p \in Levels : WritePriority(c, e, p)
           \/ \E on \in BOOLEAN : WriteSleepOnExit(c, on)
    PROVE  TypeOK'
<1>1. EventNow(c) \in BOOLEAN
  BY DEF EventNow, TypeOK
<1>2. CASE \E i \in Irqs, on \in BOOLEAN : WriteEnable(c, i, on)
  BY <1>1, <1>2 DEF WriteEnable, ScsStore, TypeOK, regs, stack
<1>3. CASE \E e \in Pendable, on \in BOOLEAN : WritePending(c, e, on)
  BY <1>1, <1>3 DEF WritePending, ScsStore, TypeOK, regs, stack
<1>4. CASE \E e \in Configurable, p \in Levels : WritePriority(c, e, p)
  BY <1>1, <1>4 DEF WritePriority, ScsStore, TypeOK, regs, stack
<1>5. CASE \E on \in BOOLEAN : WriteSleepOnExit(c, on)
  BY <1>1, <1>5 DEF WriteSleepOnExit, ScsStore, TypeOK, regs, stack, nvic
<1>6. QED
  BY <1>2, <1>3, <1>4, <1>5

\* Resets, launches and interrupt lines
LEMMA OutsideType ==
    ASSUME TypeOK, ResetStep \/ IrqStep
    PROVE  TypeOK'
<1>1. \A S : << >> \in Seq(S)
  BY EmptySeq
<1>2. [b \in Banks |-> IF b = "msp" THEN StackTop ELSE 0] \in [Banks -> Int]
  BY StackAssumption
<1>3. ASSUME NEW R \in SUBSET Cores, ResetCores(R), lockup' \in [Cores -> BOOLEAN]
      PROVE  TypeOK'
  BY <1>1, <1>2, <1>3 DEF ResetCores, TypeOK
<1>4. ASSUME NEW c \in Cores, SystemReset(c)
      PROVE  TypeOK'
  BY <1>3, <1>4 DEF SystemReset, TypeOK
<1>5. ASSUME NEW R \in SUBSET Cores, WatchdogReset(R)
      PROVE  TypeOK'
  BY <1>3, <1>5 DEF WatchdogReset, TypeOK
<1>6. ASSUME NEW c \in Cores, Launch(c)
      PROVE  TypeOK'
  BY <1>1, <1>2, <1>6 DEF Launch, TypeOK, nvic, doze
<1>7. CASE IrqStep
  BY <1>7 DEF IrqStep, RaiseIrq, LowerIrq, Pendable, TypeOK, regs, doze, stack
<1>8. QED
  BY <1>4, <1>5, <1>6, <1>7 DEF ResetStep

\* Every step keeps the types.
LEMMA NextType == TypeOK /\ [Next]_vars => TypeOK'
<1>. SUFFICES ASSUME TypeOK, [Next]_vars
              PROVE  TypeOK'
  OBVIOUS
<1>1. ASSUME NEW c \in Cores, TakePending(c)
      PROVE  TypeOK'
  <2>1. PICK e \in pending[c] : /\ pending' = [pending EXCEPT ![c] = @ \ {e}]
                                /\ TakeException(c, e)
    BY <1>1 DEF TakePending
  <2>2. e \in Exceptions
    BY Numbers DEF TypeOK
  <2>3. QED
    BY <1>1, <2>1, <2>2, TakeExceptionType DEF TakePending, TypeOK
<1>2. ASSUME NEW c \in Cores, Fault(c) \/ Svc(c)
      PROVE  TypeOK'
  BY <1>2, Numbers, TakeExceptionType DEF Fault, Svc, TypeOK, nvic
<1>3. CASE UNCHANGED vars
  BY <1>3 DEF vars, nvic, regs, doze, stack, TypeOK
<1>4. ASSUME NEW c \in Cores, Step(c)
      PROVE  TypeOK'
  BY <1>1, <1>2, <1>4, ExceptionReturnType, InstructionType, ScsStoreType
     DEF Step, ExceptionStep, StackStep, SleepStep, NvicStep
<1>5. QED
  BY <1>3, <1>4, OutsideType DEF Next

\* Every state of a run is well typed: all of Cpu and Scs for any cores.
THEOREM TypeCorrect == Spec => []TypeOK
BY InitType, NextType, PTL DEF Spec

-----------------------------------------------------------------------------
(* Sleep *)

\* A WFE sleep and a raised event never meet, so the wake test in the sleep
\* branch of Cpu::step is never needed: the theorem is inductive as it stands.
THEOREM NoEventSleptOverHolds == Spec => []NoEventSleptOver
<1>1. Init => NoEventSleptOver
  BY DEF Init, NoEventSleptOver
<1>2. ASSUME TypeOK, NoEventSleptOver, [Next]_vars
      PROVE  NoEventSleptOver'
  <2>. USE <1>2
  <2>1. ASSUME NEW c \in Cores, NEW e, TakeException(c, e)
        PROVE  NoEventSleptOver'
    BY <2>1 DEF TakeException, NoEventSleptOver, TypeOK, doze
  <2>2. ASSUME NEW c \in Cores, ExceptionStep(c)
        PROVE  NoEventSleptOver'
    <3>1. CASE TakePending(c) \/ Fault(c) \/ Svc(c)
      BY <2>1, <3>1 DEF TakePending, Fault, Svc
    <3>2. CASE ExceptionReturn(c)
      BY <3>2 DEF ExceptionReturn, NoEventSleptOver, TypeOK
    <3>3. CASE Plain(c) \/ \E m \in BOOLEAN : SetPrimask(c, m)
      BY <3>3 DEF Plain, SetPrimask, StaysAwake, NoEventSleptOver, TypeOK
    <3>4. QED
      BY <2>2, <3>1, <3>2, <3>3 DEF ExceptionStep
  <2>3. ASSUME NEW c \in Cores, StackStep(c)
        PROVE  NoEventSleptOver'
    BY <2>3 DEF StackStep, SetSpsel, SetPsp, PushPop, StaysAwake, NoEventSleptOver, TypeOK
  <2>4. ASSUME NEW c \in Cores, SleepStep(c)
        PROVE  NoEventSleptOver'
    BY <2>4 DEF SleepStep, Idle, Wfi, Wfe, Sev, WriteSleepOnExit, ScsStore, StaysAwake,
                doze, NoEventSleptOver, TypeOK
  <2>5. ASSUME NEW c \in Cores, NvicStep(c)
        PROVE  NoEventSleptOver'
    BY <2>5 DEF NvicStep, WriteEnable, WritePending, WritePriority, ScsStore,
                NoEventSleptOver, TypeOK
  <2>6. CASE ResetStep
    BY <2>6 DEF ResetStep, SystemReset, WatchdogReset, ResetCores, Launch, doze,
                NoEventSleptOver, TypeOK
  <2>7. CASE IrqStep
    BY <2>7 DEF IrqStep, RaiseIrq, LowerIrq, doze, NoEventSleptOver
  <2>8. CASE UNCHANGED vars
    BY <2>8 DEF vars, doze, NoEventSleptOver
  <2>9. QED
    BY <2>2, <2>3, <2>4, <2>5, <2>6, <2>7, <2>8 DEF Next, Step
<1>3. QED
  BY <1>1, <1>2, TypeCorrect, PTL DEF Spec

-----------------------------------------------------------------------------
(* The stacks *)

\* StackInv reads nothing of a core but these, and MSP not at all.
LEMMA StackKept ==
    ASSUME NEW d, StackInv(d), Len(frames[d]) \in Nat,
           ipsr'[d] = ipsr[d], frames'[d] = frames[d], before'[d] = before[d],
           Len(frames[d]) # 0 => sp'[d]["psp"] = sp[d]["psp"]
    PROVE  StackInv(d)'
<1>1. ASSUME NEW k \in 1..Len(frames[d])
      PROVE  PspAfter(d, k)' = PspAfter(d, k)
  BY <1>1 DEF PspAfter
<1>2. QED
  BY <1>1 DEF StackInv, FrameInv

\* A core with no frame that runs in Thread mode has nothing to show.
LEMMA StackEmpty ==
    ASSUME NEW d, ipsr'[d] = Thread, frames'[d] = << >>, before'[d] = << >>
    PROVE  StackInv(d)'
BY EmptySeq DEF StackInv

\* Entry pushes the frame that belongs to the context it interrupts.
LEMMA StackPushed ==
    ASSUME TypeOK, NEW c \in Cores, NEW e \in Exceptions, StackInv(c), TakeException(c, e)
    PROVE  StackInv(c)'
<1>. DEFINE p == sp[c][Bank(c)]
            ptr == FramePtr(p)
            frame == [exc |-> ipsr[c], realigned |-> p % 2 = 1, ptr |-> ptr,
                      ret |-> IF ipsr[c] # Thread THEN HandlerMSP
                              ELSE IF spsel[c] THEN ThreadPSP ELSE ThreadMSP,
                      entry |-> IF Bank(c) = "msp" THEN ptr ELSE sp[c]["msp"]]
<1>1. /\ Bank(c) \in Banks /\ "msp" \in Banks
      /\ sp[c] \in [Banks -> Int] /\ p \in Int
      /\ frames[c] \in Seq(Frame) /\ before[c] \in Seq(Context)
  BY DEF Bank, Banks, TypeOK
<1>0. PICK n \in Nat : n = Len(frames[c])
  BY <1>1
<1>2. ptr \in Int /\ p = ptr + FrameWords + (IF p % 2 = 1 THEN 1 ELSE 0)
  BY <1>1, FrameArithmetic
<1>3. CASE UNCHANGED <<regs, stack>>
  BY <1>0, <1>3, StackKept DEF regs, stack
<1>4. CASE UNCHANGED <<ipsr, sp, stack>>
  BY <1>0, <1>4, StackKept DEF stack
<1>5. CASE /\ sp' = [sp EXCEPT ![c][Bank(c)] = ptr]
           /\ ipsr' = [ipsr EXCEPT ![c] = e]
           /\ frames' = [frames EXCEPT ![c] = Append(@, frame)]
           /\ before' = [before EXCEPT ![c] = Append(@, Level(c))]
  <2>1. /\ sp'[c] = [sp[c] EXCEPT ![Bank(c)] = ptr]
        /\ ipsr'[c] = e /\ e # Thread
        /\ frames'[c] = Append(frames[c], frame)
        /\ before'[c] = Append(before[c], Level(c))
    BY <1>5, Numbers DEF TypeOK
  <2>2. frame \in Frame /\ Level(c) \in Context
    <3>1. frame \in Frame
      <4>. HIDE DEF ptr
      <4>. QED  BY <1>1, <1>2 DEF Frame, TypeOK
    <3>2. Level(c) \in Context
      BY <1>1 DEF Level, Context, TypeOK
    <3>3. QED
      BY <3>1, <3>2
  <2>3. /\ Len(frames'[c]) = n + 1
        /\ \A k \in 1..n : frames'[c][k] = frames[c][k]
        /\ frames'[c][n + 1] = frame
    <3>. HIDE DEF frame
    <3>. QED  BY <1>0, <1>1, <2>1, <2>2, AppendProperties
  <2>4. /\ Len(before'[c]) = n + 1
        /\ \A k \in 1..n : before'[c][k] = before[c][k]
        /\ before'[c][n + 1] = Level(c)
    BY <1>0, <1>1, <2>1, <2>2, AppendProperties DEF StackInv
  <2>5. ASSUME NEW k \in 1..n
        PROVE  PspAfter(c, k)' = PspAfter(c, k)
    <3>1. CASE k = n
      BY <1>0, <2>3, <2>4, <3>1 DEF PspAfter, Level
    <3>2. CASE k # n
      <4>1. k + 1 \in 1..n /\ k # n + 1
        BY <3>2
      <4>2. QED
        BY <1>0, <2>3, <2>4, <3>2, <4>1 DEF PspAfter
    <3>3. QED
      BY <3>1, <3>2
  <2>6. /\ frame.exc = ipsr[c]
        /\ frame.ret = ThreadPSP <=> Bank(c) = "psp"
        /\ Bank(c) = "psp" => ipsr[c] = Thread
        /\ ReturnBank(frame.ret) = Bank(c)
        /\ frame.entry = IF Bank(c) = "psp" THEN sp[c]["msp"] ELSE ptr
        /\ frame.realigned = (p % 2 = 1)
        /\ frame.ptr = ptr
    <3>. HIDE DEF ptr
    <3>. QED  BY DEF ReturnBank, Bank, ThreadPSP, ThreadMSP, HandlerMSP, TypeOK
  <2>7. PspAfter(c, n + 1)' = IF Bank(c) = "psp" THEN ptr ELSE sp[c]["psp"]
    <3>1. PspAfter(c, n + 1)' = sp'[c]["psp"]
      BY <2>3 DEF PspAfter
    <3>2. sp'[c]["psp"] = IF Bank(c) = "psp" THEN ptr ELSE sp[c]["psp"]
      <4>. HIDE DEF ptr
      <4>. QED  BY <1>1, <2>1 DEF Banks
    <3>3. QED
      BY <3>1, <3>2
  <2>8. ipsr[c] = Thread <=> n + 1 = 1
    BY <1>0 DEF StackInv
  <2>9. /\ Level(c).ipsr = ipsr[c] /\ Level(c).sp = sp[c]
        /\ Level(c).onPsp = (Bank(c) = "psp")
    BY DEF Level
  <2>10. ASSUME NEW k \in 1..n
         PROVE  FrameInv(c, k)'
    <3>1. FrameInv(c, k)
      BY <1>0 DEF StackInv
    <3>2. frames'[c][k] = frames[c][k] /\ before'[c][k] = before[c][k]
      BY <2>3, <2>4
    <3>3. QED
      BY <2>5, <3>1, <3>2 DEF FrameInv
  <2>11. FrameInv(c, n + 1)'
    <3>1. p = sp[c][Bank(c)]
      OBVIOUS
    <3>2. frames'[c][n + 1] = frame /\ before'[c][n + 1] = Level(c)
      BY <2>3, <2>4
    <3>. HIDE DEF frame, ptr, p
    <3>3. sp[c][Bank(c)] = ptr + FrameWords + (IF p % 2 = 1 THEN 1 ELSE 0)
      BY <1>2, <3>1
    <3>4. QED
      BY <2>6, <2>7, <2>8, <2>9, <3>2, <3>3 DEF FrameInv
  <2>12. \A k \in 1..Len(frames'[c]) : FrameInv(c, k)'
    <3>1. ASSUME NEW k \in 1..(n + 1)
          PROVE  k \in 1..n \/ k = n + 1
      OBVIOUS
    <3>2. QED
      BY <2>3, <2>10, <2>11, <3>1
  <2>13. /\ Len(before'[c]) = Len(frames'[c])
         /\ ipsr'[c] = Thread <=> Len(frames'[c]) = 0
    BY <2>1, <2>3, <2>4
  <2>14. QED
    BY <2>12, <2>13 DEF StackInv
<1>6. QED
  BY <1>3, <1>4, <1>5 DEF TakeException, stack

\* Where the frame of the running handler is, and what its return leaves.
LEMMA FrameFound ==
    ASSUME TypeOK, NEW c \in Cores, StackInv(c), frames[c] # << >>,
           sp[c]["msp"] = Last(frames[c]).entry
    PROVE  LET f == Last(frames[c])
               b == Last(before[c])
           IN  /\ sp[c][ReturnBank(f.ret)] = f.ptr
               /\ b \in Context
               /\ f.exc = b.ipsr
               /\ f.ret = ThreadPSP <=> b.onPsp
               /\ b.onPsp => f.exc = Thread
               /\ \A bank \in Banks :
                     b.sp[bank] = IF bank = ReturnBank(f.ret)
                                  THEN f.ptr + FrameWords + (IF f.realigned THEN 1 ELSE 0)
                                  ELSE sp[c][bank]
<1>. DEFINE f == Last(frames[c])
            b == Last(before[c])
            n == Len(frames[c])
<1>1. /\ frames[c] \in Seq(Frame) /\ before[c] \in Seq(Context) /\ n \in Nat \ {0}
      /\ Len(before[c]) = n
  BY EmptySeq DEF TypeOK, StackInv
<1>2. f = frames[c][n] /\ b = before[c][n] /\ b \in Context
  BY <1>1, FrontFacts
<1>3. FrameInv(c, n)
  BY <1>1 DEF StackInv
<1>4. /\ f.exc = b.ipsr
      /\ f.ret = ThreadPSP <=> b.onPsp
      /\ b.onPsp => f.exc = Thread
      /\ b.sp[ReturnBank(f.ret)] = f.ptr + FrameWords + (IF f.realigned THEN 1 ELSE 0)
      /\ sp[c]["msp"] = IF b.onPsp THEN b.sp["msp"] ELSE f.ptr
      /\ sp[c]["psp"] = IF b.onPsp THEN f.ptr ELSE b.sp["psp"]
  <2>1. PspAfter(c, n) = sp[c]["psp"]
    BY DEF PspAfter
  <2>2. sp[c]["msp"] = f.entry
    OBVIOUS
  <2>. HIDE DEF f, b
  <2>3. QED
    BY <1>2, <1>3, <2>1, <2>2 DEF FrameInv
<1>. HIDE DEF f, b
<1>5. CASE b.onPsp
  BY <1>2, <1>4, <1>5 DEF ReturnBank, Banks, f, b
<1>6. CASE ~b.onPsp
  BY <1>2, <1>4, <1>6 DEF ReturnBank, Banks, f, b
<1>7. QED
  BY <1>5, <1>6

\* A return gives back the context its frame interrupted.
LEMMA ReturnRestores ==
    ASSUME TypeOK, NEW c \in Cores, StackInv(c), ExceptionReturn(c)
    PROVE  Level(c)' = Last(before[c])
<1>. DEFINE f == Last(frames[c])
            b == Last(before[c])
            bank == ReturnBank(f.ret)
            pad == IF f.realigned THEN 1 ELSE 0
<1>1. /\ sp[c][bank] = f.ptr
      /\ b \in Context
      /\ f.exc = b.ipsr
      /\ f.ret = ThreadPSP <=> b.onPsp
      /\ b.onPsp => f.exc = Thread
      /\ \A x \in Banks : b.sp[x] = IF x = bank THEN f.ptr + FrameWords + pad ELSE sp[c][x]
  BY FrameFound DEF ExceptionReturn
<1>2. bank \in Banks /\ sp[c] \in [Banks -> Int]
  BY DEF ReturnBank, Banks, TypeOK
<1>3. /\ sp'[c] = [sp[c] EXCEPT ![bank] = sp[c][bank] + FrameWords + pad]
      /\ ipsr'[c] = f.exc
      /\ spsel'[c] = IF f.exc = Thread THEN f.ret = ThreadPSP ELSE spsel[c]
  BY <1>2 DEF ExceptionReturn, TypeOK
<1>. HIDE DEF f, b, bank, pad
<1>4. /\ b = [ipsr |-> b.ipsr, sp |-> b.sp, onPsp |-> b.onPsp]
      /\ b.sp \in [Banks -> Int] /\ b.onPsp \in BOOLEAN
  BY <1>1 DEF Context
<1>5. sp'[c] = b.sp
  <2>1. sp'[c] \in [Banks -> Int]
    BY <1>1, <1>2, <1>3, <1>4
  <2>2. \A x \in Banks : sp'[c][x] = b.sp[x]
    BY <1>1, <1>2, <1>3
  <2>3. QED
    BY <1>4, <2>1, <2>2
<1>6. (Bank(c)' = "psp") = b.onPsp
  BY <1>1, <1>3, <1>4 DEF Bank
<1>7. QED
  BY <1>1, <1>3, <1>4, <1>5, <1>6 DEF Level, b

\* ... and leaves the stack as it was before the exception.
LEMMA StackPopped ==
    ASSUME TypeOK, NEW c \in Cores, StackInv(c), ExceptionReturn(c)
    PROVE  StackInv(c)'
<1>1. /\ frames[c] \in Seq(Frame) /\ before[c] \in Seq(Context)
      /\ Len(frames[c]) # 0 /\ Len(before[c]) = Len(frames[c])
  BY EmptySeq DEF TypeOK, StackInv, ExceptionReturn
<1>2. PICK n \in Nat : n + 1 = Len(frames[c])
  <2>1. Len(frames[c]) - 1 \in Nat /\ (Len(frames[c]) - 1) + 1 = Len(frames[c])
    BY <1>1
  <2>2. QED
    BY <2>1
<1>3. /\ frames'[c] = Front(frames[c]) /\ before'[c] = Front(before[c])
      /\ ipsr'[c] = Last(frames[c]).exc
  BY DEF ExceptionReturn, TypeOK
<1>4. /\ Len(frames'[c]) = n /\ Len(before'[c]) = n
      /\ \A k \in 1..n : frames'[c][k] = frames[c][k] /\ before'[c][k] = before[c][k]
      /\ Last(frames[c]) = frames[c][n + 1] /\ Last(before[c]) = before[c][n + 1]
  <2>1. n = Len(frames[c]) - 1 /\ n = Len(before[c]) - 1 /\ Len(before[c]) # 0
    BY <1>1, <1>2
  <2>2. /\ Len(Front(frames[c])) = n /\ Last(frames[c]) = frames[c][n + 1]
        /\ \A k \in 1..n : Front(frames[c])[k] = frames[c][k]
    BY <1>1, <1>2, <2>1, FrontFacts
  <2>3. /\ Len(Front(before[c])) = n /\ Last(before[c]) = before[c][n + 1]
        /\ \A k \in 1..n : Front(before[c])[k] = before[c][k]
    BY <1>1, <1>2, <2>1, FrontFacts
  <2>4. QED
    BY <1>3, <2>2, <2>3
<1>5. sp'[c] = before[c][n + 1].sp
  <2>1. Level(c)'.sp = sp'[c]
    BY DEF Level
  <2>2. Level(c)' = before[c][n + 1]
    BY <1>4, ReturnRestores
  <2>3. QED
    BY <2>1, <2>2
<1>6. FrameInv(c, n + 1)
  BY <1>2 DEF StackInv
<1>7. ipsr'[c] = Thread <=> n = 0
  BY <1>3, <1>4, <1>6 DEF FrameInv
<1>8. ASSUME NEW k \in 1..n
      PROVE  FrameInv(c, k)'
  <2>1. FrameInv(c, k)
    BY <1>2 DEF StackInv
  <2>2. PspAfter(c, k)' = PspAfter(c, k)
    <3>1. CASE k = n
      BY <1>2, <1>4, <1>5, <3>1 DEF PspAfter
    <3>2. CASE k # n
      <4>1. k + 1 \in 1..n /\ k # n + 1
        BY <3>2
      <4>2. QED
        BY <1>2, <1>4, <3>2, <4>1 DEF PspAfter
    <3>3. QED
      BY <3>1, <3>2
  <2>3. frames'[c][k] = frames[c][k] /\ before'[c][k] = before[c][k]
    BY <1>4
  <2>4. QED
    BY <2>1, <2>2, <2>3 DEF FrameInv
<1>9. QED
  BY <1>4, <1>7, <1>8 DEF StackInv

\* What a step does to the stack of one core: nothing, a reset, a return, or an
\* entry that the priorities allow unless it is an SVC.
Kept(d) ==
    /\ ipsr'[d] = ipsr[d] /\ frames'[d] = frames[d] /\ before'[d] = before[d]
    /\ ipsr[d] # Thread => sp'[d]["psp"] = sp[d]["psp"]
    /\ \A x \in Active(d) : Priority(d, x)' = Priority(d, x)

Emptied(d) == ipsr'[d] = Thread /\ frames'[d] = << >> /\ before'[d] = << >>

Returned(d) == ExceptionReturn(d) /\ prio' = prio

Entered(d) ==
    \E e \in Exceptions :
        /\ TakeException(d, e)
        /\ prio' = prio
        /\ e \notin {HardFault, SVCall} => Priority(d, e) < ExecPriority(d)

\* An entry by core c touches no other core.
LEMMA EntryElsewhere ==
    ASSUME TypeOK, NEW c \in Cores, NEW e \in Exceptions, TakeException(c, e), prio' = prio,
           NEW d \in Cores, d # c
    PROVE  Kept(d)
<1>1. /\ ipsr'[d] = ipsr[d] /\ sp'[d] = sp[d]
      /\ frames'[d] = frames[d] /\ before'[d] = before[d]
  BY DEF TakeException, TypeOK, regs, stack
<1>2. QED
  BY <1>1 DEF Kept, Priority

LEMMA StackCases ==
    ASSUME TypeOK, [Next]_vars, NEW d \in Cores
    PROVE  Kept(d) \/ Emptied(d) \/ Returned(d) \/ Entered(d)
<1>1. ASSUME UNCHANGED <<prio, ipsr, sp, stack>>
      PROVE  Kept(d)
  BY <1>1 DEF Kept, stack, Priority
<1>2. ASSUME NEW c \in Cores, ExceptionStep(c)
      PROVE  Kept(d) \/ Returned(d) \/ Entered(d)
  <2>1. ASSUME NEW e \in Exceptions, TakeException(c, e), prio' = prio,
               e \notin {HardFault, SVCall} => Priority(c, e) < ExecPriority(c)
        PROVE  Kept(d) \/ Entered(d)
    BY <2>1, EntryElsewhere DEF Entered
  <2>2. CASE TakePending(c)
    <3>1. PICK e \in pending[c] : IsHighest(c, e) /\ TakeException(c, e)
      BY <2>2 DEF TakePending
    <3>2. e \in Exceptions /\ Priority(c, e) < ExecPriority(c) /\ prio' = prio
      BY <2>2, <3>1, Numbers DEF TypeOK, IsHighest, Eligible, TakePending
    <3>3. QED
      BY <2>1, <3>1, <3>2
  <2>3. CASE Fault(c) \/ Svc(c)
    BY <2>1, <2>3, Numbers DEF Fault, Svc, nvic
  <2>4. CASE ExceptionReturn(c)
    <3>1. prio' = prio
      BY <2>4 DEF ExceptionReturn, nvic
    <3>2. CASE d # c
      BY <2>4, <3>1, <3>2 DEF ExceptionReturn, TypeOK, Kept, Priority
    <3>3. QED
      BY <2>4, <3>1, <3>2 DEF Returned
  <2>5. CASE Plain(c) \/ \E m \in BOOLEAN : SetPrimask(c, m)
    BY <1>1, <2>5 DEF Plain, SetPrimask, nvic, regs
  <2>6. QED
    BY <1>2, <2>2, <2>3, <2>4, <2>5 DEF ExceptionStep
<1>3. ASSUME NEW c \in Cores, StackStep(c)
      PROVE  Kept(d)
  <2>1. CASE \E s \in BOOLEAN : SetSpsel(c, s)
    BY <1>1, <2>1 DEF SetSpsel, nvic
  <2>2. CASE SetPsp(c)
    BY <2>2 DEF SetPsp, nvic, stack, Kept, Priority, TypeOK
  <2>3. CASE \E words \in {-1, 1} : PushPop(c, words)
    BY <2>3 DEF PushPop, Bank, nvic, stack, Kept, Priority, TypeOK, Banks
  <2>4. QED
    BY <1>3, <2>1, <2>2, <2>3 DEF StackStep
<1>4. ASSUME NEW c \in Cores, SleepStep(c)
      PROVE  Kept(d)
  BY <1>1, <1>4 DEF SleepStep, Idle, Wfi, Wfe, Sev, WriteSleepOnExit, ScsStore, nvic, regs
<1>5. ASSUME NEW c \in Cores, NvicStep(c)
      PROVE  Kept(d)
  <2>1. ASSUME NEW e \in Configurable, NEW p \in Levels, WritePriority(c, e, p)
        PROVE  Kept(d)
    <3>1. UNCHANGED <<ipsr, sp, stack>>
      BY <2>1 DEF WritePriority, ScsStore, regs
    <3>2. ASSUME NEW x \in Active(d)
          PROVE  Priority(d, x)' = Priority(d, x)
      BY <2>1, <3>2 DEF WritePriority, Priority, PriorityIn, TypeOK
    <3>3. QED
      BY <3>1, <3>2 DEF Kept, stack
  <2>2. QED
    BY <1>1, <1>5, <2>1 DEF NvicStep, WriteEnable, WritePending, ScsStore, regs
<1>6. CASE ResetStep
  <2>1. ASSUME NEW R \in SUBSET Cores, ResetCores(R)
        PROVE  Kept(d) \/ Emptied(d)
    BY <2>1 DEF ResetCores, Kept, Emptied, Priority
  <2>2. ASSUME NEW c \in Cores, Launch(c)
        PROVE  Kept(d) \/ Emptied(d)
    BY <2>2 DEF Launch, Kept, Emptied, Priority, nvic, TypeOK
  <2>3. QED
    BY <1>6, <2>1, <2>2 DEF ResetStep, SystemReset, WatchdogReset
<1>7. CASE IrqStep
  BY <1>1, <1>7 DEF IrqStep, RaiseIrq, LowerIrq, regs
<1>8. CASE UNCHANGED vars
  BY <1>1, <1>8 DEF vars, nvic, regs
<1>9. QED
  BY <1>2, <1>3, <1>4, <1>5, <1>6, <1>7, <1>8 DEF Next, Step

\* Every frame on every stack is the one its return needs.
THEOREM StacksHoldAlways == Spec => []StacksHold
<1>1. Init => StacksHold
  BY EmptySeq DEF Init, StacksHold, StackInv
<1>2. ASSUME TypeOK, StacksHold, [Next]_vars
      PROVE  StacksHold'
  <2>1. ASSUME NEW d \in Cores
        PROVE  StackInv(d)'
    <3>1. StackInv(d) /\ Len(frames[d]) \in Nat
      BY <1>2 DEF StacksHold, TypeOK
    <3>2. CASE Kept(d)
      BY <3>1, <3>2, StackKept DEF Kept, StackInv
    <3>3. CASE Emptied(d)
      BY <3>3, StackEmpty DEF Emptied
    <3>4. CASE Returned(d)
      BY <1>2, <3>1, <3>4, StackPopped DEF Returned
    <3>5. CASE Entered(d)
      BY <1>2, <3>1, <3>5, StackPushed DEF Entered
    <3>6. QED
      BY <1>2, <3>2, <3>3, <3>4, <3>5, StackCases
  <2>2. QED
    BY <2>1 DEF StacksHold
<1>3. QED
  BY <1>1, <1>2, TypeCorrect, PTL DEF Spec

\* A handler that returns finds the frame its own entry pushed.
THEOREM ReturnFindsFrameHolds == Spec => []ReturnFindsFrame
<1>1. TypeOK /\ StacksHold => ReturnFindsFrame
  BY FrameFound DEF StacksHold, ReturnFindsFrame
<1>2. QED
  BY <1>1, TypeCorrect, StacksHoldAlways, PTL

\* A return resumes what its exception interrupted.
THEOREM ReturnsResume == Spec => ResumesInterrupted
<1>1. TypeOK /\ StacksHold /\ [Next]_vars
        => [\A c \in Cores : ExceptionReturn(c) => Level(c)' = Last(before[c])]_vars
  BY ReturnRestores DEF StacksHold
<1>2. QED
  BY <1>1, TypeCorrect, StacksHoldAlways, PTL DEF Spec, ResumesInterrupted

-----------------------------------------------------------------------------
(* Nesting *)

Nested(d) ==
    \A k \in 2..Len(frames[d]) :
        Handler(d, k) # SVCall => Priority(d, Handler(d, k)) < Priority(d, frames[d][k].exc)

\* A stack that does not change stays nested, the priorities of what is active
\* being as they were.
LEMMA NestedKept ==
    ASSUME NEW d \in Cores, Len(frames[d]) \in Nat, Nested(d), Kept(d)
    PROVE  Nested(d)'
<1>1. ASSUME NEW k \in 2..Len(frames[d])
      PROVE  /\ Handler(d, k)' = Handler(d, k)
             /\ Handler(d, k) \in Active(d)
             /\ frames[d][k].exc \in Active(d)
  <2>1. k \in 1..Len(frames[d]) /\ (k # Len(frames[d]) => k + 1 \in 1..Len(frames[d]))
    OBVIOUS
  <2>2. \A j \in 1..Len(frames[d]) : frames[d][j].exc \in Active(d)
    BY DEF Active
  <2>3. QED
    BY <2>1, <2>2 DEF Handler, Kept, Active
<1>2. QED
  BY <1>1 DEF Nested, Kept

\* The priority rule of highest_pending_exception, whatever PRIMASK adds: what
\* is entered is more urgent than what runs.
LEMMA EntryMoreUrgent ==
    ASSUME TypeOK, NEW d \in Cores, NEW e \in Exceptions \ {SVCall}, ipsr[d] # Thread,
           \/ e = HardFault /\ ~(ExecPriority(d) <= -1)
           \/ e # HardFault /\ Priority(d, e) < ExecPriority(d)
    PROVE  Priority(d, e) < Priority(d, ipsr[d])
<1>1. \A x \in Exceptions : Priority(d, x) \in Int
  <2>1. prio[d] \in [Configurable -> Levels]
    BY DEF TypeOK
  <2>2. \A x \in Configurable : prio[d][x] \in Int
    BY <2>1, LevelsAssumption
  <2>3. QED
    BY <2>2 DEF Priority, PriorityIn, Exceptions
<1>2. Priority(d, e) \in Int /\ Priority(d, ipsr[d]) \in Int
  BY <1>1 DEF TypeOK
<1>3. Priority(d, HardFault) = -1
  BY DEF Priority, PriorityIn
<1>4. QED
  BY <1>2, <1>3 DEF ExecPriority

\* Entry and return keep the nesting.
LEMMA NestedEntered ==
    ASSUME TypeOK, NEW d \in Cores, StackInv(d), Nested(d), Entered(d)
    PROVE  Nested(d)'
<1>1. PICK n \in Nat : n = Len(frames[d])
  BY DEF TypeOK
<1>2. PICK e \in Exceptions :
          /\ TakeException(d, e)
          /\ prio' = prio
          /\ e \notin {HardFault, SVCall} => Priority(d, e) < ExecPriority(d)
  BY DEF Entered
<1>3. CASE ipsr' = ipsr /\ frames' = frames
  BY <1>2, <1>3 DEF Nested, Handler, Priority
<1>4. ASSUME NEW frame,
             frames' = [frames EXCEPT ![d] = Append(@, frame)],
             frame.exc = ipsr[d],
             ipsr' = [ipsr EXCEPT ![d] = e],
             ~(e = HardFault /\ ExecPriority(d) <= -1)
      PROVE  Nested(d)'
  <2>1. /\ Len(frames'[d]) = n + 1
        /\ \A k \in 1..n : frames'[d][k] = frames[d][k]
        /\ frames'[d][n + 1] = frame
        /\ ipsr'[d] = e
    BY <1>1, <1>4 DEF TypeOK
  <2>2. ASSUME NEW k \in 2..n
        PROVE  Handler(d, k)' = Handler(d, k) /\ frames'[d][k] = frames[d][k]
    <3>1. k \in 1..n /\ k # n + 1
      OBVIOUS
    <3>2. CASE k = n
      BY <1>1, <1>4, <2>1, <3>1, <3>2 DEF Handler
    <3>3. CASE k # n
      <4>1. k + 1 \in 1..n
        BY <3>3
      <4>2. QED
        BY <1>1, <2>1, <3>1, <3>3, <4>1 DEF Handler
    <3>4. QED
      BY <3>2, <3>3
  <2>3. Handler(d, n + 1)' = e
    BY <2>1 DEF Handler
  <2>4. n + 1 \in 2..(n + 1) /\ e # SVCall => Priority(d, e) < Priority(d, ipsr[d])
    <3>1. n + 1 \in 2..(n + 1) => ipsr[d] # Thread
      BY <1>1 DEF StackInv
    <3>2. QED
      BY <1>2, <1>4, <3>1, EntryMoreUrgent
  <2>5. \A x : Priority(d, x)' = Priority(d, x)
    BY <1>2 DEF Priority
  <2>6. ASSUME NEW k \in 2..(n + 1)
        PROVE  k \in 2..n \/ k = n + 1
    OBVIOUS
  <2>7. QED
    BY <1>1, <1>4, <2>1, <2>2, <2>3, <2>4, <2>5, <2>6 DEF Nested
<1>5. QED
  BY <1>2, <1>3, <1>4 DEF TakeException, regs, stack

LEMMA NestedReturned ==
    ASSUME TypeOK, NEW d \in Cores, StackInv(d), Nested(d), Returned(d)
    PROVE  Nested(d)'
<1>1. /\ frames[d] \in Seq(Frame) /\ Len(frames[d]) # 0
      /\ frames'[d] = Front(frames[d]) /\ ipsr'[d] = Last(frames[d]).exc
  BY EmptySeq DEF TypeOK, Returned, ExceptionReturn
<1>2. PICK n \in Nat : n + 1 = Len(frames[d])
  <2>1. Len(frames[d]) - 1 \in Nat /\ (Len(frames[d]) - 1) + 1 = Len(frames[d])
    BY <1>1
  <2>2. QED
    BY <2>1
<1>3. /\ Len(frames'[d]) = n
      /\ \A k \in 1..n : frames'[d][k] = frames[d][k]
      /\ ipsr'[d] = frames[d][n + 1].exc
  <2>1. n = Len(frames[d]) - 1
    BY <1>2
  <2>2. QED
    BY <1>1, <1>2, <2>1, FrontFacts
<1>4. ASSUME NEW k \in 2..n
      PROVE  Handler(d, k)' = Handler(d, k) /\ frames'[d][k] = frames[d][k]
  <2>1. k \in 1..n /\ k # n + 1 /\ (k # n => k + 1 \in 1..n)
    OBVIOUS
  <2>2. CASE k = n
    BY <1>2, <1>3, <2>1, <2>2 DEF Handler
  <2>3. CASE k # n
    BY <1>2, <1>3, <2>1, <2>3 DEF Handler
  <2>4. QED
    BY <2>2, <2>3
<1>5. ASSUME NEW k \in 2..n
      PROVE  k \in 2..Len(frames[d])
  BY <1>2
<1>6. \A x : Priority(d, x)' = Priority(d, x)
  BY DEF Returned, Priority
<1>7. QED
  BY <1>3, <1>4, <1>5, <1>6 DEF Nested

\* Only an SVC runs at a priority no more urgent than what it interrupted.
THEOREM NestingOrderedHolds == Spec => []NestingOrdered
<1>1. Init => NestingOrdered
  BY EmptySeq DEF Init, NestingOrdered
<1>2. ASSUME TypeOK, StacksHold, NestingOrdered, [Next]_vars
      PROVE  NestingOrdered'
  <2>1. ASSUME NEW d \in Cores
        PROVE  Nested(d)'
    <3>1. StackInv(d) /\ Nested(d) /\ Len(frames[d]) \in Nat
      BY <1>2 DEF StacksHold, NestingOrdered, Nested, TypeOK
    <3>2. CASE Emptied(d)
      BY <3>2, EmptySeq DEF Emptied, Nested
    <3>3. QED
      BY <1>2, <3>1, <3>2, StackCases, NestedKept, NestedEntered, NestedReturned
  <2>2. QED
    BY <2>1 DEF NestingOrdered, Nested
<1>3. QED
  BY <1>1, <1>2, TypeCorrect, StacksHoldAlways, PTL DEF Spec

-----------------------------------------------------------------------------
(* What is pending *)

\* The ways an exception of core c stops being pending
Accounts(c, e) ==
    \/ ipsr'[c] = e /\ Len(frames'[c]) = Len(frames[c]) + 1
    \/ lockup'[c]
    \/ e \in Irqs /\ LowerIrq(e)
    \/ WritePending(c, e, FALSE)
    \/ \E R \in SUBSET Cores : c \in R /\ ResetCores(R)

\* Exception entry: the handler runs on a new frame, or the core reports a lockup.
LEMMA EntryAccounts ==
    ASSUME TypeOK, NEW c \in Cores, NEW e, TakeException(c, e)
    PROVE  lockup'[c] \/ (ipsr'[c] = e /\ Len(frames'[c]) = Len(frames[c]) + 1)
<1>1. CASE lockup' = [lockup EXCEPT ![c] = TRUE]
  BY <1>1 DEF TypeOK
<1>2. CASE ipsr' = [ipsr EXCEPT ![c] = e] /\ \E f : frames' = [frames EXCEPT ![c] = Append(@, f)]
  <2>1. PICK f : frames' = [frames EXCEPT ![c] = Append(@, f)]
    BY <1>2
  <2>2. frames'[c] = Append(frames[c], f) /\ frames[c] \in Seq(Frame)
    BY <2>1 DEF TypeOK
  <2>3. Len(Append(frames[c], f)) = Len(frames[c]) + 1
    BY <2>2
  <2>4. ipsr'[c] = e
    BY <1>2 DEF TypeOK
  <2>5. QED
    BY <2>2, <2>3, <2>4
<1>3. QED
  BY <1>1, <1>2 DEF TakeException

LEMMA StepAccounts ==
    ASSUME TypeOK, NEW d \in Cores, Step(d), NEW c \in Cores, NEW e \in pending[c], e \notin pending'[c]
    PROVE  Accounts(c, e)
<1>1. CASE TakePending(d)
  <2>1. PICK f \in pending[d] : pending' = [pending EXCEPT ![d] = @ \ {f}] /\ TakeException(d, f)
    BY <1>1 DEF TakePending
  <2>2. c = d /\ e = f
    BY <2>1 DEF TypeOK
  <2>3. QED
    BY <2>1, <2>2, EntryAccounts DEF Accounts
<1>2. CASE \E f \in Pendable, on \in BOOLEAN : WritePending(d, f, on)
  <2>1. PICK f \in Pendable, on \in BOOLEAN : WritePending(d, f, on)
    BY <1>2
  <2>2. pending' = [pending EXCEPT ![d] = IF on THEN @ \cup {f} ELSE @ \ {f}]
    BY <2>1 DEF WritePending
  <2>3. c = d /\ e = f /\ on = FALSE
    BY <2>2 DEF TypeOK
  <2>4. QED
    BY <2>1, <2>3 DEF Accounts
<1>3. CASE UNCHANGED pending
  BY <1>3
<1>4. TakePending(d) \/ (\E f \in Pendable, on \in BOOLEAN : WritePending(d, f, on)) \/ UNCHANGED pending
  BY DEF Step, ExceptionStep, ExceptionReturn, Plain, Fault, Svc, SetPrimask, StackStep, SetSpsel, SetPsp,
         PushPop, SleepStep, Idle, Wfi, Wfe, Sev, WriteSleepOnExit, NvicStep, WriteEnable, WritePriority, nvic
<1>5. QED
  BY <1>1, <1>2, <1>3, <1>4

\* Nothing pending is lost: it runs, or its line, a store or a reset took it back, or its
\* entry has locked the core up.
THEOREM NoneDroppedHolds == Spec => NoneDropped
<1>1. ASSUME TypeOK, Next, NEW c \in Cores, NEW e \in pending[c], e \notin pending'[c]
      PROVE  Accounts(c, e)
  <2>1. ASSUME NEW d \in Cores, Step(d) PROVE Accounts(c, e)
    BY <1>1, <2>1, StepAccounts
  <2>2. CASE \E R \in SUBSET Cores : ResetCores(R)
    <3>1. PICK R \in SUBSET Cores : ResetCores(R)
      BY <2>2
    <3>2. c \in R
      BY <1>1, <3>1 DEF ResetCores
    <3>3. QED
      BY <3>1, <3>2 DEF Accounts
  <2>3. ASSUME NEW d \in Cores, Launch(d) PROVE Accounts(c, e)
    BY <1>1, <2>3 DEF Launch, nvic
  <2>4. ASSUME NEW i \in Irqs, RaiseIrq(i) PROVE Accounts(c, e)
    BY <1>1, <2>4 DEF RaiseIrq
  <2>5. ASSUME NEW i \in Irqs, LowerIrq(i) PROVE Accounts(c, e)
    <3>1. e = i
      BY <1>1, <2>5 DEF LowerIrq
    <3>2. QED
      BY <2>5, <3>1 DEF Accounts
  <2>6. QED
    BY <1>1, <2>1, <2>2, <2>3, <2>4, <2>5 DEF Next, ResetStep, IrqStep, SystemReset, WatchdogReset
<1>2. TypeOK /\ [Next]_vars
        => [\A c \in Cores : \A e \in pending[c] \ pending'[c] : Accounts(c, e)]_vars
  BY <1>1
<1>3. QED
  BY <1>2, TypeCorrect, PTL DEF Spec, NoneDropped, Accounts

-----------------------------------------------------------------------------
(* The arithmetic of the ALU *)

\* The top bit is worth half of what a word can hold.
LEMMA HalfIs ==
    ASSUME Width \in Nat \ {0}
    PROVE  /\ Half \in Nat \ {0} /\ Modulus = 2 * Half /\ Half = PowerOfTwo[Width - 1]
           /\ Word = 0 .. 2 * Half - 1 /\ \A x : Neg(x) <=> x >= Half
<1>1. Width - 1 \in Nat /\ (Width - 1) + 1 = Width
  OBVIOUS
<1>. DEFINE h == PowerOfTwo[Width - 1]
<1>2. h \in Nat \ {0} /\ Modulus = 2 * h
  BY <1>1, PowersOfTwo DEF Modulus
<1>3. Half = h
  <2>. HIDE DEF h
  <2>1. (h * 2 + 0) \div 2 = h
    BY <1>2, QuotientIs, 2 \in Nat \ {0}, 0 \in 0 .. 2 - 1
  <2>2. h * 2 + 0 = 2 * h
    BY <1>2
  <2>. QED
    BY <1>2, <2>1, <2>2 DEF Half
<1>. HIDE DEF h
<1>. QED
  BY <1>2, <1>3 DEF Word, Neg, Half, h

\* The adder adds, without a sign and with one: the carry is the bit above the
\* word, and the overflow is set just when the sum with a sign does not fit.
THEOREM AdderExact ==
    ASSUME Width \in Nat \ {0}, NEW x \in Word, NEW y \in Word, NEW carry \in BOOLEAN
    PROVE  LET r == AddWithCarry(x, y, carry)
               sum == Signed(x) + Signed(y) + Digit(carry)
           IN  /\ r.value \in Word /\ r.carry \in BOOLEAN /\ r.overflow \in BOOLEAN
               /\ x + y + Digit(carry) = r.value + Modulus * Digit(r.carry)
               /\ r.overflow <=> sum \notin (-Half)..(Half - 1)
               /\ ~r.overflow => Signed(r.value) = sum
               /\ r.overflow => Neg(r.value) = (sum >= 0)
<1>. DEFINE h == Half
            c == Digit(carry)
            v == (x + y + c) % Modulus
            k == x + y + c >= Modulus
            o == Neg(x) = Neg(y) /\ Neg(v) # Neg(x)
            r == AddWithCarry(x, y, carry)
            sum == Signed(x) + Signed(y) + c
<1>1. h \in Nat \ {0} /\ Modulus = 2 * h /\ x \in 0 .. 2 * h - 1 /\ y \in 0 .. 2 * h - 1
  BY HalfIs
<1>2. c \in {0, 1}
  BY DEF Digit
<1>3. r.value = v /\ r.carry = k /\ r.overflow = o
  BY DEF AddWithCarry, Digit
<1>4. v = IF k THEN x + y + c - 2 * h ELSE x + y + c
  <2>. HIDE DEF c, h
  <2>1. CASE k
    <3>. DEFINE s == x + y + c - 2 * h
    <3>1. s \in 0 .. 2 * h - 1 /\ 1 * (2 * h) + s = x + y + c
      BY <1>1, <1>2, <2>1
    <3>2. (1 * (2 * h) + s) % (2 * h) = s
      <4>. HIDE DEF s
      <4>. QED  BY <1>1, <3>1, Residue, 1 \in Int, 2 * h \in Nat \ {0}
    <3>. QED
      BY <1>1, <2>1, <3>1, <3>2
  <2>2. CASE ~k
    <3>. DEFINE s == x + y + c
    <3>1. s \in 0 .. 2 * h - 1 /\ 0 * (2 * h) + s = s
      BY <1>1, <1>2, <2>2
    <3>2. (0 * (2 * h) + s) % (2 * h) = s
      <4>. HIDE DEF s
      <4>. QED  BY <1>1, <3>1, Residue, 0 \in Int, 2 * h \in Nat \ {0}
    <3>. QED
      BY <1>1, <2>2, <3>1, <3>2
  <2>. QED
    BY <2>1, <2>2
<1>5. /\ v \in 0 .. 2 * h - 1
      /\ x + y + c = v + 2 * h * Digit(k)
  <2>. HIDE DEF c, h, v
  <2>. QED  BY <1>1, <1>2, <1>4 DEF Digit
<1>6. /\ Signed(x) = IF x >= h THEN x - 2 * h ELSE x
      /\ Signed(y) = IF y >= h THEN y - 2 * h ELSE y
      /\ Signed(v) = IF v >= h THEN v - 2 * h ELSE v
  BY <1>1 DEF Signed
<1>7. o <=> ((x >= h <=> y >= h) /\ ~(v >= h <=> x >= h))
  <2>. HIDE DEF v
  <2>1. \A z : Neg(z) \in BOOLEAN /\ (Neg(z) <=> z >= h)
    BY HalfIs DEF Neg
  <2>. HIDE DEF h
  <2>. QED
    BY <2>1
<1>8. /\ o <=> sum \notin (-h)..(h - 1)
      /\ ~o => Signed(v) = sum
      /\ o => (v >= h <=> sum >= 0)
  <2>. HIDE DEF c, h, v, o
  <2>1. x \in Int /\ y \in Int /\ v \in Int /\ c \in Int /\ h \in Int
    BY <1>1, <1>2, <1>5
  <2>2. CASE x >= h /\ y >= h
    BY <1>1, <1>2, <1>4, <1>5, <1>6, <1>7, <2>1, <2>2
  <2>3. CASE x >= h /\ ~(y >= h)
    BY <1>1, <1>2, <1>4, <1>5, <1>6, <1>7, <2>1, <2>3
  <2>4. CASE ~(x >= h) /\ y >= h
    BY <1>1, <1>2, <1>4, <1>5, <1>6, <1>7, <2>1, <2>4
  <2>5. CASE ~(x >= h) /\ ~(y >= h)
    BY <1>1, <1>2, <1>4, <1>5, <1>6, <1>7, <2>1, <2>5
  <2>. QED
    BY <2>2, <2>3, <2>4, <2>5
<1>9. Neg(v) <=> v >= h
  BY HalfIs
<1>10. Neg(v) \in BOOLEAN
  BY DEF Neg
<1>. HIDE DEF r, v, k, o, c, h, sum
<1>11. r.value \in Word /\ r.carry \in BOOLEAN /\ r.overflow \in BOOLEAN
  BY <1>1, <1>3, <1>5, HalfIs DEF k, o, h
<1>12. x + y + c = r.value + Modulus * Digit(r.carry)
  BY <1>1, <1>3, <1>5
<1>13. /\ r.overflow <=> sum \notin (-h)..(h - 1)
       /\ ~r.overflow => Signed(r.value) = sum
       /\ r.overflow => Neg(r.value) = (sum >= 0)
  BY <1>3, <1>8, <1>9, <1>10 DEF sum
<1>. QED
  BY <1>11, <1>12, <1>13 DEF r, c, h, sum

-----------------------------------------------------------------------------
\* The complement of a word is one less than its negative.
LEMMA ComplementIs ==
    ASSUME Width \in Nat \ {0}, NEW y \in Word
    PROVE  /\ Complement(y) \in Word /\ Complement(y) = Modulus - 1 - y
           /\ Signed(Complement(y)) = - Signed(y) - 1
<1>1. Half \in Nat \ {0} /\ Modulus = 2 * Half /\ Word = 0 .. 2 * Half - 1
  BY HalfIs
<1>2. Complement(y) = Modulus - 1 - y
  BY DEF Complement
<1>. QED
  BY <1>1, <1>2 DEF Signed

\* A subtraction, which adds the complement and one
LEMMA Difference ==
    ASSUME Width \in Nat \ {0}, NEW x \in Word, NEW y \in Word
    PROVE  LET r == AddWithCarry(x, Complement(y), TRUE)
               difference == Signed(x) - Signed(y)
           IN  /\ r.value \in Word /\ r.carry \in BOOLEAN /\ r.overflow \in BOOLEAN
               /\ r.value = (x - y) % Modulus
               /\ r.carry <=> x >= y
               /\ r.value = 0 <=> x = y
               /\ r.overflow <=> difference \notin (-Half)..(Half - 1)
               /\ (Neg(r.value) = r.overflow) <=> difference >= 0
<1>. DEFINE r == AddWithCarry(x, Complement(y), TRUE)
            h == Half
            d == Signed(x) - Signed(y)
            v == r.value
<1>1. h \in Nat \ {0} /\ Modulus = 2 * h /\ x \in 0 .. 2 * h - 1 /\ y \in 0 .. 2 * h - 1
  BY HalfIs
<1>2. Digit(TRUE) = 1
  BY DEF Digit
<1>3. Complement(y) \in Word /\ Complement(y) = 2 * h - 1 - y /\ Signed(Complement(y)) = - Signed(y) - 1
  BY <1>1, ComplementIs
<1>4. Signed(x) \in Int /\ Signed(y) \in Int
  <2>. HIDE DEF h
  <2>. QED  BY <1>1 DEF Signed
<1>5. Signed(x) + Signed(Complement(y)) + 1 = d /\ d \in Int
  BY <1>3, <1>4
<1>6. /\ v \in Word /\ r.carry \in BOOLEAN /\ r.overflow \in BOOLEAN
      /\ x + Complement(y) + 1 = v + Modulus * Digit(r.carry)
      /\ r.overflow <=> d \notin (-h)..(h - 1)
      /\ ~r.overflow => Signed(v) = d
      /\ r.overflow => Neg(v) = (d >= 0)
  <2>1. TRUE \in BOOLEAN
    OBVIOUS
  <2>. HIDE DEF d, h
  <2>2. LET s == Signed(x) + Signed(Complement(y)) + Digit(TRUE)
        IN  /\ v \in Word /\ r.carry \in BOOLEAN /\ r.overflow \in BOOLEAN
            /\ x + Complement(y) + Digit(TRUE) = v + Modulus * Digit(r.carry)
            /\ r.overflow <=> s \notin (-h)..(h - 1)
            /\ ~r.overflow => Signed(v) = s
            /\ r.overflow => Neg(v) = (s >= 0)
    BY <1>3, <2>1, AdderExact, Zenon DEF h
  <2>. QED
    BY <1>2, <1>5, <2>2
<1>. HIDE DEF r
<1>7. v \in 0 .. 2 * h - 1 /\ v \in Int
  BY <1>1, <1>6, HalfIs
<1>8. v = (x - y) % Modulus /\ (r.carry <=> x >= y) /\ (v = 0 <=> x = y)
  <2>1. CASE r.carry
    <3>1. Digit(r.carry) = 1
      BY <2>1 DEF Digit
    <3>2. v = x - y
      <4>. HIDE DEF v, h
      <4>. QED  BY <1>1, <1>3, <1>6, <1>7, <3>1
    <3>3. v = (x - y) % Modulus
      <4>. HIDE DEF v, h
      <4>1. (0 * (2 * h) + v) % (2 * h) = v
        BY <1>1, <1>7, Residue, 0 \in Int, 2 * h \in Nat \ {0}
      <4>. QED
        BY <1>1, <1>7, <3>2, <4>1
    <3>. HIDE DEF v, h
    <3>4. x >= y /\ (v = 0 <=> x = y)
      BY <1>1, <1>7, <3>2
    <3>. QED
      BY <2>1, <3>3, <3>4
  <2>2. CASE ~r.carry
    <3>1. Digit(r.carry) = 0
      BY <2>2 DEF Digit
    <3>2. v = x - y + 2 * h
      <4>. HIDE DEF v, h
      <4>. QED  BY <1>1, <1>3, <1>6, <1>7, <3>1
    <3>3. v = (x - y) % Modulus
      <4>. HIDE DEF v, h
      <4>1. ((-1) * (2 * h) + v) % (2 * h) = v
        BY <1>1, <1>7, Residue, -1 \in Int, 2 * h \in Nat \ {0}
      <4>. QED
        BY <1>1, <1>7, <3>2, <4>1
    <3>. HIDE DEF v, h
    <3>4. ~(x >= y) /\ (v = 0 <=> x = y)
      BY <1>1, <1>7, <3>2
    <3>. QED
      BY <2>2, <3>3, <3>4
  <2>. QED
    BY <2>1, <2>2
<1>9. (Neg(v) = r.overflow) <=> d >= 0
  <2>1. Neg(v) \in BOOLEAN /\ (Neg(v) <=> v >= h)
    BY HalfIs DEF Neg
  <2>2. CASE r.overflow
    <3>. HIDE DEF v, d, h
    <3>. QED  BY <1>6, <2>1, <2>2
  <2>3. CASE ~r.overflow
    <3>1. Signed(v) = d
      BY <1>6, <2>3
    <3>2. Neg(v) <=> ~(d >= 0)
      <4>. HIDE DEF v, h, d
      <4>1. Signed(v) = IF v >= h THEN v - 2 * h ELSE v
        BY <1>1 DEF Signed, h
      <4>. QED
        BY <1>1, <1>7, <2>1, <3>1, <4>1
    <3>. HIDE DEF v, d, h
    <3>. QED
      BY <1>6, <2>1, <2>3, <3>2
  <2>. HIDE DEF v, d, h
  <2>. QED
    BY <1>6, <2>2, <2>3
<1>. HIDE DEF d, h, v
<1>10. /\ v \in Word /\ r.carry \in BOOLEAN /\ r.overflow \in BOOLEAN
       /\ v = (x - y) % Modulus
       /\ r.carry <=> x >= y
       /\ v = 0 <=> x = y
       /\ r.overflow <=> d \notin (-h)..(h - 1)
       /\ (Neg(v) = r.overflow) <=> d >= 0
  BY <1>6, <1>8, <1>9
<1>. QED
  BY <1>10 DEF r, d, v, h

\* The flags after a comparison of x with y
Compared(x, y) ==
    LET r == AddWithCarry(x, Complement(y), TRUE)
    IN  [n |-> Neg(r.value), z |-> r.value = 0, c |-> r.carry, v |-> r.overflow]

\* After a comparison every condition means what its name says, for words of
\* any width (condition_holds in registers.cpp, add_with_carry in alu.cpp).
THEOREM ConditionsExact ==
    ASSUME Width \in Nat \ {0}, NEW x \in Word, NEW y \in Word, NEW cond \in 0..13
    PROVE  Holds(Compared(x, y), cond) <=> Relation(cond, x, y)
<1>. DEFINE f == Compared(x, y)
            d == Signed(x) - Signed(y)
            h == Half
            fits == d \in (-h)..(h - 1)
            top == (x - y) % Modulus >= h
<1>1. /\ f.n \in BOOLEAN /\ f.z \in BOOLEAN /\ f.c \in BOOLEAN /\ f.v \in BOOLEAN
      /\ f.n <=> top
      /\ f.z <=> x = y
      /\ f.c <=> x >= y
      /\ f.v <=> ~fits
      /\ (f.n = f.v) <=> d >= 0
  <2>. DEFINE r == AddWithCarry(x, Complement(y), TRUE)
  <2>1. f.n = Neg(r.value) /\ f.z = (r.value = 0) /\ f.c = r.carry /\ f.v = r.overflow
    BY DEF Compared
  <2>2. /\ r.value \in Word /\ r.carry \in BOOLEAN /\ r.overflow \in BOOLEAN
        /\ r.value = (x - y) % Modulus
        /\ r.carry <=> x >= y
        /\ r.value = 0 <=> x = y
        /\ r.overflow <=> d \notin (-h)..(h - 1)
        /\ (Neg(r.value) = r.overflow) <=> d >= 0
    BY Difference, Zenon
  <2>3. Neg(r.value) \in BOOLEAN /\ (Neg(r.value) <=> r.value >= h)
    <3>. HIDE DEF r
    <3>. QED  BY HalfIs DEF Neg
  <2>4. r.value >= h <=> top
    BY <2>2
  <2>. HIDE DEF r, f, d, h, top
  <2>5. f.n <=> top
    BY <2>1, <2>3, <2>4
  <2>. QED
    BY <2>1, <2>2, <2>3, <2>5
<1>2. x \in Int /\ y \in Int /\ d \in Int /\ (d = 0 <=> x = y)
  <2>1. Half \in Nat \ {0} /\ Modulus = 2 * Half /\ x \in 0 .. 2 * Half - 1 /\ y \in 0 .. 2 * Half - 1
    BY HalfIs
  <2>. QED
    BY <2>1 DEF Signed
<1>3. /\ x < y <=> ~(x >= y)
      /\ x > y <=> (x >= y /\ ~(x = y))
      /\ x <= y <=> ~(x >= y /\ ~(x = y))
      /\ d < 0 <=> ~(d >= 0)
      /\ d > 0 <=> (d >= 0 /\ ~(x = y))
      /\ d <= 0 <=> ~(d >= 0 /\ ~(x = y))
  <2>. HIDE DEF d
  <2>1. x < y <=> ~(x >= y)
    BY <1>2
  <2>2. x > y <=> (x >= y /\ ~(x = y))
    BY <1>2
  <2>3. x <= y <=> ~(x >= y /\ ~(x = y))
    BY <1>2
  <2>4. d < 0 <=> ~(d >= 0)
    BY <1>2
  <2>5. d > 0 <=> (d >= 0 /\ ~(d = 0))
    BY <1>2
  <2>6. d <= 0 <=> ~(d >= 0 /\ ~(d = 0))
    BY <1>2
  <2>. QED
    BY <1>2, <2>1, <2>2, <2>3, <2>4, <2>5, <2>6, Zenon
<1>4. /\ Holds(f, 0) <=> f.z
      /\ Holds(f, 1) <=> ~f.z
      /\ Holds(f, 2) <=> f.c
      /\ Holds(f, 3) <=> ~f.c
      /\ Holds(f, 4) <=> f.n
      /\ Holds(f, 5) <=> ~f.n
      /\ Holds(f, 6) <=> f.v
      /\ Holds(f, 7) <=> ~f.v
  <2>. HIDE DEF f
  <2>. QED  BY <1>1 DEF Holds
<1>5. /\ Holds(f, 8) <=> (f.c /\ ~f.z)
      /\ Holds(f, 9) <=> ~(f.c /\ ~f.z)
      /\ Holds(f, 10) <=> f.n = f.v
      /\ Holds(f, 11) <=> ~(f.n = f.v)
      /\ Holds(f, 12) <=> (f.n = f.v /\ ~f.z)
      /\ Holds(f, 13) <=> ~(f.n = f.v /\ ~f.z)
  <2>. HIDE DEF f
  <2>. QED  BY <1>1 DEF Holds
<1>6. /\ Relation(0, x, y) <=> x = y
      /\ Relation(1, x, y) <=> x # y
      /\ Relation(2, x, y) <=> x >= y
      /\ Relation(3, x, y) <=> x < y
      /\ Relation(4, x, y) <=> top
      /\ Relation(5, x, y) <=> (x - y) % Modulus < h
      /\ Relation(6, x, y) <=> ~fits
      /\ Relation(7, x, y) <=> fits
      /\ Relation(8, x, y) <=> x > y
      /\ Relation(9, x, y) <=> x <= y
      /\ Relation(10, x, y) <=> d >= 0
      /\ Relation(11, x, y) <=> d < 0
      /\ Relation(12, x, y) <=> d > 0
      /\ Relation(13, x, y) <=> d <= 0
  BY DEF Relation
<1>7. top <=> ~((x - y) % Modulus < h)
  <2>1. (x - y) % Modulus \in Int /\ h \in Int
    BY HalfIs
  <2>. HIDE DEF h
  <2>. QED  BY <2>1
<1>. HIDE DEF f, d, h, fits, top
<1>. DEFINE Right(k) == Holds(f, k) <=> Relation(k, x, y)
<1>8. Right(0) /\ Right(1) /\ Right(6) /\ Right(7)
  BY <1>1, <1>4, <1>6
<1>9. Right(4) /\ Right(5)
  BY <1>1, <1>4, <1>6, <1>7
<1>10. Right(2) /\ Right(3)
  BY <1>1, <1>3, <1>4, <1>6, Zenon
<1>11. Right(8) /\ Right(9)
  BY <1>1, <1>3, <1>5, <1>6, Zenon
<1>12. Right(10) /\ Right(11)
  BY <1>1, <1>3, <1>5, <1>6, Zenon
<1>13. Right(12) /\ Right(13)
  BY <1>1, <1>3, <1>5, <1>6, Zenon
<1>. HIDE DEF Right
<1>14. Right(cond)
  <2>1. cond \in {0, 1, 2, 3, 4, 5, 6, 7, 8, 9, 10, 11, 12, 13}
    OBVIOUS
  <2>. QED
    BY <1>8, <1>9, <1>10, <1>11, <1>12, <1>13, <2>1
<1>. QED
  BY <1>14 DEF Right, f

-----------------------------------------------------------------------------
(* Shifts by one bit more *)

\* A quotient by twice as much is half of the quotient.
LEMMA HalveQuotient ==
    ASSUME NEW p \in Nat \ {0}, NEW x \in Int
    PROVE  x \div (2 * p) = (x \div p) \div 2
<1>. DEFINE a == x \div p
            b == x % p
            e == a \div 2
            o == a % 2
            s == o * p + b
<1>1. x = a * p + b /\ a \in Int /\ b \in 0 .. p - 1
  BY Quotient
<1>2. a = e * 2 + o /\ e \in Int /\ o \in 0 .. 2 - 1
  <2>. HIDE DEF a
  <2>. QED  BY <1>1, Quotient, 2 \in Nat \ {0}
<1>3. o = 0 \/ o = 1
  <2>. HIDE DEF o
  <2>. QED  BY <1>2
<1>. HIDE DEF a, b, e, o
<1>4. x = e * (2 * p) + s /\ s \in 0 .. 2 * p - 1 /\ 2 * p \in Nat \ {0}
  <2>1. CASE o = 0
    BY <1>1, <1>2, <2>1
  <2>2. CASE o = 1
    BY <1>1, <1>2, <2>2
  <2>. QED
    BY <1>3, <2>1, <2>2
<1>. HIDE DEF s
<1>5. (e * (2 * p) + s) \div (2 * p) = e
  BY <1>2, <1>4, QuotientIs
<1>. QED
  BY <1>4, <1>5 DEF e, a

\* A multiplication by twice as much, in words of 2 * h; q is the rest of the half.
Doubled(x, p, q, h) ==
    LET v == (x * p) % (2 * h)
    IN  /\ v \in 0 .. 2 * h - 1
        /\ (x * (2 * p)) % (2 * h) = (2 * v) % (2 * h)
        /\ v \div h = (x \div q) % 2

LEMMA DoubleProduct ==
    ASSUME NEW p \in Nat \ {0}, NEW q \in Nat \ {0}, NEW h \in Nat \ {0}, h = p * q,
           NEW x \in 0 .. 2 * h - 1
    PROVE  Doubled(x, p, q, h)
<1>. DEFINE a == x \div q
            b == x % q
            e == a \div 2
            o == a % 2
            s == o * h + b * p
            t == b * p
            M == 2 * h
<1>1. x = a * q + b /\ a \in Int /\ b \in 0 .. q - 1
  BY Quotient
<1>2. a = e * 2 + o /\ e \in Int /\ o \in 0 .. 2 - 1
  <2>. HIDE DEF a
  <2>. QED  BY <1>1, Quotient, 2 \in Nat \ {0}
<1>3. o = 0 \/ o = 1
  <2>. HIDE DEF o
  <2>. QED  BY <1>2
<1>. HIDE DEF a, b, e, o
<1>4. t \in 0 .. h - 1
  <2>1. b * p <= (q - 1) * p /\ b * p >= 0 /\ b * p \in Int
    BY <1>1
  <2>2. (q - 1) * p = h - p
    OBVIOUS
  <2>. QED
    BY <2>1, <2>2
<1>5. x * p = e * M + s
  <2>1. x * p = a * (q * p) + b * p
    BY <1>1
  <2>2. q * p = h
    OBVIOUS
  <2>3. a * h = e * (2 * h) + o * h
    BY <1>1, <1>2
  <2>4. x * p = e * M + o * h + t
    BY <2>1, <2>2, <2>3
  <2>5. o * h \in Int /\ e * M \in Int /\ t \in Int
    BY <1>2, <1>4
  <2>. HIDE DEF t, M
  <2>6. s = o * h + t
    BY DEF t
  <2>. HIDE DEF s
  <2>. QED
    BY <2>4, <2>5, <2>6
<1>. HIDE DEF t
<1>6. s = o * h + t
  BY DEF t
<1>. HIDE DEF s
<1>7. s \in 0 .. M - 1 /\ M \in Nat \ {0}
  <2>1. CASE o = 0
    BY <1>4, <1>6, <2>1
  <2>2. CASE o = 1
    BY <1>4, <1>6, <2>2
  <2>. QED
    BY <1>3, <2>1, <2>2
<1>. HIDE DEF M
<1>8. (x * p) % M = s
  <2>1. (e * M + s) % M = s
    BY <1>2, <1>7, Residue
  <2>. QED
    BY <1>5, <2>1
<1>9. (x * (2 * p)) % M = (2 * s) % M
  <2>. DEFINE u == 2 * s
              k == u \div M
              r == u % M
  <2>1. u \in Int
    BY <1>7
  <2>2. u = k * M + r /\ k \in Int /\ r \in 0 .. M - 1
    <3>. HIDE DEF u
    <3>. QED  BY <1>7, <2>1, Quotient
  <2>. HIDE DEF k, r
  <2>3. x * (2 * p) = 2 * (x * p)
    OBVIOUS
  <2>4. 2 * (x * p) = (2 * e) * M + u
    BY <1>2, <1>5, <1>7
  <2>5. (2 * e) * M + u = (2 * e + k) * M + r
    <3>. HIDE DEF u
    <3>. QED  BY <1>2, <1>7, <2>2
  <2>6. ((2 * e + k) * M + r) % M = r
    BY <1>2, <1>7, <2>2, Residue
  <2>. QED
    BY <2>3, <2>4, <2>5, <2>6 DEF r
<1>10. s \div h = o
  BY <1>2, <1>3, <1>4, <1>6, QuotientIs
<1>. QED
  BY <1>7, <1>8, <1>9, <1>10 DEF M, o, a, Doubled

\* A rotation by one bit more
Turned(x, p, q, h) ==
    LET r == (x \div p) + ((x * (2 * q)) % (2 * h))
        turned == (x \div (2 * p)) + ((x * q) % (2 * h))
    IN  /\ r \in 0 .. 2 * h - 1
        /\ turned = (r \div 2) + h * (r % 2)
        /\ turned >= h <=> r % 2 = 1
        /\ r % 2 \in {0, 1}

LEMMA TurnOneBit ==
    ASSUME NEW p \in Nat \ {0}, NEW q \in Nat \ {0}, NEW h \in Nat \ {0}, h = p * q,
           NEW x \in 0 .. 2 * h - 1
    PROVE  Turned(x, p, q, h)
<1>. DEFINE a == x \div p
            b == x % p
            e == a \div 2
            o == a % 2
            t == b * q
            s == o * p + b
            M == 2 * h
            r == a + ((x * (2 * q)) % M)
            turned == (x \div (2 * p)) + ((x * q) % M)
<1>1. x = a * p + b /\ a \in Int /\ b \in 0 .. p - 1
  BY Quotient
<1>2. a = e * 2 + o /\ e \in Int /\ o \in 0 .. 2 - 1
  <2>. HIDE DEF a
  <2>. QED  BY <1>1, Quotient, 2 \in Nat \ {0}
<1>3. o = 0 \/ o = 1
  <2>. HIDE DEF o
  <2>. QED  BY <1>2
<1>4. a >= 0
  <2>1. x \in Nat
    OBVIOUS
  <2>. QED
    BY <1>1, <2>1, QuotientBelow
<1>. HIDE DEF a, b, e, o
<1>5. a < 2 * q
  <2>1. SUFFICES ASSUME a >= 2 * q PROVE FALSE
    BY <1>1
  <2>2. a * p >= (2 * q) * p
    BY <1>1, <2>1
  <2>3. (2 * q) * p = 2 * h /\ a * p \in Int
    BY <1>1
  <2>. QED
    BY <1>1, <2>2, <2>3
<1>6. t \in 0 .. h - q
  <2>1. b * q <= (p - 1) * q /\ b * q >= 0 /\ b * q \in Int
    BY <1>1
  <2>2. (p - 1) * q = h - q
    OBVIOUS
  <2>. QED
    BY <2>1, <2>2
<1>7. x * (2 * q) = a * M + 2 * t
  <2>1. x * (2 * q) = a * (2 * (p * q)) + 2 * (b * q)
    BY <1>1
  <2>. QED
    BY <2>1
<1>8. x = e * (2 * p) + s /\ s \in 0 .. 2 * p - 1 /\ 2 * p \in Nat \ {0}
  <2>1. CASE o = 0
    BY <1>1, <1>2, <2>1
  <2>2. CASE o = 1
    BY <1>1, <1>2, <2>2
  <2>. QED
    BY <1>3, <2>1, <2>2
<1>9. x * q = e * M + (o * h + t)
  <2>1. x * q = a * (p * q) + b * q
    BY <1>1
  <2>2. a * h = e * (2 * h) + o * h
    BY <1>1, <1>2
  <2>3. x * q = (e * M + o * h) + t
    BY <2>1, <2>2
  <2>4. e * M \in Int /\ o * h \in Int /\ t \in Int
    BY <1>2, <1>6
  <2>. HIDE DEF t, M
  <2>. QED
    BY <2>3, <2>4
<1>. HIDE DEF t
<1>10. 2 * t \in 0 .. M - 1 /\ o * h + t \in 0 .. M - 1 /\ M \in Nat \ {0} /\ o * h \in Int
  <2>1. CASE o = 0
    BY <1>6, <2>1
  <2>2. CASE o = 1
    BY <1>6, <2>2
  <2>. QED
    BY <1>3, <2>1, <2>2
<1>11. (x * (2 * q)) % M = 2 * t /\ (x * q) % M = o * h + t
  <2>. HIDE DEF M
  <2>1. (a * M + 2 * t) % M = 2 * t
    BY <1>1, <1>10, Residue
  <2>2. (e * M + (o * h + t)) % M = o * h + t
    <3>. DEFINE w == o * h + t
    <3>. HIDE DEF w
    <3>1. w \in 0 .. M - 1
      BY <1>10 DEF w
    <3>2. (e * M + w) % M = w
      BY <1>2, <1>10, <3>1, Residue
    <3>. QED
      BY <3>2 DEF w
  <2>. QED
    BY <1>7, <1>9, <2>1, <2>2
<1>12. x \div (2 * p) = e
  <2>. HIDE DEF s
  <2>. QED  BY <1>2, <1>8, QuotientIs
<1>13. r = a + 2 * t /\ turned = e + (o * h + t)
  BY <1>11, <1>12 DEF a
<1>. HIDE DEF r, turned, s
<1>14. r = (e + t) * 2 + o /\ e + t \in 0 .. h - 1 /\ r \in 0 .. M - 1
  BY <1>1, <1>2, <1>3, <1>4, <1>5, <1>6, <1>13
<1>15. r \div 2 = e + t /\ r % 2 = o
  BY <1>2, <1>14, QuotientIs, Residue, 2 \in Nat \ {0}, e + t \in Int
<1>16. turned = (r \div 2) + h * (r % 2) /\ (turned >= h <=> r % 2 = 1)
  <2>1. CASE o = 0
    BY <1>2, <1>6, <1>13, <1>14, <1>15, <2>1
  <2>2. CASE o = 1
    BY <1>2, <1>6, <1>13, <1>14, <1>15, <2>2
  <2>. QED
    BY <1>3, <2>1, <2>2
<1>17. r % 2 \in {0, 1} /\ r \in 0 .. 2 * h - 1
  BY <1>3, <1>14, <1>15
<1>. QED
  BY <1>16, <1>17 DEF r, turned, a, M, Turned

-----------------------------------------------------------------------------
\* The words and the numbers around a shift by n bits
LEMMA ShiftScene ==
    ASSUME Width \in Nat \ {0}, NEW x \in Word
    PROVE  /\ Half \in Nat \ {0} /\ Modulus = 2 * Half /\ Modulus \in Nat \ {0}
           /\ x \in 0 .. 2 * Half - 1 /\ x \in 0 .. Modulus - 1
           /\ Neg(x) <=> x >= Half
           /\ (0 * Modulus + x) % Modulus = x /\ 0 * Modulus + x = x
<1>1. Half \in Nat \ {0} /\ Modulus = 2 * Half /\ x \in 0 .. 2 * Half - 1
  BY HalfIs
<1>2. Modulus \in Nat \ {0} /\ x \in 0 .. Modulus - 1
  BY <1>1
<1>3. (0 * Modulus + x) % Modulus = x
  BY <1>2, Residue, 0 \in Int
<1>4. Neg(x) <=> x >= Half
  BY HalfIs
<1>5. 0 * Modulus + x = x
  BY <1>2
<1>. QED
  BY <1>1, <1>2, <1>3, <1>4, <1>5

LEMMA OneOfBit ==
    ASSUME NEW b \in {0, 1}
    PROVE  Digit(b = 1) = b
BY DEF Digit

LEMMA Parity ==
    ASSUME NEW a \in Int
    PROVE  a % 2 \in {0, 1}
OBVIOUS

LEMMA LeftByOneMore ==
    ASSUME Width \in Nat \ {0}, NEW x \in Word, NEW c \in BOOLEAN, NEW n \in Nat
    PROVE  Pair(Shift(x, "LSL", n + 1, c)) = OneBit("LSL", Pair(Shift(x, "LSL", n, c)))
<1>. DEFINE v == Shift(x, "LSL", n, c).value
            r == Shift(x, "LSL", n + 1, c)
<1>1. /\ Half \in Nat \ {0} /\ Modulus = 2 * Half /\ Modulus \in Nat \ {0}
      /\ x \in 0 .. 2 * Half - 1 /\ x \in 0 .. Modulus - 1
      /\ (0 * Modulus + x) % Modulus = x /\ 0 * Modulus + x = x
  BY ShiftScene
<1>2. r = ShiftLeft(x, n + 1)
  BY DEF Shift
<1>3. v = IF n = 0 THEN x ELSE ShiftLeft(x, n).value
  BY DEF Shift
<1>4. OneBit("LSL", Pair(Shift(x, "LSL", n, c))) = <<(2 * v) % Modulus, v \div Half>>
  BY DEF OneBit, Pair
<1>5. CASE n < Width
  <2>1. n \in 0 .. Width - 1
    BY <1>5
  <2>2. PICK p \in Nat \ {0}, q \in Nat \ {0} : Around(Width, n, p, q)
    BY <2>1, PowersAround
  <2>3. Half = p * q
    BY <2>2, HalfIs DEF Around
  <2>4. v = (x * p) % Modulus
    <3>1. CASE n = 0
      <4>1. p = 1 /\ v = x /\ x * 1 = x
        BY <1>1, <1>3, <2>2, <3>1, PowersOfTwo DEF Around
      <4>. QED
        BY <1>1, <4>1
    <3>2. CASE n > 0
      BY <1>3, <1>5, <2>2, <3>2 DEF ShiftLeft, Around
    <3>. QED
      BY <3>1, <3>2
  <2>5. r = [value |-> (x * (2 * p)) % Modulus, carry |-> (x \div q) % 2 = 1]
    BY <1>2, <1>5, <2>2 DEF ShiftLeft, Bit, Around
  <2>6. /\ (x * (2 * p)) % Modulus = (2 * v) % Modulus
        /\ v \div Half = (x \div q) % 2
    <3>. HIDE DEF v
    <3>1. Doubled(x, p, q, Half)
      BY <1>1, <2>3, DoubleProduct
    <3>2. (x * (2 * p)) % (2 * Half) = (2 * ((x * p) % (2 * Half))) % (2 * Half)
      BY <3>1, Zenon DEF Doubled
    <3>3. ((x * p) % (2 * Half)) \div Half = (x \div q) % 2
      BY <3>1, Zenon DEF Doubled
    <3>. QED
      BY <1>1, <2>4, <3>2, <3>3, Zenon
  <2>7. Digit((x \div q) % 2 = 1) = (x \div q) % 2
    <3>1. x \div q \in Int
      BY <1>1
    <3>2. (x \div q) % 2 \in {0, 1}
      BY <3>1, Parity
    <3>. QED
      BY <3>2, OneOfBit
  <2>8. Pair(r) = <<(2 * v) % Modulus, v \div Half>>
    <3>. HIDE DEF v, r
    <3>. QED  BY <2>5, <2>6, <2>7 DEF Pair
  <2>. QED
    BY <1>4, <2>8
<1>6. CASE ~(n < Width)
  <2>1. v = 0
    <3>1. CASE n = Width
      <4>1. v = (x * Modulus) % Modulus
        BY <1>3, <3>1 DEF ShiftLeft, Modulus
      <4>2. (x * Modulus + 0) % Modulus = 0 /\ x * Modulus + 0 = x * Modulus
        BY <1>1, Residue, 0 \in 0 .. Modulus - 1, x \in Int
      <4>. QED
        BY <4>1, <4>2
    <3>2. CASE n # Width
      BY <1>3, <1>6, <3>2 DEF ShiftLeft
    <3>. QED
      BY <3>1, <3>2
  <2>2. r = [value |-> 0, carry |-> FALSE]
    BY <1>2, <1>6 DEF ShiftLeft
  <2>3. Pair(r) = <<0, 0>>
    <3>. HIDE DEF r
    <3>. QED  BY <2>2 DEF Pair, Digit
  <2>4. (2 * v) % Modulus = 0 /\ v \div Half = 0
    <3>1. (0 * Modulus + 0) % Modulus = 0 /\ (0 * Half + 0) \div Half = 0
      BY <1>1, Residue, QuotientIs, 0 \in 0 .. Modulus - 1, 0 \in 0 .. Half - 1
    <3>2. 0 * Modulus + 0 = 0 /\ 0 * Half + 0 = 0 /\ 2 * 0 = 0
      BY <1>1
    <3>. QED
      BY <2>1, <3>1, <3>2
  <2>. QED
    BY <1>4, <2>3, <2>4
<1>. QED
  BY <1>5, <1>6

LEMMA RightByOneMore ==
    ASSUME Width \in Nat \ {0}, NEW x \in Word, NEW c \in BOOLEAN, NEW n \in Nat
    PROVE  Pair(Shift(x, "LSR", n + 1, c)) = OneBit("LSR", Pair(Shift(x, "LSR", n, c)))
<1>. DEFINE v == Shift(x, "LSR", n, c).value
            r == Shift(x, "LSR", n + 1, c)
<1>1. Modulus \in Nat \ {0} /\ x \in 0 .. Modulus - 1 /\ 0 * Modulus + x = x /\ x \in Int
  BY ShiftScene
<1>2. r = ShiftRight(x, n + 1)
  BY DEF Shift
<1>3. v = IF n = 0 THEN x ELSE ShiftRight(x, n).value
  BY DEF Shift
<1>4. OneBit("LSR", Pair(Shift(x, "LSR", n, c))) = <<v \div 2, v % 2>>
  BY DEF OneBit, Pair
<1>5. n <= Width => v = x \div PowerOfTwo[n]
  <2>1. CASE n = 0
    BY <1>1, <1>3, <2>1, PowersOfTwo
  <2>2. CASE n > 0
    BY <1>3, <2>2 DEF ShiftRight
  <2>. QED
    BY <2>1, <2>2
<1>6. CASE n < Width
  <2>1. PowerOfTwo[n] \in Nat \ {0} /\ PowerOfTwo[n + 1] = 2 * PowerOfTwo[n]
    BY PowersOfTwo
  <2>2. r = [value |-> x \div (2 * PowerOfTwo[n]), carry |-> (x \div PowerOfTwo[n]) % 2 = 1]
    BY <1>2, <1>6, <2>1 DEF ShiftRight, Bit
  <2>3. v = x \div PowerOfTwo[n] /\ v \in Int
    <3>. HIDE DEF v
    <3>. QED  BY <1>1, <1>5, <1>6, <2>1
  <2>. HIDE DEF v
  <2>4. x \div (2 * PowerOfTwo[n]) = v \div 2
    BY <1>1, <2>1, <2>3, HalveQuotient
  <2>5. Digit(v % 2 = 1) = v % 2
    BY <2>3, Parity, OneOfBit
  <2>6. Pair(r) = <<v \div 2, v % 2>>
    <3>. HIDE DEF r
    <3>. QED  BY <2>2, <2>3, <2>4, <2>5 DEF Pair
  <2>. QED
    BY <1>4, <2>6
<1>7. CASE ~(n < Width)
  <2>1. v = 0
    <3>1. CASE n = Width
      <4>1. v = x \div Modulus
        <5>. HIDE DEF v
        <5>. QED  BY <1>5, <3>1 DEF Modulus
      <4>2. (0 * Modulus + x) \div Modulus = 0
        BY <1>1, QuotientIs, 0 \in Int
      <4>. QED
        BY <1>1, <4>1, <4>2
    <3>2. CASE n # Width
      BY <1>3, <1>7, <3>2 DEF ShiftRight
    <3>. QED
      BY <3>1, <3>2
  <2>2. r = [value |-> 0, carry |-> FALSE]
    BY <1>2, <1>7 DEF ShiftRight
  <2>3. Pair(r) = <<0, 0>>
    <3>. HIDE DEF r
    <3>. QED  BY <2>2 DEF Pair, Digit
  <2>4. 0 \div 2 = 0 /\ 0 % 2 = 0
    OBVIOUS
  <2>. QED
    BY <1>4, <2>1, <2>3, <2>4
<1>. QED
  BY <1>6, <1>7

-----------------------------------------------------------------------------
\* A quotient lies between 0 and what was divided.
LEMMA QuotientRange ==
    ASSUME NEW h \in Nat \ {0}, NEW s \in (-h) .. (h - 1), NEW p \in Nat \ {0}
    PROVE  /\ s \div p \in (-h) .. (h - 1)
           /\ s \div p >= 0 <=> s >= 0
<1>. DEFINE a == s \div p
            b == s % p
            t == a * p
<1>1. s = t + b /\ a \in Int /\ b \in 0 .. p - 1 /\ t \in Int
  BY Quotient
<1>2. a >= h => t >= h
  <2>1. a >= h => t >= h * p
    <3>. HIDE DEF a
    <3>. QED  BY <1>1
  <2>2. h * p >= h /\ h * p \in Int
    OBVIOUS
  <2>. HIDE DEF t, a
  <2>. QED
    BY <1>1, <2>1, <2>2
<1>3. a <= -h - 1 => t <= -h - p
  <2>1. a <= -h - 1 => t <= (-h - 1) * p
    <3>. HIDE DEF a
    <3>. QED  BY <1>1
  <2>2. (-h - 1) * p = -(h * p) - p /\ h * p >= h /\ h * p \in Int
    OBVIOUS
  <2>. HIDE DEF t, a
  <2>. QED
    BY <1>1, <2>1, <2>2
<1>4. a >= 0 => t >= 0
  <2>. HIDE DEF a
  <2>. QED  BY <1>1
<1>5. a <= -1 => t <= -p
  <2>. HIDE DEF a
  <2>. QED  BY <1>1
<1>. HIDE DEF a, b, t
<1>6. a \in (-h) .. (h - 1)
  BY <1>1, <1>2, <1>3
<1>7. a >= 0 <=> s >= 0
  BY <1>1, <1>4, <1>5
<1>. QED
  BY <1>6, <1>7 DEF a

\* Half of a number with a sign, in words of 2 * h
Halved(s, v, h) ==
    /\ v = IF s >= 0 THEN s ELSE s + 2 * h
    /\ (s \div 2) % (2 * h) = (v \div 2) + (IF v >= h THEN h ELSE 0)
    /\ v % 2 = s % 2

LEMMA HalveSigned ==
    ASSUME NEW h \in Nat \ {0}, NEW s \in (-h) .. (h - 1)
    PROVE  Halved(s, s % (2 * h), h)
<1>. DEFINE e == s \div 2
            o == s % 2
            M == 2 * h
            v == s % M
<1>. SUFFICES /\ v = IF s >= 0 THEN s ELSE s + 2 * h
              /\ e % M = (v \div 2) + (IF v >= h THEN h ELSE 0)
              /\ v % 2 = o
  BY Zenon DEF Halved
<1>1. s = e * 2 + o /\ e \in Int /\ o \in 0 .. 2 - 1
  BY Quotient, 2 \in Nat \ {0}
<1>. HIDE DEF e, o, v
<1>2. M \in Nat \ {0}
  OBVIOUS
<1>3. CASE s >= 0
  <2>1. s \in 0 .. M - 1 /\ e \in 0 .. M - 1 /\ 0 * M + s = s /\ 0 * M + e = e
    BY <1>1, <1>3
  <2>. HIDE DEF M
  <2>2. s % M = s /\ e % M = e
    <3>1. (0 * M + s) % M = s /\ (0 * M + e) % M = e
      BY <1>2, <2>1, Residue, 0 \in Int
    <3>. QED
      BY <2>1, <3>1
  <2>3. v = s
    BY <2>2 DEF v
  <2>. QED
    BY <1>1, <1>3, <2>2, <2>3 DEF M
<1>4. CASE ~(s >= 0)
  <2>1. s + M \in 0 .. M - 1 /\ e + M \in 0 .. M - 1 /\ (-1) * M + (s + M) = s /\ (-1) * M + (e + M) = e
    BY <1>1, <1>4
  <2>2. s + M = (e + h) * 2 + o /\ e + h \in Int
    BY <1>1
  <2>. HIDE DEF M
  <2>3. s % M = s + M /\ e % M = e + M
    <3>. DEFINE a == s + M
                b == e + M
    <3>. HIDE DEF a, b
    <3>1. a \in 0 .. M - 1 /\ b \in 0 .. M - 1
      BY <2>1 DEF a, b
    <3>2. ((-1) * M + a) % M = a /\ ((-1) * M + b) % M = b
      BY <1>2, <3>1, Residue, -1 \in Int
    <3>. QED
      BY <2>1, <3>2 DEF a, b
  <2>4. v = s + M
    BY <2>3 DEF v
  <2>5. (s + M) \div 2 = e + h /\ (s + M) % 2 = o
    <3>. DEFINE k == e + h
    <3>. HIDE DEF k
    <3>1. k \in Int /\ s + M = k * 2 + o
      BY <2>2 DEF k
    <3>2. (k * 2 + o) \div 2 = k /\ (k * 2 + o) % 2 = o
      BY <1>1, <3>1, QuotientIs, Residue, 2 \in Nat \ {0}
    <3>. QED
      BY <3>1, <3>2 DEF k
  <2>6. s + M >= h /\ (e + h) + h = e + M
    BY <1>1, <1>4 DEF M
  <2>. QED
    BY <1>4, <2>3, <2>4, <2>5, <2>6 DEF M
<1>. QED
  BY <1>3, <1>4

\* The sign of a word is worth an even multiple of every bit below it.
LEMMA SameBit ==
    ASSUME NEW p \in Nat \ {0}, NEW q \in Nat, NEW x \in Int
    PROVE  ((x - 2 * (p * q)) \div p) % 2 = (x \div p) % 2
<1>. DEFINE a == x \div p
            b == x % p
            e == a \div 2
            o == a % 2
            k == a - 2 * q
<1>1. x = a * p + b /\ a \in Int /\ b \in 0 .. p - 1
  BY Quotient
<1>2. a = e * 2 + o /\ e \in Int /\ o \in 0 .. 2 - 1
  <2>. HIDE DEF a
  <2>. QED  BY <1>1, Quotient, 2 \in Nat \ {0}
<1>. HIDE DEF a, b, e, o
<1>3. x - 2 * (p * q) = k * p + b /\ k \in Int
  BY <1>1
<1>4. k = (e - q) * 2 + o /\ e - q \in Int
  BY <1>2
<1>. HIDE DEF k
<1>5. (k * p + b) \div p = k
  BY <1>1, <1>3, QuotientIs
<1>6. k % 2 = o
  <2>. DEFINE j == e - q
  <2>. HIDE DEF j
  <2>1. j \in Int /\ k = j * 2 + o
    BY <1>4 DEF j
  <2>2. (j * 2 + o) % 2 = o
    BY <1>2, <2>1, Residue, 2 \in Nat \ {0}
  <2>. QED
    BY <2>1, <2>2
<1>. QED
  BY <1>3, <1>5, <1>6 DEF o, a

-----------------------------------------------------------------------------
LEMMA SignedByOneMore ==
    ASSUME Width \in Nat \ {0}, NEW x \in Word, NEW c \in BOOLEAN, NEW n \in Nat
    PROVE  Pair(Shift(x, "ASR", n + 1, c)) = OneBit("ASR", Pair(Shift(x, "ASR", n, c)))
<1>. DEFINE v == Shift(x, "ASR", n, c).value
            r == Shift(x, "ASR", n + 1, c)
            h == Half
            g == IF x >= h THEN x - Modulus ELSE x
            P == PowerOfTwo[n]
            s == g \div P
            full == IF x >= h THEN Modulus - 1 ELSE 0
            more == (v \div 2) + (IF v >= h THEN h ELSE 0)
<1>1. /\ h \in Nat \ {0} /\ Modulus = 2 * h /\ Modulus \in Nat \ {0}
      /\ x \in 0 .. 2 * h - 1 /\ x \in 0 .. Modulus - 1
      /\ Neg(x) <=> x >= h
      /\ (0 * Modulus + x) % Modulus = x /\ 0 * Modulus + x = x
  BY ShiftScene
<1>2. r = ShiftSigned(x, n + 1)
  BY DEF Shift
<1>3. v = IF n = 0 THEN x ELSE ShiftSigned(x, n).value
  BY DEF Shift
<1>4. OneBit("ASR", Pair(Shift(x, "ASR", n, c))) = <<more, v % 2>>
  BY DEF OneBit, Pair
<1>5. P \in Nat \ {0} /\ PowerOfTwo[n + 1] = 2 * P
  BY PowersOfTwo
<1>6. g \in (-h) .. (h - 1) /\ g \in Int /\ (g >= 0 <=> ~(x >= h))
  <2>. HIDE DEF h
  <2>. QED  BY <1>1
<1>7. s \in (-h) .. (h - 1) /\ s \in Int /\ (s >= 0 <=> ~(x >= h))
  <2>. HIDE DEF g, P
  <2>1. s \in (-h) .. (h - 1) /\ (s >= 0 <=> g >= 0)
    <3>. HIDE DEF h
    <3>. QED  BY <1>1, <1>5, <1>6, QuotientRange
  <2>. HIDE DEF s, h
  <2>2. s \in Int
    BY <1>1, <2>1
  <2>. QED
    BY <1>6, <2>1, <2>2
<1>8. n < Width => v = s % Modulus
  <2>1. CASE n = 0
    <3>1. v = x /\ P = 1
      BY <1>3, <2>1, PowersOfTwo
    <3>2. s = g
      <4>. HIDE DEF g, P
      <4>. QED  BY <1>6, <3>1
    <3>3. g % Modulus = x
      <4>1. CASE x >= h
        <5>1. g = (-1) * Modulus + x
          BY <1>1, <4>1
        <5>2. ((-1) * Modulus + x) % Modulus = x
          BY <1>1, Residue, -1 \in Int
        <5>. QED
          BY <5>1, <5>2
      <4>2. CASE ~(x >= h)
        BY <1>1, <4>2
      <4>. QED
        BY <4>1, <4>2
    <3>. HIDE DEF v, s, g
    <3>. QED
      BY <3>1, <3>2, <3>3
  <2>2. CASE n > 0
    <3>1. n < Width => v = ((IF Neg(x) THEN x - Modulus ELSE x) \div P) % Modulus
      BY <1>3, <2>2 DEF ShiftSigned
    <3>2. (IF Neg(x) THEN x - Modulus ELSE x) = g
      BY <1>1
    <3>. HIDE DEF v, g, P
    <3>. QED
      BY <3>1, <3>2
  <2>. QED
    BY <2>1, <2>2
<1>. HIDE DEF g
<1>9. CASE n + 1 < Width
  <2>1. v = s % (2 * h)
    <3>. HIDE DEF v, s, h
    <3>. QED  BY <1>1, <1>8, <1>9
  <2>2. /\ (s \div 2) % (2 * h) = more
        /\ v % 2 = s % 2
    <3>. HIDE DEF v, s, h
    <3>1. Halved(s, v, h)
      BY <1>1, <1>7, <2>1, HalveSigned
    <3>. QED
      BY <3>1, Zenon DEF Halved
  <2>3. g \div (2 * P) = s \div 2
    <3>. HIDE DEF P
    <3>. QED  BY <1>5, <1>6, HalveQuotient
  <2>4. r.value = (g \div (2 * P)) % Modulus /\ r.carry = Bit(x, n)
    <3>1. r = [value |-> ((IF Neg(x) THEN x - Modulus ELSE x) \div PowerOfTwo[n + 1]) % Modulus,
               carry |-> Bit(x, (n + 1) - 1)]
      BY <1>2, <1>9 DEF ShiftSigned
    <3>2. (IF Neg(x) THEN x - Modulus ELSE x) = g /\ (n + 1) - 1 = n
      BY <1>1 DEF g
    <3>. HIDE DEF r, P
    <3>. QED
      BY <1>5, <3>1, <3>2
  <2>5. (x \div P) % 2 = s % 2
    <3>1. CASE x >= h
      <4>1. PICK p \in Nat \ {0}, q \in Nat \ {0} : Around(Width, n, p, q)
        <5>1. n \in 0 .. Width - 1
          BY <1>9
        <5>. QED
          BY <5>1, PowersAround
      <4>2. p = P /\ g = x - 2 * (p * q)
        BY <1>1, <3>1, <4>1 DEF Around, g, Modulus
      <4>3. ((x - 2 * (p * q)) \div p) % 2 = (x \div p) % 2
        BY <1>1, SameBit, q \in Nat, x \in Int
      <4>. HIDE DEF P
      <4>. QED
        BY <4>2, <4>3
    <3>2. CASE ~(x >= h)
      BY <3>2 DEF g
    <3>. QED
      BY <3>1, <3>2
  <2>6. Digit(r.carry) = v % 2
    <3>1. r.carry = (s % 2 = 1)
      <4>. HIDE DEF r, s
      <4>. QED  BY <2>4, <2>5 DEF Bit
    <3>2. s % 2 \in {0, 1}
      <4>. HIDE DEF s
      <4>. QED  BY <1>7, Parity
    <3>3. Digit(s % 2 = 1) = s % 2
      <4>. HIDE DEF s
      <4>. QED  BY <3>2, OneOfBit
    <3>. HIDE DEF r, s, v
    <3>. QED
      BY <2>2, <3>1, <3>3
  <2>7. r.value = more
    <3>. HIDE DEF r, s, v, P, more
    <3>. QED  BY <1>1, <2>2, <2>3, <2>4
  <2>8. Pair(r) = <<more, v % 2>>
    <3>. HIDE DEF r, v, more
    <3>. QED  BY <2>6, <2>7 DEF Pair
  <2>. QED
    BY <1>4, <2>8
<1>10. CASE ~(n + 1 < Width)
  <2>1. v = full
    <3>1. CASE n < Width
      <4>1. P = h
        <5>1. n = Width - 1
          BY <1>10, <3>1
        <5>. QED
          BY <5>1, HalfIs
      <4>2. s = IF x >= h THEN -1 ELSE 0
        <5>1. s = g \div h
          BY <4>1
        <5>2. CASE x >= h
          <6>1. g = (-1) * h + (g + h) /\ g + h \in 0 .. h - 1
            BY <1>1, <1>6, <5>2
          <6>2. ((-1) * h + (g + h)) \div h = -1
            <7>. DEFINE w == g + h
            <7>. HIDE DEF w
            <7>1. w \in 0 .. h - 1
              BY <6>1 DEF w
            <7>2. ((-1) * h + w) \div h = -1
              BY <1>1, <7>1, QuotientIs, -1 \in Int
            <7>. QED
              BY <7>2 DEF w
          <6>. QED
            BY <5>1, <5>2, <6>1, <6>2
        <5>3. CASE ~(x >= h)
          <6>1. g = 0 * h + g /\ g \in 0 .. h - 1
            BY <1>1, <1>6, <5>3
          <6>2. (0 * h + g) \div h = 0
            BY <1>1, <6>1, QuotientIs, 0 \in Int
          <6>. QED
            BY <5>1, <5>3, <6>1, <6>2
        <5>. QED
          BY <5>2, <5>3
      <4>3. v = s % (2 * h)
        <5>. HIDE DEF v, s, h
        <5>. QED  BY <1>1, <1>8, <3>1
      <4>4. v = IF s >= 0 THEN s ELSE s + 2 * h
        <5>. HIDE DEF v, s, h
        <5>1. Halved(s, v, h)
          BY <1>1, <1>7, <4>3, HalveSigned
        <5>. QED
          BY <5>1, Zenon DEF Halved
      <4>. HIDE DEF v, s, h
      <4>. QED
        BY <1>1, <4>2, <4>4
    <3>2. CASE ~(n < Width)
      <4>1. v = IF Neg(x) THEN Modulus - 1 ELSE 0
        BY <1>3, <3>2 DEF ShiftSigned
      <4>. HIDE DEF v
      <4>. QED
        BY <1>1, <4>1
    <3>. QED
      BY <3>1, <3>2
  <2>2. r.value = full /\ r.carry = Neg(x)
    <3>1. r = [value |-> IF Neg(x) THEN Modulus - 1 ELSE 0, carry |-> Neg(x)]
      BY <1>2, <1>10 DEF ShiftSigned
    <3>. HIDE DEF r
    <3>. QED
      BY <1>1, <3>1
  <2>. HIDE DEF v, r, full
  <2>3. CASE x >= h
    <3>1. v = (h - 1) * 2 + 1 /\ full = 2 * h - 1 /\ h - 1 \in Int
      BY <1>1, <2>1, <2>3 DEF full
    <3>2. v \div 2 = h - 1 /\ v % 2 = 1
      <4>. DEFINE k == h - 1
      <4>. HIDE DEF k
      <4>1. k \in Int /\ v = k * 2 + 1
        BY <3>1 DEF k
      <4>2. (k * 2 + 1) \div 2 = k /\ (k * 2 + 1) % 2 = 1
        BY <4>1, QuotientIs, Residue, 2 \in Nat \ {0}, 1 \in 0 .. 2 - 1
      <4>. QED
        BY <4>1, <4>2 DEF k
    <3>3. more = full
      <4>. HIDE DEF h
      <4>. QED  BY <1>1, <2>1, <3>1, <3>2
    <3>4. Digit(r.carry) = 1
      BY <1>1, <2>2, <2>3 DEF Digit
    <3>5. Pair(r) = <<full, 1>>
      BY <2>2, <3>4 DEF Pair
    <3>. HIDE DEF more
    <3>. QED
      BY <1>4, <3>2, <3>3, <3>5 DEF r
  <2>4. CASE ~(x >= h)
    <3>1. v = 0 /\ full = 0
      BY <2>1, <2>4 DEF full
    <3>2. v \div 2 = 0 /\ v % 2 = 0 /\ ~(v >= h)
      BY <1>1, <3>1
    <3>3. more = 0
      BY <3>2
    <3>4. Digit(r.carry) = 0
      BY <1>1, <2>2, <2>4 DEF Digit
    <3>5. Pair(r) = <<0, 0>>
      BY <2>2, <3>1, <3>4 DEF Pair
    <3>. HIDE DEF more
    <3>. QED
      BY <1>4, <3>2, <3>3, <3>5 DEF r
  <2>. QED
    BY <2>3, <2>4
<1>. QED
  BY <1>9, <1>10

LEMMA RotatedByOneMore ==
    ASSUME Width \in Nat \ {0}, NEW x \in Word, NEW c \in BOOLEAN, NEW n \in Nat
    PROVE  Pair(Shift(x, "ROR", n + 1, c)) = OneBit("ROR", Pair(Shift(x, "ROR", n, c)))
<1>. DEFINE v == Shift(x, "ROR", n, c).value
            r == Shift(x, "ROR", n + 1, c)
            m == n % Width
            next == (n + 1) % Width
            Turn(k) == (x \div PowerOfTwo[k]) + ((x * PowerOfTwo[Width - k]) % Modulus)
<1>1. /\ Half \in Nat \ {0} /\ Modulus = 2 * Half /\ Modulus \in Nat \ {0}
      /\ x \in 0 .. 2 * Half - 1 /\ x \in 0 .. Modulus - 1 /\ x \in Int
      /\ (0 * Modulus + x) % Modulus = x /\ 0 * Modulus + x = x
  BY ShiftScene
<1>2. r = Rotate(x, n + 1)
  BY DEF Shift
<1>3. v = IF n = 0 THEN x ELSE Rotate(x, n).value
  BY DEF Shift
<1>4. OneBit("ROR", Pair(Shift(x, "ROR", n, c))) = <<(v \div 2) + Half * (v % 2), v % 2>>
  BY DEF OneBit, Pair
<1>5. m \in 0 .. Width - 1 /\ next = IF m + 1 = Width THEN 0 ELSE m + 1
  <2>. DEFINE k == n \div Width
  <2>1. n = k * Width + m /\ k \in Int /\ m \in 0 .. Width - 1
    BY Quotient
  <2>. HIDE DEF k, m
  <2>2. CASE m + 1 = Width
    <3>1. n + 1 = (k + 1) * Width + 0 /\ k + 1 \in Int /\ 0 \in 0 .. Width - 1
      BY <2>1, <2>2
    <3>2. ((k + 1) * Width + 0) % Width = 0
      <4>. DEFINE j == k + 1
      <4>. HIDE DEF j
      <4>1. j \in Int
        BY <2>1 DEF j
      <4>2. (j * Width + 0) % Width = 0
        BY <3>1, <4>1, Residue
      <4>. QED
        BY <4>2 DEF j
    <3>. QED
      BY <2>1, <2>2, <3>1, <3>2
  <2>3. CASE m + 1 # Width
    <3>1. n + 1 = k * Width + (m + 1) /\ m + 1 \in 0 .. Width - 1
      BY <2>1, <2>3
    <3>2. (k * Width + (m + 1)) % Width = m + 1
      BY <2>1, <3>1, Residue
    <3>. QED
      BY <2>1, <2>3, <3>1, <3>2
  <2>. QED
    BY <2>2, <2>3
<1>6. v = IF m = 0 THEN x ELSE Turn(m)
  <2>1. CASE n = 0
    <3>1. 0 * Width + 0 = 0 /\ (0 * Width + 0) % Width = 0
      BY Residue, 0 \in 0 .. Width - 1
    <3>2. m = 0
      BY <2>1, <3>1
    <3>. HIDE DEF m
    <3>. QED
      BY <1>3, <2>1, <3>2
  <2>2. CASE n > 0
    BY <1>3, <2>2 DEF Rotate
  <2>. QED
    BY <2>1, <2>2
<1>7. r.value = (IF next = 0 THEN x ELSE Turn(next)) /\ r.carry = Neg(r.value)
  BY <1>2 DEF Rotate
<1>. HIDE DEF m, next, v, r
<1>8. Turn(0) = x /\ Turn(Width) = x
  <2>1. PowerOfTwo[0] = 1 /\ PowerOfTwo[Width] = Modulus /\ Width - 0 = Width /\ Width - Width = 0
    BY PowersOfTwo DEF Modulus
  <2>2. x \div 1 = x /\ x * 1 = x /\ (0 * Modulus + x) \div Modulus = 0
    BY <1>1, QuotientIs, 0 \in Int
  <2>3. (x * Modulus + 0) % Modulus = 0 /\ x * Modulus + 0 = x * Modulus
    BY <1>1, Residue, 0 \in 0 .. Modulus - 1
  <2>4. (x \div 1) + ((x * Modulus) % Modulus) = x
    BY <1>1, <2>2, <2>3
  <2>5. (x \div Modulus) + ((x * 1) % Modulus) = x
    BY <1>1, <2>2
  <2>. QED
    BY <2>1, <2>4, <2>5
<1>9. v = Turn(m) /\ r.value = Turn(m + 1)
  <2>. HIDE DEF Turn
  <2>1. v = Turn(m)
    BY <1>6, <1>8
  <2>2. r.value = Turn(m + 1)
    BY <1>5, <1>7, <1>8
  <2>. QED
    BY <2>1, <2>2
<1>10. PICK p \in Nat \ {0}, q \in Nat \ {0} : Around(Width, m, p, q)
  BY <1>5, PowersAround
<1>11. /\ Half = p * q
       /\ PowerOfTwo[m] = p /\ PowerOfTwo[m + 1] = 2 * p
       /\ PowerOfTwo[Width - m] = 2 * q /\ PowerOfTwo[Width - (m + 1)] = q
  BY <1>10, HalfIs DEF Around
<1>12. Turned(x, p, q, Half)
  BY <1>1, <1>11, TurnOneBit
<1>13. Turn(m) = (x \div p) + ((x * (2 * q)) % (2 * Half))
  BY <1>1, <1>11
<1>14. Turn(m + 1) = (x \div (2 * p)) + ((x * q) % (2 * Half))
  BY <1>1, <1>11
<1>. HIDE DEF Turn
<1>15. /\ v \in 0 .. 2 * Half - 1
       /\ r.value = (v \div 2) + Half * (v % 2)
       /\ r.value >= Half <=> v % 2 = 1
       /\ v % 2 \in {0, 1}
  <2>1. v = (x \div p) + ((x * (2 * q)) % (2 * Half))
    BY <1>9, <1>13
  <2>2. r.value = (x \div (2 * p)) + ((x * q) % (2 * Half))
    BY <1>9, <1>14
  <2>. QED
    BY <1>12, <2>1, <2>2, Zenon DEF Turned
<1>16. Digit(r.carry) = v % 2
  <2>1. r.carry \in BOOLEAN /\ (r.carry <=> r.value >= Half)
    <3>1. \A z : Neg(z) \in BOOLEAN /\ (Neg(z) <=> z >= Half)
      BY HalfIs DEF Neg
    <3>. QED
      BY <1>7, <3>1, Zenon
  <2>2. r.carry <=> v % 2 = 1
    BY <1>15, <2>1, Zenon
  <2>3. CASE r.carry
    BY <2>2, <2>3 DEF Digit
  <2>4. CASE ~r.carry
    <3>1. v % 2 = 0
      BY <1>15, <2>2, <2>4
    <3>. QED
      BY <2>4, <3>1 DEF Digit
  <2>. QED
    BY <2>3, <2>4
<1>17. Pair(r) = <<(v \div 2) + Half * (v % 2), v % 2>>
  BY <1>15, <1>16 DEF Pair
<1>. QED
  BY <1>4, <1>17 DEF r

\* Every shift and rotation by any amount is as many shifts by one bit: by
\* nothing it changes neither the word nor the carry, and one bit more is one
\* bit more, past the width of a word too (shift_c in alu.cpp).
THEOREM ShiftsBitByBit ==
    ASSUME Width \in Nat \ {0}, NEW x \in Word, NEW c \in BOOLEAN, NEW n \in Nat,
           NEW kind \in {"LSL", "LSR", "ASR", "ROR"}
    PROVE  /\ Pair(Shift(x, kind, 0, c)) = <<x, Digit(c)>>
           /\ Pair(Shift(x, kind, n + 1, c)) = OneBit(kind, Pair(Shift(x, kind, n, c)))
<1>1. Shift(x, kind, 0, c) = [value |-> x, carry |-> c]
  BY DEF Shift
<1>2. Pair(Shift(x, kind, 0, c)) = <<x, Digit(c)>>
  BY <1>1 DEF Pair
<1>3. Pair(Shift(x, kind, n + 1, c)) = OneBit(kind, Pair(Shift(x, kind, n, c)))
  <2>1. kind = "LSL" \/ kind = "LSR" \/ kind = "ASR" \/ kind = "ROR"
    OBVIOUS
  <2>2. CASE kind = "LSL"
    BY <2>2, LeftByOneMore, Zenon
  <2>3. CASE kind = "LSR"
    BY <2>3, RightByOneMore, Zenon
  <2>4. CASE kind = "ASR"
    BY <2>4, SignedByOneMore, Zenon
  <2>5. CASE kind = "ROR"
    BY <2>5, RotatedByOneMore, Zenon
  <2>. QED
    BY <2>1, <2>2, <2>3, <2>4, <2>5
<1>. QED
  BY <1>2, <1>3

-----------------------------------------------------------------------------
(* Numbers of two words *)

\* A multiple of m and a remainder are together as negative as the multiple.
LEMMA SignOfMultiple ==
    ASSUME NEW m \in Nat \ {0}, NEW t \in Int, NEW r \in 0 .. m - 1, NEW h \in Int
    PROVE  /\ r + m * t \in Int
           /\ r + m * t >= m * h <=> t >= h
<1>1. m * t \in Int /\ m * h \in Int
  OBVIOUS
<1>2. t >= h => m * t >= m * h
  OBVIOUS
<1>3. t <= h - 1 => m * t <= m * (h - 1) /\ m * (h - 1) = m * h - m
  OBVIOUS
<1>4. ~(t >= h) <=> t <= h - 1
  OBVIOUS
<1>. DEFINE a == m * t
            b == m * h
<1>5. a \in Int /\ b \in Int /\ (t >= h => a >= b) /\ (t <= h - 1 => a <= b - m)
  BY <1>1, <1>2, <1>3
<1>6. r + a \in Int /\ (r + a >= b <=> t >= h)
  <2>. HIDE DEF a, b
  <2>. QED  BY <1>4, <1>5
<1>. QED
  BY <1>6

\* What AdderExact says of one addition
Adds(x, y, carry) ==
    LET r == AddWithCarry(x, y, carry)
        sum == Signed(x) + Signed(y) + Digit(carry)
    IN  /\ r.value \in Word /\ r.carry \in BOOLEAN /\ r.overflow \in BOOLEAN
        /\ x + y + Digit(carry) = r.value + Modulus * Digit(r.carry)
        /\ r.overflow <=> sum \notin (-Half)..(Half - 1)
        /\ ~r.overflow => Signed(r.value) = sum
        /\ r.overflow => Neg(r.value) = (sum >= 0)

LEMMA Adder ==
    ASSUME Width \in Nat \ {0}, NEW x \in Word, NEW y \in Word, NEW carry \in BOOLEAN
    PROVE  Adds(x, y, carry)
BY AdderExact, Zenon DEF Adds

\* Two additions, the second with the carry of the first, add numbers of two
\* words, without a sign and with one: the carry is the bit above both words,
\* and the overflow is set just when the sum with a sign does not fit them
\* (adds and adcs, add_with_carry in alu.cpp).
THEOREM TwoWordsExact ==
    ASSUME Width \in Nat \ {0}, NEW x0 \in Word, NEW x1 \in Word, NEW y0 \in Word, NEW y1 \in Word,
           NEW carry \in BOOLEAN
    PROVE  LET low == AddWithCarry(x0, y0, carry)
               high == AddWithCarry(x1, y1, low.carry)
               sum == SignedWide(x0, x1) + SignedWide(y0, y1) + Digit(carry)
           IN  /\ Wide(x0, x1) + Wide(y0, y1) + Digit(carry)
                      = Wide(low.value, high.value) + Modulus * (Modulus * Digit(high.carry))
               /\ high.overflow <=> sum \notin (-(Modulus * Half))..(Modulus * Half - 1)
               /\ ~high.overflow => SignedWide(low.value, high.value) = sum
<1>. DEFINE low == AddWithCarry(x0, y0, carry)
            high == AddWithCarry(x1, y1, low.carry)
            lv == low.value
            hv == high.value
            lc == Digit(low.carry)
            hc == Digit(high.carry)
            c == Digit(carry)
            t == Signed(x1) + Signed(y1) + lc
            sum == SignedWide(x0, x1) + SignedWide(y0, y1) + c
<1>1. Adds(x0, y0, carry)
  BY Adder
<1>2. lv \in Word /\ low.carry \in BOOLEAN /\ x0 + y0 + c = lv + Modulus * lc
  <2>. HIDE DEF low
  <2>1. low = AddWithCarry(x0, y0, carry)
    BY DEF low
  <2>. QED
    BY <1>1, <2>1, Zenon DEF Adds
<1>. HIDE DEF low
<1>3. Adds(x1, y1, low.carry)
  BY <1>2, Adder
<1>4. /\ hv \in Word /\ high.carry \in BOOLEAN /\ high.overflow \in BOOLEAN
      /\ x1 + y1 + lc = hv + Modulus * hc
      /\ high.overflow <=> t \notin (-Half)..(Half - 1)
      /\ ~high.overflow => Signed(hv) = t
  <2>. HIDE DEF high
  <2>1. high = AddWithCarry(x1, y1, low.carry)
    BY DEF high
  <2>. QED
    BY <1>3, <2>1, Zenon DEF Adds
<1>. HIDE DEF high
<1>5. /\ Half \in Nat \ {0} /\ Modulus \in Nat \ {0} /\ Half \in Int /\ -Half \in Int /\ Modulus \in Int
      /\ x0 \in Int /\ x1 \in Int /\ y0 \in Int /\ y1 \in Int /\ lv \in Int /\ hv \in Int
      /\ lv \in 0 .. Modulus - 1
  <2>1. lv \in Word /\ hv \in Word
    BY <1>2, <1>4
  <2>. HIDE DEF lv, hv
  <2>. QED
    BY <2>1, HalfIs
<1>6. lc \in Int /\ hc \in Int /\ c \in Int
  BY DEF Digit
<1>7. Signed(x1) \in Int /\ Signed(y1) \in Int /\ t \in Int
  <2>1. Signed(x1) \in Int /\ Signed(y1) \in Int
    BY <1>5 DEF Signed
  <2>. HIDE DEF lc
  <2>. QED
    BY <1>6, <2>1
<1>. HIDE DEF lv, hv, lc, hc, c
<1>8. Wide(x0, x1) + Wide(y0, y1) + c = Wide(lv, hv) + Modulus * (Modulus * hc)
  <2>1. (x0 + Modulus * x1) + (y0 + Modulus * y1) + c = (x0 + y0 + c) + Modulus * (x1 + y1)
    BY <1>5, <1>6
  <2>2. (lv + Modulus * lc) + Modulus * (x1 + y1) = lv + Modulus * (x1 + y1 + lc)
    BY <1>5, <1>6
  <2>3. lv + Modulus * (hv + Modulus * hc) = (lv + Modulus * hv) + Modulus * (Modulus * hc)
    BY <1>5, <1>6
  <2>. QED
    BY <1>2, <1>4, <2>1, <2>2, <2>3 DEF Wide
<1>9. sum = lv + Modulus * t
  <2>1. (x0 + Modulus * Signed(x1)) + (y0 + Modulus * Signed(y1)) + c
            = (x0 + y0 + c) + Modulus * (Signed(x1) + Signed(y1))
    BY <1>5, <1>6, <1>7
  <2>2. (lv + Modulus * lc) + Modulus * (Signed(x1) + Signed(y1)) = lv + Modulus * t
    BY <1>5, <1>6, <1>7
  <2>. QED
    BY <1>2, <2>1, <2>2 DEF SignedWide
<1>. HIDE DEF sum, t
<1>10. /\ sum \in Int
       /\ sum >= Modulus * (-Half) <=> t >= -Half
       /\ sum >= Modulus * Half <=> t >= Half
  BY <1>5, <1>7, <1>9, SignOfMultiple
<1>11. t \notin (-Half)..(Half - 1) <=> sum \notin (-(Modulus * Half))..(Modulus * Half - 1)
  <2>1. Modulus * (-Half) = -(Modulus * Half) /\ Modulus * Half \in Int
    BY <1>5
  <2>. DEFINE b == Modulus * Half
  <2>2. b \in Int /\ (sum >= -b <=> t >= -Half) /\ (sum >= b <=> t >= Half)
    BY <1>10, <2>1
  <2>3. t \in (-Half)..(Half - 1) <=> (t >= -Half /\ ~(t >= Half))
    BY <1>5, <1>7
  <2>4. sum \in (-b)..(b - 1) <=> (sum >= -b /\ ~(sum >= b))
    <3>. HIDE DEF b
    <3>. QED  BY <1>10, <2>2
  <2>. QED
    BY <2>2, <2>3, <2>4, Zenon
<1>12. ~high.overflow => SignedWide(lv, hv) = sum
  BY <1>4, <1>9 DEF SignedWide
<1>13. high.overflow <=> sum \notin (-(Modulus * Half))..(Modulus * Half - 1)
  BY <1>4, <1>11, Zenon
<1>. QED
  BY <1>8, <1>12, <1>13, Zenon DEF lv, hv, hc, c, sum, low, high

\* A comparison of the lower words and a subtraction of the upper ones compare
\* numbers of two words: the carry is set when the first is not below the
\* second, and N and V agree when it is not less (cmp, then sbcs).
THEOREM TwoWordsCompared ==
    ASSUME Width \in Nat \ {0}, NEW x0 \in Word, NEW x1 \in Word, NEW y0 \in Word, NEW y1 \in Word
    PROVE  LET low == AddWithCarry(x0, Complement(y0), TRUE)
               high == AddWithCarry(x1, Complement(y1), low.carry)
           IN  /\ high.carry <=> Wide(x0, x1) >= Wide(y0, y1)
               /\ Neg(high.value) = high.overflow <=> SignedWide(x0, x1) >= SignedWide(y0, y1)
<1>. DEFINE low == AddWithCarry(x0, Complement(y0), TRUE)
            high == AddWithCarry(x1, Complement(y1), low.carry)
            lv == low.value
            hv == high.value
            lc == Digit(low.carry)
            hc == Digit(high.carry)
            t == Signed(x1) + Signed(Complement(y1)) + lc
            u == hv + Modulus * hc - Modulus
<1>1. /\ Complement(y0) \in Word /\ Complement(y0) = Modulus - 1 - y0
      /\ Complement(y1) \in Word /\ Complement(y1) = Modulus - 1 - y1
      /\ Signed(Complement(y1)) = - Signed(y1) - 1
  BY ComplementIs
<1>2. lv \in Word /\ low.carry \in BOOLEAN /\ x0 + Complement(y0) + 1 = lv + Modulus * lc
  <2>. HIDE DEF low
  <2>1. low = AddWithCarry(x0, Complement(y0), TRUE)
    BY DEF low
  <2>2. Adds(x0, Complement(y0), TRUE)
    BY <1>1, Adder, Zenon
  <2>3. lv \in Word /\ low.carry \in BOOLEAN /\ x0 + Complement(y0) + Digit(TRUE) = lv + Modulus * lc
    BY <2>1, <2>2, Zenon DEF Adds
  <2>4. Digit(TRUE) = 1
    BY DEF Digit
  <2>. QED
    BY <2>3, <2>4
<1>. HIDE DEF low
<1>3. Adds(x1, Complement(y1), low.carry)
  BY <1>1, <1>2, Adder
<1>4. /\ hv \in Word /\ high.carry \in BOOLEAN /\ high.overflow \in BOOLEAN
      /\ x1 + Complement(y1) + lc = hv + Modulus * hc
      /\ ~high.overflow => Signed(hv) = t
      /\ high.overflow => Neg(hv) = (t >= 0)
  <2>. HIDE DEF high
  <2>1. high = AddWithCarry(x1, Complement(y1), low.carry)
    BY DEF high
  <2>. QED
    BY <1>3, <2>1, Zenon DEF Adds
<1>. HIDE DEF high
<1>5. /\ Half \in Nat \ {0} /\ Modulus \in Nat \ {0} /\ Modulus \in Int /\ Half \in Int /\ Modulus = 2 * Half
      /\ x0 \in Int /\ x1 \in Int /\ y0 \in Int /\ y1 \in Int /\ lv \in Int /\ hv \in Int
      /\ lv \in 0 .. Modulus - 1 /\ hv \in 0 .. Modulus - 1
  BY <1>2, <1>4, HalfIs
<1>6. /\ lc \in Int /\ hc \in Int
      /\ high.carry => hc = 1
      /\ ~high.carry => hc = 0
  BY DEF Digit
<1>7. Signed(x1) \in Int /\ Signed(y1) \in Int /\ t \in Int /\ t = Signed(x1) - Signed(y1) - 1 + lc
  <2>1. Signed(x1) \in Int /\ Signed(y1) \in Int
    BY <1>5 DEF Signed
  <2>. HIDE DEF lc
  <2>. QED
    BY <1>1, <1>6, <2>1
<1>8. Neg(hv) = high.overflow <=> t >= 0
  <2>1. Neg(hv) \in BOOLEAN /\ (Neg(hv) <=> hv >= Half)
    BY HalfIs DEF Neg
  <2>2. CASE high.overflow
    <3>. HIDE DEF hv, t
    <3>. QED  BY <1>4, <2>1, <2>2
  <2>3. CASE ~high.overflow
    <3>1. Signed(hv) = t
      BY <1>4, <2>3
    <3>2. Neg(hv) <=> ~(t >= 0)
      <4>1. Signed(hv) = IF hv >= Half THEN hv - 2 * Half ELSE hv
        BY <1>5 DEF Signed
      <4>. HIDE DEF hv, t
      <4>. QED
        BY <1>5, <2>1, <3>1, <4>1
    <3>. HIDE DEF hv, t
    <3>. QED
      BY <1>4, <2>1, <2>3, <3>2
  <2>. QED
    BY <2>2, <2>3
<1>. HIDE DEF lv, hv, lc, hc, t
<1>9. x0 - y0 = lv + Modulus * lc - Modulus
  BY <1>1, <1>2, <1>5, <1>6
<1>10. u \in Int /\ u = x1 - y1 - 1 + lc /\ (high.carry <=> u >= 0)
  <2>1. Modulus * 1 = Modulus /\ Modulus * 0 = 0
    BY <1>5
  <2>2. CASE high.carry
    BY <1>1, <1>4, <1>5, <1>6, <2>1, <2>2
  <2>3. CASE ~high.carry
    BY <1>1, <1>4, <1>5, <1>6, <2>1, <2>3
  <2>. QED
    BY <2>2, <2>3
<1>. HIDE DEF u
<1>11. \A a, b \in Int : (x0 + Modulus * a) - (y0 + Modulus * b) = lv + Modulus * (a - b - 1 + lc)
  BY <1>5, <1>6, <1>9
<1>12. (x0 + Modulus * x1) - (y0 + Modulus * y1) = lv + Modulus * u
  BY <1>5, <1>10, <1>11
<1>13. (x0 + Modulus * Signed(x1)) - (y0 + Modulus * Signed(y1)) = lv + Modulus * t
  BY <1>7, <1>11
<1>14. /\ lv + Modulus * u \in Int /\ (lv + Modulus * u >= 0 <=> u >= 0)
       /\ lv + Modulus * t \in Int /\ (lv + Modulus * t >= 0 <=> t >= 0)
  <2>1. Modulus * 0 = 0
    BY <1>5
  <2>2. lv + Modulus * u \in Int /\ (lv + Modulus * u >= Modulus * 0 <=> u >= 0)
    BY <1>5, <1>10, SignOfMultiple, 0 \in Int
  <2>3. lv + Modulus * t \in Int /\ (lv + Modulus * t >= Modulus * 0 <=> t >= 0)
    BY <1>5, <1>7, SignOfMultiple, 0 \in Int
  <2>. QED
    BY <2>1, <2>2, <2>3
<1>15. Wide(x0, x1) >= Wide(y0, y1) <=> u >= 0
  <2>. DEFINE a == Wide(x0, x1)
              b == Wide(y0, y1)
              w == lv + Modulus * u
  <2>1. a \in Int /\ b \in Int /\ a - b = w /\ w \in Int /\ (w >= 0 <=> u >= 0)
    BY <1>5, <1>12, <1>14 DEF Wide
  <2>2. a >= b <=> w >= 0
    <3>. HIDE DEF a, b, w
    <3>. QED  BY <2>1
  <2>. QED
    BY <2>1, <2>2
<1>16. SignedWide(x0, x1) >= SignedWide(y0, y1) <=> t >= 0
  <2>. DEFINE a == SignedWide(x0, x1)
              b == SignedWide(y0, y1)
              w == lv + Modulus * t
  <2>1. a \in Int /\ b \in Int /\ a - b = w /\ w \in Int /\ (w >= 0 <=> t >= 0)
    BY <1>5, <1>7, <1>13, <1>14 DEF SignedWide
  <2>2. a >= b <=> w >= 0
    <3>. HIDE DEF a, b, w
    <3>. QED  BY <2>1
  <2>. QED
    BY <2>1, <2>2
<1>17. high.carry <=> Wide(x0, x1) >= Wide(y0, y1)
  BY <1>10, <1>15, Zenon
<1>18. Neg(hv) = high.overflow <=> SignedWide(x0, x1) >= SignedWide(y0, y1)
  BY <1>8, <1>16, Zenon
<1>. QED
  BY <1>17, <1>18, Zenon DEF hv, low, high

-----------------------------------------------------------------------------
(* The bus: bytes of numbers *)

LEMMA Places ==
    ASSUME ByteBits \in Nat \ {0}
    PROVE  /\ ByteMod \in Nat \ {0} /\ Place(0) = 1 /\ Place(1) = ByteMod
           /\ \A i \in Nat : Place(i) \in Nat \ {0} /\ Place(i + 1) = Place(i) * ByteMod
           /\ \A i, j \in Nat : Place(i + j) = Place(i) * Place(j)
<1>1. \A i \in Nat : ByteBits * i \in Nat
  OBVIOUS
<1>2. ByteBits \in Nat /\ ByteBits * 0 = 0 /\ ByteBits * 1 = ByteBits /\ 0 \in Nat
  OBVIOUS
<1>3. \A i, j \in Nat : ByteBits * (i + j) = ByteBits * i + ByteBits * j
  OBVIOUS
<1>4. \A i \in Nat : Place(i) \in Nat \ {0}
  BY <1>1, PowersOfTwo DEF Place
<1>5. \A i, j \in Nat : Place(i + j) = Place(i) * Place(j)
  BY <1>1, <1>3, PowerOfSum DEF Place
<1>6. Place(0) = 1 /\ Place(1) = ByteMod /\ ByteMod \in Nat \ {0}
  BY <1>2, PowersOfTwo DEF Place, ByteMod
<1>7. \A i \in Nat : Place(i + 1) = Place(i) * ByteMod
  BY <1>5, <1>6
<1>. QED
  BY <1>4, <1>5, <1>6, <1>7

\* The i-th byte of v
ByteAt(v, i) == (v \div Place(i)) % ByteMod

\* Bytes that are those of v are joined to v.
LEMMA JoinedIs ==
    ASSUME ByteBits \in Nat \ {0}, NEW m, NEW addr \in Int, NEW n \in Nat, NEW v \in 0 .. Place(n) - 1,
           \A i \in 0 .. n - 1 : m.cell[addr + i] = ByteAt(v, i)
    PROVE  Joined(m, addr, n) = v
<1>. DEFINE g == [i \in 0..n |-> v \div Place(i)]
            F(u) == [i \in 0..n |-> IF i = n THEN 0 ELSE m.cell[addr + i] + ByteMod * u[i + 1]]
            upper == CHOOSE u : u = F(u)
<1>1. /\ ByteMod \in Nat \ {0} /\ Place(0) = 1
      /\ \A i \in Nat : Place(i) \in Nat \ {0} /\ Place(i + 1) = Place(i) * ByteMod
  BY Places
<1>2. v \in Int /\ v \div Place(n) = 0
  <2>1. Place(n) \in Nat \ {0} /\ v \in 0 .. Place(n) - 1
    BY <1>1
  <2>2. (0 * Place(n) + v) \div Place(n) = 0 /\ 0 * Place(n) + v = v
    BY <2>1, QuotientIs, 0 \in Int
  <2>. QED
    BY <2>1, <2>2
<1>3. ASSUME NEW i \in 0 .. n, i # n
      PROVE  g[i] = m.cell[addr + i] + ByteMod * g[i + 1]
  <2>. DEFINE a == v \div Place(i)
  <2>1. i \in 0 .. n - 1 /\ i + 1 \in 0 .. n /\ i \in Nat
    BY <1>3
  <2>2. g[i] = a /\ g[i + 1] = v \div Place(i + 1) /\ m.cell[addr + i] = a % ByteMod
    BY <2>1 DEF ByteAt
  <2>3. Place(i) \in Nat \ {0} /\ Place(i + 1) = Place(i) * ByteMod
    BY <1>1, <2>1
  <2>4. v \div Place(i + 1) = a \div ByteMod
    BY <1>1, <1>2, <2>3, QuotientTwice
  <2>5. a \in Int
    BY <1>2, <2>3
  <2>. HIDE DEF a, g
  <2>. DEFINE q == a \div ByteMod
  <2>6. a % ByteMod = a - q * ByteMod /\ q \in Int
    BY <1>1, <2>5, Quotient
  <2>7. g[i + 1] = q
    BY <2>2, <2>4
  <2>. HIDE DEF q
  <2>8. a = (a - q * ByteMod) + ByteMod * q
    BY <1>1, <2>5, <2>6
  <2>. QED
    BY <2>2, <2>6, <2>7, <2>8
<1>4. g = F(g)
  <2>1. \A i \in 0..n : g[i] = IF i = n THEN 0 ELSE m.cell[addr + i] + ByteMod * g[i + 1]
    <3>1. g[n] = 0
      BY <1>2
    <3>. HIDE DEF g
    <3>. QED
      BY <1>3, <3>1
  <2>2. g = [i \in 0..n |-> g[i]]
    OBVIOUS
  <2>. HIDE DEF g
  <2>. QED
    BY <2>1, <2>2
<1>. HIDE DEF g
<1>5. upper = F(upper)
  BY <1>4
<1>6. Joined(m, addr, n) = upper[0]
  BY DEF Joined
<1>. HIDE DEF upper
<1>7. upper[n] = 0 /\ \A i \in 0 .. n - 1 : upper[i] = m.cell[addr + i] + ByteMod * upper[i + 1]
  <2>1. \A i \in 0..n : upper[i] = IF i = n THEN 0 ELSE m.cell[addr + i] + ByteMod * upper[i + 1]
    BY <1>5
  <2>2. n \in 0..n /\ \A i \in 0 .. n - 1 : i \in 0..n /\ i # n
    OBVIOUS
  <2>. QED
    BY <2>1, <2>2
<1>8. g[n] = 0 /\ \A i \in 0 .. n - 1 : g[i] = m.cell[addr + i] + ByteMod * g[i + 1]
  <2>1. g[n] = 0
    BY <1>2 DEF g
  <2>2. \A i \in 0 .. n - 1 : i \in 0..n /\ i # n
    OBVIOUS
  <2>. QED
    BY <1>3, <2>1, <2>2
<1>. DEFINE T == {k \in Nat : k <= n => upper[n - k] = g[n - k]}
<1>9. T = Nat
  <2>1. 0 \in T
    BY <1>7, <1>8
  <2>2. ASSUME NEW k \in T
        PROVE  k + 1 \in T
    <3>1. SUFFICES ASSUME k + 1 <= n
                   PROVE  upper[n - (k + 1)] = g[n - (k + 1)]
      OBVIOUS
    <3>2. n - (k + 1) \in 0 .. n - 1 /\ (n - (k + 1)) + 1 = n - k /\ k <= n
      BY <3>1
    <3>3. upper[n - k] = g[n - k]
      BY <2>2, <3>2
    <3>. QED
      BY <1>7, <1>8, <3>2, <3>3
  <2>3. T \in SUBSET Nat
    OBVIOUS
  <2>. HIDE DEF T
  <2>. QED
    BY <2>1, <2>2, <2>3, Induction
<1>10. upper[0] = g[0]
  <2>1. n \in T
    BY <1>9
  <2>. QED
    BY <2>1
<1>11. g[0] = v
  <2>1. v \div 1 = v
    BY <1>2
  <2>. QED
    BY <1>1, <2>1 DEF g
<1>. QED
  BY <1>6, <1>10, <1>11

LEMMA HigherBytes ==
    ASSUME ByteBits \in Nat \ {0}, NEW x \in Int, NEW i \in Nat
    PROVE  x \div Place(i) \in Int
<1>1. Place(i) \in Nat \ {0}
  BY Places
<1>. QED
  BY <1>1, Division, Zenon

\* Bytes below the k-th are those of the remainder.
LEMMA ByteOfRemainder ==
    ASSUME ByteBits \in Nat \ {0}, NEW x \in Int, NEW k \in Nat, NEW j \in 0 .. k - 1
    PROVE  ByteAt(x % Place(k), j) = ByteAt(x, j)
<1>1. j \in Nat /\ k - j - 1 \in Nat /\ j + 1 \in Nat /\ (j + 1) + (k - j - 1) = k
  OBVIOUS
<1>2. Place(j + 1) = Place(j) * ByteMod
  BY <1>1, Places
<1>3. Place((j + 1) + (k - j - 1)) = Place(j + 1) * Place(k - j - 1)
  BY <1>1, Places
<1>4. /\ Place(j) \in Nat \ {0} /\ ByteMod \in Nat \ {0} /\ Place(k - j - 1) \in Nat \ {0}
      /\ Place(k) \in Nat \ {0}
  BY <1>1, Places
<1>5. Place(k) = (Place(j) * ByteMod) * Place(k - j - 1)
  BY <1>1, <1>2, <1>3
<1>6. SameDigit(x, Place(k), Place(j), ByteMod)
  BY <1>4, <1>5, RemainderDigit
<1>. QED
  BY <1>6, Zenon DEF SameDigit, ByteAt

\* Bytes above the i-th are those of the quotient.
LEMMA ByteOfQuotient ==
    ASSUME ByteBits \in Nat \ {0}, NEW x \in Int, NEW i \in Nat, NEW j \in Nat
    PROVE  ByteAt(x \div Place(i), j) = ByteAt(x, i + j)
<1>1. Place(i) \in Nat \ {0} /\ Place(j) \in Nat \ {0} /\ Place(i + j) = Place(i) * Place(j)
  BY Places
<1>2. x \div (Place(i) * Place(j)) = (x \div Place(i)) \div Place(j)
  BY <1>1, QuotientTwice
<1>. QED
  BY <1>1, <1>2 DEF ByteAt

\* Any bytes are those of a number.
LEMMA NumberOfBytes ==
    ASSUME ByteBits \in Nat \ {0}, NEW n \in Nat, NEW b, \A i \in 0 .. n - 1 : b[i] \in 0 .. ByteMod - 1
    PROVE  \E x \in 0 .. Place(n) - 1 : \A i \in 0 .. n - 1 : ByteAt(x, i) = b[i]
<1>. DEFINE Spelt(k) == \E x \in 0 .. Place(k) - 1 : \A i \in 0 .. k - 1 : ByteAt(x, i) = b[i]
            T == {k \in Nat : k <= n => Spelt(k)}
<1>1. 0 \in T
  <2>1. 0 \in 0 .. Place(0) - 1 /\ 0 .. 0 - 1 = {}
    BY Places
  <2>. QED
    BY <2>1
<1>2. ASSUME NEW k \in T
      PROVE  k + 1 \in T
  <2>1. SUFFICES ASSUME k + 1 <= n
                 PROVE  Spelt(k + 1)
    OBVIOUS
  <2>2. PICK x \in 0 .. Place(k) - 1 : \A i \in 0 .. k - 1 : ByteAt(x, i) = b[i]
    BY <1>2, <2>1
  <2>. DEFINE c == b[k]
              y == c * Place(k) + x
  <2>3. k \in Nat /\ k \in 0 .. n - 1 /\ c \in 0 .. ByteMod - 1
    BY <2>1
  <2>4. /\ Place(k) \in Nat \ {0} /\ ByteMod \in Nat \ {0}
        /\ Place(k + 1) = Place(k) * ByteMod /\ Place(k + 1) \in Nat \ {0}
    BY <2>3, Places
  <2>. HIDE DEF c
  <2>5. y \in 0 .. Place(k + 1) - 1
    <3>1. c * Place(k) <= (ByteMod - 1) * Place(k) /\ c * Place(k) \in Nat
      BY <2>3, <2>4
    <3>2. (ByteMod - 1) * Place(k) = Place(k + 1) - Place(k)
      BY <2>4
    <3>. QED
      BY <2>2, <2>4, <3>1, <3>2
  <2>6. y % Place(k) = x /\ y \div Place(k) = c /\ y \in Int
    BY <2>2, <2>3, <2>4, <2>5, Residue, QuotientIs
  <2>. HIDE DEF y
  <2>7. ASSUME NEW i \in 0 .. k - 1
        PROVE  ByteAt(y, i) = b[i]
    <3>1. ByteAt(y % Place(k), i) = ByteAt(y, i)
      BY <2>3, <2>6, ByteOfRemainder
    <3>. QED
      BY <2>2, <2>6, <3>1
  <2>8. ByteAt(y, k) = b[k]
    <3>1. ByteAt(y, k) = c % ByteMod
      BY <2>6 DEF ByteAt
    <3>2. c % ByteMod = c
      BY <2>3, <2>4, Residue, 0 * ByteMod + c = c, 0 \in Int
    <3>. QED
      BY <3>1, <3>2 DEF c
  <2>9. \A i \in 0 .. (k + 1) - 1 : i \in 0 .. k - 1 \/ i = k
    BY <2>3
  <2>. QED
    BY <2>5, <2>7, <2>8, <2>9
<1>3. T \in SUBSET Nat
  OBVIOUS
<1>4. T = Nat
  <2>. HIDE DEF T
  <2>. QED
    BY <1>1, <1>2, <1>3, Induction
<1>. QED
  BY <1>4

-----------------------------------------------------------------------------
(* The bus: watchpoints *)

\* The bytes that are watched end before the address space does, as the regions do (Placed).
Watchpoints ==
    {w \in [addr : Nat, len : Nat \ {0}, onRead : BOOLEAN, onWrite : BOOLEAN] : w.addr + w.len < Modulus}

IsMemory(m) ==
    /\ m = [cell |-> m.cell, reg |-> m.reg, watch |-> m.watch, hit |-> m.hit, quiet |-> m.quiet, log |-> m.log]
    /\ m.cell \in [{a \in Nat : Backed(a, 1)} -> 0 .. ByteMod - 1]
    /\ m.watch \in Seq(Watchpoints)
    /\ m.quiet \in BOOLEAN

\* A hit is latched if there has been one, and is one of those; `earlier' are those that
\* have left the log.
Latched(m, earlier) ==
    /\ m.hit = None => Caught(m) = {}
    /\ m.hit # None => m.hit \in earlier \cup Caught(m)

\* What the bus refuses is not in the log.
Logged(m, addr, n, write) == [addr |-> addr, n |-> n, write |-> write] \in m.log

LEMMA CaughtIs ==
    ASSUME NEW m, NEW h
    PROVE  h \in Caught(m) <=>
               \E i \in DOMAIN m.watch : \E a \in m.log :
                   Touches(m.watch[i], a) /\ h = [addr |-> m.watch[i].addr, write |-> a.write]
<1>1. \A w : w \in ToSet(m.watch) <=> \E i \in DOMAIN m.watch : w = m.watch[i]
  BY DEF ToSet
<1>2. ASSUME NEW i \in DOMAIN m.watch, NEW a \in m.log, Touches(m.watch[i], a),
             h = [addr |-> m.watch[i].addr, write |-> a.write]
      PROVE  h \in Caught(m)
  <2>. DEFINE t == <<m.watch[i], a>>
  <2>1. t \in {u \in ToSet(m.watch) \X m.log : Touches(u[1], u[2])}
    BY <1>1, <1>2
  <2>2. h = [addr |-> t[1].addr, write |-> t[2].write]
    BY <1>2
  <2>. HIDE DEF t
  <2>. QED
    BY <2>1, <2>2 DEF Caught
<1>3. ASSUME h \in Caught(m)
      PROVE  \E i \in DOMAIN m.watch : \E a \in m.log :
                 Touches(m.watch[i], a) /\ h = [addr |-> m.watch[i].addr, write |-> a.write]
  <2>1. PICK t \in {u \in ToSet(m.watch) \X m.log : Touches(u[1], u[2])} :
                 h = [addr |-> t[1].addr, write |-> t[2].write]
    BY <1>3 DEF Caught
  <2>2. t[1] \in ToSet(m.watch) /\ t[2] \in m.log /\ Touches(t[1], t[2])
    BY <2>1
  <2>. QED
    BY <1>1, <2>1, <2>2
<1>. QED
  BY <1>2, <1>3

\* What an interval overlaps has a byte in common with it, where no address wraps around.
LEMMA CatchesTouching ==
    ASSUME Placed, NEW w \in Watchpoints, NEW addr \in Nat, NEW n \in Nat \ {0}, addr + n < Modulus,
           NEW write \in BOOLEAN
    PROVE  Catches(w, addr, n, write) <=> Touches(w, [addr |-> addr, n |-> n, write |-> write])
<1>. DEFINE a == [addr |-> addr, n |-> n, write |-> write]
            right == IF write THEN w.onWrite ELSE w.onRead
<1>1. Modulus \in Nat \ {0} /\ w.addr \in Nat /\ w.len \in Nat \ {0} /\ w.addr + w.len < Modulus
  BY PowersOfTwo DEF Placed, Modulus, Watchpoints
<1>2. (w.addr + w.len) % Modulus = w.addr + w.len /\ (addr + n) % Modulus = addr + n
  <2>. DEFINE x == w.addr + w.len
              y == addr + n
  <2>1. x \in 0 .. Modulus - 1 /\ y \in 0 .. Modulus - 1
    BY <1>1
  <2>. HIDE DEF x, y
  <2>2. (0 * Modulus + x) % Modulus = x /\ (0 * Modulus + y) % Modulus = y
    BY <1>1, <2>1, Residue, 0 \in Int
  <2>3. 0 * Modulus + x = x /\ 0 * Modulus + y = y
    BY <1>1, <2>1
  <2>4. x % Modulus = x /\ y % Modulus = y
    BY <2>2, <2>3
  <2>. QED
    BY <2>4 DEF x, y
<1>3. Overlaps(w, addr, n) <=> addr < w.addr + w.len /\ w.addr < addr + n
  BY <1>2 DEF Overlaps
<1>4. (w.addr..(w.addr + w.len - 1)) \cap (addr..(addr + n - 1)) # {}
          <=> addr < w.addr + w.len /\ w.addr < addr + n
  <2>1. ASSUME addr < w.addr + w.len, w.addr < addr + n
        PROVE  (w.addr..(w.addr + w.len - 1)) \cap (addr..(addr + n - 1)) # {}
    <3>1. CASE addr <= w.addr
      <4>1. w.addr \in w.addr..(w.addr + w.len - 1) /\ w.addr \in addr..(addr + n - 1)
        BY <1>1, <2>1, <3>1
      <4>. QED
        BY <4>1
    <3>2. CASE w.addr < addr
      <4>1. addr \in w.addr..(w.addr + w.len - 1) /\ addr \in addr..(addr + n - 1)
        BY <1>1, <2>1, <3>2
      <4>. QED
        BY <4>1
    <3>. QED
      BY <1>1, <3>1, <3>2
  <2>2. ASSUME (w.addr..(w.addr + w.len - 1)) \cap (addr..(addr + n - 1)) # {}
        PROVE  addr < w.addr + w.len /\ w.addr < addr + n
    <3>1. PICK b : b \in w.addr..(w.addr + w.len - 1) /\ b \in addr..(addr + n - 1)
      BY <2>2
    <3>. QED
      BY <1>1, <3>1
  <2>. QED
    BY <2>1, <2>2
<1>5. Touches(w, a) <=> (w.addr..(w.addr + w.len - 1)) \cap (addr..(addr + n - 1)) # {} /\ right
  BY DEF Touches
<1>6. Catches(w, addr, n, write) <=> Overlaps(w, addr, n) /\ right
  BY DEF Catches
<1>. QED
  BY <1>3, <1>4, <1>5, <1>6

\* Looking changes the hit and the log.
Untouched(m, c) ==
    IsMemory(c) /\ c.cell = m.cell /\ c.reg = m.reg /\ c.watch = m.watch /\ c.quiet = m.quiet

LEMMA LooksOnly ==
    ASSUME NEW m, IsMemory(m), NEW addr, NEW n, NEW write
    PROVE  Untouched(m, CheckWatch(m, addr, n, write))
<1>. DEFINE a == [addr |-> addr, n |-> n, write |-> write]
            caught == {i \in DOMAIN m.watch : Catches(m.watch[i], addr, n, write)}
            logged == IF m.quiet THEN m ELSE [m EXCEPT !.log = @ \cup {a}]
            hit == [addr |-> m.watch[Min(caught)].addr, write |-> write]
            c == CheckWatch(m, addr, n, write)
<1>1. c = IF m.quiet \/ m.hit # None \/ caught = {} THEN logged ELSE [logged EXCEPT !.hit = hit]
  BY DEF CheckWatch
<1>2. m = [cell |-> m.cell, reg |-> m.reg, watch |-> m.watch, hit |-> m.hit, quiet |-> m.quiet, log |-> m.log]
  BY DEF IsMemory
<1>3. logged = [cell |-> m.cell, reg |-> m.reg, watch |-> m.watch, hit |-> m.hit, quiet |-> m.quiet, log |-> logged.log]
  <2>. HIDE DEF a
  <2>. QED  BY <1>2
<1>4. \E h, l : c = [cell |-> m.cell, reg |-> m.reg, watch |-> m.watch, hit |-> h, quiet |-> m.quiet, log |-> l]
  <2>. HIDE DEF logged, hit, caught, c
  <2>1. CASE m.quiet \/ m.hit # None \/ caught = {}
    BY <1>1, <1>3, <2>1
  <2>2. CASE ~(m.quiet \/ m.hit # None \/ caught = {})
    <3>1. c = [logged EXCEPT !.hit = hit]
      BY <1>1, <2>2
    <3>2. c = [cell |-> m.cell, reg |-> m.reg, watch |-> m.watch, hit |-> hit, quiet |-> m.quiet, log |-> logged.log]
      BY <1>3, <3>1
    <3>. QED  BY <3>2
  <2>. QED  BY <2>1, <2>2
<1>. HIDE DEF c
<1>5. PICK h, l : c = [cell |-> m.cell, reg |-> m.reg, watch |-> m.watch, hit |-> h, quiet |-> m.quiet, log |-> l]
  BY <1>4
<1>6. c.cell = m.cell /\ c.reg = m.reg /\ c.watch = m.watch /\ c.quiet = m.quiet /\ c.hit = h /\ c.log = l
  BY <1>5
<1>7. IsMemory(c)
  BY <1>5, <1>6 DEF IsMemory
<1>8. Untouched(m, c)
  BY <1>6, <1>7 DEF Untouched
<1>. QED
  BY <1>8 DEF c

\* An access that is looked at is caught if it meets a watchpoint, and only then.
LEMMA LookedAt ==
    ASSUME Placed, NEW m, IsMemory(m), NEW earlier, Latched(m, earlier),
           NEW addr \in Nat, NEW n \in Nat \ {0}, addr + n < Modulus, NEW write \in BOOLEAN
    PROVE  /\ Latched(CheckWatch(m, addr, n, write), earlier)
           /\ m.quiet \/ Logged(CheckWatch(m, addr, n, write), addr, n, write)
<1>. DEFINE a == [addr |-> addr, n |-> n, write |-> write]
            caught == {i \in DOMAIN m.watch : Catches(m.watch[i], addr, n, write)}
            logged == IF m.quiet THEN m ELSE [m EXCEPT !.log = @ \cup {a}]
            hit == [addr |-> m.watch[Min(caught)].addr, write |-> write]
            c == CheckWatch(m, addr, n, write)
<1>1. c = IF m.quiet \/ m.hit # None \/ caught = {} THEN logged ELSE [logged EXCEPT !.hit = hit]
  BY DEF CheckWatch
<1>2. m = [cell |-> m.cell, reg |-> m.reg, watch |-> m.watch, hit |-> m.hit, quiet |-> m.quiet, log |-> m.log]
  BY DEF IsMemory
<1>3. c.watch = m.watch
  BY LooksOnly DEF Untouched
<1>4. \A i \in DOMAIN m.watch : m.watch[i] \in Watchpoints /\ i \in Nat
  BY ElementOfSeq, LenProperties DEF IsMemory
<1>5. \A i \in DOMAIN m.watch : i \in caught <=> Touches(m.watch[i], a)
  BY <1>4, CatchesTouching
<1>6. CASE m.quiet
  <2>1. c = m
    BY <1>1, <1>6
  <2>. QED
    BY <1>6, <2>1
<1>7. CASE ~m.quiet /\ m.hit # None
  <2>1. c = [m EXCEPT !.log = @ \cup {a}]
    BY <1>1, <1>7
  <2>. HIDE DEF a, c
  <2>2. c.hit = m.hit /\ c.log = m.log \cup {a}
    BY <1>2, <2>1
  <2>3. ASSUME NEW h \in Caught(m)
        PROVE  h \in Caught(c)
    BY <1>3, <2>2, <2>3, CaughtIs
  <2>4. Latched(c, earlier)
    BY <1>7, <2>2, <2>3 DEF Latched
  <2>. QED
    BY <2>2, <2>4 DEF c, a, Logged
<1>8. CASE ~m.quiet /\ m.hit = None /\ caught = {}
  <2>1. c = [m EXCEPT !.log = @ \cup {a}]
    BY <1>1, <1>8
  <2>. HIDE DEF a, c, caught
  <2>2. c.hit = None /\ c.log = m.log \cup {a}
    BY <1>2, <1>8, <2>1
  <2>3. ASSUME NEW h \in Caught(c)
        PROVE  FALSE
    <3>1. PICK i \in DOMAIN m.watch, b \in m.log \cup {a} :
                Touches(m.watch[i], b) /\ h = [addr |-> m.watch[i].addr, write |-> b.write]
      BY <1>3, <2>2, <2>3, CaughtIs
    <3>2. b # a
      BY <1>5, <1>8, <3>1
    <3>3. h \in Caught(m)
      BY <3>1, <3>2, CaughtIs
    <3>. QED
      BY <1>8, <3>3 DEF Latched
  <2>4. Latched(c, earlier)
    BY <2>2, <2>3 DEF Latched
  <2>. QED
    BY <2>2, <2>4 DEF c, a, Logged
<1>9. CASE ~m.quiet /\ m.hit = None /\ caught # {}
  <2>1. c = [[m EXCEPT !.log = @ \cup {a}] EXCEPT !.hit = hit]
    BY <1>1, <1>9
  <2>2. Min(caught) \in caught
    <3>1. caught \in SUBSET Nat
      BY <1>4
    <3>2. \E i \in caught : \A j \in caught : i <= j
      <4>. HIDE DEF caught
      <4>. QED  BY <1>9, <3>1, LeastNumber
    <3>. HIDE DEF caught
    <3>. QED
      BY <3>2 DEF Min
  <2>. DEFINE i == Min(caught)
  <2>3. i \in DOMAIN m.watch /\ Touches(m.watch[i], a) /\ hit = [addr |-> m.watch[i].addr, write |-> write]
    BY <1>5, <2>2
  <2>4. a.write = write
    OBVIOUS
  <2>. HIDE DEF a, c, caught, hit, i
  <2>5. c.hit = hit /\ c.log = m.log \cup {a}
    <3>1. c = [cell |-> m.cell, reg |-> m.reg, watch |-> m.watch, hit |-> hit, quiet |-> m.quiet, log |-> m.log \cup {a}]
      BY <1>2, <2>1
    <3>. QED
      BY <3>1
  <2>6. a \in c.log
    BY <2>5
  <2>7. hit \in Caught(c)
    BY <1>3, <2>3, <2>4, <2>6, CaughtIs
  <2>8. hit # None
    <3>1. m.watch[i].addr \in Nat
      BY <1>4, <2>3 DEF Watchpoints
    <3>2. hit.addr = m.watch[i].addr /\ None.addr = -1
      BY <2>3 DEF None
    <3>. QED
      BY <3>1, <3>2
  <2>9. Latched(c, earlier)
    BY <2>5, <2>7, <2>8 DEF Latched
  <2>. QED
    BY <2>6, <2>9 DEF c, a, Logged
<1>10. \/ m.quiet \/ (~m.quiet /\ m.hit # None) \/ (~m.quiet /\ m.hit = None /\ caught = {})
       \/ (~m.quiet /\ m.hit = None /\ caught # {})
  <2>. HIDE DEF caught
  <2>. QED  OBVIOUS
<1>. HIDE DEF caught
<1>. QED
  BY <1>6, <1>7, <1>8, <1>9, <1>10, Zenon

LEMMA Reached ==
    ASSUME Placed, NEW region, Within(region), NEW addr \in Int, NEW n \in Nat, ContainsSpan(region, addr, n)
    PROVE  addr \in Nat /\ addr + n < Modulus
<1>1. Modulus \in Nat
  BY PowersOfTwo DEF Placed, Modulus
<1>. QED
  BY <1>1 DEF Within, ContainsSpan

LEMMA AttachedWithin ==
    ASSUME Placed, NEW mapped, \A block \in mapped : Within(block),
           NEW new, new.base \in Nat, new.size \in Nat
    PROVE  \A block \in Attach(mapped, new) : Within(block)
<1>1. CASE Attach(mapped, new) = mapped
  BY <1>1
<1>2. CASE Attach(mapped, new) # mapped
  <2>1. /\ Attach(mapped, new) = mapped \cup {new}
        /\ \E region \in {RegisterSpace, Sio, Ppb} : ContainsSpan(region, new.base, new.size)
    BY <1>2 DEF Attach
  <2>2. PICK region \in {RegisterSpace, Sio, Ppb} : ContainsSpan(region, new.base, new.size)
    BY <2>1
  <2>3. Within(region)
    BY <2>2 DEF Placed
  <2>4. Within(new)
    BY <2>2, <2>3, Reached DEF Within
  <2>. QED
    BY <2>1, <2>4
<1>. QED
  BY <1>1, <1>2

LEMMA MappedWithin ==
    ASSUME Placed
    PROVE  \A block \in Mapped : Within(block)
<1>. DEFINE stub == [kind |-> "stub", base |-> RegisterSpace.base, size |-> 4 * AliasUnit]
            scratch == [kind |-> "scratch", base |-> RegisterSpace.base + 4 * AliasUnit, size |-> AliasUnit]
            scs == [kind |-> "scs", base |-> Ppb.base, size |-> Ppb.size]
            one == Attach({}, stub)
            two == Attach(one, scratch)
<1>1. RegisterSpace.base \in Nat /\ Ppb.base \in Nat /\ Ppb.size \in Nat /\ AliasUnit \in Nat
  BY DEF Placed, Within
<1>2. stub.base \in Nat /\ stub.size \in Nat
  BY <1>1
<1>3. scratch.base \in Nat /\ scratch.size \in Nat
  BY <1>1
<1>4. scs.base \in Nat /\ scs.size \in Nat
  BY <1>1
<1>5. Mapped = Attach(two, scs)
  BY DEF Mapped
<1>. HIDE DEF stub, scratch, scs
<1>6. \A block \in one : Within(block)
  BY <1>2, AttachedWithin
<1>. HIDE DEF one
<1>7. \A block \in two : Within(block)
  BY <1>3, <1>6, AttachedWithin
<1>. HIDE DEF two
<1>. QED
  BY <1>4, <1>5, <1>7, AttachedWithin

\* What a region or a block answers does not wrap around.
LEMMA AnsweredBelow ==
    ASSUME Placed, NEW addr \in Int, NEW n \in Nat, Backed(addr, n) \/ Peripherals(addr, n) # {}
    PROVE  addr \in Nat /\ addr + n < Modulus
<1>1. CASE Backed(addr, n)
  <2>1. PICK region \in {Rom, Flash, Sram} : ContainsSpan(region, addr, n)
    BY <1>1 DEF Backed
  <2>2. Within(region)
    BY <2>1 DEF Placed
  <2>. QED
    BY <2>1, <2>2, Reached
<1>2. CASE Peripherals(addr, n) # {}
  <2>1. PICK block \in Mapped : ContainsSpan(block, addr, n)
    BY <1>2 DEF Peripherals
  <2>2. Within(block)
    BY MappedWithin
  <2>. QED
    BY <2>1, <2>2, Reached
<1>. QED
  BY <1>1, <1>2

\* Whether hits are latched is a question of these fields.
LEMMA LatchedAlike ==
    ASSUME NEW m, NEW k, NEW earlier, Latched(m, earlier), k.watch = m.watch, k.hit = m.hit, k.log = m.log
    PROVE  Latched(k, earlier)
BY DEF Latched, Caught

\* Nor does storing change anything of these.
Quietly(m, s) ==
    IsMemory(s) /\ s.watch = m.watch /\ s.hit = m.hit /\ s.quiet = m.quiet /\ s.log = m.log

\* The cells with the bytes of v from addr on
Spread(cell, addr, n, v) ==
    [a \in DOMAIN cell |-> IF a \in addr..(addr + n - 1) THEN ByteAt(v, a - addr) ELSE cell[a]]

LEMMA SplitOnly ==
    ASSUME Placed, NEW m, IsMemory(m), NEW addr \in Nat, NEW n \in Nat, NEW v \in Nat
    PROVE  Quietly(m, Split(m, addr, n, v)) /\ Split(m, addr, n, v).cell = Spread(m.cell, addr, n, v)
<1>. DEFINE cells == [a \in DOMAIN m.cell |-> IF a \in addr..(addr + n - 1) THEN ByteAt(v, a - addr)
                                               ELSE m.cell[a]]
            s == Split(m, addr, n, v)
<1>1. m = [cell |-> m.cell, reg |-> m.reg, watch |-> m.watch, hit |-> m.hit, quiet |-> m.quiet, log |-> m.log]
  BY DEF IsMemory
<1>2. s = [m EXCEPT !.cell = cells]
  BY DEF Split, ByteAt
<1>3. m.cell \in [{a \in Nat : Backed(a, 1)} -> 0 .. ByteMod - 1]
  BY DEF IsMemory
<1>4. \A i \in Nat : ByteAt(v, i) \in 0 .. ByteMod - 1
  <2>1. ByteBits \in Nat \ {0}
    BY DEF Placed
  <2>2. ASSUME NEW i \in Nat
        PROVE  ByteAt(v, i) \in 0 .. ByteMod - 1
    <3>1. Place(i) \in Nat \ {0} /\ ByteMod \in Nat \ {0}
      BY <2>1, Places
    <3>2. v \div Place(i) \in Int
      BY <3>1, Quotient
    <3>. QED
      BY <3>1, <3>2, Quotient DEF ByteAt
  <2>. QED
    BY <2>2
<1>5. cells \in [{a \in Nat : Backed(a, 1)} -> 0 .. ByteMod - 1]
  <2>1. ASSUME NEW a \in DOMAIN m.cell
        PROVE  cells[a] \in 0 .. ByteMod - 1
    <3>1. a \in Nat /\ m.cell[a] \in 0 .. ByteMod - 1
      BY <1>3
    <3>2. a \in addr..(addr + n - 1) => a - addr \in Nat
      BY <3>1
    <3>. QED
      BY <1>4, <3>1, <3>2
  <2>2. DOMAIN m.cell = {a \in Nat : Backed(a, 1)}
    BY <1>3
  <2>. QED
    BY <2>1, <2>2
<1>. HIDE DEF cells
<1>6. s = [cell |-> cells, reg |-> m.reg, watch |-> m.watch, hit |-> m.hit, quiet |-> m.quiet, log |-> m.log]
  BY <1>1, <1>2
<1>. HIDE DEF s
<1>7. /\ s.cell = cells /\ s.reg = m.reg /\ s.watch = m.watch /\ s.hit = m.hit
      /\ s.quiet = m.quiet /\ s.log = m.log
  BY <1>6
<1>8. IsMemory(s)
  BY <1>5, <1>6, <1>7 DEF IsMemory
<1>9. Quietly(m, s)
  BY <1>7, <1>8 DEF Quietly
<1>. QED
  BY <1>7, <1>9 DEF s, cells, Spread

LEMMA BlockWriteOnly ==
    ASSUME NEW m, IsMemory(m), NEW block, NEW addr, NEW v
    PROVE  Quietly(m, BlockWrite(m, block, addr, v))
<1>. DEFINE s == BlockWrite(m, block, addr, v)
<1>1. m = [cell |-> m.cell, reg |-> m.reg, watch |-> m.watch, hit |-> m.hit, quiet |-> m.quiet, log |-> m.log]
  BY DEF IsMemory
<1>2. s = m \/ \E f : s = [m EXCEPT !.reg = f]
  BY DEF BlockWrite, RegWrite
<1>. HIDE DEF s
<1>3. CASE s = m
  BY <1>3 DEF s, Quietly
<1>4. CASE \E f : s = [m EXCEPT !.reg = f]
  <2>1. PICK f : s = [m EXCEPT !.reg = f]
    BY <1>4
  <2>2. s = [cell |-> m.cell, reg |-> f, watch |-> m.watch, hit |-> m.hit, quiet |-> m.quiet, log |-> m.log]
    BY <1>1, <2>1
  <2>3. /\ s.cell = m.cell /\ s.reg = f /\ s.watch = m.watch /\ s.hit = m.hit
        /\ s.quiet = m.quiet /\ s.log = m.log
    BY <2>2
  <2>4. IsMemory(s)
    BY <2>2, <2>3 DEF IsMemory
  <2>. QED
    BY <2>3, <2>4 DEF s, Quietly
<1>. QED
  BY <1>2, <1>3, <1>4

\* What an access leaves behind
Seen(m, after, earlier, addr, n, write) ==
    /\ IsMemory(after) /\ after.watch = m.watch /\ after.quiet = m.quiet
    /\ Latched(after, earlier)
    /\ m.quiet \/ Logged(after, addr, n, write)

LEMMA SeenBy ==
    ASSUME Placed, NEW m, NEW k, NEW earlier, Latched(m, earlier), Quietly(m, k), NEW addr \in Nat,
           NEW n \in Nat \ {0}, addr + n < Modulus, NEW write \in BOOLEAN
    PROVE  Seen(m, CheckWatch(k, addr, n, write), earlier, addr, n, write)
<1>1. Latched(k, earlier) /\ IsMemory(k)
  BY LatchedAlike DEF Quietly
<1>2. /\ Latched(CheckWatch(k, addr, n, write), earlier)
      /\ k.quiet \/ Logged(CheckWatch(k, addr, n, write), addr, n, write)
  BY <1>1, LookedAt
<1>3. Untouched(k, CheckWatch(k, addr, n, write))
  BY <1>1, LooksOnly
<1>. QED
  BY <1>2, <1>3 DEF Seen, Untouched, Quietly

\* Where an access is looked for: a write through an alias that no block answers is one of
\* the register it stands for.
Looked(addr, n, write) ==
    IF write /\ ~Backed(addr, n) /\ Peripherals(addr, n) = {} THEN addr - Alias(addr) * AliasUnit ELSE addr

ReadCaught(m, addr, n, earlier) ==
    LET read == Read(m, addr, n)
    IN  IF read.status = "Ok" THEN Seen(m, read.mem, earlier, addr, n, FALSE) ELSE read.mem = m

WriteCaught(m, addr, n, v, earlier) ==
    LET written == Write(m, addr, n, v)
    IN  IF written.status = "Ok" THEN Seen(m, written.mem, earlier, Looked(addr, n, TRUE), n, TRUE)
        ELSE written.mem = m

(***************************************************************************)
(* No access of a program to its memory gets past the watchpoints: as long *)
(* as no hit is latched, none of those made touches a watched byte, and a  *)
(* latched one names a watchpoint and an access that do.  An access that   *)
(* the bus answers is logged; what it refuses changes nothing.             *)
(***************************************************************************)
THEOREM AccessCaught ==
    ASSUME Placed, NEW m, IsMemory(m), NEW earlier, Latched(m, earlier),
           NEW addr \in Nat, NEW n \in Nat \ {0}, NEW v \in Nat
    PROVE  ReadCaught(m, addr, n, earlier) /\ WriteCaught(m, addr, n, v, earlier)
<1>1. LET read == Read(m, addr, n)
      IN  IF read.status = "Ok" THEN Seen(m, read.mem, earlier, addr, n, FALSE) ELSE read.mem = m
  <2>. DEFINE read == Read(m, addr, n)
  <2>1. CASE Aligned(addr, n) /\ (Backed(addr, n) \/ Peripherals(addr, n) # {})
    <3>1. read.mem = CheckWatch(m, addr, n, FALSE) /\ read.status = "Ok"
      BY <2>1 DEF Read
    <3>2. addr + n < Modulus
      BY <2>1, AnsweredBelow
    <3>3. Seen(m, CheckWatch(m, addr, n, FALSE), earlier, addr, n, FALSE)
      BY <3>2, SeenBy DEF Quietly
    <3>. QED
      BY <3>1, <3>3
  <2>2. CASE ~(Aligned(addr, n) /\ (Backed(addr, n) \/ Peripherals(addr, n) # {}))
    <3>1. read.mem = m /\ read.status # "Ok"
      BY <2>2 DEF Read, Refused
    <3>. QED
      BY <3>1
  <2>. QED
    BY <2>1, <2>2
<1>2. LET written == Write(m, addr, n, v)
      IN  IF written.status = "Ok" THEN Seen(m, written.mem, earlier, Looked(addr, n, TRUE), n, TRUE)
          ELSE written.mem = m
  <2>. DEFINE written == Write(m, addr, n, v)
  <2>1. CASE Aligned(addr, n) /\ Backed(addr, n) /\ Writable(addr, n)
    <3>1. written.mem = CheckWatch(Split(m, addr, n, v), addr, n, TRUE) /\ written.status = "Ok"
      BY <2>1 DEF Write
    <3>2. addr + n < Modulus
      BY <2>1, AnsweredBelow
    <3>3. Quietly(m, Split(m, addr, n, v))
      BY SplitOnly
    <3>4. Seen(m, CheckWatch(Split(m, addr, n, v), addr, n, TRUE), earlier, addr, n, TRUE)
      BY <3>2, <3>3, SeenBy
    <3>5. Looked(addr, n, TRUE) = addr
      BY <2>1 DEF Looked
    <3>. QED
      BY <3>1, <3>4, <3>5
  <2>2. CASE Aligned(addr, n) /\ ~Backed(addr, n) /\ Peripherals(addr, n) # {}
    <3>. DEFINE block == CHOOSE b \in Peripherals(addr, n) : TRUE
                s == BlockWrite(m, block, addr, v)
    <3>1. written.mem = CheckWatch(s, addr, n, TRUE) /\ written.status = "Ok"
      BY <2>2 DEF Write
    <3>2. addr + n < Modulus
      BY <2>2, AnsweredBelow
    <3>3. Quietly(m, s)
      BY BlockWriteOnly
    <3>. HIDE DEF s
    <3>4. Seen(m, CheckWatch(s, addr, n, TRUE), earlier, addr, n, TRUE)
      BY <3>2, <3>3, SeenBy
    <3>5. Looked(addr, n, TRUE) = addr
      BY <2>2 DEF Looked
    <3>. QED
      BY <3>1, <3>4, <3>5
  <2>3. CASE Aligned(addr, n) /\ ~Backed(addr, n) /\ Peripherals(addr, n) = {}
    <3>. DEFINE alias == Alias(addr)
                base == addr - alias * AliasUnit
                answered == ContainsSpan(RegisterSpace, addr, 1) /\ alias # 0 /\ Peripherals(base, n) # {}
                block == CHOOSE b \in Peripherals(base, n) : TRUE
                next == Combined(alias, RegRead(m, Register(block, base)), v)
                s == BlockWrite(m, block, base, next)
    <3>1. written = WriteAlias(m, addr, n, v)
      BY <2>3 DEF Write
    <3>2. CASE answered
      <4>1. written.mem = CheckWatch(s, base, n, TRUE) /\ written.status = "Ok"
        BY <3>1, <3>2 DEF WriteAlias
      <4>2. base \in Int
        <5>1. RegisterSpace.base \in Nat /\ AliasUnit \in Nat \ {0}
          BY DEF Placed, Within
        <5>2. (addr - RegisterSpace.base) \div AliasUnit \in Int
          BY <5>1
        <5>3. alias \in Int
          BY <5>2 DEF Alias
        <5>. HIDE DEF alias
        <5>. QED
          BY <5>1, <5>3
      <4>3. base \in Nat /\ base + n < Modulus
        <5>. HIDE DEF base
        <5>. QED  BY <3>2, <4>2, AnsweredBelow
      <4>4. Quietly(m, s)
        BY BlockWriteOnly
      <4>5. Looked(addr, n, TRUE) = base
        BY <2>3 DEF Looked
      <4>. HIDE DEF s, base
      <4>6. Seen(m, CheckWatch(s, base, n, TRUE), earlier, base, n, TRUE)
        BY <4>3, <4>4, SeenBy
      <4>. QED
        BY <4>1, <4>5, <4>6
    <3>3. CASE ~answered
      <4>1. written.mem = m /\ written.status # "Ok"
        BY <3>1, <3>3 DEF WriteAlias
      <4>. QED
        BY <4>1
    <3>. QED
      BY <3>2, <3>3
  <2>4. CASE ~Aligned(addr, n) \/ (Backed(addr, n) /\ ~Writable(addr, n))
    <3>1. written.mem = m /\ written.status # "Ok"
      BY <2>4 DEF Write
    <3>. QED
      BY <3>1
  <2>. QED
    BY <2>1, <2>2, <2>3, <2>4
<1>. QED
  BY <1>1, <1>2, Zenon DEF ReadCaught, WriteCaught

-----------------------------------------------------------------------------
(* The bus: values that are stored *)

(***************************************************************************)
(* What is loaded from ROM, flash or SRAM, in any width, is the number     *)
(* whose bytes are there, lowest first, as loads of a single byte get them.*)
(***************************************************************************)
THEOREM LoadedAsBytes ==
    ASSUME Placed, NEW m, IsMemory(m), NEW addr \in Nat, NEW n \in Nat \ {0}, Aligned(addr, n), Backed(addr, n)
    PROVE  /\ Read(m, addr, n).value \in 0 .. Place(n) - 1
           /\ \A i \in 0 .. n - 1 : ByteAt(Read(m, addr, n).value, i) = m.cell[addr + i]
           /\ \A i \in 0 .. n - 1 : Read(m, addr + i, 1).value = m.cell[addr + i]
<1>1. ByteBits \in Nat \ {0}
  BY DEF Placed
<1>2. ASSUME NEW a \in Nat, NEW k \in Nat, Backed(a, k)
      PROVE  \A i \in 0 .. k - 1 : Backed(a + i, 1) /\ m.cell[a + i] \in 0 .. ByteMod - 1
  <2>1. PICK region \in {Rom, Flash, Sram} : ContainsSpan(region, a, k)
    BY <1>2 DEF Backed
  <2>2. Within(region)
    BY <2>1 DEF Placed
  <2>3. ASSUME NEW i \in 0 .. k - 1
        PROVE  Backed(a + i, 1) /\ m.cell[a + i] \in 0 .. ByteMod - 1
    <3>1. ContainsSpan(region, a + i, 1)
      BY <2>1, <2>2 DEF ContainsSpan, Within
    <3>2. Backed(a + i, 1)
      BY <2>1, <3>1 DEF Backed
    <3>3. a + i \in {b \in Nat : Backed(b, 1)}
      BY <3>2
    <3>. QED
      BY <3>2, <3>3 DEF IsMemory
  <2>. QED
    BY <2>3
<1>3. ASSUME NEW a \in Nat, NEW k \in Nat \ {0}, Backed(a, k), Aligned(a, k)
      PROVE  /\ Read(m, a, k).value \in 0 .. Place(k) - 1
             /\ \A i \in 0 .. k - 1 : ByteAt(Read(m, a, k).value, i) = m.cell[a + i]
  <2>. DEFINE b == [i \in 0 .. k - 1 |-> m.cell[a + i]]
  <2>1. \A i \in 0 .. k - 1 : b[i] \in 0 .. ByteMod - 1 /\ b[i] = m.cell[a + i]
    BY <1>2, <1>3
  <2>. HIDE DEF b
  <2>2. PICK x \in 0 .. Place(k) - 1 : \A i \in 0 .. k - 1 : ByteAt(x, i) = b[i]
    BY <1>1, <2>1, NumberOfBytes
  <2>3. Joined(m, a, k) = x
    BY <1>1, <2>1, <2>2, JoinedIs
  <2>4. Read(m, a, k).value = Joined(m, a, k)
    BY <1>3 DEF Read
  <2>. QED
    BY <2>1, <2>2, <2>3, <2>4
<1>4. ASSUME NEW i \in 0 .. n - 1
      PROVE  Read(m, addr + i, 1).value = m.cell[addr + i]
  <2>. DEFINE a == addr + i
              x == Read(m, a, 1).value
  <2>1. a \in Nat /\ Aligned(a, 1) /\ Backed(a, 1) /\ a + 0 = a
    BY <1>2 DEF Aligned
  <2>. HIDE DEF a
  <2>2. x \in 0 .. Place(1) - 1 /\ ByteAt(x, 0) = m.cell[a]
    BY <1>3, <2>1
  <2>3. Place(1) = ByteMod /\ Place(0) = 1 /\ ByteMod \in Nat \ {0}
    BY <1>1, Places
  <2>. HIDE DEF x
  <2>4. x \div 1 = x /\ x % ByteMod = x
    BY <2>2, <2>3
  <2>5. ByteAt(x, 0) = x
    BY <2>3, <2>4 DEF ByteAt
  <2>. QED
    BY <2>2, <2>5 DEF x, a
<1>. QED
  BY <1>3, <1>4

(***************************************************************************)
(* What is stored in SRAM is loaded again in any width and from any place  *)
(* inside it, and no other byte changes.                                   *)
(***************************************************************************)
THEOREM StoredIsLoaded ==
    ASSUME Placed, NEW m, IsMemory(m), NEW v \in Nat,
           NEW addr \in Nat, NEW n \in Nat \ {0}, Aligned(addr, n), Writable(addr, n),
           NEW i \in Nat, NEW k \in Nat \ {0}, Aligned(addr + i, k), i + k <= n
    PROVE  LET stored == Write(m, addr, n, v)
               loaded == Read(stored.mem, addr + i, k)
           IN  /\ stored.status = "Ok" /\ loaded.status = "Ok"
               /\ loaded.value = (v \div Place(i)) % Place(k)
               /\ \A a \in DOMAIN m.cell \ (addr..(addr + n - 1)) : stored.mem.cell[a] = m.cell[a]
<1>. DEFINE s == Split(m, addr, n, v)
            c == CheckWatch(s, addr, n, TRUE)
            b == addr + i
            x == (v \div Place(i)) % Place(k)
<1>1. ByteBits \in Nat \ {0} /\ Within(Sram)
  BY DEF Placed
<1>2. ContainsSpan(Sram, addr, n) /\ Backed(addr, n)
  BY DEF Writable, Backed
<1>3. ContainsSpan(Sram, b, k) /\ Backed(b, k) /\ b \in Nat
  <2>1. ContainsSpan(Sram, b, k)
    BY <1>1, <1>2 DEF ContainsSpan, Within
  <2>. QED
    BY <2>1 DEF Backed
<1>4. IsMemory(s) /\ s.cell = Spread(m.cell, addr, n, v)
  <2>1. n \in Nat
    OBVIOUS
  <2>2. Quietly(m, s) /\ s.cell = Spread(m.cell, addr, n, v)
    BY <2>1, SplitOnly, Zenon
  <2>. QED
    BY <2>2, Zenon DEF Quietly
<1>5. Write(m, addr, n, v) = [mem |-> c, status |-> "Ok"]
  BY <1>2 DEF Write
<1>. HIDE DEF s
<1>6. c.cell = s.cell
  <2>1. Untouched(s, c)
    BY <1>4, LooksOnly, Zenon
  <2>. QED
    BY <2>1, Zenon DEF Untouched
<1>. HIDE DEF c, b, x
<1>7. Read(c, b, k).status = "Ok" /\ Read(c, b, k).value = Joined(c, b, k)
  BY <1>3 DEF Read, b
<1>8. x \in 0 .. Place(k) - 1
  <2>1. Place(i) \in Nat \ {0} /\ Place(k) \in Nat \ {0}
    BY <1>1, Places
  <2>2. v \in Int /\ v \div Place(i) \in Int
    BY <1>1, HigherBytes
  <2>3. (v \div Place(i)) % Place(k) \in 0 .. Place(k) - 1
    BY <2>1, <2>2, Division, Zenon
  <2>. QED
    BY <2>3 DEF x
<1>9. ASSUME NEW j \in 0 .. k - 1
      PROVE  c.cell[b + j] = ByteAt(x, j)
  <2>1. b + j \in addr..(addr + n - 1) /\ (b + j) - addr = i + j /\ j \in Nat /\ b + j \in Nat
    BY DEF b
  <2>2. b + j \in DOMAIN m.cell
    <3>1. ContainsSpan(Sram, b + j, 1)
      BY <1>1, <1>3, <2>1 DEF ContainsSpan, Within
    <3>2. Backed(b + j, 1)
      BY <3>1 DEF Backed
    <3>. QED
      BY <2>1, <3>2 DEF IsMemory
  <2>3. c.cell[b + j] = ByteAt(v, i + j)
    BY <1>4, <1>6, <2>1, <2>2 DEF Spread
  <2>4. ByteAt(v \div Place(i), j) = ByteAt(v, i + j)
    BY <1>1, <2>1, ByteOfQuotient
  <2>5. ByteAt(x, j) = ByteAt(v \div Place(i), j)
    <3>1. v \in Int /\ v \div Place(i) \in Int /\ k \in Nat
      BY <1>1, HigherBytes
    <3>2. ByteAt((v \div Place(i)) % Place(k), j) = ByteAt(v \div Place(i), j)
      BY <1>1, <3>1, ByteOfRemainder, Zenon
    <3>. QED
      BY <3>2 DEF x
  <2>. QED
    BY <2>3, <2>4, <2>5
<1>10. Joined(c, b, k) = x
  BY <1>1, <1>3, <1>8, <1>9, JoinedIs
<1>11. \A a \in DOMAIN m.cell \ (addr..(addr + n - 1)) : c.cell[a] = m.cell[a]
  BY <1>4, <1>6 DEF Spread
<1>. QED
  BY <1>5, <1>7, <1>10, <1>11 DEF x, b

-----------------------------------------------------------------------------
(* The stub: words and registers *)

\* What a register holds is a word.
Cpus ==
    [r : [0..12 -> Word], lr : Word, pc : Word, msp : Word, psp : Word, n : BOOLEAN, z : BOOLEAN, c : BOOLEAN,
     v : BOOLEAN, thumb : BOOLEAN, exception : Word, npriv : BOOLEAN, spsel : BOOLEAN, primask : BOOLEAN,
     event : BOOLEAN, asleep : BOOLEAN, cycles : Int]

LEMMA Doubling ==
    ASSUME NEW b \in Nat, b >= 2, NEW x \in Nat
    PROVE  b * x \in Nat /\ b * x >= x + x
<1>1. b - 2 \in Nat
  OBVIOUS
<1>2. (b - 2) * x \in Nat
  BY <1>1
<1>3. b * x = 2 * x + (b - 2) * x
  OBVIOUS
<1>. QED
  BY <1>2, <1>3

LEMMA WordSizes ==
    ASSUME StubAssumption
    PROVE  /\ ByteBits \in Nat \ {0} /\ Width \in Nat /\ Width >= 4
           /\ ByteMod \in Nat /\ ByteMod >= 2
           /\ Place(1) = ByteMod /\ Place(2) = ByteMod * ByteMod /\ Place(4) = Modulus
           /\ Modulus = ByteMod * (ByteMod * (ByteMod * ByteMod))
           /\ Modulus \in Nat /\ Modulus >= 16
<1>1. ByteBits \in Nat \ {0} /\ Width = 4 * ByteBits
  BY DEF StubAssumption, Placed
<1>2. /\ ByteMod \in Nat \ {0} /\ ByteMod \in Nat /\ Place(1) = ByteMod
      /\ \A i \in Nat : Place(i) \in Nat \ {0} /\ Place(i + 1) = Place(i) * ByteMod
  BY <1>1, Places
<1>3. ByteMod >= 2
  <2>1. ByteBits - 1 \in Nat /\ ByteBits = (ByteBits - 1) + 1
    BY <1>1
  <2>2. PowerOfTwo[ByteBits - 1] \in Nat \ {0} /\ PowerOfTwo[(ByteBits - 1) + 1] = 2 * PowerOfTwo[ByteBits - 1]
    BY <2>1, PowersOfTwo
  <2>. QED
    BY <2>1, <2>2 DEF ByteMod
<1>4. Place(2) = ByteMod * ByteMod
  BY <1>2, Place(1 + 1) = Place(1) * ByteMod
<1>5. Place(3) = ByteMod * (ByteMod * ByteMod)
  BY <1>2, <1>4, Place(2 + 1) = Place(2) * ByteMod
<1>6. Place(4) = ByteMod * (ByteMod * (ByteMod * ByteMod))
  BY <1>2, <1>5, Place(3 + 1) = Place(3) * ByteMod
<1>7. Place(4) = Modulus
  BY <1>1, ByteBits * 4 = 4 * ByteBits DEF Place, Modulus
<1>. DEFINE x == ByteMod * ByteMod
            y == ByteMod * x
            w == ByteMod * y
<1>8. x \in Nat /\ x >= ByteMod + ByteMod
  BY <1>2, <1>3, Doubling, Zenon
<1>. HIDE DEF x
<1>9. y \in Nat /\ y >= x + x
  BY <1>2, <1>3, <1>8, Doubling, Zenon
<1>. HIDE DEF y
<1>10. w >= 16
  <2>1. w >= y + y
    BY <1>2, <1>3, <1>9, Doubling, Zenon
  <2>2. w \in Nat
    BY <1>2, <1>3, <1>9, Doubling, Zenon
  <2>. HIDE DEF w
  <2>. QED
    BY <1>2, <1>3, <1>8, <1>9, <2>1, <2>2
<1>11. Modulus \in Nat
  BY <1>2, <1>7
<1>. QED
  BY <1>1, <1>2, <1>3, <1>4, <1>6, <1>7, <1>10, <1>11 DEF x, y

\* What is taken modulo the words is one.
LEMMA Wraps ==
    ASSUME StubAssumption, NEW x \in Int
    PROVE  x % Modulus \in Word
<1>1. Modulus \in Nat \ {0}
  BY WordSizes
<1>. QED
  BY <1>1, Quotient DEF Word

LEMMA AlignedWord ==
    ASSUME StubAssumption, NEW v \in Word
    PROVE  v - (v % 2) \in Word /\ v - (v % 4) \in Word
<1>1. Modulus \in Nat /\ v \in 0 .. Modulus - 1
  BY WordSizes DEF Word
<1>2. v % 2 \in 0..1 /\ v % 4 \in 0..3 /\ v % 2 <= v /\ v % 4 <= v
  BY <1>1
<1>. QED
  BY <1>1, <1>2 DEF Word

LEMMA ReadsWord ==
    ASSUME StubAssumption, NEW cpu \in Cpus, NEW n \in 0..15, NEW pc \in Word
    PROVE  ReadReg(cpu, n, pc) \in Word /\ ReadSp(cpu) \in Word
<1>1. cpu.lr \in Word /\ cpu.msp \in Word /\ cpu.psp \in Word /\ cpu.r \in [0..12 -> Word]
  BY DEF Cpus
<1>2. (pc + 4) % Modulus \in Word
  <2>1. pc + 4 \in Int
    BY WordSizes DEF Word
  <2>. QED
    BY <2>1, Wraps
<1>3. ReadSp(cpu) \in Word
  BY <1>1 DEF ReadSp
<1>4. n \notin {Pc, Sp, Lr} => n \in 0..12
  BY DEF Pc, Sp, Lr
<1>. QED
  BY <1>1, <1>2, <1>3, <1>4 DEF ReadReg, Pc, Sp, Lr

LEMMA WritesWord ==
    ASSUME StubAssumption, NEW cpu \in Cpus, NEW n \in 0..15, NEW v \in Word
    PROVE  WriteReg(cpu, n, v) \in Cpus /\ WriteSp(cpu, v) \in Cpus
<1>1. v - (v % 2) \in Word /\ v - (v % 4) \in Word
  BY AlignedWord
<1>2. \A x \in Word :
        /\ [cpu EXCEPT !.pc = x] \in Cpus /\ [cpu EXCEPT !.lr = x] \in Cpus
        /\ [cpu EXCEPT !.psp = x] \in Cpus /\ [cpu EXCEPT !.msp = x] \in Cpus
        /\ \A i \in 0..12 : [cpu EXCEPT !.r[i] = x] \in Cpus
  BY DEF Cpus
<1>3. WriteSp(cpu, v) \in Cpus
  BY <1>1, <1>2 DEF WriteSp
<1>4. n \notin {Pc, Sp, Lr} => n \in 0..12
  BY DEF Pc, Sp, Lr
<1>. QED
  BY <1>1, <1>2, <1>3, <1>4 DEF WriteReg

LEMMA SetsFlags ==
    ASSUME StubAssumption, NEW cpu \in Cpus, NEW v \in Word
    PROVE  SetNz(cpu, v) \in Cpus
<1>1. Neg(v) \in BOOLEAN /\ (v = 0) \in BOOLEAN
  BY DEF Neg
<1>. HIDE DEF Neg
<1>2. SetNz(cpu, v) = [[cpu EXCEPT !.n = Neg(v)] EXCEPT !.z = (v = 0)]
  BY DEF SetNz
<1>3. \A f \in BOOLEAN, g \in BOOLEAN : [[cpu EXCEPT !.n = f] EXCEPT !.z = g] \in Cpus
  BY DEF Cpus
<1>. QED
  BY <1>1, <1>2, <1>3, Zenon

-----------------------------------------------------------------------------
(* The stub: what registers of the register space hold *)

Held(m) == \A a \in DOMAIN m.reg : m.reg[a] \in Word

LEMMA RegReadWord ==
    ASSUME StubAssumption, NEW m, Held(m), NEW addr
    PROVE  RegRead(m, addr) \in Word
<1>1. 0 \in Word
  BY WordSizes DEF Word
<1>. QED
  BY <1>1 DEF RegRead, Held

LEMMA ComplementWord ==
    ASSUME StubAssumption, NEW x \in Word
    PROVE  Complement(x) \in Word
BY WordSizes DEF Complement, Word

LEMMA CombinedWord ==
    ASSUME StubAssumption, NEW alias, NEW old \in Word, NEW v \in Word
    PROVE  Combined(alias, old, v) \in Word
<1>1. Complement(v) \in Word
  BY ComplementWord
<1>2. \A x \in Word, y \in Word : And(x, y) \in Word /\ Or(x, y) \in Word /\ Xor(x, y) \in Word
  BY DEF StubAssumption
<1>. QED
  BY <1>1, <1>2 DEF Combined

LEMMA RegWriteHeld ==
    ASSUME StubAssumption, NEW m, IsMemory(m), Held(m), NEW addr, NEW v \in Word
    PROVE  Held(RegWrite(m, addr, v))
<1>. DEFINE f == [a \in DOMAIN m.reg \cup {addr} |-> IF a = addr THEN v ELSE m.reg[a]]
<1>1. RegWrite(m, addr, v).reg = f
  <2>. HIDE DEF f
  <2>1. RegWrite(m, addr, v) = [m EXCEPT !.reg = f]
    BY DEF RegWrite, f
  <2>. QED
    BY <2>1 DEF IsMemory
<1>2. \A a \in DOMAIN f : f[a] \in Word
  BY DEF Held
<1>. QED
  BY <1>1, <1>2, Zenon DEF Held

LEMMA BlockWriteHeld ==
    ASSUME StubAssumption, NEW m, IsMemory(m), Held(m), NEW block, NEW addr, NEW v \in Word
    PROVE  Held(BlockWrite(m, block, addr, v))
<1>. DEFINE reg == Register(block, addr)
            next == IF block.kind = "stub" THEN Combined(Alias(addr), RegRead(m, reg), v) ELSE v
<1>1. next \in Word
  BY RegReadWord, CombinedWord
<1>2. Held(RegWrite(m, reg, next))
  <2>. HIDE DEF next, reg
  <2>. QED
    BY <1>1, RegWriteHeld
<1>. QED
  BY <1>2 DEF BlockWrite

LEMMA CheckWatchHeld ==
    ASSUME NEW m, IsMemory(m), Held(m), NEW addr, NEW n, NEW write
    PROVE  Held(CheckWatch(m, addr, n, write))
<1>1. CheckWatch(m, addr, n, write).reg = m.reg
  BY LooksOnly DEF Untouched
<1>. QED
  BY <1>1 DEF Held

\* What a write can leave behind, before the watchpoints have looked at it
LEMMA WritesThrough ==
    ASSUME StubAssumption, NEW m, IsMemory(m), Held(m), NEW addr \in Nat, NEW n \in Nat, NEW v \in Word
    PROVE  \E k, a : /\ Quietly(m, k) /\ Held(k)
                     /\ Write(m, addr, n, v).mem \in {m, CheckWatch(k, a, n, TRUE)}
<1>. DEFINE w == Write(m, addr, n, v).mem
            Left(k, a) == Quietly(m, k) /\ Held(k) /\ w \in {m, CheckWatch(k, a, n, TRUE)}
<1>0. SUFFICES \E k, a : Left(k, a)
  OBVIOUS
<1>1. Placed /\ v \in Nat
  BY WordSizes DEF StubAssumption, Word
<1>2. \/ w = m
      \/ w = CheckWatch(Split(m, addr, n, v), addr, n, TRUE)
      \/ \E block : w = CheckWatch(BlockWrite(m, block, addr, v), addr, n, TRUE)
      \/ w = WriteAlias(m, addr, n, v).mem
  BY DEF Write
<1>3. w = WriteAlias(m, addr, n, v).mem =>
          w = m \/ \E block, a : \E x \in Word : w = CheckWatch(BlockWrite(m, block, a, x), a, n, TRUE)
  <2>. DEFINE alias == Alias(addr)
              base == addr - alias * AliasUnit
              block == CHOOSE b \in Peripherals(base, n) : TRUE
              next == Combined(alias, RegRead(m, Register(block, base)), v)
  <2>1. next \in Word
    BY RegReadWord, CombinedWord
  <2>2. \/ WriteAlias(m, addr, n, v).mem = m
        \/ WriteAlias(m, addr, n, v).mem = CheckWatch(BlockWrite(m, block, base, next), base, n, TRUE)
    BY DEF WriteAlias
  <2>. HIDE DEF next, block, base
  <2>. QED
    BY <2>1, <2>2
<1>. HIDE DEF w, Left
<1>4. CASE w = m
  <2>1. Left(m, addr)
    BY <1>4 DEF Quietly, Left
  <2>. QED
    BY <2>1
<1>5. CASE w = CheckWatch(Split(m, addr, n, v), addr, n, TRUE)
  <2>1. Quietly(m, Split(m, addr, n, v))
    BY <1>1, SplitOnly
  <2>2. Split(m, addr, n, v).reg = m.reg
    BY DEF Split, IsMemory
  <2>3. Left(Split(m, addr, n, v), addr)
    BY <1>5, <2>1, <2>2 DEF Held, Left
  <2>. QED
    BY <2>3
<1>6. ASSUME NEW block, NEW a, NEW x \in Word, w = CheckWatch(BlockWrite(m, block, a, x), a, n, TRUE)
      PROVE  \E k, b : Left(k, b)
  <2>1. Quietly(m, BlockWrite(m, block, a, x)) /\ Held(BlockWrite(m, block, a, x))
    BY BlockWriteOnly, BlockWriteHeld
  <2>2. Left(BlockWrite(m, block, a, x), a)
    BY <1>6, <2>1 DEF Left
  <2>. QED
    BY <2>2
<1>. QED
  BY <1>2, <1>3, <1>4, <1>5, <1>6, Zenon

LEMMA WriteHeld ==
    ASSUME StubAssumption, NEW m, IsMemory(m), Held(m), NEW addr \in Nat, NEW n \in Nat, NEW v \in Word
    PROVE  Held(Write(m, addr, n, v).mem)
<1>1. PICK k, a : /\ Quietly(m, k) /\ Held(k)
                  /\ Write(m, addr, n, v).mem \in {m, CheckWatch(k, a, n, TRUE)}
  BY WritesThrough
<1>2. Held(CheckWatch(k, a, n, TRUE))
  BY <1>1, CheckWatchHeld DEF Quietly
<1>. QED
  BY <1>1, <1>2

\* Unseen by the watchpoints, a write changes bytes and registers only.
LEMMA WriteUnseen ==
    ASSUME StubAssumption, NEW m, IsMemory(m), Held(m), m.quiet, NEW addr \in Nat, NEW n \in Nat, NEW v \in Word
    PROVE  Quietly(m, Write(m, addr, n, v).mem)
<1>1. PICK k, a : /\ Quietly(m, k) /\ Held(k)
                  /\ Write(m, addr, n, v).mem \in {m, CheckWatch(k, a, n, TRUE)}
  BY WritesThrough
<1>2. CheckWatch(k, a, n, TRUE) = k
  BY <1>1 DEF CheckWatch, Quietly
<1>3. Quietly(m, m)
  BY DEF Quietly
<1>. QED
  BY <1>1, <1>2, <1>3

LEMMA ReadWord ==
    ASSUME StubAssumption, NEW m, IsMemory(m), Held(m), NEW addr \in Nat, NEW n \in {1, 2, 4},
           Read(m, addr, n).status = "Ok"
    PROVE  Read(m, addr, n).value \in Word
<1>1. Place(n) \in Nat \ {0} /\ Place(n) <= Modulus
  <2>. DEFINE y == ByteMod * ByteMod
              x == ByteMod * y
  <2>1. ByteMod \in Nat /\ ByteMod >= 2 /\ Place(1) = ByteMod /\ Place(2) = y /\ Place(4) = Modulus
        /\ Modulus = ByteMod * x /\ Modulus \in Nat /\ Modulus >= 16
    BY WordSizes
  <2>2. y \in Nat /\ y >= ByteMod + ByteMod
    BY <2>1, Doubling, Zenon
  <2>. HIDE DEF y
  <2>3. x \in Nat /\ x >= y + y
    BY <2>1, <2>2, Doubling, Zenon
  <2>. HIDE DEF x
  <2>4. ByteMod * x >= x + x
    BY <2>1, <2>3, Doubling, Zenon
  <2>5. Modulus >= x + x
    BY <2>1, <2>4
  <2>. QED
    BY <2>1, <2>2, <2>3, <2>5
<1>2. CASE Backed(addr, n)
  <2>1. Aligned(addr, n) /\ n \in Nat \ {0} /\ Placed
    BY DEF Read, Refused, StubAssumption
  <2>2. Read(m, addr, n).value \in 0 .. Place(n) - 1
    BY <1>2, <2>1, LoadedAsBytes
  <2>. QED
    BY <1>1, <2>2, WordSizes DEF Word
<1>3. CASE ~Backed(addr, n)
  <2>. DEFINE block == CHOOSE b \in Peripherals(addr, n) : TRUE
              x == RegRead(m, Register(block, addr))
  <2>1. Read(m, addr, n).value = x % Place(n)
    BY <1>3 DEF Read, Refused
  <2>2. x \in Int
    BY RegReadWord, WordSizes DEF Word
  <2>. HIDE DEF x
  <2>3. x % Place(n) \in 0 .. Place(n) - 1
    BY <1>1, <2>2, Quotient
  <2>. QED
    BY <1>1, <2>1, <2>3, WordSizes DEF Word
<1>. QED
  BY <1>2, <1>3

-----------------------------------------------------------------------------
(* The stub: what every instruction keeps *)

\* Its memory keeps what it is, with what the watchpoints are to see latched.
FitMemory(m, watch, earlier) ==
    IsMemory(m) /\ Held(m) /\ m.watch = watch /\ ~m.quiet /\ Latched(m, earlier)

Fit(s, watch, earlier) ==
    /\ s = [cpu |-> s.cpu, mem |-> s.mem, status |-> s.status]
    /\ s.cpu \in Cpus
    /\ FitMemory(s.mem, watch, earlier)

WithCpu(s, cpu) == [s EXCEPT !.cpu = cpu]
WithMem(s, m) == [s EXCEPT !.mem = m]
Replaced(s, m, status, cpu) == [s EXCEPT !.mem = m, !.status = status, !.cpu = cpu]

LEMMA FitParts ==
    ASSUME NEW s, NEW watch, NEW earlier, Fit(s, watch, earlier), NEW cpu \in Cpus,
           NEW m, FitMemory(m, watch, earlier), NEW status
    PROVE  /\ Fit(Done(s, cpu), watch, earlier)
           /\ Fit(Ended(s, status), watch, earlier)
           /\ Fit(WithCpu(s, cpu), watch, earlier)
           /\ Fit(WithMem(s, m), watch, earlier)
           /\ Fit(Replaced(s, m, status, cpu), watch, earlier)
<1>1. s.cpu \in Cpus /\ FitMemory(s.mem, watch, earlier)
  BY DEF Fit
<1>. DEFINE a == s.cpu
            b == s.mem
            e == s.status
<1>0. s = [cpu |-> a, mem |-> b, status |-> e] /\ a = s.cpu /\ b = s.mem /\ e = s.status
  BY Zenon DEF Fit
<1>. HIDE DEF a, b, e
<1>2. \A c \in Cpus : \A x : Fit([cpu |-> c, mem |-> s.mem, status |-> x], watch, earlier)
  BY <1>1 DEF Fit
<1>3. \A c \in Cpus : \A x : Fit([cpu |-> c, mem |-> m, status |-> x], watch, earlier)
  BY DEF Fit
<1>4. WithCpu(s, cpu) = [cpu |-> cpu, mem |-> b, status |-> e]
  BY <1>0 DEF WithCpu
<1>5. WithMem(s, m) = [cpu |-> a, mem |-> m, status |-> e]
  BY <1>0 DEF WithMem
<1>6. Done(s, cpu) = [cpu |-> cpu, mem |-> b, status |-> "Ok"]
  <2>1. Done(s, cpu) = [WithCpu(s, cpu) EXCEPT !.status = "Ok"]
    BY DEF Done, WithCpu
  <2>. QED
    BY <1>4, <2>1
<1>7. Ended(s, status) = [cpu |-> a, mem |-> b, status |-> status]
  BY <1>0 DEF Ended
<1>8. Replaced(s, m, status, cpu) = [cpu |-> cpu, mem |-> m, status |-> status]
  <2>. DEFINE u == [WithMem(s, m) EXCEPT !.status = status]
  <2>1. Replaced(s, m, status, cpu) = [u EXCEPT !.cpu = cpu]
    BY DEF Replaced, WithMem
  <2>2. u = [cpu |-> a, mem |-> m, status |-> status]
    BY <1>5
  <2>. HIDE DEF u
  <2>. QED
    BY <2>1, <2>2
<1>. QED
  BY <1>0, <1>1, <1>2, <1>3, <1>4, <1>5, <1>6, <1>7, <1>8, Zenon

LEMMA Assumed ==
    ASSUME StubAssumption
    PROVE  /\ Placed /\ Width = 4 * ByteBits
           /\ \A x \in Word, y \in Word : And(x, y) \in Word /\ Or(x, y) \in Word /\ Xor(x, y) \in Word
           /\ Vector.sp \in Word /\ Vector.pc \in Word /\ CycleMod \in Nat \ {0}
           /\ 0 \in Word /\ Modulus - 1 \in Word /\ Word \subseteq Nat
<1>1. 0 \in Word /\ Modulus - 1 \in Word /\ Word \subseteq Nat
  BY WordSizes DEF Word
<1>. QED
  BY <1>1, Zenon DEF StubAssumption

LEMMA FitRead ==
    ASSUME StubAssumption, NEW m, NEW watch, NEW earlier, FitMemory(m, watch, earlier),
           NEW addr \in Word, NEW n \in {1, 2, 4}
    PROVE  /\ FitMemory(Read(m, addr, n).mem, watch, earlier)
           /\ Read(m, addr, n).status = "Ok" => Read(m, addr, n).value \in Word
<1>. DEFINE read == Read(m, addr, n)
<1>1. addr \in Nat /\ n \in Nat \ {0} /\ Placed /\ IsMemory(m) /\ Held(m) /\ Latched(m, earlier)
  BY Assumed DEF FitMemory
<1>2. IF read.status = "Ok" THEN Seen(m, read.mem, earlier, addr, n, FALSE) ELSE read.mem = m
  <2>1. ReadCaught(m, addr, n, earlier)
    BY <1>1, 0 \in Nat, AccessCaught, Zenon
  <2>. QED
    BY <2>1, Zenon DEF ReadCaught
<1>3. read.mem \in {m, CheckWatch(m, addr, n, FALSE)}
  BY DEF Read, Refused
<1>4. Held(read.mem)
  BY <1>1, <1>3, CheckWatchHeld
<1>5. read.status = "Ok" => read.value \in Word
  BY <1>1, ReadWord
<1>6. FitMemory(read.mem, watch, earlier)
  <2>. HIDE DEF read
  <2>. QED
    BY <1>2, <1>4, Zenon DEF Seen, FitMemory
<1>. QED
  BY <1>5, <1>6

LEMMA FitWrite ==
    ASSUME StubAssumption, NEW m, NEW watch, NEW earlier, FitMemory(m, watch, earlier),
           NEW addr \in Word, NEW n \in {1, 2, 4}, NEW v \in Word
    PROVE  FitMemory(Write(m, addr, n, v).mem, watch, earlier)
<1>. DEFINE written == Write(m, addr, n, v)
<1>1. addr \in Nat /\ n \in Nat \ {0} /\ n \in Nat /\ v \in Nat /\ Placed /\ IsMemory(m) /\ Held(m) /\ Latched(m, earlier)
  BY Assumed DEF FitMemory
<1>2. IF written.status = "Ok" THEN Seen(m, written.mem, earlier, Looked(addr, n, TRUE), n, TRUE) ELSE written.mem = m
  <2>1. WriteCaught(m, addr, n, v, earlier)
    BY <1>1, AccessCaught, Zenon
  <2>. QED
    BY <2>1, Zenon DEF WriteCaught
<1>3. Held(written.mem)
  BY <1>1, WriteHeld
<1>. HIDE DEF written
<1>4. FitMemory(written.mem, watch, earlier)
  BY <1>2, <1>3, Zenon DEF Seen, FitMemory
<1>. QED
  BY <1>4 DEF written

LEMMA ResetTyped ==
    ASSUME StubAssumption, NEW r \in [0..12 -> Word]
    PROVE  ResetCpu \in Cpus /\ [ResetCpu EXCEPT !.r = r] \in Cpus
<1>1. 0 \in Word /\ Modulus - 1 \in Word /\ Vector.sp \in Word /\ Vector.pc \in Word
  BY Assumed
<1>2. [i \in 0..12 |-> 0] \in [0..12 -> Word]
  BY <1>1
<1>3. ResetCpu \in Cpus
  BY <1>1, <1>2 DEF ResetCpu, Cpus
<1>4. \A cpu \in Cpus : [cpu EXCEPT !.r = r] \in Cpus
  BY DEF Cpus
<1>. QED
  BY <1>3, <1>4

LEMMA FitStore ==
    ASSUME StubAssumption, NEW s, NEW watch, NEW earlier, Fit(s, watch, earlier),
           NEW addr \in Word, NEW n \in {1, 2, 4}, NEW v \in Word
    PROVE  Fit(Store(s, addr, n, v), watch, earlier)
<1>. DEFINE written == Write(s.mem, addr, n, v)
            resets == written.status = "Ok" /\ addr = Aircr /\ Bit(v, 2)
            status == IF written.status = "Ok" THEN "Ok" ELSE "MemFault"
            cpu == IF resets THEN ResetCpu ELSE s.cpu
<1>1. FitMemory(s.mem, watch, earlier) /\ s.cpu \in Cpus
  BY DEF Fit
<1>2. FitMemory(written.mem, watch, earlier)
  BY <1>1, FitWrite
<1>3. cpu \in Cpus
  <2>1. ResetCpu \in Cpus
    <3>1. [i \in 0..12 |-> 0] \in [0..12 -> Word]
      BY WordSizes DEF Word
    <3>. QED
      BY <3>1, ResetTyped
  <2>. QED
    BY <1>1, <2>1
<1>4. Store(s, addr, n, v) = Replaced(s, written.mem, status, cpu)
  BY DEF Store, Replaced
<1>. HIDE DEF written, status, cpu
<1>. QED
  BY <1>2, <1>3, <1>4, FitParts, Zenon

-----------------------------------------------------------------------------
(* The stub: arithmetic *)

\* Every instruction there is
Executed ==
    {"UNDEFINED", "UDF", "NOP", "YIELD", "DSB", "DMB", "ISB", "SEV", "WFI", "WFE", "CPS", "BKPT", "SVC",
     "B", "B_cond", "BL", "BX", "BLX_reg", "MRS", "MSR", "PUSH", "POP", "STM", "LDM"}
    \cup DOMAIN Loads \cup DOMAIN Stores \cup Adders \cup DOMAIN ShiftType \cup Moves

Instrs ==
    [op : Executed, length : {2, 4}, rd : 0..15, rn : 0..15, rm : 0..15, rt : 0..15, imm : Nat,
     offset : Int, cond : Nat, list : SUBSET (0..15), setflags : BOOLEAN, wback : BOOLEAN]

LEMMA InstrParts ==
    ASSUME NEW d \in Instrs
    PROVE  /\ d.op \in Executed /\ d.length \in {2, 4} /\ d.rd \in 0..15 /\ d.rn \in 0..15
           /\ d.rm \in 0..15 /\ d.rt \in 0..15 /\ d.imm \in Nat /\ d.offset \in Int
           /\ d.list \in SUBSET (0..15) /\ d.setflags \in BOOLEAN /\ d.wback \in BOOLEAN
BY DEF Instrs

\* The result of an adder or a shifter
IsResult(r) == r.value \in Word /\ r.carry \in BOOLEAN

LEMMA AdderTyped ==
    ASSUME StubAssumption, NEW x \in Word, NEW y \in Word, NEW carry
    PROVE  IsResult(AddWithCarry(x, y, carry)) /\ AddWithCarry(x, y, carry).overflow \in BOOLEAN
<1>. DEFINE sum == x + y + (IF carry THEN 1 ELSE 0)
<1>1. sum \in Int
  BY Assumed
<1>. DEFINE v == sum % Modulus
            c == sum >= Modulus
            o == Neg(x) = Neg(y) /\ Neg(v) # Neg(x)
            r == AddWithCarry(x, y, carry)
<1>2. v \in Word
  <2>. HIDE DEF sum
  <2>. QED  BY <1>1, Wraps
<1>3. c \in BOOLEAN /\ o \in BOOLEAN
  <2>. HIDE DEF sum, v
  <2>. QED  OBVIOUS
<1>4. r = [value |-> v, carry |-> c, overflow |-> o]
  BY DEF AddWithCarry
<1>. HIDE DEF v, c, o, r
<1>5. r.value = v /\ r.carry = c /\ r.overflow = o
  BY <1>4
<1>6. IsResult(r) /\ r.overflow \in BOOLEAN
  BY <1>2, <1>3, <1>5, Zenon DEF IsResult
<1>. QED
  BY <1>6 DEF r

LEMMA SumTyped ==
    ASSUME StubAssumption, NEW op \in Adders, NEW x \in Word, NEW y \in Word, NEW imm \in Word, NEW carry
    PROVE  IsResult(Sum(op, x, y, imm, carry)) /\ Sum(op, x, y, imm, carry).overflow \in BOOLEAN
<1>1. Complement(x) \in Word /\ Complement(y) \in Word /\ Complement(imm) \in Word /\ 0 \in Word
  BY ComplementWord, Assumed
<1>2. \E a \in Word, b \in Word : \E c : Sum(op, x, y, imm, carry) = AddWithCarry(a, b, c)
  BY <1>1 DEF Sum, Adders, Compares
<1>. QED
  BY <1>2, AdderTyped, Zenon

LEMMA FlagsTyped ==
    ASSUME StubAssumption, NEW cpu \in Cpus, NEW r, IsResult(r), r.overflow \in BOOLEAN
    PROVE  SetNzcv(cpu, r) \in Cpus /\ [SetNz(cpu, r.value) EXCEPT !.c = r.carry] \in Cpus
<1>1. SetNz(cpu, r.value) \in Cpus
  BY SetsFlags DEF IsResult
<1>2. \A k \in Cpus, f \in BOOLEAN : [k EXCEPT !.c = f] \in Cpus /\ [k EXCEPT !.v = f] \in Cpus
  <2>1. \A k \in Cpus, f \in BOOLEAN : [k EXCEPT !.c = f] \in Cpus
    BY DEF Cpus
  <2>2. \A k \in Cpus, f \in BOOLEAN : [k EXCEPT !.v = f] \in Cpus
    BY DEF Cpus
  <2>. QED
    BY <2>1, <2>2
<1>3. SetNzcv(cpu, r) = [[SetNz(cpu, r.value) EXCEPT !.c = r.carry] EXCEPT !.v = r.overflow]
  BY DEF SetNzcv
<1>. QED
  BY <1>1, <1>2, <1>3 DEF IsResult

LEMMA FitAdd ==
    ASSUME StubAssumption, NEW s, NEW watch, NEW earlier, Fit(s, watch, earlier),
           NEW d \in Instrs, d.op \in Adders, NEW pc \in Word
    PROVE  Fit(ExecAdd(s, d, pc), watch, earlier)
<1>. DEFINE sum == Sum(d.op, ReadReg(s.cpu, d.rn, pc), ReadReg(s.cpu, d.rm, pc), d.imm % Modulus, s.cpu.c)
            written == IF d.op \in Compares THEN s.cpu ELSE WriteReg(s.cpu, d.rd, sum.value)
            cpu == IF d.setflags \/ d.op \in Compares THEN SetNzcv(written, sum) ELSE written
<1>1. s.cpu \in Cpus /\ FitMemory(s.mem, watch, earlier)
  BY DEF Fit
<1>2. ReadReg(s.cpu, d.rn, pc) \in Word /\ ReadReg(s.cpu, d.rm, pc) \in Word /\ d.imm % Modulus \in Word
  BY <1>1, InstrParts, ReadsWord, Wraps
<1>3. IsResult(sum) /\ sum.overflow \in BOOLEAN
  BY <1>2, SumTyped, Zenon
<1>. HIDE DEF sum
<1>4. written \in Cpus
  BY <1>1, <1>3, InstrParts, WritesWord DEF IsResult
<1>. HIDE DEF written
<1>5. cpu \in Cpus
  BY <1>3, <1>4, FlagsTyped
<1>6. ExecAdd(s, d, pc) = Done(s, cpu)
  BY DEF ExecAdd, cpu, written, sum
<1>. HIDE DEF cpu
<1>. QED
  BY <1>1, <1>5, <1>6, FitParts, Zenon

\* A quotient of a word is a word.
LEMMA HighPart ==
    ASSUME StubAssumption, NEW x \in Word, NEW p \in Nat \ {0}
    PROVE  x \div p \in Word
<1>1. x \div p \in 0..x
  BY Assumed, QuotientBelow
<1>. QED
  BY <1>1, WordSizes DEF Word

LEMMA RotatedTyped ==
    ASSUME StubAssumption, NEW x \in Word, NEW n \in Nat
    PROVE  IsResult(Rotate(x, n))
<1>. DEFINE m == n % Width
            p == PowerOfTwo[m]
            q == PowerOfTwo[Width - m]
            value == (x \div p) + ((x * q) % Modulus)
            word == IF m = 0 THEN x ELSE value
<1>1. m \in Nat /\ Width - m \in Nat /\ m + (Width - m) = Width
  BY WordSizes
<1>. HIDE DEF m
<1>2. p \in Nat \ {0} /\ q \in Nat \ {0} /\ Modulus = p * q
  BY <1>1, PowersOfTwo, PowerOfSum DEF Modulus
<1>. HIDE DEF p, q
<1>3. value \in Word
  <2>. DEFINE a == x \div p
              b == x % p
  <2>1. x = a * p + b /\ a \in Int /\ b \in 0 .. p - 1 /\ x \in 0 .. p * q - 1
    BY <1>2, Division, Assumed DEF Word
  <2>2. a >= 0 /\ a <= q - 1
    <3>. HIDE DEF a, b
    <3>1. a >= 0
      <4>1. SUFFICES ASSUME a <= -1
                     PROVE  FALSE
        BY <2>1
      <4>2. a * p <= -p
        BY <1>2, <2>1, <4>1
      <4>. QED
        BY <1>2, <2>1, <4>2
    <3>2. a <= q - 1
      <4>1. SUFFICES ASSUME a >= q
                     PROVE  FALSE
        BY <1>2, <2>1
      <4>2. a * p >= p * q
        BY <1>2, <2>1, <4>1
      <4>. QED
        BY <1>2, <2>1, <4>2
    <3>. QED
      BY <3>1, <3>2
  <2>. DEFINE r == b * q
  <2>3. r \in 0 .. p * q - q
    <3>1. b >= 0 /\ b <= p - 1 /\ b \in Int
      BY <1>2, <2>1
    <3>. HIDE DEF b
    <3>2. b * q >= 0 /\ b * q <= (p - 1) * q
      BY <1>2, <3>1
    <3>3. (p - 1) * q = p * q - q /\ b * q \in Int
      BY <1>2, <3>1
    <3>. QED
      BY <1>2, <3>2, <3>3
  <2>4. (x * q) % (p * q) = r
    <3>. HIDE DEF b, a
    <3>1. x * q = a * (p * q) + r
      BY <1>2, <2>1
    <3>2. p * q \in Nat \ {0}
      BY <1>2
    <3>3. r \in 0 .. p * q - 1
      BY <1>2, <2>3, <3>2
    <3>. HIDE DEF r
    <3>. QED
      BY <2>1, <3>1, <3>2, <3>3, Residue, Zenon
  <2>. HIDE DEF r, a, b
  <2>5. value = a + r
    BY <1>2, <2>4 DEF a
  <2>. QED
    BY <1>2, <2>1, <2>2, <2>3, <2>5 DEF Word
<1>. HIDE DEF value
<1>4. word \in Word
  BY <1>3
<1>5. Rotate(x, n) = [value |-> word, carry |-> Neg(word)]
  BY DEF Rotate, word, value, m, p, q
<1>. HIDE DEF word
<1>6. Neg(word) \in BOOLEAN
  BY DEF Neg
<1>. HIDE DEF Neg
<1>7. Rotate(x, n).value = word /\ Rotate(x, n).carry = Neg(word)
  BY <1>5
<1>. QED
  BY <1>4, <1>6, <1>7, Zenon DEF IsResult

LEMMA ShiftedTyped ==
    ASSUME StubAssumption, NEW x \in Word, NEW n \in Nat
    PROVE  IsResult(ShiftLeft(x, n)) /\ IsResult(ShiftRight(x, n)) /\ IsResult(ShiftSigned(x, n))
<1>1. /\ Modulus - 1 \in Word /\ 0 \in Word /\ x \in Int /\ Width \in Nat
      /\ PowerOfTwo[n] \in Nat \ {0}
  BY Assumed, WordSizes, PowersOfTwo
<1>2. \A i : Bit(x, i) \in BOOLEAN
  BY DEF Bit
<1>3. Neg(x) \in BOOLEAN
  BY DEF Neg
<1>4. \A v \in Word, c \in BOOLEAN : IsResult([value |-> v, carry |-> c])
  BY DEF IsResult
<1>5. IsResult(ShiftLeft(x, n))
  <2>. DEFINE v == (x * PowerOfTwo[n]) % Modulus
  <2>1. v \in Word
    BY <1>1, Wraps
  <2>. HIDE DEF v
  <2>2. ShiftLeft(x, n) = IF n > Width THEN [value |-> 0, carry |-> FALSE]
                          ELSE [value |-> v, carry |-> Bit(x, Width - n)]
    BY DEF ShiftLeft, v
  <2>. QED
    BY <1>1, <1>2, <1>4, <2>1, <2>2
<1>6. IsResult(ShiftRight(x, n))
  <2>. DEFINE v == x \div PowerOfTwo[n]
  <2>1. v \in Word
    BY <1>1, HighPart
  <2>. HIDE DEF v
  <2>2. ShiftRight(x, n) = IF n > Width THEN [value |-> 0, carry |-> FALSE]
                           ELSE [value |-> v, carry |-> Bit(x, n - 1)]
    BY DEF ShiftRight, v
  <2>. QED
    BY <1>1, <1>2, <1>4, <2>1, <2>2
<1>7. IsResult(ShiftSigned(x, n))
  <2>. DEFINE y == IF Neg(x) THEN x - Modulus ELSE x
              v == (y \div PowerOfTwo[n]) % Modulus
              w == IF Neg(x) THEN Modulus - 1 ELSE 0
  <2>1. y \in Int
    BY <1>1, WordSizes
  <2>. HIDE DEF y
  <2>2. y \div PowerOfTwo[n] \in Int
    BY <1>1, <2>1, Division
  <2>3. v \in Word /\ w \in Word
    BY <1>1, <2>2, Wraps
  <2>4. ShiftSigned(x, n) = IF n >= Width THEN [value |-> w, carry |-> Neg(x)]
                            ELSE [value |-> v, carry |-> Bit(x, n - 1)]
    BY DEF ShiftSigned, v, y, w
  <2>. HIDE DEF v, w
  <2>. QED
    BY <1>2, <1>3, <1>4, <2>3, <2>4
<1>. QED
  BY <1>5, <1>6, <1>7

LEMMA ShiftTyped ==
    ASSUME StubAssumption, NEW x \in Word, NEW n \in Nat, NEW type, NEW carry \in BOOLEAN
    PROVE  IsResult(Shift(x, type, n, carry))
<1>1. CASE n = 0
  <2>1. Shift(x, type, n, carry) = [value |-> x, carry |-> carry]
    BY <1>1 DEF Shift
  <2>. QED
    BY <2>1 DEF IsResult
<1>2. CASE n > 0
  <2>1. Shift(x, type, n, carry) \in {ShiftLeft(x, n), ShiftRight(x, n), ShiftSigned(x, n), Rotate(x, n)}
    BY <1>2 DEF Shift
  <2>. QED
    BY <2>1, ShiftedTyped, RotatedTyped, Zenon
<1>. QED
  BY <1>1, <1>2

LEMMA FitShift ==
    ASSUME StubAssumption, NEW s, NEW watch, NEW earlier, Fit(s, watch, earlier),
           NEW d \in Instrs, NEW pc \in Word
    PROVE  Fit(ExecShift(s, d, pc), watch, earlier)
<1>. DEFINE full == d.op # "LSL_imm" /\ d.imm = 0
            fixed == IF full THEN Width ELSE d.imm
            n == ReadReg(s.cpu, d.rn, pc)
            m == ReadReg(s.cpu, d.rm, pc)
            shifted == IF d.op \in ByImmediate
                       THEN Shift(m, ShiftType[d.op], fixed, s.cpu.c)
                       ELSE Shift(n, ShiftType[d.op], m % 256, s.cpu.c)
            written == WriteReg(s.cpu, d.rd, shifted.value)
            cpu == IF d.setflags THEN [SetNz(written, shifted.value) EXCEPT !.c = shifted.carry] ELSE written
<1>1. s.cpu \in Cpus /\ FitMemory(s.mem, watch, earlier) /\ s.cpu.c \in BOOLEAN
  BY DEF Fit, Cpus
<1>2. n \in Word /\ m \in Word
  BY <1>1, InstrParts, ReadsWord
<1>3. fixed \in Nat
  BY InstrParts, WordSizes
<1>. HIDE DEF n, m, fixed
<1>4. m % 256 \in Nat
  BY <1>2, Assumed
<1>5. IsResult(shifted)
  BY <1>1, <1>2, <1>3, <1>4, ShiftTyped, Zenon
<1>. HIDE DEF shifted
<1>6. shifted.value \in Word /\ shifted.carry \in BOOLEAN
  BY <1>5 DEF IsResult
<1>7. written \in Cpus
  BY <1>1, <1>6, InstrParts, WritesWord
<1>. HIDE DEF written
<1>8. SetNz(written, shifted.value) \in Cpus
  BY <1>6, <1>7, SetsFlags
<1>9. cpu \in Cpus
  <2>1. \A k \in Cpus, f \in BOOLEAN : [k EXCEPT !.c = f] \in Cpus
    BY DEF Cpus
  <2>. QED
    BY <1>6, <1>7, <1>8, <2>1
<1>10. ExecShift(s, d, pc) = Done(s, cpu)
  BY DEF ExecShift, cpu, written, shifted, n, m, fixed
<1>. HIDE DEF cpu
<1>. QED
  BY <1>1, <1>9, <1>10, FitParts, Zenon

LEMMA BytesOf ==
    ASSUME StubAssumption, NEW x \in Word
    PROVE  /\ \A i \in Nat : Byte(x, i) \in 0 .. ByteMod - 1
           /\ x % ByteMod \in Word /\ x % Place(2) \in Word
<1>1. x \in Int /\ x \in Nat /\ ByteBits \in Nat \ {0}
  BY Assumed, WordSizes
<1>2. ByteMod \in Nat \ {0} /\ \A i \in Nat : Place(i) \in Nat \ {0}
  BY <1>1, Places
<1>3. ASSUME NEW i \in Nat
      PROVE  Byte(x, i) \in 0 .. ByteMod - 1
  <2>1. x \div Place(i) \in Int
    BY <1>1, HigherBytes
  <2>. QED
    BY <1>2, <2>1, Quotient DEF Byte
<1>4. ASSUME NEW m \in Nat \ {0}
      PROVE  x % m \in Word
  <2>1. x = (x \div m) * m + (x % m) /\ x % m \in 0 .. m - 1
    BY <1>1, Division
  <2>2. x \div m \in 0..x
    BY <1>1, QuotientBelow
  <2>. DEFINE q == x \div m
              r == x % m
  <2>3. q * m \in Nat
    BY <2>2
  <2>4. r <= x
    <3>. HIDE DEF q, r
    <3>. QED
      BY <1>1, <2>1, <2>3 DEF q, r
  <2>. HIDE DEF r
  <2>5. r \in Word
    BY <1>1, <2>1, <2>4, WordSizes DEF Word, r
  <2>. QED
    BY <2>5 DEF r
<1>5. Place(2) \in Nat \ {0}
  BY <1>2
<1>. QED
  BY <1>2, <1>3, <1>4, <1>5

LEMMA OfBytesTyped ==
    ASSUME StubAssumption, NEW b3 \in 0 .. ByteMod - 1, NEW b2 \in 0 .. ByteMod - 1,
           NEW b1 \in 0 .. ByteMod - 1, NEW b0 \in 0 .. ByteMod - 1
    PROVE  OfBytes(b3, b2, b1, b0) \in Word
<1>1. ByteMod \in Nat /\ ByteMod >= 2 /\ Modulus = ByteMod * (ByteMod * (ByteMod * ByteMod))
  BY WordSizes
<1>2. ASSUME NEW k \in Nat, NEW h \in 0 .. k - 1, NEW b \in 0 .. ByteMod - 1
      PROVE  h * ByteMod + b \in 0 .. ByteMod * k - 1 /\ ByteMod * k \in Nat
  <2>1. (k - 1 - h) * ByteMod >= 0
    BY <1>1
  <2>2. (k - 1 - h) * ByteMod = ByteMod * k - ByteMod - h * ByteMod
    BY <1>1
  <2>3. h * ByteMod \in Nat /\ ByteMod * k \in Nat
    BY <1>1
  <2>. DEFINE u == h * ByteMod
              w == ByteMod * k
  <2>4. u \in Nat /\ w \in Nat /\ w - ByteMod - u >= 0
    BY <2>1, <2>2, <2>3
  <2>. HIDE DEF u, w
  <2>5. u + b \in 0 .. w - 1
    BY <1>1, <2>4
  <2>. QED
    BY <2>4, <2>5 DEF u, w
<1>. DEFINE x1 == ByteMod
            x2 == ByteMod * x1
            x3 == ByteMod * x2
            x4 == ByteMod * x3
            y1 == b3 * ByteMod + b2
            y2 == y1 * ByteMod + b1
            y3 == y2 * ByteMod + b0
<1>3. x1 \in Nat /\ b3 \in 0 .. x1 - 1
  BY <1>1
<1>4. y1 \in 0 .. x2 - 1 /\ x2 \in Nat
  <2>. HIDE DEF x1
  <2>. QED  BY <1>2, <1>3
<1>. HIDE DEF y1, x2
<1>5. y2 \in 0 .. x3 - 1 /\ x3 \in Nat
  BY <1>2, <1>4
<1>. HIDE DEF y2, x3
<1>6. y3 \in 0 .. x4 - 1 /\ x4 \in Nat
  BY <1>2, <1>5
<1>. HIDE DEF y3, x4
<1>7. OfBytes(b3, b2, b1, b0) = y3 /\ Modulus = x4
  BY <1>1 DEF OfBytes, y1, y2, y3, x2, x3, x4
<1>. QED
  BY <1>6, <1>7 DEF Word

LEMMA SignTyped ==
    ASSUME StubAssumption, NEW x \in Word, NEW bytes \in {1, 2}
    PROVE  SignExtended(x, bytes) \in Word
<1>. DEFINE w == bytes * ByteBits
            low == x % PowerOfTwo[w]
<1>1. w \in Nat /\ w - 1 \in Nat /\ x \in Int
  BY WordSizes, Assumed
<1>2. PowerOfTwo[w] \in Nat \ {0} /\ PowerOfTwo[w - 1] \in Nat \ {0}
  BY <1>1, PowersOfTwo
<1>. HIDE DEF w
<1>3. low \in Int
  BY <1>1, <1>2, Quotient
<1>4. SignExtend(x, w) = IF low >= PowerOfTwo[w - 1] THEN low - PowerOfTwo[w] ELSE low
  BY DEF SignExtend
<1>. HIDE DEF low
<1>5. SignExtend(x, w) \in Int
  BY <1>2, <1>3, <1>4
<1>6. SignExtend(x, w) % Modulus \in Word
  BY <1>5, Wraps
<1>. QED
  BY <1>6 DEF SignExtended, w

LEMMA ValueTyped ==
    ASSUME StubAssumption, NEW op \in Moves, NEW x \in Word, NEW y \in Word, NEW imm \in Word,
           NEW pointer \in Word, NEW pc \in Word
    PROVE  Value(op, x, y, imm, pointer, pc) \in Word
<1>1. /\ Complement(y) \in Word
      /\ \A a \in Word, b \in Word : And(a, b) \in Word /\ Or(a, b) \in Word /\ Xor(a, b) \in Word
      /\ x \in Nat /\ y \in Nat /\ imm \in Nat /\ pointer \in Nat /\ pc \in Nat /\ 0 \in Word
  BY ComplementWord, Assumed
<1>2. (x * y) % Modulus \in Word
  <2>1. x * y \in Int
    BY <1>1
  <2>. QED  BY <2>1, Wraps
<1>3. (x + y) % Modulus \in Word
  BY <1>1, Wraps
<1>4. (pc + 4 - ((pc + 4) % 4) + imm) % Modulus \in Word
  <2>1. pc + 4 - ((pc + 4) % 4) + imm \in Int
    BY <1>1
  <2>. QED  BY <2>1, Wraps
<1>5. (pointer + imm) % Modulus \in Word /\ (pointer - imm) % Modulus \in Word
  BY <1>1, Wraps
<1>6. SignExtended(y, 1) \in Word /\ SignExtended(y, 2) \in Word
  BY SignTyped
<1>7. y % ByteMod \in Word /\ y % Place(2) \in Word /\ \A i \in Nat : Byte(y, i) \in 0 .. ByteMod - 1
  BY BytesOf
<1>8. /\ OfBytes(Byte(y, 0), Byte(y, 1), Byte(y, 2), Byte(y, 3)) \in Word
      /\ OfBytes(Byte(y, 2), Byte(y, 3), Byte(y, 0), Byte(y, 1)) \in Word
  BY <1>7, OfBytesTyped
<1>9. SignExtended(OfBytes(0, 0, Byte(y, 0), Byte(y, 1)), 2) \in Word
  <2>1. 0 \in 0 .. ByteMod - 1
    BY WordSizes
  <2>2. OfBytes(0, 0, Byte(y, 0), Byte(y, 1)) \in Word
    BY <1>7, <2>1, OfBytesTyped
  <2>. QED  BY <2>2, SignTyped
<1>10. /\ And(x, y) \in Word /\ Or(x, y) \in Word /\ Xor(x, y) \in Word
       /\ And(x, Complement(y)) \in Word /\ Complement(y) \in Word
  BY <1>1
<1>. QED
  BY <1>2, <1>3, <1>4, <1>5, <1>6, <1>7, <1>8, <1>9, <1>10 DEF Value, Moves

LEMMA FitMove ==
    ASSUME StubAssumption, NEW s, NEW watch, NEW earlier, Fit(s, watch, earlier),
           NEW d \in Instrs, d.op \in Moves, NEW pc \in Word
    PROVE  Fit(ExecMove(s, d, pc), watch, earlier)
<1>. DEFINE value == Value(d.op, ReadReg(s.cpu, d.rn, pc), ReadReg(s.cpu, d.rm, pc), d.imm % Modulus,
                           ReadSp(s.cpu), pc)
            written == IF d.op = "TST_reg" THEN s.cpu ELSE WriteReg(s.cpu, d.rd, value)
            cpu == IF d.setflags THEN SetNz(written, value) ELSE written
<1>1. s.cpu \in Cpus /\ FitMemory(s.mem, watch, earlier)
  BY DEF Fit
<1>2. /\ ReadReg(s.cpu, d.rn, pc) \in Word /\ ReadReg(s.cpu, d.rm, pc) \in Word /\ d.imm % Modulus \in Word
      /\ ReadSp(s.cpu) \in Word
  BY <1>1, InstrParts, ReadsWord, Wraps
<1>3. value \in Word
  BY <1>2, ValueTyped, Zenon
<1>. HIDE DEF value
<1>4. written \in Cpus
  BY <1>1, <1>3, InstrParts, WritesWord
<1>. HIDE DEF written
<1>5. cpu \in Cpus
  BY <1>3, <1>4, SetsFlags
<1>6. ExecMove(s, d, pc) = Done(s, cpu)
  BY DEF ExecMove, cpu, written, value
<1>. HIDE DEF cpu
<1>. QED
  BY <1>1, <1>5, <1>6, FitParts, Zenon

-----------------------------------------------------------------------------
(* The stub: branches, special registers and hints *)

LEMMA CpuFields ==
    ASSUME NEW cpu \in Cpus, NEW x \in Word, NEW y \in Word, NEW f \in BOOLEAN, NEW g \in BOOLEAN
    PROVE  /\ [cpu EXCEPT !.pc = x] \in Cpus /\ [cpu EXCEPT !.msp = x] \in Cpus /\ [cpu EXCEPT !.psp = x] \in Cpus
           /\ [cpu EXCEPT !.lr = x] \in Cpus /\ [cpu EXCEPT !.lr = x, !.pc = y] \in Cpus
           /\ [cpu EXCEPT !.thumb = f, !.pc = x] \in Cpus
           /\ [cpu EXCEPT !.event = f] \in Cpus /\ [cpu EXCEPT !.asleep = f] \in Cpus
           /\ [cpu EXCEPT !.event = f, !.asleep = g] \in Cpus
           /\ [cpu EXCEPT !.primask = f] \in Cpus /\ [cpu EXCEPT !.npriv = f, !.spsel = g] \in Cpus
<1>1. /\ [cpu EXCEPT !.pc = x] \in Cpus /\ [cpu EXCEPT !.msp = x] \in Cpus /\ [cpu EXCEPT !.psp = x] \in Cpus
      /\ [cpu EXCEPT !.lr = x] \in Cpus
  BY DEF Cpus
<1>2. /\ [cpu EXCEPT !.event = f] \in Cpus /\ [cpu EXCEPT !.asleep = f] \in Cpus
      /\ [cpu EXCEPT !.primask = f] \in Cpus
  BY DEF Cpus
<1>3. [cpu EXCEPT !.lr = x, !.pc = y] \in Cpus
  BY DEF Cpus
<1>4. [cpu EXCEPT !.thumb = f, !.pc = x] \in Cpus
  BY DEF Cpus
<1>5. [cpu EXCEPT !.event = f, !.asleep = g] \in Cpus
  BY DEF Cpus
<1>6. [cpu EXCEPT !.npriv = f, !.spsel = g] \in Cpus
  BY DEF Cpus
<1>. QED
  BY <1>1, <1>2, <1>3, <1>4, <1>5, <1>6

LEMMA NibbleOfFlags ==
    ASSUME StubAssumption
    PROVE  \E k \in Nat \ {0} :
               /\ PowerOfTwo[Width - 1] = 8 * k /\ PowerOfTwo[Width - 2] = 4 * k
               /\ PowerOfTwo[Width - 3] = 2 * k /\ PowerOfTwo[Width - 4] = k
               /\ Modulus = 16 * k
<1>. DEFINE n == Width - 4
            k == PowerOfTwo[n]
<1>1. n \in Nat /\ Width = n + 4 /\ n + 1 \in Nat /\ n + 2 \in Nat /\ n + 3 \in Nat
  BY WordSizes
<1>2. Width - 1 = n + 3 /\ Width - 2 = n + 2 /\ Width - 3 = n + 1 /\ (n + 1) + 1 = n + 2 /\ (n + 2) + 1 = n + 3
      /\ (n + 3) + 1 = n + 4
  BY <1>1
<1>. HIDE DEF n
<1>3. k \in Nat \ {0} /\ PowerOfTwo[n + 1] = 2 * k
  BY <1>1, PowersOfTwo
<1>4. PowerOfTwo[n + 2] = 4 * k
  <2>1. PowerOfTwo[(n + 1) + 1] = 2 * PowerOfTwo[n + 1]
    BY <1>1, PowersOfTwo
  <2>. QED
    BY <1>2, <1>3, <2>1
<1>5. PowerOfTwo[n + 3] = 8 * k
  <2>1. PowerOfTwo[(n + 2) + 1] = 2 * PowerOfTwo[n + 2]
    BY <1>1, PowersOfTwo
  <2>. QED
    BY <1>2, <1>3, <1>4, <2>1
<1>6. PowerOfTwo[n + 4] = 16 * k
  <2>1. PowerOfTwo[(n + 3) + 1] = 2 * PowerOfTwo[n + 3]
    BY <1>1, PowersOfTwo
  <2>. QED
    BY <1>2, <1>3, <1>5, <2>1
<1>7. Modulus = 16 * k /\ PowerOfTwo[Width - 4] = k
  BY <1>1, <1>6 DEF Modulus, n
<1>. QED
  BY <1>2, <1>3, <1>4, <1>5, <1>7

LEMMA BranchTargets ==
    ASSUME StubAssumption, NEW pc \in Word, NEW offset \in Int, NEW length \in {2, 4}
    PROVE  /\ (pc + 4 + offset) % Modulus \in Word
           /\ LET next == (pc + length) % Modulus IN next - (next % 2) + 1 \in Word
<1>1. (pc + 4 + offset) % Modulus \in Word
  <2>1. pc + 4 + offset \in Int
    BY Assumed
  <2>. QED  BY <2>1, Wraps
<1>. DEFINE next == (pc + length) % Modulus
<1>2. next \in Word
  <2>1. pc + length \in Int
    BY Assumed
  <2>. QED  BY <2>1, Wraps
<1>. HIDE DEF next
<1>3. next - (next % 2) + 1 \in Word
  <2>1. PICK k \in Nat \ {0} : Modulus = 16 * k
    BY NibbleOfFlags
  <2>2. next \in Nat /\ next <= 16 * k - 1
    BY <1>2, <2>1 DEF Word
  <2>3. next - (next % 2) + 1 \in Nat /\ next - (next % 2) + 1 <= 16 * k - 1
    BY <2>1, <2>2
  <2>. QED
    BY <2>1, <2>3 DEF Word
<1>. QED
  BY <1>1, <1>3 DEF next

LEMMA FitBranchTo ==
    ASSUME StubAssumption, NEW s, NEW watch, NEW earlier, Fit(s, watch, earlier), NEW target \in Word
    PROVE  Fit(BranchTo(s, target), watch, earlier)
<1>. DEFINE cpu == [s.cpu EXCEPT !.thumb = target % 2 = 1, !.pc = target - (target % 2)]
<1>1. s.cpu \in Cpus /\ FitMemory(s.mem, watch, earlier)
  BY DEF Fit
<1>2. target - (target % 2) \in Word /\ (target % 2 = 1) \in BOOLEAN
  BY AlignedWord
<1>3. cpu \in Cpus
  BY <1>1, <1>2, CpuFields, Zenon
<1>4. BranchTo(s, target) = Done(s, cpu)
  BY DEF BranchTo
<1>. HIDE DEF cpu
<1>. QED
  BY <1>1, <1>3, <1>4, FitParts, Zenon

Branches == {"B", "B_cond", "BL", "BX", "BLX_reg"}

LEMMA FitBranch ==
    ASSUME StubAssumption, NEW s, NEW watch, NEW earlier, Fit(s, watch, earlier),
           NEW d \in Instrs, d.op \in Branches, NEW pc \in Word
    PROVE  Fit(ExecBranch(s, d, pc), watch, earlier)
<1>. DEFINE relative == (pc + 4 + d.offset) % Modulus
            target == ReadReg(s.cpu, d.rm, pc)
            Linked(length) == LET next == (pc + length) % Modulus IN next - (next % 2) + 1
            four == Linked(4)
            two == Linked(2)
            jumped == [s.cpu EXCEPT !.pc = relative]
            called == [s.cpu EXCEPT !.lr = four, !.pc = relative]
            linked == [s.cpu EXCEPT !.lr = two]
<1>1. s.cpu \in Cpus /\ FitMemory(s.mem, watch, earlier)
  BY DEF Fit
<1>2. target \in Word
  BY <1>1, InstrParts, ReadsWord
<1>3. relative \in Word
  BY InstrParts, BranchTargets
<1>4. four \in Word /\ two \in Word
  BY BranchTargets, 0 \in Int
<1>. HIDE DEF four, two, target, relative
<1>5. jumped \in Cpus /\ called \in Cpus /\ linked \in Cpus
  BY <1>1, <1>3, <1>4, CpuFields, Zenon
<1>6. [s EXCEPT !.cpu.lr = two] = WithCpu(s, linked)
  BY DEF WithCpu
<1>7. /\ d.op = "B" => ExecBranch(s, d, pc) = Done(s, jumped)
      /\ d.op = "B_cond" => ExecBranch(s, d, pc) = Done(s, IF Holds(s.cpu, d.cond) THEN jumped ELSE s.cpu)
      /\ d.op = "BL" => ExecBranch(s, d, pc) = Done(s, called)
      /\ d.op = "BX" => ExecBranch(s, d, pc) \in {Ended(s, "ExceptionReturn"), BranchTo(s, target)}
      /\ d.op = "BLX_reg" => ExecBranch(s, d, pc) = BranchTo([s EXCEPT !.cpu.lr = two], target)
  BY DEF ExecBranch, relative, target, four, two
<1>. HIDE DEF jumped, called, linked
<1>8. /\ Fit(Done(s, jumped), watch, earlier) /\ Fit(Done(s, called), watch, earlier)
      /\ Fit(Done(s, s.cpu), watch, earlier) /\ Fit(Ended(s, "ExceptionReturn"), watch, earlier)
      /\ Fit(WithCpu(s, linked), watch, earlier)
  BY <1>1, <1>5, FitParts, Zenon
<1>9. Fit(BranchTo(s, target), watch, earlier)
  BY <1>2, FitBranchTo
<1>10. Fit(BranchTo([s EXCEPT !.cpu.lr = two], target), watch, earlier)
  <2>1. Fit(BranchTo(WithCpu(s, linked), target), watch, earlier)
    BY <1>2, <1>8, FitBranchTo
  <2>. QED
    BY <1>6, <2>1
<1>. QED
  BY <1>7, <1>8, <1>9, <1>10 DEF Branches

LEMMA FitMrs ==
    ASSUME StubAssumption, NEW s, NEW watch, NEW earlier, Fit(s, watch, earlier), NEW d \in Instrs
    PROVE  Fit(ExecMrs(s, d), watch, earlier)
<1>. DEFINE cpu == s.cpu
            control == (IF cpu.spsel THEN 2 ELSE 0) + (IF cpu.npriv THEN 1 ELSE 0)
            one == IF cpu.primask THEN 1 ELSE 0
            words == {Flags(cpu), Or(Flags(cpu), cpu.exception), cpu.exception, 0, cpu.msp, cpu.psp, one, control}
<1>1. cpu \in Cpus /\ FitMemory(s.mem, watch, earlier)
  BY DEF Fit
<1>2. cpu.exception \in Word /\ cpu.msp \in Word /\ cpu.psp \in Word
  BY <1>1 DEF Cpus
<1>3. Flags(cpu) \in Word
  <2>. DEFINE B(f, n) == IF f THEN PowerOfTwo[Width - n] ELSE 0
              b1 == B(cpu.n, 1)
              b2 == B(cpu.z, 2)
              b3 == B(cpu.c, 3)
              b4 == B(cpu.v, 4)
  <2>1. PICK k \in Nat \ {0} :
               /\ PowerOfTwo[Width - 1] = 8 * k /\ PowerOfTwo[Width - 2] = 4 * k
               /\ PowerOfTwo[Width - 3] = 2 * k /\ PowerOfTwo[Width - 4] = k
               /\ Modulus = 16 * k
    BY NibbleOfFlags
  <2>2. b1 \in {0, 8 * k} /\ b2 \in {0, 4 * k} /\ b3 \in {0, 2 * k} /\ b4 \in {0, k}
    BY <2>1
  <2>3. Flags(cpu) = b1 + b2 + b3 + b4
    BY DEF Flags
  <2>. HIDE DEF b1, b2, b3, b4
  <2>4. b1 + b2 + b3 + b4 \in 0 .. 16 * k - 1
    BY <2>2
  <2>. QED
    BY <2>1, <2>3, <2>4 DEF Word
<1>4. 0 \in Word /\ 1 \in Word /\ 2 \in Word /\ 3 \in Word
  BY WordSizes DEF Word
<1>5. control \in {0, 1, 2, 3} /\ one \in {0, 1}
  OBVIOUS
<1>. HIDE DEF control, one
<1>6. Or(Flags(cpu), cpu.exception) \in Word
  BY <1>2, <1>3, Assumed
<1>7. \A w \in words : w \in Word
  BY <1>2, <1>3, <1>4, <1>5, <1>6
<1>8. \A w \in words : Fit(Done(s, WriteReg(cpu, d.rd, w)), watch, earlier)
  <2>. HIDE DEF words, cpu
  <2>. QED
    BY <1>1, <1>7, InstrParts, WritesWord, FitParts
<1>9. Fit(Ended(s, "Undefined"), watch, earlier)
  BY <1>1, FitParts
<1>10. ExecMrs(s, d) = Ended(s, "Undefined") \/ \E w \in words : ExecMrs(s, d) = Done(s, WriteReg(cpu, d.rd, w))
  <2>. DEFINE value ==
            CASE d.imm \in {0, 2} -> Flags(cpu)
              [] d.imm \in {1, 3} -> Or(Flags(cpu), cpu.exception)
              [] d.imm \in {5, 7} -> cpu.exception
              [] d.imm = 6 -> 0
              [] d.imm = 8 -> cpu.msp
              [] d.imm = 9 -> cpu.psp
              [] d.imm = 16 -> one
              [] d.imm = 20 -> control
  <2>1. CASE d.imm \in {0, 1, 2, 3, 5, 6, 7, 8, 9, 16, 20}
    <3>1. value \in words
      BY <2>1
    <3>2. ExecMrs(s, d) = Done(s, WriteReg(cpu, d.rd, value))
      BY <2>1 DEF ExecMrs, control, one
    <3>. HIDE DEF value, words
    <3>. QED
      BY <3>1, <3>2
  <2>2. CASE d.imm \notin {0, 1, 2, 3, 5, 6, 7, 8, 9, 16, 20}
    BY <2>2 DEF ExecMrs
  <2>. QED
    BY <2>1, <2>2
<1>. HIDE DEF words, cpu
<1>. QED
  BY <1>8, <1>9, <1>10

LEMMA FitMsr ==
    ASSUME StubAssumption, NEW s, NEW watch, NEW earlier, Fit(s, watch, earlier), NEW d \in Instrs, NEW pc \in Word
    PROVE  Fit(ExecMsr(s, d, pc), watch, earlier)
<1>. DEFINE v == ReadReg(s.cpu, d.rn, pc)
            aligned == v - (v % 4)
            odd == v % 2 = 1
            B(n) == Bit(v, Width - n)
            flags == [s.cpu EXCEPT !.n = B(1), !.z = B(2), !.c = B(3), !.v = B(4)]
            main == [s.cpu EXCEPT !.msp = aligned]
            process == [s.cpu EXCEPT !.psp = aligned]
            mask == [s.cpu EXCEPT !.primask = odd]
            control == [s.cpu EXCEPT !.npriv = odd, !.spsel = Bit(v, 1)]
<1>1. s.cpu \in Cpus /\ FitMemory(s.mem, watch, earlier)
  BY DEF Fit
<1>2. v \in Word
  BY <1>1, InstrParts, ReadsWord
<1>3. aligned \in Word
  BY <1>2, AlignedWord
<1>4. odd \in BOOLEAN /\ \A i : Bit(v, i) \in BOOLEAN
  BY Zenon DEF Bit
<1>5. ExecMsr(s, d, pc) \in {Done(s, flags), Done(s, main), Done(s, process), Done(s, mask), Done(s, control),
                             Ended(s, "Undefined")}
  BY DEF ExecMsr
<1>. HIDE DEF v, aligned, odd
<1>6. main \in Cpus /\ process \in Cpus /\ mask \in Cpus /\ control \in Cpus
  BY <1>1, <1>3, <1>4, CpuFields, Zenon
<1>7. flags \in Cpus
  <2>1. \A a, b, c, e \in BOOLEAN : [s.cpu EXCEPT !.n = a, !.z = b, !.c = c, !.v = e] \in Cpus
    BY <1>1 DEF Cpus
  <2>. QED
    BY <1>4, <2>1, Zenon
<1>. HIDE DEF flags, main, process, mask, control
<1>. QED
  BY <1>1, <1>5, <1>6, <1>7, FitParts, Zenon

LEMMA FitHint ==
    ASSUME StubAssumption, NEW s, NEW watch, NEW earlier, Fit(s, watch, earlier), NEW d \in Instrs
    PROVE  Fit(ExecHint(s, d), watch, earlier)
<1>. DEFINE set == [s.cpu EXCEPT !.event = TRUE]
            clear == [s.cpu EXCEPT !.event = FALSE]
            sleeping == [s.cpu EXCEPT !.asleep = TRUE]
            mask == [s.cpu EXCEPT !.primask = (d.imm # 0)]
<1>1. s.cpu \in Cpus /\ FitMemory(s.mem, watch, earlier)
  BY DEF Fit
<1>2. 0 \in Word /\ (d.imm # 0) \in BOOLEAN
  BY Assumed
<1>3. set \in Cpus /\ clear \in Cpus /\ sleeping \in Cpus /\ mask \in Cpus
  BY <1>1, <1>2, CpuFields, Zenon
<1>4. [s EXCEPT !.cpu.asleep = TRUE] = WithCpu(s, sleeping)
  BY DEF WithCpu
<1>5. ExecHint(s, d) \in {Done(s, set), Done(s, clear), Done(s, mask), Done(s, s.cpu),
                          Ended(WithCpu(s, sleeping), "WaitingForInterrupt")}
  BY <1>4 DEF ExecHint
<1>. HIDE DEF set, clear, sleeping, mask
<1>6. Fit(WithCpu(s, sleeping), watch, earlier)
  BY <1>1, <1>3, FitParts, Zenon
<1>7. Fit(Ended(WithCpu(s, sleeping), "WaitingForInterrupt"), watch, earlier)
  BY <1>1, <1>3, <1>6, FitParts, Zenon
<1>8. /\ Fit(Done(s, set), watch, earlier) /\ Fit(Done(s, clear), watch, earlier)
      /\ Fit(Done(s, mask), watch, earlier) /\ Fit(Done(s, s.cpu), watch, earlier)
  BY <1>1, <1>3, FitParts, Zenon
<1>. QED
  BY <1>5, <1>7, <1>8

-----------------------------------------------------------------------------
(* The stub: loads and stores *)

LEMMA TargetTyped ==
    ASSUME StubAssumption, NEW cpu \in Cpus, NEW d \in Instrs, NEW pc \in Word
    PROVE  Target(cpu, d, pc) \in Word
<1>1. d.imm \in Int /\ pc \in Int /\ ReadReg(cpu, d.rn, pc) \in Int /\ ReadReg(cpu, d.rm, pc) \in Int
  BY InstrParts, ReadsWord, Assumed
<1>2. (pc + 4 - ((pc + 4) % 4) + d.imm) % Modulus \in Word
  <2>1. pc + 4 - ((pc + 4) % 4) + d.imm \in Int
    BY <1>1
  <2>. QED  BY <2>1, Wraps
<1>3. (ReadReg(cpu, d.rn, pc) + (IF d.op \in ByRegister THEN ReadReg(cpu, d.rm, pc) ELSE d.imm)) % Modulus \in Word
  <2>1. ReadReg(cpu, d.rn, pc) + (IF d.op \in ByRegister THEN ReadReg(cpu, d.rm, pc) ELSE d.imm) \in Int
    BY <1>1
  <2>. QED  BY <2>1, Wraps
<1>. QED
  BY <1>2, <1>3 DEF Target

\* A word read into a register
LEMMA FitInto ==
    ASSUME StubAssumption, NEW s, NEW watch, NEW earlier, Fit(s, watch, earlier),
           NEW addr \in Word, NEW n \in {1, 2, 4}, NEW rt \in 0..15, NEW value,
           Read(s.mem, addr, n).status = "Ok" => value \in Word
    PROVE  LET read == Read(s.mem, addr, n)
               after == [s EXCEPT !.mem = read.mem]
           IN  Fit(IF read.status = "Ok" THEN Done(after, WriteReg(s.cpu, rt, value))
                   ELSE Ended(after, "MemFault"), watch, earlier)
<1>. DEFINE read == Read(s.mem, addr, n)
            after == WithMem(s, read.mem)
<1>1. s.cpu \in Cpus /\ FitMemory(s.mem, watch, earlier)
  BY DEF Fit
<1>2. FitMemory(read.mem, watch, earlier)
  BY <1>1, FitRead
<1>3. Fit(after, watch, earlier)
  BY <1>1, <1>2, FitParts, Zenon
<1>4. read.status = "Ok" => WriteReg(s.cpu, rt, value) \in Cpus
  BY <1>1, WritesWord
<1>5. after = [s EXCEPT !.mem = read.mem]
  BY DEF WithMem
<1>. HIDE DEF read, after
<1>6. CASE read.status = "Ok"
  <2>1. Fit(Done(after, WriteReg(s.cpu, rt, value)), watch, earlier)
    BY <1>1, <1>3, <1>4, <1>6, FitParts, Zenon
  <2>. QED
    BY <1>5, <1>6, <2>1 DEF read
<1>7. CASE read.status # "Ok"
  <2>1. Fit(Ended(after, "MemFault"), watch, earlier)
    BY <1>1, <1>3, FitParts, Zenon
  <2>. QED
    BY <1>5, <1>7, <2>1 DEF read
<1>. QED
  BY <1>6, <1>7

LEMMA FitLoad ==
    ASSUME StubAssumption, NEW s, NEW watch, NEW earlier, Fit(s, watch, earlier),
           NEW d \in Instrs, d.op \in DOMAIN Loads, NEW pc \in Word
    PROVE  Fit(ExecLoad(s, d, pc), watch, earlier)
<1>. DEFINE addr == Target(s.cpu, d, pc)
            n == Loads[d.op]
            read == Read(s.mem, addr, n)
            value == IF d.op \in {"LDRSB_reg", "LDRSH_reg"} THEN SignExtended(read.value, n) ELSE read.value
<1>1. s.cpu \in Cpus /\ FitMemory(s.mem, watch, earlier) /\ d.rt \in 0..15
  BY InstrParts DEF Fit
<1>2. addr \in Word
  BY <1>1, TargetTyped
<1>3. n \in {1, 2, 4} /\ (d.op \in {"LDRSB_reg", "LDRSH_reg"} => n \in {1, 2})
  BY DEF Loads
<1>. HIDE DEF addr, n
<1>4. read.status = "Ok" => value \in Word
  <2>1. read.status = "Ok" => read.value \in Word
    BY <1>1, <1>2, <1>3, FitRead
  <2>. HIDE DEF read
  <2>. QED
    BY <1>3, <2>1, SignTyped
<1>5. ExecLoad(s, d, pc) = LET after == [s EXCEPT !.mem = read.mem]
                           IN  IF read.status = "Ok" THEN Done(after, WriteReg(s.cpu, d.rt, value))
                               ELSE Ended(after, "MemFault")
  BY DEF ExecLoad, Loaded, addr, n
<1>. HIDE DEF value
<1>6. LET after == [s EXCEPT !.mem = read.mem]
      IN  Fit(IF read.status = "Ok" THEN Done(after, WriteReg(s.cpu, d.rt, value))
              ELSE Ended(after, "MemFault"), watch, earlier)
  BY <1>1, <1>2, <1>3, <1>4, FitInto
<1>. QED
  BY <1>5, <1>6

LEMMA FitPut ==
    ASSUME StubAssumption, NEW s, NEW watch, NEW earlier, Fit(s, watch, earlier),
           NEW d \in Instrs, d.op \in DOMAIN Stores, NEW pc \in Word
    PROVE  Fit(ExecStore(s, d, pc), watch, earlier)
<1>. DEFINE n == Stores[d.op]
            x == ReadReg(s.cpu, d.rt, pc)
<1>1. s.cpu \in Cpus
  BY DEF Fit
<1>2. Target(s.cpu, d, pc) \in Word /\ x \in Word
  BY <1>1, InstrParts, TargetTyped, ReadsWord
<1>3. n \in {1, 2, 4}
  BY DEF Stores
<1>. HIDE DEF n, x
<1>4. x % Place(n) \in Word
  <2>1. x % ByteMod \in Word /\ x % Place(2) \in Word /\ x % Modulus \in Word
    BY <1>2, BytesOf, Wraps, Assumed
  <2>2. Place(1) = ByteMod /\ Place(4) = Modulus
    BY WordSizes
  <2>. QED
    BY <1>3, <2>1, <2>2
<1>5. ExecStore(s, d, pc) = Store(s, Target(s.cpu, d, pc), n, x % Place(n))
  BY DEF ExecStore, n, x
<1>6. Fit(Store(s, Target(s.cpu, d, pc), n, x % Place(n)), watch, earlier)
  BY <1>2, <1>3, <1>4, FitStore
<1>. QED
  BY <1>5, <1>6

-----------------------------------------------------------------------------
(* The stub: transfers of several words *)

LEMMA ListTyped ==
    ASSUME NEW list \in SUBSET (0..15)
    PROVE  Cardinality(list) \in Nat /\ \A i : Cardinality({j \in list : j < i}) \in Nat
<1>1. IsFiniteSet(0..15)
  BY FS_Interval, 0 \in Int, 15 \in Int, Zenon
<1>2. \A l \in SUBSET (0..15) : IsFiniteSet(l)
  BY <1>1, FS_Subset
<1>3. \A i : {j \in list : j < i} \in SUBSET (0..15)
  OBVIOUS
<1>. QED
  BY <1>2, <1>3, FS_CardinalityType

LEMMA WordOfTyped ==
    ASSUME StubAssumption, NEW list \in SUBSET (0..15), NEW base \in Word, NEW i
    PROVE  WordOf(i, list, base) \in Word /\ (base + 4 * Cardinality(list)) % Modulus \in Word
           /\ (base - 4 * Cardinality(list)) % Modulus \in Word
<1>. DEFINE k == Cardinality({j \in list : j < i})
            n == Cardinality(list)
<1>1. k \in Nat /\ n \in Nat /\ base \in Nat
  BY ListTyped, Assumed
<1>. HIDE DEF k, n
<1>2. base + 4 * k \in Int /\ base + 4 * n \in Int /\ base - 4 * n \in Int
  BY <1>1
<1>3. (base + 4 * k) % Modulus \in Word /\ (base + 4 * n) % Modulus \in Word /\ (base - 4 * n) % Modulus \in Word
  BY <1>2, Wraps
<1>. QED
  BY <1>3 DEF WordOf, k, n

LEMMA FitStoreOne ==
    ASSUME StubAssumption, NEW t, NEW watch, NEW earlier, Fit(t, watch, earlier),
           NEW i \in 0..15, NEW list \in SUBSET (0..15), NEW base \in Word, NEW pc \in Word
    PROVE  Fit(StoreOne(t, i, list, base, pc), watch, earlier)
<1>1. t.cpu \in Cpus
  BY DEF Fit
<1>2. WordOf(i, list, base) \in Word /\ ReadReg(t.cpu, i, pc) \in Word
  BY <1>1, WordOfTyped, ReadsWord
<1>3. Fit(Store(t, WordOf(i, list, base), 4, ReadReg(t.cpu, i, pc)), watch, earlier)
  BY <1>2, FitStore
<1>. QED
  BY <1>3 DEF StoreOne

LEMMA FitLoadOne ==
    ASSUME StubAssumption, NEW t, NEW watch, NEW earlier, Fit(t, watch, earlier),
           NEW i \in 0..15, NEW list \in SUBSET (0..15), NEW base \in Word
    PROVE  Fit(LoadOne(t, i, list, base), watch, earlier)
<1>. DEFINE read == Read(t.mem, WordOf(i, list, base), 4)
<1>1. FitMemory(t.mem, watch, earlier) /\ t.cpu \in Cpus
  BY DEF Fit
<1>2. WordOf(i, list, base) \in Word
  BY WordOfTyped
<1>3. read.status = "Ok" => read.value \in Word
  BY <1>1, <1>2, FitRead
<1>4. LET after == [t EXCEPT !.mem = read.mem]
      IN  Fit(IF read.status = "Ok" THEN Done(after, WriteReg(t.cpu, i, read.value))
              ELSE Ended(after, "MemFault"), watch, earlier)
  BY <1>2, <1>3, FitInto
<1>. QED
  BY <1>4 DEF LoadOne

LEMMA FitStoreAll ==
    ASSUME StubAssumption, NEW s, NEW watch, NEW earlier, Fit(s, watch, earlier),
           NEW list \in SUBSET (0..15), NEW base \in Word, NEW pc \in Word
    PROVE  Fit(StoreAll(s, list, base, pc), watch, earlier)
<1>. DEFINE first == [s EXCEPT !.status = "Ok"]
            F(u) == [n \in 0..16 |-> IF n = 0 THEN first ELSE StoreOne(u[n - 1], n - 1, list, base, pc)]
            moved == CHOOSE u : u = F(u)
            Through(g, n) == g[0] = first /\ \A k \in 1..n : g[k] = StoreOne(g[k - 1], k - 1, list, base, pc)
<1>1. Fit(first, watch, earlier)
  <2>1. s.cpu \in Cpus /\ FitMemory(s.mem, watch, earlier)
    BY DEF Fit
  <2>2. Fit(Ended(s, "Ok"), watch, earlier)
    BY <2>1, FitParts, Zenon
  <2>. QED
    BY <2>2 DEF Ended
<1>. HIDE DEF first
<1>2. \E g : Through(g, 16)
  <2>. DEFINE T == {n \in Nat : \E g : Through(g, n)}
  <2>1. 0 \in T
    <3>1. Through([n \in {0} |-> first], 0)
      OBVIOUS
    <3>. QED
      BY <3>1
  <2>2. ASSUME NEW n \in T
        PROVE  n + 1 \in T
    <3>1. PICK g : Through(g, n)
      BY <2>2
    <3>. DEFINE h == [k \in 0 .. n + 1 |-> IF k = n + 1 THEN StoreOne(g[n], n, list, base, pc) ELSE g[k]]
    <3>2. ASSUME NEW k \in 1 .. n + 1
          PROVE  h[k] = StoreOne(h[k - 1], k - 1, list, base, pc)
      <4>1. h[k - 1] = g[k - 1]
        BY <2>2
      <4>2. CASE k = n + 1
        <5>1. h[k] = StoreOne(g[n], n, list, base, pc) /\ k - 1 = n
          BY <2>2, <4>2
        <5>. QED
          BY <4>1, <5>1
      <4>3. CASE k \in 1..n
        <5>1. h[k] = g[k]
          BY <2>2, <4>3
        <5>. QED
          BY <3>1, <4>1, <4>3, <5>1
      <4>. QED
        BY <2>2, <4>2, <4>3
    <3>3. h[0] = first
      BY <2>2, <3>1
    <3>4. Through(h, n + 1)
      <4>. HIDE DEF h
      <4>. QED
        BY <3>2, <3>3
    <3>5. n + 1 \in Nat
      BY <2>2
    <3>. HIDE DEF Through, h
    <3>. QED
      BY <3>4, <3>5
  <2>3. T \in SUBSET Nat
    OBVIOUS
  <2>4. T = Nat
    <3>. HIDE DEF T
    <3>. QED
      BY <2>1, <2>2, <2>3, Induction
  <2>. HIDE DEF Through
  <2>. QED
    BY <2>4
<1>3. moved = F(moved)
  <2>1. PICK g : Through(g, 16)
    BY <1>2
  <2>. DEFINE u == [n \in 0..16 |-> g[n]]
  <2>2. u = F(u)
    <3>1. \A n \in 0..16 : u[n] = IF n = 0 THEN first ELSE StoreOne(u[n - 1], n - 1, list, base, pc)
      BY <2>1
    <3>. QED
      BY <3>1
  <2>. QED
    BY <2>2
<1>4. StoreAll(s, list, base, pc) = moved[16]
  BY DEF StoreAll, first
<1>. HIDE DEF moved
<1>5. \A n \in 0..16 : moved[n] = IF n = 0 THEN first ELSE StoreOne(moved[n - 1], n - 1, list, base, pc)
  BY <1>3
<1>. DEFINE T == {n \in Nat : n <= 16 => Fit(moved[n], watch, earlier)}
<1>6. 0 \in T
  BY <1>1, <1>5
<1>7. ASSUME NEW n \in T
      PROVE  n + 1 \in T
  <2>1. SUFFICES ASSUME n + 1 <= 16
                 PROVE  Fit(moved[n + 1], watch, earlier)
    OBVIOUS
  <2>2. n \in 0..15 /\ n + 1 \in 0..16 /\ n + 1 # 0 /\ (n + 1) - 1 = n /\ Fit(moved[n], watch, earlier)
    BY <1>7, <2>1
  <2>3. Fit(StoreOne(moved[n], n, list, base, pc), watch, earlier)
    BY <2>2, FitStoreOne
  <2>4. moved[n + 1] = StoreOne(moved[n], n, list, base, pc)
    BY <1>5, <2>2
  <2>. QED
    BY <2>3, <2>4
<1>8. T \in SUBSET Nat
  OBVIOUS
<1>9. 16 \in T
  <2>. HIDE DEF T
  <2>. QED
    BY <1>6, <1>7, <1>8, Induction
<1>10. Fit(moved[16], watch, earlier)
  BY <1>9
<1>. QED
  BY <1>4, <1>10

LEMMA FitLoadAll ==
    ASSUME StubAssumption, NEW s, NEW watch, NEW earlier, Fit(s, watch, earlier),
           NEW list \in SUBSET (0..15), NEW base \in Word
    PROVE  Fit(LoadAll(s, list, base), watch, earlier)
<1>. DEFINE first == [s EXCEPT !.status = "Ok"]
            F(u) == [n \in 0..16 |-> IF n = 0 THEN first ELSE LoadOne(u[n - 1], n - 1, list, base)]
            moved == CHOOSE u : u = F(u)
            Through(g, n) == g[0] = first /\ \A k \in 1..n : g[k] = LoadOne(g[k - 1], k - 1, list, base)
<1>1. Fit(first, watch, earlier)
  <2>1. s.cpu \in Cpus /\ FitMemory(s.mem, watch, earlier)
    BY DEF Fit
  <2>2. Fit(Ended(s, "Ok"), watch, earlier)
    BY <2>1, FitParts, Zenon
  <2>. QED
    BY <2>2 DEF Ended
<1>. HIDE DEF first
<1>2. \E g : Through(g, 16)
  <2>. DEFINE T == {n \in Nat : \E g : Through(g, n)}
  <2>1. 0 \in T
    <3>1. Through([n \in {0} |-> first], 0)
      OBVIOUS
    <3>. QED
      BY <3>1
  <2>2. ASSUME NEW n \in T
        PROVE  n + 1 \in T
    <3>1. PICK g : Through(g, n)
      BY <2>2
    <3>. DEFINE h == [k \in 0 .. n + 1 |-> IF k = n + 1 THEN LoadOne(g[n], n, list, base) ELSE g[k]]
    <3>2. ASSUME NEW k \in 1 .. n + 1
          PROVE  h[k] = LoadOne(h[k - 1], k - 1, list, base)
      <4>1. h[k - 1] = g[k - 1]
        BY <2>2
      <4>2. CASE k = n + 1
        <5>1. h[k] = LoadOne(g[n], n, list, base) /\ k - 1 = n
          BY <2>2, <4>2
        <5>. QED
          BY <4>1, <5>1
      <4>3. CASE k \in 1..n
        <5>1. h[k] = g[k]
          BY <2>2, <4>3
        <5>. QED
          BY <3>1, <4>1, <4>3, <5>1
      <4>. QED
        BY <2>2, <4>2, <4>3
    <3>3. h[0] = first
      BY <2>2, <3>1
    <3>4. Through(h, n + 1)
      <4>. HIDE DEF h
      <4>. QED
        BY <3>2, <3>3
    <3>5. n + 1 \in Nat
      BY <2>2
    <3>. HIDE DEF Through, h
    <3>. QED
      BY <3>4, <3>5
  <2>3. T \in SUBSET Nat
    OBVIOUS
  <2>4. T = Nat
    <3>. HIDE DEF T
    <3>. QED
      BY <2>1, <2>2, <2>3, Induction
  <2>. HIDE DEF Through
  <2>. QED
    BY <2>4
<1>3. moved = F(moved)
  <2>1. PICK g : Through(g, 16)
    BY <1>2
  <2>. DEFINE u == [n \in 0..16 |-> g[n]]
  <2>2. u = F(u)
    <3>1. \A n \in 0..16 : u[n] = IF n = 0 THEN first ELSE LoadOne(u[n - 1], n - 1, list, base)
      BY <2>1
    <3>. QED
      BY <3>1
  <2>. QED
    BY <2>2
<1>4. LoadAll(s, list, base) = moved[16]
  BY DEF LoadAll, first
<1>. HIDE DEF moved
<1>5. \A n \in 0..16 : moved[n] = IF n = 0 THEN first ELSE LoadOne(moved[n - 1], n - 1, list, base)
  BY <1>3
<1>. DEFINE T == {n \in Nat : n <= 16 => Fit(moved[n], watch, earlier)}
<1>6. 0 \in T
  BY <1>1, <1>5
<1>7. ASSUME NEW n \in T
      PROVE  n + 1 \in T
  <2>1. SUFFICES ASSUME n + 1 <= 16
                 PROVE  Fit(moved[n + 1], watch, earlier)
    OBVIOUS
  <2>2. n \in 0..15 /\ n + 1 \in 0..16 /\ n + 1 # 0 /\ (n + 1) - 1 = n /\ Fit(moved[n], watch, earlier)
    BY <1>7, <2>1
  <2>3. Fit(LoadOne(moved[n], n, list, base), watch, earlier)
    BY <2>2, FitLoadOne
  <2>4. moved[n + 1] = LoadOne(moved[n], n, list, base)
    BY <1>5, <2>2
  <2>. QED
    BY <2>3, <2>4
<1>8. T \in SUBSET Nat
  OBVIOUS
<1>9. 16 \in T
  <2>. HIDE DEF T
  <2>. QED
    BY <1>6, <1>7, <1>8, Induction
<1>10. Fit(moved[16], watch, earlier)
  BY <1>9
<1>. QED
  BY <1>4, <1>10

LEMMA FitAdvanced ==
    ASSUME StubAssumption, NEW s, NEW watch, NEW earlier, Fit(s, watch, earlier),
           NEW n \in 0..15, NEW end \in Word
    PROVE  Fit(Advanced(s, n, end), watch, earlier)
<1>1. s.cpu \in Cpus /\ FitMemory(s.mem, watch, earlier)
  BY DEF Fit
<1>2. WriteReg(s.cpu, n, end) \in Cpus
  BY <1>1, WritesWord
<1>3. Fit(Done(s, WriteReg(s.cpu, n, end)), watch, earlier)
  BY <1>1, <1>2, FitParts, Zenon
<1>. QED
  BY <1>3 DEF Advanced

LEMMA FitPush ==
    ASSUME StubAssumption, NEW s, NEW watch, NEW earlier, Fit(s, watch, earlier),
           NEW d \in Instrs, NEW pc \in Word
    PROVE  Fit(Push(s, d, pc), watch, earlier)
<1>. DEFINE base == (ReadSp(s.cpu) - 4 * Cardinality(d.list)) % Modulus
<1>1. s.cpu \in Cpus /\ d.list \in SUBSET (0..15)
  BY InstrParts DEF Fit
<1>2. ReadSp(s.cpu) \in Word
  BY <1>1, ReadsWord, 0 \in 0..15
<1>3. base \in Word
  BY <1>1, <1>2, WordOfTyped
<1>4. Push(s, d, pc) = Advanced(StoreAll(s, d.list, base, pc), Sp, base)
  BY DEF Push
<1>. HIDE DEF base
<1>5. Fit(StoreAll(s, d.list, base, pc), watch, earlier)
  BY <1>1, <1>3, FitStoreAll
<1>6. Sp \in 0..15
  BY DEF Sp
<1>. QED
  BY <1>3, <1>4, <1>5, <1>6, FitAdvanced

LEMMA FitWriteSp ==
    ASSUME StubAssumption, NEW s, NEW watch, NEW earlier, Fit(s, watch, earlier), NEW end \in Word
    PROVE  Fit(WithCpu(s, WriteSp(s.cpu, end)), watch, earlier)
<1>1. s.cpu \in Cpus /\ FitMemory(s.mem, watch, earlier)
  BY DEF Fit
<1>2. WriteSp(s.cpu, end) \in Cpus
  BY <1>1, WritesWord, 0 \in 0..15
<1>. QED
  BY <1>1, <1>2, FitParts, Zenon

LEMMA FitPopPc ==
    ASSUME StubAssumption, NEW s, NEW watch, NEW earlier, Fit(s, watch, earlier),
           NEW addr \in Word, NEW end \in Word
    PROVE  Fit(PopPc(s, Read(s.mem, addr, 4), end), watch, earlier)
<1>. DEFINE target == Read(s.mem, addr, 4)
            after == WithMem(s, target.mem)
            popped == WithCpu(after, WriteSp(after.cpu, end))
<1>1. s.cpu \in Cpus /\ FitMemory(s.mem, watch, earlier)
  BY DEF Fit
<1>2. FitMemory(target.mem, watch, earlier) /\ (target.status = "Ok" => target.value \in Word)
  BY <1>1, FitRead
<1>3. Fit(after, watch, earlier)
  BY <1>1, <1>2, FitParts, Zenon
<1>4. Fit(popped, watch, earlier)
  <2>. HIDE DEF after
  <2>. QED
    BY <1>3, FitWriteSp
<1>5. PopPc(s, target, end) \in
        {Ended(after, "MemFault"), Ended(popped, "ExceptionReturn")}
        \cup (IF target.status = "Ok" THEN {BranchTo(popped, target.value)} ELSE {})
  BY DEF PopPc, WithMem, WithCpu
<1>. HIDE DEF target, after, popped
<1>6. \A t, x : Fit(t, watch, earlier) => Fit(Ended(t, x), watch, earlier)
  <2>. SUFFICES ASSUME NEW t, NEW x, Fit(t, watch, earlier)
                PROVE  Fit(Ended(t, x), watch, earlier)
    OBVIOUS
  <2>1. t.cpu \in Cpus /\ FitMemory(t.mem, watch, earlier)
    BY DEF Fit
  <2>. QED
    BY <2>1, FitParts, Zenon
<1>7. target.status = "Ok" => Fit(BranchTo(popped, target.value), watch, earlier)
  BY <1>2, <1>4, FitBranchTo
<1>8. Fit(PopPc(s, target, end), watch, earlier)
  BY <1>3, <1>4, <1>5, <1>6, <1>7
<1>. QED
  BY <1>8 DEF target

LEMMA FitPop ==
    ASSUME StubAssumption, NEW s, NEW watch, NEW earlier, Fit(s, watch, earlier), NEW d \in Instrs
    PROVE  Fit(Pop(s, d), watch, earlier)
<1>. DEFINE list == d.list \ {Pc}
            loaded == LoadAll(s, list, ReadSp(s.cpu))
            end == (ReadSp(s.cpu) + 4 * Cardinality(d.list)) % Modulus
            last == (end - 4) % Modulus
<1>1. s.cpu \in Cpus /\ d.list \in SUBSET (0..15)
  BY InstrParts DEF Fit
<1>2. ReadSp(s.cpu) \in Word
  BY <1>1, ReadsWord, Assumed, 0 \in 0..15
<1>3. end \in Word
  BY <1>1, <1>2, WordOfTyped
<1>. HIDE DEF end
<1>4. last \in Word
  <2>1. end - 4 \in Int
    BY <1>3, Assumed
  <2>. QED
    BY <2>1, Wraps
<1>5. Fit(loaded, watch, earlier)
  <2>1. list \in SUBSET (0..15)
    BY <1>1
  <2>. HIDE DEF list
  <2>. QED
    BY <1>2, <2>1, FitLoadAll
<1>6. Pop(s, d) = PopRest(loaded, d.list, end)
  BY DEF Pop, end
<1>. HIDE DEF loaded, last
<1>7. PopRest(loaded, d.list, end) \in
        {loaded, WithCpu(loaded, WriteSp(loaded.cpu, end)), PopPc(loaded, Read(loaded.mem, last, 4), end)}
  BY DEF PopRest, WithCpu, last
<1>8. Fit(WithCpu(loaded, WriteSp(loaded.cpu, end)), watch, earlier)
  BY <1>3, <1>5, FitWriteSp
<1>9. Fit(PopPc(loaded, Read(loaded.mem, last, 4), end), watch, earlier)
  BY <1>3, <1>4, <1>5, FitPopPc
<1>. QED
  BY <1>5, <1>6, <1>7, <1>8, <1>9

LEMMA FitBlock ==
    ASSUME StubAssumption, NEW s, NEW watch, NEW earlier, Fit(s, watch, earlier),
           NEW d \in Instrs, NEW pc \in Word
    PROVE  Fit(ExecBlock(s, d, pc), watch, earlier)
<1>. DEFINE base == ReadReg(s.cpu, d.rn, pc)
            moved == IF d.op = "STM" THEN StoreAll(s, d.list, base, pc) ELSE LoadAll(s, d.list, base)
            end == (base + 4 * Cardinality(d.list)) % Modulus
<1>1. s.cpu \in Cpus /\ FitMemory(s.mem, watch, earlier) /\ d.list \in SUBSET (0..15) /\ d.rn \in 0..15
  BY InstrParts DEF Fit
<1>2. base \in Word
  BY <1>1, ReadsWord
<1>3. end \in Word
  BY <1>1, <1>2, WordOfTyped
<1>. HIDE DEF base, end
<1>4. Fit(StoreAll(s, d.list, base, pc), watch, earlier) /\ Fit(LoadAll(s, d.list, base), watch, earlier)
  BY <1>1, <1>2, FitStoreAll, FitLoadAll
<1>5. Fit(moved, watch, earlier)
  BY <1>4
<1>6. Multiples(s, d, pc) \in {moved, Advanced(moved, d.rn, end)}
  BY DEF Multiples, base, end
<1>. HIDE DEF moved
<1>7. Fit(Multiples(s, d, pc), watch, earlier)
  BY <1>1, <1>3, <1>5, <1>6, FitAdvanced
<1>8. Fit(Ended(s, "Undefined"), watch, earlier)
  BY <1>1, FitParts, Zenon
<1>9. Fit(Push(s, d, pc), watch, earlier) /\ Fit(Pop(s, d), watch, earlier)
  BY FitPush, FitPop
<1>. QED
  BY <1>7, <1>8, <1>9 DEF ExecBlock

\* An instruction leaves a machine of words, with what it has done caught.
LEMMA FitExecute ==
    ASSUME StubAssumption, NEW s, NEW watch, NEW earlier, Fit(s, watch, earlier),
           NEW d \in Instrs, NEW pc \in Word
    PROVE  Fit(Execute(s, d, pc), watch, earlier)
<1>1. s.cpu \in Cpus /\ FitMemory(s.mem, watch, earlier) /\ d.op \in Executed
  BY InstrParts DEF Fit
<1>2. \A x : Fit(Ended(s, x), watch, earlier)
  BY <1>1, FitParts, Zenon
<1>3. /\ Fit(ExecHint(s, d), watch, earlier)
      /\ Fit(ExecMrs(s, d), watch, earlier)
      /\ Fit(ExecMsr(s, d, pc), watch, earlier)
      /\ Fit(ExecBlock(s, d, pc), watch, earlier)
      /\ Fit(ExecShift(s, d, pc), watch, earlier)
  BY FitHint, FitMrs, FitMsr, FitBlock, FitShift
<1>4. /\ d.op \in Branches => Fit(ExecBranch(s, d, pc), watch, earlier)
      /\ d.op \in DOMAIN Loads => Fit(ExecLoad(s, d, pc), watch, earlier)
      /\ d.op \in DOMAIN Stores => Fit(ExecStore(s, d, pc), watch, earlier)
      /\ d.op \in Adders => Fit(ExecAdd(s, d, pc), watch, earlier)
      /\ d.op \in Moves => Fit(ExecMove(s, d, pc), watch, earlier)
  BY FitBranch, FitLoad, FitPut, FitAdd, FitMove
<1>5. \/ \E x : Execute(s, d, pc) = Ended(s, x)
      \/ Execute(s, d, pc) \in {ExecHint(s, d), ExecMrs(s, d), ExecMsr(s, d, pc), ExecBlock(s, d, pc),
                                ExecShift(s, d, pc)}
      \/ d.op \in Branches /\ Execute(s, d, pc) = ExecBranch(s, d, pc)
      \/ d.op \in DOMAIN Loads /\ Execute(s, d, pc) = ExecLoad(s, d, pc)
      \/ d.op \in DOMAIN Stores /\ Execute(s, d, pc) = ExecStore(s, d, pc)
      \/ d.op \in Adders /\ Execute(s, d, pc) = ExecAdd(s, d, pc)
      \/ d.op \in Moves /\ Execute(s, d, pc) = ExecMove(s, d, pc)
  BY <1>1 DEF Execute, Executed, Branches
<1>. QED
  BY <1>2, <1>3, <1>4, <1>5

-----------------------------------------------------------------------------
(* The stub: what is decoded *)

LEMMA SmallPowers ==
    /\ PowerOfTwo[0] = 1 /\ PowerOfTwo[1] = 2 /\ PowerOfTwo[2] = 4 /\ PowerOfTwo[3] = 8
    /\ PowerOfTwo[4] = 16 /\ PowerOfTwo[5] = 32 /\ PowerOfTwo[6] = 64 /\ PowerOfTwo[7] = 128
    /\ PowerOfTwo[8] = 256 /\ PowerOfTwo[9] = 512 /\ PowerOfTwo[10] = 1024 /\ PowerOfTwo[11] = 2048
    /\ PowerOfTwo[12] = 4096
<1>1. PowerOfTwo[0] = 1 /\ \A n \in Nat : PowerOfTwo[n + 1] = 2 * PowerOfTwo[n]
  BY PowersOfTwo
<1>2. /\ PowerOfTwo[0 + 1] = 2 * PowerOfTwo[0] /\ PowerOfTwo[1 + 1] = 2 * PowerOfTwo[1]
      /\ PowerOfTwo[2 + 1] = 2 * PowerOfTwo[2] /\ PowerOfTwo[3 + 1] = 2 * PowerOfTwo[3]
      /\ PowerOfTwo[4 + 1] = 2 * PowerOfTwo[4] /\ PowerOfTwo[5 + 1] = 2 * PowerOfTwo[5]
  BY <1>1
<1>3. /\ PowerOfTwo[6 + 1] = 2 * PowerOfTwo[6] /\ PowerOfTwo[7 + 1] = 2 * PowerOfTwo[7]
      /\ PowerOfTwo[8 + 1] = 2 * PowerOfTwo[8] /\ PowerOfTwo[9 + 1] = 2 * PowerOfTwo[9]
      /\ PowerOfTwo[10 + 1] = 2 * PowerOfTwo[10] /\ PowerOfTwo[11 + 1] = 2 * PowerOfTwo[11]
  BY <1>1
<1>. QED
  BY <1>1, <1>2, <1>3

\* Fields of an instruction have these values.
IsField(x, v) ==
    /\ x = "op" => v \in Executed
    /\ x = "length" => v \in {2, 4}
    /\ x \in {"rd", "rn", "rm", "rt"} => v \in 0..15
    /\ x \in {"imm", "cond"} => v \in Nat
    /\ x = "offset" => v \in Int
    /\ x = "list" => v \in SUBSET (0..15)
    /\ x \in {"setflags", "wback"} => v \in BOOLEAN

FieldNames == {"op", "length", "rd", "rn", "rm", "rt", "imm", "offset", "cond", "list", "setflags", "wback"}

Fields(f) == \A x \in DOMAIN f : x \in FieldNames /\ IsField(x, f[x])

LEMMA FieldsTogether ==
    ASSUME NEW f, NEW g, Fields(f), Fields(g)
    PROVE  Fields(f ++ g)
BY DEF Fields, ++

LEMMA FieldValues ==
    /\ \A v \in Executed : IsField("op", v)
    /\ \A v \in {2, 4} : IsField("length", v)
    /\ \A v \in 0..15 : IsField("rd", v) /\ IsField("rn", v) /\ IsField("rm", v) /\ IsField("rt", v)
    /\ \A v \in Nat : IsField("imm", v) /\ IsField("cond", v)
    /\ \A v \in Int : IsField("offset", v)
    /\ \A v \in SUBSET (0..15) : IsField("list", v)
    /\ \A v \in BOOLEAN : IsField("setflags", v) /\ IsField("wback", v)
<1>1. \A v \in Executed : IsField("op", v)
  BY DEF IsField
<1>2. \A v \in {2, 4} : IsField("length", v)
  BY DEF IsField
<1>3. \A v \in 0..15 : IsField("rd", v) /\ IsField("rn", v) /\ IsField("rm", v) /\ IsField("rt", v)
  BY DEF IsField
<1>4. \A v \in Nat : IsField("imm", v) /\ IsField("cond", v)
  BY DEF IsField
<1>5. \A v \in Int : IsField("offset", v)
  BY DEF IsField
<1>6. \A v \in SUBSET (0..15) : IsField("list", v)
  BY DEF IsField
<1>7. \A v \in BOOLEAN : IsField("setflags", v) /\ IsField("wback", v)
  BY DEF IsField
<1>. QED
  BY <1>1, <1>2, <1>3, <1>4, <1>5, <1>6, <1>7, Zenon

LEMMA BlankTyped == Fields(Blank) /\ DOMAIN Blank = FieldNames
<1>1. DOMAIN Blank = FieldNames
  BY DEF Blank, FieldNames
<1>2. /\ Blank["op"] = "UNDEFINED" /\ Blank["length"] = 2 /\ Blank["rd"] = 0 /\ Blank["rn"] = 0
      /\ Blank["rm"] = 0 /\ Blank["rt"] = 0 /\ Blank["imm"] = 0 /\ Blank["offset"] = 0
      /\ Blank["cond"] = 14 /\ Blank["list"] = {} /\ Blank["setflags"] = FALSE /\ Blank["wback"] = FALSE
  BY DEF Blank
<1>3. /\ "UNDEFINED" \in Executed /\ {} \in SUBSET (0..15) /\ 2 \in {2, 4} /\ 0 \in 0..15 /\ 0 \in Nat
      /\ 0 \in Int /\ 14 \in Nat /\ FALSE \in BOOLEAN
  BY DEF Executed
<1>4. /\ IsField("op", "UNDEFINED") /\ IsField("length", 2) /\ IsField("rd", 0) /\ IsField("rn", 0)
      /\ IsField("rm", 0) /\ IsField("rt", 0) /\ IsField("imm", 0) /\ IsField("offset", 0)
      /\ IsField("cond", 14) /\ IsField("list", {}) /\ IsField("setflags", FALSE) /\ IsField("wback", FALSE)
  BY <1>3, FieldValues, Zenon
<1>5. \A x \in FieldNames : IsField(x, Blank[x])
  BY <1>2, <1>4, Zenon DEF FieldNames
<1>. QED
  BY <1>1, <1>5 DEF Fields

LEMMA InstrFields ==
    ASSUME NEW d, d = [x \in FieldNames |-> d[x]], \A x \in FieldNames : IsField(x, d[x])
    PROVE  d \in Instrs
<1>1. d = [op |-> d.op, length |-> d.length, rd |-> d.rd, rn |-> d.rn, rm |-> d.rm, rt |-> d.rt, imm |-> d.imm,
           offset |-> d.offset, cond |-> d.cond, list |-> d.list, setflags |-> d.setflags, wback |-> d.wback]
  BY DEF FieldNames
<1>2. /\ d.op \in Executed /\ d.length \in {2, 4} /\ d.rd \in 0..15 /\ d.rn \in 0..15 /\ d.rm \in 0..15
      /\ d.rt \in 0..15 /\ d.imm \in Nat /\ d.offset \in Int /\ d.cond \in Nat
      /\ d.list \in SUBSET (0..15) /\ d.setflags \in BOOLEAN /\ d.wback \in BOOLEAN
  BY DEF FieldNames, IsField
<1>. QED
  BY <1>1, <1>2 DEF Instrs

LEMMA FieldsOfInstr ==
    ASSUME NEW d \in Instrs
    PROVE  d = [x \in FieldNames |-> d[x]] /\ \A x \in FieldNames : IsField(x, d[x])
<1>1. d = [x \in FieldNames |-> d[x]]
  BY DEF Instrs, FieldNames
<1>2. /\ d.op \in Executed /\ d.length \in {2, 4} /\ d.rd \in 0..15 /\ d.rn \in 0..15 /\ d.rm \in 0..15
      /\ d.rt \in 0..15 /\ d.imm \in Nat /\ d.offset \in Int /\ d.cond \in Nat
      /\ d.list \in SUBSET (0..15) /\ d.setflags \in BOOLEAN /\ d.wback \in BOOLEAN
  BY DEF Instrs
<1>3. /\ IsField("op", d["op"]) /\ IsField("length", d["length"]) /\ IsField("rd", d["rd"])
      /\ IsField("rn", d["rn"]) /\ IsField("rm", d["rm"]) /\ IsField("rt", d["rt"])
      /\ IsField("imm", d["imm"]) /\ IsField("offset", d["offset"]) /\ IsField("cond", d["cond"])
      /\ IsField("list", d["list"]) /\ IsField("setflags", d["setflags"]) /\ IsField("wback", d["wback"])
  BY <1>2, FieldValues
<1>4. \A x \in FieldNames : IsField(x, d[x])
  BY <1>3, Zenon DEF FieldNames
<1>. QED
  BY <1>1, <1>4

LEMMA FieldSet ==
    ASSUME NEW d, d = [x \in FieldNames |-> d[x]], \A x \in FieldNames : IsField(x, d[x]),
           NEW name \in FieldNames, NEW v, IsField(name, v)
    PROVE  [d EXCEPT ![name] = v] \in Instrs
<1>. DEFINE e == [d EXCEPT ![name] = v]
<1>1. e = [x \in FieldNames |-> e[x]] /\ \A x \in FieldNames : e[x] = IF x = name THEN v ELSE d[x]
  OBVIOUS
<1>. HIDE DEF e
<1>2. \A x \in FieldNames : IsField(x, e[x])
  BY <1>1
<1>3. e \in Instrs
  BY <1>1, <1>2, InstrFields
<1>. QED
  BY <1>3 DEF e

LEMMA InstrOf ==
    ASSUME NEW f, Fields(f), NEW op \in Executed
    PROVE  Instr(op, f) \in Instrs
<1>. DEFINE g == f ++ Blank
<1>1. Fields(g)
  BY FieldsTogether, BlankTyped
<1>2. g = [x \in FieldNames |-> g[x]]
  <2>1. DOMAIN f \cup DOMAIN Blank = FieldNames
    BY BlankTyped DEF Fields
  <2>. QED
    BY <2>1 DEF ++
<1>. HIDE DEF g
<1>3. \A x \in FieldNames : IsField(x, g[x])
  BY <1>1, <1>2 DEF Fields
<1>4. "op" \in FieldNames /\ IsField("op", op)
  BY FieldValues DEF FieldNames
<1>5. [g EXCEPT !["op"] = op] \in Instrs
  BY <1>2, <1>3, <1>4, FieldSet
<1>. QED
  BY <1>5 DEF Instr, g

LEMMA BlankWith ==
    /\ \A n \in {2, 4} : Undefined(n) \in Instrs
    /\ \A op \in Executed : [Blank EXCEPT !.op = op] \in Instrs
<1>1. Blank = [x \in FieldNames |-> Blank[x]] /\ \A x \in FieldNames : IsField(x, Blank[x])
  <2>1. Blank = [x \in DOMAIN Blank |-> Blank[x]]
    BY DEF Blank
  <2>. QED
    BY <2>1, BlankTyped DEF Fields
<1>. USE DEF FieldNames
<1>2. ASSUME NEW n \in {2, 4}
      PROVE  Undefined(n) \in Instrs
  <2>1. "length" \in FieldNames /\ IsField("length", n)
    BY FieldValues
  <2>2. [Blank EXCEPT !["length"] = n] \in Instrs
    <3>. HIDE DEF FieldNames
    <3>. QED
      BY <1>1, <2>1, FieldSet
  <2>. QED
    BY <2>2 DEF Undefined
<1>3. ASSUME NEW op \in Executed
      PROVE  [Blank EXCEPT !.op = op] \in Instrs
  <2>1. "op" \in FieldNames /\ IsField("op", op)
    BY FieldValues
  <2>2. [Blank EXCEPT !["op"] = op] \in Instrs
    <3>. HIDE DEF FieldNames
    <3>. QED
      BY <1>1, <2>1, FieldSet
  <2>. QED
    BY <2>2
<1>. QED
  BY <1>2, <1>3

LEMMA SettingFlags ==
    ASSUME NEW d \in Instrs
    PROVE  [d EXCEPT !.setflags = TRUE] \in Instrs
<1>1. d = [x \in FieldNames |-> d[x]] /\ \A x \in FieldNames : IsField(x, d[x])
  BY FieldsOfInstr
<1>2. "setflags" \in FieldNames /\ IsField("setflags", TRUE)
  BY FieldValues DEF FieldNames
<1>3. [d EXCEPT !["setflags"] = TRUE] \in Instrs
  BY <1>1, <1>2, FieldSet
<1>. QED
  BY <1>3

\* The groups of fields that the decoder fills
LEMMA FieldGroups ==
    /\ \A i \in Nat : Fields([imm |-> i])
    /\ \A f \in BOOLEAN : Fields([setflags |-> f])
    /\ \A l \in SUBSET (0..15) : Fields([list |-> l])
    /\ \A o \in Int : Fields([offset |-> o])
    /\ \A a \in 0..15 : Fields([rd |-> a]) /\ Fields([rn |-> a]) /\ Fields([rm |-> a])
    /\ \A a \in 0..15, b \in 0..15 :
        /\ Fields([rd |-> a, rn |-> b]) /\ Fields([rd |-> a, rm |-> b]) /\ Fields([rn |-> a, rm |-> b])
        /\ Fields([rn |-> a, rt |-> b])
    /\ \A a \in 0..15, f \in BOOLEAN : Fields([rn |-> a, setflags |-> f])
    /\ \A i \in Nat, o \in Int : Fields([cond |-> i, offset |-> o])
    /\ \A n \in {2, 4}, o \in Int : Fields([length |-> n, offset |-> o])
    /\ \A n \in {2, 4}, i \in Nat : Fields([length |-> n, imm |-> i])
    /\ \A a \in 0..15, b \in 0..15, c \in 0..15 : Fields([rd |-> a, rn |-> b, rm |-> c])
    /\ \A a \in 0..15, b \in 0..15, i \in Nat :
        /\ Fields([rd |-> a, rm |-> b, imm |-> i]) /\ Fields([rd |-> a, rn |-> b, imm |-> i])
        /\ Fields([rt |-> a, rn |-> b, imm |-> i])
    /\ \A a \in 0..15, l \in SUBSET (0..15), f \in BOOLEAN : Fields([rn |-> a, list |-> l, wback |-> f])
<1>1. \A i \in Nat : Fields([imm |-> i])
  BY FieldValues DEF Fields, FieldNames
<1>2. \A f \in BOOLEAN : Fields([setflags |-> f])
  BY FieldValues DEF Fields, FieldNames
<1>3. \A l \in SUBSET (0..15) : Fields([list |-> l])
  BY FieldValues DEF Fields, FieldNames
<1>4. \A o \in Int : Fields([offset |-> o])
  BY FieldValues DEF Fields, FieldNames
<1>5. \A a \in 0..15 : Fields([rd |-> a]) /\ Fields([rn |-> a]) /\ Fields([rm |-> a])
  BY FieldValues DEF Fields, FieldNames
<1>6. \A a \in 0..15, b \in 0..15 :
        /\ Fields([rd |-> a, rn |-> b]) /\ Fields([rd |-> a, rm |-> b]) /\ Fields([rn |-> a, rm |-> b])
        /\ Fields([rn |-> a, rt |-> b])
  BY FieldValues DEF Fields, FieldNames
<1>7. \A a \in 0..15, f \in BOOLEAN : Fields([rn |-> a, setflags |-> f])
  BY FieldValues DEF Fields, FieldNames
<1>8. \A i \in Nat, o \in Int : Fields([cond |-> i, offset |-> o])
  BY FieldValues DEF Fields, FieldNames
<1>9. \A n \in {2, 4}, o \in Int : Fields([length |-> n, offset |-> o])
  BY FieldValues DEF Fields, FieldNames
<1>10. \A n \in {2, 4}, i \in Nat : Fields([length |-> n, imm |-> i])
  BY FieldValues DEF Fields, FieldNames
<1>11. \A a \in 0..15, b \in 0..15, c \in 0..15 : Fields([rd |-> a, rn |-> b, rm |-> c])
  BY FieldValues DEF Fields, FieldNames
<1>12. \A a \in 0..15, b \in 0..15, i \in Nat :
        /\ Fields([rd |-> a, rm |-> b, imm |-> i]) /\ Fields([rd |-> a, rn |-> b, imm |-> i])
        /\ Fields([rt |-> a, rn |-> b, imm |-> i])
  BY FieldValues DEF Fields, FieldNames
<1>13. \A a \in 0..15, l \in SUBSET (0..15), f \in BOOLEAN : Fields([rn |-> a, list |-> l, wback |-> f])
  BY FieldValues DEF Fields, FieldNames
<1>. QED
  BY <1>1, <1>2, <1>3, <1>4, <1>5, <1>6, <1>7, <1>8, <1>9, <1>10, <1>11, <1>12, <1>13, Zenon

LEMMA BitsTyped ==
    ASSUME NEW v \in Nat
    PROVE  /\ \A hi \in Nat, lo \in Nat : lo <= hi => Bits(v, hi, lo) \in Nat
           /\ \A n \in Nat : BitOf(v, n) \in {0, 1}
           /\ Bits(v, 2, 0) \in 0..7 /\ Bits(v, 5, 3) \in 0..7 /\ Bits(v, 8, 6) \in 0..7 /\ Bits(v, 10, 8) \in 0..7
           /\ Bits(v, 6, 3) \in 0..15 /\ Bits(v, 3, 0) \in 0..15 /\ Bits(v, 11, 8) \in 0..15
           /\ Bits(v, 9, 6) \in 0..15 /\ Bits(v, 7, 4) \in 0..15
           /\ Bits(v, 9, 8) \in 0..3 /\ Bits(v, 7, 6) \in 0..3 /\ Bits(v, 11, 9) \in 0..7
           /\ Bits(v, 12, 11) \in 0..3 /\ Bits(v, 10, 9) \in 0..3
<1>1. ASSUME NEW n \in Nat
      PROVE  PowerOfTwo[n] \in Nat \ {0} /\ v \div PowerOfTwo[n] \in Nat
  <2>1. PowerOfTwo[n] \in Nat \ {0}
    BY PowersOfTwo
  <2>. QED
    BY <2>1, QuotientBelow
<1>2. \A hi \in Nat, lo \in Nat : lo <= hi => Bits(v, hi, lo) \in Nat
  <2>. SUFFICES ASSUME NEW hi \in Nat, NEW lo \in Nat, lo <= hi
                PROVE  Bits(v, hi, lo) \in Nat
    OBVIOUS
  <2>. DEFINE x == v \div PowerOfTwo[lo]
              y == PowerOfTwo[hi - lo + 1]
  <2>1. x \in Nat /\ y \in Nat \ {0}
    <3>1. hi - lo + 1 \in Nat
      OBVIOUS
    <3>. QED
      BY <1>1, <3>1
  <2>2. Bits(v, hi, lo) = x % y
    BY DEF Bits
  <2>. HIDE DEF x, y
  <2>. QED
    BY <2>1, <2>2
<1>3. \A n \in Nat : BitOf(v, n) \in {0, 1}
  <2>. SUFFICES ASSUME NEW n \in Nat
                PROVE  BitOf(v, n) \in {0, 1}
    OBVIOUS
  <2>. DEFINE x == v \div PowerOfTwo[n]
  <2>1. x \in Nat
    BY <1>1
  <2>2. BitOf(v, n) = x % 2
    BY DEF BitOf
  <2>. HIDE DEF x
  <2>. QED
    BY <2>1, <2>2
<1>4. \A x \in Nat : x % 4 \in 0..3 /\ x % 8 \in 0..7 /\ x % 16 \in 0..15
  OBVIOUS
<1>5. /\ Bits(v, 2, 0) = (v \div PowerOfTwo[0]) % 8 /\ Bits(v, 5, 3) = (v \div PowerOfTwo[3]) % 8
      /\ Bits(v, 8, 6) = (v \div PowerOfTwo[6]) % 8 /\ Bits(v, 10, 8) = (v \div PowerOfTwo[8]) % 8
      /\ Bits(v, 11, 9) = (v \div PowerOfTwo[9]) % 8
  BY SmallPowers DEF Bits
<1>6. /\ Bits(v, 6, 3) = (v \div PowerOfTwo[3]) % 16 /\ Bits(v, 3, 0) = (v \div PowerOfTwo[0]) % 16
      /\ Bits(v, 11, 8) = (v \div PowerOfTwo[8]) % 16 /\ Bits(v, 9, 6) = (v \div PowerOfTwo[6]) % 16
      /\ Bits(v, 7, 4) = (v \div PowerOfTwo[4]) % 16
  BY SmallPowers DEF Bits
<1>7. /\ Bits(v, 9, 8) = (v \div PowerOfTwo[8]) % 4 /\ Bits(v, 7, 6) = (v \div PowerOfTwo[6]) % 4
      /\ Bits(v, 12, 11) = (v \div PowerOfTwo[11]) % 4 /\ Bits(v, 10, 9) = (v \div PowerOfTwo[9]) % 4
  BY SmallPowers DEF Bits
<1>8. /\ v \div PowerOfTwo[0] \in Nat /\ v \div PowerOfTwo[3] \in Nat /\ v \div PowerOfTwo[6] \in Nat
      /\ v \div PowerOfTwo[8] \in Nat /\ v \div PowerOfTwo[9] \in Nat /\ v \div PowerOfTwo[4] \in Nat
      /\ v \div PowerOfTwo[11] \in Nat
  BY <1>1
<1>9. /\ Bits(v, 2, 0) \in 0..7 /\ Bits(v, 5, 3) \in 0..7 /\ Bits(v, 8, 6) \in 0..7 /\ Bits(v, 10, 8) \in 0..7
      /\ Bits(v, 6, 3) \in 0..15 /\ Bits(v, 3, 0) \in 0..15 /\ Bits(v, 11, 8) \in 0..15
      /\ Bits(v, 9, 6) \in 0..15 /\ Bits(v, 7, 4) \in 0..15
      /\ Bits(v, 9, 8) \in 0..3 /\ Bits(v, 7, 6) \in 0..3 /\ Bits(v, 11, 9) \in 0..7
      /\ Bits(v, 12, 11) \in 0..3 /\ Bits(v, 10, 9) \in 0..3
  BY <1>4, <1>5, <1>6, <1>7, <1>8, Zenon
<1>. QED
  BY <1>2, <1>3, <1>9

LEMMA SignExtendTyped ==
    ASSUME NEW v \in Nat, NEW width \in Nat \ {0}
    PROVE  SignExtend(v, width) \in Int
<1>. DEFINE p == PowerOfTwo[width]
            q == PowerOfTwo[width - 1]
<1>1. p \in Nat \ {0} /\ q \in Nat
  BY PowersOfTwo
<1>. HIDE DEF p, q
<1>2. v % p \in Int
  BY <1>1
<1>3. SignExtend(v, width) = IF v % p >= q THEN (v % p) - p ELSE v % p
  BY DEF SignExtend, p, q
<1>. QED
  BY <1>1, <1>2, <1>3

LEMMA RegisterListTyped ==
    ASSUME NEW v
    PROVE  RegisterList(v) \in SUBSET (0..15)
BY DEF RegisterList

\* The registers and immediates there are in an instruction
LEMMA Operands ==
    ASSUME NEW v \in Nat
    PROVE  /\ Bits(v, 2, 0) \in 0..15 /\ Bits(v, 5, 3) \in 0..15 /\ Bits(v, 8, 6) \in 0..15
           /\ Bits(v, 10, 8) \in 0..15 /\ Bits(v, 6, 3) \in 0..15 /\ Bits(v, 3, 0) \in 0..15
           /\ Bits(v, 11, 8) \in 0..15 /\ 8 * BitOf(v, 7) + Bits(v, 2, 0) \in 0..15
           /\ Bits(v, 8, 6) \in Nat /\ Bits(v, 10, 6) \in Nat /\ Bits(v, 7, 0) \in Nat
           /\ Bits(v, 6, 0) \in Nat /\ Bits(v, 10, 0) \in Nat /\ Bits(v, 9, 0) \in Nat
           /\ Bits(v, 3, 0) \in Nat /\ Bits(v, 11, 8) \in Nat
<1>1. /\ Bits(v, 2, 0) \in 0..7 /\ Bits(v, 5, 3) \in 0..7 /\ Bits(v, 8, 6) \in 0..7 /\ Bits(v, 10, 8) \in 0..7
      /\ Bits(v, 6, 3) \in 0..15 /\ Bits(v, 3, 0) \in 0..15 /\ Bits(v, 11, 8) \in 0..15
      /\ BitOf(v, 7) \in {0, 1}
  BY BitsTyped
<1>2. \A hi \in Nat, lo \in Nat : lo <= hi => Bits(v, hi, lo) \in Nat
  BY BitsTyped
<1>3. /\ Bits(v, 10, 6) \in Nat /\ Bits(v, 7, 0) \in Nat /\ Bits(v, 6, 0) \in Nat
      /\ Bits(v, 10, 0) \in Nat /\ Bits(v, 9, 0) \in Nat
  BY <1>2
<1>4. 8 * BitOf(v, 7) + Bits(v, 2, 0) \in 0..15
  BY <1>1
<1>. QED
  BY <1>1, <1>3, <1>4

LEMMA MovesTyped ==
    ASSUME NEW hw \in Nat
    PROVE  /\ Bits(hw, 15, 11) < 3 => MoveShifted(hw) \in Instrs
           /\ AddSubtract(hw) \in Instrs
           /\ MoveByte(hw) \in Instrs
<1>. DEFINE a == Bits(hw, 2, 0)
            b == Bits(hw, 5, 3)
            imm5 == Bits(hw, 10, 6)
            third == Bits(hw, 8, 6)
            r == Bits(hw, 10, 8)
            byte == Bits(hw, 7, 0)
            kind == Bits(hw, 12, 11)
            form == Bits(hw, 10, 9)
<1>1. /\ a \in 0..15 /\ b \in 0..15 /\ imm5 \in Nat /\ third \in 0..15 /\ third \in Nat /\ r \in 0..15
      /\ byte \in Nat
  BY Operands
<1>2. kind \in 0..3 /\ form \in 0..3
  BY BitsTyped
<1>3. ASSUME Bits(hw, 15, 11) < 3
      PROVE  MoveShifted(hw) \in Instrs
  <2>. DEFINE x == hw \div PowerOfTwo[11]
  <2>1. Bits(hw, 15, 11) = x % 32 /\ kind = x % 4
    BY SmallPowers DEF Bits
  <2>2. x \in Nat
    BY SmallPowers, QuotientBelow
  <2>. HIDE DEF x, kind
  <2>3. kind \in 0..2
    BY <1>3, <2>1, <2>2
  <2>4. (IF kind = 0 /\ imm5 = 0 THEN "MOV_reg" ELSE ImmediateShifts[kind + 1]) \in Executed
    <3>1. \A k \in 1..3 : ImmediateShifts[k] \in {"LSL_imm", "LSR_imm", "ASR_imm"}
      BY DEF ImmediateShifts
    <3>2. kind + 1 \in 1..3
      BY <2>3
    <3>. QED
      BY <3>1, <3>2 DEF Executed, Moves, ShiftType
  <2>5. Fields([rd |-> a, rm |-> b, imm |-> imm5])
    BY <1>1, FieldGroups, Zenon
  <2>. QED
    BY <2>4, <2>5, InstrOf, Zenon DEF MoveShifted, kind
<1>4. AddSubtract(hw) \in Instrs
  <2>1. ThreeOperands[form + 1] \in Executed
    <3>1. \A k \in 1..4 : ThreeOperands[k] \in {"ADD_reg", "SUB_reg", "ADD_imm3", "SUB_imm3"}
      BY DEF ThreeOperands
    <3>. HIDE DEF form
    <3>2. form + 1 \in 1..4
      BY <1>2
    <3>. QED
      BY <3>1, <3>2 DEF Executed, Adders
  <2>. DEFINE last == IF form < 2 THEN [rm |-> third] ELSE [imm |-> third]
  <2>2. Fields([rd |-> a, rn |-> b]) /\ Fields([rm |-> third]) /\ Fields([imm |-> third])
    BY <1>1, FieldGroups, Zenon
  <2>3. Fields(last)
    BY <2>2
  <2>4. Fields([rd |-> a, rn |-> b] ++ last)
    BY <2>2, <2>3, FieldsTogether, Zenon
  <2>. QED
    BY <2>1, <2>4, InstrOf, Zenon DEF AddSubtract
<1>5. MoveByte(hw) \in Instrs
  <2>1. ByteOperand[kind + 1] \in Executed
    <3>1. \A k \in 1..4 : ByteOperand[k] \in {"MOV_imm", "CMP_imm", "ADD_imm8", "SUB_imm8"}
      BY DEF ByteOperand
    <3>. HIDE DEF kind
    <3>2. kind + 1 \in 1..4
      BY <1>2
    <3>. QED
      BY <3>1, <3>2 DEF Executed, Adders, Moves, Compares
  <2>. DEFINE last == IF kind = 0 THEN [rd |-> r] ELSE IF kind = 1 THEN [rn |-> r] ELSE [rd |-> r, rn |-> r]
  <2>2. Fields([imm |-> byte]) /\ Fields([rd |-> r]) /\ Fields([rn |-> r]) /\ Fields([rd |-> r, rn |-> r])
    BY <1>1, FieldGroups, Zenon
  <2>3. Fields(last)
    BY <2>2
  <2>4. Fields([imm |-> byte] ++ last)
    BY <2>2, <2>3, FieldsTogether, Zenon
  <2>. QED
    BY <2>1, <2>4, InstrOf, Zenon DEF MoveByte
<1>. QED
  BY <1>3, <1>4, <1>5

LEMMA ShiftAddMoveTyped ==
    ASSUME NEW hw \in Nat
    PROVE  ShiftAddMove(hw) \in Instrs
<1>. DEFINE decoded == CASE Bits(hw, 15, 11) < 3 -> MoveShifted(hw)
                         [] Bits(hw, 15, 11) = 3 -> AddSubtract(hw)
                         [] OTHER -> MoveByte(hw)
<1>1. decoded \in Instrs
  BY MovesTyped
<1>. QED
  BY <1>1, SettingFlags DEF ShiftAddMove

LEMMA DataProcessingTyped ==
    ASSUME NEW hw \in Nat
    PROVE  DataProcessing(hw) \in Instrs
<1>. DEFINE n == Bits(hw, 9, 6)
            op == DataOps[n + 1]
            rdn == Bits(hw, 2, 0)
            rm == Bits(hw, 5, 3)
            registers ==
                CASE op \in {"TST_reg", "CMP_reg", "CMN_reg"} -> [rn |-> rdn, rm |-> rm]
                  [] op = "RSB_imm" -> [rd |-> rdn, rn |-> rm]
                  [] op = "MUL" -> [rd |-> rdn, rn |-> rm, rm |-> rdn]
                  [] OTHER -> [rd |-> rdn, rn |-> rdn, rm |-> rm]
<1>1. rdn \in 0..15 /\ rm \in 0..15 /\ n \in 0..15
  BY Operands, BitsTyped
<1>2. op \in Executed
  <2>1. \A k \in 1..16 : DataOps[k] \in Executed
    BY DEF DataOps, Executed, Moves, Adders, Compares, ShiftType
  <2>. HIDE DEF n
  <2>2. n + 1 \in 1..16
    BY <1>1
  <2>. QED
    BY <2>1, <2>2
<1>3. /\ Fields([rn |-> rdn, rm |-> rm]) /\ Fields([rd |-> rdn, rn |-> rm])
      /\ Fields([rd |-> rdn, rn |-> rm, rm |-> rdn]) /\ Fields([rd |-> rdn, rn |-> rdn, rm |-> rm])
      /\ Fields([setflags |-> TRUE])
  <2>1. TRUE \in BOOLEAN
    OBVIOUS
  <2>. QED
    BY <1>1, <2>1, FieldGroups, Zenon
<1>4. Fields(registers)
  <2>. HIDE DEF op
  <2>. QED
    BY <1>3
<1>5. Fields(registers ++ [setflags |-> TRUE])
  <2>. HIDE DEF registers
  <2>. QED
    BY <1>3, <1>4, FieldsTogether, Zenon
<1>6. Instr(op, registers ++ [setflags |-> TRUE]) \in Instrs
  <2>. HIDE DEF registers, op
  <2>. QED
    BY <1>2, <1>5, InstrOf, Zenon
<1>. QED
  BY <1>6, Zenon DEF DataProcessing

LEMMA SpecialDataTyped ==
    ASSUME NEW hw \in Nat
    PROVE  SpecialData(hw) \in Instrs
<1>. DEFINE rdn == 8 * BitOf(hw, 7) + Bits(hw, 2, 0)
            rm == [rm |-> Bits(hw, 6, 3)]
            x == [rd |-> rdn, rn |-> rdn]
            y == [rn |-> rdn, setflags |-> TRUE]
            z == [rd |-> rdn]
            op == IF BitOf(hw, 7) = 1 THEN "BLX_reg" ELSE "BX"
<1>1. rdn \in 0..15 /\ Bits(hw, 6, 3) \in 0..15 /\ TRUE \in BOOLEAN
  BY Operands
<1>2. Fields(rm) /\ Fields(x) /\ Fields(y) /\ Fields(z)
  <2>. HIDE DEF rdn
  <2>. QED
    BY <1>1, FieldGroups, Zenon
<1>3. /\ "ADD_reg_hi" \in Executed /\ "CMP_reg_hi" \in Executed /\ "MOV_reg_hi" \in Executed /\ op \in Executed
  BY DEF Executed, Moves, Adders, Compares
<1>. HIDE DEF rm, x, y, z
<1>4. Fields(rm ++ x) /\ Fields(rm ++ y) /\ Fields(rm ++ z)
  BY <1>2, FieldsTogether, Zenon
<1>. HIDE DEF op
<1>5. /\ Instr("ADD_reg_hi", rm ++ x) \in Instrs /\ Instr("CMP_reg_hi", rm ++ y) \in Instrs
      /\ Instr("MOV_reg_hi", rm ++ z) \in Instrs /\ Instr(op, rm) \in Instrs
  BY <1>2, <1>3, <1>4, InstrOf, Zenon
<1>6. Undefined(2) \in Instrs
  BY BlankWith
<1>7. SpecialData(hw) =
        CASE Bits(hw, 9, 8) = 0 -> Instr("ADD_reg_hi", rm ++ x)
          [] Bits(hw, 9, 8) = 1 -> Instr("CMP_reg_hi", rm ++ y)
          [] Bits(hw, 9, 8) = 2 -> Instr("MOV_reg_hi", rm ++ z)
          [] Bits(hw, 9, 8) = 3 /\ Bits(hw, 2, 0) # 0 -> Undefined(2)
          [] OTHER -> Instr(op, rm)
  BY Zenon DEF SpecialData, rm, x, y, z, op
<1>. QED
  BY <1>5, <1>6, <1>7

LEMMA LoadStoreTyped ==
    ASSUME NEW hw \in Nat
    PROVE  LoadStoreSingle(hw) \in Instrs
<1>. DEFINE load == BitOf(hw, 11) = 1
            imm5 == Bits(hw, 10, 6)
            base == [rn |-> Bits(hw, 5, 3), rt |-> Bits(hw, 2, 0)]
            Of(forLoad, forStore) == IF load THEN forLoad ELSE forStore
            n == Bits(hw, 11, 9)
            m == [rm |-> Bits(hw, 8, 6)]
            x == [imm |-> 4 * imm5]
            y == [imm |-> imm5]
            z == [imm |-> 2 * imm5]
            r == [rt |-> Bits(hw, 10, 8), rn |-> 13, imm |-> 4 * Bits(hw, 7, 0)]
<1>1. /\ Bits(hw, 5, 3) \in 0..15 /\ Bits(hw, 2, 0) \in 0..15 /\ Bits(hw, 8, 6) \in 0..15
      /\ Bits(hw, 10, 8) \in 0..15 /\ imm5 \in Nat /\ Bits(hw, 7, 0) \in Nat
  BY Operands
<1>2. 4 * imm5 \in Nat /\ 2 * imm5 \in Nat /\ 4 * Bits(hw, 7, 0) \in Nat /\ 13 \in 0..15
  BY <1>1
<1>3. Fields(base) /\ Fields(m) /\ Fields(x) /\ Fields(y) /\ Fields(z) /\ Fields(r)
  BY <1>1, <1>2, FieldGroups, Zenon
<1>. HIDE DEF base, m, x, y, z, r
<1>4. Fields(base ++ m) /\ Fields(base ++ x) /\ Fields(base ++ y) /\ Fields(base ++ z)
  BY <1>3, FieldsTogether, Zenon
<1>5. RegisterOffset[n + 1] \in Executed
  <2>1. \A k \in 1..8 : RegisterOffset[k] \in {"STR_reg", "STRH_reg", "STRB_reg", "LDRSB_reg",
                    "LDR_reg", "LDRH_reg", "LDRB_reg", "LDRSH_reg"}
    BY DEF RegisterOffset
  <2>2. n + 1 \in 1..8
    <3>1. n \in 0..7
      BY BitsTyped
    <3>. HIDE DEF n
    <3>. QED
      BY <3>1
  <2>3. \A o \in {"STR_reg", "STRH_reg", "STRB_reg", "LDRSB_reg",
                    "LDR_reg", "LDRH_reg", "LDRB_reg", "LDRSH_reg"} : o \in Executed
    BY DEF Executed, Loads, Stores
  <2>. HIDE DEF n
  <2>. QED
    BY <2>1, <2>2, <2>3
<1>6. /\ Of("LDR_imm", "STR_imm") \in Executed /\ Of("LDRB_imm", "STRB_imm") \in Executed
      /\ Of("LDRH_imm", "STRH_imm") \in Executed /\ Of("LDR_imm_sp", "STR_imm_sp") \in Executed
  <2>. HIDE DEF load
  <2>. QED
    BY DEF Executed, Loads, Stores
<1>. HIDE DEF Of, n
<1>7. /\ Instr(RegisterOffset[n + 1], base ++ m) \in Instrs
      /\ Instr(Of("LDR_imm", "STR_imm"), base ++ x) \in Instrs
      /\ Instr(Of("LDRB_imm", "STRB_imm"), base ++ y) \in Instrs
      /\ Instr(Of("LDRH_imm", "STRH_imm"), base ++ z) \in Instrs
      /\ Instr(Of("LDR_imm_sp", "STR_imm_sp"), r) \in Instrs
  BY <1>3, <1>4, <1>5, <1>6, InstrOf, Zenon
<1>8. LoadStoreSingle(hw) =
        CASE Bits(hw, 15, 12) = 5 -> Instr(RegisterOffset[n + 1], base ++ m)
          [] Bits(hw, 15, 12) = 6 -> Instr(Of("LDR_imm", "STR_imm"), base ++ x)
          [] Bits(hw, 15, 12) = 7 -> Instr(Of("LDRB_imm", "STRB_imm"), base ++ y)
          [] Bits(hw, 15, 12) = 8 -> Instr(Of("LDRH_imm", "STRH_imm"), base ++ z)
          [] OTHER -> Instr(Of("LDR_imm_sp", "STR_imm_sp"), r)
  BY Zenon DEF LoadStoreSingle, Of, n, base, m, x, y, z, r
<1>. QED
  BY <1>7, <1>8
LEMMA ListsTyped ==
    ASSUME NEW hw \in Nat
    PROVE  /\ Multiple(hw) \in Instrs
           /\ \A extra \in 0..15 : RegisterList(hw) \cup (IF BitOf(hw, 8) = 1 THEN {extra} ELSE {}) \in SUBSET (0..15)
<1>. DEFINE rn == Bits(hw, 10, 8)
            list == RegisterList(hw)
            load == BitOf(hw, 11) = 1
            back == ~load \/ rn \notin list
            op == IF load THEN "LDM" ELSE "STM"
<1>1. rn \in 0..15 /\ list \in SUBSET (0..15) /\ back \in BOOLEAN
  BY Operands, RegisterListTyped
<1>2. op \in Executed
  BY DEF Executed
<1>. HIDE DEF rn, list, back, op
<1>3. Fields([rn |-> rn, list |-> list, wback |-> back])
  BY <1>1, FieldGroups, Zenon
<1>4. Instr(op, [rn |-> rn, list |-> list, wback |-> back]) \in Instrs
  BY <1>2, <1>3, InstrOf, Zenon
<1>5. Multiple(hw) \in Instrs
  BY <1>4, Zenon DEF Multiple, rn, list, back, op
<1>. QED
  BY <1>1, <1>5 DEF list

LEMMA BranchesTyped ==
    ASSUME NEW hw \in Nat
    PROVE  /\ CondBranch(hw) \in Instrs
           /\ Address(hw) \in Instrs
           /\ Instr("B", [offset |-> SignExtend(2 * Bits(hw, 10, 0), 12)]) \in Instrs
           /\ Instr("LDR_lit", [rt |-> Bits(hw, 10, 8), rn |-> 15, imm |-> 4 * Bits(hw, 7, 0)]) \in Instrs
<1>. DEFINE cond == Bits(hw, 11, 8)
            byte == Bits(hw, 7, 0)
            near == SignExtend(2 * byte, 9)
            far == SignExtend(2 * Bits(hw, 10, 0), 12)
            imm == 4 * byte
            r == Bits(hw, 10, 8)
            pointer == BitOf(hw, 11) = 1
            rn == IF pointer THEN 13 ELSE 15
            op == IF pointer THEN "ADD_SP_imm" ELSE "ADR"
<1>1. cond \in Nat /\ byte \in Nat /\ Bits(hw, 10, 0) \in Nat /\ r \in 0..15
  BY Operands
<1>. HIDE DEF byte
<1>2. near \in Int /\ far \in Int
  <2>1. 2 * byte \in Nat /\ 2 * Bits(hw, 10, 0) \in Nat /\ 9 \in Nat \ {0} /\ 12 \in Nat \ {0}
    BY <1>1
  <2>. QED
    BY <2>1, SignExtendTyped, Zenon
<1>3. imm \in Nat /\ rn \in 0..15 /\ 15 \in 0..15
  BY <1>1
<1>4. /\ op \in Executed /\ "UDF" \in Executed /\ "SVC" \in Executed /\ "B_cond" \in Executed
      /\ "B" \in Executed /\ "LDR_lit" \in Executed
  BY DEF Executed, Moves, Loads
<1>. HIDE DEF cond, near, far, imm, r, rn, op
<1>5. /\ Fields([imm |-> byte]) /\ Fields([cond |-> cond, offset |-> near]) /\ Fields([offset |-> far])
      /\ Fields([rd |-> r, rn |-> rn, imm |-> imm]) /\ Fields([rt |-> r, rn |-> 15, imm |-> imm])
  BY <1>1, <1>2, <1>3, FieldGroups, Zenon
<1>6. /\ Instr("UDF", [imm |-> byte]) \in Instrs /\ Instr("SVC", [imm |-> byte]) \in Instrs
      /\ Instr("B_cond", [cond |-> cond, offset |-> near]) \in Instrs
      /\ Instr("B", [offset |-> far]) \in Instrs
      /\ Instr(op, [rd |-> r, rn |-> rn, imm |-> imm]) \in Instrs
      /\ Instr("LDR_lit", [rt |-> r, rn |-> 15, imm |-> imm]) \in Instrs
  BY <1>4, <1>5, InstrOf, Zenon
<1>7. CondBranch(hw) =
        CASE cond = 14 -> Instr("UDF", [imm |-> byte])
          [] cond = 15 -> Instr("SVC", [imm |-> byte])
          [] OTHER -> Instr("B_cond", [cond |-> cond, offset |-> near])
  BY Zenon DEF CondBranch, cond, byte, near
<1>8. Address(hw) = Instr(op, [rd |-> r, rn |-> rn, imm |-> imm])
  BY Zenon DEF Address, op, r, rn, imm, byte
<1>9. CondBranch(hw) \in Instrs
  BY <1>6, <1>7
<1>. QED
  BY <1>6, <1>8, <1>9, Zenon DEF far, r, imm, byte

LEMMA Misc16Typed ==
    ASSUME NEW hw \in Nat
    PROVE  Misc16(hw) \in Instrs
<1>. DEFINE row == Bits(hw, 11, 8)
            n == Bits(hw, 7, 6)
            two == [rd |-> Bits(hw, 2, 0), rm |-> Bits(hw, 5, 3)]
            push == RegisterList(hw) \cup (IF BitOf(hw, 8) = 1 THEN {14} ELSE {})
            pop == RegisterList(hw) \cup (IF BitOf(hw, 8) = 1 THEN {15} ELSE {})
            hint == Bits(hw, 7, 4)
            pointer == [rd |-> 13, rn |-> 13, imm |-> 4 * Bits(hw, 6, 0)]
            adjust == IF BitOf(hw, 7) = 0 THEN "ADD_SP_sp_imm" ELSE "SUB_SP_imm"
            hinted == IF hint <= 4 THEN Hints[hint + 1] ELSE "NOP"
            mask == [imm |-> BitOf(hw, 4)]
            byte == [imm |-> Bits(hw, 7, 0)]
<1>1. /\ Bits(hw, 2, 0) \in 0..15 /\ Bits(hw, 5, 3) \in 0..15 /\ Bits(hw, 6, 0) \in Nat
      /\ Bits(hw, 7, 0) \in Nat
  BY Operands
<1>2. n \in 0..3 /\ hint \in 0..15 /\ BitOf(hw, 4) \in Nat
  <2>1. n \in 0..3 /\ hint \in 0..15 /\ BitOf(hw, 4) \in {0, 1}
    BY BitsTyped
  <2>. QED
    BY <2>1
<1>3. push \in SUBSET (0..15) /\ pop \in SUBSET (0..15)
  <2>1. 14 \in 0..15 /\ 15 \in 0..15
    OBVIOUS
  <2>. QED
    BY <2>1, ListsTyped, Zenon
<1>4. 13 \in 0..15 /\ 4 * Bits(hw, 6, 0) \in Nat
  BY <1>1
<1>5. /\ Fields(two) /\ Fields([list |-> push]) /\ Fields([list |-> pop]) /\ Fields(pointer) /\ Fields(mask)
      /\ Fields(byte)
  <2>. HIDE DEF push, pop
  <2>. QED
    BY <1>1, <1>2, <1>3, <1>4, FieldGroups, Zenon
<1>. HIDE DEF two, pointer, mask, byte, push, pop
<1>6. Extends[n + 1] \in Executed /\ Reversals[n + 1] \in Executed
  <2>1. /\ \A k \in 1..4 : Extends[k] \in {"SXTH", "SXTB", "UXTH", "UXTB"}
        /\ \A k \in 1..4 : Reversals[k] \in {"REV", "REV16", "UNDEFINED", "REVSH"}
    BY DEF Extends, Reversals
  <2>. HIDE DEF n
  <2>2. n + 1 \in 1..4
    BY <1>2
  <2>. QED
    BY <2>1, <2>2 DEF Executed, Moves
<1>7. hinted \in Executed
  <2>1. \A k \in 1..5 : Hints[k] \in {"NOP", "YIELD", "WFE", "WFI", "SEV"}
    BY DEF Hints
  <2>. HIDE DEF hint
  <2>2. hint <= 4 => hint + 1 \in 1..5
    BY <1>2
  <2>. QED
    BY <2>1, <2>2 DEF Executed
<1>8. /\ adjust \in Executed /\ "PUSH" \in Executed /\ "POP" \in Executed /\ "CPS" \in Executed
      /\ "BKPT" \in Executed
  BY DEF Executed, Moves
<1>. HIDE DEF hinted, adjust
<1>9. /\ Instr(adjust, pointer) \in Instrs /\ Instr(Extends[n + 1], two) \in Instrs
      /\ Instr("PUSH", [list |-> push]) \in Instrs /\ Instr("CPS", mask) \in Instrs
      /\ Instr(Reversals[n + 1], two) \in Instrs /\ Instr("POP", [list |-> pop]) \in Instrs
      /\ Instr("BKPT", byte) \in Instrs
  BY <1>5, <1>6, <1>7, <1>8, InstrOf, Zenon
<1>10. [Blank EXCEPT !.op = hinted] \in Instrs /\ Undefined(2) \in Instrs
  BY <1>7, BlankWith
<1>. DEFINE plain == [Blank EXCEPT !.op = hinted]
<1>11. Misc16(hw) =
         CASE row = 0 -> Instr(adjust, pointer)
           [] row = 2 -> Instr(Extends[n + 1], two)
           [] row \in {4, 5} -> Instr("PUSH", [list |-> push])
           [] row = 6 /\ Bits(hw, 7, 5) = 3 -> Instr("CPS", mask)
           [] row = 10 /\ n + 1 # 3 -> Instr(Reversals[n + 1], two)
           [] row \in {12, 13} -> Instr("POP", [list |-> pop])
           [] row = 14 -> Instr("BKPT", byte)
           [] row = 15 /\ Bits(hw, 3, 0) = 0 -> plain
           [] OTHER -> Undefined(2)
  BY Zenon DEF Misc16, adjust, pointer, two, push, mask, pop, byte, hinted
<1>. HIDE DEF row, n, plain
<1>. QED
  BY <1>9, <1>10, <1>11 DEF plain

LEMMA BranchLinkTyped ==
    ASSUME NEW hw1 \in Nat, NEW hw2 \in Nat
    PROVE  BranchLink(hw1, hw2) \in Instrs
<1>. DEFINE s == BitOf(hw1, 10)
            i1 == IF BitOf(hw2, 13) = s THEN 1 ELSE 0
            i2 == IF BitOf(hw2, 11) = s THEN 1 ELSE 0
            p == PowerOfTwo[24]
            q == PowerOfTwo[23]
            r == PowerOfTwo[22]
            t == PowerOfTwo[12]
            high == Bits(hw1, 9, 0)
            low == Bits(hw2, 10, 0)
            imm == p * s + q * i1 + r * i2 + t * high + 2 * low
            offset == SignExtend(imm, 25)
<1>1. s \in Nat /\ i1 \in Nat /\ i2 \in Nat /\ high \in Nat /\ low \in Nat
  <2>1. s \in {0, 1}
    BY BitsTyped
  <2>2. high \in Nat /\ low \in Nat
    BY Operands
  <2>. QED
    BY <2>1, <2>2
<1>2. p \in Nat /\ q \in Nat /\ r \in Nat /\ t \in Nat
  BY PowersOfTwo
<1>3. imm \in Nat
  <2>. HIDE DEF s, i1, i2, p, q, r, t, high, low
  <2>1. p * s \in Nat /\ q * i1 \in Nat /\ r * i2 \in Nat /\ t * high \in Nat
    BY <1>1, <1>2
  <2>. QED
    BY <1>1, <2>1
<1>4. offset \in Int
  <2>1. 25 \in Nat \ {0}
    OBVIOUS
  <2>. HIDE DEF imm
  <2>. QED
    BY <1>3, <2>1, SignExtendTyped, Zenon
<1>5. 4 \in {2, 4} /\ "BL" \in Executed
  BY DEF Executed
<1>6. BranchLink(hw1, hw2) = Instr("BL", [length |-> 4, offset |-> offset])
  BY Zenon DEF BranchLink
<1>. HIDE DEF offset
<1>7. Fields([length |-> 4, offset |-> offset])
  BY <1>4, <1>5, FieldGroups, Zenon
<1>. QED
  BY <1>5, <1>6, <1>7, InstrOf, Zenon

LEMMA DecodedShort ==
    ASSUME NEW hw \in Nat
    PROVE  Decode16(hw) \in Instrs
<1>. DEFINE lit == Instr("LDR_lit", [rt |-> Bits(hw, 10, 8), rn |-> 15, imm |-> 4 * Bits(hw, 7, 0)])
            jump == Instr("B", [offset |-> SignExtend(2 * Bits(hw, 10, 0), 12)])
            top6 == Bits(hw, 15, 10)
            top4 == Bits(hw, 15, 12)
<1>1. /\ ShiftAddMove(hw) \in Instrs /\ DataProcessing(hw) \in Instrs /\ SpecialData(hw) \in Instrs
      /\ LoadStoreSingle(hw) \in Instrs /\ Address(hw) \in Instrs /\ Misc16(hw) \in Instrs
      /\ Multiple(hw) \in Instrs /\ CondBranch(hw) \in Instrs /\ Undefined(2) \in Instrs
      /\ lit \in Instrs /\ jump \in Instrs
  <2>1. lit \in Instrs /\ jump \in Instrs /\ CondBranch(hw) \in Instrs /\ Address(hw) \in Instrs
    BY BranchesTyped, Zenon
  <2>2. 2 \in {2, 4}
    OBVIOUS
  <2>. QED
    BY <2>1, <2>2, ShiftAddMoveTyped, DataProcessingTyped, SpecialDataTyped, LoadStoreTyped, Misc16Typed,
       ListsTyped, BlankWith, Zenon
<1>2. Decode16(hw) =
        CASE top6 < 16 -> ShiftAddMove(hw)
          [] top6 = 16 -> DataProcessing(hw)
          [] top6 = 17 -> SpecialData(hw)
          [] top6 \in {18, 19} -> lit
          [] top4 \in 5..9 -> LoadStoreSingle(hw)
          [] top4 = 10 -> Address(hw)
          [] top4 = 11 -> Misc16(hw)
          [] top4 = 12 -> Multiple(hw)
          [] top4 = 13 -> CondBranch(hw)
          [] Bits(hw, 15, 11) = 28 -> jump
          [] OTHER -> Undefined(2)
  BY Zenon DEF Decode16
<1>. HIDE DEF lit, jump, top6, top4
<1>. QED
  BY <1>1, <1>2

LEMMA DecodedLong ==
    ASSUME NEW hw1 \in Nat, NEW hw2 \in Nat
    PROVE  Decode32(hw1, hw2) \in Instrs
<1>. DEFINE sysm == [length |-> 4, imm |-> Bits(hw2, 7, 0)]
            barrier == Bits(hw2, 7, 4)
            option == [length |-> 4, imm |-> Bits(hw2, 3, 0)]
            rd == [rd |-> Bits(hw2, 11, 8)]
            rn == [rn |-> Bits(hw1, 3, 0)]
<1>1. /\ Bits(hw2, 7, 0) \in Nat /\ Bits(hw2, 3, 0) \in Nat /\ Bits(hw2, 11, 8) \in 0..15
      /\ Bits(hw1, 3, 0) \in 0..15 /\ 4 \in {2, 4}
  BY Operands
<1>2. Fields(sysm) /\ Fields(option) /\ Fields(rd) /\ Fields(rn)
  BY <1>1, FieldGroups, Zenon
<1>. HIDE DEF sysm, option, rd, rn
<1>3. Fields(sysm ++ rd) /\ Fields(sysm ++ rn)
  BY <1>2, FieldsTogether, Zenon
<1>4. "MRS" \in Executed /\ "MSR" \in Executed /\ (barrier \in 4..6 => Barriers[barrier - 3] \in Executed)
  <2>1. \A k \in 1..3 : Barriers[k] \in {"DSB", "DMB", "ISB"}
    BY DEF Barriers
  <2>. HIDE DEF barrier
  <2>2. barrier \in 4..6 => barrier - 3 \in 1..3
    OBVIOUS
  <2>. QED
    BY <2>1, <2>2 DEF Executed
<1>5. Instr("MRS", sysm ++ rd) \in Instrs /\ Instr("MSR", sysm ++ rn) \in Instrs
  BY <1>3, <1>4, InstrOf, Zenon
<1>6. barrier \in 4..6 => Instr(Barriers[barrier - 3], option) \in Instrs
  BY <1>2, <1>4, InstrOf, Zenon
<1>7. BranchLink(hw1, hw2) \in Instrs /\ Undefined(4) \in Instrs
  BY <1>1, BranchLinkTyped, BlankWith, Zenon
<1>8. Decode32(hw1, hw2) =
        CASE Bits(hw1, 15, 11) = 30 /\ Bits(hw2, 15, 14) = 3 /\ BitOf(hw2, 12) = 1 -> BranchLink(hw1, hw2)
          [] hw1 = 62399 /\ Bits(hw2, 15, 8) = 143 /\ barrier \in 4..6 -> Instr(Barriers[barrier - 3], option)
          [] hw1 = 62447 /\ BitOf(hw2, 15) = 1 -> Instr("MRS", sysm ++ rd)
          [] Bits(hw1, 15, 4) = 3896 /\ Bits(hw2, 15, 8) = 136 -> Instr("MSR", sysm ++ rn)
          [] OTHER -> Undefined(4)
  BY DEF Decode32, sysm, option, rd, rn
<1>. HIDE DEF barrier
<1>. QED
  BY <1>5, <1>6, <1>7, <1>8

\* Whatever has been fetched is decoded to an instruction that the processor executes or refuses,
\* with registers from 0 to 15 and each field in its range (thumb_decode.cpp).
THEOREM DecodedTyped ==
    ASSUME NEW hw1 \in Nat, NEW hw2 \in Nat
    PROVE  Decode16(hw1) \in Instrs /\ Decode32(hw1, hw2) \in Instrs
BY DecodedShort, DecodedLong

LEMMA FetchedTyped ==
    ASSUME NEW p, IsProgram(p), NEW pc, Fetchable(p, pc)
    PROVE  Fetched(p, pc) \in Instrs
<1>1. \A a \in DOMAIN p : p[a] \in Nat
  <2>0. PowerOfTwo[16] \in Nat
    BY PowersOfTwo, 16 \in Nat
  <2>. SUFFICES ASSUME NEW a \in DOMAIN p
                PROVE  p[a] \in Nat
    OBVIOUS
  <2>1. p[a] \in 0 .. PowerOfTwo[16] - 1
    BY DEF IsProgram
  <2>. QED
    BY <2>0, <2>1
<1>2. pc \in DOMAIN p /\ (Is32Bit(p[pc]) => pc + 2 \in DOMAIN p)
  BY DEF Fetchable
<1>3. Decode16(p[pc]) \in Instrs
  BY <1>1, <1>2, DecodedShort
<1>4. Is32Bit(p[pc]) => Decode32(p[pc], p[pc + 2]) \in Instrs
  BY <1>1, <1>2, DecodedLong
<1>. QED
  BY <1>3, <1>4 DEF Fetched

-----------------------------------------------------------------------------
(* The stub: a step *)

LEMMA FitLook ==
    ASSUME StubAssumption, NEW m, NEW watch, NEW earlier, FitMemory(m, watch, earlier),
           NEW addr \in Word, Backed(addr, 2)
    PROVE  FitMemory(CheckWatch(m, addr, 2, FALSE), watch, earlier)
<1>. DEFINE c == CheckWatch(m, addr, 2, FALSE)
<1>1. Placed /\ addr \in Nat /\ addr \in Int /\ IsMemory(m) /\ Held(m) /\ Latched(m, earlier) /\ 2 \in Nat \ {0}
  BY Assumed DEF FitMemory
<1>2. addr + 2 < Modulus
  BY <1>1, AnsweredBelow
<1>3. Latched(c, earlier)
  <2>1. FALSE \in BOOLEAN
    OBVIOUS
  <2>. QED
    BY <1>1, <1>2, <2>1, LookedAt, Zenon
<1>4. IsMemory(c) /\ c.watch = m.watch /\ c.quiet = m.quiet
  <2>1. Untouched(m, c)
    BY <1>1, LooksOnly, Zenon
  <2>. QED
    BY <2>1, Zenon DEF Untouched
<1>5. Held(c)
  BY <1>1, CheckWatchHeld
<1>. HIDE DEF c
<1>6. FitMemory(c, watch, earlier)
  BY <1>3, <1>4, <1>5, Zenon DEF FitMemory
<1>. QED
  BY <1>6 DEF c

LEMMA FitFetch ==
    ASSUME StubAssumption, NEW s, NEW watch, NEW earlier, Fit(s, watch, earlier),
           NEW p, IsProgram(p), NEW pc, Fetchable(p, pc)
    PROVE  Fit(Fetch(s, p, pc), watch, earlier)
<1>. DEFINE first == CheckWatch(s.mem, pc, 2, FALSE)
            second == CheckWatch(first, pc + 2, 2, FALSE)
            m == IF Is32Bit(p[pc]) THEN second ELSE first
<1>1. s.cpu \in Cpus /\ FitMemory(s.mem, watch, earlier)
  BY DEF Fit
<1>2. pc \in DOMAIN p /\ (Is32Bit(p[pc]) => pc + 2 \in DOMAIN p)
  BY DEF Fetchable
<1>3. \A a \in DOMAIN p : a \in Word /\ Backed(a, 2)
  BY DEF IsProgram
<1>4. FitMemory(first, watch, earlier)
  BY <1>1, <1>2, <1>3, FitLook
<1>. HIDE DEF first
<1>5. Is32Bit(p[pc]) => FitMemory(second, watch, earlier)
  BY <1>2, <1>3, <1>4, FitLook
<1>6. FitMemory(m, watch, earlier)
  BY <1>4, <1>5
<1>7. Fetch(s, p, pc) = WithMem(s, m)
  BY DEF Fetch, WithMem, first
<1>. HIDE DEF m
<1>. QED
  BY <1>1, <1>6, <1>7, FitParts, Zenon

LEMMA CyclesTyped ==
    ASSUME NEW d \in Instrs, NEW branched
    PROVE  InstructionCycles(d, branched) \in Int
<1>1. Cardinality(d.list) \in Nat
  BY InstrParts, ListTyped
<1>. DEFINE k == Cardinality(d.list)
<1>. HIDE DEF k
<1>2. k \in Nat
  BY <1>1 DEF k
<1>3. InstructionCycles(d, branched) \in {1, 2, 3, 4, 1 + k, 4 + k}
  BY DEF InstructionCycles, k
<1>. QED
  BY <1>2, <1>3

LEMMA FitCycles ==
    ASSUME StubAssumption, NEW s, NEW watch, NEW earlier, Fit(s, watch, earlier), NEW k \in Int
    PROVE  Fit([s EXCEPT !.cpu.cycles = (@ + k) % CycleMod], watch, earlier)
<1>. DEFINE n == (s.cpu.cycles + k) % CycleMod
            cpu == [s.cpu EXCEPT !.cycles = n]
<1>1. s.cpu \in Cpus /\ FitMemory(s.mem, watch, earlier)
  BY DEF Fit
<1>2. n \in Int
  <2>1. s.cpu.cycles \in Int
    BY <1>1 DEF Cpus
  <2>2. CycleMod \in Nat \ {0}
    BY Assumed
  <2>3. s.cpu.cycles + k \in Int
    BY <2>1
  <2>. QED
    BY <2>2, <2>3, Quotient
<1>. HIDE DEF n
<1>3. cpu \in Cpus
  BY <1>1, <1>2 DEF Cpus
<1>4. [s EXCEPT !.cpu.cycles = (@ + k) % CycleMod] = WithCpu(s, cpu)
  BY DEF WithCpu, n
<1>. HIDE DEF cpu
<1>5. Fit(WithCpu(s, cpu), watch, earlier)
  BY <1>1, <1>3, FitParts, Zenon
<1>. QED
  BY <1>4, <1>5

LEMMA FitStepFetched ==
    ASSUME StubAssumption, NEW s, NEW watch, NEW earlier, Fit(s, watch, earlier), NEW d \in Instrs
    PROVE  Fit(StepFetched(s, d), watch, earlier)
<1>. DEFINE pc == s.cpu.pc
            next == (pc + d.length) % Modulus
            moved == [s.cpu EXCEPT !.pc = next]
            after == Execute(WithCpu(s, moved), d, pc)
            cost == InstructionCycles(d, after.cpu.pc # next)
<1>1. s.cpu \in Cpus /\ FitMemory(s.mem, watch, earlier)
  BY DEF Fit
<1>2. pc \in Word
  BY <1>1 DEF Cpus
<1>3. next \in Word
  <2>1. pc + d.length \in Int
    BY <1>2, InstrParts, Assumed
  <2>. QED
    BY <2>1, Wraps
<1>. HIDE DEF next, pc
<1>4. moved \in Cpus
  BY <1>1, <1>3 DEF Cpus
<1>5. Fit(WithCpu(s, moved), watch, earlier)
  BY <1>1, <1>4, FitParts, Zenon
<1>6. Fit(after, watch, earlier)
  BY <1>2, <1>5, FitExecute
<1>7. StepFetched(s, d) = [after EXCEPT !.cpu.cycles = (@ + cost) % CycleMod]
  BY DEF StepFetched, Charged, WithCpu, pc, next
<1>. HIDE DEF after
<1>8. cost \in Int
  BY CyclesTyped
<1>. HIDE DEF cost
<1>9. Fit([after EXCEPT !.cpu.cycles = (@ + cost) % CycleMod], watch, earlier)
  BY <1>6, <1>8, FitCycles
<1>. QED
  BY <1>7, <1>9

LEMMA FitStep ==
    ASSUME StubAssumption, NEW s, NEW watch, NEW earlier, Fit(s, watch, earlier), NEW p, IsProgram(p)
    PROVE  Fit(StepCpu(s, p), watch, earlier)
<1>. DEFINE awake == StepAwake(s, p)
            locked == [awake.cpu EXCEPT !.event = TRUE, !.asleep = FALSE]
            slept == [s EXCEPT !.cpu.cycles = (@ + 1) % CycleMod]
<1>1. s.cpu \in Cpus /\ FitMemory(s.mem, watch, earlier)
  BY DEF Fit
<1>2. Fit(awake, watch, earlier)
  <2>1. CASE Fetchable(p, s.cpu.pc)
    <3>1. Fit(Fetch(s, p, s.cpu.pc), watch, earlier)
      BY <2>1, FitFetch
    <3>2. Fetched(p, s.cpu.pc) \in Instrs
      BY <2>1, FetchedTyped
    <3>3. Fit(StepFetched(Fetch(s, p, s.cpu.pc), Fetched(p, s.cpu.pc)), watch, earlier)
      BY <3>1, <3>2, FitStepFetched
    <3>. QED
      BY <2>1, <3>3 DEF StepAwake
  <2>2. CASE ~Fetchable(p, s.cpu.pc)
    <3>1. Fit(Ended(s, "MemFault"), watch, earlier)
      BY <1>1, FitParts, Zenon
    <3>. QED
      BY <2>2, <3>1 DEF StepAwake
  <2>. QED
    BY <2>1, <2>2
<1>. HIDE DEF awake
<1>3. Fit(Raised(awake), watch, earlier)
  <2>1. awake.cpu \in Cpus /\ FitMemory(awake.mem, watch, earlier)
    BY <1>2 DEF Fit
  <2>2. locked \in Cpus
    BY <2>1 DEF Cpus
  <2>. DEFINE status == IF NoStack(awake) THEN "Lockup" ELSE "ExceptionTaken"
  <2>3. Raised(awake) \in {awake, Ended(WithCpu(awake, locked), status)}
    BY DEF Raised, WithCpu
  <2>. HIDE DEF locked, status
  <2>4. Fit(WithCpu(awake, locked), watch, earlier)
    BY <1>2, <2>1, <2>2, FitParts, Zenon
  <2>5. Fit(Ended(WithCpu(awake, locked), status), watch, earlier)
    BY <2>1, <2>2, <2>4, FitParts, Zenon
  <2>. QED
    BY <1>2, <2>3, <2>5
<1>4. Fit(StepAsleep(s), watch, earlier)
  <2>1. Fit(slept, watch, earlier)
    BY FitCycles, 1 \in Int
  <2>2. StepAsleep(s) = Ended(slept, "WaitingForInterrupt")
    BY DEF StepAsleep, Ended
  <2>. HIDE DEF slept
  <2>3. slept.cpu \in Cpus /\ FitMemory(slept.mem, watch, earlier)
    BY <2>1 DEF Fit
  <2>4. Fit(Ended(slept, "WaitingForInterrupt"), watch, earlier)
    BY <2>1, <2>3, FitParts, Zenon
  <2>. QED
    BY <2>2, <2>4
<1>. QED
  BY <1>3, <1>4 DEF StepCpu, awake

-----------------------------------------------------------------------------
(* The stub: what a debugger does to the memory *)

\* Memories that answer alike and remember the same hit
Alike(m, k) == IsMemory(k) /\ k.reg = m.reg /\ k.hit = m.hit

WithLog(m, x) == [m EXCEPT !.log = x]
WithHit(m, x) == [m EXCEPT !.hit = x]
Looking(m, b) == [m EXCEPT !.quiet = b]
Watching(m, watch) == [m EXCEPT !.watch = watch]

\* What is kept where one field of a memory is another
LEMMA MemoryWith ==
    ASSUME NEW m, IsMemory(m), NEW x
    PROVE  /\ Alike(m, WithLog(m, x)) /\ WithLog(m, x).quiet = m.quiet
           /\ WithLog(m, x).watch = m.watch /\ WithLog(m, x).log = x
           /\ IsMemory(WithHit(m, x)) /\ WithHit(m, x).reg = m.reg
           /\ WithHit(m, x).quiet = m.quiet /\ WithHit(m, x).hit = x
           /\ x \in BOOLEAN => Alike(m, Looking(m, x)) /\ Looking(m, x).quiet = x
           /\ x \in Seq(Watchpoints) => Alike(m, Watching(m, x)) /\ Watching(m, x).quiet = m.quiet
<1>. DEFINE c == m.cell
            r == m.reg
            w == m.watch
            h == m.hit
            q == m.quiet
            l == m.log
<1>1. m = [cell |-> c, reg |-> r, watch |-> w, hit |-> h, quiet |-> q, log |-> l]
  BY DEF IsMemory
<1>2. /\ c \in [{a \in Nat : Backed(a, 1)} -> 0 .. ByteMod - 1]
      /\ w \in Seq(Watchpoints) /\ q \in BOOLEAN
  BY DEF IsMemory
<1>3. m.reg = r /\ m.hit = h /\ m.quiet = q /\ m.watch = w
  BY DEF r, h, q, w
<1>. HIDE DEF c, r, w, h, q, l
<1>4. /\ WithLog(m, x) = [cell |-> c, reg |-> r, watch |-> w, hit |-> h, quiet |-> q, log |-> x]
      /\ WithHit(m, x) = [cell |-> c, reg |-> r, watch |-> w, hit |-> x, quiet |-> q, log |-> l]
      /\ Looking(m, x) = [cell |-> c, reg |-> r, watch |-> w, hit |-> h, quiet |-> x, log |-> l]
      /\ Watching(m, x) = [cell |-> c, reg |-> r, watch |-> x, hit |-> h, quiet |-> q, log |-> l]
  BY <1>1 DEF WithLog, WithHit, Looking, Watching
<1>5. /\ IsMemory([cell |-> c, reg |-> r, watch |-> w, hit |-> h, quiet |-> q, log |-> x])
      /\ IsMemory([cell |-> c, reg |-> r, watch |-> w, hit |-> x, quiet |-> q, log |-> l])
  BY <1>2 DEF IsMemory
<1>6. ASSUME x \in BOOLEAN
      PROVE  IsMemory([cell |-> c, reg |-> r, watch |-> w, hit |-> h, quiet |-> x, log |-> l])
  BY <1>2, <1>6 DEF IsMemory
<1>7. ASSUME x \in Seq(Watchpoints)
      PROVE  IsMemory([cell |-> c, reg |-> r, watch |-> x, hit |-> h, quiet |-> q, log |-> l])
  BY <1>2, <1>7 DEF IsMemory
<1>8. /\ IsMemory(WithLog(m, x)) /\ IsMemory(WithHit(m, x))
      /\ x \in BOOLEAN => IsMemory(Looking(m, x))
      /\ x \in Seq(Watchpoints) => IsMemory(Watching(m, x))
  BY <1>4, <1>5, <1>6, <1>7, Zenon
<1>9. /\ WithLog(m, x).reg = r /\ WithLog(m, x).hit = h /\ WithLog(m, x).quiet = q
      /\ WithLog(m, x).watch = w /\ WithLog(m, x).log = x
      /\ WithHit(m, x).reg = r /\ WithHit(m, x).quiet = q /\ WithHit(m, x).hit = x
      /\ Looking(m, x).reg = r /\ Looking(m, x).hit = h /\ Looking(m, x).quiet = x
      /\ Watching(m, x).reg = r /\ Watching(m, x).hit = h /\ Watching(m, x).quiet = q
  BY <1>4
<1>. QED
  BY <1>3, <1>8, <1>9, Zenon DEF Alike

LEMMA WatchAdded ==
    ASSUME StubAssumption, NEW m, IsMemory(m), NEW w \in Watches
    PROVE  Alike(m, AddWatch(m, w)) /\ AddWatch(m, w).quiet = m.quiet
<1>. DEFINE new == [w EXCEPT !.len = IF @ = 0 THEN 1 ELSE @]
            watch == Append(m.watch, new)
<1>1. /\ w \in [addr : Word, len : Word, onRead : BOOLEAN, onWrite : BOOLEAN]
      /\ w.addr + w.len < Modulus /\ w.addr + 1 < Modulus
  BY DEF StubAssumption
<1>2. \A x \in Word : x \in Nat
  BY Assumed
<1>3. new \in Watchpoints
  <2>1. new = [addr |-> w.addr, len |-> IF w.len = 0 THEN 1 ELSE w.len, onRead |-> w.onRead, onWrite |-> w.onWrite]
    BY <1>1
  <2>2. w.addr \in Nat /\ w.len \in Nat /\ w.onRead \in BOOLEAN /\ w.onWrite \in BOOLEAN
    BY <1>1, <1>2
  <2>3. (IF w.len = 0 THEN 1 ELSE w.len) \in Nat \ {0} /\ w.addr + (IF w.len = 0 THEN 1 ELSE w.len) < Modulus
    BY <1>1, <2>2
  <2>. HIDE DEF new
  <2>. QED
    BY <2>1, <2>2, <2>3 DEF Watchpoints
<1>4. m.watch \in Seq(Watchpoints)
  BY DEF IsMemory
<1>. HIDE DEF new
<1>5. watch \in Seq(Watchpoints)
  BY <1>3, <1>4, AppendProperties
<1>6. AddWatch(m, w) = Watching(m, watch)
  BY DEF AddWatch, Watching, new
<1>. HIDE DEF watch
<1>. QED
  BY <1>5, <1>6, MemoryWith

LEMMA WatchRemoved ==
    ASSUME NEW m, IsMemory(m), NEW addr
    PROVE  Alike(m, RemoveWatch(m, addr)) /\ RemoveWatch(m, addr).quiet = m.quiet
<1>. DEFINE watch == m.watch
            One(s, i) == IF watch[i].addr = addr THEN s ELSE Append(s, watch[i])
            F(u) == [i \in 0 .. Len(watch) |-> IF i = 0 THEN <<>> ELSE One(u[i - 1], i)]
            kept == CHOOSE u : u = F(u)
            Through(g, n) == g[0] = <<>> /\ \A i \in 1..n : g[i] = One(g[i - 1], i)
<1>1. watch \in Seq(Watchpoints) /\ Len(watch) \in Nat
  <2>1. watch \in Seq(Watchpoints)
    BY DEF IsMemory
  <2>. QED
    BY <2>1, LenProperties
<1>2. \E g : Through(g, Len(watch))
  <2>. HIDE DEF One
  <2>. DEFINE T == {n \in Nat : \E g : Through(g, n)}
  <2>1. 0 \in T
    <3>1. Through([n \in {0} |-> <<>>], 0)
      OBVIOUS
    <3>. QED
      BY <3>1
  <2>2. ASSUME NEW n \in T
        PROVE  n + 1 \in T
    <3>1. PICK g : Through(g, n)
      BY <2>2
    <3>. DEFINE h == [k \in 0 .. n + 1 |-> IF k = n + 1 THEN One(g[n], n + 1) ELSE g[k]]
    <3>2. ASSUME NEW k \in 1 .. n + 1
          PROVE  h[k] = One(h[k - 1], k)
      <4>1. h[k - 1] = g[k - 1]
        BY <2>2
      <4>2. CASE k = n + 1
        <5>1. h[k] = One(g[n], n + 1) /\ k - 1 = n
          BY <2>2, <4>2
        <5>. QED
          BY <4>1, <4>2, <5>1
      <4>3. CASE k \in 1..n
        <5>1. h[k] = g[k]
          BY <2>2, <4>3
        <5>. QED
          BY <3>1, <4>1, <4>3, <5>1
      <4>. QED
        BY <2>2, <4>2, <4>3
    <3>3. h[0] = <<>>
      BY <2>2, <3>1
    <3>4. Through(h, n + 1)
      <4>. HIDE DEF h
      <4>. QED
        BY <3>2, <3>3
    <3>5. n + 1 \in Nat
      BY <2>2
    <3>. HIDE DEF Through, h
    <3>. QED
      BY <3>4, <3>5
  <2>3. T \in SUBSET Nat
    OBVIOUS
  <2>4. T = Nat
    <3>. HIDE DEF T
    <3>. QED
      BY <2>1, <2>2, <2>3, Induction
  <2>. HIDE DEF Through, watch
  <2>. QED
    BY <1>1, <2>4
<1>3. kept = F(kept)
  <2>. HIDE DEF One
  <2>1. PICK g : Through(g, Len(watch))
    BY <1>2
  <2>. DEFINE u == [i \in 0 .. Len(watch) |-> g[i]]
  <2>2. u = F(u)
    <3>1. \A i \in 0 .. Len(watch) : u[i] = IF i = 0 THEN <<>> ELSE One(u[i - 1], i)
      BY <1>1, <2>1
    <3>. QED
      BY <3>1
  <2>. QED
    BY <2>2
<1>4. RemoveWatch(m, addr) = Watching(m, kept[Len(watch)])
  BY DEF RemoveWatch, Watching
<1>. HIDE DEF kept
<1>5. \A i \in 0 .. Len(watch) : kept[i] = IF i = 0 THEN <<>> ELSE One(kept[i - 1], i)
  <2>. HIDE DEF One
  <2>. QED
    BY <1>3
<1>. DEFINE T == {n \in Nat : n <= Len(watch) => kept[n] \in Seq(Watchpoints)}
<1>6. 0 \in T
  <2>. HIDE DEF One
  <2>1. 0 \in 0 .. Len(watch)
    BY <1>1
  <2>2. kept[0] = <<>>
    BY <1>5, <2>1
  <2>3. <<>> \in Seq(Watchpoints)
    OBVIOUS
  <2>. QED
    BY <2>2, <2>3
<1>7. ASSUME NEW n \in T
      PROVE  n + 1 \in T
  <2>1. SUFFICES ASSUME n + 1 <= Len(watch)
                 PROVE  kept[n + 1] \in Seq(Watchpoints)
    OBVIOUS
  <2>2. /\ n + 1 \in 0 .. Len(watch) /\ n + 1 \in 1 .. Len(watch) /\ n + 1 # 0 /\ (n + 1) - 1 = n
        /\ kept[n] \in Seq(Watchpoints)
    BY <1>1, <1>7, <2>1
  <2>3. kept[n + 1] = One(kept[n], n + 1)
    <3>. HIDE DEF One
    <3>. QED
      BY <1>5, <2>2
  <2>4. watch[n + 1] \in Watchpoints
    BY <1>1, <2>2, ElementOfSeq
  <2>5. Append(kept[n], watch[n + 1]) \in Seq(Watchpoints)
    BY <2>2, <2>4, AppendProperties
  <2>. QED
    BY <2>2, <2>3, <2>5
<1>8. T \in SUBSET Nat
  OBVIOUS
<1>9. kept[Len(watch)] \in Seq(Watchpoints)
  <2>1. T = Nat
    <3>. HIDE DEF T
    <3>. QED
      BY <1>6, <1>7, <1>8, Induction
  <2>. QED
    BY <1>1, <2>1
<1>. HIDE DEF One, watch
<1>. QED
  BY <1>4, <1>9, MemoryWith

\* A byte that the debugger writes
PokedBy(m, poke) == Looking(Write(Looking(m, TRUE), poke.addr, 1, poke.value).mem, FALSE)

LEMMA Poked ==
    ASSUME StubAssumption, NEW m, IsMemory(m), Held(m), NEW poke \in Pokes
    PROVE  LET after == PokedBy(m, poke) IN IsMemory(after) /\ Held(after) /\ after.hit = m.hit /\ ~after.quiet
<1>. DEFINE k == Looking(m, TRUE)
            left == Write(k, poke.addr, 1, poke.value).mem
            after == Looking(left, FALSE)
<1>1. poke.addr \in Word /\ poke.value \in Word
  BY DEF StubAssumption
<1>2. poke.addr \in Nat /\ 1 \in Nat
  BY <1>1, Assumed
<1>3. Alike(m, k) /\ k.quiet
  <2>1. TRUE \in BOOLEAN /\ <<>> \in Seq(Watchpoints)
    OBVIOUS
  <2>. QED
    BY <2>1, MemoryWith, Zenon
<1>. HIDE DEF k
<1>4. IsMemory(k) /\ Held(k) /\ k.hit = m.hit
  BY <1>3 DEF Alike, Held
<1>5. Quietly(k, left) /\ Held(left)
  BY <1>1, <1>2, <1>3, <1>4, WriteUnseen, WriteHeld
<1>. HIDE DEF left
<1>6. IsMemory(left) /\ left.hit = m.hit
  BY <1>4, <1>5 DEF Quietly
<1>7. Alike(left, after) /\ after.quiet = FALSE
  <2>1. \A x \in BOOLEAN : Alike(left, Looking(left, x)) /\ Looking(left, x).quiet = x
    BY <1>6, MemoryWith
  <2>. QED
    BY <2>1
<1>. HIDE DEF after
<1>8. IsMemory(after) /\ Held(after) /\ after.hit = m.hit /\ ~after.quiet
  BY <1>5, <1>6, <1>7 DEF Alike, Held
<1>. QED
  BY <1>8 DEF after, left, k, PokedBy

-----------------------------------------------------------------------------
(* The stub: no watched access is run past *)

Sound(s) ==
    /\ s = [cpu |-> s.cpu, mem |-> s.mem, status |-> s.status]
    /\ s.cpu \in Cpus
    /\ IsMemory(s.mem) /\ Held(s.mem) /\ ~s.mem.quiet

IsHit(h) == h = [addr |-> h.addr, write |-> h.write]

Driven(d) ==
    /\ d = [mode |-> d.mode, count |-> d.count, breakpoints |-> d.breakpoints, stop |-> d.stop, caught |-> d.caught]
    /\ \A h \in d.caught : IsHit(h)

\* A hit that has not been reported is one of the watched accesses since the last that was.
Accounted(m, d) == m.hit # None => m.hit \in d.caught /\ d.stop.kind # "T05"

\* The inductive invariant
StubInv == IsProgram(program) /\ Sound(machine) /\ Driven(drive) /\ Accounted(machine.mem, drive) /\ WatchCaught

LEMMA CaughtAreHits ==
    ASSUME NEW m
    PROVE  /\ \A h \in Caught(m) : IsHit(h)
           /\ m.log = {} => Caught(m) = {}
<1>1. ASSUME NEW h \in Caught(m)
      PROVE  IsHit(h) /\ m.log # {}
  <2>1. PICK i \in DOMAIN m.watch : \E a \in m.log : h = [addr |-> m.watch[i].addr, write |-> a.write]
    BY CaughtIs
  <2>2. PICK a \in m.log : h = [addr |-> m.watch[i].addr, write |-> a.write]
    BY <2>1
  <2>. QED
    BY <2>2 DEF IsHit
<1>. QED
  BY <1>1

\* What the log is emptied for: the step that follows is fit.
Cleared == WithMem(machine, WithLog(machine.mem, {}))

Before == IF drive.stop.kind = "T05" THEN {} ELSE drive.caught

LEMMA ClearedFit ==
    ASSUME StubInv
    PROVE  Fit(Cleared, machine.mem.watch, Before) /\ Stepped = StepCpu(Cleared, program)
<1>. DEFINE m == machine.mem
            k == WithLog(m, {})
<1>1. Sound(machine) /\ Accounted(m, drive)
  BY DEF StubInv
<1>2. IsMemory(m) /\ Held(m) /\ ~m.quiet
  BY <1>1 DEF Sound
<1>3. Alike(m, k) /\ k.quiet = m.quiet /\ k.watch = m.watch /\ k.log = {}
  BY <1>2, MemoryWith
<1>4. Cleared = [cpu |-> machine.cpu, mem |-> k, status |-> machine.status]
  <2>. HIDE DEF k
  <2>1. machine = [cpu |-> machine.cpu, mem |-> machine.mem, status |-> machine.status]
    BY <1>1 DEF Sound
  <2>2. Cleared = [machine EXCEPT !.mem = k]
    BY DEF Cleared, WithMem, k
  <2>. QED
    BY <2>1, <2>2
<1>5. [machine EXCEPT !.mem.log = {}] = Cleared
  BY <1>1 DEF Cleared, WithMem, WithLog, Sound
<1>. HIDE DEF k
<1>6. Latched(k, Before)
  <2>1. Caught(k) = {} /\ k.hit = m.hit
    BY <1>3, CaughtAreHits DEF Alike
  <2>2. m.hit # None => m.hit \in Before
    BY <1>1 DEF Accounted, Before
  <2>. QED
    BY <2>1, <2>2 DEF Latched
<1>7. FitMemory(k, m.watch, Before)
  BY <1>2, <1>3, <1>6 DEF FitMemory, Alike, Held
<1>8. Fit(Cleared, m.watch, Before)
  <2>1. machine.cpu \in Cpus
    BY <1>1 DEF Sound
  <2>. QED
    BY <1>4, <1>7, <2>1 DEF Fit
<1>. QED
  BY <1>5, <1>8 DEF Stepped

\* The verdict T05 is that of a hit, and a run goes on where there is none.
LEMMA Verdict ==
    ASSUME NEW next, NEW single
    PROVE  LET stop == GdbVerdict(next, single)
           IN  /\ stop = NoStop => next.mem.hit = None
               /\ stop.kind = "T05" =>
                      /\ next.mem.hit # None
                      /\ stop.addr = next.mem.hit.addr /\ stop.write = next.mem.hit.write
               /\ stop.kind # "T05" \/ stop # NoStop
<1>. DEFINE stop == GdbVerdict(next, single)
            named == [kind |-> "T05", addr |-> next.mem.hit.addr, write |-> next.mem.hit.write]
<1>1. \/ stop = Stop("S05") /\ next.status = "Breakpoint"
      \/ stop = Stop("S0B")
      \/ next.mem.hit # None /\ stop = named
      \/ next.mem.hit = None /\ stop \in {Stop("S05"), NoStop}
  BY DEF GdbVerdict
<1>2. /\ Stop("S05").kind = "S05" /\ Stop("S0B").kind = "S0B" /\ NoStop.kind = "none"
      /\ named.kind = "T05" /\ named.addr = next.mem.hit.addr /\ named.write = next.mem.hit.write
  BY DEF Stop, NoStop
<1>. HIDE DEF stop, named
<1>3. /\ stop = NoStop => next.mem.hit = None
      /\ stop.kind = "T05" =>
             /\ next.mem.hit # None
             /\ stop.addr = next.mem.hit.addr /\ stop.write = next.mem.hit.write
      /\ stop.kind # "T05" \/ stop # NoStop
  BY <1>1, <1>2
<1>. QED
  BY <1>3 DEF stop

LEMMA StubSteps ==
    ASSUME StubAssumption, StubInv, NEW single \in BOOLEAN, GdbStep(Stepped, single)
    PROVE  StubInv'
<1>. DEFINE next == Stepped
            stop == GdbVerdict(next, single)
            hit == next.mem.hit
            caught == Before \cup Caught(next.mem)
<1>1. IsProgram(program) /\ Driven(drive)
  BY DEF StubInv
<1>2. Fit(next, machine.mem.watch, Before)
  BY <1>1, ClearedFit, FitStep
<1>3. /\ machine' = IF stop.kind = "T05" THEN [next EXCEPT !.mem = TakeHit(@)] ELSE next
      /\ drive' = [drive EXCEPT !.count = IF single \/ stop # NoStop THEN 0 ELSE @ + 1,
                                !.stop = stop, !.caught = caught,
                                !.mode = IF stop = NoStop THEN "running" ELSE "stopped"]
      /\ program' = program
  BY DEF GdbStep, Before
<1>4. /\ stop = NoStop => hit = None
      /\ stop.kind = "T05" => hit # None /\ stop.addr = hit.addr /\ stop.write = hit.write
      /\ stop.kind # "T05" \/ stop # NoStop
  BY Verdict
<1>. HIDE DEF next, stop
<1>5. /\ next = [cpu |-> next.cpu, mem |-> next.mem, status |-> next.status] /\ next.cpu \in Cpus
      /\ IsMemory(next.mem) /\ Held(next.mem) /\ ~next.mem.quiet /\ Latched(next.mem, Before)
  BY <1>2 DEF Fit, FitMemory
<1>6. hit \in caught \/ hit = None
  BY <1>5 DEF Latched
<1>7. \A h \in caught : IsHit(h)
  <2>1. \A h \in drive.caught : IsHit(h)
    BY <1>1 DEF Driven
  <2>. QED
    BY <2>1, CaughtAreHits DEF Before
<1>8. /\ drive' = [mode |-> drive'.mode, count |-> drive'.count, breakpoints |-> drive'.breakpoints,
                   stop |-> drive'.stop, caught |-> drive'.caught]
      /\ drive'.stop = stop /\ drive'.caught = caught
      /\ drive'.mode = IF stop = NoStop THEN "running" ELSE "stopped"
  <2>. HIDE DEF caught
  <2>. QED
    BY <1>1, <1>3 DEF Driven
<1>9. stop.kind = "T05" => /\ Sound(machine') /\ machine'.mem.hit = None
  <2>. DEFINE k == WithHit(next.mem, None)
  <2>1. IsMemory(k) /\ k.reg = next.mem.reg /\ k.quiet = next.mem.quiet /\ k.hit = None
    BY <1>5, MemoryWith
  <2>2. TakeHit(next.mem) = k
    BY DEF TakeHit, WithHit
  <2>. HIDE DEF k
  <2>3. [next EXCEPT !.mem = k] = [cpu |-> next.cpu, mem |-> k, status |-> next.status]
    BY <1>5
  <2>4. Sound([cpu |-> next.cpu, mem |-> k, status |-> next.status])
    BY <1>5, <2>1 DEF Sound, Held
  <2>. QED
    BY <1>3, <2>1, <2>2, <2>3, <2>4
<1>10. stop.kind # "T05" => machine' = next /\ Sound(machine')
  BY <1>3, <1>5 DEF Sound
<1>. HIDE DEF caught, hit
<1>11. Sound(machine') /\ Accounted(machine'.mem, drive')
  BY <1>6, <1>8, <1>9, <1>10 DEF Accounted, hit
<1>12. WatchCaught'
  <2>1. ASSUME drive'.mode = "running"
        PROVE  Caught(machine'.mem) = {}
    <3>1. stop = NoStop
      BY <1>8, <2>1
    <3>2. hit = None /\ machine' = next
      BY <1>4, <1>10, <3>1
    <3>. QED
      BY <1>5, <3>2 DEF Latched, hit
  <2>2. ASSUME drive'.stop.kind = "T05"
        PROVE  [addr |-> drive'.stop.addr, write |-> drive'.stop.write] \in drive'.caught
    <3>1. hit \in caught /\ stop.addr = hit.addr /\ stop.write = hit.write
      BY <1>4, <1>6, <1>8, <2>2
    <3>2. hit = [addr |-> hit.addr, write |-> hit.write]
      BY <1>7, <3>1 DEF IsHit
    <3>. QED
      BY <1>8, <3>1, <3>2
  <2>. QED
    BY <2>1, <2>2 DEF WatchCaught
<1>. QED
  BY <1>1, <1>3, <1>7, <1>8, <1>11, <1>12 DEF StubInv, Driven

\* The debugger stands still but for the memory or what it waits for.
LEMMA StubStands ==
    ASSUME StubInv, NEW m, IsMemory(m), Held(m), ~m.quiet, m.hit = machine.mem.hit,
           machine' = WithMem(machine, m), program' = program, drive' = drive, drive.mode = "stopped"
    PROVE  StubInv'
<1>1. Sound(machine) /\ Accounted(machine.mem, drive)
  BY DEF StubInv
<1>2. machine' = [cpu |-> machine.cpu, mem |-> m, status |-> machine.status]
  BY <1>1 DEF Sound, WithMem
<1>3. Sound(machine') /\ machine'.mem = m
  BY <1>1, <1>2 DEF Sound
<1>4. Accounted(machine'.mem, drive')
  BY <1>1, <1>3 DEF Accounted
<1>. QED
  BY <1>3, <1>4 DEF StubInv, Driven, WatchCaught

LEMMA StubInitially ==
    ASSUME StubAssumption, GdbInit
    PROVE  StubInv
<1>. DEFINE cell == machine.mem.cell
            r == machine.cpu.r
            cpu == [ResetCpu EXCEPT !.r = r]
            fresh == Fresh(cell)
<1>1. /\ IsProgram(program) /\ r \in [0..12 -> Word] /\ cell \in [{a \in Word : Backed(a, 1)} -> 0..(ByteMod - 1)]
      /\ machine = [cpu |-> cpu, mem |-> fresh, status |-> "Ok"]
      /\ drive = Standby("empty")
  BY DEF GdbInit
<1>2. cpu \in Cpus
  BY <1>1, ResetTyped
<1>3. {a \in Word : Backed(a, 1)} = {a \in Nat : Backed(a, 1)}
  <2>1. ASSUME NEW a \in Nat, Backed(a, 1)
        PROVE  a \in Word
    <3>1. Placed /\ a \in Int /\ 1 \in Nat
      BY Assumed
    <3>2. a + 1 < Modulus
      BY <2>1, <3>1, AnsweredBelow
    <3>. QED
      BY <3>2, WordSizes DEF Word
  <2>2. Word \subseteq Nat
    BY Assumed
  <2>. QED
    BY <2>1, <2>2
<1>. HIDE DEF cpu, cell, r
<1>4. /\ fresh = [cell |-> cell, reg |-> [a \in {} |-> 0], watch |-> <<>>, hit |-> None, quiet |-> FALSE, log |-> {}]
      /\ <<>> \in Seq(Watchpoints)
  BY DEF Fresh
<1>. HIDE DEF fresh
<1>5. IsMemory(fresh) /\ Held(fresh) /\ ~fresh.quiet /\ fresh.hit = None
  <2>1. cell \in [{a \in Nat : Backed(a, 1)} -> 0 .. ByteMod - 1]
    BY <1>1, <1>3
  <2>. QED
    BY <1>4, <2>1 DEF IsMemory, Held
<1>6. Sound(machine) /\ machine.mem.hit = None
  <2>1. machine.cpu = cpu /\ machine.mem = fresh /\ machine.status = "Ok"
    BY <1>1
  <2>. QED
    BY <1>1, <1>2, <1>5, <2>1 DEF Sound
<1>7. Driven(drive) /\ drive.mode = "empty" /\ drive.stop.kind = "none"
  BY <1>1 DEF Standby, NoStop, Driven
<1>8. Accounted(machine.mem, drive) /\ WatchCaught
  BY <1>6, <1>7 DEF Accounted, WatchCaught
<1>. QED
  BY <1>1, <1>6, <1>7, <1>8 DEF StubInv

LEMMA StubStep ==
    ASSUME StubAssumption, StubInv, [GdbNext]_stubVars
    PROVE  StubInv'
<1>1. /\ IsProgram(program) /\ Sound(machine) /\ Driven(drive) /\ Accounted(machine.mem, drive)
      /\ WatchCaught
  BY DEF StubInv
<1>2. IsMemory(machine.mem) /\ Held(machine.mem) /\ ~machine.mem.quiet
  BY <1>1 DEF Sound
<1>3. CASE Serve
  <2>1. /\ drive' = [drive EXCEPT !.mode = "stopped"] /\ program' = program /\ machine' = machine
    BY <1>3 DEF Serve
  <2>2. /\ Driven(drive') /\ drive'.mode = "stopped" /\ drive'.stop = drive.stop /\ drive'.caught = drive.caught
    BY <1>1, <2>1 DEF Driven
  <2>. QED
    BY <1>1, <2>1, <2>2 DEF StubInv, Accounted, WatchCaught
<1>4. CASE Continue
  <2>1. /\ drive' = [drive EXCEPT !.mode = "running", !.count = 0, !.stop = NoStop, !.caught = Before]
        /\ program' = program /\ machine' = machine
    BY <1>4 DEF Continue, Before
  <2>2. \A h \in Before : IsHit(h)
    BY <1>1 DEF Driven, Before
  <2>3. Driven(drive') /\ drive'.count = 0 /\ drive'.stop = NoStop /\ drive'.caught = Before
    BY <1>1, <2>1, <2>2 DEF Driven
  <2>4. Accounted(machine'.mem, drive')
    BY <1>1, <2>1, <2>3 DEF Accounted, Before, NoStop
  <2>5. WatchCaught'
    BY <2>3 DEF WatchCaught, NoStop
  <2>. QED
    BY <1>1, <2>1, <2>3, <2>4, <2>5 DEF StubInv
<1>5. CASE ContinueStep
  <2>1. FALSE \in BOOLEAN
    OBVIOUS
  <2>. QED
    BY <1>5, <2>1, StubSteps DEF ContinueStep
<1>6. CASE StepPacket
  <2>1. TRUE \in BOOLEAN
    OBVIOUS
  <2>. QED
    BY <1>6, <2>1, StubSteps DEF StepPacket
<1>7. ASSUME NEW addr \in Breaks, SetBreakpoint(addr) \/ ClearBreakpoint(addr)
      PROVE  StubInv'
  <2>1. PICK b : drive' = [drive EXCEPT !.breakpoints = b] /\ program' = program /\ machine' = machine
    BY <1>7 DEF SetBreakpoint, ClearBreakpoint, Standing
  <2>2. /\ Driven(drive') /\ drive'.mode = drive.mode /\ drive'.count = drive.count
        /\ drive'.stop = drive.stop /\ drive'.caught = drive.caught
    BY <1>1, <2>1 DEF Driven
  <2>. QED
    BY <1>1, <2>1, <2>2 DEF StubInv, Accounted, WatchCaught
<1>8. ASSUME NEW w \in Watches, SetWatchpoint(w)
      PROVE  StubInv'
  <2>. DEFINE m == AddWatch(machine.mem, w)
  <2>1. Alike(machine.mem, m) /\ m.quiet = machine.mem.quiet
    BY <1>2, WatchAdded
  <2>2. /\ machine' = WithMem(machine, m) /\ program' = program /\ drive' = drive /\ drive.mode = "stopped"
    BY <1>8 DEF SetWatchpoint, Standing, WithMem
  <2>. HIDE DEF m
  <2>3. IsMemory(m) /\ Held(m) /\ ~m.quiet /\ m.hit = machine.mem.hit
    BY <1>2, <2>1 DEF Alike, Held
  <2>. QED
    BY <2>2, <2>3, StubStands
<1>9. ASSUME NEW w \in Watches, ClearWatchpoint(w.addr)
      PROVE  StubInv'
  <2>. DEFINE m == RemoveWatch(machine.mem, w.addr)
  <2>1. Alike(machine.mem, m) /\ m.quiet = machine.mem.quiet
    BY <1>2, WatchRemoved
  <2>2. /\ machine' = WithMem(machine, m) /\ program' = program /\ drive' = drive /\ drive.mode = "stopped"
    BY <1>9 DEF ClearWatchpoint, Standing, WithMem
  <2>. HIDE DEF m
  <2>3. IsMemory(m) /\ Held(m) /\ ~m.quiet /\ m.hit = machine.mem.hit
    BY <1>2, <2>1 DEF Alike, Held
  <2>. QED
    BY <2>2, <2>3, StubStands
<1>10. ASSUME NEW poke \in Pokes, WriteMemory(poke.addr, poke.value)
       PROVE  StubInv'
  <2>. DEFINE m == PokedBy(machine.mem, poke)
  <2>1. IsMemory(m) /\ Held(m) /\ m.hit = machine.mem.hit /\ ~m.quiet
    BY <1>2, Poked
  <2>2. /\ machine' = WithMem(machine, m) /\ program' = program /\ drive' = drive /\ drive.mode = "stopped"
    BY <1>10 DEF WriteMemory, Standing, WithMem, PokedBy, Looking
  <2>. HIDE DEF m
  <2>. QED
    BY <2>1, <2>2, StubStands
<1>11. CASE UNCHANGED stubVars
  BY <1>1, <1>11 DEF stubVars, StubInv, Sound, Driven, Accounted, WatchCaught
<1>. QED
  BY <1>3, <1>4, <1>5, <1>6, <1>7, <1>8, <1>9, <1>10, <1>11 DEF GdbNext

\* Whatever the program, up to an exception that finds room on the stack, and whatever the
\* debugger does, registers hold words, flags are flags, cells hold bytes, watchpoints are well
\* formed and are never left switched off (cpu.cpp, memory.cpp, gdb_stub.cpp).
THEOREM SoundAlways ==
    ASSUME StubAssumption
    PROVE  GdbSpec => []Sound(machine)
<1>1. GdbInit => StubInv
  BY StubInitially
<1>2. StubInv /\ [GdbNext]_stubVars => StubInv'
  BY StubStep
<1>3. StubInv => Sound(machine)
  BY DEF StubInv
<1>. QED
  BY <1>1, <1>2, <1>3, PTL DEF GdbSpec

\* Whatever the program, up to an exception that finds room on the stack, the memory and the
\* debugger: no watched access is run past, and a stop at one names an access that was made
\* since the last such stop (gdb_stub.cpp).
THEOREM WatchCaughtHolds ==
    ASSUME StubAssumption
    PROVE  GdbSpec => []WatchCaught
<1>1. GdbInit => StubInv
  BY StubInitially
<1>2. StubInv /\ [GdbNext]_stubVars => StubInv'
  BY StubStep
<1>3. StubInv => WatchCaught
  BY DEF StubInv
<1>. QED
  BY <1>1, <1>2, <1>3, PTL DEF GdbSpec
==============================================================================
