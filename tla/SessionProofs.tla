--------------------------- MODULE SessionProofs ---------------------------
(***************************************************************************)
(* What holds of Session for any number of handler threads, programs of    *)
(* any length and batches of any size.                                     *)
(***************************************************************************)
EXTENDS Session, Numbers, TLAPS

Places == {"idle", "ask", "check", "join", "clear", "body", "arm", "go", "spawn", "snapshot"}

\* Where a handler is once pause() has joined the run thread
Behind == {"clear", "body", "arm", "go", "spawn", "snapshot"}

USE DEF Places, Behind

Types ==
    /\ at \in [Clients -> Places]
    /\ loop \in {"gone", "head", "check", "lock", "batch", "end"}
    /\ joinable \in BOOLEAN /\ loaded \in BOOLEAN /\ overlapped \in BOOLEAN
    /\ sim \in [image : Images, pc : Pcs]
    /\ breakpoints \subseteq Pcs

\* The run thread holds the mutex during a batch, and lives only while it can be joined.
ThreadHeld == (locked <=> loop = "batch") /\ (loop # "gone" => joinable)

Alone == \A c, d \in Clients : c # d => at[c] = "idle" \/ at[d] = "idle"

\* Behind pause() a request has the session for itself.
Paused == \A c \in Clients : at[c] \in Behind => ~joinable

RunsLoaded == Starting \/ loop # "gone" => loaded

Truthful == status = "Running" <=> Starting \/ loop # "gone"

SessionInv == Types /\ ThreadHeld /\ (~overlapped => Alone /\ Paused /\ RunsLoaded /\ Truthful)

-----------------------------------------------------------------------------
(* The program *)

LEMMA KindKnown ==
    ASSUME Types PROVE Kind \in Kinds
BY ImagesAssumption DEF Types, Kind

LEMMA VerdictKnown ==
    ASSUME Types, NEW pc
    PROVE  /\ Verdict(pc) \in {"Fault", "Breakpoint", "go"}
           /\ Verdict(pc) = "go" => Kind # "lockup" /\ pc \notin breakpoints
BY KindKnown DEF Verdict, Kinds

LEMMA NextPcMoves ==
    ASSUME Types
    PROVE  /\ NextPc \in Pcs
           /\ Kind # "lockup" => NextPc = (sim.pc + 1) % Length /\ NextPc # sim.pc
<1>1. sim.pc \in Pcs /\ Length \in Nat /\ Length > 1
  BY LengthAssumption DEF Types
<1>2. CASE sim.pc + 1 < Length
  <2>1. (sim.pc + 1) % Length = sim.pc + 1
    <3>1. sim.pc + 1 \in 0..(Length - 1) /\ 0 * Length + (sim.pc + 1) = sim.pc + 1
      BY <1>1, <1>2 DEF Pcs
    <3>2. QED
      BY <1>1, <3>1, Residue
  <2>2. QED
    BY <1>1, <1>2, <2>1 DEF NextPc, Pcs
<1>3. CASE sim.pc + 1 = Length
  <2>1. (sim.pc + 1) % Length = 0
    <3>1. 1 * Length + 0 = sim.pc + 1
      BY <1>1, <1>3 DEF Pcs
    <3>2. QED
      BY <1>1, <3>1, Residue
  <2>2. QED
    BY <1>1, <1>3, <2>1 DEF NextPc, Pcs
<1>4. QED
  BY <1>1, <1>2, <1>3 DEF Pcs
-----------------------------------------------------------------------------
(* The invariant *)

LEMMA InitInv == Init => SessionInv
<1>. SUFFICES ASSUME Init PROVE SessionInv
  OBVIOUS
<1>1. Types
  <2>1. 0 \in Pcs
    BY LengthAssumption DEF Pcs
  <2>2. sim \in [image : Images, pc : Pcs]
    BY <2>1 DEF Init, Fresh
  <2>3. QED
    BY <2>2 DEF Init, Types
<1>2. QED
  BY <1>1 DEF Init, SessionInv, ThreadHeld, Alone, Paused, RunsLoaded, Truthful, Starting

LEMMA StepSound ==
    ASSUME Types, StepSimulator
    PROVE  sim' \in [image : Images, pc : Pcs]
BY NextPcMoves DEF Types, StepSimulator

\* A step of the run thread
LEMMA RunLoopInv ==
    ASSUME SessionInv, RunLoop
    PROVE  SessionInv'
<1>. USE DEF SessionInv
<1>0. UNCHANGED <<at, joinable, overlapped>> /\ (Starting' <=> Starting)
  BY DEF RunLoop, LoopHead, LoopCheck, LoopLock, LoopStep, LoopEnd, Elsewhere, Starting
<1>1. CASE LoopHead
  BY <1>0, <1>1 DEF LoopHead, Loop, machine, Types, ThreadHeld, Alone, Paused, RunsLoaded, Truthful
<1>2. CASE LoopCheck
  BY <1>0, <1>2 DEF LoopCheck, Loop, machine, Types, ThreadHeld, Alone, Paused, RunsLoaded, Truthful
<1>3. CASE LoopLock
  BY <1>0, <1>3 DEF LoopLock, Loop, machine, Types, ThreadHeld, Alone, Paused, RunsLoaded, Truthful
<1>4. CASE LoopStep
  <2>1. sim' \in [image : Images, pc : Pcs] /\ UNCHANGED <<loaded, breakpoints>>
    BY <1>4, StepSound DEF LoopStep, StepSimulator
  <2>2. ~overlapped => ~Starting
    BY <1>4 DEF LoopStep, Loop, ThreadHeld, Paused, Starting
  <2>3. CASE Verdict(NextPc) = "go"
    <3>1. loop = "batch" /\ UNCHANGED status
          /\ \/ loop' = "head" /\ ~locked'
             \/ loop' = "batch" /\ UNCHANGED locked
      BY <1>4, <2>3 DEF LoopStep, Loop
    <3>2. QED
      BY <1>0, <2>1, <3>1 DEF Types, ThreadHeld, Alone, Paused, RunsLoaded, Truthful
  <2>4. CASE Verdict(NextPc) # "go"
    <3>1. loop' = "gone" /\ ~locked' /\ status' # "Running"
      BY <1>4, <2>4, VerdictKnown DEF LoopStep, Loop
    <3>2. QED
      BY <1>0, <2>1, <2>2, <3>1 DEF Types, ThreadHeld, Alone, Paused, RunsLoaded, Truthful
  <2>5. QED
    BY <2>3, <2>4
<1>5. CASE LoopEnd
  <2>1. ~overlapped => ~Starting
    BY <1>5 DEF LoopEnd, Loop, ThreadHeld, Paused, Starting
  <2>2. status' # "Running" /\ ~locked'
    BY <1>5 DEF LoopEnd
  <2>3. QED
    BY <1>0, <1>5, <2>1, <2>2 DEF LoopEnd, Loop, Types, ThreadHeld, Alone, Paused, RunsLoaded, Truthful
<1>6. QED
  BY <1>1, <1>2, <1>3, <1>4, <1>5 DEF RunLoop

\* Requests that have not overlapped: when one goes on, every other one is idle.
LEMMA GoesAlone ==
    ASSUME SessionInv, NEW c \in Clients, NEW here, NEW there, Goes(c, here, there), here # "idle",
           there \in Places
    PROVE  /\ at' \in [Clients -> Places]
           /\ at[c] = here /\ at'[c] = there /\ overlapped' = overlapped
           /\ ~overlapped => \A d \in Clients \ {c} : at[d] = "idle" /\ at'[d] = "idle"
           /\ ~overlapped => Alone'
           /\ ~overlapped => (Starting <=> here \in {"arm", "go", "spawn"})
           /\ ~overlapped => (Starting' <=> there \in {"arm", "go", "spawn"})
BY DEF Goes, SessionInv, Types, Alone, Starting

LEMMA ProceedInv ==
    ASSUME SessionInv, NEW c \in Clients, Proceed(c)
    PROVE  SessionInv'
<1>. USE DEF SessionInv
<1>1. CASE AskToPause(c)
  <2>1. Goes(c, "ask", "check") /\ UNCHANGED <<joinable, loop, locked, sim, loaded, status, breakpoints>>
    BY <1>1 DEF AskToPause, Quiet, machine
  <2>2. QED
    BY <2>1, GoesAlone DEF Types, ThreadHeld, Paused, RunsLoaded, Truthful
<1>2. CASE LookForThread(c)
  <2>1. UNCHANGED <<joinable, loop, locked, sim, loaded, status, breakpoints>>
    BY <1>2 DEF LookForThread, Quiet, machine
  <2>2. CASE joinable
    <3>1. Goes(c, "check", "join")
      BY <1>2, <2>2 DEF LookForThread
    <3>2. QED
      BY <2>1, <3>1, GoesAlone DEF Types, ThreadHeld, Paused, RunsLoaded, Truthful
  <2>3. CASE ~joinable
    <3>1. Goes(c, "check", "clear")
      BY <1>2, <2>3 DEF LookForThread
    <3>2. QED
      BY <2>1, <2>3, <3>1, GoesAlone DEF Types, ThreadHeld, Paused, RunsLoaded, Truthful
  <2>4. QED
    BY <2>2, <2>3
<1>3. CASE Join(c)
  <2>1. /\ Goes(c, "join", "clear") /\ loop = "gone" /\ joinable' = FALSE
        /\ UNCHANGED <<loop, locked, sim, loaded, status, breakpoints>>
    BY <1>3 DEF Join, machine
  <2>2. Types'
    BY <2>1, GoesAlone DEF Types
  <2>3. ~overlapped => RunsLoaded' /\ Truthful' /\ Alone'
    BY <2>1, GoesAlone DEF RunsLoaded, Truthful
  <2>4. overlapped' = overlapped
    BY <2>1, GoesAlone
  <2>5. QED
    BY <2>1, <2>2, <2>3, <2>4 DEF ThreadHeld, Paused
<1>4. CASE JoinThrows(c)
  <2>1. Goes(c, "join", "idle") /\ UNCHANGED <<joinable, loop, locked, sim, loaded, status, breakpoints>>
    BY <1>4 DEF JoinThrows, Quiet, machine
  <2>2. QED
    BY <2>1, GoesAlone DEF Types, ThreadHeld, Paused, RunsLoaded, Truthful
<1>5. CASE ClearRunning(c)
  <2>1. UNCHANGED <<joinable, loop, locked, sim, loaded, status, breakpoints>>
    BY <1>5 DEF ClearRunning, Quiet, machine
  <2>2. PICK there \in {"idle", "body"} : Goes(c, "clear", there)
    BY <1>5 DEF ClearRunning
  <2>3. QED
    BY <2>1, <2>2, GoesAlone DEF Types, ThreadHeld, Paused, RunsLoaded, Truthful
<1>6. CASE Mark(c)
  <2>1. UNCHANGED <<joinable, loop, locked, sim, loaded, breakpoints>>
    BY <1>6 DEF Mark, thread
  <2>2. CASE loaded
    <3>1. Goes(c, "body", "arm") /\ status' = "Running"
      BY <1>6, <2>2 DEF Mark
    <3>2. QED
      BY <2>1, <2>2, <3>1, GoesAlone DEF Types, ThreadHeld, Paused, RunsLoaded, Truthful
  <2>3. CASE ~loaded
    <3>1. Goes(c, "body", "idle") /\ UNCHANGED status
      BY <1>6, <2>3 DEF Mark
    <3>2. QED
      BY <2>1, <2>3, <3>1, GoesAlone DEF Types, ThreadHeld, Paused, RunsLoaded, Truthful
  <2>4. QED
    BY <2>2, <2>3
<1>7. CASE Arm(c) \/ Go(c)
  <2>1. UNCHANGED <<joinable, loop, locked, sim, loaded, status, breakpoints>>
    BY <1>7 DEF Arm, Go, Quiet, machine
  <2>2. PICK here \in {"arm", "go"}, there \in {"go", "spawn"} : Goes(c, here, there)
    BY <1>7 DEF Arm, Go
  <2>3. QED
    BY <2>1, <2>2, GoesAlone DEF Types, ThreadHeld, Paused, RunsLoaded, Truthful
<1>8. CASE Spawn(c)
  <2>1. /\ Goes(c, "spawn", "idle") /\ ~joinable /\ joinable' = TRUE /\ loop' = "head"
        /\ UNCHANGED <<locked, sim, loaded, status, breakpoints>>
    BY <1>8 DEF Spawn, machine
  <2>2. loop = "gone"
    BY <2>1 DEF ThreadHeld
  <2>3. QED
    BY <2>1, <2>2, GoesAlone DEF Types, ThreadHeld, Paused, RunsLoaded, Truthful
<1>9. CASE SpawnTwice(c)
  BY <1>9 DEF SpawnTwice, thread, machine, Types, ThreadHeld, Alone, Paused, RunsLoaded, Truthful, Starting
<1>10. CASE StepOne(c)
  <2>1. Goes(c, "body", "snapshot") /\ UNCHANGED <<joinable, loop, locked, loaded, breakpoints>>
        /\ sim' \in [image : Images, pc : Pcs]
    BY <1>10, StepSound DEF StepOne, thread, machine, StepSimulator, Types
  <2>2. status' = status \/ status' # "Running"
    BY <1>10, VerdictKnown DEF StepOne, machine
  <2>3. ~overlapped => loop = "gone"
    BY <2>1, GoesAlone DEF Paused, ThreadHeld
  <2>4. QED
    BY <2>1, <2>2, <2>3, GoesAlone DEF Types, ThreadHeld, Paused, RunsLoaded, Truthful
<1>11. CASE Load(c)
  <2>1. PICK there \in {"snapshot", "idle"} : Goes(c, "body", there)
    BY <1>11 DEF Load
  <2>2. /\ UNCHANGED <<joinable, loop, locked>> /\ loaded' \in BOOLEAN /\ status' # "Running"
        /\ breakpoints' \subseteq Pcs
    BY <1>11 DEF Load, thread, Types
  <2>3. sim' \in [image : Images, pc : Pcs]
    BY <1>11, LengthAssumption DEF Load, NewSimulator, Fresh, Pcs
  <2>4. ~overlapped => loop = "gone"
    BY <2>1, GoesAlone DEF Paused, ThreadHeld
  <2>5. QED
    BY <2>1, <2>2, <2>3, <2>4, GoesAlone DEF Types, ThreadHeld, Paused, RunsLoaded, Truthful
<1>12. CASE Answer(c)
  <2>1. Goes(c, "snapshot", "idle") /\ UNCHANGED <<joinable, loop, locked, sim, loaded, status, breakpoints>>
    BY <1>12 DEF Answer, Drain, thread, machine
  <2>2. QED
    BY <2>1, GoesAlone DEF Types, ThreadHeld, Paused, RunsLoaded, Truthful
<1>13. QED
  BY <1>1, <1>2, <1>3, <1>4, <1>5, <1>6, <1>7, <1>8, <1>9, <1>10, <1>11, <1>12 DEF Proceed

LEMMA RequestInv ==
    ASSUME SessionInv, NEW c \in Clients, NEW o, Request(c, o)
    PROVE  SessionInv'
<1>1. /\ at' \in [Clients -> Places]
      /\ at[c] = "idle" /\ at'[c] = "ask" /\ \A d \in Clients \ {c} : at'[d] = at[d]
  BY DEF Request, SessionInv, Types
<1>2. /\ overlapped' \in BOOLEAN /\ (~overlapped' => ~overlapped /\ \A d \in Clients \ {c} : at[d] = "idle")
      /\ UNCHANGED <<joinable, loop, locked, sim, loaded, status, breakpoints>>
  BY DEF Request, SessionInv, Types, thread, machine
<1>3. ~overlapped' => Alone' /\ Paused' /\ (Starting' <=> Starting)
  BY <1>1, <1>2 DEF Alone, Paused, Starting, SessionInv
<1>4. QED
  BY <1>1, <1>2, <1>3 DEF SessionInv, Types, ThreadHeld, RunsLoaded, Truthful

LEMMA NextInv == SessionInv /\ [Next]_vars => SessionInv'
<1>. SUFFICES ASSUME SessionInv, [Next]_vars PROVE SessionInv'
  OBVIOUS
<1>1. CASE \E c \in Clients : Proceed(c) \/ \E o \in Ops : Request(c, o)
  BY <1>1, ProceedInv, RequestInv
<1>2. CASE RunLoop
  BY <1>2, RunLoopInv
<1>3. CASE Poll
  BY <1>3 DEF Poll, Drain, thread, machine, SessionInv, Types, ThreadHeld, Alone, Paused, RunsLoaded,
              Truthful, Starting
<1>4. CASE \E a \in Pcs : EditBreakpoint(a)
  BY <1>4 DEF EditBreakpoint, thread, SessionInv, Types, ThreadHeld, Alone, Paused, RunsLoaded,
              Truthful, Starting
<1>5. CASE UNCHANGED vars
  BY <1>5 DEF vars, thread, machine, SessionInv, Types, ThreadHeld, Alone, Paused, RunsLoaded, Truthful, Starting
<1>6. QED
  BY <1>1, <1>2, <1>3, <1>4, <1>5 DEF Next

\* The status says "running" exactly from the request to run until the run thread has stopped,
\* for any number of clients whose requests do not overlap.
THEOREM StatusTruthfulHolds == Spec => []StatusTruthful
<1>1. SessionInv => StatusTruthful
  BY DEF SessionInv, Truthful, StatusTruthful
<1>2. QED
  BY <1>1, InitInv, NextInv, PTL DEF Spec

-----------------------------------------------------------------------------
(* What the program prints *)

OutputInv == sent \in Nat /\ got \in 0..sent /\ OutputDelivered

LEMMA PrintedInv ==
    ASSUME OutputInv, StepSimulator PROVE OutputInv'
<1>1. CASE UNCHANGED <<sent, uart>>
  BY <1>1 DEF OutputInv, OutputDelivered, StepSimulator
<1>2. CASE sent' = sent + 1 /\ uart' = Append(uart, sent + 1)
  <2>1. got' = got /\ sent - got \in Nat /\ sent' - got' = (sent - got) + 1
    BY <1>2 DEF OutputInv, StepSimulator
  <2>2. uart = [k \in 1..(sent - got) |-> got + k]
    BY DEF OutputInv, OutputDelivered
  <2>3. \A k \in 1..(sent - got) : got + k \in Nat
    BY DEF OutputInv
  <2>4. uart \in Seq(Nat) /\ Len(uart) = sent - got
    BY <2>1, <2>2, <2>3
  <2>5. uart' = [k \in 1..((sent - got) + 1) |-> IF k = (sent - got) + 1 THEN sent + 1 ELSE uart[k]]
    BY <1>2, <2>4
  <2>6. uart' = [k \in 1..(sent' - got') |-> got' + k]
    BY <2>1, <2>2, <2>5 DEF OutputInv
  <2>7. QED
    BY <1>2, <2>1, <2>6 DEF OutputInv, OutputDelivered
<1>3. QED
  BY <1>1, <1>2 DEF StepSimulator

\* A snapshot hands over all there is.
LEMMA DrainedInv ==
    ASSUME OutputInv, Drain PROVE OutputInv'
<1>1. sent - got \in Nat /\ uart = [k \in 1..(sent - got) |-> got + k]
  BY DEF OutputInv, OutputDelivered
<1>2. \A k \in 1..(sent - got) : got + k \in Nat
  BY DEF OutputInv
<1>3. Len(uart) = sent - got
  BY <1>1, <1>2
<1>4. got' = sent /\ sent' = sent /\ uart' = <<>>
  BY <1>3 DEF Drain, OutputInv
<1>5. sent' - got' = 0
  BY <1>4 DEF OutputInv
<1>6. QED
  BY <1>4, <1>5 DEF OutputInv, OutputDelivered

LEMMA OutputNext == OutputInv /\ [Next]_vars => OutputInv'
<1>. SUFFICES ASSUME OutputInv, [Next]_vars PROVE OutputInv'
  OBVIOUS
<1>1. ASSUME UNCHANGED output PROVE OutputInv'
  BY <1>1 DEF output, OutputInv, OutputDelivered
<1>2. ASSUME NewSimulator PROVE OutputInv'
  BY <1>2 DEF NewSimulator, OutputInv, OutputDelivered
<1>3. ASSUME NEW c \in Clients, Proceed(c) PROVE OutputInv'
  <2>1. CASE StepOne(c)
    BY <1>1, <2>1, PrintedInv DEF StepOne
  <2>2. CASE Load(c)
    BY <1>2, <2>2 DEF Load
  <2>3. CASE Answer(c)
    BY <2>3, DrainedInv DEF Answer
  <2>4. CASE AskToPause(c) \/ LookForThread(c) \/ Join(c) \/ JoinThrows(c) \/ ClearRunning(c)
    BY <1>1, <2>4 DEF AskToPause, LookForThread, Join, JoinThrows, ClearRunning, Quiet
  <2>5. CASE Mark(c) \/ Arm(c) \/ Go(c) \/ Spawn(c) \/ SpawnTwice(c)
    BY <1>1, <2>5 DEF Mark, Arm, Go, Spawn, SpawnTwice, Quiet
  <2>6. QED
    BY <1>3, <2>1, <2>2, <2>3, <2>4, <2>5 DEF Proceed
<1>4. ASSUME NEW c \in Clients, NEW o \in Ops, Request(c, o) PROVE OutputInv'
  BY <1>1, <1>4 DEF Request
<1>5. CASE RunLoop
  <2>1. CASE LoopStep
    BY <2>1, PrintedInv DEF LoopStep
  <2>2. CASE LoopHead \/ LoopCheck \/ LoopLock \/ LoopEnd
    BY <1>1, <2>2 DEF LoopHead, LoopCheck, LoopLock, LoopEnd
  <2>3. QED
    BY <1>5, <2>1, <2>2 DEF RunLoop
<1>6. CASE Poll
  BY <1>6, DrainedInv DEF Poll
<1>7. CASE \E a \in Pcs : EditBreakpoint(a)
  BY <1>1, <1>7 DEF EditBreakpoint
<1>8. CASE UNCHANGED vars
  BY <1>1, <1>8 DEF vars
<1>9. QED
  BY <1>3, <1>4, <1>5, <1>6, <1>7, <1>8 DEF Next

\* Every character is handed to one client once and in order, whoever asks, also when requests
\* overlap, for programs that print any number of them.
THEOREM OutputDeliveredHolds == Spec => []OutputDelivered
<1>1. Init => OutputInv
  BY DEF Init, OutputInv, OutputDelivered
<1>2. OutputInv => OutputDelivered
  BY DEF OutputInv
<1>3. QED
  BY <1>1, <1>2, OutputNext, PTL DEF Spec

-----------------------------------------------------------------------------
(* The debugger that the session is *)

Resting == loop \in {"gone", "end"}

LEMMA ModeIs ==
    ASSUME loaded \in BOOLEAN
    PROVE  Mode = IF ~loaded THEN "empty" ELSE IF Resting THEN "stopped" ELSE "running"
BY DEF Mode, Resting

LEMMA ModeIsNext ==
    ASSUME loaded' \in BOOLEAN
    PROVE  Mode' = IF ~loaded' THEN "empty" ELSE IF Resting' THEN "stopped" ELSE "running"
BY DEF Mode, Resting

LEMMA StepAdvances ==
    ASSUME Types, StepSimulator
    PROVE  /\ Engine!Advance
           /\ Verdict(NextPc) = "go" => sim' # sim /\ sim'.pc \notin breakpoints
<1>1. sim' = [sim EXCEPT !.pc = NextPc] /\ UNCHANGED breakpoints
  BY DEF StepSimulator
<1>2. sim'.pc = NextPc
  BY <1>1 DEF Types
<1>3. CASE Kind = "lockup"
  <2>1. NextPc = sim.pc
    BY <1>3 DEF NextPc
  <2>2. sim' = sim
    BY <1>1, <2>1 DEF Types
  <2>3. QED
    BY <1>1, <1>3, <2>2, VerdictKnown DEF Engine!Advance
<1>4. CASE Kind # "lockup"
  <2>1. NextPc = (sim.pc + 1) % Length /\ NextPc # sim.pc
    BY <1>4, NextPcMoves
  <2>2. QED
    BY <1>1, <1>2, <2>1, VerdictKnown DEF Engine!Advance
<1>5. QED
  BY <1>3, <1>4

\* Behind pause() the run thread is gone.
LEMMA BehindPause ==
    ASSUME SessionInv, ~overlapped, NEW c \in Clients,
           at[c] \in Behind
    PROVE  loop = "gone"
BY DEF SessionInv, Paused, ThreadHeld

LEMMA StepRefines ==
    ASSUME SessionInv, SessionInv', [Next]_vars, ~overlapped'
    PROVE  [Engine!Next]_(Engine!vars)
<1>. DEFINE Stutter == UNCHANGED <<Mode, sim, breakpoints>>
<1>0. SUFFICES Engine!Next \/ Stutter
  BY DEF Engine!vars
<1>1. Types /\ Types' /\ (~overlapped => RunsLoaded)
  BY DEF SessionInv
<1>2. ASSUME UNCHANGED <<loop, loaded, sim, breakpoints>> PROVE Stutter
  BY <1>2 DEF Mode
<1>3. CASE RunLoop
  <2>0. ~overlapped /\ (loop # "gone" => loaded) /\ loaded' = loaded
    BY <1>1, <1>3 DEF RunLoop, LoopHead, LoopCheck, LoopLock, LoopStep, LoopEnd, Elsewhere, RunsLoaded,
                      machine, StepSimulator
  <2>1. CASE LoopHead \/ LoopCheck \/ LoopLock
    <3>1. UNCHANGED <<sim, breakpoints>> /\ loop \in {"head", "check", "lock"}
      BY <2>1 DEF LoopHead, LoopCheck, LoopLock, Loop, machine
    <3>2. Mode = "running" /\ Mode' \in {"running", "stopped"}
      BY <1>1, <2>0, <3>1, ModeIs, ModeIsNext DEF Types, Resting
    <3>3. QED
      BY <3>1, <3>2 DEF Engine!Next, Engine!Stop
  <2>2. CASE LoopStep
    <3>1. Engine!Advance /\ (Verdict(NextPc) = "go" => sim' # sim /\ sim'.pc \notin breakpoints)
      BY <1>1, <2>2, StepAdvances DEF LoopStep
    <3>2. loop = "batch" /\ (Verdict(NextPc) = "go" \/ loop' = "gone")
          /\ loop' \in {"head", "batch", "gone"} /\ (Verdict(NextPc) = "go" => loop' # "gone")
      BY <2>2 DEF LoopStep, Loop
    <3>3. Mode = "running"
      BY <1>1, <2>0, <3>2, ModeIs DEF Types, Resting
    <3>4. IF loop' = "gone" THEN Mode' = "stopped" ELSE Mode' = "running"
      BY <1>1, <2>0, <3>2, ModeIsNext DEF Types, Resting
    <3>5. QED
      BY <3>1, <3>2, <3>3, <3>4 DEF Engine!Next, Engine!Execute
  <2>3. CASE LoopEnd
    <3>1. UNCHANGED <<sim, breakpoints>> /\ loop = "end" /\ loop' = "gone"
      BY <2>3 DEF LoopEnd, Loop
    <3>2. Mode = "stopped" /\ Mode' = "stopped"
      BY <1>1, <2>0, <3>1, ModeIs, ModeIsNext DEF Types, Resting
    <3>3. QED
      BY <3>1, <3>2
  <2>4. QED
    BY <1>3, <2>1, <2>2, <2>3 DEF RunLoop
<1>4. ASSUME NEW c \in Clients, Proceed(c) PROVE Engine!Next \/ Stutter
  <2>1. CASE AskToPause(c) \/ LookForThread(c) \/ Join(c) \/ JoinThrows(c) \/ ClearRunning(c)
    BY <1>2, <2>1 DEF AskToPause, LookForThread, Join, JoinThrows, ClearRunning, Quiet, machine
  <2>2. CASE Mark(c) \/ Arm(c) \/ Go(c) \/ SpawnTwice(c) \/ Answer(c)
    BY <1>2, <2>2 DEF Mark, Arm, Go, SpawnTwice, Answer, Drain, Quiet, machine, thread
  <2>3. CASE Spawn(c)
    <3>1. /\ at[c] = "spawn" /\ ~overlapped /\ loop' = "head"
          /\ UNCHANGED <<sim, breakpoints, loaded>>
      BY <2>3 DEF Spawn, Goes, machine
    <3>2. loop = "gone" /\ loaded
      BY <1>1, <3>1, BehindPause DEF RunsLoaded, Starting
    <3>3. Mode = "stopped" /\ Mode' = "running"
      BY <1>1, <3>1, <3>2, ModeIs, ModeIsNext DEF Types, Resting
    <3>4. QED
      BY <3>1, <3>3 DEF Engine!Next, Engine!Run
  <2>4. CASE StepOne(c)
    <3>1. at[c] = "body" /\ ~overlapped /\ UNCHANGED <<loop, loaded, breakpoints>>
      BY <2>4 DEF StepOne, Goes, thread, machine, StepSimulator
    <3>2. CASE ~loaded
      BY <1>2, <2>4, <3>1, <3>2 DEF StepOne, machine
    <3>3. CASE loaded
      <4>1. Engine!Advance
        BY <1>1, <2>4, <3>3, StepAdvances DEF StepOne
      <4>2. loop = "gone"
        BY <3>1, BehindPause
      <4>3. Mode = "stopped" /\ Mode' = Mode
        BY <1>1, <3>1, <3>3, <4>2, ModeIs, ModeIsNext DEF Types, Resting
      <4>4. QED
        BY <4>1, <4>3 DEF Engine!Next, Engine!Step
    <3>4. QED
      BY <3>2, <3>3
  <2>5. CASE Load(c)
    <3>1. at[c] = "body" /\ ~overlapped /\ UNCHANGED loop
      BY <2>5 DEF Load, Goes, thread
    <3>2. loop = "gone"
      BY <3>1, BehindPause
    <3>3. sim' \in [image : Images, pc : {0}]
      BY <2>5 DEF Load, NewSimulator, Fresh
    <3>4. \/ loaded' = TRUE /\ breakpoints' = {}
          \/ loaded' = FALSE /\ UNCHANGED breakpoints
      BY <2>5 DEF Load
    <3>5. Mode # "running" /\ Mode' = (IF loaded' THEN "stopped" ELSE "empty")
      BY <1>1, <3>1, <3>2, ModeIs, ModeIsNext DEF Types, Resting
    <3>6. QED
      BY <3>3, <3>4, <3>5 DEF Engine!Next, Engine!Load
  <2>6. QED
    BY <1>4, <2>1, <2>2, <2>3, <2>4, <2>5 DEF Proceed
<1>5. ASSUME NEW c \in Clients, NEW o \in Ops, Request(c, o) PROVE Stutter
  BY <1>2, <1>5 DEF Request, thread, machine
<1>6. CASE Poll
  BY <1>2, <1>6 DEF Poll, Drain, thread, machine
<1>7. CASE \E a \in Pcs : EditBreakpoint(a)
  <2>1. UNCHANGED <<loop, loaded, sim>>
    BY <1>7 DEF EditBreakpoint, thread
  <2>2. UNCHANGED <<Mode, sim>>
    BY <2>1 DEF Mode
  <2>3. breakpoints' \in SUBSET Pcs
    BY <1>1 DEF Types
  <2>4. QED
    BY <2>2, <2>3 DEF Engine!Next, Engine!SetBreakpoints, Engine!Pcs, Pcs
<1>8. CASE UNCHANGED vars
  BY <1>2, <1>8 DEF vars, thread, machine
<1>9. QED
  BY <1>3, <1>4, <1>5, <1>6, <1>7, <1>8 DEF Next

\* Asked one thing at a time, the session is the debugger that DebugEngine describes: it
\* starts as one, and every step is one of the engine's or none, for any programs and batches.
THEOREM ImplementsEngineHolds == Spec => Engine!Init /\ ImplementsEngine
<1>1. Init => Engine!Init
  <2>. SUFFICES ASSUME Init PROVE Engine!Init
    OBVIOUS
  <2>1. Mode = "empty" /\ breakpoints = {} /\ sim \in [image : Images, pc : {0}]
    BY DEF Init, Mode, Fresh
  <2>2. QED
    BY <2>1 DEF Engine!Init
<1>2. SessionInv /\ SessionInv' /\ [Next]_vars => [~overlapped' => Engine!Next]_(Engine!vars)
  BY StepRefines
<1>3. QED
  BY <1>1, <1>2, InitInv, NextInv, PTL DEF Spec, ImplementsEngine
=============================================================================
