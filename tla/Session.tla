------------------------------ MODULE Session ------------------------------
(***************************************************************************)
(* The debugger of the local web lab: class DebugSession of                *)
(* tools/lab_server/debug_session.cpp.  Handler threads of the HTTP server *)
(* carry out requests; one background thread runs the firmware in batches  *)
(* of instructions.  They share the simulator and the status under the     *)
(* mutex mu_, and running_, pause_requested_ and run_thread_ without it.   *)
(*                                                                         *)
(* A handler's critical section is one action, which the mutex allows when *)
(* it is free; the run thread holds the mutex from one action to another.  *)
(* The firmware is a loop of instructions, some of which print, trap or    *)
(* lock up; of the machine's state only the PC matters here.               *)
(***************************************************************************)
EXTENDS Integers, Sequences, FiniteSets

CONSTANTS
    Clients,    \* handler threads that serve /run, /pause, /step and /load
    Length,     \* the firmware is a loop of this many instructions
    Images,     \* the programs that can be loaded
    Batch,      \* kBatchSize, 2000 in the code
    MaxOut      \* bound: characters a program prints

Pcs == 0..(Length - 1)
Kinds == {"plain", "print", "bkpt", "lockup"}

ASSUME ClientsAssumption == IsFiniteSet(Clients)
ASSUME LengthAssumption == Length \in Nat /\ Length > 1
ASSUME ImagesAssumption == Images \subseteq [Pcs -> Kinds] /\ Images # {}
ASSUME BoundsAssumption == Batch \in Nat \ {0} /\ MaxOut \in Nat

VARIABLES
    at, op,             \* where each handler thread is, and in which request
    pauseRequested,     \* pause_requested_
    running,            \* running_
    joinable,           \* run_thread_.joinable()
    loop,               \* where the run thread is
    batch,              \* i of run_loop
    locked,             \* the run thread holds mu_
    sim,                \* sim_: the program, and the PC
    loaded,             \* loaded_
    status,             \* status_
    breakpoints,        \* breakpoints_
    sent, uart, got,    \* characters printed; in uart0_buf_; handed to a client
    terminated,         \* the process called std::terminate
    overlapped          \* history: two requests have been under way at once

thread == <<pauseRequested, running, joinable, loop, batch, locked>>
machine == <<sim, loaded, status, breakpoints>>
output == <<sent, uart, got>>
vars == <<at, op, thread, machine, output, terminated, overlapped>>

-----------------------------------------------------------------------------
Ops == {"run", "pause", "step", "load"}

Fresh(img) == [image |-> img, pc |-> 0]

Init ==
    /\ at = [c \in Clients |-> "idle"] /\ op = [c \in Clients |-> "none"]
    /\ pauseRequested = FALSE /\ running = FALSE /\ joinable = FALSE
    /\ loop = "gone" /\ batch = 0 /\ locked = FALSE
    /\ \E img \in Images : sim = Fresh(img)
    /\ loaded = FALSE /\ status = "Idle" /\ breakpoints = {}
    /\ sent = 0 /\ uart = <<>> /\ got = 0
    /\ terminated = FALSE /\ overlapped = FALSE

\* Handler c is at one place and goes on to another.
Goes(c, here, there) ==
    /\ ~terminated
    /\ at[c] = here
    /\ at' = [at EXCEPT ![c] = there]
    /\ op' = IF there = "idle" THEN [op EXCEPT ![c] = "none"] ELSE op
    /\ UNCHANGED <<terminated, overlapped>>

-----------------------------------------------------------------------------
\* DebugSession::step_locked

Kind == sim.image[sim.pc]

\* Mutant: breakpoints are only looked at when a batch is over.
VerdictPerBatch(pc) ==
    CASE Kind = "lockup" -> "Fault"
      [] Kind = "bkpt" -> "Breakpoint"
      [] Kind \in {"plain", "print"} ->
            IF pc \in breakpoints /\ batch + 1 = Batch THEN "Breakpoint" ELSE "go"

\* What stops the program after an instruction that left the PC at pc
Verdict(pc) ==
    CASE Kind = "lockup" -> "Fault"
      [] Kind = "bkpt" -> "Breakpoint"
      [] Kind \in {"plain", "print"} -> IF pc \in breakpoints THEN "Breakpoint" ELSE "go"

NextPc == IF Kind = "lockup" THEN sim.pc ELSE (sim.pc + 1) % Length

\* Simulator::step, and the UART callback it makes
StepSimulator ==
    /\ sim' = [sim EXCEPT !.pc = NextPc]
    /\ IF Kind = "print" /\ sent < MaxOut
       THEN sent' = sent + 1 /\ uart' = Append(uart, sent + 1)
       ELSE UNCHANGED <<sent, uart>>
    /\ UNCHANGED <<loaded, breakpoints, got>>

-----------------------------------------------------------------------------
\* DebugSession::run_loop

Loop(here, there) == ~terminated /\ loop = here /\ loop' = there

Elsewhere == UNCHANGED <<at, op, pauseRequested, joinable, terminated, overlapped>>

LoopHead ==
    /\ Loop("head", IF running THEN "check" ELSE "end")
    /\ Elsewhere /\ UNCHANGED <<running, batch, locked, machine, output>>

\* Mutant: only a batch under way looks for a request to pause.
LoopCheckNothing ==
    /\ Loop("check", "lock")
    /\ Elsewhere /\ UNCHANGED <<running, batch, locked, machine, output>>

LoopCheck ==
    /\ Loop("check", IF pauseRequested THEN "end" ELSE "lock")
    /\ Elsewhere /\ UNCHANGED <<running, batch, locked, machine, output>>

LoopLock ==
    /\ Loop("lock", "batch")
    /\ ~locked /\ locked' = TRUE /\ batch' = 0
    /\ Elsewhere /\ UNCHANGED <<running, machine, output>>

BatchDone(i) == i >= Batch

\* One instruction, and the look at pause_requested_ after it.
LoopStep ==
    /\ Elsewhere
    /\ StepSimulator
    /\ \/ /\ Verdict(NextPc) = "go"
          /\ IF BatchDone(batch + 1) \/ pauseRequested
             THEN Loop("batch", "head") /\ batch' = 0 /\ locked' = FALSE
             ELSE Loop("batch", "batch") /\ batch' = batch + 1 /\ UNCHANGED locked
          /\ UNCHANGED <<running, status>>
       \/ /\ Verdict(NextPc) # "go"
          /\ Loop("batch", "gone") /\ batch' = 0 /\ locked' = FALSE
          /\ running' = FALSE
          /\ status' = Verdict(NextPc)

\* Mutant: the status is left as it is.
LoopEndSilently ==
    /\ Loop("end", "gone") /\ ~locked
    /\ Elsewhere /\ UNCHANGED <<running, batch, locked, machine, output>>

LoopEnd ==
    /\ Loop("end", "gone") /\ ~locked
    /\ status' = IF status = "Running" THEN "Halted" ELSE status
    /\ Elsewhere /\ UNCHANGED <<running, batch, locked, sim, loaded, breakpoints, output>>

RunLoop == LoopHead \/ LoopCheck \/ LoopLock \/ LoopStep \/ LoopEnd

-----------------------------------------------------------------------------
\* DebugSession::pause, which every request begins with

Quiet == UNCHANGED <<joinable, loop, batch, locked, machine, output>>

Request(c, o) ==
    /\ ~terminated
    /\ at[c] = "idle"
    /\ at' = [at EXCEPT ![c] = "ask"]
    /\ op' = [op EXCEPT ![c] = o]
    /\ overlapped' = (overlapped \/ \E d \in Clients \ {c} : at[d] # "idle")
    /\ UNCHANGED <<thread, machine, output, terminated>>

AskToPause(c) ==
    /\ Goes(c, "ask", "check")
    /\ pauseRequested' = TRUE
    /\ UNCHANGED running /\ Quiet

LookForThread(c) ==
    /\ Goes(c, "check", IF joinable THEN "join" ELSE "clear")
    /\ UNCHANGED <<pauseRequested, running>> /\ Quiet

\* Mutant: the thread is not waited for.
JoinAtOnce(c) ==
    /\ Goes(c, "join", "clear")
    /\ joinable' = FALSE
    /\ UNCHANGED <<pauseRequested, running, loop, batch, locked, machine, output>>

Join(c) ==
    /\ Goes(c, "join", "clear")
    /\ joinable /\ loop = "gone"
    /\ joinable' = FALSE
    /\ UNCHANGED <<pauseRequested, running, loop, batch, locked, machine, output>>

\* Somebody else has joined the thread, or waits for it: std::thread::join
\* throws, and the server answers the request with an error.
JoinThrows(c) ==
    /\ Goes(c, "join", "idle")
    /\ ~joinable \/ \E d \in Clients \ {c} : at[d] = "join"
    /\ UNCHANGED <<pauseRequested, running>> /\ Quiet

ClearRunning(c) ==
    /\ Goes(c, "clear", IF op[c] = "pause" THEN "idle" ELSE "body")
    /\ running' = FALSE
    /\ UNCHANGED pauseRequested /\ Quiet

-----------------------------------------------------------------------------
\* DebugSession::start_run

Mark(c) ==
    /\ op[c] = "run" /\ ~locked
    /\ Goes(c, "body", IF loaded THEN "arm" ELSE "idle")
    /\ status' = IF loaded THEN "Running" ELSE status
    /\ UNCHANGED <<thread, sim, loaded, breakpoints, output>>

Arm(c) ==
    /\ Goes(c, "arm", "go")
    /\ pauseRequested' = FALSE
    /\ UNCHANGED running /\ Quiet

Go(c) ==
    /\ Goes(c, "go", "spawn")
    /\ running' = TRUE
    /\ UNCHANGED pauseRequested /\ Quiet

Spawn(c) ==
    /\ ~joinable
    /\ Goes(c, "spawn", "idle")
    /\ joinable' = TRUE /\ loop' = "head"
    /\ UNCHANGED <<pauseRequested, running, batch, locked, machine, output>>

\* A thread is assigned to run_thread_ while that is another thread.
SpawnTwice(c) ==
    /\ joinable
    /\ ~terminated /\ at[c] = "spawn"
    /\ terminated' = TRUE
    /\ UNCHANGED <<at, op, thread, machine, output, overlapped>>

-----------------------------------------------------------------------------
\* DebugSession::step and load, and the snapshot in the answer to both

StepOne(c) ==
    /\ op[c] = "step" /\ ~locked
    /\ Goes(c, "body", "snapshot")
    /\ UNCHANGED thread
    /\ \/ ~loaded /\ UNCHANGED <<machine, output>>
       \/ /\ loaded
          /\ StepSimulator
          /\ status' = IF Verdict(NextPc) = "go" THEN "Halted" ELSE Verdict(NextPc)

\* Mutant: what the last program printed is kept.
NewSimulatorKeepingOutput ==
    /\ \E img \in Images : sim' = Fresh(img)
    /\ sent' = 0 /\ got' = 0 /\ UNCHANGED uart

NewSimulator ==
    /\ \E img \in Images : sim' = Fresh(img)
    /\ sent' = 0 /\ uart' = <<>> /\ got' = 0

Load(c) ==
    /\ op[c] = "load" /\ ~locked
    /\ NewSimulator
    /\ UNCHANGED thread
    /\ \/ /\ Goes(c, "body", "snapshot")
          /\ loaded' = TRUE /\ status' = "Halted" /\ breakpoints' = {}
       \/ /\ Goes(c, "body", "idle")   \* an image that cannot be read
          /\ loaded' = FALSE /\ status' = "Idle" /\ UNCHANGED breakpoints

\* DebugSession::snapshot hands over what was printed.
Drain ==
    /\ ~locked
    /\ got' = got + Len(uart) /\ uart' = <<>>
    /\ UNCHANGED <<sent, thread, machine>>

Answer(c) == Goes(c, "snapshot", "idle") /\ Drain

-----------------------------------------------------------------------------
\* Requests of other threads that take the mutex once: /state and /breakpoints

Poll == ~terminated /\ Drain /\ UNCHANGED <<at, op, terminated, overlapped>>

EditBreakpoint(a) ==
    /\ ~terminated /\ ~locked
    /\ \/ breakpoints' = breakpoints \cup {a}
       \/ breakpoints' = breakpoints \ {a}
    /\ UNCHANGED <<at, op, thread, sim, loaded, status, output, terminated, overlapped>>

-----------------------------------------------------------------------------
Proceed(c) ==
    \/ AskToPause(c) \/ LookForThread(c) \/ Join(c) \/ JoinThrows(c) \/ ClearRunning(c)
    \/ Mark(c) \/ Arm(c) \/ Go(c) \/ Spawn(c) \/ SpawnTwice(c)
    \/ StepOne(c) \/ Load(c) \/ Answer(c)

Next ==
    \/ \E c \in Clients : Proceed(c) \/ \E o \in Ops : Request(c, o)
    \/ RunLoop
    \/ Poll
    \/ \E a \in Pcs : EditBreakpoint(a)

\* The operating system runs every thread; nobody has to send a request.
Spec == Init /\ [][Next]_vars /\ WF_vars(RunLoop) /\ \A c \in Clients : WF_vars(Proceed(c))

-----------------------------------------------------------------------------
Starting == \E c \in Clients : at[c] \in {"arm", "go", "spawn"}

\* The status that a client reads says "running" exactly from the request to
\* run until the run thread has stopped for good, as long as the server is
\* asked one thing at a time.
StatusTruthful ==
    ~overlapped => (status = "Running" <=> Starting \/ loop # "gone")

\* Every character the program has printed is in the buffer or was handed to
\* one client, in the order of printing, and nothing of an earlier program.
OutputDelivered == uart = [k \in 1..(sent - got) |-> got + k]

\* Nobody steps or replaces the simulator between two batches of a run
\* (debug_session.h: load "stops any run in progress", step "only when not
\* running").
ControlAlone ==
    \A c \in Clients : at[c] = "body" /\ op[c] \in {"step", "load"} => loop # "lock"

Mode == CASE ~loaded -> "empty"
          [] loaded /\ loop \in {"gone", "end"} -> "stopped"
          [] loaded /\ loop \notin {"gone", "end"} -> "running"

Engine == INSTANCE DebugEngine WITH mode <- Mode

\* Asked one thing at a time, the session is the debugger that DebugEngine
\* describes.
ImplementsEngine == [][~overlapped' => Engine!Next]_(Engine!vars)

\* pause() returns, even while the firmware spins without end.
PauseReturns ==
    \A c \in Clients : at[c] = "join" /\ ~overlapped ~> at[c] # "join" \/ overlapped

\* A run comes to a breakpoint that lies on its way, unless it ends before.
BreakpointReached ==
    \A a \in Pcs :
        loop \notin {"gone", "end"} /\ a \in breakpoints /\ ~overlapped ~>
            loop \in {"gone", "end"} \/ a \notin breakpoints \/ overlapped

=============================================================================
