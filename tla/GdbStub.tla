------------------------------- MODULE GdbStub -------------------------------
(***************************************************************************)
(* Who executes a program: Simulator::run, until it ends, or the GDB stub, *)
(* packet by packet.  The stub answers a step at once; while it continues  *)
(* it looks at nothing else.  drive is                                     *)
(*   mode          "empty", "stopped" or "running"                         *)
(*   count         instructions of this run                                *)
(*   breakpoints   addresses                                               *)
(*   stop          why it stands: the stop reply, or how the run ended     *)
(*   caught        history: watched accesses since the last one reported   *)
(* and ticks the cycles by which the last step clocked the peripherals.    *)
(***************************************************************************)
EXTENDS Armv6m

CONSTANTS
    MaxSteps,       \* where a run gives up: 100 000 000 and max_instructions in the code
    MaxWatch,       \* bound: watchpoints at a time
    Watches,        \* watchpoints a debugger sets, [addr, len, onRead, onWrite]
    Breaks,         \* addresses it sets breakpoints at
    Pokes           \* what it writes: [addr, value]

VARIABLES program, machine, ticks, drive

stubVars == <<program, machine, ticks, drive>>

NoStop == [kind |-> "none", addr |-> -1, write |-> FALSE]

Stop(kind) == [NoStop EXCEPT !.kind = kind]

Standby(mode) == [mode |-> mode, count |-> 0, breakpoints |-> {}, stop |-> NoStop, caught |-> {}]

-----------------------------------------------------------------------------
\* One instruction, and the peripherals by what it has added to the cycle counter
Stepped == StepCpu([machine EXCEPT !.mem.log = {}], program)

Ticks(next) == (next.cpu.cycles - machine.cpu.cycles) % CycleMod

\* How Simulator::run judges the step that has led to `next'
RunVerdict(next) ==
    CASE next.status = "Ok" /\ next.cpu.pc = machine.cpu.pc -> "self_branch"
      [] next.status \notin {"Ok", "WaitingForInterrupt"} -> next.status
      [] drive.count + 1 = MaxSteps -> "hit_cap"
      [] OTHER -> "none"

RunStep ==
    /\ drive.mode = "running"
    /\ machine' = Stepped
    /\ ticks' = Ticks(machine')
    /\ drive' = [drive EXCEPT !.count = @ + 1, !.stop = Stop(RunVerdict(machine')),
                              !.mode = IF RunVerdict(machine') = "none" THEN "running" ELSE "stopped"]
    /\ UNCHANGED program

-----------------------------------------------------------------------------
\* Mutant: breakpoints looked up by the address that has been executed
GdbVerdictLate(next, single) ==
    CASE next.status = "Breakpoint" -> Stop("S05")
      [] next.status = "Lockup" -> Stop("S0B")
      [] next.status \notin {"Breakpoint", "Lockup"} /\ next.mem.hit # None ->
            [kind |-> "T05", addr |-> next.mem.hit.addr, write |-> next.mem.hit.write]
      [] OTHER ->
            IF single \/ machine.cpu.pc \in drive.breakpoints \/ next.cpu.pc = machine.cpu.pc
                \/ drive.count + 1 = MaxSteps
            THEN Stop("S05") ELSE NoStop

\* The stub judges a step in this order; a breakpoint instruction comes before a hit,
\* which then stays latched.
GdbVerdict(next, single) ==
    CASE next.status = "Breakpoint" -> Stop("S05")
      [] next.status = "Lockup" -> Stop("S0B")
      [] next.status \notin {"Breakpoint", "Lockup"} /\ next.mem.hit # None ->
            [kind |-> "T05", addr |-> next.mem.hit.addr, write |-> next.mem.hit.write]
      [] OTHER ->
            IF single \/ next.cpu.pc \in drive.breakpoints \/ next.cpu.pc = machine.cpu.pc
                \/ drive.count + 1 = MaxSteps
            THEN Stop("S05") ELSE NoStop

\* One instruction of a run, after which a hit that is reported has been taken
GdbStep(next, single) ==
    LET stop == GdbVerdict(next, single)
        before == IF drive.stop.kind = "T05" THEN {} ELSE drive.caught
    IN  /\ machine' = IF stop.kind = "T05" THEN [next EXCEPT !.mem = TakeHit(@)] ELSE next
        /\ ticks' = Ticks(next)
        /\ drive' = [drive EXCEPT !.count = IF single \/ stop # NoStop THEN 0 ELSE @ + 1,
                                  !.stop = stop, !.caught = before \cup Caught(next.mem),
                                  !.mode = IF stop = NoStop THEN "running" ELSE "stopped"]
        /\ UNCHANGED program

\* Packet c; the stub then executes until it has a reply.
Continue ==
    /\ drive.mode = "stopped"
    /\ drive' = [drive EXCEPT !.mode = "running", !.count = 0, !.stop = NoStop,
                              !.caught = IF drive.stop.kind = "T05" THEN {} ELSE @]
    /\ UNCHANGED <<program, machine, ticks>>

\* A program is followed until an exception finds room on the stack.
Followed == Stepped.status # "ExceptionTaken"

ContinueStep == drive.mode = "running" /\ Followed /\ GdbStep(Stepped, FALSE)

\* Packet s
StepPacket == drive.mode = "stopped" /\ Followed /\ GdbStep(Stepped, TRUE)

Standing == drive.mode = "stopped" /\ UNCHANGED <<program, ticks>>

\* Packets Z0 and z0
SetBreakpoint(addr) ==
    Standing /\ drive' = [drive EXCEPT !.breakpoints = @ \cup {addr}] /\ UNCHANGED machine

ClearBreakpoint(addr) ==
    Standing /\ drive' = [drive EXCEPT !.breakpoints = @ \ {addr}] /\ UNCHANGED machine

\* Packets Z2 to Z4, and z2 to z4, which look at the address only
SetWatchpoint(w) ==
    /\ Standing
    /\ Len(machine.mem.watch) < MaxWatch
    /\ machine' = [machine EXCEPT !.mem = AddWatch(@, w)]
    /\ UNCHANGED drive

ClearWatchpoint(addr) ==
    Standing /\ machine' = [machine EXCEPT !.mem = RemoveWatch(@, addr)] /\ UNCHANGED drive

\* Packet M of one byte, through the bus but unseen by the watchpoints
WriteMemory(addr, v) ==
    LET written == Write([machine.mem EXCEPT !.quiet = TRUE], addr, 1, v)
    IN  /\ Standing
        /\ machine' = [machine EXCEPT !.mem = [written.mem EXCEPT !.quiet = FALSE]]
        /\ UNCHANGED drive

\* The command line loads the program and waits for a debugger.
Serve ==
    /\ drive.mode = "empty"
    /\ drive' = [drive EXCEPT !.mode = "stopped"]
    /\ UNCHANGED <<program, machine, ticks>>

GdbNext ==
    \/ Serve
    \/ Continue
    \/ ContinueStep
    \/ StepPacket
    \/ \E addr \in Breaks : SetBreakpoint(addr) \/ ClearBreakpoint(addr)
    \/ \E w \in Watches : SetWatchpoint(w) \/ ClearWatchpoint(w.addr)
    \/ \E poke \in Pokes : WriteMemory(poke.addr, poke.value)

-----------------------------------------------------------------------------
\* Any program in the memory, any bytes beside it and anything in the low registers
GdbInit ==
    /\ IsProgram(program)
    /\ machine.cpu.r \in [0..12 -> Word]
    /\ machine.mem.cell \in [{a \in Word : Backed(a, 1)} -> 0..(ByteMod - 1)]
    /\ machine = [cpu |-> [ResetCpu EXCEPT !.r = machine.cpu.r],
                  mem |-> Fresh(machine.mem.cell), status |-> "Ok"]
    /\ ticks = 0
    /\ drive = Standby("empty")

GdbSpec == GdbInit /\ [][GdbNext]_stubVars

\* What the theorems about the stub assume of the constants: operations on words give
\* words, and no watchpoint reaches the end of the address space, where it would wrap
\* around and catch nothing.
StubAssumption ==
    /\ Placed
    /\ Width = 4 * ByteBits
    /\ \A x \in Word, y \in Word : And(x, y) \in Word /\ Or(x, y) \in Word /\ Xor(x, y) \in Word
    /\ Vector.sp \in Word /\ Vector.pc \in Word
    /\ CycleMod \in Nat \ {0}
    /\ \A w \in Watches :
        /\ w \in [addr : Word, len : Word, onRead : BOOLEAN, onWrite : BOOLEAN]
        /\ w.addr + w.len < Modulus /\ w.addr + 1 < Modulus
    /\ \A poke \in Pokes : poke.addr \in Word /\ poke.value \in Word

\* No access that a watchpoint was set for is run past, and a stop at one names an access
\* that was made since the last such stop, while the program is followed.
WatchCaught ==
    /\ drive.mode = "running" /\ drive.count > 0 => Caught(machine.mem) = {}
    /\ drive.stop.kind = "T05" => [addr |-> drive.stop.addr, write |-> drive.stop.write] \in drive.caught
=============================================================================
