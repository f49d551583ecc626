# A verification project for RP2040-Simlator

RP2040-Simlator simulates the RP2040 microcontroller: two Cortex-M0+ cores, the
single-cycle IO block, DMA, PIO and the serial and timing peripherals, with a
GDB stub and a small web lab around it. This directory holds TLA+ modules that
model the processor, its peripherals and its debuggers, TLC configurations that check
them on small instances, and proofs, checked by TLAPS, of the properties of the
exception machinery, the SIO, the DMA, the lab's debug session, the PIO and the
peripherals for every value of the constants.

`PROJECT.json` lists the components, the runs, the theorems, the hazards and, for
every definition that models code, the source lines it stands for.

## 1. The system

`Simulator` owns everything. One `Simulator::step` lets core 0 execute one
`Cpu::step`, then core 1 if it was launched, and then gives the cycles core 0
spent to the peripherals: PIO blocks, SPI, I2C, UART, timer, watchdog, DMA and
so on, in a fixed order, in one thread. Peripherals reach the cores only by
`pend_exception` and `clear_pending`; cores reach peripherals by loads and stores
over `Memory`; callbacks connect the rest (launch of core 1, reset hooks, DREQ
sources, SEV targets). The lab server puts a `Simulator` into a `DebugSession` and
drives it from the threads of an HTTP server and one background thread.

| Component | State | Operations | What makes it hard | What makes it correct |
|---|---|---|---|---|
| `Cpu`, `RegisterFile` | pending, enabled and prioritised exceptions, IPSR, PRIMASK, MSP/PSP/SPSEL, sleep, event, SLEEPONEXIT | `step`, `take_exception`, `exception_return`, `signal_event`, `reset` | nesting with odd stack pointers on two stacks; an interrupt between any two instructions; two cores that wake each other; resets and launches at any time | a return finds its own frame and restores what was interrupted; no pending exception or event is lost |
| `Scs` | per core: NVIC enables, ICSR, priorities, SCR, SysTick | register reads and writes, `on_cycles` | banked by the active core | writes change the active core only |
| `InterruptController` | two cores | `pend_exception`, `clear_pending` | a line is broadcast to both cores, and a pending bit is cleared at handler entry, by a reset of the core or through the NVIC, although the line is a level | a cause that persists is pended again |
| `Sio` | two FIFOs with sticky flags, launch stage, 32 spinlocks, a divider | FIFO read, write, status; spinlock read, write; divider registers; `on_cycles` | shared by the cores; echoes and data share a FIFO; one divider for both cores | words arrive in order; a lock has one holder; the divider's result belongs to its user |
| `Dma` | 12 channels, pacing timers, INTR/INTE/INTF | register writes, triggers, `on_cycles`, abort, reset | reprogramming under way; chains and chain loops; fractional pacing; level interrupts shared by two cores | an interrupt means a complete transfer; chains start on success; the pace is exact; transfers end |
| `DebugSession` | simulator, status, breakpoints, UART buffers, run thread and its flags | `load`, `start_run`, `pause`, `step`, `snapshot`, breakpoints, displays | handler threads and a run thread; a mutex that does not guard the thread handle and the flags | nobody touches a running simulator; the status is true; output is handed over once; breakpoints stop |
| `PioBlock`, `StateMachine`, `PioRegisters` | per machine PC, X, Y, OSR, ISR, shift counts, stall, delay, FIFOs, settings; instruction memory, IRQ flags, dividers, CTRL, FDEBUG | `tick`, `exec`, `exec_immediate`, `restart`, register writes, `reset` | stalls and their retries against the processor's FIFO accesses; injected and forced instructions; several machines in lockstep; restarts | words pass once and in order; a rendezvous is answered once; FDEBUG tells the truth; dividers started together stay in step |
| `Uart`, `Spi`, `I2c` | two FIFOs or queues each, shift registers, masks, raw causes | register access, `feed`, device callbacks, `on_cycles` | full and empty FIFOs; settings changed and ports disabled in mid-frame; aborts and acknowledgements on the bus; a copy of the interrupt line | every byte once and in order, or a flag; the line follows its cause; what is queued gets out |
| `Timer`, `Watchdog`, `Rtc`, SysTick in `Scs` | counters, alarms, latches | register access, `on_cycles` | wrap-around, matches by equality, writes near a match, two words read one after the other, calendars | what is set for a time happens then; a time read was the time |
| `Pwm`, `Adc` | slices; conversion, round robin, FIFO | register access, `on_cycles` | turning at both ends, fractions, gates; a round robin that is changed under way | periods and duty cycles; every kept sample once |
| `Gpio`, `IoBank0`, `PadsBank0` | levels, drivers, overrides, pulls, edges | register access, `poll` | a level moves for many reasons, edges are differences of two polls, two cores share them | no edge missed or invented |
| `Clocks`, `clock_tree` | oscillators, PLLs, generators | register access, `sync_clock_pacing` | a change is noticed by a checksum | every peripheral runs at the pace its registers give it |
| `St7789`, `Ssd1306` | window, cursor, pixels | one byte from the bus | windows set in parts, wrapped and left in the middle | a display shows what was sent |
| `thumb_decode`, `alu`, `Cpu::execute`, `timing` | registers, flags, cycles | decode, execute | encodings; shifts by the width and more; flags; lists of registers that meet the end of memory; a reset in mid-step | the manual's table; arithmetic on numbers; calls return; a failed access does nothing |
| `Memory`, `AtomicPeripheral` | cells, blocks, watchpoints | `read_*`, `write_*` | alignment, ends of regions, aliases | bytes keep their order; every watched access is caught |
| `GdbStub` | breakpoints, watchpoints | `run`, packets | many reasons to stop after one instruction | a debugger like the session |
| PIO assembler, decoder, disassembler | symbols, layout of a program | `assemble_pio`, `pio_decode`, `pio_disassemble` | names used before and redefined after; five bits shared by delay and side-set, split in four places | every word reads as the line it came from |
| Loaders, compiler, profiler, frontend | protocol and text | parsing, formatting | text | as documented |

The order of this project follows the risk: first the machinery every firmware
depends on (exceptions, sleep), then the two shared units with interrupts of
their own (SIO, DMA), then the one part with real threads (the session), then the
other processors of the chip, the PIO state machines, then the peripherals that
firmware waits for, the instructions themselves and who executes them, and last the tools
that write and read the instructions of the PIO.

## 2. The modules

### CortexM0: exceptions, stacks and sleep

Source: `core/cpu.cpp`, `core/registers.cpp`, `core/scs.cpp`, the launch and reset
hooks of `simulator.cpp`. Each action is one call of `Cpu::step` of a core that runs
(or one event between two calls): `TakePending`, `Idle`, and, when neither applies,
one instruction: `ExceptionReturn`, `Fault`, `Svc`, `Wfi`, `Wfe`, `Sev`, `SetPrimask`,
`SetSpsel`, `SetPsp`, `PushPop`, the stores to the System Control Space, `SystemReset`,
or `Plain` for every instruction that changes nothing of this state. Interrupt lines
rise and fall, the watchdog resets core 0 or both, and core 0 launches core 1,
between any two steps. Stack pointers are counted in words, so that a stack pointer
that is not 8-byte aligned is odd; a frame records where it was pushed, whether a
word was skipped, its EXC_RETURN, and (as history, in `before`) the context it
interrupted.

Firmware is any instruction sequence that keeps the calling convention: a handler
returns with the EXC_RETURN and the stack pointer it was entered with, and leaves
the priorities of active exceptions and PSP alone. Not modelled: NMI, a vector
that cannot be read, a stack that can be pushed only in part.

### Sio: mailboxes, launch, spinlocks, divider

Source: `peripherals/sio.cpp`. `MailboxWrite`, `FifoRead` and the status write for the
active core, including the echo to core 0, the launch sequence (`LaunchMachine`), the
sticky flags and `refresh_fifo_irqs`; `Claim` and `Release` of a spinlock; the divider's
registers with its countdown. A core's interrupt is pending, being served or
neither; entering the handler clears the pending bit, as `Cpu::step` does, a reset of the
core drops it, and `WriteNvic` sets or clears it. The range of the divider's words (2 · `Half`) and the depth of the FIFOs are constants. The GPIO
registers of the block are in `Pins`.

### Dma: channels, chains, pacing, interrupts

Source: `peripherals/dma.cpp`. Register writes are one action per register, with the
aliases as a "triggering" flag; a write happens between two rounds of `on_cycles`.
`Serve` is one turn of the inner loop of `on_cycles` for one channel: the variable
`turn` is the loop variable, so an interrupt handler never runs in the middle of a
round, as in the code. `Dma::trigger` and `Dma::complete` call each other recursively
for null transfers; the module states the outcome of that recursion in closed
form (`Walk`, `Reached`, `Overrun`, `NullDone`), up to the depth guard, which is one of the
things checked. Elements are counted; addresses, data and the sniffer are left out,
and no transfer writes the DMA's own registers.

### Pio: state machines, FIFOs, flags, dividers

Source: `pio/state_machine.cpp`, `pio/pio_block.cpp`, `pio/pio_fifo.h`,
`pio/pio_registers.cpp`. A machine is a record, as `StateMachine` is a class, and `Exec` is
`StateMachine::exec`: from a machine, the flags and an instruction to the machine and
the flags afterwards, and whether it stalled. `Execute`, `RetryPush`, `AwaitWord` and
`DelaySlot` are the branches of `StateMachine::tick`, `Skip` a machine that is off or
whose divided clock does not tick; `turn` is the loop variable of `PioBlock::tick`. The
processor acts between two ticks, one register access at a time; `WriteInstr` is
`exec_immediate`. Words have `Width` bits and everything is computed on them as in the
code; an instruction is a record instead of 16 bits, and `Decode` says which one a word
encodes that OUT EXEC or MOV EXEC executes (an injected instruction does not
inject another one; the code would recurse). A pin is a free input.

`duty` says what firmware uses a machine for, until the processor interferes with it:
copy words from its TX to its RX FIFO, ring, or answer. `due` are the words a
copying machine owes, `met` counts answers less finished rings, `asked` are the
machines whose TXSTALL has been cleared since their last word, and `phased` those
whose dividers were restarted by one write.

`PioWork` is what firmware loads and sets up: six programs that copy words, in as many ways
as a word can go through a machine (as a whole, bit by bit with autopush and autopull, by IFEMPTY
and IFFULL, by an injected PULL, by OUT ISR), and one in which the first machine rings and
the last one answers. It is no part of the program. From such a block on (`WorkInit`) all
of `Pio`'s actions are possible (`WorkSpec`): that is what `Copied` and `Rendezvous` are proved of.

Left out: what is written to pins, side-set, and the lines to the NVIC.

### Session and DebugEngine: the debugger of the web lab

Source: `tools/lab_server/debug_session.cpp` and the routes of `main.cpp`. `at` says where
each handler thread is in its request, `loop` where the run thread is in `run_loop`.
`pause_requested_`, `running_` and `run_thread_` are read and written one at a time, as
the code does, without the mutex. A handler's critical section is one action,
possible only while the run thread does not hold the mutex; the run thread holds
it for a batch of instructions, each an action. `joinable` is the thread handle: a
join of a handle that somebody else joins throws (the server answers with an
error), an assignment to a joinable handle terminates the process. The firmware is a
loop of instructions that may print, trap or lock up.

`DebugEngine` is the abstract specification: a program is empty, stopped or running;
only a stopped one is stepped or replaced; a run stops no later than at its first
breakpoint. `Session` implements it, with `mode` computed from `loaded_` and `loop`,
as long as requests do not overlap (`overlapped` records that two have). The GDB
stub implements it, too (below).

### The peripherals: one module each, composed by Peripherals

Each module keeps the C++ object in one record and, beside it, what firmware may still
do and history. An action is one register access, one call of whatever is wired to the
object, or one cycle of its own clock, which is one round of the loop in `on_cycles`:
register accesses come between any two rounds, also between two that one
`Simulator::step` makes together. Every action ends in the module's `Refresh...`
operator where the code calls `refresh_irq`, and nowhere else. A core is what its line
sees of it, which happens without a refresh: `EnterHandler` clears the pending bit and leaves the
cause, `ResetCore` drops it (`Cpu::reset` zeroes `pending_` and tells no unit), and `WriteNvic`
(NVIC_ISPR, NVIC_ICPR) turns it around. The history `touched` says whether the bit is another than
the unit's last refresh left; `LineFollowsCause` speaks of the bit as the unit left it. Firmware
changes any setting at any time; `Settings` holds the settings it writes, `Traffic` how much it does.

`Peripherals` puts them side by side: they share no state, so a behaviour is that of one
`unit`, with `dev` for its object and `past` for its history. It states the properties for
all of them, for any sizes; `MCPeripherals` only gives the constants values. Its assumptions are
what the code guarantees of them: registers hold the values of their width (`Settings`,
`Times`, `Tops`), a paced unit has at least one cycle per tick (`timer.h:40`,
`watchdog.h:61`), an alarm is set by fields of IRQ_SETUP_0 and IRQ_SETUP_1. `ClockTree`
keeps the registers and their checksum as sets of bits, so that XOR is the symmetric
difference of the code (`Ones`, `Differ`).

| Module | Source | Left out |
|---|---|---|
| `Uart` | `uart.cpp`: both FIFOs and shift registers, baud rate with its fraction, breaks, errors, masks, DREQs | modem lines |
| `Spi` | `spi.cpp`: FIFOs, frames, the edges of SCK and MOSI in all four modes, loopback, DREQs | which pins carry the signals |
| `I2c` | `i2c.cpp`: command queue, both address widths, aborts, stretching, the device side | the waveform of SCL and SDA |
| `Timer` | `timer.cpp`: count, latch, alarms, pause, forced interrupts, DBGPAUSE as pause | |
| `Watchdog` | `watchdog.cpp`: countdown by two, ticks, load, trigger, reset | scratch registers (in `Memory`) |
| `SysTick` | `scs.cpp`: CSR, RVR, CVR, `on_cycles` | the reference clock, CALIB |
| `Pwm` | `pwm.cpp`: a slice, its divider and gate, outputs, interrupt, PH_ADV and PH_RET | the other seven slices |
| `Adc` | `adc.cpp`: one-shot and free-running conversions, round robin, FIFO, threshold, interrupt, DREQ | the values of samples |
| `Rtc` | `rtc.cpp`: calendar, load, alarm, interrupt | |
| `Pins` | `gpio.cpp`, `iobank0.cpp`, `padsbank0.cpp`, the GPIO registers of `sio.cpp` | drive strength, slew rate, QSPI bank |
| `ClockTree` | `clocks.cpp`, `clock_tree.cpp`, `Simulator::sync_clock_pacing` | random bit, frequency counter |
| `St7789`, `Ssd1306` | `st7789.cpp`, `ili9341.h`, `ssd1306.cpp` | inversion, on and off |

Bytes and samples are known by their numbers, so that loss, doubling and reordering
show. History says what a property needs: the ones lost to an overrun (`lost`), whether
firmware had more under way than a FIFO holds (`crowded`), how long ago an alarm was set (`left`,
`age`, `since`), what a device saw on MOSI (`seen`), or what the calendar was set to
(`base`). Masks and other registers with a bit per cause are sets.

### The processor: Thumb, Alu, Memory, Armv6m, GdbStub and MCProcessor

`Thumb` is `thumb_decode.cpp` at its real width: sixteen or thirty-two bits to an
instruction record. `Alu` (`alu.cpp`, `registers.cpp`), `Memory` (`memory.cpp`,
`atomic_peripheral.h`) and `Armv6m` (`Cpu::execute`, its helpers, `timing.cpp` and
`Cpu::step` as far as `CortexM0` does not have it) compute on words of `Width` bits and
bytes of `ByteBits` bits. They are functions from a machine to the machine after one
instruction, as the C++ functions are, and in the same order: a register list stops at
the first access that fails, a reset by AIRCR happens inside the store and the cycles
are added afterwards. An exception (`Raised`) whose frame finds no room, not even for its
first word (`NoStack`), locks the core up; after one that finds room the machine is no longer followed
(`Followed`), because frames, handlers and returns are `CortexM0`'s. The programs of the runs have a stack
of less than a frame, so that the second never happens there. `GdbStub` is who calls them: `RunStep` a step of
`Simulator::run`, `ContinueStep` and `StepPacket` the stub's `run`, with its verdicts in
the code's order; the other actions are the packets that set breakpoints and
watchpoints and write memory. `MCProcessor` gives it three programs; `GdbInit` allows every
program (`IsProgram`), and the theorems are about that. `Encoding` is no part of the program: it is the
reference the decoder is held against, the table of the ARMv6-M encodings and its
inverse, from instructions to halfwords. So is the last part of `Alu`, its reference: words as
numbers with and without a sign, what a condition is named for, and a shift by one bit.
`MCProcessor` writes programs with both. A shift by n bits multiplies or divides by
`PowerOfTwo[n]` of `Powers`, which `Pio` uses too. The operations on the bits of words are
constants of `Memory`, for which `MCProcessor` takes the ones of `Bitwise`.

### The language of the PIO: PioIsa, PioAssembler and PioSources

`PioIsa` is `pio_decode.cpp`, `pio_disasm.cpp` and the two functions of `state_machine.cpp`
that split the field of delay and side-set. An instruction is written as a record: its
words are strings, its numbers numbers. `PioAssembler` is `pio_assembler.cpp` from the
lines on: a line is what `split_line` makes of it, an expression a name and a number. The
first pass is a fold over the lines, with `WithLabel` and `Directive`; the second encodes
every instruction with the symbols of the first, one operator per `enc_` function. An
exception is the value `Die`. `PioSources` is no part of the program: it holds sources
and says, of a source as a whole and without passes or encodings, whether it is allowed
and what it means (`AsWritten`). Left out: characters and tokens, operators of expressions
but the sum, `.define PUBLIC`, `pindirs`, and the PIO debugger, which reads registers.

### Proofs

`CortexM0Proofs`, `SioProofs`, `DmaProofs`, `SessionProofs` and `PioProofs` extend the module
they are about. `PeripheralProofs` (what the timer, the PWM and the calendar compute, and what is
under way in each port, in the ADC, at the pins and in the displays) and `LineProofs` (the
interrupt lines, when things happen, the UART's bytes, and all units together) are about
`Peripherals`. `Numbers`
holds what they share: the facts about `\div` and `%`, that a set of numbers has a least one
and so induction, that a definition by recursion over numbers has the values it says, and so
the powers of two, which the shifts of `Pio` and of `Alu` need. What is proved of
`Thumb`, `Alu`, `Memory` and `GdbStub` is in `CortexM0Proofs`, the module of the processor.

### How they fit together

`CortexM0` takes an interrupt line as a free input; `Sio` and `Dma` model the core as
seen from one line: pending, served, reset, and set or cleared through the NVIC. Each states (as
`NotForgotten`) what the line guarantees, and `CortexM0` states (as `NoneDropped` and
`EligibleWakes`) what the core does with it. The modules of the peripherals see the core in
the same way, without whether a handler runs, and say it as `LineFollowsCause`. Between a
reset of the core, or a write of NVIC_ICPR, and the unit's next refresh a cause may stand that is
not pending: all of them model that, keep it in a history (`dropped`, `touched`), and excuse it.
`ClockTree` says at which pace the clocked ones run, which they take as a setting. `Session` sees a simulator only as something that steps;
`GdbStub` steps the machine of `Armv6m`, and both implement `DebugEngine`.

## 3. The runs

| Run | Question | Bounds, and why they are enough |
|---|---|---|
| `nesting` | Do exceptions nest and return correctly? | One core; SVCall, PendSV, HardFault and one interrupt on two priority levels: ties, preemption and inversion by SVC. A stack of 24 words holds three frames, or two when a word was pushed, and then overflows. One local word gives both alignments. |
| `sleep` | Is any event or request lost by sleeping cores? | Two cores, one interrupt, PendSV and SVCall: sleep, wake, launch and reset in every order. Stacks for one frame: nesting is the other run's question. |
| `wfi_masked` | Does WFI wake on a masked interrupt, as its comment says? | As `sleep`. No. |
| `sio` | Mailboxes, locks and divider between two cores | FIFO depth 4, five words one way and one the other: full FIFOs, overflow and underflow, a launch and data after it. Words of three bits (`Half` = 4) have every sign combination, the overflow of -4 / -1 and division by 0; latency 2 lets the other core interfere during a division. The mailbox and the divider share no state, so a behaviour uses one of them; resets are in both. |
| `dma` | Are transfers complete, exact, in chain order and reported? | Two channels, chained both ways, up to two elements, every kind of TREQ, rates below and above one per clock, and two register writes at any time. Two channels are one chain and one loop; two writes suffice to stop and restart, or to acknowledge and reprogram. |
| `session` | Is the session a correct debugger? | Two handler threads, loops of two instructions, batches of two, two characters: a batch ends in the middle of the loop, breakpoints lie inside and at the end of a batch. Requests follow one another without end; after two have overlapped both finish and no more begin (`MCNext`). |
| `session_overlap` | Does it also hold for requests that overlap? | As `session`, with any number of requests. No. |
| `pio` | Do words and rings pass once and in order, and does TXSTALL tell when a machine has drained? | Two machines, words of two bits, FIFOs of one word (two when joined), a delay slot, whole and fractional dividers. Six copying programs (by word, by bit with autopush and autopull in both directions, with IFEMPTY and IFFULL, by an injected PULL, by OUT ISR) with up to five words on their way, more than fit; or a ring and its answer with relative flags and three accesses to any register, among them restarts, joins, new instructions and forced ones that stall. |
| `pio_ctrl` | Does enabling a machine leave the others alone? | As `pio`. Not after a restart through the alias. |
| `peripherals` | Are bytes, samples, edges, alarms, duty cycles, days, paces and pixels right, do lines follow their causes, and does what was begun end? | Thirteen units, one per behaviour. FIFOs of one entry (`Depth`; two for the ADC) are full, empty and overrun by three bytes. Ports are set up and changed `Changes` + 1 times at any moment, also in mid-frame. UART: characters of one bit and up to three more, divisors in halves. SPI: four modes, frames of one bit and two. I2C: a device, a wrong address, ten bits, stretching. Timer: words of one bit, so that every other tick carries. Watchdog loads 0 to 5, SysTick reloads 0, 1, 3, four writes. PWM: counts to 3, TOP 0, 2, 3, four ways of pacing, dividers whole and fractional. ADC: three channels, four conversions. RTC: minutes of two seconds, hours and days of one, so that four seconds cross every boundary, from dates around the ends of February, years and centuries, and from dates that are none. Two pins, one driven and one outside, with two moves, one write and three polls, or one, two and two. At every moment a handler is entered, the core is reset, or the NVIC turns a pending bit around, without a bound. Clocks: two writes. Displays of 2×2 and 3×2, enough bytes to fill them and go on. |
| `processor` | Are instructions decoded, computed, charged and debugged right? | All 65536 halfwords. Words of eight bits at the corners of their range for every operation that computes, shifts by 0 to 255, recursion one call deeper than the stack in six forms of calling, memory at every alignment and the ends of every region; loops of four instructions under a debugger with two breakpoints and one of four watchpoints at a time. PIO sources: every instruction with operands in and out of range, every way to share the five bits, and all programs of up to four lines from fourteen (two labels, their redefinition, jumps, both wraps, side-sets, origin): four lines are a label, its redefinition, a use before or after, and the layout. |
| `step_ticks` | Are the peripherals clocked by what an instruction costs? | As `processor`. Not when it resets its own core. |

Every property of a passing run is also checked against a mutant of the model, a
plausible bug in the code it translates, which breaks it (`PROJECT.json`, "mutants").
Deadlock is checked in every run but the two of `Session`, where `std::terminate` ends
the process, and the two of `MCProcessor`, whose programs end.

Each module has one type invariant or none: `CortexM0`'s is proved, the others were checked
while the modules were written and say nothing that a wrong program would violate, so no
run repeats them.

Fairness. `sleep`: weak fairness of `TakePending` of each core, because `Simulator::run`
calls `step` for ever and `step` calls `Cpu::step` of every running core. `dma`: weak
fairness of the clock, because every `Simulator::step` calls `on_cycles`; nothing is
assumed of firmware or peripherals. `pio`: weak fairness of the ticks, for the same
reason. `peripherals`: weak fairness of the units' clocks, because `Simulator::step` calls
every `on_cycles`; firmware need not do anything, and `Waiting` names what is expected only while
firmware leaves a unit on. `session`: weak fairness of each thread, because the
operating system runs them; nobody has to send a request, and no order among the
threads that wait for the mutex is assumed. That is why no property says that a poll is
answered while firmware runs: the run thread releases the mutex and takes it again
at once, and `std::mutex` does not promise that a waiting thread gets it.

### Disagreements between the code and its documentation

1. `wfi_masked`: the comment at `cpu.cpp:297` lets WFI wake on an interrupt that PRIMASK
   masks; `Cpu::step` does not.
2. `pio_ctrl`: the aliases are "safe for configuration registers", says
   `atomic_peripheral.h`; but CTRL keeps its restart bits, and every later access through
   the SET alias restarts those machines again.
3. `session_overlap`: `step` "only when not running" and `load` "stops any run in
   progress" hold only if no other client starts a run at the same time.
4. `step_ticks`: a step ticks the peripherals "by the cycles it cost", says `simulator.h`;
   when the instruction resets core 0, the cycle count starts again at zero and the
   difference wraps around to almost 2^64.

The models show more of the kind that no comment denies, and that no run is spent on:

- A launch of core 1 starts at any word 1, without the leading (0, 0, 1) that comments in
  `sio.cpp` and `sio.h` mention (`LaunchMachine`).
- Null transfers that chain in a loop leave a channel busy for ever (`Overrun` in `Dma`).
- One latch of TIMELR serves both cores: a second reader takes it away (`Timer`, `jumped`).
- A write through the SET alias of an INTR register of IO_BANK0 acknowledges every edge,
  because it writes back the ones it reads (`Pins`).
- Writes to a PLL that cancel in the XOR of its registers within one step are not
  noticed (`ClockTree`, claimed for one write per step). A reset of a PLL writes four registers
  at once; it can cancel too, but with values that fit their fields only when the PLL
  made nothing (`OnTimeHolds`).
- The stub reports a BKPT before a watchpoint that the same step hit, and the hit stays
  latched for the next stop (`GdbVerdict`); a watchpoint on an alias address never hits, as
  the bus checks the register's own (`WriteAlias`).
- A byte that the I2C controller has acknowledged is dropped when its FIFO is full, and
  the SPI drops a frame without a flag (`crowded`).
- The disassembler, "the inverse of pio_assembler" (`pio_disasm.h:3`), prints the number of
  WAIT GPIO and WAIT PIN modulo 16, so `wait 1 gpio 20` comes back as `gpio 4` (`BodyText`).
- A `.define` below a label of the same name replaces it for the whole source, silently; a
  label below a `.define` is an error. The options of an earlier `.side_set` stay (`Directive`).
- A reset of the core alone (AIRCR, or a watchdog that spares the peripheral) leaves causes standing
  that are pending no more until something refreshes the line (`ResetCore`).
- An RTC alarm that is set while it matches does not ring (`Rtc`, `set`).

## 4. The theorems

`CortexM0Proofs` proves, for all cores, interrupts, priority levels and stack sizes
that satisfy the assumptions of `CortexM0`:

- `TypeCorrect`: the type invariant.
- `NoEventSleptOverHolds`: no core sleeps in a WFE with its event set. It is inductive
  by itself: every action that sets `event` also wakes.
- `StacksHoldAlways`: the invariant `StacksHold`, the heart of the matter. `ReturnFindsFrame`
  is not inductive, because it speaks of the innermost frame only: after a return the
  frame below becomes the innermost one, and its place must have been known all
  along. `FrameInv` therefore says of every frame on the stack that it lies right below
  the stack pointer of the context it interrupted, in the bank its EXC_RETURN names,
  that MSP at the handler's entry is either the frame itself or the MSP that was
  interrupted, and that PSP is still what entry left it to be.
- `ReturnFindsFrameHolds` and `ReturnsResume` follow from it: a return finds the frame
  of its own entry and restores the exception number, both stack pointers and the
  stack selection.
- `NestingOrderedHolds`: every handler is more urgent than what it preempted, except
  SVCall, which `Cpu::step` enters without comparing priorities. It needs that the
  priority of an active exception does not change.
- `NoneDroppedHolds`: what stops being pending runs, or was taken back. It goes through every
  step; the entry's part (`EntryAccounts`) is the only one that needs the types.

Of `Alu`, for words of any width of at least a bit (the code has 32, the runs 8):

- `AdderExact`: value and carry are the sum, and the overflow says whether the sum with a
  sign fits. `ConditionsExact` follows, with the subtraction as an addition of the complement:
  `Holds`, after a comparison of any two words, is the relation the condition is named for.
- `ShiftsBitByBit`: a shift by nothing changes nothing, and by n + 1 it is the shift by n and then
  the one-bit shift of the reference, word and carry, for all four kinds and every n. So the borders
  that are special cases in `shift_c`, the width of a word and more, are no exceptions.
  Each kind splits the word at bit n (`Around`): multiplied or divided by the next power of two, the
  parts move by one place (`HalveQuotient`, `Doubled`, `Halved`, `Turned`).
- `TwoWordsExact`, `TwoWordsCompared`: ADDS with ADCS and CMP with SBCS do to numbers of two words
  what ADDS and CMP do to words.

`ArithmeticExact` checks the same of whole programs with eight bits; that the instructions
take their operands and flags from where they should is left to it.

Of `Thumb`, whose halfwords have their real width:

- `DecodedTyped`: whatever was fetched becomes an instruction that `Execute` knows, with registers
  from 0 to 15 and every field in its range. `Instr` puts a row of fields over the defaults, so the proof
  needs no more than that each row of the decoder names fields with values of their kinds (`Fields`).

And of `Memory`, for bytes and words of any width and any map whose regions end before the address
space does (`Placed`, which the run evaluates for its own map):

- `AccessCaught`: no access gets past the watchpoints. For as long as no hit is latched, no access in the log
  touches a watched byte, and a latched hit names a watchpoint and an access that does (`Latched`); every
  read and write keeps this, is in the log when it was answered, and changes nothing when it was
  refused. It goes through all the ways of an access: cells, blocks, and the write through an alias
  that no block answers, which is looked for at the register's own address (`Looked`). That
  two comparisons modulo 2^32 say whether two intervals meet is `CatchesTouching`; it is false for a
  watchpoint that reaches the end of the address space, which `Watchpoints` excludes.
- `LoadedAsBytes`, `StoredIsLoaded`: a load of any width is the number whose bytes are in the cells,
  lowest first; a value that was stored is loaded again, whole or in part, and no other byte changes. `Joined`
  is a recursive function, so what it computes is proved by induction (`JoinedIs`, `NumberOfBytes`).

Of `GdbStub`, for any program, up to the first exception that finds room for its frame, any memory
map, words of four bytes of any width, any watchpoints that end before the address space does, and any
order of packets (`StubAssumption`, which the run evaluates):

- `WatchCaughtHolds`: no watched access is run past, and a stop at one names an access made since
  the last such stop. The property is not inductive: a hit that a BKPT outranks stays latched while the
  debugger does other things, and is reported later. So `StubInv` says of a latched hit that it is one
  of the watched accesses since the last one that was reported (`Accounted`), and that a stop that reports one leaves none.
  A step starts with an empty log (`Cleared`); every instruction keeps `Fit`, which is `Latched` with
  the types it needs: the addresses an instruction computes are words, so the bus may say of them
  what `AccessCaught` says. There is a lemma per group of instructions (`FitAdd` to `FitBlock`), as there is
  an operator, and `FitStep` puts fetch, decoder, execution, cycles and lockup together. A register list is
  moved by a recursive function, whose values the proof takes one register at a time (`FitStoreAll`).
- `SoundAlways`, the type invariant on the way: registers hold words, cells hold bytes, and
  `WriteMemory` switches the watchpoints on again.

The assumptions about `CortexM0` are those on the constants and the calling convention that is part
of the actions' guards. The specification proved about, `Spec`, has all actions at once;
the runs split them.

`PioProofs` proves for any number of state machines and any program:

- `InPhaseHolds`: machines with equal dividers of at least one clock that one write to CTRL
  restarted stay in step. `InPhase` compares accumulators between two cycles. Within a cycle some machines
  have had their turns and others have not, so the inductive invariant `PhaseInv`
  compares what each accumulator will be at the end of the cycle (`AtEnd`), and adds that
  the machines in step are enabled: a machine that is disabled keeps its accumulator. Most of
  the proof is that nothing but CTRL and a reset disables a machine, whatever
  instruction it executes, forces or injects (`ExecIsSame`).

- `StallMeansDrainedHolds`: TXSTALL, cleared after the last word and seen set again, means
  that the TX FIFO is empty. The property is its own inductive invariant once the machines
  have the fields the code keeps (`Fields`). Two facts carry it: no instruction fills a TX
  FIFO (`Keeps`), so only `WriteTxf` does, which ends the wait; and an instruction that
  waits for a word as PULL or by autopull found the FIFO empty (`ExecEffect`). The second
  needs that the instruction in `cur` is the one that waits: OUT EXEC and MOV EXEC put the
  injected one there before it is executed. That the flag is set at all when a machine
  waits is liveness, and left to `DrainReported`.

And of a block that was set up as `PioWork` says, for words of any width, FIFOs of any depth
and any number of machines:

- `CopiedHolds`, of all six programs: what a copying machine delivers is what it was given, each
  word once and in order. `Copied` speaks of the RX FIFO, and of the rest only when the machine waits
  for a word. `CopyInv` says for each program where the words are at each instruction, in every kind of
  stall, in the middle of an injected instruction and between two shifts: the words due are those in the
  RX FIFO, then the one or two in the shift registers, then those in the TX FIFO (`Flow`,
  `Carries`). A turn takes a word over a border of these, or leaves them, and a retry does
  what it retries only once: there is a lemma for each program (`WordExecute`,
  `InjectionExecute`, `IsrExecute`, `CountExecute`, `BitExecute`, `BitRetry`). Bit by bit, a word is split
  after k bits: the ISR has the first k and the OSR the others, for both directions of the shifts
  (`HalfRight`, `HalfLeft`). That one OUT and one IN make k + 1 of it is arithmetic modulo powers of
  two, which is why the model has these as a function (`PowerOfTwo` of `Powers`) whose values can be derived.
- `RendezvousHolds`: `RingInv` ties the flag to the two machines. It is raised exactly while a ring
  waits for its answer, the ringer remembers that it has raised it (`irq_wait_raised_`), and `met`
  is 1 exactly when the ring was answered and its machine has not had its turn yet. The flags are
  relative: other machines that run the same program ring and answer flags of their own.

Both hold while firmware forces instructions that leave to the program what it uses
(`Harmless`, `Polite`), for as long as it does nothing else to what the machines work with. `WorkAssumption` says
this, that there are two machines and room for four instructions, and that the word 1 encodes the
instruction that `ByInjection` injects. The proof corrected the model in one place: a forced
OUT EXEC can execute an IRQ, so every forced instruction that is not harmless may disturb the ring,
not only a forced IRQ.

`DmaProofs` proves for any number of channels, any settings of theirs, any rate of the pacing
timer and counts of any size:

- `NotForgottenHolds`: whatever sets, clears or enables a cause calls `refresh_irqs`
  afterwards, so `LineInv` is the property and the types it needs.
- `PaceExactHolds`: after n clocks a channel has moved floor(n · X / Y) elements. The
  accumulator is what is left over (`ClockIsExact`); that it stays below Y between two clocks
  and that a turn of `on_cycles` takes out whole elements is arithmetic of `Numbers`.
- `CompletesInFullHolds`: an interrupt of completion means that all that was armed has been
  moved, without an error. `CountInv` says of every busy channel that what it has moved and
  what it still has to move are what its last trigger armed; the recursion of `trigger` and
  `complete` completes only channels whose count is zero (`NullDone`).
- `ChainsOnSuccessHolds`: a channel that a clock starts was led to by the chain of the one that
  has just moved its last element without an error. `ChainFrom` says how a chain leads through null
  transfers, as the least set closed under them; `Walk` is the way that `trigger` and
  `complete` take by calling each other. The proof is an induction along that way
  (`PathFollowsChain`).

`SioProofs` proves for any words, depth of the FIFOs, latency, set of spinlocks and any
even range of the divider's words:

- `OneHolderHolds`. `LockInv` says that any two holders of a lock are the same core, which
  the last step turns into a cardinality. A launch takes the locks of core 1's earlier life
  from it and leaves them set, so the invariant is no equivalence.
- `NotForgottenHolds`: `LineInv` is the property and the types it needs. Every read and every
  write of a FIFO ends in `RefreshFifoIrqs`, and a handler ends by reading. A reset of the core and
  NVIC_ICPR are excused until the next refresh.
- `OwnResultHolds`, the largest proof. `DivInv` says that who does not hold the lock has asked
  nothing, that what its holder asked is what the registers hold, and that a result that
  is ready is the one of the registers. The rest is arithmetic, which no test reaches:
  `DividesRight` shows that `Divide` computes a division for every pair of operands.
  Truncation (`Truncates`) is done on integers and the registers keep it modulo `Base`;
  `WrapsTo` carries the equation of the division over, and `SignedWrap` the remainder, which is
  smaller than the divisor and so survives. The one quotient that does not fit, of the smallest
  number by -1, is a case of its own, in the code and in the proof.
- `DeliveredHolds`: for both cores, what was read followed by what waits is what was sent. In core
  0's FIFO the echoes of its own words and the words of core 1 mix; each word there has
  a tag of its sender, and `SendersInv` says that the words of each are in their order, with nothing
  missing (`WordsFrom`). A word that is read moves from one end of the sequence to the other
  and leaves what the two make together as it was (`HeadMovesOver`).
- `LaunchFollowsCommandHolds`: `LaunchInv` says that the 1 and the words after it that the
  launch machine has taken are the last ones core 0 has sent.

`SessionProofs` proves for any number of handler threads, programs of any length and batches
of any size:

- `StatusTruthfulHolds`. `SessionInv` says what one request at a time may count on: a thread
  that lives can be joined (`ThreadHeld`), behind `pause()` there is none (`Paused`), and only
  a loaded program runs (`RunsLoaded`). None of it holds for requests that overlap.
- `OutputDeliveredHolds`, which does hold for those: the buffer is only touched under the mutex.
- `ImplementsEngineHolds`: the refinement of `DebugEngine`, step by step (`StepRefines`). A
  batch's instruction is `Execute`; the thread's way from a request to pause to its end is one
  `Stop`; the handler's way through `start_run` is one `Run`, at the moment the thread is made.

`PeripheralProofs` proves of `Peripherals`, for words, counters and calendars of any size:

- `ReadsTimeHolds`: a time that was read as two words was the time while it was read.
  `TimerInv` says of a reader under way that each word it has was the count's at some tick since it
  began, the high one no later than the low one. What then decides is `RawRead`: if the high
  word read last is the one read first, the low one belongs to it, because the count cannot
  come round in between. That is a real condition, and the weakest one: a reader that takes as
  long as the whole count less a low word can be wrong (`Patient`); with 64 bits it is never met.
- `DutyExactHolds`: `PwmInv` says of an undisturbed period which way the slice counts, how
  many counts and how many of them high it has behind it, and that the outputs are what the
  registers make of the counter. That PH_RET undoes PH_ADV (`TakenBack`) holds in every
  state the invariant allows, at both turning points, too.
- `CalendarExactHolds`: `Timekeeping` says that seconds since the load and seconds of the
  calendar agree. Its one step is `TickExact`: the day after the last day of a month has the next
  number (`DayFollows`), by the rule of leap years, against a reference that counts years from March.

`LineProofs` proves of `Peripherals`, for FIFOs, frames and settings of any size:

- `LineFollowsCauseHolds`, for the eight units with an interrupt. `LinesFollow` is the property and, for
  the UART and the timer, the types that its causes need. The property has two sides: the unit's,
  that every change of a cause is followed by a refresh, and the core's, which changes the bit behind
  the unit's back. The proof says of every action whether it ends in the refresh, leaves all the
  fields of the cause and the bit, or is the core's: then the bit and `touched` turn around together
  (`CoreSide`), so that the bit the unit left (`LeftPending`) is still the one it left.
- `OnTimeHolds`, for the timer, the watchdog, SysTick, the ADC, the real-time clock and the clocks.
  For a counter the invariant says that what has passed and what is left make the whole. The
  watchdog (`WatchInv`) counts down by two, keeps the fraction of a microsecond over feeds and
  stops, and may owe several ticks to a shorter period: `Elapsed` gives its age in ticks, a
  remainder, and where in a microsecond it was fed. An alarm of the calendar (`Alarming`) rings
  when all its fields match; that this is one second of one day needs that two valid times with the
  same number of seconds are the same (`SameSecond`), of which `EarlierDay` is the calendar's part.
  Of the clocks, `ClockInv` says that between two looks a write is heard in the checksum or changes
  no pace. A register whose bits are as they were gives the same frequency (`TwelveBits`,
  `PllHeard`). A reset of a PLL, which writes four registers at once, can leave their XOR as it
  was only if the PLL made nothing before either: it had no lock, or a post-divider of 0
  (`PllResetHeard`). That needs `PllAssumption`: firmware writes the fields of a PLL's
  registers, and the other bits of PWR are the ones `Pll::reset` sets or zeroes. The code
  masks only FBDIV, so firmware that writes reserved bits can choose a value that cancels.
  The proof also showed that the property's history had to be kept: a single write that
  changes nothing leaves the peripherals as wrong as two writes before it made them, so
  `past.before` counts until the peripherals are told.

- `AccountedHolds`, for all seven units that something passes through; the longest proof.
  `Kept` says of each what is under way in it:
  - UART, SPI and I2C: what has passed, a FIFO, what is on the wire if there is, and a queue make one
    sequence with all the numbers given out so far but the lost ones, each once and in order
    (`Ordered`, and the property's `InOrder`). A step moves a number over the border of two parts
    (`LineMoves` and its like), appends the next, or loses one. The I2C controller also needs that
    a request of the other master finds no old answer, and that every abort has its reason.
  - SPI: `SpiWave` says how far a device that samples SCK has got with the word, at every half
    of a bit and in all four modes, and so that it has sampled the whole word at the end.
    It is said of a frame that is `steady`: settings that change in mid-frame do tear it.
  - ADC: what was kept and not read is the FIFO; and `RoundIsFair`: who always goes on to the
    next input of the mask (`NextIn`), counted round the number of inputs, comes to every other
    input of the mask before it comes back. The model looks for that input as
    `Adc::next_rrobin` does, upwards and around.
  - Pins: an edge is latched if and only if it was seen after the last time it was acknowledged.
  - Displays: `Canvas` says that the image is the one before with the pixels sent since painted
    on it, and where the next belongs: the cursor, which goes along the rows, wraps and
    starts again, is always at the place that `\div` and `%` give for the number of
    pixels sent (`CursorMoves`).

  The assumptions it added are those of the code: `Depth` is a size, a round robin's mask names inputs
  (`AdcAssumption`; `Adc` masks RROBIN with 0x1F and has five), a frame of the SPI has a bit at least, and
  panels have a size (`PanelsAssumption`).

Only model-checked are: liveness (`EligibleWakes`, `TransferEnds`, `DrainReported`, `Served` and
those of `Session`), which is out of the prover's reach; that the decoder and the instructions do what the
manual says (`DecodesManual`, `CallsReturn`, and `ArithmeticExact` and `BytesKeepOrder` as far as the
theorems about `Alu` and `Memory` do not say it), of which the proofs have the types and the accesses; the PIO's language,
whose assembler folds over sources, an induction over data; and that `GdbStub` implements
`DebugEngine`, which is said of loops of four instructions.
`Thumb` and `Encoding` are compared over every halfword, which is all there is.

## 5. What is left

1. **Armv6m**: that a call returns and a stack balances for every program that pushes what it pops;
   `SoundAlways` and `FitStep` have the types this would need.
2. **Dma**: addresses, data sizes, rings, the sniffer, and transfers into the DMA's own
   registers, which restart a channel inside its own transfer.
3. **Pio**: pins as outputs, side-set, and the lines to the NVIC, which `poll_interrupts`
   refreshes once per step.
4. **Session**: the attachment of displays and what their callbacks capture.
5. **Composition**: a UART, the DMA and a core in one instance, with the DREQ and the
   interrupt as their only links.

Not modelled, and not planned: text and file formats (loaders, the
assembler's tokens, the lab's compiler, profiler output, the stub's hexadecimal packets), which
have no state to go wrong in; pure register stubs (`Resets`, PSM, SYSINFO, `Usb`); and the
frontend, whose requests are the environment of `Session`.
