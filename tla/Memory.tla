------------------------------- MODULE Memory --------------------------------
(***************************************************************************)
(* The bus of memory.cpp: regions, alignment, byte order, the atomic       *)
(* aliases of the register space, and watchpoints.  A byte has ByteBits    *)
(* bits where the code has eight, so that addresses, which are words, stay *)
(* few.  A memory is a record:                                             *)
(*   cell      the bytes of ROM, flash and SRAM                            *)
(*   reg       what the register blocks hold, by address                   *)
(*   watch     the watchpoints, oldest first                               *)
(*   hit       the latched hit, an address or None, and its kind           *)
(*   quiet     the debugger is looking: nothing is caught                  *)
(*   log       history: what the program has accessed since it was emptied *)
(***************************************************************************)
EXTENDS Integers, Sequences, SequencesExt, Alu

CONSTANTS
    ByteBits,
    Rom, Flash, Sram,   \* regions [base, size]
    RegisterSpace,      \* the region with the aliases
    Sio, Ppb,           \* the two without
    AliasUnit,          \* the size of a register block; its aliases follow it
    And(_, _), Or(_, _), Xor(_, _),     \* the operations on the bits of words
    Aircr               \* the address of the system reset register

None == [addr |-> -1, write |-> FALSE]

ByteMod == PowerOfTwo[ByteBits]

ContainsSpan(region, addr, n) ==
    n <= region.size /\ addr >= region.base /\ addr - region.base <= region.size - n

\* Regions end before the address space does.
Within(region) == region.base \in Nat /\ region.size \in Nat /\ region.base + region.size < Modulus

Placed ==
    /\ Width \in Nat /\ ByteBits \in Nat \ {0} /\ AliasUnit \in Nat \ {0}
    /\ \A region \in {Rom, Flash, Sram, RegisterSpace, Sio, Ppb} : Within(region)

Backed(addr, n) == \E region \in {Rom, Flash, Sram} : ContainsSpan(region, addr, n)

Writable(addr, n) == ContainsSpan(Sram, addr, n)

Aligned(addr, n) == addr % n = 0

\* A block may be mapped where none is yet, inside one region of registers.
Attach(mapped, block) ==
    IF /\ \E region \in {RegisterSpace, Sio, Ppb} : ContainsSpan(region, block.base, block.size)
       /\ \A other \in mapped : \/ block.base >= other.base + other.size
                                \/ other.base >= block.base + block.size
    THEN mapped \cup {block}
    ELSE mapped

\* A passive block that answers its aliases itself, the watchdog's scratch registers,
\* which do not, and the system control space
Mapped ==
    Attach(Attach(Attach({}, [kind |-> "stub", base |-> RegisterSpace.base, size |-> 4 * AliasUnit]),
                  [kind |-> "scratch", base |-> RegisterSpace.base + 4 * AliasUnit, size |-> AliasUnit]),
           [kind |-> "scs", base |-> Ppb.base, size |-> Ppb.size])

Peripherals(addr, n) == {block \in Mapped : ContainsSpan(block, addr, n)}

Fresh(cells) ==
    [cell |-> cells, reg |-> [a \in {} |-> 0], watch |-> <<>>, hit |-> None, quiet |-> FALSE, log |-> {}]

-----------------------------------------------------------------------------
\* Mutant: only an access that begins inside the watched bytes meets them
OverlapsStart(w, addr, n) == w.addr <= addr /\ addr < w.addr + w.len

\* The end of the watched bytes wraps around like any address.
Overlaps(w, addr, n) == addr < (w.addr + w.len) % Modulus /\ w.addr < (addr + n) % Modulus

Catches(w, addr, n, write) == Overlaps(w, addr, n) /\ (IF write THEN w.onWrite ELSE w.onRead)

\* History: an access meets a watchpoint if it shares a byte with it.
Touches(w, a) ==
    /\ (w.addr..(w.addr + w.len - 1)) \cap (a.addr..(a.addr + a.n - 1)) # {}
    /\ IF a.write THEN w.onWrite ELSE w.onRead

\* History: the hits there are between the watchpoints and the accesses in the log
Caught(m) ==
    {[addr |-> t[1].addr, write |-> t[2].write] :
        t \in {u \in ToSet(m.watch) \X m.log : Touches(u[1], u[2])}}

\* One latched hit is enough: later ones are not looked at until it has been taken.
CheckWatch(m, addr, n, write) ==
    LET caught == {i \in DOMAIN m.watch : Catches(m.watch[i], addr, n, write)}
        logged == IF m.quiet THEN m ELSE [m EXCEPT !.log = @ \cup {[addr |-> addr, n |-> n, write |-> write]}]
    IN  IF m.quiet \/ m.hit # None \/ caught = {}
        THEN logged
        ELSE [logged EXCEPT !.hit = [addr |-> m.watch[Min(caught)].addr, write |-> write]]

AddWatch(m, w) == [m EXCEPT !.watch = Append(@, [w EXCEPT !.len = IF @ = 0 THEN 1 ELSE @])]

RemoveWatch(m, addr) ==
    LET kept[i \in 0..Len(m.watch)] ==
            IF i = 0 THEN <<>>
            ELSE IF m.watch[i].addr = addr THEN kept[i - 1] ELSE Append(kept[i - 1], m.watch[i])
    IN  [m EXCEPT !.watch = kept[Len(m.watch)]]

TakeHit(m) == [m EXCEPT !.hit = None]

-----------------------------------------------------------------------------
\* A block's register, which keeps the last word written
RegRead(m, addr) == IF addr \in DOMAIN m.reg THEN m.reg[addr] ELSE 0

RegWrite(m, addr, v) == [m EXCEPT !.reg = [a \in DOMAIN @ \cup {addr} |-> IF a = addr THEN v ELSE @[a]]]

\* The scratch registers are words, however narrow the access is.
Register(block, addr) ==
    CASE block.kind = "stub" -> block.base + ((addr - block.base) % AliasUnit)
      [] block.kind = "scratch" -> addr - ((addr - block.base) % 4)
      [] OTHER -> addr

Alias(addr) == ((addr - RegisterSpace.base) \div AliasUnit) % 4

\* Aliases 1, 2 and 3 flip, set and clear the bits written.
Combined(alias, old, v) ==
    CASE alias = 1 -> Xor(old, v)
      [] alias = 2 -> Or(old, v)
      [] alias = 3 -> And(old, Complement(v))
      [] OTHER -> v

BlockWrite(m, block, addr, v) ==
    LET reg == Register(block, addr)
        next == IF block.kind = "stub" THEN Combined(Alias(addr), RegRead(m, reg), v) ELSE v
    IN  IF block.kind = "scs" THEN m ELSE RegWrite(m, reg, next)

-----------------------------------------------------------------------------
Refused(m, status) == [mem |-> m, status |-> status, value |-> 0]

\* Places of bytes in a word
Place(i) == PowerOfTwo[ByteBits * i]

\* The lowest byte comes first; upper[i] is the value of the bytes from the i-th on.
Joined(m, addr, n) ==
    LET upper[i \in 0..n] == IF i = n THEN 0 ELSE m.cell[addr + i] + ByteMod * upper[i + 1]
    IN  upper[0]

Read(m, addr, n) ==
    IF ~Aligned(addr, n) THEN Refused(m, "MisalignedAccess")
    ELSE IF Backed(addr, n)
    THEN [mem |-> CheckWatch(m, addr, n, FALSE), status |-> "Ok", value |-> Joined(m, addr, n)]
    ELSE IF Peripherals(addr, n) # {}
    THEN LET block == CHOOSE b \in Peripherals(addr, n) : TRUE
         IN  [mem |-> CheckWatch(m, addr, n, FALSE), status |-> "Ok",
              value |-> RegRead(m, Register(block, addr)) % Place(n)]
    ELSE Refused(m, "InvalidAddress")

\* An alias that no block answers is a read and a write of the register it stands for, and
\* a watchpoint sees the register's own address.
WriteAlias(m, addr, n, v) ==
    LET alias == Alias(addr)
        base == addr - alias * AliasUnit
    IN  IF ContainsSpan(RegisterSpace, addr, 1) /\ alias # 0 /\ Peripherals(base, n) # {}
        THEN LET block == CHOOSE b \in Peripherals(base, n) : TRUE
                 next == Combined(alias, RegRead(m, Register(block, base)), v)
             IN  [mem |-> CheckWatch(BlockWrite(m, block, base, next), base, n, TRUE), status |-> "Ok"]
        ELSE [mem |-> m, status |-> "InvalidAddress"]

Split(m, addr, n, v) ==
    [m EXCEPT !.cell = [a \in DOMAIN @ |->
        IF a \in addr..(addr + n - 1) THEN (v \div Place(a - addr)) % ByteMod ELSE @[a]]]

Write(m, addr, n, v) ==
    IF ~Aligned(addr, n) THEN [mem |-> m, status |-> "MisalignedAccess"]
    ELSE IF Backed(addr, n)
    THEN IF Writable(addr, n)
         THEN [mem |-> CheckWatch(Split(m, addr, n, v), addr, n, TRUE), status |-> "Ok"]
         ELSE [mem |-> m, status |-> "WriteToReadOnly"]
    ELSE IF Peripherals(addr, n) # {}
    THEN LET block == CHOOSE b \in Peripherals(addr, n) : TRUE
         IN  [mem |-> CheckWatch(BlockWrite(m, block, addr, v), addr, n, TRUE), status |-> "Ok"]
    ELSE WriteAlias(m, addr, n, v)
=============================================================================
