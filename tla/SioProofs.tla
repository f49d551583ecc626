----------------------------- MODULE SioProofs -----------------------------
(***************************************************************************)
(* What holds of Sio for every depth of the FIFOs, every latency and width *)
(* of the divider and any number of spinlocks.                             *)
(***************************************************************************)
EXTENDS Sio, Numbers, FiniteSetTheorems, SequenceTheorems, TLAPS

-----------------------------------------------------------------------------
(* Spinlocks *)

\* A held lock has one holder, and a lock without the bit set has none.
LockInv ==
    /\ spinlock \in [Locks -> BOOLEAN]
    /\ holder \in [Locks -> SUBSET Cores]
    /\ \A n \in Locks : holder[n] # {} => spinlock[n]
    /\ \A n \in Locks : \A c, d \in holder[n] : c = d

LEMMA LockInvStarts == ASSUME NEW up \in BOOLEAN, Start(up) PROVE LockInv
BY DEF Start, LockInv, Cores

\* Core 1 loses its locks when it is started over.
LEMMA FewerHolders ==
    ASSUME LockInv, NEW R, holder' = [n \in Locks |-> holder[n] \ R], UNCHANGED spinlock
    PROVE  LockInv'
BY DEF LockInv

LEMMA LaunchKeepsLocks ==
    ASSUME LockInv, NEW w, LaunchMachine(w), UNCHANGED spinlock PROVE LockInv'
<1>1. CASE UNCHANGED holder
  BY <1>1 DEF LockInv
<1>2. CASE holder' = [n \in Locks |-> holder[n] \ {1}]
  BY <1>2, FewerHolders
<1>3. QED
  BY <1>1, <1>2 DEF LaunchMachine

LEMMA LockInvKept == ASSUME LockInv, [Next]_vars PROVE LockInv'
<1>1. ASSUME NEW c \in Cores, NEW w \in Words, MailboxWrite(c, w) PROVE LockInv'
  <2>1. CASE UNCHANGED <<holder, spinlock>>
    BY <2>1 DEF LockInv
  <2>2. CASE LaunchMachine(w) /\ UNCHANGED spinlock
    BY <2>2, LaunchKeepsLocks
  <2>3. QED
    BY <1>1, <2>1, <2>2 DEF MailboxWrite
<1>2. ASSUME NEW c \in Cores, FifoRead(c) \/ ClearStatus(c) \/ EnterHandler(c) \/ WriteNvic(c) PROVE LockInv'
  BY <1>2 DEF FifoRead, ClearStatus, EnterHandler, WriteNvic, locks, LockInv
<1>3. ASSUME NEW c \in Cores, NEW n \in Locks, Claim(c, n) PROVE LockInv'
  <2>1. CASE UNCHANGED locks
    BY <2>1 DEF locks, LockInv
  <2>2. CASE /\ ~spinlock[n]
             /\ spinlock' = [spinlock EXCEPT ![n] = TRUE]
             /\ holder' = [holder EXCEPT ![n] = @ \cup {c}]
    <3>1. spinlock' \in [Locks -> BOOLEAN] /\ holder' \in [Locks -> SUBSET Cores]
      BY <2>2 DEF LockInv
    <3>2. spinlock'[n] /\ holder'[n] = {c}
      BY <2>2 DEF LockInv
    <3>3. \A m \in Locks \ {n} : holder'[m] = holder[m] /\ spinlock'[m] = spinlock[m]
      BY <2>2 DEF LockInv
    <3>4. QED
      BY <3>1, <3>2, <3>3 DEF LockInv
  <2>3. QED
    BY <1>3, <2>1, <2>2 DEF Claim
<1>4. ASSUME NEW c \in Cores, NEW n \in Locks, Release(c, n) PROVE LockInv'
  <2>1. holder'[n] = {}
    BY <1>4 DEF Release, LockInv
  <2>2. QED
    BY <1>4, <2>1 DEF Release, LockInv
<1>5. ASSUME DividerStep PROVE LockInv'
  BY <1>5 DEF DividerStep, StartDivide, ReadQuotient, Cycles, locks, LockInv
<1>6. ASSUME NEW R, ResetCores(R) PROVE LockInv'
  BY <1>6, FewerHolders DEF ResetCores
<1>7. ASSUME UNCHANGED vars PROVE LockInv'
  BY <1>7 DEF vars, locks, LockInv
<1>8. QED
  BY <1>1, <1>2, <1>3, <1>4, <1>5, <1>6, <1>7 DEF Next, MailboxStep, LockStep, ResetStep

\* A spinlock never has two holders, and one that is held reads as held: Sio::bus_read takes
\* a lock only if its bit is clear, and only a release or a reset ends a hold.
THEOREM OneHolderHolds == Spec => []OneHolder
<1>1. Init => LockInv
  BY LockInvStarts DEF Init
<1>2. LockInv /\ [Next]_vars => LockInv'
  BY LockInvKept
<1>3. LockInv => OneHolder
  <2>1. ASSUME LockInv, NEW n \in Locks PROVE Cardinality(holder[n]) <= 1
    <3>1. CASE holder[n] = {}
      BY <3>1, FS_EmptySet
    <3>2. CASE holder[n] # {}
      <4>1. PICK c : c \in holder[n]
        BY <3>2
      <4>2. holder[n] = {c}
        BY <2>1, <4>1 DEF LockInv
      <4>3. Cardinality({c}) = 1
        BY FS_Singleton
      <4>4. QED
        BY <4>2, <4>3
    <3>3. QED
      BY <3>1, <3>2
  <2>2. QED
    BY <2>1 DEF OneHolder, LockInv
<1>4. QED
  BY <1>1, <1>2, <1>3, PTL DEF Spec

-----------------------------------------------------------------------------
(* The interrupts of the mailboxes *)

LineInv ==
    /\ pend \in [Cores -> BOOLEAN] /\ serving \in [Cores -> BOOLEAN] /\ dropped \in [Cores -> BOOLEAN]
    /\ NotForgotten

LEMMA LineInvKept == ASSUME LineInv, [Next]_vars PROVE LineInv'
<1>. USE DEF LineInv, NotForgotten, Cores
<1>1. ASSUME NEW c \in Cores, NEW w \in Words, MailboxWrite(c, w) PROVE LineInv'
  <2>1. serving' \in [Cores -> BOOLEAN]
    BY <1>1 DEF MailboxWrite, LaunchMachine
  <2>2. QED
    BY <1>1, <2>1 DEF MailboxWrite, RefreshFifoIrqs
<1>2. ASSUME NEW c \in Cores, FifoRead(c) PROVE LineInv'
  BY <1>2 DEF FifoRead, RefreshFifoIrqs
<1>3. ASSUME NEW c \in Cores, ClearStatus(c) \/ EnterHandler(c) \/ WriteNvic(c) PROVE LineInv'
  BY <1>3 DEF ClearStatus, EnterHandler, WriteNvic
<1>4. ASSUME NEW R, ResetCores(R) PROVE LineInv'
  BY <1>4 DEF ResetCores
<1>5. ASSUME UNCHANGED fifos PROVE LineInv'
  BY <1>5 DEF fifos
<1>6. LockStep \/ DividerStep \/ UNCHANGED vars => UNCHANGED fifos
  BY DEF LockStep, Claim, Release, DividerStep, StartDivide, ReadQuotient, Cycles, vars
<1>7. QED
  BY <1>1, <1>2, <1>3, <1>4, <1>5, <1>6 DEF Next, MailboxStep, ResetStep

\* A waiting word never loses its interrupt, though entering the handler clears the pending
\* bit: every access that changes a FIFO calls refresh_fifo_irqs after it.
THEOREM NotForgottenHolds == Spec => []NotForgotten
<1>1. Init => LineInv
  BY DEF Init, Start, LineInv, NotForgotten, Cores
<1>2. LineInv /\ [Next]_vars => LineInv'
  BY LineInvKept
<1>3. LineInv => NotForgotten
  BY DEF LineInv
<1>4. QED
  BY <1>1, <1>2, <1>3, PTL DEF Spec
-----------------------------------------------------------------------------
(* The divider's arithmetic *)

LEMMA SignOfProduct ==
    ASSUME NEW a \in Int, NEW b \in Int, (a >= 0 /\ b >= 0) \/ (a <= 0 /\ b <= 0)
    PROVE  a * b >= 0
OBVIOUS

LEMMA BaseIsEven == Base \in Nat \ {0} /\ Half \in Nat \ {0} /\ Base \div 2 = Half
BY SizesAssumption DEF Base

Congruent(u, v) == \E k \in Int : u = v + k * Base

\* What wraps to a word differs from it by a multiple of Base.
LEMMA WrapIsCongruent ==
    ASSUME NEW i \in Int PROVE Wrap(i) \in Values /\ Congruent(Wrap(i), i)
<1>. DEFINE k == -(i \div Base)
<1>1. i % Base = i - (i \div Base) * Base /\ i \div Base \in Int /\ i % Base \in 0..(Base - 1)
  BY BaseIsEven, Quotient
<1>2. k \in Int /\ Wrap(i) = i + k * Base
  BY <1>1, BaseIsEven DEF Wrap
<1>3. QED
  BY <1>1, <1>2 DEF Wrap, Values, Congruent

LEMMA SignedIsCongruent ==
    ASSUME NEW v \in Values
    PROVE  AsSigned(v) \in (-Half)..(Half - 1) /\ Congruent(AsSigned(v), v) /\ Congruent(v, AsSigned(v))
<1>1. \/ AsSigned(v) = v + 0 * Base /\ v = AsSigned(v) + 0 * Base
      \/ AsSigned(v) = v + (-1) * Base /\ v = AsSigned(v) + 1 * Base
  BY BaseIsEven DEF AsSigned, Values
<1>2. Congruent(AsSigned(v), v) /\ Congruent(v, AsSigned(v))
  BY <1>1 DEF Congruent
<1>3. QED
  BY <1>2, BaseIsEven DEF AsSigned, Values, Base

LEMMA SignedWrap ==
    ASSUME NEW i \in (-Half)..(Half - 1) PROVE AsSigned(Wrap(i)) = i
<1>1. CASE i >= 0
  <2>1. Wrap(i) = i
    BY <1>1, BaseIsEven, Residue DEF Wrap, Base
  <2>2. QED
    BY <1>1, <2>1, BaseIsEven DEF AsSigned
<1>2. CASE i < 0
  <2>1. i + Base \in 0..(Base - 1) /\ (-1) * Base + (i + Base) = i
    BY <1>2, BaseIsEven DEF Base
  <2>2. Wrap(i) = i + Base
    BY <2>1, BaseIsEven, Residue DEF Wrap
  <2>3. i + Base >= Half
    BY <1>2, BaseIsEven DEF Base
  <2>4. QED
    BY <1>2, <2>2, <2>3, BaseIsEven DEF AsSigned
<1>3. QED
  BY <1>1, <1>2, BaseIsEven

\* The host's division truncates: the remainder is smaller than the divisor and has the
\* sign of the dividend.
LEMMA Truncates ==
    ASSUME NEW x \in Int, NEW y \in Int \ {0}
    PROVE  /\ TruncDiv(x, y) \in Int
           /\ AbsOf(x - TruncDiv(x, y) * y) < AbsOf(y)
           /\ (x - TruncDiv(x, y) * y) * x >= 0
<1>. DEFINE p == AbsOf(x)
            d == AbsOf(y)
            q == p \div d
            s == p % d
<1>1. p \in Int /\ p >= 0 /\ d \in Nat \ {0}
  BY DEF AbsOf
<1>2. s = p - q * d /\ q \in Int /\ s \in 0..(d - 1)
  <2>. HIDE DEF p, d
  <2>. QED  BY <1>1, Quotient
<1>3. (x = p \/ x = -p) /\ (y = d \/ y = -d) /\ (x < 0 => x = -p) /\ (x >= 0 => x = p)
      /\ (y < 0 => y = -d) /\ (y >= 0 => y = d)
  BY DEF AbsOf
<1>4. TruncDiv(x, y) = IF (x < 0) # (y < 0) THEN -q ELSE q
  BY DEF TruncDiv
<1>. HIDE DEF p, d, q, s
<1>5. x - TruncDiv(x, y) * y = IF x < 0 THEN -s ELSE s
  <2>1. CASE x < 0 /\ y < 0
    BY <2>1, <1>1, <1>2, <1>3, <1>4
  <2>2. CASE x < 0 /\ y >= 0
    BY <2>2, <1>1, <1>2, <1>3, <1>4
  <2>3. CASE x >= 0 /\ y < 0
    BY <2>3, <1>1, <1>2, <1>3, <1>4
  <2>4. CASE x >= 0 /\ y >= 0
    BY <2>4, <1>1, <1>2, <1>3, <1>4
  <2>5. QED
    BY <2>1, <2>2, <2>3, <2>4
<1>6. TruncDiv(x, y) \in Int
  BY <1>2, <1>4
<1>7. AbsOf(IF x < 0 THEN -s ELSE s) < d
  BY <1>1, <1>2 DEF AbsOf
<1>8. (IF x < 0 THEN -s ELSE s) * x >= 0
  <2>1. CASE x < 0
    <3>1. -s <= 0 /\ -s \in Int
      BY <1>1, <1>2
    <3>2. QED
      BY <2>1, <3>1, SignOfProduct
  <2>2. CASE x >= 0
    BY <2>2, <1>1, <1>2, SignOfProduct
  <2>3. QED
    BY <2>1, <2>2
<1>9. QED
  BY <1>5, <1>6, <1>7, <1>8 DEF d

LEMMA Regroup ==
    ASSUME NEW q \in Int, NEW y \in Int, NEW r \in Int, NEW m \in Int,
           NEW k \in Int, NEW l \in Int, NEW n \in Int
    PROVE  (q + k * m) * (y + l * m) + (r + n * m) = (k * y + l * q + k * l * m + n) * m + (q * y + r)
OBVIOUS

\* Wrapping commutes with the arithmetic it is applied to.
LEMMA WrapsTo ==
    ASSUME NEW a \in Values, NEW b \in Values, NEW x \in Int, NEW y \in Int, NEW q \in Int,
           NEW r \in Int, q * y + r = x, Congruent(x, a), Congruent(b, y)
    PROVE  Wrap(Wrap(q) * b + Wrap(r)) = a
<1>. PICK i \in Int : x = a + i * Base
  BY DEF Congruent
<1>. PICK l \in Int : b = y + l * Base
  BY DEF Congruent
<1>1. PICK k \in Int : Wrap(q) = q + k * Base
  BY WrapIsCongruent DEF Congruent
<1>2. PICK n \in Int : Wrap(r) = r + n * Base
  BY WrapIsCongruent DEF Congruent
<1>. DEFINE c == k * y + l * q + k * l * Base + n
<1>3. c \in Int
  BY BaseIsEven
<1>4. Wrap(q) * b + Wrap(r) = c * Base + x
  BY <1>1, <1>2, Regroup, BaseIsEven
<1>5. c * Base + x = (c + i) * Base + a
  <2>. HIDE DEF c
  <2>. QED  BY <1>3, BaseIsEven DEF Values
<1>6. QED
  <2>1. c + i \in Int /\ a \in 0..(Base - 1)
    BY <1>3 DEF Values
  <2>2. ((c + i) * Base + a) % Base = a
    <3>. HIDE DEF c
    <3>. QED  BY <2>1, Residue, BaseIsEven
  <2>3. QED
    <3>. HIDE DEF c
    <3>. QED  BY <2>2, <1>4, <1>5 DEF Wrap


Operands(a, b, s) == [dividend |-> a, divisor |-> b, signed |-> s]

\* Sio::finish_divide computes what division means, for every pair of operands.
LEMMA DividesRight ==
    ASSUME NEW a \in Values, NEW b \in Values, NEW s \in BOOLEAN
    PROVE  IsDivision(Divide(a, b, s)[1], Divide(a, b, s)[2], Operands(a, b, s))
<1>. USE BaseIsEven
<1>1. CASE b = 0
  <2>1. Divide(a, b, s)[1] = Base - 1 /\ Divide(a, b, s)[2] = a
    BY <1>1 DEF Divide
  <2>2. Wrap((Base - 1) * 0 + a) = a
    <3>1. (0 * Base + a) % Base = a
      BY Residue DEF Values
    <3>2. QED
      BY <3>1 DEF Wrap, Values
  <2>3. \A i \in Int : i * i >= 0
    BY SignOfProduct
  <2>4. a * a >= 0 /\ AsSigned(a) * AsSigned(a) >= 0
    BY <2>3, SignedIsCongruent DEF Values
  <2>5. QED
    BY <1>1, <2>1, <2>2, <2>4 DEF IsDivision, Operands
<1>2. CASE b # 0 /\ ~s
  <2>1. Divide(a, b, s)[1] = a \div b /\ Divide(a, b, s)[2] = a % b
    BY <1>2 DEF Divide
  <2>. DEFINE q == a \div b
              r == a % b
  <2>2. a \in Nat /\ b \in Nat \ {0}
    BY <1>2 DEF Values
  <2>3. r = a - q * b /\ q \in Int /\ r \in 0..(b - 1)
    <3>1. a \in Int
      BY <2>2
    <3>2. QED
      BY <2>2, <3>1, Quotient, Zenon
  <2>4. Wrap(a) = a
    <3>1. (0 * Base + a) % Base = a
      BY Residue DEF Values
    <3>2. QED
      BY <3>1 DEF Wrap, Values
  <2>. HIDE DEF q, r
  <2>5. AbsOf(r) < AbsOf(b)
    BY <2>2, <2>3 DEF AbsOf
  <2>6. r * a >= 0
    BY <2>2, <2>3, SignOfProduct
  <2>7. q * b + r = a
    BY <2>2, <2>3
  <2>8. IsDivision(q, r, Operands(a, b, s))
    BY <1>2, <2>4, <2>5, <2>6, <2>7 DEF IsDivision, Operands
  <2>9. QED
    BY <2>1, <2>8 DEF q, r
<1>3. CASE b # 0 /\ s
  <2>. DEFINE x == AsSigned(a)
              y == AsSigned(b)
              q == TruncDiv(x, y)
  <2>1. /\ x \in (-Half)..(Half - 1) /\ Congruent(x, a)
        /\ y \in (-Half)..(Half - 1) /\ Congruent(b, y)
    BY SignedIsCongruent
  <2>2. y # 0
    BY <1>3 DEF AsSigned, Values
  <2>3. CASE x = -(Base \div 2) /\ y = -1
    <3>1. Divide(a, b, s)[1] = a /\ Divide(a, b, s)[2] = 0
      BY <1>3, <2>3 DEF Divide
    <3>2. a = Half /\ b = Base - 1
      BY <2>3 DEF AsSigned, Values, Base
    <3>3. a * b + 0 = (Half - 1) * Base + Half
      BY <3>2 DEF Base
    <3>4. Wrap(a * b + 0) = a
      <4>1. Half - 1 \in Int /\ Half \in 0..(Base - 1)
        BY DEF Base
      <4>2. ((Half - 1) * Base + Half) % Base = Half
        BY <4>1, Residue
      <4>3. QED
        BY <3>2, <3>3, <4>2 DEF Wrap
    <3>5. AsSigned(0) = 0 /\ AbsOf(0) < AbsOf(y) /\ 0 * x >= 0
      BY <2>3 DEF AsSigned, AbsOf, Base
    <3>6. QED
      <4>. HIDE DEF x, y
      <4>1. IsDivision(a, 0, Operands(a, b, s))
        BY <1>3, <3>4, <3>5 DEF IsDivision, Operands, x, y
      <4>2. QED
        BY <3>1, <4>1
  <2>4. CASE ~(x = -(Base \div 2) /\ y = -1)
    <3>. DEFINE r == x - q * y
    <3>1. Divide(a, b, s)[1] = Wrap(q) /\ Divide(a, b, s)[2] = Wrap(r)
      BY <1>3, <2>4 DEF Divide
    <3>2. q \in Int /\ AbsOf(r) < AbsOf(y) /\ r * x >= 0
      <4>. HIDE DEF x, y
      <4>1. x \in Int /\ y \in Int \ {0}
        BY <2>1, <2>2
      <4>. QED  BY <4>1, Truncates
    <3>3. Wrap(Wrap(q) * b + Wrap(r)) = a
      <4>. HIDE DEF x, y, q
      <4>1. x \in Int /\ y \in Int /\ q \in Int /\ r \in Int /\ q * y + r = x
        BY <2>1, <3>2
      <4>. HIDE DEF r
      <4>. QED  BY <4>1, <2>1, WrapsTo
    <3>4. r \in (-Half)..(Half - 1)
      <4>1. r \in Int
        <5>. HIDE DEF x, y, q
        <5>. QED  BY <2>1, <3>2
      <4>2. QED
        <5>. HIDE DEF x, y, q, r
        <5>. QED  BY <4>1, <3>2, <2>1 DEF AbsOf
    <3>5. AsSigned(Wrap(r)) = r
      <4>. HIDE DEF r
      <4>. QED  BY <3>4, SignedWrap
    <3>6. QED
      <4>. HIDE DEF q, r
      <4>1. IsDivision(Wrap(q), Wrap(r), Operands(a, b, s))
        BY <1>3, <3>2, <3>3, <3>5 DEF IsDivision, Operands
      <4>2. QED
        BY <3>1, <4>1
  <2>5. QED
    BY <2>3, <2>4
<1>4. QED
  BY <1>1, <1>2, <1>3

-----------------------------------------------------------------------------
(* The divider belongs to the holder of its lock *)

Request == [dividend : Values \cup {-1}, divisor : Values \cup {-1}, signed : BOOLEAN]

\* What a core has asked for is what the operand registers hold.
Registered(c) ==
    /\ asked[c].dividend # -1 => dividend = asked[c].dividend
    /\ asked[c].divisor # -1 => divisor = asked[c].divisor
    /\ asked[c] # Nothing => signed = asked[c].signed

\* A result that is ready is the one of the operand registers, if anybody has asked.
Computed ==
    ready => \/ /\ quotient = Divide(dividend, divisor, signed)[1]
                /\ remainder = Divide(dividend, divisor, signed)[2]
             \/ \A c \in Cores : asked[c] = Nothing

Registers ==
    /\ dividend \in Values /\ divisor \in Values /\ signed \in BOOLEAN
    /\ countdown \in Nat /\ ready = (countdown = 0)

DivInv ==
    /\ asked \in [Cores -> Request]
    /\ \A c \in Cores : c \notin holder[DivLock] => asked[c] = Nothing
    /\ \A c \in Cores : Registered(c)
    /\ Registers
    /\ Computed

LEMMA NothingIsRequest == Nothing \in Request /\ 0 \in Values
BY BaseIsEven DEF Nothing, Request, Values

LEMMA DivInvStarts == ASSUME NEW up \in BOOLEAN, Start(up) PROVE DivInv
<1>1. asked = [c \in Cores |-> Nothing] /\ asked \in [Cores -> Request]
  BY NothingIsRequest DEF Start
<1>2. \A c \in Cores : Registered(c)
  BY <1>1 DEF Registered, Nothing
<1>3. Registers
  BY NothingIsRequest DEF Start, Registers
<1>4. QED
  BY <1>1, <1>2, <1>3 DEF DivInv, Computed

\* Cores that lose the lock lose their requests with it.
LEMMA DivInvForgets ==
    ASSUME LockInv, DivInv, NEW R,
           holder' = [n \in Locks |-> holder[n] \ R],
           asked' = [c \in Cores |-> IF c \in R THEN Nothing ELSE asked[c]],
           UNCHANGED operation
    PROVE  DivInv'
<1>1. asked' \in [Cores -> Request]
  BY NothingIsRequest DEF DivInv
<1>2. \A c \in Cores : c \notin holder'[DivLock] => asked'[c] = Nothing
  BY LocksAssumption DEF DivInv, LockInv
<1>3. \A c \in Cores : Registered(c)'
  BY DEF DivInv, Registered, operation, Nothing
<1>4. Registers'
  BY DEF DivInv, Registers, operation
<1>5. Computed'
  BY DEF DivInv, Computed, operation
<1>6. QED
  BY <1>1, <1>2, <1>3, <1>4, <1>5 DEF DivInv

LEMMA DivInvUnchanged ==
    ASSUME DivInv, UNCHANGED <<operation, asked>>, UNCHANGED holder PROVE DivInv'
BY DEF DivInv, Registered, Registers, Computed, operation

LEMMA StartKeepsDivInv ==
    ASSUME LockInv, DivInv, NEW c \in Cores, NEW s \in BOOLEAN, NEW o \in {"dividend", "divisor"},
           NEW v \in Values, StartDivide(c, s, o, v)
    PROVE  DivInv'
<1>1. asked' = [asked EXCEPT ![c] = [@ EXCEPT ![o] = v, !.signed = s]] /\ UNCHANGED holder
  BY DEF StartDivide, locks
<1>2. \A d \in Cores \ {c} : asked[d] = Nothing /\ asked'[d] = Nothing
  BY <1>1, LocksAssumption DEF StartDivide, LockInv, DivInv
<1>. DEFINE new == [asked[c] EXCEPT ![o] = v, !.signed = s]
<1>3. asked'[c] = new
  BY <1>1 DEF DivInv
<1>4. /\ new \in Request /\ new.signed = s
      /\ new.dividend = IF o = "dividend" THEN v ELSE asked[c].dividend
      /\ new.divisor = IF o = "divisor" THEN v ELSE asked[c].divisor
  <2>1. asked[c] \in Request
    BY DEF DivInv
  <2>2. CASE o = "dividend"
    BY <2>1, <2>2 DEF Request
  <2>3. CASE o = "divisor"
    BY <2>1, <2>3 DEF Request
  <2>4. QED
    BY <2>2, <2>3
<1>. HIDE DEF new
<1>5. asked' \in [Cores -> Request]
  BY <1>1, <1>2, <1>3, <1>4, NothingIsRequest DEF DivInv
<1>6. \A d \in Cores : d \notin holder'[DivLock] => asked'[d] = Nothing
  BY <1>1, <1>2 DEF StartDivide
<1>7. \A d \in Cores : Registered(d)'
  <2>1. Registered(c)'
    BY <1>3, <1>4 DEF StartDivide, DivInv, Registered
  <2>2. \A d \in Cores \ {c} : Registered(d)'
    BY <1>2 DEF Registered, Nothing
  <2>3. QED
    BY <2>1, <2>2
<1>8. Registers'
  BY SizesAssumption DEF StartDivide, DivInv, Registers
<1>9. Computed'
  BY DEF StartDivide, Computed
<1>10. QED
  BY <1>5, <1>6, <1>7, <1>8, <1>9 DEF DivInv

LEMMA DivInvKept == ASSUME LockInv, DivInv, [Next]_vars PROVE DivInv'
<1>1. ASSUME NEW c \in Cores, NEW w \in Words, MailboxWrite(c, w) PROVE DivInv'
  <2>1. UNCHANGED operation
    BY <1>1 DEF MailboxWrite
  <2>2. CASE UNCHANGED <<holder, asked>>
    BY <2>1, <2>2, DivInvUnchanged
  <2>3. CASE holder' = [n \in Locks |-> holder[n] \ {1}] /\ asked' = [asked EXCEPT ![1] = Nothing]
    <3>1. asked' = [d \in Cores |-> IF d \in {1} THEN Nothing ELSE asked[d]]
      BY <2>3 DEF DivInv
    <3>2. QED
      BY <2>1, <2>3, <3>1, DivInvForgets
  <2>4. QED
    BY <1>1, <2>2, <2>3 DEF MailboxWrite, LaunchMachine
<1>2. ASSUME NEW c \in Cores, FifoRead(c) \/ ClearStatus(c) \/ EnterHandler(c) \/ WriteNvic(c) PROVE DivInv'
  BY <1>2, DivInvUnchanged DEF FifoRead, ClearStatus, EnterHandler, WriteNvic, locks, divider
<1>3. ASSUME NEW c \in Cores, NEW n \in Locks, Claim(c, n) PROVE DivInv'
  <2>1. \A d \in Cores : d \in holder[DivLock] => d \in holder'[DivLock]
    BY <1>3, LocksAssumption DEF Claim, locks, LockInv
  <2>2. UNCHANGED <<operation, asked>>
    BY <1>3 DEF Claim, divider
  <2>3. QED
    BY <2>1, <2>2 DEF DivInv, Registered, Registers, Computed, operation
<1>4. ASSUME NEW c \in Cores, NEW n \in Locks, Release(c, n) PROVE DivInv'
  <2>1. UNCHANGED operation
    BY <1>4 DEF Release
  <2>2. CASE n = DivLock
    <3>1. asked' = [asked EXCEPT ![c] = Nothing] /\ holder'[DivLock] = holder[DivLock] \ {c}
      BY <1>4, <2>2 DEF Release, LockInv
    <3>2. asked' \in [Cores -> Request]
      BY <3>1, NothingIsRequest DEF DivInv
    <3>3. \A d \in Cores : d \notin holder'[DivLock] => asked'[d] = Nothing
      BY <3>1 DEF DivInv
    <3>4. \A d \in Cores : Registered(d)'
      BY <3>1, <2>1 DEF DivInv, Registered, operation, Nothing
    <3>5. Registers' /\ Computed'
      BY <3>1, <2>1 DEF DivInv, Registers, Computed, operation
    <3>6. QED
      BY <3>2, <3>3, <3>4, <3>5 DEF DivInv
  <2>3. CASE n # DivLock
    <3>1. asked' = asked /\ holder'[DivLock] = holder[DivLock]
      BY <1>4, <2>3, LocksAssumption DEF Release, LockInv, DivInv
    <3>2. QED
      BY <3>1, <2>1 DEF DivInv, Registered, Registers, Computed, operation
  <2>4. QED
    BY <2>2, <2>3
<1>5. ASSUME NEW c \in Cores, NEW s \in BOOLEAN, NEW o \in {"dividend", "divisor"}, NEW v \in Values,
             StartDivide(c, s, o, v)
      PROVE  DivInv'
  BY <1>5, StartKeepsDivInv
<1>6. ASSUME NEW c \in Cores, ReadQuotient(c) PROVE DivInv'
  BY <1>6 DEF ReadQuotient, locks, DivInv, Registered, Registers, Computed
<1>7. ASSUME NEW n \in 1..Latency, Cycles(n) PROVE DivInv'
  <2>1. UNCHANGED <<dividend, divisor, signed, asked, holder>>
    BY <1>7 DEF Cycles, locks
  <2>2. Registers'
    <3>1. countdown \in Nat /\ n \in Nat /\ dividend \in Values /\ divisor \in Values /\ signed \in BOOLEAN
      BY <1>7, SizesAssumption DEF DivInv, Registers
    <3>2. CASE countdown' = 0 /\ ready' = TRUE
      BY <2>1, <3>1, <3>2 DEF Registers
    <3>3. CASE n < countdown /\ countdown' = countdown - n /\ ready' = ready
      <4>1. countdown' \in Nat /\ countdown' # 0 /\ countdown # 0
        BY <3>1, <3>3
      <4>2. QED
        BY <2>1, <3>1, <3>3, <4>1 DEF DivInv, Registers
    <3>4. QED
      BY <1>7, <3>2, <3>3 DEF Cycles
  <2>3. Computed'
    BY <1>7 DEF Cycles, DivInv, Registers, Computed
  <2>4. QED
    BY <2>1, <2>2, <2>3 DEF DivInv, Registered
<1>8. ASSUME NEW R, ResetCores(R) PROVE DivInv'
  BY <1>8, DivInvForgets DEF ResetCores
<1>9. ASSUME UNCHANGED vars PROVE DivInv'
  BY <1>9, DivInvUnchanged DEF vars, locks, divider
<1>10. QED
  BY <1>1, <1>2, <1>3, <1>4, <1>5, <1>6, <1>7, <1>8, <1>9
     DEF Next, MailboxStep, LockStep, DividerStep, ResetStep

\* Who divides under the lock gets the result of its own operands, and it is what division
\* means: the other core may claim, divide, reset and be launched at any time.
THEOREM OwnResultHolds == Spec => []OwnResult
<1>1. Init => LockInv /\ DivInv
  BY LockInvStarts, DivInvStarts DEF Init
<1>2. LockInv /\ DivInv /\ [Next]_vars => LockInv' /\ DivInv'
  BY LockInvKept, DivInvKept
<1>3. LockInv /\ DivInv => OwnResult
  <2>1. ASSUME LockInv, DivInv, NEW c \in holder[DivLock], ready,
               asked[c].dividend # -1, asked[c].divisor # -1
        PROVE  IsDivision(quotient, remainder, asked[c])
    <3>1. c \in Cores
      BY <2>1, LocksAssumption DEF LockInv
    <3>2. asked[c] # Nothing
      BY <2>1 DEF Nothing
    <3>3. asked[c] = Operands(dividend, divisor, signed)
      BY <2>1, <3>1, <3>2 DEF DivInv, Registered, Request, Operands
    <3>4. quotient = Divide(dividend, divisor, signed)[1] /\ remainder = Divide(dividend, divisor, signed)[2]
      BY <2>1, <3>1, <3>2 DEF DivInv, Computed
    <3>5. QED
      BY <2>1, <3>3, <3>4, DividesRight DEF DivInv, Registers
  <2>2. QED
    BY <2>1 DEF OwnResult
<1>4. QED
  BY <1>1, <1>2, <1>3, PTL DEF Spec

-----------------------------------------------------------------------------
(* The words of core 0 *)

LEMMA HeadMovesOver ==
    ASSUME NEW S, NEW g \in Seq(S), NEW t \in Seq(S), t # <<>>
    PROVE  Append(g, Head(t)) \o Tail(t) = g \o t
<1>1. Head(t) \in S /\ Tail(t) \in Seq(S) /\ Len(t) \in Nat \ {0}
  BY HeadTailProperties, EmptySeq
<1>2. Append(g, Head(t)) = g \o <<Head(t)>> /\ <<Head(t)>> \in Seq(S)
  BY <1>1, AppendIsConcat
<1>3. SubSeq(t, 1, Len(t)) = <<t[1]>> \o SubSeq(t, 2, Len(t))
  BY <1>1, SubSeqRecursiveFirst
<1>4. t = <<Head(t)>> \o Tail(t)
  BY <1>1, <1>3, SubSeqFull, TailIsSubSeq
<1>5. QED
  BY <1>1, <1>2, <1>4, ConcatAssociative

LEMMA LastMovesOver ==
    ASSUME NEW S, NEW g \in Seq(S), NEW t \in Seq(S), NEW w \in S
    PROVE  g \o Append(t, w) = Append(g \o t, w)
<1>1. Append(t, w) = t \o <<w>> /\ <<w>> \in Seq(S) /\ g \o t \in Seq(S)
  BY AppendIsConcat, ConcatProperties
<1>2. Append(g \o t, w) = (g \o t) \o <<w>>
  BY <1>1, AppendIsConcat
<1>3. QED
  BY <1>1, <1>2, ConcatAssociative

LEMMA SuffixByElements ==
    ASSUME NEW S, NEW s \in Seq(S), NEW t \in Seq(S), Len(s) <= Len(t),
           \A i \in 1..Len(s) : s[i] = t[Len(t) - Len(s) + i]
    PROVE  IsSuffix(s, t)
<1>. DEFINE r == Reverse(s)
            u == Reverse(t)
            m == Len(s)
            n == Len(t)
<1>1. m \in Nat /\ n \in Nat
  BY LenProperties
<1>2. /\ r = [i \in 1..m |-> s[(m - i) + 1]] /\ u = [i \in 1..n |-> t[(n - i) + 1]]
  BY DEF Reverse
<1>3. \A i \in 1..m : s[(m - i) + 1] \in S
  BY <1>1, ElementOfSeq
<1>4. \A i \in 1..n : t[(n - i) + 1] \in S
  BY <1>1, ElementOfSeq
<1>5. r \in Seq(S) /\ Len(r) = m
  BY <1>1, <1>2, <1>3
<1>6. u \in Seq(S) /\ Len(u) = n
  BY <1>1, <1>2, <1>4
<1>7. \A i \in 1..m : r[i] = u[i]
  BY <1>1, <1>2
<1>. HIDE DEF r, u, m, n
<1>8. SubSeq(r, 1, m) = SubSeq(u, 1, m)
  <2>1. (\A i \in 1..m : r[i] \in S) /\ (\A i \in 1..m : u[i] \in S)
    BY <1>1, <1>5, <1>6, <1>7, ElementOfSeq
  <2>2. /\ SubSeq(r, 1, m) \in Seq(S) /\ Len(SubSeq(r, 1, m)) = m
        /\ \A i \in 1..m : SubSeq(r, 1, m)[i] = r[i]
    BY <1>1, <2>1, SubSeqProperties
  <2>3. /\ SubSeq(u, 1, m) \in Seq(S) /\ Len(SubSeq(u, 1, m)) = m
        /\ \A i \in 1..m : SubSeq(u, 1, m)[i] = u[i]
    BY <1>1, <2>1, SubSeqProperties
  <2>4. QED
    BY <2>2, <2>3, <1>7, SeqEqual
<1>9. QED
  BY <1>1, <1>5, <1>6, <1>8 DEF IsSuffix, IsPrefix, r, u, m, n

\* Everything core 0 has sent was taken out by core 1 or still waits, in order.
OrderInv ==
    /\ to1 \in Seq(Words)
    /\ DOMAIN got = Cores /\ got[1] \in Seq(Words)
    /\ sent \in [Cores -> Seq(Words)]
    /\ got[1] \o to1 = sent[0]

LEMMA OrderInvKept == ASSUME OrderInv, [Next]_vars PROVE OrderInv'
<1>. USE DEF Cores
<1>1. ASSUME NEW c \in Cores, NEW w \in Words, MailboxWrite(c, w) PROVE OrderInv'
  <2>1. UNCHANGED got
    BY <1>1 DEF MailboxWrite
  <2>2. CASE UNCHANGED <<to1, sent>>
    BY <2>1, <2>2 DEF OrderInv
  <2>3. CASE c = 0 /\ to1' = Append(to1, w) /\ sent' = [sent EXCEPT ![0] = Append(@, w)]
    <3>1. to1' \in Seq(Words) /\ Append(sent[0], w) \in Seq(Words)
      BY <2>3, AppendProperties DEF OrderInv
    <3>2. got[1] \o Append(to1, w) = Append(sent[0], w)
      BY LastMovesOver DEF OrderInv
    <3>3. sent' \in [Cores -> Seq(Words)] /\ sent'[0] = Append(sent[0], w)
      BY <2>3, <3>1 DEF OrderInv
    <3>4. QED
      BY <2>1, <2>3, <3>1, <3>2, <3>3 DEF OrderInv
  <2>4. CASE c = 1 /\ to1' = to1 /\ sent' = [sent EXCEPT ![1] = Append(@, w)]
    <3>1. Append(sent[1], w) \in Seq(Words)
      BY AppendProperties DEF OrderInv
    <3>2. sent' \in [Cores -> Seq(Words)] /\ sent'[0] = sent[0]
      BY <2>4, <3>1 DEF OrderInv
    <3>3. QED
      BY <2>1, <2>4, <3>2 DEF OrderInv
  <2>5. QED
    BY <1>1, <2>2, <2>3, <2>4 DEF MailboxWrite
<1>2. ASSUME NEW c \in Cores, FifoRead(c) PROVE OrderInv'
  <2>1. UNCHANGED sent
    BY <1>2 DEF FifoRead
  <2>2. CASE UNCHANGED <<to1, got>>
    BY <2>1, <2>2 DEF OrderInv
  <2>3. CASE c = 0 /\ to1' = to1 /\ got' = [got EXCEPT ![0] = Append(@, Head(to0))]
    BY <2>1, <2>3 DEF OrderInv
  <2>4. CASE c = 1 /\ to1 # <<>> /\ to1' = Tail(to1) /\ got' = [got EXCEPT ![1] = Append(@, Head(to1))]
    <3>1. Head(to1) \in Words /\ Tail(to1) \in Seq(Words)
      BY <2>4, HeadTailProperties DEF OrderInv
    <3>2. Append(got[1], Head(to1)) \in Seq(Words)
      BY <3>1, AppendProperties DEF OrderInv
    <3>3. DOMAIN got' = Cores /\ got'[1] = Append(got[1], Head(to1))
      BY <2>4 DEF OrderInv
    <3>4. Append(got[1], Head(to1)) \o Tail(to1) = got[1] \o to1
      BY <2>4, HeadMovesOver DEF OrderInv
    <3>5. QED
      BY <2>1, <2>4, <3>1, <3>2, <3>3, <3>4 DEF OrderInv
  <2>5. QED
    BY <1>2, <2>2, <2>3, <2>4 DEF FifoRead
<1>3. ASSUME UNCHANGED <<to1, got, sent>> PROVE OrderInv'
  BY <1>3 DEF OrderInv
<1>4. \A c \in Cores : ClearStatus(c) \/ EnterHandler(c) \/ WriteNvic(c) => UNCHANGED <<to1, got, sent>>
  BY DEF ClearStatus, EnterHandler, WriteNvic
<1>5. LockStep \/ DividerStep \/ ResetStep \/ UNCHANGED vars => UNCHANGED <<to1, got, sent>>
  BY DEF LockStep, Claim, Release, DividerStep, StartDivide, ReadQuotient, Cycles, ResetStep, ResetCores,
         vars, fifos
<1>6. QED
  BY <1>1, <1>2, <1>3, <1>4, <1>5 DEF Next, MailboxStep

\* Core 1 gets the words core 0 has put in its mailbox, each once and in order: resets and
\* launches leave the FIFO as it is.  This is the part of Delivered about one sender.
THEOREM ReachesCore1 == Spec => [](got[1] \o to1 = sent[0])
<1>1. Init => OrderInv
  <2>1. <<>> \in Seq(Words) /\ <<>> \o <<>> = <<>>
    BY EmptySeq, ConcatEmptySeq
  <2>2. QED
    BY <2>1 DEF Init, Start, OrderInv, Cores
<1>2. OrderInv /\ [Next]_vars => OrderInv'
  BY OrderInvKept
<1>3. OrderInv => got[1] \o to1 = sent[0]
  BY DEF OrderInv
<1>4. QED
  BY <1>1, <1>2, <1>3, PTL DEF Spec

-----------------------------------------------------------------------------
(* The two senders of core 0's mailbox *)

Entries == [from : {"core1", "echo"}, word : Words]

Extended(w, e, o) == IF e.from = o THEN Append(w, e.word) ELSE w

\* What WordsFrom computes, entry by entry
Collects(g, s, o) ==
    /\ g \in [0..Len(s) -> Seq(Words)]
    /\ g[0] = <<>>
    /\ \A k \in 1..Len(s) : g[k] = Extended(g[k - 1], s[k], o)

LEMMA SomethingCollects ==
    ASSUME NEW s \in Seq(Entries), NEW o
    PROVE  \E g : Collects(g, s, o)
<1>. DEFINE n == Len(s)
            F == [k \in 1..n |-> [w \in Seq(Words) |-> Extended(w, s[k], o)]]
<1>1. n \in Nat /\ \A k \in 1..n : s[k] \in Entries
  BY LenProperties, ElementOfSeq
<1>2. <<>> \in Seq(Words)
  BY EmptySeq
<1>3. ASSUME NEW k \in 1..n, NEW w \in Seq(Words)
      PROVE  Extended(w, s[k], o) \in Seq(Words)
  <2>1. Append(w, s[k].word) \in Seq(Words)
    BY <1>1, AppendProperties DEF Entries
  <2>2. QED
    BY <2>1 DEF Extended
<1>4. F \in [1..n -> [Seq(Words) -> Seq(Words)]]
  BY <1>3
<1>5. PICK g \in [0..n -> Seq(Words)] : Steps(g, <<>>, F, n)
  <2>. HIDE DEF n, F
  <2>. QED  BY <1>1, <1>2, <1>4, Recursion
<1>6. ASSUME NEW k \in 1..n
      PROVE  g[k] = Extended(g[k - 1], s[k], o)
  <2>1. k - 1 \in 0..n /\ g[k - 1] \in Seq(Words)
    <3>. HIDE DEF n, F
    <3>. QED  BY <1>1
  <2>2. QED
    BY <1>5, <2>1 DEF Steps
<1>7. g[0] = <<>>
  BY <1>5 DEF Steps
<1>8. QED
  BY <1>6, <1>7 DEF Collects

LEMMA WordsFromCollects ==
    ASSUME NEW s \in Seq(Entries), NEW o
    PROVE  \E g : Collects(g, s, o) /\ WordsFrom(s, o) = g[Len(s)]
<1>. DEFINE words[k \in 0..Len(s)] ==
                IF k = 0 THEN <<>>
                ELSE IF s[k].from = o THEN Append(words[k - 1], s[k].word) ELSE words[k - 1]
            n == Len(s)
            Is(f) == f = [k \in 0..n |->
                             IF k = 0 THEN <<>>
                             ELSE IF s[k].from = o THEN Append(f[k - 1], s[k].word) ELSE f[k - 1]]
<1>0. n \in Nat /\ 0 \in 0..n /\ \A k \in 1..n : k \in 0..n /\ k # 0
  BY LenProperties
<1>1. PICK g : Collects(g, s, o)
  BY SomethingCollects
<1>2. Is(g)
  <2>1. ASSUME NEW k \in 0..n
        PROVE  g[k] = IF k = 0 THEN <<>>
                      ELSE IF s[k].from = o THEN Append(g[k - 1], s[k].word) ELSE g[k - 1]
    <3>1. k = 0 \/ k \in 1..n
      BY <1>0
    <3>2. QED
      BY <1>1, <3>1 DEF Collects, Extended
  <2>2. g \in [0..n -> Seq(Words)]
    BY <1>1 DEF Collects
  <2>. HIDE DEF n
  <2>3. QED
    BY <2>1, <2>2
<1>3. Is(words)
  <2>1. words = CHOOSE f : Is(f)
    OBVIOUS
  <2>. HIDE DEF words, Is
  <2>. QED  BY <1>2, <2>1
<1>4. WordsFrom(s, o) = words[Len(s)]
  BY DEF WordsFrom
<1>. HIDE DEF words
<1>5. \A k \in 0..n : words[k] = g[k]
  <2>1. \A k \in 1..n : words[k - 1] = g[k - 1] => words[k] = g[k]
    <3>1. ASSUME NEW k \in 1..n, words[k - 1] = g[k - 1]
          PROVE  words[k] = g[k]
      <4>1. words[k] = Extended(words[k - 1], s[k], o)
        BY <1>0, <1>3 DEF Extended
      <4>2. g[k] = Extended(g[k - 1], s[k], o)
        BY <1>1 DEF Collects
      <4>3. QED
        BY <3>1, <4>1, <4>2
    <3>2. QED
      BY <3>1
  <2>2. words[0] = g[0]
    BY <1>0, <1>1, <1>3 DEF Collects
  <2>3. n \in Nat
    BY <1>0
  <2>. HIDE DEF n, Is
  <2>4. QED
    BY <2>1, <2>2, <2>3, SameSteps, ZenonT(60)
<1>6. n \in 0..n
  BY <1>0
<1>7. QED
  BY <1>1, <1>4, <1>5, <1>6

LEMMA WordsFromNothing == \A o : WordsFrom(<<>>, o) = <<>>
<1>1. <<>> \in Seq(Entries) /\ Len(<<>>) = 0
  BY EmptySeq
<1>2. QED
  BY <1>1, WordsFromCollects DEF Collects

LEMMA WordsFromOneMore ==
    ASSUME NEW s \in Seq(Entries), NEW e \in Entries, NEW o
    PROVE  WordsFrom(Append(s, e), o) = Extended(WordsFrom(s, o), e, o)
<1>. DEFINE n == Len(s)
            t == Append(s, e)
<1>1. /\ t \in Seq(Entries) /\ n \in Nat /\ Len(t) = n + 1
      /\ t[n + 1] = e /\ \A k \in 1..n : t[k] = s[k]
  BY AppendProperties, LenProperties
<1>2. PICK g : Collects(g, s, o) /\ WordsFrom(s, o) = g[n]
  BY WordsFromCollects
<1>3. PICK h : Collects(h, t, o) /\ WordsFrom(t, o) = h[n + 1]
  <2>. HIDE DEF t
  <2>. QED  BY <1>1, WordsFromCollects
<1>. HIDE DEF n, t
<1>4. \A k \in 0..n : g[k] = h[k]
  <2>1. \A k \in 1..n : g[k - 1] = h[k - 1] => g[k] = h[k]
    <3>1. ASSUME NEW k \in 1..n, g[k - 1] = h[k - 1]
          PROVE  g[k] = h[k]
      <4>1. g[k] = Extended(g[k - 1], s[k], o)
        BY <1>2 DEF Collects, n
      <4>2. k \in 1..(n + 1)
        BY <1>1
      <4>3. h[k] = Extended(h[k - 1], t[k], o)
        BY <1>1, <1>3, <4>2 DEF Collects
      <4>4. QED
        BY <1>1, <3>1, <4>1, <4>3
    <3>2. QED
      BY <3>1
  <2>2. g[0] = h[0]
    BY <1>2, <1>3 DEF Collects
  <2>3. n \in Nat
    BY <1>1
  <2>4. QED
    BY <2>1, <2>2, <2>3, SameSteps, ZenonT(60)
<1>5. n + 1 \in 1..(n + 1) /\ (n + 1) - 1 = n /\ n \in 0..n
  BY <1>1
<1>6. h[n + 1] = Extended(h[n], e, o)
  BY <1>1, <1>3, <1>5 DEF Collects
<1>7. QED
  BY <1>2, <1>3, <1>4, <1>5, <1>6 DEF t

History == got[0] \o to0

\* Of each origin, core 0's mailbox and what core 0 took from it hold what that core sent.
SendersInv ==
    /\ to0 \in Seq(Entries)
    /\ DOMAIN got = Cores /\ got[0] \in Seq(Entries)
    /\ sent \in [Cores -> Seq(Words)]
    /\ WordsFrom(History, "core1") = sent[1]
    /\ WordsFrom(History, "echo") = sent[0]

LEMMA SendersInvUnchanged ==
    ASSUME SendersInv, UNCHANGED <<to0, sent>>, DOMAIN got' = Cores, got'[0] = got[0]
    PROVE  SendersInv'
BY DEF SendersInv, History

LEMMA EntryMovesOver ==
    ASSUME SendersInv, NEW e \in Entries
    PROVE  got[0] \o Append(to0, e) = Append(History, e)
<1>1. to0 \in Seq(Entries) /\ got[0] \in Seq(Entries)
  BY DEF SendersInv
<1>2. \A g, t \in Seq(Entries) : g \o Append(t, e) = Append(g \o t, e)
  BY LastMovesOver
<1>3. QED
  BY <1>1, <1>2 DEF History

\* Between them the two writers add a word to the mailbox and to the history of its sender.
LEMMA WriteKeepsSenders ==
    ASSUME SendersInv, NEW c \in Cores, NEW w \in Words, MailboxWrite(c, w)
    PROVE  SendersInv'
<1>. DEFINE e == [from |-> IF c = 0 THEN "echo" ELSE "core1", word |-> w]
<1>1. UNCHANGED got
  BY DEF MailboxWrite
<1>2. CASE UNCHANGED <<to0, sent>>
  BY <1>1, <1>2, SendersInvUnchanged DEF SendersInv
<1>3. CASE to0' = Append(to0, e) /\ sent' = [sent EXCEPT ![c] = Append(@, w)]
  <2>1. e \in Entries /\ e.word = w /\ e.from = IF c = 0 THEN "echo" ELSE "core1"
    BY DEF Entries
  <2>. HIDE DEF e
  <2>2. to0' \in Seq(Entries) /\ got[0] \in Seq(Entries) /\ History \in Seq(Entries)
    BY <1>3, <2>1, AppendProperties, ConcatProperties DEF SendersInv, History
  <2>3. History' = Append(History, e)
    <3>2. got[0] \o Append(to0, e) = Append(History, e)
      BY <2>1, EntryMovesOver
    <3>3. to0' = Append(to0, e) /\ got' = got
      BY <1>1, <1>3 DEF e
    <3>4. QED
      BY <3>2, <3>3 DEF History
  <2>4. /\ WordsFrom(History', "core1") = Extended(sent[1], e, "core1")
        /\ WordsFrom(History', "echo") = Extended(sent[0], e, "echo")
    BY <2>1, <2>2, <2>3, WordsFromOneMore DEF SendersInv
  <2>5. Append(sent[c], w) \in Seq(Words)
    BY AppendProperties DEF SendersInv
  <2>6. /\ sent' \in [Cores -> Seq(Words)]
        /\ sent'[1] = Extended(sent[1], e, "core1")
        /\ sent'[0] = Extended(sent[0], e, "echo")
    BY <1>3, <2>1, <2>5 DEF SendersInv, Extended, Cores
  <2>7. QED
    BY <1>1, <2>2, <2>4, <2>6 DEF SendersInv
<1>4. QED
  BY <1>2, <1>3 DEF MailboxWrite

\* A read moves the mailbox's first word over to what core 0 took.
LEMMA ReadKeepsSenders ==
    ASSUME SendersInv, NEW c \in Cores, FifoRead(c)
    PROVE  SendersInv'
<1>1. UNCHANGED sent
  BY DEF FifoRead
<1>2. CASE UNCHANGED <<to0, got>>
  BY <1>1, <1>2, SendersInvUnchanged DEF SendersInv
<1>3. CASE c = 1 /\ to0' = to0 /\ got' = [got EXCEPT ![1] = Append(@, Head(to1))]
  BY <1>1, <1>3, SendersInvUnchanged DEF SendersInv, Cores
<1>4. CASE c = 0 /\ to0 # <<>> /\ to0' = Tail(to0) /\ got' = [got EXCEPT ![0] = Append(@, Head(to0))]
  <2>1. Head(to0) \in Entries /\ Tail(to0) \in Seq(Entries)
    BY <1>4, HeadTailProperties DEF SendersInv
  <2>2. Append(got[0], Head(to0)) \in Seq(Entries)
    BY <2>1, AppendProperties DEF SendersInv
  <2>3. DOMAIN got' = Cores /\ got'[0] = Append(got[0], Head(to0))
    BY <1>4 DEF SendersInv, Cores
  <2>4. History' = History
    BY <1>4, <2>3, HeadMovesOver DEF SendersInv, History
  <2>5. QED
    BY <1>1, <1>4, <2>1, <2>2, <2>3, <2>4 DEF SendersInv
<1>5. QED
  BY <1>2, <1>3, <1>4 DEF FifoRead, Cores

LEMMA SendersInvKept == ASSUME SendersInv, [Next]_vars PROVE SendersInv'
<1>1. ASSUME UNCHANGED <<to0, got, sent>> PROVE SendersInv'
  BY <1>1, SendersInvUnchanged DEF SendersInv
<1>2. \A c \in Cores : ClearStatus(c) \/ EnterHandler(c) \/ WriteNvic(c) => UNCHANGED <<to0, got, sent>>
  BY DEF ClearStatus, EnterHandler, WriteNvic
<1>3. LockStep \/ DividerStep \/ ResetStep \/ UNCHANGED vars => UNCHANGED <<to0, got, sent>>
  BY DEF LockStep, Claim, Release, DividerStep, StartDivide, ReadQuotient, Cycles, ResetStep, ResetCores,
         vars, fifos
<1>4. QED
  BY <1>1, <1>2, <1>3, WriteKeepsSenders, ReadKeepsSenders DEF Next, MailboxStep

\* Whatever the cores write, read, launch and reset, and however deep the FIFOs: no word is lost,
\* repeated or overtaken by a word of the same sender, with echoes and words of core 1 in one FIFO.
THEOREM DeliveredHolds == Spec => []Delivered
<1>1. Init => SendersInv
  <2>1. /\ <<>> \in Seq(Words) /\ <<>> \in Seq(Entries)
        /\ <<>> \o <<>> = <<>>
    BY EmptySeq, ConcatEmptySeq
  <2>2. QED
    BY <2>1, WordsFromNothing DEF Init, Start, SendersInv, History, Cores
<1>2. SendersInv /\ [Next]_vars => SendersInv'
  BY SendersInvKept
<1>3. SendersInv /\ got[1] \o to1 = sent[0] => Delivered
  BY DEF SendersInv, History, Delivered
<1>4. QED
  BY <1>1, <1>2, <1>3, ReachesCore1, PTL DEF Spec

-----------------------------------------------------------------------------
(* The launch of core 1 *)

\* While the command is read, its 1 and the words after it are the last words core 0 sent.
LaunchInv ==
    /\ stage \in -1..2
    /\ args \in [1..3 -> Nat]
    /\ sent \in [Cores -> Seq(Nat)]
    /\ stage >= 0 =>
          /\ Len(sent[0]) > stage
          /\ sent[0][Len(sent[0]) - stage] = 1
          /\ \A k \in 1..stage : args[k] = sent[0][Len(sent[0]) - stage + k]

LEMMA LaunchWordKeepsInv ==
    ASSUME LaunchInv, NEW w \in Nat, LaunchMachine(w),
           sent' = [sent EXCEPT ![0] = Append(@, w)]
    PROVE  LaunchInv'
<1>. DEFINE t == sent[0]
            u == Append(t, w)
<1>1. t \in Seq(Nat) /\ Len(t) \in Nat
  BY LenProperties DEF LaunchInv, Cores
<1>2. u \in Seq(Nat) /\ Len(u) = Len(t) + 1 /\ u[Len(t) + 1] = w /\ \A i \in 1..Len(t) : u[i] = t[i]
  BY <1>1, AppendProperties
<1>3. sent' \in [Cores -> Seq(Nat)] /\ sent'[0] = u
  BY <1>2 DEF LaunchInv, Cores
<1>. HIDE DEF t, u
<1>4. stage \in 0..2 => /\ Len(t) > stage
                        /\ t[Len(t) - stage] = 1
                        /\ \A k \in 1..stage : args[k] = t[Len(t) - stage + k]
  BY DEF LaunchInv, t
<1>5. CASE stage < 0
  <2>1. (stage' = 0 /\ w = 1) \/ stage' = -1
    BY <1>5 DEF LaunchMachine, LaunchInv
  <2>2. args' = args
    BY <1>5 DEF LaunchMachine, LaunchInv
  <2>3. CASE stage' = 0 /\ w = 1
    <3>1. Len(u) > 0 /\ u[Len(u) - 0] = 1
      BY <1>1, <1>2, <2>3
    <3>2. QED
      BY <1>3, <2>2, <2>3, <3>1 DEF LaunchInv
  <2>4. CASE stage' = -1
    BY <1>3, <2>2, <2>4 DEF LaunchInv
  <2>5. QED
    BY <2>1, <2>3, <2>4
<1>6. CASE stage \in 0..2
  <2>1. args' = [args EXCEPT ![stage + 1] = w] /\ ((stage' = stage + 1 /\ stage < 2) \/ stage' = -1)
    BY <1>6 DEF LaunchMachine, LaunchInv
  <2>2. args' \in [1..3 -> Nat] /\ args'[stage + 1] = w /\ \A k \in 1..stage : args'[k] = args[k]
    BY <1>6, <2>1 DEF LaunchInv
  <2>3. CASE stage' = -1
    BY <1>3, <2>2, <2>3 DEF LaunchInv
  <2>4. CASE stage' = stage + 1 /\ stage < 2
    <3>1. Len(u) > stage' /\ Len(u) - stage' = Len(t) - stage
      BY <1>1, <1>2, <1>6, <1>4, <2>4
    <3>2. u[Len(t) - stage] = 1
      <4>1. Len(t) - stage \in 1..Len(t)
        BY <1>1, <1>4, <1>6
      <4>2. QED
        BY <1>2, <1>4, <1>6, <4>1
    <3>3. ASSUME NEW k \in 1..stage' PROVE args'[k] = u[Len(t) - stage + k]
      <4>1. CASE k = stage + 1
        BY <1>1, <1>2, <1>6, <2>2, <4>1
      <4>2. CASE k \in 1..stage
        <5>1. Len(t) - stage + k \in 1..Len(t)
          BY <1>1, <1>6, <1>4, <4>2
        <5>2. QED
          BY <1>2, <1>6, <1>4, <2>2, <4>2, <5>1
      <4>3. QED
        BY <1>6, <2>4, <4>1, <4>2
    <3>4. stage' \in -1..2
      BY <1>6, <2>4
    <3>5. QED
      BY <1>3, <2>2, <3>1, <3>2, <3>3, <3>4 DEF LaunchInv
  <2>5. QED
    BY <2>1, <2>3, <2>4
<1>7. stage < 0 \/ stage \in 0..2
  BY DEF LaunchInv
<1>8. QED
  BY <1>5, <1>6, <1>7

LEMMA LaunchInvKept == ASSUME LaunchInv, [Next]_vars PROVE LaunchInv'
<1>1. ASSUME UNCHANGED <<stage, args, sent>> PROVE LaunchInv'
  BY <1>1 DEF LaunchInv
<1>2. ASSUME NEW c \in Cores, NEW w \in Words, MailboxWrite(c, w) PROVE LaunchInv'
  <2>1. w \in Nat
    BY WordsAssumption
  <2>2. CASE LaunchMachine(w) /\ sent' = [sent EXCEPT ![0] = Append(@, w)]
    BY <2>1, <2>2, LaunchWordKeepsInv
  <2>3. CASE c = 1 /\ UNCHANGED <<stage, args>> /\ sent' = [sent EXCEPT ![1] = Append(@, w)]
    <3>1. Append(sent[1], w) \in Seq(Nat)
      BY <2>1, AppendProperties DEF LaunchInv, Cores
    <3>2. sent' \in [Cores -> Seq(Nat)] /\ sent'[0] = sent[0]
      BY <2>3, <3>1 DEF LaunchInv, Cores
    <3>3. QED
      BY <2>3, <3>2 DEF LaunchInv
  <2>4. QED
    BY <1>1, <1>2, <2>2, <2>3 DEF MailboxWrite, Cores
<1>3. \A c \in Cores : FifoRead(c) \/ ClearStatus(c) \/ EnterHandler(c) \/ WriteNvic(c) => UNCHANGED <<stage, args, sent>>
  BY DEF FifoRead, ClearStatus, EnterHandler, WriteNvic
<1>4. LockStep \/ DividerStep \/ ResetStep \/ UNCHANGED vars => UNCHANGED <<stage, args, sent>>
  BY DEF LockStep, Claim, Release, DividerStep, StartDivide, ReadQuotient, Cycles, ResetStep, ResetCores,
         vars, fifos
<1>5. QED
  BY <1>1, <1>2, <1>3, <1>4 DEF Next, MailboxStep

LEMMA CommandAndWords ==
    ASSUME NEW a \in [1..3 -> Nat]
    PROVE  /\ <<1>> \o a \in Seq(Nat) /\ Len(<<1>> \o a) = 4
           /\ (<<1>> \o a)[1] = 1
           /\ \A k \in 1..3 : (<<1>> \o a)[k + 1] = a[k]
<1>. DEFINE one == <<1>>
<1>1. a \in Seq(Nat)
  BY SeqDef
<1>2. Len(a) = 3
  <2>1. DOMAIN a = 1..3 /\ DOMAIN a = 1..Len(a) /\ Len(a) \in Nat
    BY <1>1, LenProperties
  <2>2. QED
    BY <2>1
<1>3. one \in Seq(Nat) /\ Len(one) = 1 /\ one[1] = 1
  OBVIOUS
<1>4. /\ one \o a \in Seq(Nat) /\ Len(one \o a) = 4 /\ (one \o a)[1] = 1
      /\ \A k \in 1..3 : (one \o a)[k + 1] = a[k]
  <2>. HIDE DEF one
  <2>1. /\ one \o a \in Seq(Nat) /\ Len(one \o a) = Len(one) + Len(a)
        /\ \A i \in 1..(Len(one) + Len(a)) :
              (one \o a)[i] = IF i <= Len(one) THEN one[i] ELSE a[i - Len(one)]
    BY <1>1, <1>3, ConcatProperties
  <2>2. /\ \A i \in 1..4 : (one \o a)[i] = IF i <= 1 THEN one[i] ELSE a[i - 1]
        /\ one \o a \in Seq(Nat) /\ Len(one \o a) = 4
    <3>1. Len(one) + Len(a) = 4 /\ Len(one) = 1
      BY <1>2, <1>3
    <3>2. QED
      BY <2>1, <3>1
  <2>3. (one \o a)[1] = 1
    <3>1. (one \o a)[1] = one[1]
      BY <2>2
    <3>2. QED
      BY <3>1, <1>3
  <2>4. ASSUME NEW k \in 1..3
        PROVE  (one \o a)[k + 1] = a[k]
    <3>1. k + 1 \in 1..4 /\ ~(k + 1 <= 1) /\ (k + 1) - 1 = k
      OBVIOUS
    <3>2. (one \o a)[k + 1] = a[(k + 1) - 1]
      BY <2>2, <3>1
    <3>3. QED
      BY <3>1, <3>2
  <2>5. QED
    BY <2>2, <2>3, <2>4
<1>5. QED
  BY <1>4

\* The step that starts core 1 has just read the third word after a 1.
LEMMA LaunchHasCommand ==
    ASSUME LaunchInv, [Next]_vars, Launches
    PROVE  IsSuffix(<<1>> \o args', sent'[0])
<1>. DEFINE t == sent[0]
            u == Append(t, args'[3])
            s == <<1>> \o args'
<1>1. PICK w \in Words : MailboxWrite(0, w) /\ LaunchMachine(w)
  <2>1. \A c \in Cores : ~(FifoRead(c) \/ ClearStatus(c) \/ EnterHandler(c) \/ WriteNvic(c))
    BY DEF Launches, FifoRead, ClearStatus, EnterHandler, WriteNvic
  <2>2. ~(LockStep \/ DividerStep \/ ResetStep \/ UNCHANGED vars)
    BY DEF Launches, LockStep, Claim, Release, DividerStep, StartDivide, ReadQuotient, Cycles, ResetStep,
           ResetCores, vars, fifos
  <2>3. PICK c \in Cores, w \in Words : MailboxWrite(c, w)
    BY <2>1, <2>2 DEF Next, MailboxStep
  <2>4. c = 0 /\ LaunchMachine(w)
    BY <2>3 DEF MailboxWrite, Launches, Cores
  <2>5. QED
    BY <2>3, <2>4
<1>2. sent' = [sent EXCEPT ![0] = Append(@, w)] /\ args' = [args EXCEPT ![3] = w]
  BY <1>1 DEF MailboxWrite, LaunchMachine, Launches
<1>3. w \in Nat
  BY WordsAssumption
<1>4. args' \in [1..3 -> Nat] /\ args'[1] = args[1] /\ args'[2] = args[2] /\ args'[3] = w
  BY <1>2, <1>3 DEF LaunchInv
<1>5. t \in Seq(Nat) /\ Len(t) \in Nat
  BY LenProperties DEF LaunchInv, Cores
<1>6. u \in Seq(Nat) /\ Len(u) = Len(t) + 1 /\ u[Len(t) + 1] = w /\ \A i \in 1..Len(t) : u[i] = t[i]
  BY <1>3, <1>4, <1>5, AppendProperties
<1>7. sent'[0] = u
  BY <1>2, <1>4 DEF LaunchInv, Cores
<1>8. Len(t) > 2 /\ t[Len(t) - 2] = 1 /\ args[1] = t[Len(t) - 1] /\ args[2] = t[Len(t)]
  <2>1. /\ Len(t) > 2 /\ t[Len(t) - 2] = 1
        /\ \A k \in 1..2 : args[k] = t[Len(t) - 2 + k]
    BY DEF LaunchInv, Launches
  <2>2. args[1] = t[Len(t) - 2 + 1] /\ args[2] = t[Len(t) - 2 + 2]
    BY <2>1
  <2>3. Len(t) - 2 + 1 = Len(t) - 1 /\ Len(t) - 2 + 2 = Len(t)
    BY <1>5
  <2>4. QED
    BY <2>1, <2>2, <2>3
<1>9. /\ s \in Seq(Nat) /\ Len(s) = 4
      /\ s[1] = 1 /\ s[2] = args'[1] /\ s[3] = args'[2] /\ s[4] = args'[3]
  <2>1. s[1] = 1 /\ \A k \in 1..3 : s[k + 1] = args'[k]
    BY <1>4, CommandAndWords
  <2>2. QED
    BY <1>4, <2>1, CommandAndWords
<1>. HIDE DEF t, u, s
<1>10. ASSUME NEW i \in 1..Len(s) PROVE s[i] = u[Len(u) - Len(s) + i]
  <2>1. i = 1 \/ i = 2 \/ i = 3 \/ i = 4
    BY <1>9
  <2>2. Len(u) - Len(s) + i = Len(t) - 3 + i
    BY <1>5, <1>6, <1>9
  <2>3. Len(t) - 2 \in 1..Len(t) /\ Len(t) - 1 \in 1..Len(t) /\ Len(t) \in 1..Len(t)
    BY <1>5, <1>8
  <2>4. /\ u[Len(t) - 2] = t[Len(t) - 2] /\ u[Len(t) - 1] = t[Len(t) - 1]
        /\ u[Len(t)] = t[Len(t)] /\ u[Len(t) + 1] = w
    BY <1>6, <2>3
  <2>5. u[Len(t) - 2] = s[1] /\ u[Len(t) - 1] = s[2] /\ u[Len(t)] = s[3] /\ u[Len(t) + 1] = s[4]
    BY <2>4, <1>4, <1>8, <1>9
  <2>6. QED
    <3>1. Len(t) - 3 + 1 = Len(t) - 2 /\ Len(t) - 3 + 2 = Len(t) - 1 /\ Len(t) - 3 + 3 = Len(t)
          /\ Len(t) - 3 + 4 = Len(t) + 1
      BY <1>5
    <3>2. QED
      BY <2>1, <2>2, <2>5, <3>1
<1>11. IsSuffix(s, u)
  <2>1. Len(s) <= Len(u)
    BY <1>5, <1>6, <1>8, <1>9
  <2>2. QED
    BY <1>6, <1>9, <1>10, <2>1, SuffixByElements
<1>12. QED
  BY <1>7, <1>11 DEF s

\* Core 1 starts with the three words core 0 sent after a 1, however the writes of core 1,
\* the reads, the resets and the launches of before fall among them.
THEOREM LaunchFollowsCommandHolds == Spec => LaunchFollowsCommand
<1>1. Init => LaunchInv
  <2>1. <<>> \in Seq(Nat)
    BY EmptySeq
  <2>2. QED
    BY <2>1 DEF Init, Start, LaunchInv, Cores
<1>2. LaunchInv /\ [Next]_vars => LaunchInv'
  BY LaunchInvKept
<1>3. LaunchInv /\ [Next]_vars => [Launches => IsSuffix(<<1>> \o args', sent'[0])]_vars
  BY LaunchHasCommand
<1>4. QED
  BY <1>1, <1>2, <1>3, PTL DEF Spec, LaunchFollowsCommand

=============================================================================
