--------------------------------- MODULE Alu ---------------------------------
(***************************************************************************)
(* The arithmetic of alu.cpp and the condition codes of registers.cpp, for *)
(* words of Width bits, a power of two, where the code has 32; after them  *)
(* what the results mean, which is no part of the program: numbers with a  *)
(* sign, and shifts of a single bit.                                       *)
(***************************************************************************)
EXTENDS Integers, Powers

CONSTANT Width

Modulus == PowerOfTwo[Width]
Word == 0..(Modulus - 1)

Complement(x) == Modulus - 1 - x

\* The top bit
Neg(x) == x >= Modulus \div 2

Bit(x, n) == (x \div PowerOfTwo[n]) % 2 = 1

AddWithCarry(x, y, carry) ==
    LET sum == x + y + (IF carry THEN 1 ELSE 0)
        value == sum % Modulus
    IN  [value |-> value, carry |-> sum >= Modulus,
         overflow |-> Neg(x) = Neg(y) /\ Neg(value) # Neg(x)]

-----------------------------------------------------------------------------
\* The word and the carry after a shift; by nothing, neither changes.
ShiftLeft(x, n) ==
    IF n > Width THEN [value |-> 0, carry |-> FALSE]
    ELSE [value |-> (x * PowerOfTwo[n]) % Modulus, carry |-> Bit(x, Width - n)]

\* Mutant: a shift by the whole width forgets its carry
ShiftRightShort(x, n) ==
    IF n >= Width THEN [value |-> 0, carry |-> FALSE]
    ELSE [value |-> x \div PowerOfTwo[n], carry |-> Bit(x, n - 1)]

ShiftRight(x, n) ==
    IF n > Width THEN [value |-> 0, carry |-> FALSE]
    ELSE [value |-> x \div PowerOfTwo[n], carry |-> Bit(x, n - 1)]

\* Integer division rounds down, as a shift of a signed number does.
ShiftSigned(x, n) ==
    IF n >= Width THEN [value |-> IF Neg(x) THEN Modulus - 1 ELSE 0, carry |-> Neg(x)]
    ELSE [value |-> ((IF Neg(x) THEN x - Modulus ELSE x) \div PowerOfTwo[n]) % Modulus, carry |-> Bit(x, n - 1)]

\* The amount counts modulo the width, and the carry is the top bit even then.
Rotate(x, n) ==
    LET m == n % Width
        value == (x \div PowerOfTwo[m]) + ((x * PowerOfTwo[Width - m]) % Modulus)
        word == IF m = 0 THEN x ELSE value
    IN  [value |-> word, carry |-> Neg(word)]

Shift(x, type, n, carry) ==
    CASE n = 0 -> [value |-> x, carry |-> carry]
      [] n > 0 /\ type = "LSL" -> ShiftLeft(x, n)
      [] n > 0 /\ type = "LSR" -> ShiftRight(x, n)
      [] n > 0 /\ type = "ASR" -> ShiftSigned(x, n)
      [] OTHER -> Rotate(x, n)

-----------------------------------------------------------------------------
\* Every odd condition is the opposite of the even one below it, but 15.
Holds(f, cond) ==
    LET even ==
            CASE cond \div 2 = 0 -> f.z
              [] cond \div 2 = 1 -> f.c
              [] cond \div 2 = 2 -> f.n
              [] cond \div 2 = 3 -> f.v
              [] cond \div 2 = 4 -> f.c /\ ~f.z
              [] cond \div 2 = 5 -> f.n = f.v
              [] cond \div 2 = 6 -> f.n = f.v /\ ~f.z
              [] OTHER -> TRUE
    IN  IF cond % 2 = 1 /\ cond # 15 THEN ~even ELSE even

-----------------------------------------------------------------------------
(* The reference *)

Half == Modulus \div 2

\* A word as a number with a sign
Signed(x) == IF x >= Half THEN x - Modulus ELSE x

\* A number of two words, the lower one first
Wide(low, high) == low + Modulus * high
SignedWide(low, high) == low + Modulus * Signed(high)

Digit(flag) == IF flag THEN 1 ELSE 0

\* What each condition means after a comparison of x with y
Relation(cond, x, y) ==
    LET difference == Signed(x) - Signed(y)
    IN  CASE cond = 0 -> x = y
          [] cond = 1 -> x # y
          [] cond = 2 -> x >= y
          [] cond = 3 -> x < y
          [] cond = 4 -> (x - y) % Modulus >= Half
          [] cond = 5 -> (x - y) % Modulus < Half
          [] cond = 6 -> difference \notin (-Half)..(Half - 1)
          [] cond = 7 -> difference \in (-Half)..(Half - 1)
          [] cond = 8 -> x > y
          [] cond = 9 -> x <= y
          [] cond = 10 -> difference >= 0
          [] cond = 11 -> difference < 0
          [] cond = 12 -> difference > 0
          [] cond = 13 -> difference <= 0

\* A word and a carry after a shift of both by one bit; the carry is the bit
\* that fell out.
OneBit(kind, s) ==
    LET odd == s[1] % 2
        half == s[1] \div 2
    IN  CASE kind = "LSL" -> <<(2 * s[1]) % Modulus, s[1] \div Half>>
          [] kind = "LSR" -> <<half, odd>>
          [] kind = "ASR" -> <<half + (IF s[1] >= Half THEN Half ELSE 0), odd>>
          [] kind = "ROR" -> <<half + Half * odd, odd>>

\* A result of the shifter in this form
Pair(r) == <<r.value, Digit(r.carry)>>
=============================================================================
