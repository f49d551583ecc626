------------------------------- MODULE Powers -------------------------------
(***************************************************************************)
(* Shifts of words of any width, as multiplications and divisions          *)
(***************************************************************************)
EXTENDS Integers

\* A shift by n bits multiplies or divides by this.
PowerOfTwo[n \in Nat] == IF n = 0 THEN 1 ELSE 2 * PowerOfTwo[n - 1]
=============================================================================
