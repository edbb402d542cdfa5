--------------------------- MODULE GemDroidMemFreq ---------------------------
(***************************************************************************)
(* The frequency of the memory (gemdroid_mem.cc): a double, in GHz, that   *)
(* the governors move by 0.1.  0.1 is not a double, so the sums are        *)
(* rounded, and how they are rounded decides what "freq < MAX_MEM_FREQ"    *)
(* says.  A frequency near k/10 is [k, e], for the double                  *)
(*      k/10 + e * 2^-56 / 5                                               *)
(* which is exact: all the doubles between 0.3 and 1.1 that the code meets *)
(* have this form with a small e.                                          *)
(***************************************************************************)
EXTENDS Integers

(* Five times the distance between neighbouring doubles around k/10 + e,   *)
(* in units of 2^-56: it doubles at 0.5 and at 1.                          *)
Spacing(k, e) ==
  CASE k > 10 \/ (k = 10 /\ e >= 0) -> 80
    [] k \in 6..9 \/ (k = 5 /\ e >= 0) \/ (k = 10 /\ e < 0) -> 40
    [] OTHER -> 20

(* The double nearest to a number, the one with an even mantissa if two    *)
(* are equally near.  In units of 2^-56 / 5 the number is k * 2^55 + e, a  *)
(* double is a multiple of the spacing, and 2^55 is 128 modulo 160.        *)
Double(k, e) ==
  LET q == Spacing(k, e)
      r == (e + 128 * k) % q
      even == ((e - r + 128 * k) \div q) % 2 = 0
  IN [k |-> k, e |-> IF 2 * r < q \/ (2 * r = q /\ even) THEN e - r ELSE e - r + q]

(* Doubles of this form, from 0.2 to 1.1 GHz. *)
Freqs == [k : 2..11, e : -100..100]

Literal(k) == Double(k, 0)
Plus01 == [f \in Freqs |-> Double(f.k + 1, f.e + 2)]
Minus01 == [f \in Freqs |-> Double(f.k - 1, f.e - 2)]
Less(f, g) == f.k < g.k \/ (f.k = g.k /\ f.e < g.e)

MAX_MEM_FREQ == Literal(10)
MIN_MEM_FREQ == Literal(3)

(* Equal but for EPSILON, which is far above any e. *)
About(f, g) == f.k = g.k

(* The assertion of setMemFreq. *)
Settable(f) == f.k \in 3..10

decMemFreq(f) == IF Less(Minus01[f], MIN_MEM_FREQ) THEN MIN_MEM_FREQ ELSE Minus01[f]

(* f - 0.1 - ... - 0.1, n times. *)
StepsDown(f, n) ==
  LET down[i \in 0..n] == IF i = 0 THEN f ELSE Minus01[down[i - 1]]
  IN down[n]
=============================================================================
