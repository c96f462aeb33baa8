---------------------------------- MODULE Lcg ----------------------------------
(***************************************************************************)
(* The order in which a network is scanned: generator/lcg.go, a linear       *)
(* congruential generator that returns each of 0 .. stop-1 once.             *)
(*                                                                           *)
(* It computes in Go's int, a two's complement word.  For the network        *)
(* 0.0.0.0/0 the products do not fit it: the remainders turn negative, and   *)
(* the conversion of the value to uint32 must put that right.                *)
(***************************************************************************)
EXTENDS Integers

CONSTANTS
    IntBits,   \* width of int (64)
    AddrBits   \* width of an address (32)

ASSUME WidthAssumption == IntBits \in Nat \ {0} /\ AddrBits \in 0 .. IntBits

\* Only the products for the largest network overflow (2^62 + 2^33 is below 2^63).
ASSUME ProductAssumption ==
    \A b \in 0 .. AddrBits - 1 : 2 ^ b * 2 ^ b + 4 * 2 ^ b <= 2 ^ (IntBits - 1)

\* The value of an int after overflow.
ToInt(x) == LET m == x % 2 ^ IntBits
            IN  IF m < 2 ^ (IntBits - 1) THEN m ELSE m - 2 ^ IntBits

\* Go's remainder has the sign of its left operand.
Rem(x, m) == IF x >= 0 THEN x % m ELSE -((-x) % m)

\* The conversion to uint32.
ToAddress(x) == x % 2 ^ AddrBits

\* The smallest power of two that is at least n.
PowerOfTwo(n) ==
    CHOOSE p \in {2 ^ k : k \in 0 .. AddrBits} : p >= n /\ p \div 2 < n

\* Plausible mistakes are the operators Bug_...: no action uses one.
\* An even offset.
Bug_Offset(rnd, stop) == (rnd + stop) * 2
Offset(rnd, stop) == (rnd + stop) * 2 + 1

\* What Init(stop) may leave: both random numbers are below stop.
LcgStates(stop) ==
    {[value |-> start, offset |-> Offset(rnd, stop),
      multiplier |-> 4 * (stop \div 4) + 1, modulus |-> PowerOfTwo(stop),
      max |-> stop, found |-> 0] : start, rnd \in 0 .. stop - 1}

\* (value*multiplier + offset) % modulus
Following(lcg, v) ==
    Rem(ToInt(ToInt(v * lcg.multiplier) + lcg.offset), lcg.modulus)

\* The loop at the head of Next: the first value from the current one on that is
\* below max.  (For the size of a network, a power of two, it is the current one.)
FirstBelowMax(lcg) ==
    LET pass[v \in Int] == IF v < lcg.max THEN v ELSE pass[Following(lcg, v)]
    IN  pass[lcg.value]

\* The rest of Next, and Has_next.
LcgNext(lcg) == [lcg EXCEPT !.found = @ + 1,
                            !.value = Following(lcg, FirstBelowMax(lcg))]
Has_next(lcg) == lcg.found < lcg.max
===============================================================================
