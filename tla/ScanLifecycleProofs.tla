-------------------------- MODULE ScanLifecycleProofs --------------------------
(***************************************************************************)
(* The scan's life for every width of the words, size of the network,       *)
(* number of goroutines, queue and rate: no address is generated twice,     *)
(* lost or probed twice, and all are probed when the generator ends the     *)
(* scan.                                                                    *)
(*                                                                          *)
(* The first half is arithmetic: the generator's values, overflowing or     *)
(* not, are start, start + offset, start + 2 * offset and so on modulo a    *)
(* power of two, and an odd offset returns to none of them early.           *)
(***************************************************************************)
EXTENDS ScanLifecycle, FiniteSetTheorems, TLAPS

-----------------------------------------------------------------------------
(***************************************************************************)
(* Induction over a set of naturals, and powers of two.                     *)
(***************************************************************************)
\* A non-empty set of naturals has a least element.
LEMMA Least ==
    ASSUME NEW T, T \subseteq Nat, T # {}
    PROVE  \E x \in T : \A y \in T : ~(y < x)
<1>1. IsWellFoundedOn(OpToRel(<, Nat), Nat)
  BY NatLessThanWellFounded, Zenon
<1>2. PICK x \in T : \A y \in T : ~(<<y, x>> \in OpToRel(<, Nat))
  BY <1>1, WFMin, Zenon
<1>3. ASSUME NEW y \in T, y < x PROVE FALSE
  <2>1. <<y, x>> \in Nat \X Nat /\ <<y, x>>[1] < <<y, x>>[2]
    BY <1>3
  <2>2. <<y, x>> \in OpToRel(<, Nat)
    BY <2>1, Zenon DEF OpToRel
  <2> QED
    BY <1>2, <2>2, Zenon
<1> QED
  BY <1>3

\* What holds of 0 and of the successor of each of its members is all of Nat.
LEMMA Inductive ==
    ASSUME NEW T, T \subseteq Nat, 0 \in T, \A n \in T : n + 1 \in T
    PROVE  T = Nat
<1> SUFFICES ASSUME Nat \ T # {} PROVE FALSE
  OBVIOUS
<1>1. PICK x \in Nat \ T : \A y \in Nat \ T : ~(y < x)
  BY Least
<1>2. x - 1 \in Nat /\ x - 1 < x /\ (x - 1) + 1 = x
  BY <1>1
<1>3. x - 1 \in T
  BY <1>1, <1>2
<1> QED
  BY <1>1, <1>2, <1>3

\* A power of two counts the subsets of an interval.
LEMMA PowerNat == \A n \in Nat : 2 ^ n \in Nat /\ 2 ^ n >= 1
<1> SUFFICES ASSUME NEW n \in Nat PROVE 2 ^ n \in Nat /\ 2 ^ n >= 1
  OBVIOUS
<1>1. IsFiniteSet(1 .. n) /\ Cardinality(1 .. n) = n
  BY FS_Interval
<1>2. IsFiniteSet(SUBSET (1 .. n)) /\ Cardinality(SUBSET (1 .. n)) = 2 ^ n
  BY <1>1, FS_SUBSET
<1>3. Cardinality(SUBSET (1 .. n)) \in Nat /\ Cardinality(SUBSET (1 .. n)) # 0
  <2>1. {} \in SUBSET (1 .. n)
    OBVIOUS
  <2> QED
    BY <1>2, <2>1, FS_CardinalityType, FS_EmptySet
<1> QED
  BY <1>2, <1>3

\* A set with one more element has twice the subsets.
LEMMA PowerNext == \A n \in Nat : 2 ^ (n + 1) = 2 * 2 ^ n
<1> SUFFICES ASSUME NEW n \in Nat PROVE 2 ^ (n + 1) = 2 * 2 ^ n
  OBVIOUS
<1> DEFINE S == 1 .. n
           Without == SUBSET S
           With == {A \cup {n + 1} : A \in Without}
           f == [A \in Without |-> A \cup {n + 1}]
<1>1. /\ IsFiniteSet(S) /\ Cardinality(S) = n
      /\ IsFiniteSet(1 .. n + 1) /\ Cardinality(1 .. n + 1) = n + 1
  BY FS_Interval
<1>2. /\ IsFiniteSet(Without) /\ Cardinality(Without) = 2 ^ n
      /\ Cardinality(SUBSET (1 .. n + 1)) = 2 ^ (n + 1)
  BY <1>1, FS_SUBSET
<1>3. IsFiniteSet(With) /\ Cardinality(With) = 2 ^ n
  <2>0. n + 1 \notin S
    OBVIOUS
  <2>1. \A A, B \in Without : f[A] = f[B] => A = B
    <3> SUFFICES ASSUME NEW A \in Without, NEW B \in Without, A \cup {n + 1} = B \cup {n + 1}
                 PROVE  A = B
      BY Zenon
    <3> HIDE DEF S
    <3> QED
      BY <2>0
  <2>2. f \in Bijection(Without, With)
    <3>1. f \in [Without -> With]
      BY Zenon
    <3>2. \A t \in With : \E A \in Without : f[A] = t
      BY Zenon
    <3> QED
      BY <2>1, <3>1, <3>2, Zenon DEF Bijection, Injection, Surjection, IsInjective
  <2> HIDE DEF f, With, Without
  <2> QED
    BY <1>2, <2>2, FS_Bijection DEF ExistsBijection
<1>4. SUBSET (1 .. n + 1) = Without \cup With
  <2>1. ASSUME NEW A \in SUBSET (1 .. n + 1), n + 1 \in A PROVE A \in With
    <3>1. A \ {n + 1} \in Without /\ A = (A \ {n + 1}) \cup {n + 1}
      BY <2>1
    <3> QED
      BY <3>1, Zenon
  <2>2. ASSUME NEW A \in SUBSET (1 .. n + 1), n + 1 \notin A PROVE A \in Without
    BY <2>2
  <2>3. ASSUME NEW A \in Without PROVE A \in SUBSET (1 .. n + 1) /\ A \cup {n + 1} \in SUBSET (1 .. n + 1)
    BY <2>3
  <2>4. ASSUME NEW t \in With PROVE t \in SUBSET (1 .. n + 1)
    <3>1. PICK A \in Without : t = A \cup {n + 1}
      OBVIOUS
    <3> QED
      BY <2>3, <3>1, Zenon
  <2> HIDE DEF Without, With
  <2> QED
    BY <2>1, <2>2, <2>3, <2>4
<1>5. Without \cap With = {}
  BY n + 1 \notin S
<1>6. Cardinality(Without \cup With) = 2 ^ n + 2 ^ n - Cardinality({})
  <2> HIDE DEF Without, With
  <2> QED
    BY <1>2, <1>3, <1>5, FS_Union
<1> HIDE DEF Without, With
<1>7. 2 ^ (n + 1) = 2 ^ n + 2 ^ n - 0
  BY <1>2, <1>4, <1>6, FS_EmptySet
<1> QED
  BY <1>7, PowerNat

\* Products of integers, as far as they are needed.
LEMMA TimesFacts ==
    ASSUME NEW a \in Int, NEW b \in Int, NEW c \in Int
    PROVE  /\ a * b \in Int /\ a * b = b * a
           /\ (a * b) * c = a * (b * c)
           /\ (a + b) * c = a * c + b * c /\ (a - b) * c = a * c - b * c
OBVIOUS

\* The distributions that the waiting time needs.
LEMMA Distribute ==
    ASSUME NEW a \in Int, NEW b \in Int, NEW c \in Int
    PROVE  /\ (a + b - 1) * c = a * c + (b - 2) * c + c
           /\ (a - 1) * c = (a - 2) * c + c
OBVIOUS

LEMMA TimesCancel ==
    ASSUME NEW a \in Int, NEW b \in Int, NEW p \in Nat \ {0}, a * p = b * p
    PROVE  a = b
<1>1. (a - b) * p = 0
  BY TimesFacts
<1>2. \A x \in Int : x # 0 => x * p # 0
  OBVIOUS
<1> QED
  BY <1>1, <1>2

LEMMA TimesOrder ==
    ASSUME NEW a \in Int, NEW b \in Int, NEW c \in Nat, a <= b
    PROVE  a * c <= b * c
<1>1. (b - a) * c >= 0
  BY b - a >= 0
<1> QED
  BY <1>1, TimesFacts

LEMMA PowerSum == \A m, n \in Nat : 2 ^ (m + n) = 2 ^ m * 2 ^ n
<1> SUFFICES ASSUME NEW m \in Nat PROVE \A n \in Nat : 2 ^ (m + n) = 2 ^ m * 2 ^ n
  OBVIOUS
<1> DEFINE T == {n \in Nat : 2 ^ (m + n) = 2 ^ m * 2 ^ n}
<1>1. 2 ^ m \in Nat
  BY PowerNat
<1>2. 0 \in T
  BY <1>1, 2 ^ 0 = 1
<1>3. ASSUME NEW n \in T PROVE n + 1 \in T
  <2>1. n \in Nat /\ 2 ^ (m + n) = 2 ^ m * 2 ^ n
    OBVIOUS
  <2>2. 2 ^ (m + n + 1) = 2 * 2 ^ (m + n) /\ 2 ^ (n + 1) = 2 * 2 ^ n /\ 2 ^ n \in Nat
    BY <2>1, PowerNat, PowerNext
  <2>3. 2 ^ (m + (n + 1)) = 2 ^ (m + n + 1)
    BY <2>1
  <2>4. 2 * (2 ^ m * 2 ^ n) = 2 ^ m * (2 * 2 ^ n)
    BY <1>1, <2>2
  <2> QED
    BY <2>1, <2>2, <2>3, <2>4
<1>4. T = Nat
  <2> HIDE DEF T
  <2>1. T \subseteq Nat
    BY DEF T
  <2> QED
    BY <1>2, <1>3, <2>1, Inductive
<1> QED
  BY <1>4

\* Powers of two divide each other, and grow.
LEMMA PowerDivides ==
    ASSUME NEW m \in Nat, NEW n \in Nat, m <= n
    PROVE  /\ \E q \in Nat \ {0} : 2 ^ n = q * 2 ^ m
           /\ m < n => \E q \in Nat \ {0} : 2 ^ n = 2 * (q * 2 ^ m)
           /\ 2 ^ m <= 2 ^ n
           /\ m < n => 2 * 2 ^ m <= 2 ^ n
<1>1. n - m \in Nat /\ 2 ^ (n - m) \in Nat \ {0} /\ 2 ^ m \in Nat \ {0}
  BY PowerNat
<1>2. 2 ^ n = 2 ^ (n - m) * 2 ^ m
  <2>1. (n - m) + m = n
    OBVIOUS
  <2> QED
    BY <1>1, <2>1, PowerSum
<1>3. 1 * 2 ^ m <= 2 ^ (n - m) * 2 ^ m
  BY <1>1, TimesOrder
<1>4. ASSUME m < n PROVE \E q \in Nat \ {0} : 2 ^ n = 2 * (q * 2 ^ m)
  <2>1. n - m - 1 \in Nat /\ (n - m - 1) + 1 = n - m
    BY <1>4
  <2>2. 2 ^ (n - m) = 2 * 2 ^ (n - m - 1) /\ 2 ^ (n - m - 1) \in Nat \ {0}
    BY <2>1, PowerNat, PowerNext
  <2>3. (2 * 2 ^ (n - m - 1)) * 2 ^ m = 2 * (2 ^ (n - m - 1) * 2 ^ m)
    BY <1>1, <2>2, TimesFacts
  <2> QED
    BY <1>2, <2>2, <2>3
<1>5. ASSUME m < n PROVE 2 * 2 ^ m <= 2 ^ n
  <2>1. PICK q \in Nat \ {0} : 2 ^ n = 2 * (q * 2 ^ m)
    BY <1>4, <1>5
  <2>2. 1 * 2 ^ m <= q * 2 ^ m
    BY <1>1, TimesOrder
  <2> QED
    BY <1>1, <2>1, <2>2
<1> QED
  BY <1>1, <1>2, <1>3, <1>4, <1>5

\* A word twice as wide as an address is as wide as ProductAssumption asks, as Go's int of
\* 64 bits and its uint32 are.
LEMMA DoubleWidth ==
    ASSUME NEW a \in Nat, a >= 3, NEW b \in 0 .. a - 1
    PROVE  2 ^ b * 2 ^ b + 4 * 2 ^ b <= 2 ^ (a + a - 1)
<1>0. /\ b \in Nat /\ b + b \in Nat /\ a + a - 2 \in Nat /\ a + a - 1 \in Nat
      /\ b + 1 \in Nat /\ b + 1 + 1 \in Nat
      /\ b + b <= a + a - 2 /\ b + 1 + 1 <= a + a - 2 /\ (a + a - 2) + 1 = a + a - 1
  OBVIOUS
<1>1. 2 ^ b * 2 ^ b = 2 ^ (b + b)
  BY <1>0, PowerSum
<1>2. 2 ^ (b + b) <= 2 ^ (a + a - 2) /\ 2 ^ (b + 1 + 1) <= 2 ^ (a + a - 2)
  BY <1>0, PowerDivides
<1>3. 2 ^ (b + 1) = 2 * 2 ^ b /\ 2 ^ (b + 1 + 1) = 2 * 2 ^ (b + 1)
  BY <1>0, PowerNext
<1>4. 2 ^ (a + a - 1) = 2 * 2 ^ (a + a - 2)
  <2>1. 2 ^ ((a + a - 2) + 1) = 2 * 2 ^ (a + a - 2)
    BY <1>0, PowerNext, Zenon
  <2> QED
    BY <1>0, <2>1
<1>5. 2 ^ b \in Nat /\ 2 ^ (b + b) \in Nat /\ 2 ^ (a + a - 2) \in Nat
  BY <1>0, PowerNat
<1> QED
  BY <1>1, <1>2, <1>3, <1>4, <1>5

-----------------------------------------------------------------------------
(***************************************************************************)
(* Congruence.                                                              *)
(***************************************************************************)
Same(a, b, m) == \E q \in Int : a - b = q * m

\* Being the same modulo m is an equivalence, kept by addition.
LEMMA SameLaws ==
    ASSUME NEW m \in Nat \ {0}, NEW a \in Int, NEW b \in Int
    PROVE  /\ a = b => Same(a, b, m)
           /\ Same(a, b, m) => Same(b, a, m)
           /\ \A c \in Int : Same(a, b, m) /\ Same(b, c, m) => Same(a, c, m)
           /\ \A c, d \in Int : Same(a, b, m) /\ Same(c, d, m) => Same(a + c, b + d, m)
<1>1. a = b => Same(a, b, m)
  <2>1. a - a = 0 * m
    OBVIOUS
  <2> QED
    BY <2>1 DEF Same
<1>2. ASSUME Same(a, b, m) PROVE Same(b, a, m)
  <2>1. PICK q \in Int : a - b = q * m
    BY <1>2 DEF Same
  <2>2. -q \in Int /\ b - a = (-q) * m
    BY <2>1
  <2> QED
    BY <2>2 DEF Same
<1>3. ASSUME NEW c \in Int, Same(a, b, m), Same(b, c, m) PROVE Same(a, c, m)
  <2>1. PICK q \in Int : a - b = q * m
    BY <1>3 DEF Same
  <2>2. PICK r \in Int : b - c = r * m
    BY <1>3 DEF Same
  <2>3. q + r \in Int /\ a - c = (q + r) * m
    BY <2>1, <2>2, TimesFacts
  <2> QED
    BY <2>3 DEF Same
<1>4. ASSUME NEW c \in Int, NEW d \in Int, Same(a, b, m), Same(c, d, m)
      PROVE  Same(a + c, b + d, m)
  <2>1. PICK q \in Int : a - b = q * m
    BY <1>4 DEF Same
  <2>2. PICK r \in Int : c - d = r * m
    BY <1>4 DEF Same
  <2>3. q + r \in Int /\ (a + c) - (b + d) = (q + r) * m
    BY <2>1, <2>2, TimesFacts
  <2> QED
    BY <2>3 DEF Same
<1> QED
  BY <1>1, <1>2, <1>3, <1>4

\* Two numbers are the same if both are the same as a third.
LEMMA SameThird ==
    ASSUME NEW m \in Nat \ {0}, NEW a \in Int, NEW b \in Int, NEW c \in Int,
           Same(a, b, m), Same(b, c, m)
    PROVE  Same(a, c, m)
BY SameLaws

\* Both numbers may be shifted.
LEMMA SameShift ==
    ASSUME NEW m \in Nat \ {0}, NEW a \in Int, NEW b \in Int, NEW c \in Int, Same(a, b, m)
    PROVE  Same(a + c, b + c, m)
<1>1. PICK q \in Int : a - b = q * m
  BY DEF Same
<1>2. (a + c) - (b + c) = q * m
  BY <1>1
<1> QED
  BY <1>2 DEF Same

\* A number is the same as its remainder.
LEMMA SameRemainder ==
    ASSUME NEW m \in Nat \ {0}, NEW a \in Int
    PROVE  a % m \in 0 .. m - 1 /\ Same(a, a % m, m) /\ Same(a % m, a, m)
<1>1. a = m * (a \div m) + (a % m) /\ a \div m \in Int /\ a % m \in 0 .. m - 1
  OBVIOUS
<1>2. a - (a % m) = (a \div m) * m
  BY <1>1, TimesFacts
<1>3. Same(a, a % m, m)
  BY <1>1, <1>2 DEF Same
<1> QED
  BY <1>1, <1>3, SameLaws

\* Numbers less than m apart are the same modulo m only if they are equal.
LEMMA SameIsEqual ==
    ASSUME NEW m \in Nat \ {0}, NEW a \in Int, NEW b \in Int, Same(a, b, m),
           a - b < m, b - a < m
    PROVE  a = b
<1>1. PICK q \in Int : a - b = q * m
  BY DEF Same
<1>2. CASE q >= 1
  <2>1. 1 * m <= q * m
    BY <1>2, TimesOrder
  <2> QED
    BY <1>1, <2>1
<1>3. CASE q <= -1
  <2>1. q * m <= (-1) * m
    BY <1>3, TimesOrder
  <2> QED
    BY <1>1, <2>1
<1>4. CASE q = 0
  BY <1>1, <1>4
<1> QED
  BY <1>2, <1>3, <1>4

\* Numbers that are the same modulo a multiple of m are so modulo m.
LEMMA SameFiner ==
    ASSUME NEW m \in Nat \ {0}, NEW p \in Int, NEW a \in Int, NEW b \in Int, Same(a, b, p * m)
    PROVE  Same(a, b, m)
<1>1. PICK q \in Int : a - b = q * (p * m)
  BY DEF Same
<1>2. q * p \in Int /\ a - b = (q * p) * m
  BY <1>1, TimesFacts
<1> QED
  BY <1>2 DEF Same

\* An odd factor can be cancelled modulo a power of two.
LEMMA OddCancel ==
    ASSUME NEW d \in Int
    PROVE  \A k \in Nat : \A i \in Int : Same(i * (2 * d + 1), 0, 2 ^ k) => Same(i, 0, 2 ^ k)
<1> DEFINE c == 2 * d + 1
           T == {k \in Nat : \A i \in Int : Same(i * c, 0, 2 ^ k) => Same(i, 0, 2 ^ k)}
<1>1. 0 \in T
  <2>1. ASSUME NEW i \in Int PROVE Same(i, 0, 2 ^ 0)
    <3>1. i - 0 = i * 2 ^ 0
      BY 2 ^ 0 = 1
    <3> QED
      BY <3>1 DEF Same
  <2> QED
    BY <2>1
<1>2. ASSUME NEW k \in T PROVE k + 1 \in T
  <2> SUFFICES ASSUME NEW i \in Int, Same(i * c, 0, 2 ^ (k + 1))
               PROVE  Same(i, 0, 2 ^ (k + 1))
    OBVIOUS
  <2>0. /\ k \in Nat /\ 2 ^ k \in Nat \ {0} /\ 2 ^ (k + 1) = 2 * 2 ^ k
        /\ c \in Int /\ i * c \in Int
    BY PowerNat, PowerNext, TimesFacts
  <2>1. PICK q \in Int : i * c - 0 = q * (2 * 2 ^ k)
    BY <2>0 DEF Same
  <2>2. Same(i * c, 0, 2 ^ k)
    <3> HIDE DEF c
    <3>1. i * c - 0 = (2 * q) * 2 ^ k /\ 2 * q \in Int
      BY <2>0, <2>1, TimesFacts
    <3> QED
      BY <3>1 DEF Same
  <2>3. Same(i, 0, 2 ^ k)
    BY <2>0, <2>2
  <2>4. PICK r \in Int : i - 0 = r * 2 ^ k
    BY <2>3 DEF Same
  <2>5. (r * c) * 2 ^ k = (2 * q) * 2 ^ k
    <3> HIDE DEF c
    <3>1. i = r * 2 ^ k /\ i * c = q * (2 * 2 ^ k)
      BY <2>0, <2>1, <2>4
    <3>2. (r * c) * 2 ^ k = (r * 2 ^ k) * c
      BY <2>0, TimesFacts
    <3>3. (2 * q) * 2 ^ k = q * (2 * 2 ^ k)
      BY <2>0, TimesFacts
    <3> QED
      BY <3>1, <3>2, <3>3
  <2>6. r * c = 2 * q
    <3> HIDE DEF c
    <3>1. r * c \in Int /\ 2 * q \in Int
      BY <2>0, TimesFacts
    <3> QED
      BY <2>0, <2>5, <3>1, TimesCancel
  <2>7. r = 2 * (q - r * d)
    <3>1. r * (2 * d + 1) = 2 * (r * d) + r /\ r * d \in Int
      BY TimesFacts
    <3> QED
      BY <2>6, <3>1
  <2>8. q - r * d \in Int /\ i = (q - r * d) * (2 * 2 ^ k)
    <3>1. r * d \in Int
      BY TimesFacts
    <3>2. \A x \in Int : (2 * x) * 2 ^ k = x * (2 * 2 ^ k)
      BY <2>0, TimesFacts
    <3> QED
      BY <2>4, <2>7, <3>1, <3>2
  <2> QED
    BY <2>0, <2>8 DEF Same
<1>3. T = Nat
  <2> HIDE DEF T
  <2>1. T \subseteq Nat
    BY DEF T
  <2> QED
    BY <1>1, <1>2, <2>1, Inductive
<1> QED
  BY <1>3

-----------------------------------------------------------------------------
(***************************************************************************)
(* The generator of a network of 2^b addresses.                             *)
(***************************************************************************)
\* A state of it, but for its value and what it has found.
Valid(lcg, b) ==
    /\ lcg.max = 2 ^ b /\ lcg.modulus = 2 ^ b
    /\ lcg.multiplier = 4 * (2 ^ b \div 4) + 1
    /\ lcg.offset \in Nat /\ lcg.offset < 4 * 2 ^ b
    /\ \E d \in Int : lcg.offset = 2 * d + 1

\* Values are remainders; only the largest network's are negative.
InRange(v, b) == v \in Int /\ -(2 ^ b) < v /\ v < 2 ^ b /\ (b < AddrBits => v >= 0)

\* The modulus of a network is its size.
LEMMA PowerOfTwoIs == \A b \in 0 .. AddrBits : PowerOfTwo(2 ^ b) = 2 ^ b
<1> SUFFICES ASSUME NEW b \in 0 .. AddrBits PROVE PowerOfTwo(2 ^ b) = 2 ^ b
  OBVIOUS
<1>0. b \in Nat /\ 2 ^ b \in Nat \ {0} /\ AddrBits \in Nat
  BY PowerNat, WidthAssumption
<1>1. ASSUME NEW k \in 0 .. AddrBits, 2 ^ k >= 2 ^ b, 2 ^ k \div 2 < 2 ^ b
      PROVE  2 ^ k = 2 ^ b
  <2>0. k \in Nat /\ 2 ^ k \in Nat
    BY <1>0, PowerNat
  <2>1. ~(k < b)
    <3> SUFFICES ASSUME k < b PROVE FALSE
      OBVIOUS
    <3>1. 2 * 2 ^ k <= 2 ^ b
      BY <1>0, <2>0, PowerDivides
    <3> QED
      BY <1>0, <1>1, <2>0, <3>1
  <2>2. ~(b < k)
    <3> SUFFICES ASSUME b < k PROVE FALSE
      OBVIOUS
    <3>1. PICK q \in Nat \ {0} : 2 ^ k = 2 * (q * 2 ^ b)
      BY <1>0, <2>0, PowerDivides
    <3>2. 1 * 2 ^ b <= q * 2 ^ b /\ q * 2 ^ b \in Int
      BY <1>0, TimesOrder, TimesFacts
    <3> QED
      BY <1>0, <1>1, <3>1, <3>2
  <2>3. k = b
    BY <1>0, <2>0, <2>1, <2>2
  <2> QED
    BY <2>3
<1>2. 2 ^ b \div 2 < 2 ^ b
  BY <1>0
<1> DEFINE P == {2 ^ k : k \in 0 .. AddrBits}
<1>3. 2 ^ b \in P /\ \A p \in P : p >= 2 ^ b /\ p \div 2 < 2 ^ b => p = 2 ^ b
  BY <1>1
<1>4. (CHOOSE p \in P : p >= 2 ^ b /\ p \div 2 < 2 ^ b) = 2 ^ b
  <2> HIDE DEF P
  <2>1. 2 ^ b \in P /\ 2 ^ b >= 2 ^ b /\ 2 ^ b \div 2 < 2 ^ b
    BY <1>0, <1>2, <1>3
  <2> QED
    BY <1>3, <2>1, Zenon
<1> QED
  BY <1>4, Zenon DEF PowerOfTwo

\* The multiplier is 1 modulo the size.
LEMMA MultiplierIs ==
    \A b \in Nat : 4 * (2 ^ b \div 4) + 1 = 1 \/ 4 * (2 ^ b \div 4) + 1 = 2 ^ b + 1
<1> SUFFICES ASSUME NEW b \in Nat
             PROVE  4 * (2 ^ b \div 4) + 1 = 1 \/ 4 * (2 ^ b \div 4) + 1 = 2 ^ b + 1
  OBVIOUS
<1>1. CASE b = 0
  BY <1>1, 2 ^ 0 = 1
<1>2. CASE b = 1
  BY <1>2, 2 ^ 1 = 2
<1>3. CASE b >= 2
  <2>1. b - 2 \in Nat /\ (b - 2) + 1 = b - 1 /\ b - 1 \in Nat /\ (b - 1) + 1 = b
    BY <1>3
  <2>2. 2 ^ b = 2 * (2 * 2 ^ (b - 2)) /\ 2 ^ (b - 2) \in Nat
    BY <2>1, PowerNat, PowerNext
  <2>3. PICK x \in Nat : 2 ^ b = 4 * x
    BY <2>2
  <2> QED
    BY <2>3
<1> QED
  BY <1>1, <1>2, <1>3

\* Go's int keeps a number modulo the word, and exactly when it fits.
LEMMA ToIntIs ==
    ASSUME NEW x \in Int
    PROVE  /\ ToInt(x) \in Int /\ Same(ToInt(x), x, 2 ^ IntBits)
           /\ x >= 0 /\ x < 2 ^ (IntBits - 1) => ToInt(x) = x
<1>0. /\ 2 ^ IntBits \in Nat \ {0} /\ 2 ^ (IntBits - 1) \in Nat
      /\ 2 ^ (IntBits - 1) <= 2 ^ IntBits
  <2>1. IntBits - 1 \in Nat /\ IntBits \in Nat
    BY WidthAssumption
  <2> QED
    BY <2>1, PowerNat, PowerDivides
<1> DEFINE W == 2 ^ IntBits
<1>1. x % W \in 0 .. W - 1 /\ Same(x % W, x, W)
  BY <1>0, SameRemainder
<1>2. Same((x % W) - W, x, W)
  <2> HIDE DEF W
  <2>0. W \in Nat \ {0}
    BY <1>0 DEF W
  <2>1. PICK q \in Int : (x % W) - x = q * W
    BY <1>1 DEF Same
  <2>2. q - 1 \in Int /\ (q - 1) * W = q * W - 1 * W
    BY <2>0, TimesFacts
  <2>3. (x % W) - W - x = (q - 1) * W
    BY <1>1, <2>0, <2>1, <2>2
  <2> QED
    BY <2>2, <2>3 DEF Same
<1>3. x >= 0 /\ x < 2 ^ (IntBits - 1) => x % W = x
  BY <1>0
<1> HIDE DEF W
<1>4. ToInt(x) = IF x % W < 2 ^ (IntBits - 1) THEN x % W ELSE (x % W) - W
  BY DEF ToInt, W
<1> QED
  BY <1>0, <1>1, <1>2, <1>3, <1>4 DEF W

\* Go's remainder is the same number modulo m, and negative only for a negative one.
LEMMA RemIs ==
    ASSUME NEW x \in Int, NEW m \in Nat \ {0}
    PROVE  /\ Rem(x, m) \in Int /\ -m < Rem(x, m) /\ Rem(x, m) < m
           /\ Same(Rem(x, m), x, m)
           /\ x >= 0 => Rem(x, m) >= 0
<1>1. x % m \in 0 .. m - 1 /\ Same(x % m, x, m)
  BY SameRemainder
<1>2. -x \in Int /\ (-x) % m \in 0 .. m - 1 /\ Same(-((-x) % m), x, m)
  <2>1. -x \in Int
    OBVIOUS
  <2>2. (-x) % m \in 0 .. m - 1 /\ Same(-x, (-x) % m, m)
    BY <2>1, SameRemainder
  <2>3. PICK q \in Int : (-x) - ((-x) % m) = q * m
    BY <2>2 DEF Same
  <2>4. -((-x) % m) - x = q * m
    BY <2>2, <2>3
  <2> QED
    BY <2>1, <2>2, <2>4 DEF Same
<1> QED
  BY <1>1, <1>2 DEF Rem


\* A step adds the offset, modulo the size.
LEMMA FollowingIs ==
    ASSUME NEW b \in 0 .. AddrBits, NEW lcg, Valid(lcg, b), NEW v, InRange(v, b)
    PROVE  /\ InRange(Following(lcg, v), b)
           /\ Same(Following(lcg, v), v + lcg.offset, 2 ^ b)
<1> DEFINE m == 2 ^ b
           x == v * lcg.multiplier
           y == ToInt(x)
           z == ToInt(y + lcg.offset)
<1>0. /\ b \in Nat /\ b <= IntBits /\ IntBits \in Nat
      /\ m \in Nat \ {0} /\ v \in Int /\ lcg.offset \in Nat
      /\ lcg.multiplier \in Nat
      /\ lcg.multiplier = 1 \/ lcg.multiplier = m + 1
  <2>1. b \in Nat /\ b <= IntBits /\ IntBits \in Nat
    BY WidthAssumption
  <2> QED
    BY <2>1, PowerNat, MultiplierIs DEF Valid, InRange
<1>1. x \in Int /\ Same(x, v, m) /\ (x = v \/ x = v * m + v) /\ v * m \in Int
  <2>1. v * m \in Int /\ v * 1 = v /\ v * (m + 1) = v * m + v
    BY <1>0, TimesFacts
  <2>2. x = v \/ x = v * m + v
    BY <1>0, <2>1
  <2>3. \/ x - v = 0 * m
        \/ x - v = v * m
    BY <1>0, <2>1, <2>2
  <2>4. Same(x, v, m)
    <3> HIDE DEF m, x
    <3>1. 0 \in Int
      OBVIOUS
    <3> QED
      BY <1>0, <2>3, <3>1, Zenon DEF Same
  <2>5. x \in Int
    BY <1>0, <2>1, <2>2
  <2> QED
    BY <2>1, <2>2, <2>4, <2>5
<1>2. ASSUME NEW s \in Int PROVE ToInt(s) \in Int /\ Same(ToInt(s), s, m)
  <2>1. PICK q \in Nat \ {0} : 2 ^ IntBits = q * 2 ^ b
    BY <1>0, PowerDivides
  <2>2. ToInt(s) \in Int /\ Same(ToInt(s), s, q * m)
    BY <2>1, ToIntIs
  <2> QED
    BY <1>0, <2>2, SameFiner
<1>3. y \in Int /\ Same(y, v, m)
  <2> HIDE DEF m, x
  <2>1. y \in Int /\ Same(y, x, m)
    BY <1>1, <1>2
  <2> HIDE DEF y
  <2> QED
    BY <1>0, <1>1, <2>1, SameLaws
<1>4. z \in Int /\ Same(z, v + lcg.offset, m)
  <2> HIDE DEF m, y
  <2>1. y + lcg.offset \in Int /\ v + lcg.offset \in Int
    BY <1>0, <1>3
  <2>2. z \in Int /\ Same(z, y + lcg.offset, m)
    BY <1>2, <2>1
  <2>3. lcg.offset \in Int
    BY <1>0
  <2>4. Same(y + lcg.offset, v + lcg.offset, m)
    BY <1>0, <1>3, <2>3, SameShift
  <2> HIDE DEF z
  <2> QED
    BY <1>0, <2>1, <2>2, <2>4, SameLaws
<1>5. /\ Rem(z, m) \in Int /\ -m < Rem(z, m) /\ Rem(z, m) < m
      /\ Same(Rem(z, m), z, m) /\ (z >= 0 => Rem(z, m) >= 0)
  <2> HIDE DEF m, z
  <2> QED
    BY <1>0, <1>4, RemIs
<1>6. Following(lcg, v) = Rem(z, m)
  BY DEF Following, Valid
<1>7. Same(Rem(z, m), v + lcg.offset, m)
  <2> HIDE DEF m, z
  <2>1. v + lcg.offset \in Int
    BY <1>0
  <2> QED
    BY <1>0, <1>4, <1>5, <2>1, SameLaws
<1>8. ASSUME b < AddrBits PROVE z >= 0
  <2>1. v >= 0 /\ v <= m - 1 /\ lcg.offset < 4 * m
    BY <1>0, <1>8 DEF InRange, Valid
  <2>2. m * m + 4 * m <= 2 ^ (IntBits - 1)
    <3>1. b \in 0 .. AddrBits - 1
      BY <1>0, <1>8, WidthAssumption
    <3> QED
      BY <3>1, ProductAssumption
  <2>3. /\ v * m <= (m - 1) * m /\ (m - 1) * m = m * m - 1 * m
        /\ 0 * m <= v * m /\ m * m \in Int
    <3> HIDE DEF m
    <3> QED
      BY <1>0, <2>1, TimesOrder, TimesFacts
  <2>4. /\ x >= 0 /\ x < m * m
        /\ x + lcg.offset >= 0 /\ x + lcg.offset < m * m + 4 * m
    <3> HIDE DEF m, x
    <3> QED
      BY <1>0, <1>1, <2>1, <2>3
  <2>5. 2 ^ (IntBits - 1) \in Nat
    BY <1>0, WidthAssumption, PowerNat
  <2>6. x < 2 ^ (IntBits - 1) /\ x + lcg.offset < 2 ^ (IntBits - 1)
    <3> HIDE DEF m, x
    <3> QED
      BY <1>0, <1>1, <2>2, <2>3, <2>4, <2>5
  <2>7. y = x
    <3> HIDE DEF m, x
    <3> QED
      BY <1>1, <2>4, <2>6, ToIntIs
  <2>8. z = x + lcg.offset
    <3> HIDE DEF m, x, y
    <3>1. x + lcg.offset \in Int
      BY <1>0, <1>1
    <3> QED
      BY <2>4, <2>6, <2>7, <3>1, ToIntIs
  <2> QED
    BY <2>4, <2>8
<1> HIDE DEF m, z
<1> QED
  BY <1>5, <1>6, <1>7, <1>8 DEF InRange, m

\* For a network the loop at the head of Next never turns.
LEMMA FirstBelowMaxIs ==
    ASSUME NEW b \in 0 .. AddrBits, NEW lcg, Valid(lcg, b), InRange(lcg.value, b)
    PROVE  FirstBelowMax(lcg) = lcg.value
<1>0. 2 ^ b \in Nat \ {0} /\ lcg.max = 2 ^ b /\ lcg.modulus = 2 ^ b /\ lcg.offset \in Nat
      /\ lcg.multiplier \in Int
  BY PowerNat, MultiplierIs DEF Valid
<1>1. ASSUME NEW v \in Int PROVE Following(lcg, v) \in Int /\ Following(lcg, v) < lcg.max
  <2>1. v * lcg.multiplier \in Int
    BY <1>0, TimesFacts
  <2>2. ToInt(v * lcg.multiplier) + lcg.offset \in Int
    BY <1>0, <2>1, ToIntIs
  <2>3. ToInt(ToInt(v * lcg.multiplier) + lcg.offset) \in Int
    BY <2>2, ToIntIs
  <2> QED
    BY <1>0, <2>3, RemIs DEF Following
<1> DEFINE Def(f) == [v \in Int |-> IF v < lcg.max THEN v ELSE f[Following(lcg, v)]]
           g == [v \in Int |-> IF v < lcg.max THEN v ELSE Following(lcg, v)]
           pass == CHOOSE f : f = Def(f)
<1>2. g = Def(g)
  <2>1. ASSUME NEW v \in Int, ~(v < lcg.max) PROVE g[Following(lcg, v)] = Following(lcg, v)
    BY <1>1
  <2> QED
    BY <2>1
<1>3. pass = Def(pass)
  <2> HIDE DEF g, Def
  <2> QED
    BY <1>2
<1>4. lcg.value \in Int /\ lcg.value < lcg.max
  BY <1>0 DEF InRange
<1>5. Def(pass)[lcg.value] = lcg.value
  <2> HIDE DEF pass
  <2> QED
    BY <1>4
<1>6. pass[lcg.value] = lcg.value
  <2> HIDE DEF pass, Def
  <2> QED
    BY <1>3, <1>5
<1>7. FirstBelowMax(lcg) = pass[lcg.value]
  BY Zenon DEF FirstBelowMax
<1> QED
  BY <1>6, <1>7


\* The place of the value found after i others, in a network of 2^b addresses.
Spot(start, offset, i, b) == (start + i * offset) % 2 ^ b

\* An odd offset comes back to a place only after all 2^b.
LEMMA SpotsDistinct ==
    ASSUME NEW b \in Nat, NEW start \in Int, NEW offset \in Int,
           \E d \in Int : offset = 2 * d + 1,
           NEW i \in 0 .. 2 ^ b - 1, NEW j \in 0 .. 2 ^ b - 1,
           Spot(start, offset, i, b) = Spot(start, offset, j, b)
    PROVE  i = j
<1> DEFINE m == 2 ^ b
           x == start + i * offset
           y == start + j * offset
<1>0. m \in Nat \ {0} /\ i \in 0 .. m - 1 /\ j \in 0 .. m - 1 /\ i * offset \in Int /\ j * offset \in Int
  BY PowerNat, TimesFacts
<1>1. x \in Int /\ y \in Int /\ x % m = y % m
  BY <1>0 DEF Spot
<1>2. Same(x, y, m)
  <2> HIDE DEF m, x, y
  <2>1. x % m \in 0 .. m - 1 /\ Same(x, x % m, m) /\ Same(y % m, y, m)
    BY <1>0, <1>1, SameRemainder, Zenon
  <2>2. x % m \in Int /\ Same(x % m, y, m)
    BY <1>0, <1>1, <2>1
  <2> QED
    BY <1>0, <1>1, <2>1, <2>2, SameThird, Zenon
<1>3. PICK q \in Int : x - y = q * m
  BY <1>2 DEF Same
<1>4. (i - j) * offset = q * m
  <2>1. (i - j) * offset = i * offset - j * offset
    BY <1>0, TimesFacts
  <2> QED
    BY <1>0, <1>3, <2>1
<1>5. PICK d \in Int : offset = 2 * d + 1
  OBVIOUS
<1>6. Same((i - j) * (2 * d + 1), 0, m)
  <2>1. (i - j) * (2 * d + 1) - 0 = q * m
    <3> HIDE DEF m
    <3>1. (i - j) * (2 * d + 1) = q * m /\ q * m \in Int
      BY <1>0, <1>4, <1>5, TimesFacts
    <3> QED
      BY <3>1
  <2> QED
    BY <2>1 DEF Same
<1>7. Same(i - j, 0, m)
  <2>1. i - j \in Int
    BY <1>0
  <2> QED
    BY <1>6, <2>1, OddCancel
<1>8. Same(i, j, m)
  <2>1. PICK r \in Int : (i - j) - 0 = r * m
    BY <1>7 DEF Same
  <2>2. i - j = r * m
    BY <1>0, <2>1
  <2> QED
    BY <2>2 DEF Same
<1> QED
  <2> HIDE DEF m
  <2>1. i \in Int /\ j \in Int /\ i - j < m /\ j - i < m
    BY <1>0
  <2> QED
    BY <1>0, <1>8, <2>1, SameIsEqual, Zenon

\* The address of a value is its place, whether it is negative or not.
LEMMA ToAddressIs ==
    ASSUME NEW b \in 0 .. AddrBits, NEW v, InRange(v, b), NEW x \in Int, Same(v, x, 2 ^ b)
    PROVE  /\ ToAddress(v) = x % 2 ^ b
           /\ x % 2 ^ b \in 0 .. 2 ^ b - 1 /\ 2 ^ b <= 2 ^ AddrBits
<1> DEFINE m == 2 ^ b
<1>0. /\ b \in Nat /\ AddrBits \in Nat /\ m \in Nat \ {0} /\ m <= 2 ^ AddrBits
      /\ 2 ^ AddrBits \in Nat /\ v \in Int
  <2>1. b \in Nat /\ AddrBits \in Nat /\ b <= AddrBits
    BY WidthAssumption
  <2> QED
    BY <2>1, PowerNat, PowerDivides DEF InRange
<1>1. x % m \in 0 .. m - 1 /\ Same(v, x % m, m)
  <2> HIDE DEF m
  <2>1. x % m \in 0 .. m - 1 /\ Same(x, x % m, m)
    BY <1>0, SameRemainder, Zenon
  <2>2. Same(v, x, m)
    BY DEF m
  <2>3. x % m \in Int
    BY <1>0, <2>1
  <2> QED
    BY <1>0, <2>1, <2>2, <2>3, SameThird, Zenon
<1>2. CASE b < AddrBits
  <2>1. v >= 0 /\ v < m
    BY <1>2 DEF InRange
  <2>2. v = x % m
    <3> HIDE DEF m
    <3>1. x % m \in Int /\ v - (x % m) < m /\ (x % m) - v < m
      BY <1>0, <1>1, <2>1
    <3> QED
      BY <1>0, <1>1, <3>1, SameIsEqual, Zenon
  <2>3. v % 2 ^ AddrBits = v
    BY <1>0, <2>1
  <2> QED
    BY <1>0, <1>1, <2>2, <2>3 DEF ToAddress
<1>3. CASE b = AddrBits
  <2>1. v % m = x % m
    <3> HIDE DEF m
    <3>1. v % m \in 0 .. m - 1 /\ Same(v % m, v, m)
      BY <1>0, SameRemainder, Zenon
    <3>2. /\ v % m \in Int /\ x % m \in Int
          /\ (v % m) - (x % m) < m /\ (x % m) - (v % m) < m
      BY <1>0, <1>1, <3>1
    <3>3. Same(v % m, x % m, m)
      BY <1>0, <1>1, <3>1, <3>2, SameThird, Zenon
    <3> QED
      BY <1>0, <3>2, <3>3, SameIsEqual, Zenon
  <2> QED
    BY <1>0, <1>1, <1>3, <2>1 DEF ToAddress
<1> QED
  BY <1>0, <1>2, <1>3

\* The conversion to uint32 yields an address, and adding to a fixed one is injective.
LEMMA AddressIs ==
    /\ 2 ^ AddrBits \in Nat \ {0}
    /\ \A x \in Int : ToAddress(x) \in Addresses
    /\ \A x \in Int : \A u, w \in Addresses :
          ToAddress(x + u) = ToAddress(x + w) => u = w
<1>0. 2 ^ AddrBits \in Nat \ {0}
  BY PowerNat, WidthAssumption
<1>1. PICK A \in Nat \ {0} : A = 2 ^ AddrBits
  BY <1>0
<1>2. \A x \in Int : x % A \in 0 .. A - 1
  BY SameRemainder
<1>3. ASSUME NEW x \in Int, NEW u \in 0 .. A - 1, NEW w \in 0 .. A - 1,
             (x + u) % A = (x + w) % A
      PROVE  u = w
  <2>1. x + u \in Int /\ x + w \in Int
    OBVIOUS
  <2>2. Same(x + u, x + w, A)
    <3>1. /\ (x + u) % A \in 0 .. A - 1 /\ Same(x + u, (x + u) % A, A)
          /\ Same((x + w) % A, x + w, A)
      BY <2>1, SameRemainder, Zenon
    <3>2. (x + u) % A \in Int /\ Same((x + u) % A, x + w, A)
      BY <1>3, <3>1
    <3> QED
      BY <2>1, <3>1, <3>2, SameThird, Zenon
  <2>3. PICK q \in Int : (x + u) - (x + w) = q * A
    BY <2>2 DEF Same
  <2>4. u - w = q * A
    BY <2>3
  <2>5. Same(u, w, A)
    BY <2>4 DEF Same
  <2>6. u \in Int /\ w \in Int /\ u - w < A /\ w - u < A
    OBVIOUS
  <2> QED
    BY <2>5, <2>6, SameIsEqual, Zenon
<1> QED
  BY <1>0, <1>1, <1>2, <1>3 DEF ToAddress, Addresses

-----------------------------------------------------------------------------
(***************************************************************************)
(* What was generated so far.  start is the generator's first value.        *)
(***************************************************************************)
Numbers == [value : Int, offset : Int, multiplier : Int, modulus : Int, max : Int, found : Int]

Network(b, start) ==
    /\ lcg_ipv4 \in Numbers
    /\ Valid(lcg_ipv4, b) /\ InRange(lcg_ipv4.value, b)
    /\ Same(lcg_ipv4.value, start + lcg_ipv4.found * lcg_ipv4.offset, 2 ^ b)
    /\ lcg_ipv4.found = Len(produced) /\ Len(produced) <= 2 ^ b
    /\ \A k \in 1 .. Len(produced) :
          produced[k] = ToAddress(netip + Spot(start, lcg_ipv4.offset, k - 1, b))

GenInv ==
    /\ mode \in Modes /\ produced \in Seq(Addresses)
    /\ gpc = "send" => HasNext
    /\ mode = "file" => /\ Len(produced) <= Len(FileList)
                        /\ \A k \in 1 .. Len(produced) : produced[k] = FileList[k]
    /\ mode # "file" => /\ netip \in Addresses
                        /\ \E b \in HostSizes, start \in Int : Network(b, start)

\* The generator's variables; of gpc only its being "send" matters.
LEMMA GenStays ==
    ASSUME GenInv, UNCHANGED <<mode, netip, lcg_ipv4, produced>>,
           gpc' = gpc \/ gpc' # "send" \/ HasNext
    PROVE  GenInv'
<1>1. \A b \in HostSizes, start \in Int : Network(b, start) => Network(b, start)'
  BY Zenon DEF Network, Valid, InRange, Spot, Same, Numbers, ToAddress
<1>2. HasNext' = HasNext
  BY DEF HasNext, Has_next
<1> QED
  BY <1>1, <1>2, Zenon DEF GenInv

\* Init(stop) leaves a valid state, for each pair of random numbers.
LEMMA GenInitially ==
    ASSUME Init
    PROVE  GenInv
<1>1. produced = <<>> /\ produced \in Seq(Addresses) /\ Len(produced) = 0 /\ gpc = "loop" /\ mode \in Modes
  BY DEF Init
<1>2. FileList \in Seq(Addresses) /\ Len(FileList) >= 0
  BY InputAssumption
<1>3. ASSUME mode # "file" PROVE netip \in Addresses /\ \E b \in HostSizes, start \in Int : Network(b, start)
  <2>1. netip \in Addresses
    BY <1>3, InputAssumption DEF Init
  <2>2. PICK b \in HostSizes : lcg_ipv4 \in LcgStates(2 ^ b)
    BY <1>3 DEF Init
  <2>3. b \in 0 .. AddrBits /\ b \in Nat /\ 2 ^ b \in Nat \ {0}
    BY InputAssumption, WidthAssumption, PowerNat
  <2>4. PICK start \in 0 .. 2 ^ b - 1, rnd \in 0 .. 2 ^ b - 1 :
            lcg_ipv4 = [value |-> start, offset |-> Offset(rnd, 2 ^ b),
                        multiplier |-> 4 * (2 ^ b \div 4) + 1, modulus |-> PowerOfTwo(2 ^ b),
                        max |-> 2 ^ b, found |-> 0]
    BY <2>2 DEF LcgStates
  <2>5. PowerOfTwo(2 ^ b) = 2 ^ b
    BY <2>3, PowerOfTwoIs
  <2> DEFINE o == (rnd + 2 ^ b) * 2 + 1
  <2>6. o \in Nat /\ o < 4 * 2 ^ b /\ rnd + 2 ^ b \in Int /\ o = 2 * (rnd + 2 ^ b) + 1
    BY <2>3
  <2>7. Valid(lcg_ipv4, b)
    <3>1. lcg_ipv4.offset = o
      BY <2>4 DEF Offset
    <3> HIDE DEF o
    <3>2. lcg_ipv4.max = 2 ^ b /\ lcg_ipv4.modulus = 2 ^ b /\ lcg_ipv4.multiplier = 4 * (2 ^ b \div 4) + 1
      BY <2>4, <2>5
    <3>3. \E d \in Int : lcg_ipv4.offset = 2 * d + 1
      BY <2>6, <3>1
    <3> QED
      BY <2>6, <3>1, <3>2, <3>3 DEF Valid
  <2>8. lcg_ipv4 \in Numbers
    <3>1. 4 * (2 ^ b \div 4) + 1 \in Int
      BY <2>3
    <3>2. start \in Int /\ Offset(rnd, 2 ^ b) \in Int /\ PowerOfTwo(2 ^ b) \in Int /\ 2 ^ b \in Int /\ 0 \in Int
      BY <2>3, <2>5 DEF Offset
    <3> QED
      BY <2>4, <3>1, <3>2, Zenon DEF Numbers
  <2>9. InRange(lcg_ipv4.value, b)
    BY <2>3, <2>4 DEF InRange
  <2>10. Same(lcg_ipv4.value, start + lcg_ipv4.found * lcg_ipv4.offset, 2 ^ b)
    <3>1. lcg_ipv4.value = start /\ lcg_ipv4.found = 0 /\ lcg_ipv4.offset \in Int
      BY <2>4, <2>6 DEF Offset
    <3>2. start + 0 * lcg_ipv4.offset = start /\ start \in Int
      BY <3>1
    <3> QED
      BY <2>3, <3>1, <3>2, SameLaws
  <2>11. Network(b, start)
    <3>1. lcg_ipv4.found = 0 /\ 1 .. Len(produced) = {}
      BY <1>1, <2>4
    <3>2. lcg_ipv4.found = Len(produced) /\ Len(produced) <= 2 ^ b
      BY <1>1, <2>3, <3>1
    <3> QED
      BY <2>7, <2>8, <2>9, <2>10, <3>1, <3>2 DEF Network
  <2> QED
    BY <2>1, <2>11
<1> QED
  BY <1>1, <1>2, <1>3 DEF GenInv


\* The next address of a network, and the state that follows.
LEMMA NetworkSend ==
    ASSUME NEW b \in HostSizes, NEW start \in Int, Network(b, start), netip \in Addresses,
           Has_next(lcg_ipv4),
           lcg_ipv4' = LcgNext(lcg_ipv4),
           produced' = Append(produced, ToAddress(netip + ToAddress(FirstBelowMax(lcg_ipv4)))),
           netip' = netip, produced \in Seq(Addresses)
    PROVE  Network(b, start)' /\ produced' \in Seq(Addresses)
<1> DEFINE m == 2 ^ b
           o == lcg_ipv4.offset
           n == Len(produced)
           v == lcg_ipv4.value
           w == Following(lcg_ipv4, v)
<1>0. /\ b \in 0 .. AddrBits /\ m \in Nat \ {0} /\ n \in Nat /\ o \in Int /\ v \in Int
      /\ Valid(lcg_ipv4, b) /\ InRange(v, b) /\ lcg_ipv4 \in Numbers
      /\ lcg_ipv4.found = n /\ n < m
      /\ Same(v, start + n * o, m)
  <2>1. b \in 0 .. AddrBits /\ b \in Nat
    BY InputAssumption, WidthAssumption
  <2>2. lcg_ipv4.found < 2 ^ b
    BY DEF Has_next, Network, Valid
  <2> QED
    BY <2>1, <2>2, PowerNat DEF Network, Numbers
<1>1. n * o \in Int /\ start + n * o \in Int /\ (n + 1) * o = n * o + o
  <2> HIDE DEF n, o, m
  <2>1. n * o \in Int /\ (n + 1) * o = n * o + 1 * o /\ 1 * o = o
    BY <1>0, TimesFacts
  <2> QED
    BY <2>1
<1>2. FirstBelowMax(lcg_ipv4) = v
  BY <1>0, FirstBelowMaxIs
<1>3. ToAddress(v) = Spot(start, o, n, b)
  <2> HIDE DEF m, o, n, v
  <2>1. Same(v, start + n * o, 2 ^ b)
    BY <1>0 DEF m
  <2> QED
    BY <1>0, <1>1, <2>1, ToAddressIs, Zenon DEF Spot
<1>4. InRange(w, b) /\ Same(w, v + o, m) /\ w \in Int
  BY <1>0, FollowingIs DEF InRange
<1>5. Same(w, start + (n + 1) * o, m)
  <2> HIDE DEF m, o, n, v, w
  <2>0. v + o \in Int /\ (start + n * o) + o \in Int
    BY <1>0, <1>1
  <2>1. Same(v + o, (start + n * o) + o, m) /\ v + o \in Int /\ (start + n * o) + o \in Int
    BY <1>0, <1>1, <2>0, SameShift, Zenon
  <2>2. Same(w, (start + n * o) + o, m)
    BY <1>0, <1>4, <2>1, SameThird
  <2>3. (start + n * o) + o = start + (n + 1) * o
    BY <1>0, <1>1
  <2> QED
    BY <2>2, <2>3
<1>6. lcg_ipv4' = [lcg_ipv4 EXCEPT !.found = n + 1, !.value = w]
  BY <1>0, <1>2 DEF LcgNext
<1>7. /\ lcg_ipv4' \in Numbers /\ lcg_ipv4'.value = w /\ lcg_ipv4'.found = n + 1
      /\ lcg_ipv4'.offset = o /\ lcg_ipv4'.multiplier = lcg_ipv4.multiplier
      /\ lcg_ipv4'.modulus = lcg_ipv4.modulus /\ lcg_ipv4'.max = lcg_ipv4.max
  <2> HIDE DEF w, n, o
  <2>1. n + 1 \in Int
    BY <1>0
  <2>2. lcg_ipv4 \in Numbers
    BY <1>0
  <2> QED
    BY <1>4, <1>6, <2>1, <2>2 DEF Numbers, o
<1>8. Valid(lcg_ipv4', b)
  BY <1>0, <1>7 DEF Valid
<1> DEFINE x == ToAddress(netip + ToAddress(v))
<1>9. x \in Addresses
  <2>1. ToAddress(v) \in Addresses
    BY <1>0, AddressIs
  <2>2. netip + ToAddress(v) \in Int
    BY <1>0, <2>1, AddressIs DEF Addresses
  <2> QED
    BY <2>2, AddressIs
<1>10. /\ produced' = Append(produced, x) /\ produced' \in Seq(Addresses) /\ Len(produced') = n + 1
       /\ produced'[n + 1] = x /\ \A k \in 1 .. n : produced'[k] = produced[k]
  <2>1. produced' = Append(produced, x)
    BY <1>2
  <2> HIDE DEF x
  <2> QED
    BY <1>9, <2>1
<1>11. ASSUME NEW k \in 1 .. n + 1 PROVE produced'[k] = ToAddress(netip + Spot(start, o, k - 1, b))
  <2>1. CASE k = n + 1
    <3>1. k - 1 = n
      BY <1>0, <2>1
    <3> QED
      BY <1>3, <1>10, <2>1, <3>1
  <2>2. CASE k \in 1 .. n
    <3>1. produced[k] = ToAddress(netip + Spot(start, o, k - 1, b))
      BY <2>2 DEF Network
    <3> QED
      BY <1>10, <2>2, <3>1
  <2> QED
    BY <1>0, <2>1, <2>2
<1>12. \A k \in 1 .. Len(produced') :
          produced'[k] = ToAddress(netip' + Spot(start, lcg_ipv4'.offset, k - 1, b))
  <2> HIDE DEF n, o
  <2> QED
    BY <1>7, <1>10, <1>11
<1>13. /\ InRange(lcg_ipv4'.value, b) /\ Same(lcg_ipv4'.value, start + lcg_ipv4'.found * lcg_ipv4'.offset, 2 ^ b)
       /\ lcg_ipv4'.found = Len(produced') /\ Len(produced') <= 2 ^ b
  <2> HIDE DEF n, o, w
  <2>1. n + 1 <= m
    <3> HIDE DEF m
    <3> QED
      BY <1>0
  <2> QED
    BY <1>4, <1>5, <1>7, <1>10, <2>1
<1>14. Network(b, start)'
  BY <1>7, <1>8, <1>12, <1>13 DEF Network
<1> QED
  BY <1>10, <1>14

\* What is put into Ip_chan is an address, and the generator stays valid.
LEMMA GenSends ==
    ASSUME GenInv, Gen_send
    PROVE  GenInv' /\ NextAddress \in Addresses
<1>1. HasNext /\ gpc' = "loop" /\ UNCHANGED <<mode, netip>> /\ produced' = Append(produced, NextAddress)
  BY DEF Gen_send, GenInv, inputVars
<1>2. CASE mode = "file"
  <2>1. Len(produced) \in Nat /\ Len(produced) < Len(FileList) /\ FileList \in Seq(Addresses) /\ produced \in Seq(Addresses)
    BY <1>1, <1>2, InputAssumption DEF HasNext, GenInv
  <2>2. NextAddress = FileList[Len(produced) + 1] /\ NextAddress \in Addresses
    BY <1>2, <2>1 DEF NextAddress
  <2>3. /\ produced' \in Seq(Addresses) /\ Len(produced') = Len(produced) + 1
        /\ produced'[Len(produced) + 1] = NextAddress
        /\ \A k \in 1 .. Len(produced) : produced'[k] = produced[k]
    BY <1>1, <2>1, <2>2
  <2>4. \A k \in 1 .. Len(produced) : produced[k] = FileList[k]
    BY <1>2 DEF GenInv
  <2>5. Len(produced') <= Len(FileList) /\ \A k \in 1 .. Len(produced') : produced'[k] = FileList[k]
    BY <2>1, <2>2, <2>3, <2>4
  <2>6. mode' \in Modes /\ gpc' # "send" /\ mode' = "file"
    BY <1>1, <1>2 DEF GenInv
  <2> QED
    BY <2>2, <2>3, <2>5, <2>6 DEF GenInv
<1>3. CASE mode # "file"
  <2>1. /\ netip \in Addresses /\ produced \in Seq(Addresses) /\ Has_next(lcg_ipv4)
        /\ lcg_ipv4' = LcgNext(lcg_ipv4)
        /\ NextAddress = ToAddress(netip + ToAddress(FirstBelowMax(lcg_ipv4)))
    BY <1>1, <1>3 DEF HasNext, GenInv, NextAddress, Gen_send
  <2>2. PICK b \in HostSizes, start \in Int : Network(b, start)
    BY <1>3 DEF GenInv
  <2>3. Network(b, start)' /\ produced' \in Seq(Addresses)
    BY <1>1, <2>1, <2>2, NetworkSend, Zenon
  <2>4. mode' \in Modes /\ gpc' # "send" /\ mode' # "file" /\ netip' \in Addresses
    BY <1>1, <1>3, <2>1 DEF GenInv
  <2>5. NextAddress \in Addresses
    <3>1. produced' = Append(produced, NextAddress) /\ produced' \in Seq(Addresses) /\ produced \in Seq(Addresses)
      BY <1>1, <2>1, <2>3
    <3>2. produced'[Len(produced) + 1] = NextAddress /\ Len(produced) + 1 \in 1 .. Len(produced')
      BY <3>1
    <3> QED
      BY <3>1, <3>2
  <2> QED
    BY <2>3, <2>4, <2>5, Zenon DEF GenInv
<1> QED
  BY <1>2, <1>3


\* The places of a network of 2^b addresses are addresses.
LEMMA SpotIs ==
    ASSUME NEW b \in HostSizes, NEW start \in Int, NEW offset \in Int, NEW i \in Int
    PROVE  Spot(start, offset, i, b) \in 0 .. 2 ^ b - 1 /\ Spot(start, offset, i, b) \in Addresses
<1>1. b \in Nat /\ AddrBits \in Nat /\ b <= AddrBits
  BY InputAssumption, WidthAssumption
<1>2. 2 ^ b \in Nat \ {0} /\ 2 ^ AddrBits \in Nat /\ 2 ^ b <= 2 ^ AddrBits
  BY <1>1, PowerNat, PowerDivides
<1>3. start + i * offset \in Int
  BY TimesFacts
<1>4. Spot(start, offset, i, b) \in 0 .. 2 ^ b - 1
  BY <1>2, <1>3, SameRemainder, Zenon DEF Spot
<1> QED
  BY <1>2, <1>4 DEF Addresses

\* No address is generated twice.
LEMMA GeneratedOnce ==
    ASSUME GenInv, NEW j \in 1 .. Len(produced), NEW k \in 1 .. Len(produced),
           produced[j] = produced[k]
    PROVE  j = k
<1>0. Len(produced) \in Nat
  BY DEF GenInv
<1>1. CASE mode = "file"
  <2>1. produced[j] = FileList[j] /\ produced[k] = FileList[k] /\ Len(produced) <= Len(FileList)
    BY <1>1 DEF GenInv
  <2>2. FileList \in Seq(Addresses) /\ IsInjective(FileList)
    BY InputAssumption
  <2>3. j \in DOMAIN FileList /\ k \in DOMAIN FileList
    BY <1>0, <2>1, <2>2
  <2> QED
    BY <2>1, <2>2, <2>3, Zenon DEF IsInjective
<1>2. CASE mode # "file"
  <2>1. PICK b \in HostSizes, start \in Int : Network(b, start)
    BY <1>2 DEF GenInv
  <2> DEFINE o == lcg_ipv4.offset
  <2>2. /\ netip \in Int /\ o \in Int /\ Len(produced) <= 2 ^ b /\ b \in Nat /\ 2 ^ b \in Nat
        /\ \E d \in Int : o = 2 * d + 1
    <3>1. netip \in Addresses /\ b \in Nat
      BY <1>2, InputAssumption DEF GenInv
    <3>2. netip \in Int
      BY <3>1, AddressIs DEF Addresses
    <3>3. 2 ^ b \in Nat
      BY <3>1, PowerNat
    <3>4. lcg_ipv4 \in Numbers /\ Valid(lcg_ipv4, b) /\ Len(produced) <= 2 ^ b
      BY <2>1, Zenon DEF Network
    <3>5. o \in Int
      BY <3>4 DEF Numbers
    <3>6. \E d \in Int : o = 2 * d + 1
      BY <3>4, Zenon DEF Valid
    <3> QED
      BY <3>1, <3>2, <3>3, <3>4, <3>5, <3>6
  <2>3. /\ produced[j] = ToAddress(netip + Spot(start, o, j - 1, b))
        /\ produced[k] = ToAddress(netip + Spot(start, o, k - 1, b))
    BY <2>1 DEF Network
  <2> HIDE DEF o
  <2>4. j - 1 \in 0 .. 2 ^ b - 1 /\ k - 1 \in 0 .. 2 ^ b - 1 /\ j - 1 \in Int /\ k - 1 \in Int
    BY <1>0, <2>2
  <2>5. Spot(start, o, j - 1, b) \in Addresses /\ Spot(start, o, k - 1, b) \in Addresses
    BY <2>2, <2>4, SpotIs
  <2>6. Spot(start, o, j - 1, b) = Spot(start, o, k - 1, b)
    BY <2>2, <2>3, <2>5, AddressIs, Zenon
  <2>7. j - 1 = k - 1
    BY <2>2, <2>4, <2>6, SpotsDistinct
  <2> QED
    BY <1>0, <2>7
<1> QED
  BY <1>1, <1>2

\* At the end all were generated.
LEMMA GeneratedAll ==
    ASSUME GenInv, ~HasNext
    PROVE  Range(produced) = Requested
<1>0. /\ Len(produced) \in Nat /\ produced \in Seq(Addresses)
      /\ Range(produced) = {produced[k] : k \in 1 .. Len(produced)}
  <2>1. Len(produced) \in Nat /\ produced \in Seq(Addresses) /\ DOMAIN produced = 1 .. Len(produced)
    BY DEF GenInv
  <2> QED
    BY <2>1, Zenon DEF Range
<1>1. CASE mode = "file"
  <2>1. FileList \in Seq(Addresses) /\ Len(produced) = Len(FileList)
    BY <1>0, <1>1, InputAssumption DEF GenInv, HasNext
  <2>2. \A k \in 1 .. Len(produced) : produced[k] = FileList[k]
    BY <1>1 DEF GenInv
  <2>3. DOMAIN FileList = 1 .. Len(produced)
    BY <2>1
  <2>4. Range(FileList) = {FileList[k] : k \in 1 .. Len(produced)}
    BY <2>3, Zenon DEF Range
  <2> QED
    BY <1>0, <1>1, <2>2, <2>4 DEF Requested
<1>2. CASE mode # "file"
  <2>1. PICK b \in HostSizes, start \in Int : Network(b, start)
    BY <1>2 DEF GenInv
  <2> DEFINE o == lcg_ipv4.offset
             m == 2 ^ b
             S == 0 .. m - 1
             f == [i \in S |-> Spot(start, o, i, b)]
  <2>2. b \in Nat /\ m \in Nat \ {0} /\ o \in Int /\ lcg_ipv4.max = m /\ Len(produced) = m
        /\ \E d \in Int : o = 2 * d + 1
    <3>1. b \in Nat /\ 2 ^ b \in Nat \ {0}
      BY InputAssumption, PowerNat
    <3>2. ~(lcg_ipv4.found < lcg_ipv4.max)
      BY <1>2 DEF HasNext, Has_next
    <3>3. /\ lcg_ipv4 \in Numbers /\ Valid(lcg_ipv4, b)
          /\ lcg_ipv4.found = Len(produced) /\ Len(produced) <= 2 ^ b
      BY <2>1, Zenon DEF Network
    <3>4. o \in Int
      BY <3>3 DEF Numbers
    <3>5. (\E d \in Int : o = 2 * d + 1) /\ lcg_ipv4.max = 2 ^ b
      BY <3>3, Zenon DEF Valid
    <3>6. Len(produced) = 2 ^ b
      BY <1>0, <3>1, <3>2, <3>3, <3>5
    <3> QED
      BY <3>1, <3>4, <3>5, <3>6
  <2>3. f \in Injection(S, S)
    <3> HIDE DEF o
    <3>1. ASSUME NEW i \in S PROVE f[i] \in S /\ f[i] = Spot(start, o, i, b)
      <4>1. i \in Int
        OBVIOUS
      <4> QED
        BY <2>2, <4>1, SpotIs
    <3>2. ASSUME NEW i \in S, NEW j \in S, f[i] = f[j] PROVE i = j
      BY <2>2, <3>1, <3>2, SpotsDistinct
    <3>3. f \in [S -> S] /\ DOMAIN f = S
      BY <3>1
    <3> HIDE DEF f, S
    <3> QED
      BY <3>2, <3>3, Zenon DEF Injection, IsInjective
  <2>4. f \in Surjection(S, S)
    <3>1. IsFiniteSet(S)
      BY <2>2, FS_Interval
    <3> HIDE DEF f, S
    <3> QED
      BY <2>3, <3>1, FS_Injection
  <2>5. ASSUME NEW v \in S PROVE \E k \in 1 .. m : v = Spot(start, o, k - 1, b)
    <3> HIDE DEF o
    <3>1. PICK i \in S : f[i] = v
      <4> HIDE DEF f, S
      <4> QED
        BY <2>4 DEF Surjection
    <3>2. i + 1 \in 1 .. m /\ (i + 1) - 1 = i
      BY <2>2
    <3>3. v = Spot(start, o, (i + 1) - 1, b)
      BY <3>1, <3>2
    <3> QED
      BY <3>2, <3>3, Zenon
  <2>6. ASSUME NEW k \in 1 .. m PROVE Spot(start, o, k - 1, b) \in S
    <3> HIDE DEF o
    <3>1. k - 1 \in Int
      BY <2>2
    <3> QED
      BY <2>2, <3>1, SpotIs
  <2>7. \A k \in 1 .. m : produced[k] = ToAddress(netip + Spot(start, o, k - 1, b))
    BY <2>1, <2>2 DEF Network
  <2>8. Requested = {ToAddress(netip + v) : v \in S}
    BY <1>2, <2>2 DEF Requested
  <2>9. Range(produced) = {produced[k] : k \in 1 .. m}
    BY <1>0, <2>2
  <2> HIDE DEF m, S, o, f
  <2>10. ASSUME NEW a \in Requested PROVE a \in Range(produced)
    BY <2>5, <2>7, <2>8, <2>9, Zenon
  <2>11. ASSUME NEW a \in Range(produced) PROVE a \in Requested
    BY <2>6, <2>7, <2>8, <2>9, Zenon
  <2> QED
    BY <2>10, <2>11
<1> QED
  BY <1>1, <1>2


-----------------------------------------------------------------------------
(***************************************************************************)
(* Where the generated addresses are, how the generator ends, and how much  *)
(* is left to do while it waits.                                            *)
(***************************************************************************)
TypeInv ==
    /\ gpc \in {"loop", "send", "end", "sleep", "returned"} /\ wait \in Int
    /\ Waiting_to_end \in BOOLEAN /\ closed \in BOOLEAN /\ panicked \in BOOLEAN
    /\ spc \in {"idle", "ignored", "closing", "closed"}
    /\ Ip_chan \in Seq(Addresses) /\ Len(Ip_chan) <= ChanCap
    /\ hold \in [Routines -> Addresses \cup {NULL}]
    /\ budget \in Nat
    /\ probed \subseteq Addresses /\ live \subseteq Waited

\* The channel holds the last addresses generated: so many were taken from it.
Gone == Len(produced) - Len(Ip_chan)
Taken(a) == a \notin Blocked /\ \E k \in 1 .. Gone : produced[k] = a
Settled(a) == a \in probed \/ \E r \in Routines : hold[r] = a

TailQueued == /\ Gone >= 0
              /\ \A k \in 1 .. Len(Ip_chan) : Ip_chan[k] = produced[Gone + k]
TakenSettled == \A k \in 1 .. Gone : produced[k] \notin Blocked => Settled(produced[k])
ProbedTaken == \A a \in probed : Taken(a)
HeldTaken == \A r \in Routines : hold[r] # NULL => Taken(hold[r]) /\ hold[r] \notin probed
HeldOnce == \A r, s \in Routines : hold[r] # NULL /\ hold[r] = hold[s] => r = s

PlacesInv == TailQueued /\ TakenSettled /\ ProbedTaken /\ HeldTaken /\ HeldOnce

\* Nobody interrupted the scan, or only after the generator had announced its end.
Undisturbed == spc \in {"idle", "ignored"}

StopInv ==
    Undisturbed =>
        /\ Waiting_to_end <=> gpc \in {"sleep", "returned"}
        /\ closed <=> gpc = "returned"
        /\ spc = "ignored" => Waiting_to_end
        /\ gpc \in {"end", "sleep", "returned"} => ~HasNext
        /\ ~closed => live = Waited

\* Addresses that are still queued or held.
Holding == {r \in Routines : hold[r] # NULL}
Work == Len(Ip_chan) + Cardinality(Holding)

\* The seconds that remain are enough for them: the first has its budget, each other
\* one the limiter's rate.  Without a limiter one second is enough.
DrainInv ==
    Undisturbed /\ TimeSuffices =>
        /\ gpc = "sleep" /\ Limited =>
              Work <= IF wait >= 1 THEN (wait - 1) * Rate + budget ELSE 0
        /\ gpc = "sleep" /\ ~Limited /\ wait <= 0 => Work = 0
        /\ gpc = "returned" => Work = 0


-----------------------------------------------------------------------------
\* An action that leaves produced, Ip_chan, hold and probed leaves all the addresses.
LEMMA PlacesStay ==
    ASSUME PlacesInv, UNCHANGED <<produced, Ip_chan, hold, probed>>
    PROVE  PlacesInv'
<1>1. (TailQueued /\ HeldOnce)'
  BY DEF PlacesInv, TailQueued, HeldOnce, Gone
<1>2. (TakenSettled /\ ProbedTaken)'
  BY DEF PlacesInv, TakenSettled, ProbedTaken, Gone, Taken, Settled
<1>3. HeldTaken'
  BY DEF PlacesInv, HeldTaken, Gone, Taken
<1> QED
  BY <1>1, <1>2, <1>3 DEF PlacesInv

Quiet == UNCHANGED <<produced, Ip_chan, hold, probed>> /\ UNCHANGED <<mode, netip, lcg_ipv4>>

\* A way to say which actions leave the addresses: those but sending, taking and probing.
LEMMA QuietActions ==
    ASSUME Gen_loop \/ Gen_end \/ Gen_close \/ (\E t \in Waited : Return(t)) \/ Interrupt
           \/ Interrupt_close \/ Tick \/ Refill \/ UNCHANGED vars
    PROVE  Quiet /\ (gpc' = gpc \/ gpc' # "send" \/ HasNext)
<1>1. CASE Gen_loop
  BY <1>1, Zenon DEF Gen_loop, Quiet, inputVars, sendVars
<1>2. CASE Gen_end
  BY <1>2, Zenon DEF Gen_end, Quiet, inputVars, sendVars
<1>3. CASE Gen_close
  BY <1>3, Zenon DEF Gen_close, Quiet, inputVars, sendVars
<1>4. CASE \E t \in Waited : Return(t)
  BY <1>4, Zenon DEF Return, Quiet, genVars, inputVars, sendVars
<1>5. CASE Interrupt
  BY <1>5, Zenon DEF Interrupt, Quiet, genVars, inputVars, sendVars
<1>6. CASE Interrupt_close
  BY <1>6, Zenon DEF Interrupt_close, Quiet, genVars, inputVars, sendVars
<1>7. CASE Tick
  BY <1>7, Zenon DEF Tick, Quiet, genVars, inputVars, sendVars
<1>8. CASE Refill
  BY <1>8, Zenon DEF Refill, Quiet, genVars, inputVars, sendVars
<1>9. CASE UNCHANGED vars
  BY <1>9, Zenon DEF vars, Quiet, genVars, inputVars, sendVars
<1> QED
  BY <1>1, <1>2, <1>3, <1>4, <1>5, <1>6, <1>7, <1>8, <1>9, Zenon


\* The constants as the steps need them.
LEMMA Sizes ==
    /\ ChanCap \in Nat \ {0} /\ Rate \in Int \ {0} /\ Slack \in Nat
    /\ Limited \in BOOLEAN /\ (Limited => Rate \in Nat \ {0})
    /\ \A n \in Nat : WaitTime(n) \in Int
BY SizesAssumption DEF Limited, WaitTime

LEMMA TypeInitially ==
    ASSUME Init
    PROVE  TypeInv
<1>1. Ip_chan \in Seq(Addresses) /\ Len(Ip_chan) <= ChanCap
  BY SizesAssumption DEF Init
<1>2. budget \in Nat
  BY SizesAssumption DEF Init, Limited
<1>3. hold \in [Routines -> Addresses \cup {NULL}] /\ probed \subseteq Addresses /\ live \subseteq Waited
  BY DEF Init
<1>4. gpc = "loop" /\ wait \in Int /\ spc = "idle"
  BY DEF Init
<1>5. Waiting_to_end \in BOOLEAN /\ closed \in BOOLEAN /\ panicked \in BOOLEAN
  BY DEF Init
<1> QED
  BY <1>1, <1>2, <1>3, <1>4, <1>5 DEF TypeInv

LEMMA TypeStep ==
    ASSUME TypeInv, GenInv, [Next]_vars
    PROVE  TypeInv'
<1> USE DEF TypeInv, genVars, inputVars, stopVars, sendVars
<1>1. CASE Gen_loop
  <2>1. gpc' \in {"end", "send", "returned"} /\ live' \subseteq Waited
    BY <1>1 DEF Gen_loop
  <2> QED
    BY <1>1, <2>1 DEF Gen_loop
<1>2. CASE Gen_send
  <2>1. NextAddress \in Addresses
    BY <1>2, GenSends
  <2>2. Ip_chan' = Append(Ip_chan, NextAddress) /\ Len(Ip_chan) < ChanCap
    BY <1>2 DEF Gen_send
  <2>3. Ip_chan' \in Seq(Addresses) /\ Len(Ip_chan') <= ChanCap
    BY <2>1, <2>2, Sizes
  <2> QED
    BY <1>2, <2>3 DEF Gen_send
<1>3. CASE Gen_end
  <2>1. WaitTime(Len(Ip_chan)) \in Int
    BY Sizes
  <2> QED
    BY <1>3, <2>1 DEF Gen_end
<1>4. CASE Gen_close
  BY <1>4 DEF Gen_close, CloseStop
<1>5. ASSUME NEW r \in Routines, Take(r) PROVE TypeInv'
  <2>1. Ip_chan' \in Seq(Addresses) /\ Len(Ip_chan') <= ChanCap /\ Head(Ip_chan) \in Addresses
    BY <1>5, Sizes DEF Take
  <2>2. hold' \in [Routines -> Addresses \cup {NULL}]
    BY <1>5, <2>1 DEF Take
  <2> QED
    BY <1>5, <2>1, <2>2 DEF Take
<1>6. ASSUME NEW r \in Routines, Probe(r) PROVE TypeInv'
  <2>1. hold' \in [Routines -> Addresses \cup {NULL}] /\ probed' \subseteq Addresses
    BY <1>6 DEF Probe
  <2>2. budget' \in Nat
    BY <1>6, Sizes DEF Probe
  <2> QED
    BY <1>6, <2>1, <2>2 DEF Probe
<1>7. ASSUME NEW t \in Waited, Return(t) PROVE TypeInv'
  BY <1>7 DEF Return
<1>8. CASE Interrupt
  BY <1>8 DEF Interrupt
<1>9. CASE Interrupt_close
  BY <1>9 DEF Interrupt_close, CloseStop
<1>10. CASE Tick
  <2>1. budget' \in Nat /\ wait' \in Int
    BY <1>10, Sizes DEF Tick
  <2> QED
    BY <1>10, <2>1 DEF Tick
<1>11. CASE Refill
  BY <1>11, Sizes DEF Refill
<1>12. CASE UNCHANGED vars
  BY <1>12 DEF vars
<1> QED
  BY <1>1, <1>2, <1>3, <1>4, <1>5, <1>6, <1>7, <1>8, <1>9, <1>10, <1>11, <1>12
  DEF Next, Generate, Over

\* The other steps leave the generator alone.
LEMMA GenStep ==
    ASSUME GenInv, [Next]_vars
    PROVE  GenInv'
<1>1. CASE Gen_send
  BY <1>1, GenSends
<1>2. ASSUME NEW r \in Routines, Take(r) \/ Probe(r) PROVE GenInv'
  <2>1. UNCHANGED <<mode, netip, lcg_ipv4, produced>> /\ gpc' = gpc
    BY <1>2, Zenon DEF Take, Probe, genVars, inputVars
  <2> QED
    BY <2>1, GenStays
<1>3. CASE Quiet /\ (gpc' = gpc \/ gpc' # "send" \/ HasNext)
  BY <1>3, GenStays DEF Quiet
<1> QED
  BY <1>1, <1>2, <1>3, QuietActions, Zenon DEF Next, Generate, Over


LEMMA PlacesInitially ==
    ASSUME Init
    PROVE  PlacesInv
<1>1. produced = <<>> /\ Ip_chan = <<>> /\ probed = {} /\ \A r \in Routines : hold[r] = NULL
  BY DEF Init
<1>2. Len(produced) = 0 /\ Len(Ip_chan) = 0 /\ Gone = 0
  BY <1>1 DEF Gone
<1>3. 1 .. Len(Ip_chan) = {} /\ 1 .. Gone = {} /\ Gone >= 0
  BY <1>2
<1> QED
  BY <1>1, <1>3 DEF PlacesInv, TailQueued, TakenSettled, ProbedTaken, HeldTaken, HeldOnce

\* An address that was not taken yet is neither held nor probed.
LEMMA FreshInChan ==
    ASSUME TypeInv, GenInv, PlacesInv, NEW k \in 1 .. Len(Ip_chan)
    PROVE  /\ Gone + k \in 1 .. Len(produced) /\ Gone \in Nat
           /\ Ip_chan[k] = produced[Gone + k] /\ Ip_chan[k] \in Addresses
           /\ ~Taken(Ip_chan[k]) /\ ~Settled(Ip_chan[k])
<1>1. /\ Len(produced) \in Nat /\ Len(Ip_chan) \in Nat /\ Gone \in Nat
      /\ Gone = Len(produced) - Len(Ip_chan)
  BY DEF TypeInv, GenInv, PlacesInv, TailQueued, Gone
<1>2. Gone + k \in 1 .. Len(produced) /\ Ip_chan[k] = produced[Gone + k]
  BY <1>1 DEF PlacesInv, TailQueued
<1>3. Ip_chan[k] \in Addresses
  BY DEF TypeInv
<1>4. ~Taken(Ip_chan[k])
  <2> SUFFICES ASSUME NEW j \in 1 .. Gone, produced[j] = Ip_chan[k] PROVE FALSE
    BY DEF Taken
  <2>1. j \in 1 .. Len(produced)
    BY <1>1
  <2>2. j = Gone + k
    BY <1>2, <2>1, GeneratedOnce
  <2> QED
    BY <1>1, <2>2
<1>5. Ip_chan[k] # NULL
  BY <1>3, AddressAssumption
<1>6. ~Settled(Ip_chan[k])
  BY <1>4, <1>5 DEF Settled, PlacesInv, ProbedTaken, HeldTaken
<1> QED
  BY <1>1, <1>2, <1>3, <1>4, <1>6

\* A new address joins the end of the queue.
LEMMA PlacesSend ==
    ASSUME TypeInv, GenInv, PlacesInv, Gen_send
    PROVE  PlacesInv'
<1>1. /\ produced \in Seq(Addresses) /\ Ip_chan \in Seq(Addresses) /\ NextAddress \in Addresses
      /\ Gone = Len(produced) - Len(Ip_chan) /\ Gone >= 0
  BY GenSends DEF TypeInv, GenInv, PlacesInv, TailQueued, Gone
<1>2. produced' = Append(produced, NextAddress) /\ Ip_chan' = Append(Ip_chan, NextAddress)
      /\ UNCHANGED <<hold, probed>>
  BY DEF Gen_send, sendVars
<1>3. /\ Len(produced') = Len(produced) + 1 /\ Len(Ip_chan') = Len(Ip_chan) + 1
      /\ \A k \in 1 .. Len(produced) : produced'[k] = produced[k]
      /\ \A k \in 1 .. Len(Ip_chan) : Ip_chan'[k] = Ip_chan[k]
      /\ produced'[Len(produced) + 1] = NextAddress /\ Ip_chan'[Len(Ip_chan) + 1] = NextAddress
  BY <1>1, <1>2
<1>4. Gone' = Gone /\ Gone \in Nat /\ Len(produced) \in Nat /\ Len(Ip_chan) \in Nat
  BY <1>1, <1>3 DEF Gone
<1>5. \A k \in 1 .. Gone : produced'[k] = produced[k]
  BY <1>1, <1>3, <1>4
<1>6. \A a : (Taken(a) => Taken(a)') /\ (Settled(a) => Settled(a)')
  BY <1>2, <1>4, <1>5 DEF Taken, Settled
<1>7. ASSUME NEW k \in 1 .. Len(Ip_chan') PROVE Ip_chan'[k] = produced'[Gone' + k]
  <2>1. CASE k = Len(Ip_chan) + 1
    BY <1>1, <1>3, <1>4, <2>1
  <2>2. CASE k \in 1 .. Len(Ip_chan)
    <3>1. Ip_chan[k] = produced[Gone + k] /\ Gone + k \in 1 .. Len(produced)
      BY <1>1, <1>4, <2>2 DEF PlacesInv, TailQueued
    <3> QED
      BY <1>3, <1>4, <2>2, <3>1
  <2> QED
    BY <1>3, <1>4, <2>1, <2>2
<1>8. TakenSettled'
  <2>1. ASSUME NEW k \in 1 .. Gone', NEW a, a = produced'[k], a \notin Blocked
        PROVE  Settled(a)'
    BY <1>4, <1>5, <1>6, <2>1 DEF PlacesInv, TakenSettled
  <2> QED
    BY <2>1 DEF TakenSettled, Settled
<1>9. ProbedTaken'
  <2>1. \A a \in probed' : Taken(a)'
    BY <1>2, <1>6 DEF PlacesInv, ProbedTaken
  <2> QED
    BY <2>1 DEF ProbedTaken
<1>10. HeldTaken'
  <2>1. ASSUME NEW r \in Routines, NEW a, a = hold'[r], a # NULL PROVE Taken(a)' /\ a \notin probed'
    BY <1>2, <1>6, <2>1 DEF PlacesInv, HeldTaken
  <2> QED
    BY <2>1 DEF HeldTaken, Taken
<1>11. HeldOnce'
  BY <1>2 DEF PlacesInv, HeldOnce
<1> QED
  BY <1>1, <1>4, <1>7, <1>8, <1>9, <1>10, <1>11 DEF PlacesInv, TailQueued


\* The first address of the queue is held, or dropped because it is excluded.
LEMMA PlacesTake ==
    ASSUME TypeInv, GenInv, PlacesInv, NEW r \in Routines, Take(r)
    PROVE  PlacesInv'
<1>0. PICK h : h = Head(Ip_chan)
  OBVIOUS
<1>1. /\ produced \in Seq(Addresses) /\ Ip_chan \in Seq(Addresses) /\ Ip_chan # <<>>
      /\ Gone = Len(produced) - Len(Ip_chan) /\ Gone >= 0
      /\ Len(produced) \in Nat /\ Len(Ip_chan) \in Nat \ {0} /\ Gone \in Nat
      /\ hold \in [Routines -> Addresses \cup {NULL}] /\ hold[r] = NULL
  BY DEF TypeInv, GenInv, PlacesInv, TailQueued, Gone, Take
<1>2. UNCHANGED <<produced, probed>> /\ Ip_chan' = Tail(Ip_chan)
      /\ (h \in Blocked => UNCHANGED hold) /\ (h \notin Blocked => hold' = [hold EXCEPT ![r] = h])
  BY <1>0 DEF Take, genVars
<1>3. /\ 1 \in 1 .. Len(Ip_chan) /\ h = Ip_chan[1] /\ h = produced[Gone + 1] /\ h \in Addresses
      /\ h # NULL /\ ~Taken(h) /\ ~Settled(h)
  BY <1>0, <1>1, FreshInChan, AddressAssumption
<1>4. /\ Len(Ip_chan') = Len(Ip_chan) - 1
      /\ \A k \in 1 .. Len(Ip_chan') : Ip_chan'[k] = Ip_chan[k + 1] /\ k + 1 \in 1 .. Len(Ip_chan)
  BY <1>1, <1>2
<1>5. Gone' = Gone + 1
  BY <1>1, <1>2, <1>4 DEF Gone
<1>6. ASSUME NEW s \in Routines
      PROVE  hold'[s] = hold[s] \/ (s = r /\ hold'[r] = h /\ h \notin Blocked)
  BY <1>1, <1>2
<1>7. \A a : Taken(a) => Taken(a)'
  BY <1>1, <1>2, <1>5 DEF Taken
<1>8. \A a \in Addresses : Settled(a) => Settled(a)'
  <2> SUFFICES ASSUME NEW a \in Addresses, NEW s \in Routines, hold[s] = a
               PROVE  hold'[s] = a
    BY <1>2 DEF Settled
  <2>1. a # NULL
    BY AddressAssumption
  <2> QED
    BY <1>1, <1>6, <2>1
<1>9. TailQueued'
  <2>1. ASSUME NEW k \in 1 .. Len(Ip_chan') PROVE Ip_chan'[k] = produced'[Gone' + k]
    <3>1. Ip_chan'[k] = Ip_chan[k + 1] /\ k + 1 \in 1 .. Len(Ip_chan)
      BY <1>4
    <3>2. Ip_chan[k + 1] = produced[Gone + (k + 1)]
      BY <3>1 DEF PlacesInv, TailQueued
    <3>3. Gone' + k = Gone + (k + 1)
      BY <1>1, <1>5
    <3> QED
      BY <1>2, <3>1, <3>2, <3>3
  <2>2. Gone' >= 0
    BY <1>1, <1>5
  <2> QED
    BY <2>1, <2>2 DEF TailQueued
<1>10. TakenSettled'
  <2>1. ASSUME NEW k \in 1 .. Gone', NEW a, a = produced'[k], a \notin Blocked
        PROVE  Settled(a)'
    <3>1. CASE k = Gone + 1
      <4>1. a = h /\ hold' = [hold EXCEPT ![r] = h]
        BY <1>2, <1>3, <2>1, <3>1
      <4>2. hold'[r] = a
        BY <1>1, <4>1
      <4> QED
        BY <4>2 DEF Settled
    <3>2. CASE k \in 1 .. Gone
      <4>1. a = produced[k] /\ k \in 1 .. Len(produced)
        BY <1>1, <1>2, <2>1, <3>2
      <4>2. a \in Addresses /\ Settled(a)
        BY <1>1, <2>1, <3>2, <4>1 DEF PlacesInv, TakenSettled
      <4> QED
        BY <1>8, <4>2
    <3> QED
      BY <1>1, <1>5, <3>1, <3>2
  <2> QED
    BY <2>1 DEF TakenSettled, Settled
<1>11. ProbedTaken'
  <2>1. \A a \in probed' : Taken(a)'
    BY <1>2, <1>7 DEF PlacesInv, ProbedTaken
  <2> QED
    BY <2>1 DEF ProbedTaken
<1>12. h \notin Blocked => Taken(h)'
  <2>1. Gone + 1 \in 1 .. Gone' /\ produced'[Gone + 1] = h
    <3>1. Gone + 1 \in 1 .. Gone'
      BY <1>1, <1>5
    <3> QED
      BY <1>2, <1>3, <3>1
  <2> QED
    BY <2>1 DEF Taken
<1>13. HeldTaken'
  <2>1. ASSUME NEW s \in Routines, NEW a, a = hold'[s], a # NULL
        PROVE  Taken(a)' /\ a \notin probed'
    <3>1. CASE hold'[s] = hold[s]
      BY <1>2, <1>7, <2>1, <3>1 DEF PlacesInv, HeldTaken
    <3>2. CASE s = r /\ hold'[r] = h /\ h \notin Blocked
      BY <1>2, <1>3, <1>12, <2>1, <3>2 DEF Settled
    <3> QED
      BY <1>6, <3>1, <3>2
  <2> QED
    BY <2>1 DEF HeldTaken, Taken
<1>14. HeldOnce'
  <2> SUFFICES ASSUME NEW s \in Routines, NEW t \in Routines, hold'[s] # NULL, hold'[s] = hold'[t]
               PROVE  s = t
    BY DEF HeldOnce
  <2>1. \A x \in Routines : hold[x] # h
    BY <1>3 DEF Settled
  <2>2. CASE hold'[s] = hold[s] /\ hold'[t] = hold[t]
    BY <2>2 DEF PlacesInv, HeldOnce
  <2> QED
    BY <1>6, <2>1, <2>2
<1> QED
  BY <1>9, <1>10, <1>11, <1>13, <1>14 DEF PlacesInv

\* A held address has been probed.
LEMMA PlacesProbe ==
    ASSUME TypeInv, GenInv, PlacesInv, NEW r \in Routines, Probe(r)
    PROVE  PlacesInv'
<1> DEFINE h == hold[r]
<1>1. /\ hold \in [Routines -> Addresses \cup {NULL}] /\ h # NULL
      /\ UNCHANGED <<produced, Ip_chan>> /\ probed' = probed \cup {h}
      /\ hold' = [hold EXCEPT ![r] = NULL]
  BY DEF TypeInv, Probe, genVars
<1>2. Gone' = Gone
  BY <1>1 DEF Gone
<1>3. Taken(h) /\ \A a : Taken(a) => Taken(a)'
  BY <1>1, <1>2 DEF PlacesInv, HeldTaken, Taken
<1>4. \A s \in Routines : hold'[s] = IF s = r THEN NULL ELSE hold[s]
  BY <1>1
<1>5. \A s \in Routines : s # r => hold[s] # h
  BY <1>1 DEF PlacesInv, HeldOnce
<1> HIDE DEF h
<1>6. \A a : Settled(a) => Settled(a)'
  <2> SUFFICES ASSUME NEW a, Settled(a), a # h PROVE Settled(a)'
    BY <1>1 DEF Settled
  <2>1. CASE a \in probed
    BY <1>1, <2>1 DEF Settled
  <2>2. CASE \E s \in Routines : hold[s] = a
    <3>1. PICK s \in Routines : hold[s] = a
      BY <2>2
    <3>2. s # r
      BY <3>1 DEF h
    <3> QED
      BY <1>4, <3>1, <3>2 DEF Settled
  <2> QED
    BY <2>1, <2>2 DEF Settled
<1>7. TailQueued'
  BY <1>1, <1>2 DEF PlacesInv, TailQueued
<1>8. TakenSettled'
  <2>1. ASSUME NEW k \in 1 .. Gone', NEW a, a = produced'[k], a \notin Blocked
        PROVE  Settled(a)'
    BY <1>1, <1>2, <1>6, <2>1 DEF PlacesInv, TakenSettled
  <2> QED
    BY <2>1 DEF TakenSettled, Settled
<1>9. ProbedTaken'
  <2>1. \A a \in probed' : Taken(a)'
    BY <1>1, <1>3 DEF PlacesInv, ProbedTaken
  <2> QED
    BY <2>1 DEF ProbedTaken
<1>10. HeldTaken'
  <2>1. ASSUME NEW s \in Routines, NEW a, a = hold'[s], a # NULL
        PROVE  Taken(a)' /\ a \notin probed'
    <3>1. s # r /\ a = hold[s]
      BY <1>4, <2>1
    <3> QED
      BY <1>1, <1>3, <1>5, <2>1, <3>1 DEF PlacesInv, HeldTaken
  <2> QED
    BY <2>1 DEF HeldTaken, Taken
<1>11. HeldOnce'
  BY <1>4 DEF PlacesInv, HeldOnce
<1> QED
  BY <1>7, <1>8, <1>9, <1>10, <1>11 DEF PlacesInv

LEMMA PlacesStep ==
    ASSUME TypeInv, GenInv, PlacesInv, [Next]_vars
    PROVE  PlacesInv'
<1>1. Quiet => PlacesInv'
  BY PlacesStay DEF Quiet
<1> QED
  BY <1>1, PlacesSend, PlacesTake, PlacesProbe, QuietActions, Zenon DEF Next, Generate, Over


\* A set without two different elements.
LEMMA OneOrNone ==
    ASSUME NEW S, \A x, y \in S : x = y
    PROVE  Cardinality(S) = IF S = {} THEN 0 ELSE 1
<1>1. CASE S = {}
  BY <1>1, FS_EmptySet
<1>2. CASE S # {}
  <2>1. PICK x : S = {x}
    BY <1>2
  <2> QED
    BY <2>1, FS_Singleton
<1> QED
  BY <1>1, <1>2

\* Of an address at most one is queued and at most one is held.
LEMMA PlacesCount ==
    ASSUME TypeInv, GenInv, PlacesInv, NEW a \in Addresses
    PROVE  /\ Cardinality(InChan(a)) = IF \E k \in 1 .. Len(Ip_chan) : Ip_chan[k] = a THEN 1 ELSE 0
           /\ Cardinality(HeldBy(a)) = IF \E r \in Routines : hold[r] = a THEN 1 ELSE 0
<1>0. Gone \in Int /\ Len(Ip_chan) \in Nat /\ a # NULL
  BY AddressAssumption DEF TypeInv, GenInv, Gone
<1>1. \A j, k \in InChan(a) : j = k
  <2> SUFFICES ASSUME NEW j \in 1 .. Len(Ip_chan), NEW k \in 1 .. Len(Ip_chan),
                      Ip_chan[j] = a, Ip_chan[k] = a
               PROVE  j = k
    BY DEF InChan
  <2>1. /\ Gone + j \in 1 .. Len(produced) /\ Gone + k \in 1 .. Len(produced)
        /\ produced[Gone + j] = a /\ produced[Gone + k] = a
    BY FreshInChan
  <2>2. Gone + j = Gone + k
    BY <2>1, GeneratedOnce
  <2> QED
    BY <1>0, <2>2
<1>2. \A r, s \in HeldBy(a) : r = s
  BY <1>0 DEF HeldBy, PlacesInv, HeldOnce
<1>3. InChan(a) = {} <=> ~\E k \in 1 .. Len(Ip_chan) : Ip_chan[k] = a
  BY DEF InChan
<1>4. HeldBy(a) = {} <=> ~\E r \in Routines : hold[r] = a
  BY DEF HeldBy
<1> QED
  BY <1>1, <1>2, <1>3, <1>4, OneOrNone

\* Where the addresses are decides how often each is there.
LEMMA PlacesConserve ==
    ASSUME TypeInv, GenInv, PlacesInv
    PROVE  AddressesConserved
<1> SUFFICES
      ASSUME NEW a \in Addresses
      PROVE  LET places == Cardinality(InChan(a)) + Cardinality(HeldBy(a))
                             + (IF a \in probed THEN 1 ELSE 0)
             IN  /\ a \notin Range(produced) => places = 0
                 /\ a \in Range(produced) \ Blocked => places = 1
                 /\ a \in Range(produced) \cap Blocked =>
                       places = Cardinality(InChan(a)) /\ places <= 1
  BY Zenon DEF AddressesConserved
<1> DEFINE queued == \E k \in 1 .. Len(Ip_chan) : Ip_chan[k] = a
           held == \E r \in Routines : hold[r] = a
<1>0. /\ Len(produced) \in Nat /\ Len(Ip_chan) \in Nat /\ Gone \in Nat
      /\ Gone = Len(produced) - Len(Ip_chan) /\ a # NULL
      /\ (a \in Range(produced) <=> \E k \in 1 .. Len(produced) : produced[k] = a)
  <2>1. Len(produced) \in Nat /\ DOMAIN produced = 1 .. Len(produced)
    BY DEF GenInv
  <2>2. a \in Range(produced) <=> \E k \in 1 .. Len(produced) : produced[k] = a
    BY <2>1, Zenon DEF Range
  <2> QED
    BY <2>1, <2>2, AddressAssumption DEF TypeInv, GenInv, PlacesInv, TailQueued, Gone
<1>1. /\ Cardinality(InChan(a)) = IF queued THEN 1 ELSE 0
      /\ Cardinality(HeldBy(a)) = IF held THEN 1 ELSE 0
  BY PlacesCount
<1>2. queued => a \in Range(produced) /\ ~held /\ a \notin probed
  BY <1>0, FreshInChan, Zenon DEF Settled
<1>3. held \/ a \in probed => Taken(a) /\ ~(held /\ a \in probed)
  BY <1>0 DEF PlacesInv, HeldTaken, ProbedTaken
<1>4. Taken(a) => a \in Range(produced) /\ a \notin Blocked
  BY <1>0 DEF Taken
<1>5. a \in Range(produced) \ Blocked => queued \/ held \/ a \in probed
  <2> SUFFICES ASSUME a \notin Blocked, NEW k \in 1 .. Len(produced), produced[k] = a
               PROVE  queued \/ held \/ a \in probed
    BY <1>0
  <2>1. CASE k <= Gone
    <3>1. k \in 1 .. Gone
      BY <1>0, <2>1
    <3>2. Settled(a)
      BY <3>1 DEF PlacesInv, TakenSettled
    <3> QED
      BY <3>2 DEF Settled
  <2>2. CASE k > Gone
    <3>1. k - Gone \in 1 .. Len(Ip_chan) /\ Gone + (k - Gone) = k
      BY <1>0, <2>2
    <3>2. Ip_chan[k - Gone] = a
      BY <3>1 DEF PlacesInv, TailQueued
    <3> QED
      BY <3>1, <3>2
  <2> QED
    BY <1>0, <2>1, <2>2
<1> HIDE DEF queued, held
<1> QED
  BY <1>1, <1>2, <1>3, <1>4, <1>5


CoreInv == TypeInv /\ GenInv /\ PlacesInv

LEMMA CoreInitially == Init => CoreInv
BY TypeInitially, GenInitially, PlacesInitially DEF CoreInv

LEMMA CoreStep == CoreInv /\ [Next]_vars => CoreInv'
BY TypeStep, GenStep, PlacesStep DEF CoreInv

LEMMA CoreAlways == Spec => []CoreInv
BY CoreInitially, CoreStep, PTL DEF Spec

\* Each address of the network is in one place, base_scanner.go:193-200,
\* tcp_scanner.go:413-450, lcg.go:35-44: generated once though the generator's products
\* may overflow, queued, held or probed once, never two of these, and an excluded one is
\* never probed.
THEOREM Conserved == Spec => []AddressesConserved
<1>1. CoreInv => AddressesConserved
  BY PlacesConserve DEF CoreInv
<1> QED
  BY <1>1, CoreAlways, PTL

-----------------------------------------------------------------------------
(***************************************************************************)
(* The end of a scan nobody interrupts in time.                             *)
(***************************************************************************)
LEMMA StopInitially == Init => StopInv
<1> SUFFICES ASSUME Init PROVE StopInv
  OBVIOUS
<1>1. gpc = "loop" /\ ~Waiting_to_end /\ ~closed /\ spc = "idle" /\ live = Waited
  BY DEF Init
<1> QED
  BY <1>1 DEF StopInv

\* Only the generator changes what is left to generate.
LEMMA SameHasNext ==
    ASSUME UNCHANGED <<mode, lcg_ipv4, produced>>
    PROVE  HasNext' = HasNext
BY DEF HasNext, Has_next

\* Only SIGINT, and the generator itself, raise the flag and close the channel.
LEMMA StopStep ==
    ASSUME TypeInv, StopInv, [Next]_vars
    PROVE  StopInv'
<1> SUFFICES ASSUME Undisturbed' PROVE StopInv'
  BY DEF StopInv
<1>0. ASSUME Undisturbed
      PROVE  /\ Waiting_to_end <=> gpc \in {"sleep", "returned"}
             /\ closed <=> gpc = "returned"
             /\ spc = "ignored" => Waiting_to_end
             /\ gpc \in {"end", "sleep", "returned"} => ~HasNext
             /\ ~closed => live = Waited
  BY <1>0 DEF StopInv
<1> USE DEF Undisturbed
<1>1. CASE Gen_loop
  <2>1. gpc = "loop" /\ UNCHANGED <<mode, lcg_ipv4, produced, spc, Waiting_to_end, closed>>
    BY <1>1 DEF Gen_loop, inputVars, stopVars
  <2>2. ~Waiting_to_end /\ ~closed /\ live = Waited /\ spc # "ignored"
    BY <1>0, <2>1
  <2>3. ~Told
    BY <2>2 DEF Told
  <2>4. (gpc' = "send" \/ (gpc' = "end" /\ ~HasNext)) /\ live' = live
    BY <1>1, <2>3 DEF Gen_loop
  <2>5. HasNext' = HasNext
    BY <2>1, SameHasNext
  <2> QED
    BY <2>1, <2>2, <2>4, <2>5 DEF StopInv
<1>2. CASE Gen_send
  <2>1. /\ gpc = "send" /\ gpc' = "loop"
        /\ UNCHANGED <<spc, Waiting_to_end, closed, live>>
    BY <1>2 DEF Gen_send, stopVars
  <2> QED
    BY <1>0, <2>1 DEF StopInv
<1>3. CASE Gen_end
  <2>1. /\ gpc = "end" /\ gpc' = "sleep" /\ Waiting_to_end'
        /\ UNCHANGED <<spc, closed, live, mode, lcg_ipv4, produced>>
    BY <1>3 DEF Gen_end, inputVars
  <2>2. HasNext' = HasNext
    BY <2>1, SameHasNext
  <2> QED
    BY <1>0, <2>1, <2>2 DEF StopInv
<1>4. CASE Gen_close
  <2>1. /\ gpc = "sleep" /\ gpc' = "returned"
        /\ UNCHANGED <<spc, Waiting_to_end, mode, lcg_ipv4, produced>>
    BY <1>4 DEF Gen_close, inputVars
  <2>2. closed'
    BY <1>0, <1>4, <2>1 DEF Gen_close, CloseStop
  <2>3. HasNext' = HasNext
    BY <2>1, SameHasNext
  <2> QED
    BY <1>0, <2>1, <2>2, <2>3 DEF StopInv
<1>5. ASSUME UNCHANGED <<gpc, spc, Waiting_to_end, closed, mode, lcg_ipv4, produced>>,
             live' = live \/ closed
      PROVE  StopInv'
  <2>1. HasNext' = HasNext
    BY <1>5, SameHasNext
  <2> QED
    BY <1>0, <1>5, <2>1 DEF StopInv
<1>6. ASSUME NEW r \in Routines, Take(r) \/ Probe(r) PROVE StopInv'
  BY <1>5, <1>6, Zenon DEF Take, Probe, genVars, inputVars, stopVars
<1>7. ASSUME NEW t \in Waited, Return(t) PROVE StopInv'
  BY <1>5, <1>7, Zenon DEF Return, genVars, inputVars, stopVars
<1>8. CASE Interrupt
  <2>1. /\ spc = "idle" /\ UNCHANGED <<gpc, closed, mode, lcg_ipv4, produced, live>>
    BY <1>8 DEF Interrupt, genVars, inputVars
  <2>2. spc' = "ignored" /\ Waiting_to_end /\ UNCHANGED Waiting_to_end
    BY <1>8 DEF Interrupt
  <2>3. HasNext' = HasNext
    BY <2>1, SameHasNext
  <2> QED
    BY <1>0, <2>1, <2>2, <2>3 DEF StopInv
<1>9. CASE Interrupt_close
  BY <1>9 DEF Interrupt_close
<1>10. CASE Tick \/ Refill
  BY <1>5, <1>10, Zenon DEF Tick, Refill, genVars, inputVars, stopVars
<1>11. CASE UNCHANGED vars
  BY <1>5, <1>11, Zenon DEF vars, genVars, inputVars, stopVars
<1> QED
  BY <1>1, <1>2, <1>3, <1>4, <1>6, <1>7, <1>8, <1>9, <1>10, <1>11 DEF Next, Generate, Over


\* At most one address is held by each init goroutine.
LEMMA HoldingIs ==
    ASSUME TypeInv
    PROVE  /\ IsFiniteSet(Holding) /\ Cardinality(Holding) \in Nat
           /\ Cardinality(Holding) <= Cardinality(Routines) /\ Cardinality(Routines) \in Nat \ {0}
           /\ Len(Ip_chan) \in Nat /\ Work \in Nat
<1>1. Holding \in SUBSET Routines
  BY DEF Holding
<1>2. IsFiniteSet(Holding) /\ Cardinality(Holding) <= Cardinality(Routines)
  BY <1>1, RoutinesAssumption, FS_Subset
<1>3. Cardinality(Holding) \in Nat /\ Cardinality(Routines) \in Nat
  BY <1>2, RoutinesAssumption, FS_CardinalityType
<1>4. Cardinality(Routines) # 0
  BY RoutinesAssumption, FS_EmptySet
<1>5. Len(Ip_chan) \in Nat
  BY DEF TypeInv
<1> QED
  BY <1>2, <1>3, <1>4, <1>5 DEF Work

\* Work only shrinks: nothing but the generator adds to it.
LEMMA WorkShrinks ==
    ASSUME TypeInv, NEW r \in Routines, Take(r) \/ Probe(r)
    PROVE  Work' <= Work /\ (Probe(r) => Work' = Work - 1) /\ Work' \in Nat
<1>0. /\ hold \in [Routines -> Addresses \cup {NULL}] /\ Ip_chan \in Seq(Addresses)
      /\ IsFiniteSet(Holding) /\ Cardinality(Holding) \in Nat
      /\ Len(Ip_chan) \in Nat
  BY HoldingIs DEF TypeInv
<1>1. CASE Take(r)
  <2>1. /\ Ip_chan # <<>> /\ Ip_chan' = Tail(Ip_chan) /\ r \notin Holding
        /\ hold' = hold \/ hold' = [hold EXCEPT ![r] = Head(Ip_chan)]
    BY <1>1 DEF Take, Holding
  <2>2. Len(Ip_chan') = Len(Ip_chan) - 1 /\ Len(Ip_chan') \in Nat
    BY <1>0, <2>1
  <2>3. Holding' = Holding \/ Holding' = Holding \cup {r}
    BY <1>0, <2>1, AddressAssumption DEF Holding
  <2>4. Cardinality(Holding') = Cardinality(Holding) \/ Cardinality(Holding') = Cardinality(Holding) + 1
    BY <1>0, <2>1, <2>3, FS_AddElement
  <2>5. ~Probe(r)
    BY <1>1 DEF Take, Probe
  <2> QED
    BY <1>0, <2>2, <2>4, <2>5 DEF Work
<1>2. CASE Probe(r)
  <2>1. /\ Ip_chan' = Ip_chan /\ r \in Holding /\ hold' = [hold EXCEPT ![r] = NULL]
    BY <1>2 DEF Probe, Holding
  <2>2. Holding' = Holding \ {r}
    BY <1>0, <2>1 DEF Holding
  <2>3. Cardinality(Holding') = Cardinality(Holding) - 1 /\ IsFiniteSet(Holding')
    BY <1>0, <2>1, <2>2, FS_RemoveElement
  <2>4. Cardinality(Holding') \in Nat
    BY <2>3, FS_CardinalityType
  <2> QED
    BY <1>0, <2>1, <2>3, <2>4 DEF Work
<1> QED
  BY <1>1, <1>2

\* Without work nothing is queued or held.
LEMMA NoWork ==
    ASSUME TypeInv, Work = 0
    PROVE  Ip_chan = <<>> /\ \A r \in Routines : hold[r] = NULL
<1>1. Len(Ip_chan) = 0 /\ Cardinality(Holding) = 0
  BY HoldingIs DEF Work
<1>2. Holding = {}
  BY <1>1, HoldingIs, FS_EmptySet
<1> QED
  BY <1>1, <1>2 DEF Holding, TypeInv

\* The generator's sleep, as it begins, is long enough.
LEMMA SleepSuffices ==
    ASSUME TypeInv, TimeSuffices
    PROVE  /\ Limited => /\ WaitTime(Len(Ip_chan)) >= 1
                         /\ Work <= (WaitTime(Len(Ip_chan)) - 1) * Rate
           /\ ~Limited => WaitTime(Len(Ip_chan)) >= 1
<1> DEFINE n == Len(Ip_chan)
<1>0. n \in Nat /\ n <= ChanCap /\ ChanCap \in Nat /\ Slack \in Nat
  BY Sizes, HoldingIs DEF TypeInv
<1>1. ASSUME Limited
      PROVE  WaitTime(n) >= 1 /\ Work <= (WaitTime(n) - 1) * Rate
  <2>1. /\ Cardinality(Routines) <= (Slack - 2) * Rate + 1 /\ Rate \in Nat \ {0}
        /\ WaitTime(n) = (n \div Rate) + Slack
    BY <1>1, Sizes DEF TimeSuffices, WaitTime
  <2> DEFINE q == n \div Rate
  <2>2. q \in Nat /\ n <= q * Rate + (Rate - 1) /\ q * Rate \in Int
    <3>1. n = Rate * q + (n % Rate) /\ n % Rate \in 0 .. Rate - 1 /\ q \in Nat
      BY <1>0, <2>1
    <3> HIDE DEF n, q
    <3>2. Rate * q = q * Rate /\ q * Rate \in Int
      BY <2>1, <3>1, TimesFacts
    <3> QED
      BY <2>1, <3>1, <3>2
  <2>3. Slack >= 2
    <3> SUFFICES ASSUME Slack - 2 <= -1 PROVE FALSE
      BY <1>0
    <3>1. (Slack - 2) * Rate <= (-1) * Rate
      BY <1>0, <2>1, TimesOrder
    <3>2. (Slack - 2) * Rate \in Int
      BY <1>0, <2>1, TimesFacts
    <3> QED
      BY <2>1, <3>1, <3>2, HoldingIs
  <2>4. WaitTime(n) >= 1
    <3> HIDE DEF n, q
    <3>1. WaitTime(n) = q + Slack
      BY <2>1 DEF q
    <3> QED
      BY <1>0, <2>2, <2>3, <3>1
  <2>5. (q + Slack - 1) * Rate = q * Rate + (Slack - 2) * Rate + Rate
    <3> HIDE DEF n, q
    <3>1. q \in Int /\ Slack \in Int /\ Rate \in Int
      BY <1>0, <2>1, <2>2
    <3> QED
      BY <3>1, Distribute, Zenon
  <2>6. Work <= n + Cardinality(Routines) /\ Cardinality(Routines) \in Nat /\ Work \in Nat
    BY HoldingIs DEF Work
  <2>7. Work <= (q + Slack - 1) * Rate
    <3>1. PICK x \in Int : x = (Slack - 2) * Rate
      BY <1>0, <2>1, TimesFacts
    <3>2. PICK y \in Int : y = q * Rate
      BY <2>2
    <3>3. (q + Slack - 1) * Rate = y + x + Rate /\ n <= y + (Rate - 1)
      BY <2>2, <2>5, <3>1, <3>2
    <3>4. Cardinality(Routines) <= x + 1
      BY <2>1, <3>1
    <3>5. Work <= y + x + Rate
      <4> HIDE DEF n, q
      <4> QED
        BY <1>0, <2>1, <2>6, <3>3, <3>4
    <3> QED
      BY <3>3, <3>5
  <2>8. WaitTime(n) - 1 = q + Slack - 1
    <3> HIDE DEF n, q
    <3>1. WaitTime(n) = q + Slack
      BY <2>1 DEF q
    <3> QED
      BY <1>0, <2>2, <3>1
  <2> QED
    BY <2>4, <2>7, <2>8
<1>2. ASSUME ~Limited PROVE WaitTime(n) >= 1
  <2>1. Rate \in Int /\ Rate < 0 /\ ChanCap < Slack * (-Rate)
        /\ WaitTime(n) = (-(n \div (-Rate))) + Slack
    BY <1>2, SizesAssumption DEF TimeSuffices, Limited, WaitTime
  <2>2. PICK p \in Nat \ {0} : p = -Rate
    BY <2>1
  <2> DEFINE q == n \div p
  <2>3. q \in Nat /\ q * p <= n
    <3>1. n = p * q + (n % p) /\ n % p \in 0 .. p - 1 /\ q \in Nat
      BY <1>0
    <3> HIDE DEF n, q
    <3>2. p * q = q * p /\ q * p \in Int
      BY <3>1, TimesFacts
    <3> QED
      BY <1>0, <3>1, <3>2
  <2>4. ~(Slack <= q)
    <3> SUFFICES ASSUME Slack <= q PROVE FALSE
      OBVIOUS
    <3> HIDE DEF n, q
    <3>1. Slack * p <= q * p /\ Slack * p \in Int /\ q * p \in Int
      BY <1>0, <2>3, TimesOrder, TimesFacts
    <3>2. ChanCap < Slack * p
      BY <2>1, <2>2
    <3> QED
      BY <1>0, <2>3, <3>1, <3>2
  <2>5. WaitTime(n) = Slack - q
    BY <1>0, <2>1, <2>2, <2>3
  <2> HIDE DEF n, q
  <2> QED
    BY <1>0, <2>3, <2>4, <2>5
<1> QED
  BY <1>1, <1>2


\* While the generator sleeps a second ends only when the queue is empty and nothing is
\* held, or when the second's budget is used up.
LEMMA TickWaits ==
    ASSUME TypeInv, StopInv, Undisturbed, Tick
    PROVE  Work = 0 \/ (Limited /\ budget = 0)
<1>0. gpc = "sleep" /\ \A r \in Routines : ~CanMove(r)
  BY DEF Tick
<1>1. Routines \subseteq live
  BY <1>0 DEF StopInv, Waited
<1>2. ASSUME ~(Limited /\ budget = 0) PROVE Work = 0
  <2>1. Limited => budget > 0
    BY <1>2 DEF TypeInv
  <2>2. \A r \in Routines : hold[r] = NULL /\ Ip_chan = <<>>
    BY <1>0, <1>1, <2>1 DEF CanMove
  <2>3. Holding = {} /\ Ip_chan = <<>>
    BY <2>2, RoutinesAssumption DEF Holding
  <2>4. Cardinality(Holding) = 0 /\ Len(Ip_chan) = 0
    BY <2>3, FS_EmptySet
  <2> QED
    BY <2>4 DEF Work
<1> QED
  BY <1>2

LEMMA DrainInitially == Init => DrainInv
<1> SUFFICES ASSUME Init PROVE DrainInv
  OBVIOUS
<1>1. gpc = "loop"
  BY DEF Init
<1> QED
  BY <1>1 DEF DrainInv

\* The remaining seconds stay enough for the remaining work.
LEMMA DrainStep ==
    ASSUME TypeInv, StopInv, DrainInv, [Next]_vars
    PROVE  DrainInv'
<1> SUFFICES ASSUME Undisturbed', TimeSuffices PROVE DrainInv'
  <2>1. TimeSuffices' = TimeSuffices
    BY DEF TimeSuffices, Limited
  <2> QED
    BY <2>1 DEF DrainInv
<1> DEFINE Left == IF wait >= 1 THEN (wait - 1) * Rate + budget ELSE 0
<1>0. ASSUME Undisturbed
      PROVE  /\ gpc = "sleep" /\ Limited => Work <= Left
             /\ gpc = "sleep" /\ ~Limited /\ wait <= 0 => Work = 0
             /\ gpc = "returned" => Work = 0
  BY <1>0 DEF DrainInv
<1>a. /\ Work \in Nat /\ wait \in Int /\ budget \in Nat /\ Limited \in BOOLEAN /\ Limited' = Limited
      /\ (Limited => Rate \in Nat \ {0})
  BY HoldingIs, Sizes DEF TypeInv, Limited
<1>1. CASE Gen_loop
  <2>1. Undisturbed /\ gpc' # "sleep" /\ (gpc' = "returned" => FALSE)
    <3>1. Undisturbed /\ gpc = "loop"
      BY <1>1 DEF Gen_loop, stopVars, Undisturbed
    <3>2. ~Told
      BY <3>1 DEF StopInv, Told, TypeInv
    <3> QED
      BY <1>1, <3>1, <3>2 DEF Gen_loop
  <2> QED
    BY <2>1 DEF DrainInv
<1>2. CASE Gen_send
  BY <1>2 DEF Gen_send, DrainInv
<1>3. CASE Gen_end
  <2>1. /\ gpc' = "sleep" /\ wait' = WaitTime(Len(Ip_chan)) /\ budget' = budget
        /\ UNCHANGED <<Ip_chan, hold>>
    BY <1>3 DEF Gen_end, sendVars
  <2>2. Work' = Work
    BY <2>1 DEF Work, Holding
  <2>3. Limited => wait' >= 1 /\ Work' <= (wait' - 1) * Rate + budget'
    <3> SUFFICES ASSUME Limited PROVE wait' >= 1 /\ Work' <= (wait' - 1) * Rate + budget'
      OBVIOUS
    <3>1. wait' >= 1 /\ Work <= (wait' - 1) * Rate
      BY <2>1, SleepSuffices
    <3>2. wait' \in Int /\ (wait' - 1) * Rate \in Int
      BY <1>a, <2>1, Sizes, HoldingIs, TimesFacts
    <3> QED
      BY <1>a, <2>1, <2>2, <3>1, <3>2
  <2>4. ~Limited => wait' >= 1
    BY <2>1, SleepSuffices
  <2>5. wait' \in Int
    BY <2>1, Sizes, HoldingIs
  <2> QED
    BY <1>a, <2>1, <2>3, <2>4, <2>5 DEF DrainInv
<1>4. CASE Gen_close
  <2>1. gpc = "sleep" /\ wait <= 0 /\ gpc' = "returned" /\ UNCHANGED <<Ip_chan, hold, spc>>
    BY <1>4 DEF Gen_close, sendVars
  <2>2. Undisturbed /\ Work' = Work
    BY <2>1 DEF Undisturbed, Work, Holding
  <2>3. Work = 0
    BY <1>0, <1>a, <2>1, <2>2
  <2> QED
    BY <2>1, <2>2, <2>3 DEF DrainInv
<1>5. ASSUME UNCHANGED <<gpc, wait, budget, Ip_chan, hold>>, Undisturbed
      PROVE  DrainInv'
  <2>1. Work' = Work
    BY <1>5 DEF Work, Holding
  <2> QED
    BY <1>0, <1>5, <1>a, <2>1 DEF DrainInv
<1>6. ASSUME NEW r \in Routines, Take(r) PROVE DrainInv'
  <2>1. UNCHANGED <<gpc, wait, budget, spc>> /\ Work' <= Work /\ Work' \in Nat
    BY <1>6, WorkShrinks DEF Take, genVars, stopVars
  <2>2. Undisturbed
    BY <2>1 DEF Undisturbed
  <2>3. Left' = Left
    BY <2>1
  <2>4. Left \in Int \/ ~Limited
    BY <1>a, TimesFacts
  <2>5. gpc' = "sleep" /\ Limited => Work' <= Left'
    <3> HIDE DEF Left
    <3> QED
      BY <1>0, <1>a, <2>1, <2>2, <2>3, <2>4
  <2>6. /\ gpc' = "sleep" /\ ~Limited /\ wait' <= 0 => Work' = 0
        /\ gpc' = "returned" => Work' = 0
    <3> HIDE DEF Left
    <3> QED
      BY <1>0, <1>a, <2>1, <2>2
  <2> QED
    BY <1>a, <2>5, <2>6 DEF DrainInv
<1>7. ASSUME NEW r \in Routines, Probe(r) PROVE DrainInv'
  <2>1. /\ UNCHANGED <<gpc, wait, spc>> /\ Work' = Work - 1 /\ Work' \in Nat
        /\ (Limited => budget' = budget - 1)
    BY <1>7, WorkShrinks DEF Probe, genVars, stopVars
  <2>2. Undisturbed
    BY <2>1 DEF Undisturbed
  <2>3. gpc' = "sleep" /\ Limited => Work' <= Left'
    <3> SUFFICES ASSUME gpc = "sleep", Limited PROVE Work' <= Left'
      BY <2>1
    <3>1. Work <= Left
      BY <1>0, <2>2
    <3>2. PICK x \in Int : x = (wait - 1) * Rate
      BY <1>a, TimesFacts
    <3>3. wait >= 1
      <4> SUFFICES ASSUME ~(wait >= 1) PROVE FALSE
        OBVIOUS
      <4>1. Left = 0
        OBVIOUS
      <4> HIDE DEF Left
      <4> QED
        BY <1>a, <2>1, <3>1, <4>1
    <3>4. Left = x + budget
      BY <3>2, <3>3
    <3>5. Left' = x + budget'
      BY <2>1, <3>2, <3>3
    <3> HIDE DEF Left
    <3> QED
      BY <1>a, <2>1, <3>1, <3>4, <3>5
  <2>4. /\ gpc' = "sleep" /\ ~Limited /\ wait' <= 0 => Work' = 0
        /\ gpc' = "returned" => Work' = 0
    <3> HIDE DEF Left
    <3> QED
      BY <1>0, <1>a, <2>1, <2>2
  <2> QED
    BY <1>a, <2>3, <2>4 DEF DrainInv
<1>8. CASE Tick
  <2>1. /\ gpc = "sleep" /\ wait > 0 /\ wait' = wait - 1 /\ UNCHANGED <<gpc, Ip_chan, hold, spc>>
        /\ (Limited => budget' = Rate)
    BY <1>8 DEF Tick, stopVars
  <2>2. Undisturbed /\ Work' = Work
    BY <2>1 DEF Undisturbed, Work, Holding
  <2>3. Work = 0 \/ (Limited /\ budget = 0)
    BY <1>8, <2>2, TickWaits
  <2>4. Limited => Work' <= Left'
    <3> SUFFICES ASSUME Limited PROVE Work' <= Left'
      OBVIOUS
    <3>0. Rate \in Nat \ {0} /\ budget' = Rate /\ wait' \in Int /\ wait \in Int
      BY <1>a, <2>1
    <3>a. /\ Rate \in Int /\ Rate \in Nat /\ wait' - 1 \in Int /\ wait - 1 \in Int /\ wait - 2 \in Int
          /\ wait \in Int /\ 0 \in Int
      BY <3>0
    <3>b. (wait' - 1) * Rate \in Int /\ 0 * Rate = 0
      BY <3>a, TimesFacts, SMT
    <3>1. PICK x \in Int : x = (wait' - 1) * Rate
      BY <3>b
    <3>2. Left' = IF wait' >= 1 THEN x + Rate ELSE 0
      BY <3>0, <3>1
    <3>3. wait' >= 1 => x >= 0
      <4> SUFFICES ASSUME wait' >= 1 PROVE x >= 0
        OBVIOUS
      <4>1. 0 <= wait' - 1
        <5>1. \A w \in Int : w >= 1 => 0 <= w - 1
          OBVIOUS
        <5> QED
          BY <3>0, <5>1, Zenon
      <4>2. 0 * Rate <= (wait' - 1) * Rate
        BY <3>a, <4>1, TimesOrder, Zenon
      <4>3. 0 <= x
        BY <3>1, <3>b, <4>2, Zenon
      <4> QED
        BY <4>3
    <3>4. CASE Work = 0
      <4> HIDE DEF Left
      <4> QED
        BY <2>2, <3>0, <3>2, <3>3, <3>4
    <3>5. CASE budget = 0
      <4>1. Work <= (wait - 1) * Rate
        <5>1. Left = (wait - 1) * Rate + 0
          BY <2>1, <3>0, <3>5
        <5>2. Work <= Left
          BY <1>0, <2>1, <2>2
        <5>3. (wait - 1) * Rate \in Int
          BY <3>0, TimesFacts
        <5> HIDE DEF Left
        <5> QED
          BY <5>1, <5>2, <5>3
      <4>2. (wait - 1) * Rate = (wait - 2) * Rate + Rate
        BY <3>a, Distribute, Zenon
      <4>3. wait' - 1 = wait - 2 /\ (wait - 2) * Rate = x
        BY <2>1, <3>0, <3>1
      <4>4. Work <= x + Rate
        BY <4>1, <4>2, <4>3
      <4>5. ~(wait' >= 1) => x + Rate <= 0
        <5> SUFFICES ASSUME ~(wait' >= 1) PROVE x + Rate <= 0
          OBVIOUS
        <5>1. wait = 1
          BY <2>1, <3>0
        <5> QED
          BY <3>0, <4>3, <5>1
      <4> HIDE DEF Left
      <4> QED
        BY <1>a, <2>2, <3>0, <3>2, <4>4, <4>5
    <3> QED
      BY <2>3, <3>4, <3>5
  <2>5. ~Limited => Work' = 0
    BY <2>2, <2>3
  <2> HIDE DEF Left
  <2>6. gpc' = "sleep"
    BY <2>1
  <2> QED
    BY <1>a, <2>4, <2>5, <2>6 DEF DrainInv, Left
<1>9. CASE Refill
  <2>1. gpc # "sleep" /\ UNCHANGED <<gpc, Ip_chan, hold, spc>>
    BY <1>9 DEF Refill, genVars, stopVars
  <2>2. Undisturbed /\ Work' = Work
    BY <2>1 DEF Undisturbed, Work, Holding
  <2> QED
    BY <1>0, <2>1, <2>2 DEF DrainInv
<1>10. ASSUME NEW t \in Waited, Return(t) PROVE DrainInv'
  BY <1>5, <1>10 DEF Return, genVars, stopVars, sendVars, Undisturbed
<1>11. CASE Interrupt
  BY <1>5, <1>11 DEF Interrupt, genVars, sendVars, Undisturbed
<1>12. CASE Interrupt_close
  BY <1>12 DEF Interrupt_close, Undisturbed
<1>13. CASE UNCHANGED vars
  BY <1>5, <1>13 DEF vars, genVars, stopVars, sendVars, Undisturbed
<1> QED
  BY <1>1, <1>2, <1>3, <1>4, <1>6, <1>7, <1>8, <1>9, <1>10, <1>11, <1>12, <1>13
  DEF Next, Generate, Over


LEMMA EndAlways == Spec => [](CoreInv /\ StopInv /\ DrainInv)
<1>1. Init => StopInv /\ DrainInv
  BY StopInitially, DrainInitially
<1>2. CoreInv /\ StopInv /\ DrainInv /\ [Next]_vars => StopInv' /\ DrainInv'
  BY StopStep, DrainStep DEF CoreInv
<1> QED
  BY <1>1, <1>2, CoreInitially, CoreStep, PTL DEF Spec

\* When the channel is closed nothing is left to do.
LEMMA AllProbedThen ==
    ASSUME CoreInv, StopInv, DrainInv, closed, Undisturbed, TimeSuffices
    PROVE  probed = Requested \ Blocked
<1>0. TypeInv /\ GenInv /\ PlacesInv
  BY DEF CoreInv
<1>1. gpc = "returned" /\ ~HasNext
  BY DEF StopInv
<1>2. Work = 0
  BY <1>1 DEF DrainInv
<1>3. Ip_chan = <<>> /\ \A r \in Routines : hold[r] = NULL
  BY <1>0, <1>2, NoWork
<1>4. Gone = Len(produced) /\ Len(produced) \in Nat /\ produced \in Seq(Addresses)
  BY <1>0, <1>3 DEF Gone, GenInv
<1>5. Range(produced) = Requested
  BY <1>0, <1>1, GeneratedAll
<1>6. \A a : a \in Range(produced) <=> \E k \in 1 .. Gone : produced[k] = a
  <2>1. DOMAIN produced = 1 .. Gone
    BY <1>4
  <2> QED
    BY <2>1, Zenon DEF Range
<1>7. ASSUME NEW a \in Requested \ Blocked PROVE a \in probed
  <2>1. PICK k \in 1 .. Gone : produced[k] = a
    BY <1>5, <1>6
  <2>2. Settled(a) /\ a \in Addresses
    BY <1>0, <1>4, <2>1 DEF PlacesInv, TakenSettled
  <2> QED
    BY <1>3, <2>2, AddressAssumption DEF Settled
<1>8. ASSUME NEW a \in probed PROVE a \in Requested \ Blocked
  <2>1. Taken(a)
    BY <1>0 DEF PlacesInv, ProbedTaken
  <2> QED
    BY <1>5, <1>6, <2>1, Zenon DEF Taken
<1> QED
  BY <1>7, <1>8

\* A scan nobody interrupts probes everything, base_scanner.go:193-200,
\* tcp_scanner.go:442-460: when the generator closes Stop_chan each address of the network
\* or the file has been probed, or is excluded, provided that the seconds it adds to its
\* waiting time suffice for this rate, queue and number of init goroutines.
THEOREM AllProbed == Spec => []AllProbedAtEnd
<1>1. CoreInv /\ StopInv /\ DrainInv => AllProbedAtEnd
  BY AllProbedThen DEF AllProbedAtEnd, Undisturbed
<1> QED
  BY <1>1, EndAlways, PTL
=============================================================================
