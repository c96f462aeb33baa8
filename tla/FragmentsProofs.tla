---------------------------- MODULE FragmentsProofs ----------------------------
(***************************************************************************)
(* Reassembly, for every set of packets, whatever their fragments and Ids,  *)
(* and every number of arrivals: what is handed over consists of whole      *)
(* fragments in their places, and an undisturbed packet is handed over      *)
(* once, when all of it is there.                                           *)
(*                                                                          *)
(* The loop makes as many rounds as there are fragments.  No two rounds     *)
(* take the same one, because the data grow; so a loop that is through with *)
(* all rounds has taken all.                                                *)
(***************************************************************************)
EXTENDS Fragments, Integers, FiniteSetTheorems, SequenceTheorems, TLAPS

Unit == Datagrams \X Nat

-----------------------------------------------------------------------------
(***************************************************************************)
(* Induction over a set of naturals.                                        *)
(***************************************************************************)
\* A non-empty set of naturals has a least element.
LEMMA Least ==
    ASSUME NEW T, T \subseteq Nat, T # {}
    PROVE  \E x \in T : \A y \in T : ~(y < x)
<1>1. IsWellFoundedOn(OpToRel(<, Nat), Nat)
  BY NatLessThanWellFounded, Zenon
<1>2. PICK x \in T : \A y \in T : ~(<<y, x>> \in OpToRel(<, Nat))
  BY <1>1, WFMin, Zenon
<1>3. ASSUME NEW y \in T, y < x PROVE FALSE
  <2>1. <<y, x>> \in Nat \X Nat /\ <<y, x>>[1] < <<y, x>>[2]
    BY <1>3
  <2>2. <<y, x>> \in OpToRel(<, Nat)
    BY <2>1, Zenon DEF OpToRel
  <2> QED
    BY <1>2, <2>2, Zenon
<1> QED
  BY <1>3

\* What holds of 0, and of the successor of each of its members below n, is all of 0 .. n.
LEMMA Inductive ==
    ASSUME NEW n \in Nat, NEW T, T \subseteq 0 .. n, 0 \in T,
           \A k \in T : k < n => k + 1 \in T
    PROVE  T = 0 .. n
<1> SUFFICES ASSUME (0 .. n) \ T # {} PROVE FALSE
  OBVIOUS
<1>1. PICK x \in (0 .. n) \ T : \A y \in (0 .. n) \ T : ~(y < x)
  <2>1. (0 .. n) \ T \subseteq Nat
    OBVIOUS
  <2> QED
    BY <2>1, Least
<1>2. x - 1 \in 0 .. n /\ x - 1 < x /\ (x - 1) + 1 = x /\ x - 1 < n
  BY <1>1
<1>3. x - 1 \in T
  BY <1>1, <1>2
<1> QED
  BY <1>1, <1>2, <1>3

-----------------------------------------------------------------------------
(***************************************************************************)
(* Fragments on the wire.                                                   *)
(***************************************************************************)
LEMMA Offsets ==
    ASSUME NEW d \in Datagrams
    PROVE  /\ Len(Ends[d]) \in Nat \ {0}
           /\ \A n \in Places(d) : /\ OffsetOf(d, n) \in Nat /\ Ends[d][n] \in Nat
                                   /\ OffsetOf(d, n) < Ends[d][n]
                                   /\ OffsetOf(d, n) = 0 <=> n = 1
           /\ \A m, n \in Places(d) : m < n => Ends[d][m] <= OffsetOf(d, n)
<1>1. /\ Ends[d] \in Seq(Nat \ {0}) /\ Ends[d] # <<>>
      /\ \A m, n \in 1 .. Len(Ends[d]) : m < n => Ends[d][m] < Ends[d][n]
  BY ShapeAssumption
<1>2. Len(Ends[d]) \in Nat \ {0}
  BY <1>1
<1>3. \A n \in Places(d) : Ends[d][n] \in Nat \ {0}
  BY <1>1 DEF Places
<1>4. ASSUME NEW n \in Places(d)
      PROVE  /\ OffsetOf(d, n) \in Nat
             /\ OffsetOf(d, n) < Ends[d][n]
             /\ OffsetOf(d, n) = 0 <=> n = 1
  <2>1. CASE n = 1
    BY <1>3, <2>1 DEF OffsetOf, Places
  <2>2. CASE n # 1
    <3>1. n - 1 \in Places(d) /\ n - 1 < n
      BY <2>2, <1>2 DEF Places
    <3>2. Ends[d][n - 1] < Ends[d][n]
      BY <1>1, <3>1 DEF Places
    <3> QED
      BY <1>3, <2>2, <3>1, <3>2 DEF OffsetOf
  <2> QED
    BY <2>1, <2>2
<1>5. ASSUME NEW m \in Places(d), NEW n \in Places(d), m < n
      PROVE  Ends[d][m] <= OffsetOf(d, n)
  <2>1. n # 1 /\ n - 1 \in Places(d) /\ (m < n - 1 \/ m = n - 1)
    BY <1>2, <1>5 DEF Places
  <2>2. CASE m = n - 1
    BY <1>3, <2>1, <2>2 DEF OffsetOf
  <2>3. CASE m < n - 1
    <3>1. Ends[d][m] < Ends[d][n - 1]
      BY <1>1, <2>1, <2>3 DEF Places
    <3> QED
      BY <1>3, <2>1, <3>1 DEF OffsetOf
  <2> QED
    BY <2>1, <2>2, <2>3
<1> QED
  BY <1>2, <1>3, <1>4, <1>5

\* A fragment has a packet and a place, and payload.
LEMMA WireFields ==
    ASSUME NEW f \in Wire
    PROVE  /\ f.of \in Datagrams /\ f \in FragmentsOf(f.of)
           /\ \E n \in Places(f.of) : f = Fragment(f.of, n)
           /\ f.off \in Nat /\ f.len \in Nat \ {0}
           /\ Payload(f) \in Seq(Unit) /\ Len(Payload(f)) = f.len
           /\ \A u \in 1 .. f.len : Payload(f)[u] = <<f.of, f.off + u - 1>>
<1>0. PICK d \in Datagrams : f \in FragmentsOf(d)
  BY DEF Wire
<1>1. PICK n \in Places(d) : f = Fragment(d, n)
  BY <1>0 DEF FragmentsOf
<1>2. f.of = d /\ f.off = OffsetOf(d, n) /\ f.len = Ends[d][n] - OffsetOf(d, n)
  BY <1>1 DEF Fragment
<1>3. f.off \in Nat /\ f.len \in Nat \ {0}
  <2>1. /\ OffsetOf(d, n) \in Nat /\ Ends[d][n] \in Nat
        /\ OffsetOf(d, n) < Ends[d][n]
    BY Offsets
  <2> QED
    BY <1>2, <2>1
<1>4. \A u \in 1 .. f.len : f.off + u - 1 \in Nat
  BY <1>3
<1>5. Payload(f) = [u \in 1 .. f.len |-> <<f.of, f.off + u - 1>>]
  BY DEF Payload
<1>6. \A u \in 1 .. f.len : Payload(f)[u] = <<f.of, f.off + u - 1>> /\ Payload(f)[u] \in Unit
  BY <1>2, <1>4, <1>5 DEF Unit
<1>7. Payload(f) \in Seq(Unit) /\ Len(Payload(f)) = f.len
  <2>1. Payload(f) \in [1 .. f.len -> Unit]
    BY <1>5, <1>6
  <2> QED
    BY <1>3, <2>1
<1> QED
  BY <1>1, <1>2, <1>3, <1>6, <1>7 DEF FragmentsOf

-----------------------------------------------------------------------------
(***************************************************************************)
(* The loop.                                                                *)
(***************************************************************************)
\* A round's data: what was there before, and behind it a fragment's payload.
Appended(data, f, longer) ==
    /\ longer \in Seq(Unit) /\ Len(longer) = Len(data) + f.len
    /\ \A u \in 1 .. Len(data) : longer[u] = data[u]
    /\ \A u \in 1 .. f.len : longer[Len(data) + u] = Payload(f)[u]

LEMMA RoundAppends ==
    ASSUME NEW frags \in Seq(Wire), NEW data \in Seq(Unit), Fitting(frags, data) # {}
    PROVE  \E k \in 1 .. Len(frags) :
               frags[k].off = Len(data) /\ Appended(data, frags[k], Extended(frags, data))
<1> DEFINE k == First(Fitting(frags, data))
<1>1. k \in Fitting(frags, data)
  <2>1. Fitting(frags, data) \subseteq Nat
    BY DEF Fitting
  <2>2. PICK x \in Fitting(frags, data) : \A y \in Fitting(frags, data) : ~(y < x)
    BY <2>1, Least
  <2>3. \A y \in Fitting(frags, data) : x <= y
    BY <2>1, <2>2
  <2> QED
    BY <2>3 DEF First
<1>2. k \in 1 .. Len(frags) /\ frags[k].off = Len(data)
  BY <1>1 DEF Fitting, Fits
<1>3. frags[k] \in Wire
  BY <1>2
<1>4. Extended(frags, data) = data \o Payload(frags[k])
  BY DEF Extended
<1> HIDE DEF k
<1>5. /\ Payload(frags[k]) \in Seq(Unit) /\ Len(Payload(frags[k])) = frags[k].len
      /\ frags[k].len \in Nat
  BY <1>3, WireFields
<1>6. Appended(data, frags[k], Extended(frags, data))
  BY <1>4, <1>5 DEF Appended
<1> QED
  BY <1>2, <1>6

\* transp_pkt is what its recursion says.
Round(frags, g, n) ==
    [k \in 0 .. n |-> IF k = 0 THEN <<>> ELSE Extended(frags, g[k - 1])]

LEMMA RoundsExist ==
    ASSUME NEW frags, NEW n \in Nat
    PROVE  \E g : g = Round(frags, g, n)
<1> DEFINE T == {m \in 0 .. n : \E g : g = Round(frags, g, m)}
<1>1. 0 \in T
  <2> DEFINE g == [k \in 0 .. 0 |-> <<>>]
  <2>1. g = Round(frags, g, 0)
    BY DEF Round
  <2> QED
    BY <2>1
<1>2. ASSUME NEW m \in T, m < n PROVE m + 1 \in T
  <2>1. PICK g : g = Round(frags, g, m)
    OBVIOUS
  <2> DEFINE h == [k \in 0 .. m + 1 |-> IF k = 0 THEN <<>> ELSE Extended(frags, g[k - 1])]
  <2>2. m \in Nat
    OBVIOUS
  <2>3. ASSUME NEW k \in 0 .. m + 1, k # 0 PROVE h[k - 1] = g[k - 1]
    <3>1. k - 1 \in 0 .. m /\ k - 1 \in 0 .. m + 1
      BY <2>2, <2>3
    <3>2. h[k - 1] = IF k - 1 = 0 THEN <<>> ELSE Extended(frags, g[(k - 1) - 1])
      BY <3>1
    <3>3. Round(frags, g, m)[k - 1] =
            IF k - 1 = 0 THEN <<>> ELSE Extended(frags, g[(k - 1) - 1])
      BY <3>1 DEF Round
    <3> QED
      BY <2>1, <3>2, <3>3, Zenon
  <2>4. h = Round(frags, h, m + 1)
    <3>1. \A k \in 0 .. m + 1 : h[k] = IF k = 0 THEN <<>> ELSE Extended(frags, h[k - 1])
      BY <2>3, Zenon
    <3>2. h = [k \in 0 .. m + 1 |-> h[k]]
      OBVIOUS
    <3> HIDE DEF h
    <3>3. [k \in 0 .. m + 1 |-> h[k]] = Round(frags, h, m + 1)
      BY <3>1, Zenon DEF Round
    <3> QED
      BY <3>2, <3>3, Zenon
  <2>5. m + 1 \in 0 .. n
    BY <1>2
  <2> QED
    BY <2>4, <2>5
<1>3. T = 0 .. n
  <2>1. T \subseteq 0 .. n /\ \A k \in T : k < n => k + 1 \in T
    BY <1>2
  <2> HIDE DEF T
  <2> QED
    BY <1>1, <2>1, Inductive
<1> QED
  BY <1>3

LEMMA Rounds ==
    ASSUME NEW frags \in Seq(Wire)
    PROVE  /\ transp_pkt(frags)[0] = <<>>
           /\ \A k \in 1 .. Len(frags) :
                 transp_pkt(frags)[k] = Extended(frags, transp_pkt(frags)[k - 1])
<1> DEFINE n == Len(frags)
<1>1. n \in Nat
  OBVIOUS
<1>2. transp_pkt(frags) = CHOOSE g : g = Round(frags, g, n)
  BY Zenon DEF transp_pkt, Round
<1>3. transp_pkt(frags) = Round(frags, transp_pkt(frags), n)
  <2>1. \E g : g = Round(frags, g, n)
    BY <1>1, RoundsExist, Zenon
  <2> QED
    BY <1>2, <2>1, Zenon
<1>4. \A k \in 0 .. n : transp_pkt(frags)[k] =
         IF k = 0 THEN <<>> ELSE Extended(frags, transp_pkt(frags)[k - 1])
  BY <1>3, Zenon DEF Round
<1>5. 0 \in 0 .. n /\ \A k \in 1 .. n : k \in 0 .. n /\ k # 0
  BY <1>1
<1> HIDE DEF n
<1>6. transp_pkt(frags)[0] = <<>>
  BY <1>4, <1>5, Zenon
<1>7. \A k \in 1 .. n : transp_pkt(frags)[k] = Extended(frags, transp_pkt(frags)[k - 1])
  BY <1>4, <1>5, Zenon
<1> QED
  BY <1>6, <1>7 DEF n

-----------------------------------------------------------------------------
(***************************************************************************)
(* A loop that is through with all rounds has taken all fragments.          *)
(***************************************************************************)
\* The data of an earlier round are the beginning of those of a later one.
Begins(data, longer) ==
    Len(data) <= Len(longer) /\ \A u \in 1 .. Len(data) : longer[u] = data[u]

LEMMA AppendedBegins ==
    ASSUME NEW data \in Seq(Unit), NEW f \in Wire, NEW longer, Appended(data, f, longer)
    PROVE  longer \in Seq(Unit) /\ Begins(data, longer) /\ Len(data) < Len(longer)
<1>1. f.len \in Nat \ {0} /\ Len(data) \in Nat /\ Len(longer) = Len(data) + f.len
  BY WireFields DEF Appended
<1> QED
  BY <1>1 DEF Appended, Begins

\* A fragment is in data that begin with its place.
LEMMA InPlaceLonger ==
    ASSUME NEW data \in Seq(Unit), NEW longer \in Seq(Unit), NEW f \in Wire,
           InPlace(f, data), Begins(data, longer)
    PROVE  InPlace(f, longer)
<1>1. f.off \in Nat /\ f.len \in Nat
  BY WireFields
<1>2. f.off + f.len <= Len(data) /\ Len(data) <= Len(longer)
  BY DEF InPlace, Begins
<1>3. ASSUME NEW u \in 1 .. f.len PROVE longer[f.off + u] = Payload(f)[u]
  <2>1. f.off + u \in 1 .. Len(data)
    BY <1>1, <1>2
  <2> QED
    BY <2>1 DEF InPlace, Begins
<1> QED
  BY <1>1, <1>2, <1>3 DEF InPlace

\* Every unit belongs to a fragment that is there.
Covered(frags, data) ==
    \A u \in 1 .. Len(data) :
        \E k \in 1 .. Len(frags) : /\ InPlace(frags[k], data)
                                   /\ u \in frags[k].off + 1 .. frags[k].off + frags[k].len

LEMMA AppendedCovers ==
    ASSUME NEW frags \in Seq(Wire), NEW data \in Seq(Unit), Covered(frags, data),
           NEW k \in 1 .. Len(frags), frags[k].off = Len(data), NEW longer,
           Appended(data, frags[k], longer)
    PROVE  InPlace(frags[k], longer) /\ Covered(frags, longer)
<1>0. frags[k] \in Wire
  OBVIOUS
<1>1. longer \in Seq(Unit) /\ Begins(data, longer)
  BY <1>0, AppendedBegins
<1>2. /\ frags[k].len \in Nat /\ Len(data) \in Nat
      /\ Len(longer) = Len(data) + frags[k].len
  BY <1>0, WireFields DEF Appended
<1>3. InPlace(frags[k], longer)
  BY <1>2 DEF InPlace, Appended
<1>4. ASSUME NEW u \in 1 .. Len(longer)
      PROVE  \E j \in 1 .. Len(frags) :
                 /\ InPlace(frags[j], longer)
                 /\ u \in frags[j].off + 1 .. frags[j].off + frags[j].len
  <2>1. CASE u \in 1 .. Len(data)
    <3>1. PICK j \in 1 .. Len(frags) :
              /\ InPlace(frags[j], data)
              /\ u \in frags[j].off + 1 .. frags[j].off + frags[j].len
      BY <2>1 DEF Covered
    <3>2. InPlace(frags[j], longer)
      BY <1>1, <3>1, InPlaceLonger
    <3> QED
      BY <3>1, <3>2
  <2>2. CASE u \notin 1 .. Len(data)
    <3>1. u \in frags[k].off + 1 .. frags[k].off + frags[k].len
      BY <1>2, <2>2
    <3> QED
      BY <1>3, <3>1
  <2> QED
    BY <2>1, <2>2
<1> QED
  BY <1>3, <1>4 DEF Covered

\* A round that found one.
RoundTakes(frags, k, j) ==
    /\ frags[j].off = Len(transp_pkt(frags)[k - 1])
    /\ Appended(transp_pkt(frags)[k - 1], frags[j], transp_pkt(frags)[k])

LEMMA RoundsData ==
    ASSUME NEW frags \in Seq(Wire), AllSeen(frags)
    PROVE  /\ \A k \in 0 .. Len(frags) : /\ transp_pkt(frags)[k] \in Seq(Unit)
                                         /\ Covered(frags, transp_pkt(frags)[k])
           /\ \A k \in 1 .. Len(frags) : \E j \in 1 .. Len(frags) : RoundTakes(frags, k, j)
<1> DEFINE n == Len(frags)
           t == transp_pkt(frags)
           T == {k \in 0 .. n : t[k] \in Seq(Unit) /\ Covered(frags, t[k])}
<1>0. n \in Nat
  OBVIOUS
<1>1. 0 \in T
  <2>1. t[0] = <<>>
    BY Rounds
  <2>2. t[0] \in Seq(Unit) /\ Covered(frags, t[0])
    BY <2>1 DEF Covered
  <2> QED
    BY <2>2
<1>2. ASSUME NEW k \in 1 .. n, t[k - 1] \in Seq(Unit)
      PROVE  \E j \in 1 .. n : RoundTakes(frags, k, j)
  <2>1. Fitting(frags, t[k - 1]) # {}
    BY DEF AllSeen
  <2>2. t[k] = Extended(frags, t[k - 1])
    BY Rounds
  <2>3. \E j \in 1 .. Len(frags) : /\ frags[j].off = Len(t[k - 1])
                                   /\ Appended(t[k - 1], frags[j], Extended(frags, t[k - 1]))
    BY <1>2, <2>1, RoundAppends
  <2> QED
    BY <2>2, <2>3 DEF RoundTakes
<1>3. ASSUME NEW k \in T, k < n PROVE k + 1 \in T
  <2>1. k + 1 \in 1 .. n /\ (k + 1) - 1 = k /\ k + 1 \in 0 .. n
    BY <1>0, <1>3
  <2>2. t[k] \in Seq(Unit) /\ Covered(frags, t[k])
    OBVIOUS
  <2>3. PICK j \in 1 .. n : RoundTakes(frags, k + 1, j)
    BY <1>2, <2>1, <2>2
  <2>4. frags[j].off = Len(t[k]) /\ Appended(t[k], frags[j], t[k + 1])
    BY <2>1, <2>3 DEF RoundTakes
  <2>5. t[k + 1] \in Seq(Unit)
    BY <2>4 DEF Appended
  <2>6. Covered(frags, t[k + 1])
    BY <2>2, <2>4, AppendedCovers
  <2> QED
    BY <2>1, <2>5, <2>6
<1>4. T = 0 .. n
  <2>1. T \subseteq 0 .. n
    OBVIOUS
  <2> HIDE DEF T
  <2> QED
    BY <1>0, <1>1, <1>3, <2>1, Inductive
<1>5. \A k \in 1 .. n : k - 1 \in 0 .. n
  BY <1>0
<1> QED
  BY <1>2, <1>4, <1>5

\* The data of the rounds grow.
LEMMA RoundsGrow ==
    ASSUME NEW frags \in Seq(Wire), AllSeen(frags),
           NEW k \in 0 .. Len(frags), NEW m \in 0 .. Len(frags), k <= m
    PROVE  /\ Begins(transp_pkt(frags)[k], transp_pkt(frags)[m])
           /\ k < m => Len(transp_pkt(frags)[k]) < Len(transp_pkt(frags)[m])
<1> DEFINE n == Len(frags)
           t == transp_pkt(frags)
           Grown(i) == Begins(t[k], t[k + i]) /\ Len(t[k]) + i <= Len(t[k + i])
           T == {i \in 0 .. n - k : Grown(i)}
<1>0. n \in Nat /\ n - k \in Nat /\ k \in Nat
  OBVIOUS
<1>1. \A i \in 0 .. n : t[i] \in Seq(Unit) /\ Len(t[i]) \in Nat
  BY RoundsData
<1>2. 0 \in T
  <2>1. k + 0 = k /\ Len(t[k]) + 0 <= Len(t[k])
    BY <1>0, <1>1
  <2>2. Grown(0)
    BY <2>1, <1>1 DEF Begins
  <2> QED
    BY <2>2, <1>0
<1>3. ASSUME NEW i \in T, i < n - k PROVE i + 1 \in T
  <2>1. /\ k + i \in 0 .. n /\ k + (i + 1) \in 1 .. n /\ (k + (i + 1)) - 1 = k + i
        /\ i \in Nat /\ i + 1 \in 0 .. n - k /\ k + (i + 1) \in 0 .. n
    BY <1>0, <1>3
  <2>2. PICK j \in 1 .. n : RoundTakes(frags, k + (i + 1), j)
    BY <2>1, RoundsData
  <2>3. Appended(t[k + i], frags[j], t[k + (i + 1)])
    BY <2>1, <2>2 DEF RoundTakes
  <2>4. Begins(t[k + i], t[k + (i + 1)]) /\ Len(t[k + i]) < Len(t[k + (i + 1)])
    <3>1. frags[j] \in Wire /\ t[k + i] \in Seq(Unit)
      BY <1>1, <2>1
    <3> QED
      BY <2>3, <3>1, AppendedBegins
  <2>5. Begins(t[k], t[k + i]) /\ Len(t[k]) + i <= Len(t[k + i])
    OBVIOUS
  <2>6. Len(t[k]) \in Nat /\ Len(t[k + i]) \in Nat /\ Len(t[k + (i + 1)]) \in Nat
    BY <1>1, <2>1
  <2>7. Begins(t[k], t[k + (i + 1)])
    BY <2>4, <2>5, <2>6 DEF Begins
  <2>8. Len(t[k]) + (i + 1) <= Len(t[k + (i + 1)])
    <3>1. \A x, y, z, w \in Nat : x + w <= y /\ y < z => x + (w + 1) <= z
      OBVIOUS
    <3> QED
      BY <3>1, <2>1, <2>4, <2>5, <2>6, Zenon
  <2> QED
    BY <2>1, <2>7, <2>8
<1>4. T = 0 .. n - k
  <2>1. T \subseteq 0 .. n - k
    OBVIOUS
  <2> HIDE DEF T
  <2> QED
    BY <1>0, <1>2, <1>3, <2>1, Inductive
<1>5. m - k \in 0 .. n - k /\ k + (m - k) = m
  BY <1>0
<1>6. Grown(m - k)
  BY <1>4, <1>5
<1>7. Begins(t[k], t[m]) /\ Len(t[k]) + (m - k) <= Len(t[m])
  BY <1>5, <1>6
<1>8. Len(t[k]) \in Nat /\ Len(t[m]) \in Nat
  BY <1>1
<1> QED
  BY <1>7, <1>8

\* All fragments are in their places in what the last round leaves, and nothing else.
LEMMA AllTaken ==
    ASSUME NEW frags \in Seq(Wire), AllSeen(frags)
    PROVE  LET data == transp_pkt(frags)[Len(frags)]
           IN  /\ data \in Seq(Unit) /\ Covered(frags, data)
               /\ \A j \in 1 .. Len(frags) : InPlace(frags[j], data)
<1> DEFINE n == Len(frags)
           t == transp_pkt(frags)
           c == [k \in 1 .. n |-> CHOOSE j \in 1 .. n : RoundTakes(frags, k, j)]
<1>0. n \in Nat /\ n \in 0 .. n /\ \A k \in 1 .. n : k \in 0 .. n /\ k - 1 \in 0 .. n
  OBVIOUS
<1>1. ASSUME NEW k \in 1 .. n PROVE c[k] \in 1 .. n /\ RoundTakes(frags, k, c[k])
  <2>1. \E j \in 1 .. n : RoundTakes(frags, k, j)
    BY RoundsData
  <2> QED
    BY <2>1
<1> HIDE DEF c
<1>2. c \in Injection(1 .. n, 1 .. n)
  <2>1. c \in [1 .. n -> 1 .. n]
    BY <1>1 DEF c
  <2>2. ASSUME NEW k \in 1 .. n, NEW m \in 1 .. n, c[k] = c[m], k < m PROVE FALSE
    <3>1. Len(t[k - 1]) = Len(t[m - 1])
      BY <1>1, <2>2 DEF RoundTakes
    <3>2. k - 1 \in 0 .. n /\ m - 1 \in 0 .. n /\ k - 1 < m - 1 /\ k - 1 <= m - 1
      BY <1>0, <2>2
    <3>3. Len(t[k - 1]) < Len(t[m - 1])
      BY <3>2, RoundsGrow
    <3>4. Len(t[k - 1]) \in Nat
      BY <3>2, RoundsData
    <3> QED
      BY <3>1, <3>3, <3>4
  <2>3. \A k, m \in 1 .. n : c[k] = c[m] => k = m
    <3>1. \A k, m \in 1 .. n : k = m \/ k < m \/ m < k
      BY <1>0
    <3> QED
      BY <2>2, <3>1
  <2> QED
    BY <2>1, <2>3 DEF Injection, IsInjective
<1>3. c \in Surjection(1 .. n, 1 .. n)
  <2>1. IsFiniteSet(1 .. n)
    BY <1>0, FS_Interval
  <2> QED
    BY <1>2, <2>1, FS_Injection
<1>4. ASSUME NEW j \in 1 .. n PROVE InPlace(frags[j], t[n])
  <2>1. PICK k \in 1 .. n : c[k] = j
    BY <1>3 DEF Surjection
  <2>2. frags[j].off = Len(t[k - 1]) /\ Appended(t[k - 1], frags[j], t[k])
    BY <1>1, <2>1 DEF RoundTakes
  <2>3. k \in 0 .. n /\ k - 1 \in 0 .. n /\ k <= n
    BY <1>0
  <2>4. t[k - 1] \in Seq(Unit) /\ Covered(frags, t[k - 1]) /\ t[k] \in Seq(Unit)
        /\ t[n] \in Seq(Unit)
    BY <1>0, <2>3, RoundsData
  <2>5. InPlace(frags[j], t[k])
    BY <2>2, <2>4, AppendedCovers
  <2>6. Begins(t[k], t[n])
    BY <1>0, <2>3, RoundsGrow
  <2>7. frags[j] \in Wire
    OBVIOUS
  <2> QED
    BY <2>4, <2>5, <2>6, <2>7, InPlaceLonger
<1> QED
  BY <1>0, <1>4, RoundsData

-----------------------------------------------------------------------------
(***************************************************************************)
(* What is handed over.                                                     *)
(***************************************************************************)
Delivery == [data : Seq(Unit), ip : Datagrams]

TypeInv ==
    /\ fragmap \in [Range(IdOf) -> Seq(Wire)]
    /\ delivered \in Seq(Delivery)
    /\ copies \in [Wire -> Nat]

\* The fragments under an arrival's Id, and it.
With(f) == Append(fragmap[IdOf[f.of]], f)
Through(frags) == AllSeen(frags) /\ LastSeen(frags)

\* The three things an arrival may do.
Passes(f) ==
    /\ ~f.more /\ f.off = 0 /\ UNCHANGED fragmap
    /\ delivered' = Append(delivered, [data |-> Payload(f), ip |-> f.of])
Keeps(f) ==
    /\ f.more \/ f.off # 0
    /\ ~Through(With(f)) /\ UNCHANGED delivered
    /\ fragmap' = [fragmap EXCEPT ![IdOf[f.of]] = With(f)]
Assembles(f) ==
    /\ f.more \/ f.off # 0
    /\ Through(With(f)) /\ fragmap' = [fragmap EXCEPT ![IdOf[f.of]] = <<>>]
    /\ delivered' = Append(delivered, [data |-> transp_pkt(With(f))[Len(With(f))],
                                       ip |-> f.of])

LEMMA Arrives ==
    ASSUME NEW f, Process_pkt(f)
    PROVE  /\ copies' = [copies EXCEPT ![f] = @ + 1]
           /\ Passes(f) \/ Keeps(f) \/ Assembles(f)
BY Zenon DEF Process_pkt, Process_fragment, Process_whole, Handle_pkt, Passes, Keeps, Assembles,
             With, Through

LEMMA ArrivalTyped ==
    ASSUME TypeInv, NEW f \in Wire
    PROVE  /\ IdOf[f.of] \in Range(IdOf) /\ With(f) \in Seq(Wire)
           /\ Len(With(f)) = Len(fragmap[IdOf[f.of]]) + 1
           /\ \A k \in 1 .. Len(fragmap[IdOf[f.of]]) : With(f)[k] = fragmap[IdOf[f.of]][k]
           /\ With(f)[Len(With(f))] = f
<1>1. f.of \in Datagrams
  BY WireFields
<1>2. IdOf[f.of] \in Range(IdOf)
  BY <1>1, ShapeAssumption DEF Range
<1>3. fragmap[IdOf[f.of]] \in Seq(Wire)
  BY <1>2 DEF TypeInv
<1> QED
  BY <1>2, <1>3 DEF With

\* What an arrival hands over, if anything.
WellPlaced(delivery) ==
    LET data == delivery.data
    IN  /\ \A u \in 1 .. Len(data) :
              \E f \in Wire : InPlace(f, data) /\ u \in f.off + 1 .. f.off + f.len
        /\ \E f \in Wire : InPlace(f, data) /\ ~f.more
        /\ \E f \in FragmentsOf(delivery.ip) : InPlace(f, data)

LEMMA HandedOver ==
    ASSUME TypeInv, NEW f \in Wire, Passes(f) \/ Keeps(f) \/ Assembles(f)
    PROVE  \/ UNCHANGED delivered
           \/ \E delivery \in Delivery :
                 /\ delivered' = Append(delivered, delivery)
                 /\ WellPlaced(delivery) /\ delivery.ip = f.of
<1>0. f.of \in Datagrams /\ f \in FragmentsOf(f.of) /\ f.off \in Nat /\ f.len \in Nat \ {0}
  BY WireFields
<1>1. CASE Passes(f)
  <2> DEFINE data == Payload(f)
             delivery == [data |-> data, ip |-> f.of]
  <2>1. data \in Seq(Unit) /\ Len(data) = f.len
    BY WireFields
  <2>2. f.off = 0 /\ ~f.more /\ delivered' = Append(delivered, delivery)
    BY <1>1 DEF Passes
  <2>3. InPlace(f, data)
    BY <1>0, <2>1, <2>2 DEF InPlace
  <2>4. \A u \in 1 .. Len(data) : u \in f.off + 1 .. f.off + f.len
    BY <1>0, <2>1, <2>2
  <2>5. delivery \in Delivery /\ delivery.ip = f.of /\ delivery.data = data
    BY <1>0, <2>1 DEF Delivery
  <2> HIDE DEF delivery, data
  <2>6. WellPlaced(delivery)
    BY <1>0, <2>2, <2>3, <2>4, <2>5 DEF WellPlaced
  <2> QED
    BY <2>2, <2>5, <2>6
<1>2. CASE Assembles(f)
  <2> DEFINE frags == With(f)
             data == transp_pkt(frags)[Len(frags)]
             delivery == [data |-> data, ip |-> f.of]
  <2>1. /\ frags \in Seq(Wire) /\ frags[Len(frags)] = f
        /\ Len(frags) \in 1 .. Len(frags)
    <3>1. fragmap[IdOf[f.of]] \in Seq(Wire)
      BY ArrivalTyped DEF TypeInv
    <3>2. Len(fragmap[IdOf[f.of]]) \in Nat
      BY <3>1
    <3> QED
      BY <3>2, ArrivalTyped
  <2>2. AllSeen(frags) /\ LastSeen(frags) /\ delivered' = Append(delivered, delivery)
    BY <1>2 DEF Assembles, Through
  <2>3. /\ data \in Seq(Unit) /\ Covered(frags, data)
        /\ \A j \in 1 .. Len(frags) : InPlace(frags[j], data)
    BY <2>1, <2>2, AllTaken
  <2>4. delivery \in Delivery /\ delivery.ip = f.of /\ delivery.data = data
    BY <1>0, <2>3 DEF Delivery
  <2>5. InPlace(f, data)
    BY <2>1, <2>3
  <2>6. \E g \in Wire : InPlace(g, data) /\ ~g.more
    <3>1. PICK k \in 1 .. Len(frags) : ~frags[k].more
      BY <2>2 DEF LastSeen
    <3> QED
      BY <2>1, <2>3, <3>1
  <2>7. \A u \in 1 .. Len(data) :
          \E g \in Wire : InPlace(g, data) /\ u \in g.off + 1 .. g.off + g.len
    BY <2>1, <2>3 DEF Covered
  <2> HIDE DEF delivery, data
  <2>8. WellPlaced(delivery)
    BY <1>0, <2>4, <2>5, <2>6, <2>7 DEF WellPlaced
  <2> QED
    BY <2>2, <2>4, <2>8
<1>3. CASE Keeps(f)
  BY <1>3 DEF Keeps
<1> QED
  BY <1>1, <1>2, <1>3

LEMMA TypeInitially == Init => TypeInv
<1> SUFFICES ASSUME Init PROVE TypeInv
  OBVIOUS
<1>1. <<>> \in Seq(Wire) /\ <<>> \in Seq(Delivery)
  OBVIOUS
<1> QED
  BY <1>1 DEF Init, TypeInv

LEMMA TypeStep == TypeInv /\ [Next]_vars => TypeInv'
<1> SUFFICES ASSUME TypeInv, [Next]_vars PROVE TypeInv'
  OBVIOUS
<1>1. CASE UNCHANGED vars
  BY <1>1 DEF vars, TypeInv
<1>2. CASE Next
  <2>1. PICK f \in Wire : Process_pkt(f)
    BY <1>2 DEF Next
  <2>2. Passes(f) \/ Keeps(f) \/ Assembles(f)
    BY <2>1, Arrives
  <2>3. copies' \in [Wire -> Nat]
    BY <2>1, Arrives DEF TypeInv
  <2>4. delivered' \in Seq(Delivery)
    <3>1. \/ UNCHANGED delivered
          \/ \E delivery \in Delivery : delivered' = Append(delivered, delivery)
      BY <2>2, HandedOver
    <3> QED
      BY <3>1 DEF TypeInv
  <2>5. fragmap' \in [Range(IdOf) -> Seq(Wire)]
    <3>1. With(f) \in Seq(Wire) /\ <<>> \in Seq(Wire)
      BY ArrivalTyped
    <3>2. fragmap \in [Range(IdOf) -> Seq(Wire)]
      BY DEF TypeInv
    <3>3. \/ fragmap' = fragmap \/ fragmap' = [fragmap EXCEPT ![IdOf[f.of]] = With(f)]
          \/ fragmap' = [fragmap EXCEPT ![IdOf[f.of]] = <<>>]
      BY <2>2 DEF Passes, Keeps, Assembles
    <3> QED
      BY <3>1, <3>2, <3>3
  <2> QED
    BY <2>3, <2>4, <2>5 DEF TypeInv
<1> QED
  BY <1>1, <1>2

LEMMA PlacedIs ==
    UnitsInPlace <=> \A k \in 1 .. Len(delivered) : WellPlaced(delivered[k])
BY Zenon DEF UnitsInPlace, WellPlaced

LEMMA PlacedStep == TypeInv /\ UnitsInPlace /\ [Next]_vars => UnitsInPlace'
<1> SUFFICES ASSUME TypeInv, UnitsInPlace, [Next]_vars PROVE UnitsInPlace'
  OBVIOUS
<1>1. CASE UNCHANGED vars
  BY <1>1 DEF vars, UnitsInPlace
<1>2. CASE Next
  <2>1. PICK f \in Wire : Process_pkt(f)
    BY <1>2 DEF Next
  <2>2. \/ UNCHANGED delivered
        \/ \E delivery \in Delivery :
              delivered' = Append(delivered, delivery) /\ WellPlaced(delivery)
    BY <2>1, Arrives, HandedOver
  <2>3. \A k \in 1 .. Len(delivered') : WellPlaced(delivered'[k])
    <3>1. \A k \in 1 .. Len(delivered) : WellPlaced(delivered[k])
      BY PlacedIs
    <3>2. delivered \in Seq(Delivery)
      BY DEF TypeInv
    <3>3. ASSUME NEW delivery \in Delivery, delivered' = Append(delivered, delivery),
                 WellPlaced(delivery)
          PROVE  \A k \in 1 .. Len(delivered') : WellPlaced(delivered'[k])
      <4>1. /\ Len(delivered) \in Nat /\ Len(delivered') = Len(delivered) + 1
            /\ delivered'[Len(delivered) + 1] = delivery
            /\ \A k \in 1 .. Len(delivered) : delivered'[k] = delivered[k]
        BY <3>2, <3>3
      <4>2. \A k \in 1 .. Len(delivered') : k \in 1 .. Len(delivered) \/ k = Len(delivered) + 1
        BY <4>1
      <4> QED
        BY <3>1, <3>3, <4>1, <4>2
    <3> QED
      BY <2>2, <3>1, <3>3
  <2> QED
    BY <2>3 DEF UnitsInPlace, WellPlaced
<1> QED
  BY <1>1, <1>2

\* base.go:176-193.  However fragments of several packets with one Id mix, are repeated
\* or missing: what is handed over consists of whole fragments, each in its place, and has
\* a last one among them and one of the packet whose header goes with it.
THEOREM PlacesKept == Spec => []UnitsInPlace
<1>1. Init => TypeInv /\ UnitsInPlace
  BY TypeInitially DEF Init, UnitsInPlace
<1>2. TypeInv /\ UnitsInPlace /\ [Next]_vars => (TypeInv /\ UnitsInPlace)'
  BY TypeStep, PlacedStep
<1> QED
  BY <1>1, <1>2, PTL DEF Spec

-----------------------------------------------------------------------------
(***************************************************************************)
(* The fragments of one packet alone.                                       *)
(***************************************************************************)
LEMMA FragmentIs ==
    ASSUME NEW d \in Datagrams, NEW n \in Places(d)
    PROVE  LET f == Fragment(d, n)
           IN  /\ f \in Wire /\ f \in FragmentsOf(d) /\ f.of = d
               /\ f.off = OffsetOf(d, n) /\ f.off + f.len = Ends[d][n]
               /\ f.more <=> n # Len(Ends[d])
<1>1. OffsetOf(d, n) \in Nat /\ Ends[d][n] \in Nat /\ Len(Ends[d]) \in Nat
  BY Offsets
<1>2. n \in Nat /\ n <= Len(Ends[d])
  BY <1>1 DEF Places
<1> DEFINE f == Fragment(d, n)
<1>3. f \in FragmentsOf(d) /\ f \in Wire
  BY DEF FragmentsOf, Wire
<1>4. f = [of |-> d, off |-> OffsetOf(d, n), len |-> Ends[d][n] - OffsetOf(d, n),
           more |-> n < Len(Ends[d])]
  BY DEF Fragment
<1> HIDE DEF f
<1>5. /\ f.of = d /\ f.off = OffsetOf(d, n) /\ f.len = Ends[d][n] - OffsetOf(d, n)
      /\ f.more <=> n < Len(Ends[d])
  BY <1>4
<1>6. n < Len(Ends[d]) <=> n # Len(Ends[d])
  BY <1>1, <1>2
<1>7. f.off + f.len = Ends[d][n]
  BY <1>1, <1>5
<1> QED
  BY <1>3, <1>5, <1>6, <1>7 DEF f

\* A unit is in one fragment.
LEMMA OnePlace ==
    ASSUME NEW d \in Datagrams, NEW m \in Places(d), NEW n \in Places(d), NEW u \in Nat,
           OffsetOf(d, m) < u, u <= Ends[d][m], OffsetOf(d, n) < u, u <= Ends[d][n]
    PROVE  m = n
<1>1. /\ OffsetOf(d, m) \in Nat /\ OffsetOf(d, n) \in Nat
      /\ Ends[d][m] \in Nat /\ Ends[d][n] \in Nat
  BY Offsets
<1>2. m < n => Ends[d][m] <= OffsetOf(d, n)
  BY Offsets
<1>3. n < m => Ends[d][n] <= OffsetOf(d, m)
  BY Offsets
<1>4. m = n \/ m < n \/ n < m
  BY Offsets DEF Places
<1> QED
  BY <1>1, <1>2, <1>3, <1>4

\* Fragments differ in their offsets.
LEMMA OneOffset ==
    ASSUME NEW d \in Datagrams, NEW m \in Places(d), NEW n \in Places(d),
           OffsetOf(d, m) = OffsetOf(d, n)
    PROVE  m = n
<1>1. /\ OffsetOf(d, m) \in Nat /\ OffsetOf(d, m) < Ends[d][m] /\ Ends[d][m] \in Nat
      /\ OffsetOf(d, n) < Ends[d][n] /\ Ends[d][n] \in Nat
  BY Offsets
<1>2. OffsetOf(d, m) + 1 \in Nat
  BY <1>1
<1>3. OffsetOf(d, m) + 1 <= Ends[d][m] /\ OffsetOf(d, m) + 1 <= Ends[d][n]
      /\ OffsetOf(d, m) < OffsetOf(d, m) + 1
  BY <1>1
<1> QED
  BY <1>2, <1>3, OnePlace

\* A loop that is through with fragments of one packet, the last one among them, has all
\* of it.
LEMMA Completed ==
    ASSUME NEW d \in Datagrams, NEW frags \in Seq(Wire),
           \A j \in 1 .. Len(frags) : frags[j] \in FragmentsOf(d), Through(frags)
    PROVE  /\ transp_pkt(frags)[Len(frags)] = Data(d)
           /\ FragmentsOf(d) \subseteq Range(frags)
<1> DEFINE data == transp_pkt(frags)[Len(frags)]
           N == Len(Ends[d])
<1>1. /\ data \in Seq(Unit) /\ Covered(frags, data)
      /\ \A j \in 1 .. Len(frags) : InPlace(frags[j], data)
  BY AllTaken DEF Through
<1>2. N \in Places(d) /\ N \in Nat \ {0} /\ Ends[d][N] \in Nat
  <2>1. N \in Nat \ {0}
    BY Offsets
  <2>2. N \in Places(d)
    BY <2>1 DEF Places
  <2> QED
    BY <2>1, <2>2, Offsets
<1> HIDE DEF data
<1>3. ASSUME NEW j \in 1 .. Len(frags)
      PROVE  \E n \in Places(d) : /\ frags[j] = Fragment(d, n)
                                  /\ frags[j].off = OffsetOf(d, n)
                                  /\ frags[j].off + frags[j].len = Ends[d][n]
                                  /\ frags[j].more <=> n # N
  <2>1. PICK n \in Places(d) : frags[j] = Fragment(d, n)
    BY DEF FragmentsOf
  <2> QED
    BY <2>1, FragmentIs
<1>4. Ends[d][N] <= Len(data)
  <2>1. PICK j \in 1 .. Len(frags) : ~frags[j].more
    BY DEF Through, LastSeen
  <2>2. frags[j].off + frags[j].len = Ends[d][N]
    BY <1>3, <2>1
  <2> QED
    BY <1>1, <2>2 DEF InPlace
<1>5. ASSUME NEW u \in 1 .. Len(data)
      PROVE  /\ u <= Ends[d][N] /\ data[u] = <<d, u - 1>>
             /\ \E n \in Places(d) : /\ Fragment(d, n) \in Range(frags)
                                     /\ OffsetOf(d, n) < u /\ u <= Ends[d][n]
  <2>1. PICK j \in 1 .. Len(frags) :
            InPlace(frags[j], data) /\ u \in frags[j].off + 1 .. frags[j].off + frags[j].len
    BY <1>1 DEF Covered
  <2>2. PICK n \in Places(d) : /\ frags[j] = Fragment(d, n)
                               /\ frags[j].off = OffsetOf(d, n)
                               /\ frags[j].off + frags[j].len = Ends[d][n]
    BY <1>3
  <2>3. /\ frags[j].of = d /\ frags[j].off \in Nat /\ frags[j].len \in Nat
        /\ \A v \in 1 .. frags[j].len : Payload(frags[j])[v] = <<d, frags[j].off + v - 1>>
    <3>1. frags[j].of = d /\ frags[j] \in Wire
      BY <2>2, FragmentIs
    <3> QED
      BY <3>1, WireFields
  <2>4. /\ u \in Nat /\ u - frags[j].off \in 1 .. frags[j].len
        /\ frags[j].off + (u - frags[j].off) = u
    BY <2>1, <2>3
  <2>5. data[u] = <<d, u - 1>>
    <3>1. data[frags[j].off + (u - frags[j].off)] = Payload(frags[j])[u - frags[j].off]
      BY <2>1, <2>4 DEF InPlace
    <3>2. Payload(frags[j])[u - frags[j].off] = <<d, frags[j].off + (u - frags[j].off) - 1>>
      BY <2>3, <2>4
    <3>3. frags[j].off + (u - frags[j].off) - 1 = u - 1
      BY <2>3, <2>4
    <3> QED
      BY <2>4, <3>1, <3>2, <3>3, Zenon
  <2>6. OffsetOf(d, n) < u /\ u <= Ends[d][n]
    BY <2>1, <2>2, <2>3
  <2>7. u <= Ends[d][N]
    <3>1. n = N \/ n < N
      BY <1>2 DEF Places
    <3>2. n < N => Ends[d][n] <= OffsetOf(d, N)
      BY <1>2, Offsets
    <3>3. OffsetOf(d, N) \in Nat /\ OffsetOf(d, N) < Ends[d][N] /\ Ends[d][n] \in Nat
      BY <1>2, Offsets
    <3> QED
      BY <1>2, <2>4, <2>6, <3>1, <3>2, <3>3
  <2>8. Fragment(d, n) \in Range(frags)
    BY <2>2 DEF Range
  <2> QED
    BY <2>5, <2>6, <2>7, <2>8
<1>6. Len(data) = Ends[d][N]
  <2>1. Len(data) \in Nat
    BY <1>1
  <2>2. Len(data) # 0 => Len(data) \in 1 .. Len(data)
    BY <2>1
  <2> QED
    BY <1>2, <1>4, <1>5, <2>1, <2>2
<1>7. data = Data(d)
  <2>1. data = [u \in 1 .. Len(data) |-> data[u]]
    BY <1>1
  <2>2. \A u \in 1 .. Ends[d][N] : data[u] = <<d, u - 1>>
    BY <1>5, <1>6
  <2> QED
    BY <1>6, <2>1, <2>2 DEF Data
<1>8. ASSUME NEW m \in Places(d) PROVE Fragment(d, m) \in Range(frags)
  <2> DEFINE u == OffsetOf(d, m) + 1
  <2>1. /\ OffsetOf(d, m) \in Nat /\ Ends[d][m] \in Nat /\ OffsetOf(d, m) < Ends[d][m]
    BY Offsets
  <2>2. Ends[d][m] <= Ends[d][N]
    <3>1. m = N \/ m < N
      BY <1>2 DEF Places
    <3>2. m < N => Ends[d][m] <= OffsetOf(d, N)
      BY <1>2, Offsets
    <3>3. OffsetOf(d, N) \in Nat /\ OffsetOf(d, N) < Ends[d][N]
      BY <1>2, Offsets
    <3> QED
      BY <1>2, <2>1, <3>1, <3>2, <3>3
  <2>3. u \in 1 .. Len(data) /\ u \in Nat /\ OffsetOf(d, m) < u /\ u <= Ends[d][m]
    BY <1>2, <1>6, <2>1, <2>2
  <2> HIDE DEF u
  <2>4. PICK n \in Places(d) : /\ Fragment(d, n) \in Range(frags)
                               /\ OffsetOf(d, n) < u /\ u <= Ends[d][n]
    BY <1>5, <2>3
  <2>5. m = n
    BY <2>3, <2>4, OnePlace
  <2> QED
    BY <2>4, <2>5
<1> QED
  BY <1>7, <1>8 DEF FragmentsOf, data

\* A packet has so many fragments.
LEMMA HowMany ==
    ASSUME NEW d \in Datagrams, NEW frags \in Seq(Wire), IsInjective(frags),
           Range(frags) = FragmentsOf(d)
    PROVE  Len(frags) = Len(Ends[d])
<1> DEFINE n == Len(frags)
           N == Len(Ends[d])
           b == [m \in 1 .. N |-> Fragment(d, m)]
<1>1. n \in Nat /\ N \in Nat
  BY Offsets
<1>2. ExistsBijection(1 .. n, FragmentsOf(d))
  <2>1. frags \in [1 .. n -> FragmentsOf(d)]
    <3>1. frags = [k \in 1 .. n |-> frags[k]] /\ DOMAIN frags = 1 .. n
      OBVIOUS
    <3>2. \A k \in 1 .. n : frags[k] \in FragmentsOf(d)
      BY <3>1 DEF Range
    <3> QED
      BY <3>1, <3>2
  <2>2. \A f \in FragmentsOf(d) : \E k \in 1 .. n : frags[k] = f
    BY <2>1 DEF Range
  <2>3. frags \in Bijection(1 .. n, FragmentsOf(d))
    BY <2>1, <2>2 DEF Bijection, Injection, Surjection
  <2> QED
    BY <2>3 DEF ExistsBijection
<1>3. ExistsBijection(1 .. N, FragmentsOf(d))
  <2>1. b \in [1 .. N -> FragmentsOf(d)]
    BY DEF FragmentsOf, Places
  <2>2. \A k, m \in 1 .. N : b[k] = b[m] => k = m
    <3>1. ASSUME NEW k \in 1 .. N, NEW m \in 1 .. N, b[k] = b[m] PROVE k = m
      <4>1. Fragment(d, k).off = Fragment(d, m).off /\ k \in Places(d) /\ m \in Places(d)
        BY <3>1 DEF Places
      <4>2. OffsetOf(d, k) = OffsetOf(d, m)
        BY <4>1, FragmentIs
      <4> QED
        BY <4>1, <4>2, OneOffset
    <3> QED
      BY <3>1
  <2>3. \A f \in FragmentsOf(d) : \E m \in 1 .. N : b[m] = f
    BY DEF FragmentsOf, Places
  <2> HIDE DEF b
  <2>4. b \in Bijection(1 .. N, FragmentsOf(d))
    BY <2>1, <2>2, <2>3 DEF Bijection, Injection, Surjection, IsInjective
  <2> QED
    BY <2>4 DEF ExistsBijection
<1> QED
  BY <1>1, <1>2, <1>3, FS_CountingElements

\* A loop over all fragments of a packet, each once, is through with all.
LEMMA Completes ==
    ASSUME NEW d \in Datagrams, Len(Ends[d]) # 1, NEW frags \in Seq(Wire),
           IsInjective(frags), Range(frags) = FragmentsOf(d)
    PROVE  Through(frags)
<1> DEFINE N == Len(Ends[d])
           t == transp_pkt(frags)
           End(k) == IF k = 0 THEN 0 ELSE Ends[d][k]
           T == {k \in 0 .. N : t[k] \in Seq(Unit) /\ Len(t[k]) = End(k)}
<1>1. Len(frags) = N /\ N \in Nat \ {0}
  BY HowMany, Offsets
<1>2. ASSUME NEW m \in Places(d) PROVE \E j \in 1 .. N : frags[j] = Fragment(d, m)
  <2>1. Fragment(d, m) \in Range(frags)
    BY DEF FragmentsOf
  <2>2. DOMAIN frags = 1 .. N
    BY <1>1
  <2> QED
    BY <2>1, <2>2 DEF Range
<1>3. ASSUME NEW j \in 1 .. N PROVE \E m \in Places(d) : frags[j] = Fragment(d, m)
  <2>1. DOMAIN frags = 1 .. N
    BY <1>1
  <2>2. frags[j] \in FragmentsOf(d)
    BY <2>1 DEF Range
  <2> QED
    BY <2>2 DEF FragmentsOf
<1>4. ASSUME NEW k \in T, k < N
      PROVE  Fitting(frags, t[k]) # {} /\ k + 1 \in T
  <2>1. k + 1 \in Places(d) /\ k \in Nat /\ (k + 1) - 1 = k /\ k + 1 \in 0 .. N /\ k + 1 # 0
        /\ k + 1 \in 1 .. Len(frags)
    BY <1>1, <1>4 DEF Places
  <2>2. t[k] \in Seq(Unit) /\ Len(t[k]) = OffsetOf(d, k + 1)
    BY <2>1 DEF OffsetOf
  <2>3. PICK j \in 1 .. N : frags[j] = Fragment(d, k + 1)
    BY <1>2, <2>1
  <2>4. frags[j].off = Len(t[k])
    BY <2>1, <2>2, <2>3, FragmentIs
  <2>5. Fitting(frags, t[k]) # {}
    BY <1>1, <2>4 DEF Fitting, Fits
  <2>6. t[k + 1] = Extended(frags, t[k])
    BY <2>1, Rounds
  <2>7. PICK i \in 1 .. N : frags[i].off = Len(t[k]) /\ Appended(t[k], frags[i], t[k + 1])
    BY <1>1, <2>2, <2>5, <2>6, RoundAppends
  <2>8. PICK m \in Places(d) : frags[i] = Fragment(d, m)
    BY <1>3
  <2>9. m = k + 1
    <3>1. OffsetOf(d, m) = OffsetOf(d, k + 1)
      BY <2>2, <2>7, <2>8, FragmentIs
    <3> QED
      BY <2>1, <3>1, OneOffset
  <2>10. t[k + 1] \in Seq(Unit) /\ Len(t[k + 1]) = frags[i].off + frags[i].len
    BY <2>7 DEF Appended
  <2>11. frags[i].off + frags[i].len = Ends[d][k + 1]
    BY <2>1, <2>8, <2>9, FragmentIs
  <2>12. t[k + 1] \in Seq(Unit) /\ Len(t[k + 1]) = End(k + 1)
    BY <2>1, <2>10, <2>11
  <2> QED
    BY <2>1, <2>5, <2>12
<1>5. 0 \in T
  <2>1. t[0] = <<>>
    BY Rounds
  <2>2. t[0] \in Seq(Unit) /\ Len(t[0]) = End(0) /\ 0 \in 0 .. N
    BY <2>1, <1>1
  <2> QED
    BY <2>2
<1>6. T = 0 .. N
  <2>1. T \subseteq 0 .. N /\ N \in Nat
    BY <1>1
  <2> HIDE DEF T
  <2> QED
    BY <1>4, <1>5, <2>1, Inductive
<1>7. AllSeen(frags)
  <2>1. \A k \in 1 .. N : k - 1 \in 0 .. N /\ k - 1 < N
    BY <1>1
  <2>2. \A k \in 1 .. N : Fitting(frags, t[k - 1]) # {}
    BY <1>4, <1>6, <2>1
  <2> QED
    BY <1>1, <2>2 DEF AllSeen
<1>8. LastSeen(frags)
  <2>1. N \in Places(d)
    BY <1>1 DEF Places
  <2>2. PICK j \in 1 .. N : frags[j] = Fragment(d, N)
    BY <1>2, <2>1
  <2>3. frags[j].off # 0 /\ ~frags[j].more
    <3>1. OffsetOf(d, N) # 0
      BY <2>1, Offsets
    <3> QED
      BY <2>1, <2>2, <3>1, FragmentIs
  <2> QED
    BY <1>1, <2>3 DEF LastSeen
<1> QED
  BY <1>7, <1>8 DEF Through

-----------------------------------------------------------------------------
(***************************************************************************)
(* A packet nobody disturbs.  As long as something is missing its fragments *)
(* that have arrived, and no others, are kept under its Id.                 *)
(***************************************************************************)
Own(d) ==
    LET frags == fragmap[IdOf[d]]
    IN  /\ IsInjective(frags) /\ Range(frags) \subseteq FragmentsOf(d)
        /\ Arrived(d) => frags = <<>> /\ Cardinality(Deliveries(d)) = 1
        /\ ~Arrived(d) =>
              /\ Deliveries(d) = {}
              /\ \A f \in FragmentsOf(d) : copies[f] > 0 <=> f \in Range(frags)
        /\ \A k \in 1 .. Len(delivered) : delivered[k].ip = d => k \in Deliveries(d)
OwnInv == \A d \in Undisturbed : Own(d)

LEMMA UndisturbedBefore ==
    ASSUME TypeInv, NEW f \in Wire, Process_pkt(f), NEW d \in Undisturbed'
    PROVE  /\ d \in Datagrams /\ d \in Undisturbed
           /\ f.of # d => IdOf[f.of] # IdOf[d]
           /\ f.of = d => f \in FragmentsOf(d) /\ copies[f] = 0
           /\ \A g \in FragmentsOf(d) :
                 g \in Wire /\ copies'[g] = IF g = f THEN copies[f] + 1 ELSE copies[g]
<1>1. /\ d \in Datagrams /\ \A e \in Datagrams : IdOf[e] = IdOf[d] => e = d
      /\ \A g \in FragmentsOf(d) : copies'[g] <= 1
  BY DEF Undisturbed
<1>2. copies \in [Wire -> Nat] /\ copies' = [copies EXCEPT ![f] = @ + 1]
  BY Arrives DEF TypeInv
<1>3. f.of \in Datagrams /\ f \in FragmentsOf(f.of)
  BY WireFields
<1>4. \A g \in FragmentsOf(d) : g \in Wire
  BY <1>1 DEF Wire
<1>5. \A g \in FragmentsOf(d) : copies'[g] = IF g = f THEN copies[f] + 1 ELSE copies[g]
  BY <1>2, <1>4
<1>6. \A g \in FragmentsOf(d) : copies[g] \in Nat /\ copies[g] <= 1
  BY <1>1, <1>2, <1>4, <1>5
<1>7. f.of = d => copies[f] = 0
  BY <1>1, <1>2, <1>3, <1>5
<1>8. d \in Undisturbed
  BY <1>1, <1>6 DEF Undisturbed
<1> QED
  BY <1>1, <1>3, <1>4, <1>5, <1>7, <1>8

\* An arrival of another packet's.
LEMMA OthersArrive ==
    ASSUME TypeInv, NEW f \in Wire, Process_pkt(f), NEW d \in Undisturbed', f.of # d, Own(d)
    PROVE  Own(d)'
<1>1. /\ d \in Datagrams /\ IdOf[f.of] # IdOf[d]
      /\ \A g \in FragmentsOf(d) : copies'[g] = copies[g]
  <2>1. \A g \in FragmentsOf(d) : g.of = d
    <3>1. d \in Datagrams
      BY UndisturbedBefore
    <3> QED
      BY <3>1, FragmentIs DEF FragmentsOf
  <2> QED
    BY <2>1, UndisturbedBefore
<1>2. fragmap'[IdOf[d]] = fragmap[IdOf[d]]
  <2>1. IdOf[d] \in Range(IdOf)
    BY <1>1, ShapeAssumption DEF Range
  <2>2. Passes(f) \/ Keeps(f) \/ Assembles(f)
    BY Arrives
  <2> QED
    BY <1>1, <2>1, <2>2 DEF TypeInv, Passes, Keeps, Assembles
<1>3. \/ UNCHANGED delivered
      \/ \E delivery \in Delivery : delivered' = Append(delivered, delivery)
                                    /\ delivery.ip # d
  <2>1. Passes(f) \/ Keeps(f) \/ Assembles(f)
    BY Arrives
  <2>2. \/ UNCHANGED delivered
        \/ \E delivery \in Delivery : delivered' = Append(delivered, delivery)
                                      /\ delivery.ip = f.of
    BY <2>1, HandedOver
  <2> QED
    BY <2>2
<1>4. /\ \A k \in 1 .. Len(delivered) :
            k \in 1 .. Len(delivered') /\ delivered'[k] = delivered[k]
      /\ \A k \in 1 .. Len(delivered') :
            k \in 1 .. Len(delivered) \/ delivered'[k].ip # d
  <2>1. delivered \in Seq(Delivery)
    BY DEF TypeInv
  <2>2. CASE UNCHANGED delivered
    BY <2>2
  <2>3. ASSUME NEW delivery \in Delivery, delivered' = Append(delivered, delivery),
               delivery.ip # d
        PROVE  /\ \A k \in 1 .. Len(delivered) :
                     k \in 1 .. Len(delivered') /\ delivered'[k] = delivered[k]
               /\ \A k \in 1 .. Len(delivered') :
                     k \in 1 .. Len(delivered) \/ delivered'[k].ip # d
    <3>1. /\ Len(delivered) \in Nat /\ Len(delivered') = Len(delivered) + 1
          /\ delivered'[Len(delivered) + 1] = delivery
          /\ \A k \in 1 .. Len(delivered) : delivered'[k] = delivered[k]
      BY <2>1, <2>3
    <3>2. \A k \in 1 .. Len(delivered') : k \in 1 .. Len(delivered) \/ k = Len(delivered) + 1
      BY <3>1
    <3>3. \A k \in 1 .. Len(delivered) : k \in 1 .. Len(delivered')
      BY <3>1
    <3> QED
      BY <2>3, <3>1, <3>2, <3>3
  <2> QED
    BY <1>3, <2>2, <2>3
<1>5. Deliveries(d)' = Deliveries(d)
  <2>1. \A k : delivered'[k] = [data |-> Data(d), ip |-> d] => delivered'[k].ip = d
    OBVIOUS
  <2> QED
    BY <1>4, <2>1 DEF Deliveries
<1>6. Arrived(d)' <=> Arrived(d)
  BY <1>1 DEF Arrived
<1> QED
  BY <1>1, <1>2, <1>4, <1>5, <1>6 DEF Own

\* One more delivery, the packet's own.
LEMMA Delivered ==
    ASSUME TypeInv, NEW d \in Datagrams, Deliveries(d) = {},
           delivered' = Append(delivered, [data |-> Data(d), ip |-> d]),
           \A k \in 1 .. Len(delivered) : delivered[k].ip = d => k \in Deliveries(d)
    PROVE  /\ Cardinality(Deliveries(d)') = 1
           /\ \A k \in 1 .. Len(delivered') : delivered'[k].ip = d => k \in Deliveries(d)'
<1> DEFINE n == Len(delivered)
           own == [data |-> Data(d), ip |-> d]
<1>1. delivered \in Seq(Delivery)
  BY DEF TypeInv
<1>2. /\ n \in Nat /\ Len(delivered') = n + 1 /\ delivered'[n + 1] = own
      /\ \A k \in 1 .. n : delivered'[k] = delivered[k]
  BY <1>1
<1>3. \A k \in 1 .. n + 1 : k \in 1 .. n \/ k = n + 1
  BY <1>2
<1>4. \A k \in 1 .. n : delivered[k].ip # d
  OBVIOUS
<1>5. own.ip = d
  OBVIOUS
<1> HIDE DEF own
<1>6. \A k \in 1 .. n + 1 : delivered'[k].ip = d => k = n + 1
  BY <1>2, <1>3, <1>4
<1>7. Deliveries(d)' = {k \in 1 .. n + 1 : delivered'[k] = own}
  BY <1>2 DEF Deliveries, own
<1>8. Deliveries(d)' = {n + 1}
  <2>1. n + 1 \in 1 .. n + 1
    BY <1>2
  <2>2. \A k \in 1 .. n + 1 : delivered'[k] = own => k = n + 1
    BY <1>5, <1>6
  <2> QED
    BY <1>2, <1>7, <2>1, <2>2
<1> QED
  BY <1>2, <1>6, <1>8, FS_Singleton

\* An arrival of the packet's own.
LEMMA OwnArrives ==
    ASSUME TypeInv, NEW f \in Wire, Process_pkt(f), NEW d \in Undisturbed', f.of = d, Own(d)
    PROVE  Own(d)'
<1> DEFINE frags == fragmap[IdOf[d]]
           longer == With(f)
<1>1. /\ d \in Datagrams /\ f \in FragmentsOf(d) /\ copies[f] = 0
      /\ \A g \in FragmentsOf(d) :
            g \in Wire /\ copies'[g] = IF g = f THEN copies[f] + 1 ELSE copies[g]
  BY UndisturbedBefore
<1>2. ~Arrived(d)
  BY <1>1 DEF Arrived
<1>3. /\ IsInjective(frags) /\ Range(frags) \subseteq FragmentsOf(d) /\ Deliveries(d) = {}
      /\ \A g \in FragmentsOf(d) : copies[g] > 0 <=> g \in Range(frags)
      /\ \A k \in 1 .. Len(delivered) : delivered[k].ip = d => k \in Deliveries(d)
  BY <1>2 DEF Own
<1>4. /\ IdOf[d] \in Range(IdOf) /\ frags \in Seq(Wire) /\ longer \in Seq(Wire)
      /\ DOMAIN frags = 1 .. Len(frags) /\ Len(frags) \in Nat
      /\ DOMAIN longer = 1 .. Len(frags) + 1
      /\ \A k \in 1 .. Len(frags) : longer[k] = frags[k]
      /\ longer[Len(frags) + 1] = f
  <2>1. /\ IdOf[d] \in Range(IdOf) /\ longer \in Seq(Wire) /\ Len(longer) = Len(frags) + 1
        /\ \A k \in 1 .. Len(frags) : longer[k] = frags[k]
        /\ longer[Len(longer)] = f
    BY ArrivalTyped
  <2>2. frags \in Seq(Wire)
    BY <2>1 DEF TypeInv
  <2> QED
    BY <2>1, <2>2
<1>5. f \notin Range(frags)
  BY <1>1, <1>3
<1> HIDE DEF longer
<1>6. Range(longer) = Range(frags) \cup {f} /\ IsInjective(longer)
  <2>1. \A k \in 1 .. Len(frags) + 1 : k \in 1 .. Len(frags) \/ k = Len(frags) + 1
    BY <1>4
  <2>2. \A k \in 1 .. Len(frags) : k \in 1 .. Len(frags) + 1
    BY <1>4
  <2>3. Len(frags) + 1 \in 1 .. Len(frags) + 1
    BY <1>4
  <2>4. Range(longer) = Range(frags) \cup {f}
    BY <1>4, <2>1, <2>2, <2>3 DEF Range
  <2>5. \A k \in 1 .. Len(frags) : frags[k] # f
    BY <1>4, <1>5 DEF Range
  <2>6. \A j, k \in 1 .. Len(frags) : frags[j] = frags[k] => j = k
    BY <1>3, <1>4 DEF IsInjective
  <2>7. \A j, k \in 1 .. Len(frags) + 1 : longer[j] = longer[k] => j = k
    <3>1. ASSUME NEW j \in 1 .. Len(frags) + 1, NEW k \in 1 .. Len(frags) + 1,
                 longer[j] = longer[k]
          PROVE  j = k
      <4>1. CASE j \in 1 .. Len(frags) /\ k \in 1 .. Len(frags)
        BY <1>4, <2>6, <3>1, <4>1, Zenon
      <4>2. CASE j \in 1 .. Len(frags) /\ k = Len(frags) + 1
        BY <1>4, <2>5, <3>1, <4>2, Zenon
      <4>3. CASE k \in 1 .. Len(frags) /\ j = Len(frags) + 1
        BY <1>4, <2>5, <3>1, <4>3, Zenon
      <4> QED
        BY <2>1, <4>1, <4>2, <4>3, Zenon
    <3> QED
      BY <3>1
  <2> QED
    BY <1>4, <2>4, <2>7 DEF IsInjective
<1>7. \A g \in FragmentsOf(d) : copies'[g] > 0 <=> g \in Range(longer)
  <2>1. 0 + 1 > 0
    OBVIOUS
  <2>2. \A g \in FragmentsOf(d) : copies'[g] > 0 <=> g = f \/ copies[g] > 0
    BY <1>1, <2>1
  <2> QED
    BY <1>3, <1>6, <2>2
<1>8. Range(longer) \subseteq FragmentsOf(d)
  BY <1>1, <1>3, <1>6
<1>9. Arrived(d)' <=> Range(longer) = FragmentsOf(d)
  BY <1>7, <1>8 DEF Arrived
<1>10. f.off = 0 /\ ~f.more <=> Len(Ends[d]) = 1
  <2>1. PICK n \in Places(d) : f = Fragment(d, n)
    BY <1>1 DEF FragmentsOf
  <2>2. f.off = OffsetOf(d, n) /\ (f.more <=> n # Len(Ends[d]))
    BY <1>1, <2>1, FragmentIs
  <2>3. OffsetOf(d, n) = 0 <=> n = 1
    BY <1>1, Offsets
  <2>4. Len(Ends[d]) = 1 => n = 1
    <3>1. Len(Ends[d]) = 1 => n \in 1 .. 1
      BY DEF Places
    <3> QED
      BY <3>1
  <2> QED
    BY <2>2, <2>3, <2>4
<1>11. <<>> \in Seq(Wire) /\ IsInjective(<<>>) /\ Range(<<>>) = {}
  BY DEF IsInjective, Range
<1>12. CASE Passes(f)
  <2>1. Len(Ends[d]) = 1 /\ fragmap' = fragmap
        /\ delivered' = Append(delivered, [data |-> Payload(f), ip |-> d])
    BY <1>10, <1>12 DEF Passes
  <2>2. FragmentsOf(d) = {f}
    <3>1. Places(d) = {1}
      BY <2>1 DEF Places
    <3> QED
      BY <1>1, <3>1 DEF FragmentsOf
  <2>3. Payload(f) = Data(d)
    <3>1. f = Fragment(d, 1) /\ 1 \in Places(d)
      <4>1. 1 \in Places(d)
        BY <2>1 DEF Places
      <4> QED
        BY <2>2, <4>1 DEF FragmentsOf
    <3>2. f.of = d /\ f.off = 0 /\ f.off + f.len = Ends[d][1]
      BY <1>1, <3>1, FragmentIs DEF OffsetOf
    <3>3. f.len \in Nat
      BY WireFields
    <3>4. f.len = Ends[d][Len(Ends[d])]
      BY <2>1, <3>2, <3>3
    <3>5. \A u \in 1 .. f.len : <<f.of, f.off + u - 1>> = <<d, u - 1>>
      <4>1. \A u \in 1 .. f.len : f.off + u - 1 = u - 1
        BY <3>2, <3>3
      <4> QED
        BY <3>2, <4>1, Zenon
    <3> QED
      BY <3>4, <3>5 DEF Payload, Data
  <2>4. frags = <<>>
    <3>1. Range(frags) = {}
      BY <1>3, <1>5, <2>2
    <3>2. Len(frags) = 0
      <4>1. Len(frags) # 0 => 1 \in DOMAIN frags
        BY <1>4
      <4> QED
        BY <3>1, <4>1 DEF Range
    <3> QED
      BY <1>4, <3>2
  <2>5. Arrived(d)'
    BY <1>6, <1>8, <1>9, <2>2
  <2>6. /\ Cardinality(Deliveries(d)') = 1
        /\ \A k \in 1 .. Len(delivered') : delivered'[k].ip = d => k \in Deliveries(d)'
    BY <1>1, <1>3, <2>1, <2>3, Delivered
  <2>7. fragmap'[IdOf[d]] = <<>>
    BY <2>1, <2>4
  <2> QED
    BY <1>11, <2>5, <2>6, <2>7 DEF Own
<1>13. CASE Keeps(f)
  <2>1. ~Through(longer) /\ UNCHANGED delivered /\ fragmap'[IdOf[d]] = longer
        /\ Len(Ends[d]) # 1
    BY <1>4, <1>10, <1>13 DEF Keeps, TypeInv, longer
  <2>2. ~Arrived(d)'
    BY <1>1, <1>4, <1>6, <1>9, <2>1, Completes
  <2>3. Deliveries(d)' = {} /\ UNCHANGED Deliveries(d)
    BY <1>3, <2>1 DEF Deliveries
  <2>4. \A k \in 1 .. Len(delivered') : delivered'[k].ip = d => k \in Deliveries(d)'
    BY <1>3, <2>1, <2>3
  <2> QED
    BY <1>6, <1>7, <1>8, <2>1, <2>2, <2>3, <2>4 DEF Own
<1>14. CASE Assembles(f)
  <2>1. /\ Through(longer) /\ fragmap'[IdOf[d]] = <<>>
        /\ delivered' = Append(delivered, [data |-> transp_pkt(longer)[Len(longer)], ip |-> d])
    BY <1>4, <1>14 DEF Assembles, TypeInv, longer
  <2>2. \A j \in 1 .. Len(longer) : longer[j] \in FragmentsOf(d)
    <3>1. DOMAIN longer = 1 .. Len(longer)
      BY <1>4
    <3> QED
      BY <1>8, <3>1 DEF Range
  <2>3. transp_pkt(longer)[Len(longer)] = Data(d) /\ FragmentsOf(d) \subseteq Range(longer)
    BY <1>1, <1>4, <2>1, <2>2, Completed
  <2>4. Arrived(d)'
    BY <1>8, <1>9, <2>3
  <2>5. /\ Cardinality(Deliveries(d)') = 1
        /\ \A k \in 1 .. Len(delivered') : delivered'[k].ip = d => k \in Deliveries(d)'
    BY <1>1, <1>3, <2>1, <2>3, Delivered
  <2> QED
    BY <1>11, <2>1, <2>4, <2>5 DEF Own
<1> QED
  BY <1>12, <1>13, <1>14, Arrives

LEMMA OwnStep == TypeInv /\ OwnInv /\ [Next]_vars => OwnInv'
<1> SUFFICES ASSUME TypeInv, OwnInv, [Next]_vars PROVE OwnInv'
  OBVIOUS
<1>1. CASE UNCHANGED vars
  <2>1. fragmap' = fragmap /\ delivered' = delivered /\ copies' = copies
    BY <1>1 DEF vars
  <2>2. Undisturbed' = Undisturbed
    BY <2>1 DEF Undisturbed
  <2>3. \A d : (Arrived(d)' <=> Arrived(d)) /\ Deliveries(d)' = Deliveries(d)
    BY <2>1 DEF Arrived, Deliveries
  <2>4. ASSUME NEW d \in Undisturbed PROVE Own(d)'
    <3>1. Own(d)
      BY DEF OwnInv
    <3> QED
      BY <2>1, <2>3, <3>1, Zenon DEF Own
  <2> QED
    BY <2>2, <2>4 DEF OwnInv
<1>2. CASE Next
  <2>1. PICK f \in Wire : Process_pkt(f)
    BY <1>2 DEF Next
  <2>2. ASSUME NEW d \in Undisturbed' PROVE Own(d)'
    <3>1. Own(d)
      BY <2>1, UndisturbedBefore DEF OwnInv
    <3>2. CASE f.of = d
      BY <2>1, <3>1, <3>2, OwnArrives
    <3>3. CASE f.of # d
      BY <2>1, <3>1, <3>3, OthersArrive
    <3> QED
      BY <3>2, <3>3
  <2> QED
    BY <2>2 DEF OwnInv
<1> QED
  BY <1>1, <1>2

LEMMA OwnInitially == Init => OwnInv
<1> SUFFICES ASSUME Init, NEW d \in Undisturbed PROVE Own(d)
  BY DEF OwnInv
<1>1. d \in Datagrams /\ IdOf[d] \in Range(IdOf)
  BY ShapeAssumption DEF Undisturbed, Range
<1>2. fragmap[IdOf[d]] = <<>> /\ delivered = <<>>
  BY <1>1 DEF Init
<1>3. IsInjective(<<>>) /\ Range(<<>>) = {} /\ Len(<<>>) = 0
  BY DEF IsInjective, Range
<1>4. Deliveries(d) = {}
  BY <1>2 DEF Deliveries
<1>5. \A f \in FragmentsOf(d) : copies[f] = 0
  BY <1>1 DEF Init, Wire
<1>6. ~Arrived(d)
  <2>1. Len(Ends[d]) \in Places(d)
    BY <1>1, Offsets DEF Places
  <2>2. Fragment(d, Len(Ends[d])) \in FragmentsOf(d)
    BY <2>1 DEF FragmentsOf
  <2> QED
    BY <1>5, <2>2 DEF Arrived
<1> QED
  BY <1>2, <1>3, <1>4, <1>5, <1>6 DEF Own

\* base.go:163-210.  For every number of packets, fragments and arrivals in whatever
\* order: a packet that has its Id for itself and none of whose fragments is repeated is
\* handed over once, whole, when the last of its fragments has come, and not before.
THEOREM WholeOnly == Spec => []WholePacketsOnly
<1>1. Init => TypeInv /\ OwnInv
  BY TypeInitially, OwnInitially
<1>2. TypeInv /\ OwnInv /\ [Next]_vars => (TypeInv /\ OwnInv)'
  BY TypeStep, OwnStep
<1>3. OwnInv => WholePacketsOnly
  <2> SUFFICES ASSUME OwnInv PROVE WholePacketsOnly
    OBVIOUS
  <2>1. ASSUME NEW d \in Undisturbed
        PROVE  Cardinality(Deliveries(d)) = IF Arrived(d) THEN 1 ELSE 0
    <3>1. Own(d)
      BY DEF OwnInv
    <3>2. CASE Arrived(d)
      BY <3>1, <3>2 DEF Own
    <3>3. CASE ~Arrived(d)
      BY <3>1, <3>3, FS_EmptySet DEF Own
    <3> QED
      BY <3>2, <3>3
  <2>2. ASSUME NEW k \in 1 .. Len(delivered), delivered[k].ip \in Undisturbed
        PROVE  k \in Deliveries(delivered[k].ip)
    BY <2>2 DEF OwnInv, Own
  <2> QED
    BY <2>1, <2>2 DEF WholePacketsOnly
<1> QED
  BY <1>1, <1>2, <1>3, PTL DEF Spec
=============================================================================
