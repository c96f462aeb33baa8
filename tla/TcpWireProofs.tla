---------------------------- MODULE TcpWireProofs ----------------------------
(***************************************************************************)
(* The key arithmetic of the TCP scanner, for all widths: ids and keys      *)
(* determine each other, each handler finds its connection, and a segment   *)
(* acknowledging another stage finds none.                                  *)
(***************************************************************************)
EXTENDS TcpWire, TLAPS

Ids == 0 .. IdWord - 1

\* The sizes are natural numbers and a word holds a padding.
LEMMA WordPositive == Word \in Nat /\ IdWord \in Nat /\ Word >= Pad
BY SizesAssumption DEF Word, IdWord

\* Products by a positive number are ordered like their left factors.
LEMMA TimesMonotone ==
    ASSUME NEW a \in Nat, NEW b \in Nat, NEW c \in Nat, a < b
    PROVE  a * c + c <= b * c
<1>1. PICK d \in Nat : b = a + 1 + d
  BY b - a - 1 \in Nat
<1>2. b * c = a * c + c + d * c
  BY <1>1
<1>3. d * c \in Nat /\ a * c \in Nat
  OBVIOUS
<1>4. QED
  BY <1>2, <1>3

\* A slot's sequence number, and those of the padding behind it, fit the word.
LEMMA SeqRange ==
    ASSUME NEW i \in Ids
    PROVE  /\ i % Slots \in 0 .. Slots - 1
           /\ SeqOf(i) \in Nat /\ SeqOf(i) + Pad <= Word
<1>1. i \in Nat /\ i % Slots \in 0 .. Slots - 1
  BY SizesAssumption, WordPositive DEF Ids
<1>2. (i % Slots) * Pad + Pad <= Slots * Pad
  BY <1>1, SizesAssumption, TimesMonotone
<1>3. QED
  BY <1>1, <1>2, SizesAssumption DEF SeqOf, Word

\* Two multiples of Pad that are less than Pad apart are equal.
LEMMA SlotsApart ==
    ASSUME NEW a \in Nat, NEW b \in Nat, NEW k \in 0 .. Pad - 1,
           a * Pad = b * Pad + k
    PROVE  a = b /\ k = 0
<1>1. a * Pad \in Nat /\ b * Pad \in Nat /\ Pad \in Nat
  BY SizesAssumption
<1>2. ~ (a < b)
  BY <1>1, TimesMonotone, SizesAssumption
<1>3. ~ (b < a)
  BY <1>1, TimesMonotone
<1>4. QED
  BY <1>1, <1>2, <1>3

\* Port and sequence number together determine the id.
LEMMA KeyInjective ==
    ASSUME NEW i \in Ids, NEW j \in Ids, Key(i) = Key(j)
    PROVE  i = j
<1>1. i \div Slots = j \div Slots
  <2>1. i \div Slots \in Int /\ j \div Slots \in Int
    BY SizesAssumption, WordPositive DEF Ids
  <2>2. PortBase + i \div Slots = PortBase + j \div Slots
    BY DEF Key, PortOf
  <2>3. \A x, y \in Int : PortBase + x = PortBase + y => x = y
    BY SizesAssumption
  <2>4. QED
    BY <2>1, <2>2, <2>3
<1>2. i % Slots \in Nat /\ j % Slots \in Nat
  BY SeqRange, SizesAssumption
<1>3. i % Slots = j % Slots
  <2>1. (i % Slots) * Pad = (j % Slots) * Pad
    BY DEF Key, SeqOf
  <2>2. (j % Slots) * Pad = (j % Slots) * Pad + 0
    BY <1>2, SizesAssumption
  <2>3. 0 \in 0 .. Pad - 1
    BY SizesAssumption
  <2>4. QED
    BY <1>2, <2>1, <2>2, <2>3, SlotsApart
<1>4. \A n \in Ids : n = Slots * (n \div Slots) + (n % Slots)
  BY SizesAssumption, WordPositive DEF Ids
<1>5. QED
  BY <1>1, <1>3, <1>4

-----------------------------------------------------------------------------
(***************************************************************************)
(* The dialogue.  For each segment the invariant fixes how far its numbers  *)
(* are from the connection's initial sequence number: all of them stay      *)
(* inside the padding.                                                      *)
(***************************************************************************)
Offset == CASE seg.kind = "SA" -> 1
            [] seg.kind \in {"PA", "FPA", "earlyFA"} -> 1 + PayloadSize
            [] seg.kind = "FA" -> 2 + PayloadSize

Dialogue ==
    /\ ip_loop_id \in Ids /\ id \in Ids
    /\ seg.kind \in Flagged \cup {"none"}
    /\ seg.kind = "SYN" => seg.seq = SeqOf(id)
    /\ seg.kind \in FromServer \cup {"earlyFA"} => seg.ack = SeqOf(id) + Offset
    /\ seg.kind = "DNS" => seg.seq = SeqOf(id) + 1 /\ seg.len = PayloadSize
    /\ seg.kind = "FIN" => seg.seq = SeqOf(id) + 1 + PayloadSize

\* The dialogue invariant holds throughout.
LEMMA DialogueInvariant == Spec => []Dialogue
<1>1. Init => Dialogue
  BY WordPositive, SizesAssumption
  DEF Init, Dialogue, None, Ids, IdWord, Flagged, FromServer
<1>2. Dialogue /\ [Next]_vars => Dialogue'
  <2> SUFFICES ASSUME Dialogue, [Next]_vars
               PROVE  Dialogue'
    OBVIOUS
  <2> USE DEF Dialogue, Becomes, Flagged, FromServer, Offset
  <2>1. /\ SeqOf(id) \in Nat /\ SeqOf(id) + Pad <= Word /\ Word \in Nat
        /\ PayloadSize \in Nat /\ PayloadSize + 2 < Pad /\ Pad \in Nat
    BY SeqRange, WordPositive, PadAssumption, SizesAssumption
  <2>2. CASE send_syn
    <3>1. ip_loop_id' \in Ids
      BY <2>2, WordPositive DEF send_syn, Ids
    <3>2. QED
      BY <2>2, <3>1 DEF send_syn
  <2>3. CASE Send_ack_with_dns
    BY <2>1, <2>3 DEF Send_ack_with_dns
  <2>4. CASE Send_ack_pos_fin
    BY <2>1, <2>4 DEF Send_ack_pos_fin
  <2>5. ASSUME NEW isn \in ISNs, SrvSynAck(isn), UNCHANGED <<ip_loop_id, id>>
        PROVE  Dialogue'
    BY <2>1, <2>5 DEF SrvSynAck, Plus
  <2>6. ASSUME NEW kind \in {"PA", "FPA"}, NEW n \in Lengths,
               SrvAnswer(kind, n), UNCHANGED <<ip_loop_id, id>>
        PROVE  Dialogue'
    BY <2>1, <2>6 DEF SrvAnswer, Plus
  <2>7. CASE SrvEarlyFin /\ UNCHANGED <<ip_loop_id, id>>
    BY <2>1, <2>7 DEF SrvEarlyFin, Plus
  <2>8. CASE SrvFinAck /\ UNCHANGED <<ip_loop_id, id>>
    BY <2>1, <2>8 DEF SrvFinAck, Plus
  <2>9. CASE UNCHANGED vars
    BY <2>9 DEF vars
  <2>10. QED
    BY <2>2, <2>3, <2>4, <2>5, <2>6, <2>7, <2>8, <2>9 DEF Next, Server
<1>3. QED
  BY <1>1, <1>2, PTL DEF Spec

\* tcp_scanner.go:340-343: no two connections share a key.
THEOREM KeysStayDistinct == Spec => []KeysDistinct
<1>1. Dialogue => KeysDistinct
  BY KeyInjective DEF Dialogue, KeysDistinct, Ids
<1>2. QED
  BY <1>1, DialogueInvariant, PTL

\* tcp_scanner.go:198, 234, 283: the handler of every segment looks up exactly the
\* key its connection's root was stored under.
THEOREM LookupCorrect == Spec => []LookupFindsConnection
<1>1. Dialogue => LookupFindsConnection
  <2> SUFFICES ASSUME Dialogue, seg.kind \in FromServer
               PROVE  LookupSeq(seg.kind, seg.ack) = SeqOf(id)
    BY DEF LookupFindsConnection
  <2>1. /\ SeqOf(id) \in Nat /\ PayloadSize \in Nat
        /\ seg.ack = SeqOf(id) + Offset
    BY SeqRange, PadAssumption, SizesAssumption DEF Dialogue
  <2>2. QED
    BY <2>1 DEF LookupSeq, Minus, Offset, FromServer
<1>2. QED
  BY <1>1, DialogueInvariant, PTL

\* A number inside the padding, but not on the initial sequence number itself, is
\* the sequence number of no key; and it stays inside when it falls below zero.
LEMMA PaddingMisses ==
    ASSUME NEW i \in Ids, NEW port, NEW k \in 1 .. Pad - 1
    PROVE  /\ <<port, SeqOf(i) + k>> \notin Keys
           /\ <<port, Minus(SeqOf(i) + Pad - k, Pad)>> \notin Keys
<1>1. \A j \in Ids : /\ j % Slots \in Nat /\ SeqOf(j) = (j % Slots) * Pad
                     /\ SeqOf(j) \in Nat /\ SeqOf(j) + Pad <= Word
  BY SeqRange, SizesAssumption DEF SeqOf
<1>2. ASSUME NEW j \in Ids
      PROVE  SeqOf(j) # SeqOf(i) + k
  <2>1. (j % Slots) * Pad # (i % Slots) * Pad + k
    BY <1>1, SlotsApart, SizesAssumption
  <2>2. QED
    BY <1>1, <2>1
<1>3. ASSUME NEW j \in Ids
      PROVE  SeqOf(j) # Minus(SeqOf(i) + Pad - k, Pad)
  <2>1. CASE SeqOf(i) + Pad - k >= Pad
    <3>1. Minus(SeqOf(i) + Pad - k, Pad) = SeqOf(i) - k
      BY <1>1, <2>1, SizesAssumption DEF Minus
    <3>2. (i % Slots) * Pad # (j % Slots) * Pad + k
      BY <1>1, SlotsApart, SizesAssumption
    <3>3. QED
      BY <1>1, <3>1, <3>2
  <2>2. CASE ~ (SeqOf(i) + Pad - k >= Pad)
    <3>1. Minus(SeqOf(i) + Pad - k, Pad) = SeqOf(i) - k + Word
      BY <1>1, <2>2, SizesAssumption, WordPositive DEF Minus
    <3>2. i % Slots = 0
      <4>1. SeqOf(i) < Pad
        BY <1>1, <2>2, SizesAssumption
      <4>2. 0 < i % Slots => 0 * Pad + Pad <= (i % Slots) * Pad
        BY <1>1, TimesMonotone, SizesAssumption
      <4>3. QED
        BY <1>1, <4>1, <4>2, SizesAssumption
    <3>3. SeqOf(i) = 0
      BY <1>1, <3>2, SizesAssumption
    <3>4. Slots * Pad # (j % Slots) * Pad + k
      BY <1>1, SlotsApart, SizesAssumption
    <3>5. QED
      BY <1>1, <3>1, <3>3, <3>4, SizesAssumption, WordPositive DEF Word
  <2>3. QED
    BY <2>1, <2>2
<1>4. QED
  BY <1>2, <1>3 DEF Keys, Key, Ids

\* tcp_scanner.go:27-34, 198, 234, 283: the padding separates the stages; the rule of
\* another stage, or a FIN-ACK that does not acknowledge our FIN, finds nothing.
THEOREM StagesSeparate == Spec => []OtherStagesMiss
<1>1. Dialogue => OtherStagesMiss
  <2> SUFFICES ASSUME Dialogue
               PROVE  OtherStagesMiss
    OBVIOUS
  <2> DEFINE P == PayloadSize
             s == SeqOf(id)
  <2>1. /\ id \in Ids /\ s \in Nat /\ s + Pad <= Word /\ Word \in Nat
        /\ P \in Nat /\ P >= 2 /\ P + 2 < Pad /\ Pad \in Nat
    BY SeqRange, WordPositive, PadAssumption, SizesAssumption DEF Dialogue
  <2>2. ASSUME NEW k \in 1 .. Pad - 1, NEW port, NEW n,
               \/ n = s + k
               \/ n = IF s >= k THEN s - k ELSE s - k + Word
        PROVE  <<port, n>> \notin Keys
    <3>1. Minus(s + Pad - k, Pad) = IF s >= k THEN s - k ELSE s - k + Word
      BY <2>1 DEF Minus
    <3>2. QED
      BY <2>1, <2>2, <3>1, PaddingMisses
  <2> HIDE DEF s, P
  <2>3. ASSUME NEW kind \in FromServer, NEW port, seg.kind \in FromServer,
               {kind, seg.kind} # {"PA", "FPA"}, kind # seg.kind
        PROVE  <<port, LookupSeq(kind, seg.ack)>> \notin Keys
    <3>1. seg.ack = s + Offset
      BY <2>3 DEF Dialogue, s
    <3>2. CASE seg.kind = "SA" /\ kind \in {"PA", "FPA"}
      <4>1. LookupSeq(kind, seg.ack) = IF s >= P THEN s - P ELSE s - P + Word
        BY <2>1, <3>1, <3>2 DEF LookupSeq, Minus, Offset, P
      <4>2. QED
        BY <2>1, <2>2, <4>1
    <3>3. CASE seg.kind = "SA" /\ kind = "FA"
      <4>1. LookupSeq(kind, seg.ack)
              = IF s >= P + 1 THEN s - (P + 1) ELSE s - (P + 1) + Word
        BY <2>1, <3>1, <3>3 DEF LookupSeq, Minus, Offset, P
      <4>2. P + 1 \in 1 .. Pad - 1
        BY <2>1
      <4>3. \A n : n = (IF s >= P + 1 THEN s - (P + 1) ELSE s - (P + 1) + Word)
                    => <<port, n>> \notin Keys
        BY <2>2, <4>2
      <4>4. QED
        BY <4>1, <4>3
    <3>4. CASE seg.kind \in {"PA", "FPA"} /\ kind = "SA"
      <4>1. LookupSeq(kind, seg.ack) = s + P
        BY <2>1, <3>1, <3>4 DEF LookupSeq, Minus, Offset, P
      <4>2. QED
        BY <2>1, <2>2, <4>1
    <3>5. CASE seg.kind \in {"PA", "FPA"} /\ kind = "FA"
      <4>1. LookupSeq(kind, seg.ack) = IF s >= 1 THEN s - 1 ELSE s - 1 + Word
        BY <2>1, <3>1, <3>5 DEF LookupSeq, Minus, Offset, P
      <4>2. QED
        BY <2>1, <2>2, <4>1
    <3>6. CASE seg.kind = "FA" /\ kind = "SA"
      <4>1. LookupSeq(kind, seg.ack) = s + (P + 1)
        BY <2>1, <3>1, <3>6 DEF LookupSeq, Minus, Offset, P
      <4>2. QED
        BY <2>1, <2>2, <4>1
    <3>7. CASE seg.kind = "FA" /\ kind \in {"PA", "FPA"}
      <4>1. LookupSeq(kind, seg.ack) = s + 1
        BY <2>1, <3>1, <3>7 DEF LookupSeq, Minus, Offset, P
      <4>2. QED
        BY <2>1, <2>2, <4>1
    <3>8. QED
      BY <2>3, <3>2, <3>3, <3>4, <3>5, <3>6, <3>7 DEF FromServer
  <2>4. ASSUME NEW port, seg.kind = "earlyFA"
        PROVE  <<port, LookupSeq("FA", seg.ack)>> \notin Keys
    <3>1. LookupSeq("FA", seg.ack) = IF s >= 1 THEN s - 1 ELSE s - 1 + Word
      BY <2>1, <2>4 DEF LookupSeq, Minus, Offset, P, Dialogue, s
    <3>2. QED
      BY <2>1, <2>2, <3>1
  <2>5. QED
    BY <2>3, <2>4 DEF OtherStagesMiss
<1>2. QED
  BY <1>1, DialogueInvariant, PTL
=============================================================================
