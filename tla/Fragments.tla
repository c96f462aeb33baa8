------------------------------ MODULE Fragments ------------------------------
(***************************************************************************)
(* Process_pkt of common/base.go: reassembly of fragmented IP packets in    *)
(* front of Handle_pkt.                                                     *)
(*                                                                          *)
(* Fragments are kept by the 16-bit Id of their packet, whoever sent it.    *)
(* Each arrival tries to put the fragments kept under its Id in order, and  *)
(* does everything under fragbuf.mu, so a packet's arrival is one step.     *)
(* Bytes are counted in the eight-byte units of the fragment offset; unit u *)
(* of packet d is <<d, u>>.                                                 *)
(***************************************************************************)
EXTENDS Naturals, Sequences, FiniteSets, Functions

CONSTANTS
    Datagrams, \* the packets sent
    IdOf,      \* the Id of each
    Ends,      \* where each of its fragments ends, in order; one for a whole packet
    MaxCopies,   \* bound: how often the network delivers a fragment
    MaxArrivals  \* bound: how many it delivers

ASSUME ShapeAssumption ==
    /\ IdOf \in [Datagrams -> Nat]
    /\ \A d \in Datagrams :
          /\ Ends[d] \in Seq(Nat \ {0}) /\ Ends[d] # <<>>
          /\ \A m, n \in 1 .. Len(Ends[d]) : m < n => Ends[d][m] < Ends[d][n]

(* The fragments on the wire (external).                                    *)
Places(d) == 1 .. Len(Ends[d])
OffsetOf(d, n) == IF n = 1 THEN 0 ELSE Ends[d][n - 1]
Fragment(d, n) == [of |-> d, off |-> OffsetOf(d, n), len |-> Ends[d][n] - OffsetOf(d, n),
                   more |-> n < Len(Ends[d])]
FragmentsOf(d) == {Fragment(d, n) : n \in Places(d)}
Wire == UNION {FragmentsOf(d) : d \in Datagrams}
Payload(f) == [u \in 1 .. f.len |-> <<f.of, f.off + u - 1>>]

VARIABLES
    fragmap,    \* the fragments kept, by Id
    delivered,  \* what Handle_pkt was called with: the data, and the packet
                \* whose header (ip) it was given
    copies      \* how often each fragment arrived

vars == <<fragmap, delivered, copies>>

Init ==
    /\ fragmap = [i \in Range(IdOf) |-> <<>>]
    /\ delivered = <<>>
    /\ copies = [f \in Wire |-> 0]

\* Plausible mistakes are the operators Bug_...: no action uses one.
\* A fragment is taken for any place; the last one is not waited for.
Bug_Fits(f, data) == f.off >= Len(data)
Bug_LastSeen(frags) == TRUE

Fits(f, data) == f.off = Len(data)
LastSeen(frags) == \E k \in 1 .. Len(frags) : frags[k].off # 0 /\ ~frags[k].more

(* The loop: as many rounds as there are fragments kept, each appends the   *)
(* first one that fits.  A round in which none fits leaves with nothing.    *)
Fitting(frags, data) == {k \in 1 .. Len(frags) : Fits(frags[k], data)}
First(ks) == CHOOSE k \in ks : \A j \in ks : k <= j
Extended(frags, data) ==
    IF Fitting(frags, data) = {} THEN data
    ELSE data \o Payload(frags[First(Fitting(frags, data))])

\* transp_pkt after each number of rounds, and the loop's being through with all.
transp_pkt(frags) ==
    LET round[k \in 0 .. Len(frags)] == IF k = 0 THEN <<>> ELSE Extended(frags, round[k - 1])
    IN  round
AllSeen(frags) == \A k \in 1 .. Len(frags) : Fitting(frags, transp_pkt(frags)[k - 1]) # {}

Handle_pkt(data, f) == delivered' = Append(delivered, [data |-> data, ip |-> f.of])

\* A fragment arrives at Process_pkt.
Process_fragment(f) ==
    /\ f.more \/ f.off # 0
    /\ LET id == IdOf[f.of]
           frags == Append(fragmap[id], f)
       IN  IF ~AllSeen(frags) \/ ~LastSeen(frags)
           THEN fragmap' = [fragmap EXCEPT ![id] = frags] /\ UNCHANGED delivered
           ELSE /\ fragmap' = [fragmap EXCEPT ![id] = <<>>]
                /\ Handle_pkt(transp_pkt(frags)[Len(frags)], f)

\* A packet in one piece is passed on.
Process_whole(f) ==
    /\ ~f.more /\ f.off = 0
    /\ Handle_pkt(Payload(f), f)
    /\ UNCHANGED fragmap

Arrivals == FoldFunction(+, 0, copies)

\* The network delivers fragments in any order, and possibly more than once.
Process_pkt(f) ==
    /\ copies[f] < MaxCopies /\ Arrivals < MaxArrivals
    /\ copies' = [copies EXCEPT ![f] = @ + 1]
    /\ Process_fragment(f) \/ Process_whole(f)

Next == \E f \in Wire : Process_pkt(f)

Spec == Init /\ [][Next]_vars

-----------------------------------------------------------------------------
Data(d) == [u \in 1 .. Ends[d][Len(Ends[d])] |-> <<d, u - 1>>]
Arrived(d) == \A f \in FragmentsOf(d) : copies[f] > 0
Deliveries(d) == {k \in 1 .. Len(delivered) : delivered[k] = [data |-> Data(d), ip |-> d]}

\* Packets that have their Id for themselves and none of whose fragments came twice.
Undisturbed == {d \in Datagrams : /\ \A e \in Datagrams : IdOf[e] = IdOf[d] => e = d
                                  /\ \A f \in FragmentsOf(d) : copies[f] <= 1}

\* base.go:163-210.  In whatever order the fragments arrive, and however those of
\* several packets mix, a packet is handed over once, whole and in order, as soon
\* as all of it is there, and nothing else is, as long as none of its fragments is
\* duplicated and its Id is not used twice.
WholePacketsOnly ==
    /\ \A d \in Undisturbed : Cardinality(Deliveries(d)) = IF Arrived(d) THEN 1 ELSE 0
    /\ \A k \in 1 .. Len(delivered) :
          delivered[k].ip \in Undisturbed => k \in Deliveries(delivered[k].ip)

\* base.go:176-193.  Also when fragments are duplicated and Ids shared, what is
\* handed over consists of whole fragments, each in its own place, and has among them a
\* packet's last one and one of the packet whose header goes with it: packets may be
\* mixed, never torn or shifted.
InPlace(f, data) ==
    /\ f.off + f.len <= Len(data)
    /\ \A u \in 1 .. f.len : data[f.off + u] = Payload(f)[u]
UnitsInPlace ==
    \A k \in 1 .. Len(delivered) :
        LET data == delivered[k].data
        IN  /\ \A u \in 1 .. Len(data) :
                  \E f \in Wire : InPlace(f, data) /\ u \in f.off + 1 .. f.off + f.len
            /\ \E f \in Wire : InPlace(f, data) /\ ~f.more
            /\ \E f \in FragmentsOf(delivered[k].ip) : InPlace(f, data)
=============================================================================
