------------------------------- MODULE TcpWire -------------------------------
(***************************************************************************)
(* The numbers the TCP scanner puts on the wire: scanner/tcp/tcp_scanner.go *)
(* and common/tcp_common/tcp_sender.go.                                     *)
(*                                                                          *)
(* The scanner keeps no list of ids.  A connection's id is spread over the  *)
(* source port and the sequence number of its SYN, and every handler finds  *)
(* the map key again by subtracting from the acknowledgement number what    *)
(* the peer must have acknowledged by then.  Sequence numbers are Pad apart *)
(* so that the numbers of one connection never reach those of the next.     *)
(*                                                                          *)
(* One connection is followed at a time; the segment in flight is seg.      *)
(* Arithmetic on sequence numbers is that of uint32.                        *)
(***************************************************************************)
EXTENDS Integers

CONSTANTS
    Pad,          \* distance of two initial sequence numbers (2048)
    Slots,        \* initial sequence numbers per port (2^21)
    Ports,        \* source ports (2^11)
    PortBase,     \* lowest source port (61440)
    PayloadSize,  \* DNS_PAYLOAD_SIZE: the framed DNS query
    Byte,         \* values of a byte (256)
    ISNs,         \* initial sequence numbers of the servers
    Lengths       \* lengths of the DNS messages the servers answer with

ASSUME SizesAssumption == /\ Pad \in Nat \ {0} /\ Slots \in Nat \ {0}
                          /\ Ports \in Nat \ {0} /\ PortBase \in Nat
                          /\ Byte \in Nat \ {0}

Word == Slots * Pad        \* 2^32, the range of sequence numbers
IdWord == Slots * Ports    \* 2^32, the range of ids

\* The padding is wider than the query and the two control flags together.
ASSUME PadAssumption == PayloadSize \in 2 .. Pad - 3
ASSUME ServersAssumption == ISNs \subseteq 0 .. Word - 1 /\ Lengths \subseteq Nat

\* uint32 addition and subtraction of operands below Word.
Plus(x, y) == IF x + y < Word THEN x + y ELSE x + y - Word
Minus(x, y) == IF x >= y THEN x - y ELSE x - y + Word

-----------------------------------------------------------------------------
(* send_syn: the low bits of the id choose the slot, the high bits the port. *)

\* Plausible mistakes are the operators Bug_...: no action uses one.
\* The port from the bits above the port's own width.
Bug_PortOf(i) == PortBase + i \div (Slots * 2)
PortOf(i) == PortBase + i \div Slots
SeqOf(i) == (i % Slots) * Pad
Key(i) == <<PortOf(i), SeqOf(i)>>
Keys == {Key(i) : i \in 0 .. IdWord - 1}

(* Handle_pkt: what each kind of segment subtracts from its ack.            *)
\* The query is forgotten.
Bug_LookupSeq(kind, ack) ==
    CASE kind = "SA"           -> Minus(ack, 1)
      [] kind \in {"PA", "FPA"} -> Minus(ack, 1)
      [] kind = "FA"           -> Minus(ack, 2)
\* One rule for the DNS answer and the FIN-ACK.
Bug_LookupSeq_fin(kind, ack) ==
    CASE kind = "SA"                 -> Minus(ack, 1)
      [] kind \in {"PA", "FPA", "FA"} -> Minus(Minus(ack, 1), PayloadSize)
LookupSeq(kind, ack) ==
    CASE kind = "SA"           -> Minus(ack, 1)
      [] kind \in {"PA", "FPA"} -> Minus(Minus(ack, 1), PayloadSize)
      [] kind = "FA"           -> Minus(Minus(ack, 2), PayloadSize)

(* Handle_pkt: the size test on an answer of n bytes behind its two-byte,   *)
(* high byte first, length prefix.                                          *)
PrefixRead(n) == ((n \div Byte) % Byte) + (n % Byte) * Byte
SizeTestRefuses(n) == PrefixRead(n) = n

-----------------------------------------------------------------------------
VARIABLES
    ip_loop_id,  \* the next id
    id,          \* the id of the connection followed
    seg          \* the segment in flight

vars == <<ip_loop_id, id, seg>>

Flagged == {"SYN", "SA", "DNS", "PA", "FPA", "FIN", "FA", "earlyFA"}
None == [kind |-> "none", seq |-> 0, ack |-> 0, len |-> 0]

Init == ip_loop_id = 0 /\ id = 0 /\ seg = None

Becomes(kind, seq, ack, length) ==
    seg' = [kind |-> kind, seq |-> seq, ack |-> ack, len |-> length]

\* get_next_id and send_syn; the counter wraps like a uint32.
send_syn ==
    /\ id' = ip_loop_id
    /\ ip_loop_id' = IF ip_loop_id = IdWord - 1 THEN 0 ELSE ip_loop_id + 1
    /\ Becomes("SYN", SeqOf(ip_loop_id), 0, 0)

\* Send_ack_with_dns: the query acknowledges the server's SYN.
Send_ack_with_dns ==
    /\ seg.kind = "SA"
    /\ Becomes("DNS", seg.ack, Plus(seg.seq, 1), PayloadSize)
    /\ UNCHANGED <<ip_loop_id, id>>

\* Send_ack_pos_fin with fin set, after an answer that passes the size test.
Send_ack_pos_fin ==
    /\ seg.kind \in {"PA", "FPA"} /\ ~SizeTestRefuses(seg.len)
    /\ Becomes("FIN", seg.ack, Plus(seg.seq, 1), 0)
    /\ UNCHANGED <<ip_loop_id, id>>

(* The servers (external): TCP's own arithmetic.  A server may also close   *)
(* before it has seen our FIN; its FIN-ACK then acknowledges the query only. *)
SrvSynAck(isn) == /\ seg.kind = "SYN"
                  /\ Becomes("SA", isn, Plus(seg.seq, 1), 0)
SrvAnswer(kind, n) == /\ seg.kind = "DNS"
                        /\ Becomes(kind, seg.ack, Plus(seg.seq, seg.len), n)
SrvEarlyFin == /\ seg.kind = "DNS"
               /\ Becomes("earlyFA", seg.ack, Plus(seg.seq, seg.len), 0)
SrvFinAck == /\ seg.kind = "FIN"
             /\ Becomes("FA", seg.ack, Plus(seg.seq, 1), 0)

Server == /\ \/ \E isn \in ISNs : SrvSynAck(isn)
             \/ \E kind \in {"PA", "FPA"}, n \in Lengths : SrvAnswer(kind, n)
             \/ SrvEarlyFin
             \/ SrvFinAck
          /\ UNCHANGED <<ip_loop_id, id>>

Next == send_syn \/ Send_ack_with_dns \/ Send_ack_pos_fin \/ Server

Spec == Init /\ [][Next]_vars

-----------------------------------------------------------------------------
FromServer == {"SA", "PA", "FPA", "FA"}

\* tcp_scanner.go:198, 234, 283.  The handler of each segment finds the key the
\* root was stored under, also where the sequence numbers wrap.
LookupFindsConnection ==
    seg.kind \in FromServer => LookupSeq(seg.kind, seg.ack) = SeqOf(id)

\* tcp_scanner.go:27-34, 234.  The padding keeps the stages apart: whatever a
\* segment acknowledges, the rule of another stage yields the key of no
\* connection at all, and a FIN-ACK that does not acknowledge our FIN misses the
\* map.
OtherStagesMiss ==
    /\ \A kind \in FromServer, port \in PortBase .. PortBase + Ports - 1 :
          /\ seg.kind \in FromServer
          /\ {kind, seg.kind} # {"PA", "FPA"} /\ kind # seg.kind
          => <<port, LookupSeq(kind, seg.ack)>> \notin Keys
    /\ seg.kind = "earlyFA" =>
          \A port \in PortBase .. PortBase + Ports - 1 :
              <<port, LookupSeq("FA", seg.ack)>> \notin Keys

\* tcp_scanner.go:340-343.  No other id has the key of the connection followed.
KeysDistinct == \A i \in 0 .. IdWord - 1 : Key(i) = Key(id) => i = id
=============================================================================
