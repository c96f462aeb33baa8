------------------------------- MODULE TcpScan -------------------------------
(***************************************************************************)
(* The stateless TCP scanner: scanner/tcp/tcp_scanner.go together with the  *)
(* parts of scanner/base_scanner.go it runs on.                             *)
(*                                                                          *)
(* Every probed address is one connection, named by its id.  The map        *)
(* Scan_data.Items holds, under the key computed from the id (module        *)
(* TcpWire shows that the key determines the id), the root of a linked list *)
(* with one node per accepted segment: SYN, SYN-ACK, DNS answer.  Each      *)
(* captured packet is handled by a goroutine of its own.  Only the lookup   *)
(* of the root happens under Scan_data.Mu; walking the list, testing its    *)
(* last node and linking a new one do not, so handlers of one connection    *)
(* race, and so do a handler and the writer.  Every read and every write of *)
(* a Next pointer is a step of its own here.                                *)
(*                                                                          *)
(* A node is named by what allocates it: a root by its connection's id, any *)
(* other node by the handler goroutine that links it.                       *)
(***************************************************************************)
EXTENDS Naturals, Sequences, FiniteSets

CONSTANTS
    MaxConns,  \* bound: addresses probed, their ids are 0 .. MaxConns-1
    Handlers,  \* bound: one packet-handling goroutine per delivered packet
    Routines,  \* the init_tcp goroutines (config.Number_routines)
    WriteCap,  \* capacity of Write_chan (4096 in the code)
    Bodies,    \* the kinds of DNS answers a server may send
    NULL       \* the nil pointer

ASSUME ConnsAssumption == MaxConns \in Nat \ {0}
ASSUME CapAssumption == WriteCap \in Nat \ {0}
ASSUME BodiesAssumption == Bodies \subseteq {"ips", "other", "bad"}

Ids == 0 .. MaxConns - 1
Nodes == Ids \cup Handlers

ASSUME NodesAssumption == /\ Ids \cap Handlers = {}
                          /\ NULL \notin Nodes

(***************************************************************************)
(* Segments from the servers, by their flags: SYN-ACK, PSH-ACK,             *)
(* FIN-PSH-ACK and FIN-ACK.  A DNS answer carries a body: "ips" has only    *)
(* addresses, "other" some answer without an address, "bad" is refused      *)
(* before the lookup (too short, refused by the size test, not DNS).        *)
(***************************************************************************)
Answers == {"PA", "FPA"}
Packets == [id : Ids, kind : {"SA", "FA"}, body : {"none"}]
             \cup [id : Ids, kind : Answers, body : Bodies]
Segment(i, k) == [id |-> i, kind |-> k, body |-> "none"]

\* The goroutines the WaitGroup Wg counts, beside the generator and
\* Close_handle, which are in module ScanLifecycle.
Waited == Routines \cup {"capture", "writer", "timeout"}

VARIABLES
    nextId,      \* ip_loop_id.id
    rid,         \* id an init_tcp goroutine took and has not sent a SYN for
    Items,       \* the keys of Scan_data.Items, as connection ids
    expired,     \* connections whose root timestamp is over 10 s old
    next,        \* the Next pointer of every node
    hpc, hpkt, hcur,   \* handlers: control, packet, the node reached
    Write_chan,  \* queue of roots
    wpc, wroot, wcur,  \* Write_results: control, root and node being written
    file,        \* rows of the result file, each the node it was made from
    stopped,     \* Stop_chan is closed
    live,        \* members of Waited that have not returned
    sent,        \* segments this scanner sent: <<id, "SYN" | "DNS" | "FIN">>
    wire         \* segments the servers sent; a segment stays deliverable,
                 \* so it may be lost, delayed, reordered or duplicated

connVars == <<nextId, rid, Items, expired>>
handlerVars == <<hpc, hpkt, hcur>>
writerVars == <<wpc, wroot, wcur, file>>
vars == <<connVars, next, handlerVars, Write_chan, writerVars, stopped, live,
          sent, wire>>

\* The TCP flags recorded in a node.
Flags(n) == IF n \in Ids THEN "S" ELSE hpkt[n].kind
\* The connection a node was made for.
Conn(n) == IF n \in Ids THEN n ELSE hpkt[n].id

Init ==
    /\ nextId = 0
    /\ rid = [r \in Routines |-> NULL]
    /\ Items = {} /\ expired = {}
    /\ next = [n \in Nodes |-> NULL]
    /\ hpc = [g \in Handlers |-> "free"]
    /\ hpkt = [g \in Handlers |-> NULL]
    /\ hcur = [g \in Handlers |-> NULL]
    /\ Write_chan = <<>>
    /\ wpc = "select" /\ wroot = NULL /\ wcur = NULL /\ file = <<>>
    /\ stopped = FALSE /\ live = Waited
    /\ sent = {} /\ wire = {}

Running == live # {}

-----------------------------------------------------------------------------
(***************************************************************************)
(* init_tcp: take an address, take the next id, send the SYN.               *)
(***************************************************************************)

\* Plausible mistakes are the operators Bug_...: no action uses one.

\* The counter is read and not advanced.
Bug_get_next_id(r) ==
    /\ r \in live /\ rid[r] = NULL /\ nextId < MaxConns
    /\ rid' = [rid EXCEPT ![r] = nextId]
    /\ UNCHANGED <<nextId, Items, expired, next, handlerVars, Write_chan,
                   writerVars, stopped, live, sent, wire>>

\* get_next_id, under its own mutex.
get_next_id(r) ==
    /\ r \in live /\ rid[r] = NULL /\ nextId < MaxConns
    /\ rid' = [rid EXCEPT ![r] = nextId]
    /\ nextId' = nextId + 1
    /\ UNCHANGED <<Items, expired, next, handlerVars, Write_chan, writerVars,
                   stopped, live, sent, wire>>

\* send_syn: the root enters the map under Scan_data.Mu, then the SYN leaves.
send_syn(r) ==
    /\ r \in live /\ rid[r] # NULL
    /\ Items' = Items \cup {rid[r]}
    /\ next' = [next EXCEPT ![rid[r]] = NULL]
    /\ sent' = sent \cup {<<rid[r], "SYN">>}
    /\ rid' = [rid EXCEPT ![r] = NULL]
    /\ expired' = expired \ {rid[r]}
    /\ UNCHANGED <<nextId, handlerVars, Write_chan, writerVars, stopped, live,
                   wire>>

-----------------------------------------------------------------------------
(***************************************************************************)
(* Handle_pkt, one goroutine per packet.                                    *)
(***************************************************************************)

\* Leaving Handle_pkt without having changed anything.
Drop(g) == hpc' = [hpc EXCEPT ![g] = "dropped"]
Goto(g, label) == hpc' = [hpc EXCEPT ![g] = label]

\* Packet_capture hands a packet to a new goroutine.
Packet_capture(g, p) ==
    /\ "capture" \in live /\ hpc[g] = "free" /\ p \in wire
    /\ hpkt' = [hpkt EXCEPT ![g] = p]
    /\ IF p.body = "bad" THEN Drop(g) ELSE Goto(g, "lookup")
    /\ UNCHANGED <<connVars, next, hcur, Write_chan, writerVars, stopped, live,
                   sent, wire>>

\* The map is read under Scan_data.Mu; the pointer found outlives the lock.
Lookup(g) ==
    /\ Running /\ hpc[g] = "lookup"
    /\ IF hpkt[g].id \in Items
       THEN Goto(g, "walk") /\ hcur' = [hcur EXCEPT ![g] = hpkt[g].id]
       ELSE Drop(g) /\ UNCHANGED hcur
    /\ UNCHANGED <<connVars, next, hpkt, Write_chan, writerVars, stopped, live,
                   sent, wire>>

\* last(): one pointer read per step.
Walk(g) ==
    /\ Running /\ hpc[g] = "walk" /\ next[hcur[g]] # NULL
    /\ hcur' = [hcur EXCEPT ![g] = next[hcur[g]]]
    /\ UNCHANGED <<connVars, next, hpc, hpkt, Write_chan, writerVars, stopped,
                   live, sent, wire>>

\* The checks against repeated segments are forgotten, or accept one kind of
\* node too many.
Bug_SynAckExpected(g) == TRUE
Bug_AnswerExpected(g) == Flags(hcur[g]) # "PA" /\ hpkt[g].body = "ips"
Bug_FinExpected(g) == Flags(hcur[g]) \in Answers

\* A handler may link its packet behind the node it found last.
SynAckExpected(g) == hcur[g] \in Ids
AnswerExpected(g) == Flags(hcur[g]) = "SA" /\ hpkt[g].body = "ips"
FinExpected(g) == Flags(hcur[g]) = "PA"

AtLast(g) == Running /\ hpc[g] = "walk" /\ next[hcur[g]] = NULL

\* The end of the list is reached: the checks on its last node.
Check_SYN_ACK(g) ==
    /\ AtLast(g) /\ hpkt[g].kind = "SA"
    /\ IF SynAckExpected(g) THEN Goto(g, "link") ELSE Drop(g)
    /\ UNCHANGED <<connVars, next, hpkt, hcur, Write_chan, writerVars, stopped,
                   live, sent, wire>>

Check_Answer(g) ==
    /\ AtLast(g) /\ hpkt[g].kind \in Answers
    /\ IF AnswerExpected(g) THEN Goto(g, "link") ELSE Drop(g)
    /\ UNCHANGED <<connVars, next, hpkt, hcur, Write_chan, writerVars, stopped,
                   live, sent, wire>>

\* A FIN-ACK behind a PSH-ACK completes the connection; any other is answered
\* with a FIN and dropped.
Check_FIN_ACK(g) ==
    /\ AtLast(g) /\ hpkt[g].kind = "FA"
    /\ IF FinExpected(g)
       THEN Goto(g, "enqueue") /\ UNCHANGED sent
       ELSE Drop(g) /\ sent' = sent \cup {<<hpkt[g].id, "FIN">>}
    /\ UNCHANGED <<connVars, next, hpkt, hcur, Write_chan, writerVars, stopped,
                   live, wire>>

\* last_data_item.Next = &data, then the reply: the DNS query after a SYN-ACK,
\* our FIN after an answer.  A FIN-PSH-ACK also queues the connection.
Link_SYN_ACK(g) ==
    /\ Running /\ hpc[g] = "link" /\ hpkt[g].kind = "SA"
    /\ next' = [next EXCEPT ![hcur[g]] = g]
    /\ sent' = sent \cup {<<hpkt[g].id, "DNS">>}
    /\ Goto(g, "done")
    /\ UNCHANGED <<connVars, hpkt, hcur, Write_chan, writerVars, stopped, live,
                   wire>>

\* The answer is linked behind the root, not behind the last node.
Bug_Link_Answer(g) ==
    /\ Running /\ hpc[g] = "link" /\ hpkt[g].kind \in Answers
    /\ next' = [next EXCEPT ![hpkt[g].id] = g]
    /\ sent' = sent \cup {<<hpkt[g].id, "FIN">>}
    /\ Goto(g, IF hpkt[g].kind = "FPA" THEN "enqueue" ELSE "done")
    /\ UNCHANGED <<connVars, hpkt, hcur, Write_chan, writerVars, stopped, live,
                   wire>>

Link_Answer(g) ==
    /\ Running /\ hpc[g] = "link" /\ hpkt[g].kind \in Answers
    /\ next' = [next EXCEPT ![hcur[g]] = g]
    /\ sent' = sent \cup {<<hpkt[g].id, "FIN">>}
    /\ Goto(g, IF hpkt[g].kind = "FPA" THEN "enqueue" ELSE "done")
    /\ UNCHANGED <<connVars, hpkt, hcur, Write_chan, writerVars, stopped, live,
                   wire>>

\* A send that gives up when the channel is full, and one that never uses the
\* last slot.
Bug_Enqueue_nonblocking(g) ==
    /\ Running /\ hpc[g] = "enqueue"
    /\ Write_chan' = IF Len(Write_chan) < WriteCap
                     THEN Append(Write_chan, hpkt[g].id) ELSE Write_chan
    /\ Goto(g, "done")
    /\ UNCHANGED <<connVars, next, hpkt, hcur, writerVars, stopped, live, sent,
                   wire>>
Bug_Enqueue_full(g) ==
    /\ Running /\ hpc[g] = "enqueue" /\ Len(Write_chan) + 1 < WriteCap
    /\ Write_chan' = Append(Write_chan, hpkt[g].id)
    /\ Goto(g, "done")
    /\ UNCHANGED <<connVars, next, hpkt, hcur, writerVars, stopped, live, sent,
                   wire>>

\* Write_chan <- root, blocking while the channel is full.
Enqueue(g) ==
    /\ Running /\ hpc[g] = "enqueue" /\ Len(Write_chan) < WriteCap
    /\ Write_chan' = Append(Write_chan, hpkt[g].id)
    /\ Goto(g, "done")
    /\ UNCHANGED <<connVars, next, hpkt, hcur, writerVars, stopped, live, sent,
                   wire>>

-----------------------------------------------------------------------------
(***************************************************************************)
(* Write_results and Write_item: the rows of the list, node by node, then   *)
(* the deletion of the map entry under Scan_data.Mu.                        *)
(***************************************************************************)
Write_take ==
    /\ "writer" \in live /\ wpc = "select" /\ Write_chan # <<>>
    /\ wroot' = Head(Write_chan) /\ wcur' = Head(Write_chan)
    /\ Write_chan' = Tail(Write_chan)
    /\ wpc' = "rows"
    /\ UNCHANGED <<connVars, next, handlerVars, file, stopped, live, sent, wire>>

\* The loop moves on without testing for nil.
Bug_Write_row ==
    /\ "writer" \in live /\ wpc = "rows"
    /\ file' = Append(file, wcur)
    /\ wcur' = IF wcur = NULL THEN NULL ELSE next[wcur]
    /\ wpc' = IF wcur = NULL THEN "delete" ELSE "rows"
    /\ UNCHANGED <<connVars, next, handlerVars, Write_chan, wroot, stopped, live,
                   sent, wire>>

\* One row; the pointer to the next node is read after it.
Write_row ==
    /\ "writer" \in live /\ wpc = "rows"
    /\ file' = Append(file, wcur)
    /\ wcur' = next[wcur]
    /\ wpc' = IF next[wcur] = NULL THEN "delete" ELSE "rows"
    /\ UNCHANGED <<connVars, next, handlerVars, Write_chan, wroot, stopped, live,
                   sent, wire>>

Write_delete ==
    /\ "writer" \in live /\ wpc = "delete"
    /\ Items' = Items \ {wroot}
    /\ wpc' = "select" /\ wroot' = NULL
    /\ UNCHANGED <<nextId, rid, expired, next, handlerVars, Write_chan, wcur,
                   file, stopped, live, sent, wire>>

(***************************************************************************)
(* Timeout.  The clock is abstracted to the set of connections whose root   *)
(* is over 10 seconds old: Age moves one there, at any time after its SYN,  *)
(* and a sweep, under Scan_data.Mu throughout, deletes those in the map.    *)
(***************************************************************************)
Age(i) ==
    /\ Running /\ i \in Items \ expired
    /\ expired' = expired \cup {i}
    /\ UNCHANGED <<nextId, rid, Items, next, handlerVars, Write_chan, writerVars,
                   stopped, live, sent, wire>>

\* The sweep spares whatever got a response.
Bug_Timeout ==
    /\ "timeout" \in live
    /\ Items \cap expired # {}
    /\ Items' = Items \ {i \in expired : next[i] = NULL}
    /\ UNCHANGED <<nextId, rid, expired, next, handlerVars, Write_chan,
                   writerVars, stopped, live, sent, wire>>

Timeout ==
    /\ "timeout" \in live
    /\ Items \cap expired # {}
    /\ Items' = Items \ expired
    /\ UNCHANGED <<nextId, rid, expired, next, handlerVars, Write_chan,
                   writerVars, stopped, live, sent, wire>>

(***************************************************************************)
(* The end.  Stop_chan is closed by the generator or by the SIGINT handler  *)
(* (module ScanLifecycle).  A goroutine returns when its select picks the   *)
(* closed channel, also while its other channel is ready.                   *)
(***************************************************************************)
Stop ==
    /\ ~stopped
    /\ stopped' = TRUE
    /\ UNCHANGED <<connVars, next, handlerVars, Write_chan, writerVars, live,
                   sent, wire>>

\* The init_tcp goroutines look at Stop_chan only when no address is left.
Bug_AtSelect(t) == CASE t \in Routines -> rid[t] = NULL /\ nextId = MaxConns
                     [] t = "writer" -> wpc = "select"
                     [] OTHER -> TRUE

AtSelect(t) == CASE t \in Routines -> rid[t] = NULL
                 [] t = "writer" -> wpc = "select"
                 [] OTHER -> TRUE

Return(t) ==
    /\ stopped /\ t \in live /\ AtSelect(t)
    /\ live' = live \ {t}
    /\ UNCHANGED <<connVars, next, handlerVars, Write_chan, writerVars, stopped,
                   sent, wire>>

\* Wg.Wait() has returned and the process is gone.
Terminated == live = {} /\ UNCHANGED vars

-----------------------------------------------------------------------------
(***************************************************************************)
(* The servers (external).  A server answers a SYN with a SYN-ACK, the DNS  *)
(* query with one answer, in a PSH-ACK, a FIN-PSH-ACK, or a PSH-ACK sent    *)
(* again as FIN-PSH-ACK once it has closed, and acknowledges our FIN with a *)
(* FIN-ACK.  The acknowledgement numbers make any other segment miss the    *)
(* lookup.                                                                  *)
(***************************************************************************)
Server(p) ==
    /\ Running /\ p \notin wire
    /\ \/ p.kind = "SA" /\ <<p.id, "SYN">> \in sent
       \/ /\ p.kind \in Answers /\ <<p.id, "DNS">> \in sent
          /\ \A q \in wire :
                q.id = p.id /\ q.kind \in Answers => q.body = p.body
       \/ p.kind = "FA" /\ <<p.id, "FIN">> \in sent
    /\ wire' = wire \cup {p}
    /\ UNCHANGED <<connVars, next, handlerVars, Write_chan, writerVars, stopped,
                   live, sent>>

-----------------------------------------------------------------------------
Handle_pkt(g) ==
    \/ Lookup(g) \/ Walk(g)
    \/ Check_SYN_ACK(g) \/ Check_Answer(g) \/ Check_FIN_ACK(g)
    \/ Link_SYN_ACK(g) \/ Link_Answer(g) \/ Enqueue(g)

Write_results == Write_take \/ Write_row \/ Write_delete

Next ==
    \/ \E r \in Routines : get_next_id(r) \/ send_syn(r)
    \/ \E g \in Handlers, p \in Packets : Packet_capture(g, p)
    \/ \E g \in Handlers : Handle_pkt(g)
    \/ Write_results
    \/ \E i \in Ids : Age(i)
    \/ Timeout
    \/ Stop
    \/ \E t \in Waited : Return(t)
    \/ \E p \in Packets : Server(p)
    \/ Terminated

Spec == Init /\ [][Next]_vars
-----------------------------------------------------------------------------
(***************************************************************************)
(* Properties.                                                              *)
(***************************************************************************)

HandlerStates == {"free", "lookup", "walk", "link", "enqueue", "done", "dropped"}

\* Type correctness of the scanner's state; the channel respects its capacity
\* and every pointer reached by a handler or the writer is a node.
TypeOK ==
    /\ nextId \in 0 .. MaxConns
    /\ rid \in [Routines -> Ids \cup {NULL}]
    /\ Items \in SUBSET Ids /\ expired \in SUBSET Ids
    /\ next \in [Nodes -> Handlers \cup {NULL}]
    /\ hpc \in [Handlers -> HandlerStates]
    /\ hpkt \in [Handlers -> Packets \cup {NULL}]
    /\ hcur \in [Handlers -> Nodes \cup {NULL}]
    /\ Write_chan \in Seq(Ids) /\ Len(Write_chan) <= WriteCap
    /\ wpc \in {"select", "rows", "delete"}
    /\ wroot \in Ids \cup {NULL} /\ wcur \in Nodes \cup {NULL}
    /\ file \in Seq(Nodes)
    /\ stopped \in BOOLEAN /\ live \in SUBSET Waited
    /\ sent \in SUBSET (Ids \X {"SYN", "DNS", "FIN"})
    /\ wire \in SUBSET Packets

\* The handlers whose packet has become a node.
Linked == {g \in Handlers : /\ hpc[g] \in {"enqueue", "done"}
                            /\ hpkt[g].kind \in {"SA"} \cup Answers}

\* The connections with a node of one of the kinds K.
LinkedFor(i, K) == {g \in Linked : hpkt[g].id = i /\ hpkt[g].kind \in K}

\* A node n may be followed by node m: both belong to one connection, and
\* flags go SYN, SYN-ACK, answer.
MayFollow(n, m) ==
    /\ m \in Linked /\ Conn(m) = Conn(n)
    /\ \/ Flags(n) = "S" /\ Flags(m) = "SA"
       \/ Flags(n) = "SA" /\ Flags(m) \in Answers

\* tcp_scanner.go:207-227, 292-329.  However the unlocked handlers of all
\* connections interleave, a list never mixes two connections, never holds
\* more than a SYN, one SYN-ACK and one DNS answer, and holds them in this order.
ListsOrdered ==
    \A n \in Nodes : next[n] # NULL => MayFollow(n, next[n])

\* tcp_scanner.go:166-169.  The result file is a sequence of records, each the
\* SYN row of a connection followed by at most its SYN-ACK row and its answer
\* row, also when a handler relinks the list while the writer walks it.
RecordsOrdered ==
    \A k \in 1 .. Len(file) :
        file[k] \in Ids \/ (k > 1 /\ MayFollow(file[k - 1], file[k]))

\* tcp_scanner.go:208-211.  As long as the check for a repeated SYN-ACK kept
\* all but one from being linked, the record of a queued connection is
\* complete: its list reaches the DNS answer when the writer takes it.
QueuedComplete ==
    \A i \in Ids :
        /\ \E k \in 1 .. Len(Write_chan) : Write_chan[k] = i
        /\ Cardinality(LinkedFor(i, {"SA"})) <= 1
        => next[i] # NULL /\ next[next[i]] # NULL

\* tcp_scanner.go:245-249, 332-336.  A connection that answered with one
\* FIN-PSH-ACK is queued for one record: its FIN-ACKs, which arrive because the
\* scanner replied with a FIN while the entry is still in the map, queue no more.
FinPshAckRecordedOnce ==
    \A i \in Ids :
        LinkedFor(i, {"PA"}) = {} /\ Cardinality(LinkedFor(i, {"FPA"})) <= 1
        => Cardinality({g \in Handlers : /\ hpc[g] \in {"enqueue", "done"}
                                         /\ hpkt[g].id = i
                                         /\ hpkt[g].kind \in {"FA", "FPA"}}) <= 1

Count(i, seq) == Cardinality({k \in 1 .. Len(seq) : seq[k] = i})

\* base_scanner.go:80-87, tcp_scanner.go:159-174.  The records of a connection
\* that are written, queued or about to be written are exactly as many as the
\* FIN-ACKs and FIN-PSH-ACKs that completed it: the channel and the writer
\* neither lose nor repeat one before the program ends.
RecordsConserved ==
    \A i \in Ids :
        Count(i, file) + Count(i, Write_chan)
            + (IF wpc = "rows" /\ wcur = i THEN 1 ELSE 0)
        = Cardinality({g \in Handlers : /\ hpc[g] = "done"
                                        /\ hpkt[g].id = i
                                        /\ hpkt[g].kind \in {"FA", "FPA"}})

\* tcp_scanner.go:345-365, 402-408.  The collision the comment at line 345 warns
\* of cannot happen: an id about to be used by an init_tcp goroutine is held by
\* no other, is not in the map, and has no list that send_syn would cut off.
FreshKey ==
    \A r \in Routines : rid[r] # NULL =>
        /\ rid[r] \notin Items /\ next[rid[r]] = NULL
        /\ \A q \in Routines \ {r} : rid[q] # rid[r]

\* tcp_scanner.go:208-211 means to link a SYN-ACK once, however often it is
\* received.  Violated: two handlers can pass the check before either links.
SynAckLinkedOnce == \A i \in Ids : Cardinality(LinkedFor(i, {"SA"})) <= 1

-----------------------------------------------------------------------------
(***************************************************************************)
(* Fairness.  The Go scheduler runs every goroutine that can run, the       *)
(* select of Timeout is woken every ten seconds, time passes, and a select  *)
(* whose Stop_chan is closed picks it with a probability above zero each    *)
(* time it is reached, so it returns in the end.  Nothing is assumed of     *)
(* the servers or the network, nor that anybody stops the scan.             *)
(***************************************************************************)
Fairness ==
    /\ \A r \in Routines : WF_vars(send_syn(r))
    /\ \A g \in Handlers : WF_vars(Handle_pkt(g))
    /\ WF_vars(Write_results)
    /\ \A i \in Ids : WF_vars(Age(i))
    /\ WF_vars(Timeout)
    /\ \A t \in Waited : SF_vars(Return(t))

FairSpec == Spec /\ Fairness

\* base_scanner.go:103-121, tcp_scanner.go:170-173.  No entry stays in the map:
\* the writer or a sweep removes it, unless the scan ends first.
EntriesLeave == \A i \in Ids : i \in Items ~> i \notin Items \/ stopped

\* tcp_scanner.go:253, 335.  A handler blocked on the full Write_chan gets
\* through and its connection is taken by the writer, unless the scan ends.
EnqueuedIsTaken ==
    \A g \in Handlers :
        hpc[g] = "enqueue"
            ~> \/ stopped
               \/ hpc[g] = "done" /\ Count(hpkt[g].id, Write_chan) = 0

\* base_scanner.go:84-85, 117-118, tcp_scanner.go:433-434.  Once Stop_chan is
\* closed every goroutine of the WaitGroup returns and Start_scan ends.
StopEnds == stopped ~> live = {}
=============================================================================
