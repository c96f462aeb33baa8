------------------------------- MODULE UdpScan -------------------------------
(***************************************************************************)
(* The UDP scanner: scanner/udp/udp_scanner.go together with the parts of   *)
(* scanner/base_scanner.go it runs on.                                      *)
(*                                                                          *)
(* Every probed address is one probe, numbered from 1.  It is registered in *)
(* Scan_data.Items under the source port and the DNS id of its query, a     *)
(* pair that update_sync_init counts through and uses again from the start  *)
(* when all are used up.  The handler of a response takes the entry out of  *)
(* the map and fills it under one lock, so what follows works on an item    *)
(* nobody else can reach.                                                   *)
(***************************************************************************)
EXTENDS Naturals, Sequences

CONSTANTS
    PortMin, PortMax, \* config.Port_min, config.Port_max
    MaxDnsId,         \* the largest DNS id (0xFFFF in the code)
    MaxProbes,        \* bound: addresses probed
    Handlers,         \* bound: one packet-handling goroutine per packet
    Routines,         \* the init_udp goroutines (config.Number_routines)
    WriteCap,         \* capacity of Write_chan (4096 in the code)
    NULL              \* the nil pointer

ASSUME PortAssumption == PortMin \in Nat /\ PortMax \in Nat /\ PortMin <= PortMax
ASSUME SizeAssumption == /\ MaxDnsId \in Nat \ {0} /\ MaxProbes \in Nat
                         /\ WriteCap \in Nat \ {0}

Probes == 1 .. MaxProbes
Ports == PortMin .. PortMax
DnsIds == 0 .. MaxDnsId
Keys == Ports \X DnsIds
NumKeys == (PortMax - PortMin + 1) * (MaxDnsId + 1)

ASSUME NullAssumption == NULL \notin Probes /\ NULL \notin Keys

\* The goroutines the WaitGroup Wg counts, beside the generator and Close_handle.
Waited == Routines \cup {"capture", "writer", "timeout"}

VARIABLES
    ip_loop_id,   \* [id, port, dnsid]: what the last probe got
    rpc, taken,   \* init_udp: control state, the probe being sent
    asked,        \* the port and the DNS id of a probe's query
    Items,        \* Scan_data.Items: the probe registered under each key
    expired,      \* probes sent over 10 s ago
    answer,       \* the item's response fields: the probe it really answers
    hpc, hpkt, hitem, \* handlers: control, the probe the packet answers, the item
    Write_chan,
    file,         \* rows of the result file (or of Result_data_internal)
    stopped,      \* Stop_chan is closed
    live,         \* members of Waited that have not returned
    sent          \* probes whose query left

probeVars == <<ip_loop_id, rpc, taken, asked>>
mapVars == <<Items, expired, answer>>
handlerVars == <<hpc, hpkt, hitem>>
endVars == <<stopped, live>>
vars == <<probeVars, mapVars, handlerVars, Write_chan, file, endVars, sent>>

Init ==
    /\ ip_loop_id = [id |-> 0, port |-> PortMin, dnsid |-> 0]
    /\ rpc = [r \in Routines |-> "select"]
    /\ taken = [r \in Routines |-> NULL]
    /\ asked = [p \in Probes |-> NULL]
    /\ Items = [k \in Keys |-> NULL]
    /\ expired = {}
    /\ answer = [p \in Probes |-> NULL]
    /\ hpc = [g \in Handlers |-> "free"]
    /\ hpkt = [g \in Handlers |-> NULL]
    /\ hitem = [g \in Handlers |-> NULL]
    /\ Write_chan = <<>> /\ file = <<>>
    /\ stopped = FALSE /\ live = Waited
    /\ sent = {}

Running == live # {}

-----------------------------------------------------------------------------
(***************************************************************************)
(* init_udp.                                                                *)
(***************************************************************************)

\* Plausible mistakes are the operators Bug_...: no action uses one.
\* The last port is left out.
Bug_NextLoop_port(l) ==
    LET port == IF l.port + 1 >= PortMax THEN PortMin ELSE l.port + 1
    IN  IF l.dnsid + 1 > MaxDnsId
        THEN [id |-> l.id + 1, port |-> port, dnsid |-> 0]
        ELSE [id |-> l.id + 1, port |-> l.port, dnsid |-> l.dnsid + 1]

\* The next id, and the next DNS id or else the next port; both wrap around.
NextLoop(l) ==
    LET port == IF l.port + 1 > PortMax THEN PortMin ELSE l.port + 1
    IN  IF l.dnsid + 1 > MaxDnsId
        THEN [id |-> l.id + 1, port |-> port, dnsid |-> 0]
        ELSE [id |-> l.id + 1, port |-> l.port, dnsid |-> l.dnsid + 1]

\* An address that is not excluded came from Ip_chan: update_sync_init, under its
\* own mutex.
update_sync_init(r) ==
    /\ r \in live /\ rpc[r] = "select" /\ ip_loop_id.id < MaxProbes
    /\ LET l == NextLoop(ip_loop_id)
       IN  /\ ip_loop_id' = l
           /\ taken' = [taken EXCEPT ![r] = l.id]
           /\ asked' = [asked EXCEPT ![l.id] = <<l.port, l.dnsid>>]
    /\ rpc' = [rpc EXCEPT ![r] = "register"]
    /\ UNCHANGED <<mapVars, handlerVars, Write_chan, file, endVars, sent>>

\* send_dns, under Scan_data.Mu: an entry under the same key is replaced.
send_dns(r) ==
    /\ r \in live /\ rpc[r] = "register"
    /\ Items' = [Items EXCEPT ![asked[taken[r]]] = taken[r]]
    /\ rpc' = [rpc EXCEPT ![r] = "send"]
    /\ UNCHANGED <<ip_loop_id, taken, asked, expired, answer, handlerVars,
                   Write_chan, file, endVars, sent>>

\* The query leaves before it is registered.
Bug_Send_udp_pkt(r) ==
    /\ r \in live /\ rpc[r] \in {"register", "send"}
    /\ sent' = sent \cup {taken[r]}
    /\ IF rpc[r] = "send"
       THEN rpc' = [rpc EXCEPT ![r] = "select"] /\ taken' = [taken EXCEPT ![r] = NULL]
       ELSE UNCHANGED <<rpc, taken>>
    /\ UNCHANGED <<ip_loop_id, asked, mapVars, handlerVars, Write_chan, file,
                   endVars>>

\* The query leaves.
Send_udp_pkt(r) ==
    /\ r \in live /\ rpc[r] = "send"
    /\ sent' = sent \cup {taken[r]}
    /\ rpc' = [rpc EXCEPT ![r] = "select"]
    /\ taken' = [taken EXCEPT ![r] = NULL]
    /\ UNCHANGED <<ip_loop_id, asked, mapVars, handlerVars, Write_chan, file,
                   endVars>>

-----------------------------------------------------------------------------
(***************************************************************************)
(* Handle_pkt, one goroutine per packet.  Any query that left may be        *)
(* answered, late, repeatedly or never (the servers and the network are     *)
(* external).  A packet without a DNS message, or from another port, goes   *)
(* no further.                                                              *)
(***************************************************************************)
Packet_capture(g, q) ==
    /\ "capture" \in live /\ hpc[g] = "free" /\ q \in sent
    /\ \E pc \in {"lookup", "dropped"} : hpc' = [hpc EXCEPT ![g] = pc]
    /\ hpkt' = [hpkt EXCEPT ![g] = q]
    /\ UNCHANGED <<probeVars, mapVars, hitem, Write_chan, file, endVars, sent>>

\* The entry is filled and stays in the map.
Bug_Lookup(g) ==
    /\ Running /\ hpc[g] = "lookup"
    /\ LET k == asked[hpkt[g]]
           p == Items[k]
       IN  IF p = NULL
           THEN hpc' = [hpc EXCEPT ![g] = "missed"] /\ UNCHANGED <<answer, hitem>>
           ELSE /\ answer' = [answer EXCEPT ![p] = hpkt[g]]
                /\ hitem' = [hitem EXCEPT ![g] = p]
                /\ hpc' = [hpc EXCEPT ![g] = "enqueue"]
    /\ UNCHANGED <<probeVars, Items, expired, hpkt, Write_chan, file, endVars, sent>>

\* Under Scan_data.Mu: find the entry, delete it, fill in the response.
Lookup(g) ==
    /\ Running /\ hpc[g] = "lookup"
    /\ LET k == asked[hpkt[g]]
           p == Items[k]
       IN  IF p = NULL
           THEN hpc' = [hpc EXCEPT ![g] = "missed"]
                /\ UNCHANGED <<Items, answer, hitem>>
           ELSE /\ Items' = [Items EXCEPT ![k] = NULL]
                /\ answer' = [answer EXCEPT ![p] = hpkt[g]]
                /\ hitem' = [hitem EXCEPT ![g] = p]
                /\ hpc' = [hpc EXCEPT ![g] = "enqueue"]
    /\ UNCHANGED <<probeVars, expired, hpkt, Write_chan, file, endVars, sent>>

\* A send that gives up when the channel is full.
Bug_Enqueue_nonblocking(g) ==
    /\ Running /\ hpc[g] = "enqueue"
    /\ Write_chan' = IF Len(Write_chan) < WriteCap
                     THEN Append(Write_chan, hitem[g]) ELSE Write_chan
    /\ hpc' = [hpc EXCEPT ![g] = "done"]
    /\ UNCHANGED <<probeVars, mapVars, hpkt, hitem, file, endVars, sent>>

\* Write_chan <- item, blocking while the channel is full.
Enqueue(g) ==
    /\ Running /\ hpc[g] = "enqueue" /\ Len(Write_chan) < WriteCap
    /\ Write_chan' = Append(Write_chan, hitem[g])
    /\ hpc' = [hpc EXCEPT ![g] = "done"]
    /\ UNCHANGED <<probeVars, mapVars, hpkt, hitem, file, endVars, sent>>

\* Write_results with Write_item; Store_internal keeps the item in memory.
Write_item ==
    /\ "writer" \in live /\ Write_chan # <<>>
    /\ file' = Append(file, Head(Write_chan))
    /\ Write_chan' = Tail(Write_chan)
    /\ UNCHANGED <<probeVars, mapVars, handlerVars, endVars, sent>>

-----------------------------------------------------------------------------
(***************************************************************************)
(* Timeout and the end, as in module TcpScan: Age stands for the clock.     *)
(***************************************************************************)
Registered == {p \in Probes : \E k \in Keys : Items[k] = p}

Age(p) ==
    /\ Running /\ p \in Registered \ expired
    /\ expired' = expired \cup {p}
    /\ UNCHANGED <<probeVars, Items, answer, handlerVars, Write_chan, file,
                   endVars, sent>>

\* A sweep, under Scan_data.Mu throughout.
Timeout ==
    /\ "timeout" \in live /\ Registered \cap expired # {}
    /\ Items' = [k \in Keys |-> IF Items[k] \in expired THEN NULL ELSE Items[k]]
    /\ UNCHANGED <<probeVars, expired, answer, handlerVars, Write_chan, file,
                   endVars, sent>>

Stop ==
    /\ ~stopped /\ stopped' = TRUE
    /\ UNCHANGED <<probeVars, mapVars, handlerVars, Write_chan, file, live, sent>>

\* A goroutine at its select picks the closed Stop_chan.
Return(t) ==
    /\ stopped /\ t \in live
    /\ t \in Routines => rpc[t] = "select"
    /\ live' = live \ {t}
    /\ UNCHANGED <<probeVars, mapVars, handlerVars, Write_chan, file, stopped, sent>>

Terminated == live = {} /\ UNCHANGED vars

-----------------------------------------------------------------------------
Next ==
    \/ \E r \in Routines : update_sync_init(r) \/ send_dns(r) \/ Send_udp_pkt(r)
    \/ \E g \in Handlers, q \in Probes : Packet_capture(g, q)
    \/ \E g \in Handlers : Lookup(g) \/ Enqueue(g)
    \/ Write_item
    \/ \E p \in Probes : Age(p)
    \/ Timeout
    \/ Stop
    \/ \E t \in Waited : Return(t)
    \/ Terminated

Spec == Init /\ [][Next]_vars

-----------------------------------------------------------------------------
(***************************************************************************)
(* Properties.                                                              *)
(***************************************************************************)
TypeOK ==
    /\ ip_loop_id \in [id : 0 .. MaxProbes, port : Ports, dnsid : DnsIds]
    /\ rpc \in [Routines -> {"select", "register", "send"}]
    /\ taken \in [Routines -> Probes \cup {NULL}]
    /\ asked \in [Probes -> Keys \cup {NULL}]
    /\ Items \in [Keys -> Probes \cup {NULL}]
    /\ expired \in SUBSET Probes
    /\ answer \in [Probes -> Probes \cup {NULL}]
    /\ hpc \in [Handlers -> {"free", "lookup", "missed", "enqueue", "done", "dropped"}]
    /\ hpkt \in [Handlers -> Probes \cup {NULL}]
    /\ hitem \in [Handlers -> Probes \cup {NULL}]
    /\ Write_chan \in Seq(Probes) /\ Len(Write_chan) <= WriteCap
    /\ file \in Seq(Probes)
    /\ stopped \in BOOLEAN /\ live \in SUBSET Waited
    /\ sent \in SUBSET Probes

Held(p) == \E g \in Handlers : hpc[g] = "enqueue" /\ hitem[g] = p
Queued(p) == \E k \in 1 .. Len(Write_chan) : Write_chan[k] = p
Written(p) == \E k \in 1 .. Len(file) : file[k] = p

\* Not yet entered into the map.
Unregistered(p) == \/ p > ip_loop_id.id
                   \/ \E r \in Routines : taken[r] = p /\ rpc[r] = "register"

\* Where a probe stands in the terms of module ProbeRecord.
Status(p) == IF Unregistered(p) THEN "idle"
             ELSE IF p \in Registered THEN "open"
             ELSE IF Written(p) THEN "recorded"
             ELSE IF Held(p) \/ Queued(p) THEN "answered" ELSE "lost"

Abs == INSTANCE ProbeRecord WITH status <- [p \in Probes |-> Status(p)]

\* udp_scanner.go:191-214.  The map, the handlers and the channel implement the
\* promise of module ProbeRecord: a probe is answered once, while it is open, and
\* recorded once, and no answered probe is forgotten.
ImplementsProbeRecord == Abs!Spec

\* udp_scanner.go:191-214, base_scanner.go:82-83.  However often a response is
\* repeated, the item of a probe is in one place only on its way to the file:
\* with one handler, once in the channel, or in one row.
Stages(p) == {<<"handler", g>> : g \in {h \in Handlers : hpc[h] = "enqueue" /\ hitem[h] = p}}
               \cup {<<"chan", k>> : k \in {j \in 1 .. Len(Write_chan) : Write_chan[j] = p}}
               \cup {<<"row", k>> : k \in {j \in 1 .. Len(file) : file[j] = p}}
RecordedOnce == \A p \in Probes : \A s, t \in Stages(p) : s = t

\* udp_scanner.go:43-59, 191-211.  A response is filled into the item of another
\* probe only if the two are a whole cycle through all ports and DNS ids apart.
MixedUpAfterFullCycle ==
    \A p \in Probes :
        answer[p] # NULL =>
            (IF answer[p] <= p THEN p - answer[p] ELSE answer[p] - p) % NumKeys = 0

\* udp_scanner.go:151-164, 192-197.  A response that finds no entry comes too
\* late, never too early: its probe has been answered or given up before.
MissedOnlyLate ==
    \A g \in Handlers :
        hpc[g] = "missed" => Status(hpkt[g]) \in {"answered", "recorded", "lost"}
=============================================================================
