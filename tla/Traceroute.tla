------------------------------ MODULE Traceroute ------------------------------
(***************************************************************************)
(* The TCP traceroute: traceroute/traceroute_tcp.go.                        *)
(*                                                                          *)
(* Each init_traceroute goroutine, a slot here, traces one target after the *)
(* other from the 32 ports behind its start port: a SYN for every hop count *)
(* from the port of that count, and, once a SYN-ACK came to one of these,   *)
(* DNS queries from that port.  All a run finds is in the slot's one        *)
(* parameter object, which the next run overwrites.  Handlers, timeout and  *)
(* slots test its fields without its mutex and change them under it.  A     *)
(* finished run is sent to write_chan while the mutex is held, and the      *)
(* writer takes the same mutex.                                             *)
(*                                                                          *)
(* A time stamp is "unset" (-1), "fresh", or "old", which is past the time  *)
(* it is compared with.  A new object holds Go's zero values, and a stamp   *)
(* of 0 is old.  Port_reuse_timeout is 0 unless it is configured            *)
(* (config.go:37, and config.yml.template leaves it out): a finish is old   *)
(* at once.  A longer timeout only lets a slot wait longer at line 489,     *)
(* which Zero, that is never urgent, may do as well.                        *)
(***************************************************************************)
EXTENDS Naturals, Sequences

CONSTANTS
    Slots,      \* the init_traceroute goroutines (config.Number_routines)
    MaxTargets, \* bound: lines of the input file, which are different addresses
    MaxTtl,     \* hop counts tried (30)
    Handlers,   \* bound: packets handled at a time
    IpCap,      \* capacity of Ip_chan (1024)
    WriteCap,   \* capacity of write_chan (256)
    Modes,      \* "file" or "single": what the command line gave
    NULL        \* the nil pointer

ASSUME SizesAssumption == /\ MaxTargets \in Nat \ {0} /\ MaxTtl \in Nat
                          /\ IpCap \in Nat \ {0} /\ WriteCap \in Nat \ {0}
ASSUME ModesAssumption == Modes \subseteq {"file", "single"}

Targets == 1 .. MaxTargets
Ttls == 1 .. MaxTtl

ASSUME NamesAssumption ==
    /\ NULL \notin Targets \cup Slots \cup Handlers
    /\ {"timeout", "writer", "capture", "reader"} \cap (Slots \cup Handlers \cup {NULL}) = {}

Stamps == {"unset", "fresh", "old"}

(* A run's parameters; a port is the hop count it belongs to, 0 for none;   *)
(* a hop is the run whose packet reported it.                               *)
Params == [ip : Targets \cup {NULL}, syns : Stamps, dns : Stamps, sa : Stamps,
           fin : {"unset", "old"}, port : 0 .. MaxTtl, written : BOOLEAN,
           hops : SUBSET Targets, answered : BOOLEAN]

(* Packets for a slot's ports.  "PA" and "FPA" carry a DNS message.         *)
Answers == {"PA", "FPA"}
Packets == [slot : Slots, run : Targets, port : Ttls,
            kind : {"ICMP", "SA", "FA"} \cup Answers]

\* A target's file.
Files == [hops : SUBSET Targets]

ASSUME NullAssumption == NULL \notin Params /\ NULL \notin Packets /\ NULL \notin Files

\* The WaitGroup: the reader is in it in file mode only.
Waited == Slots \cup {"capture", "timeout", "writer", "reader"}

VARIABLES
    mode,
    rpc, read,      \* read_ips_file: control, lines read
    Ip_chan,
    ipc, netip, ttl,  \* slots: control, target taken, next hop count
    init_finished,
    param,          \* tracert_params
    lock,           \* who holds an object's mutex across steps
    syned,          \* hop counts a SYN of a run was sent with
    disturbed,      \* history: runs that what was left of an earlier one may reach
    hpc, hpkt,      \* handlers
    tslot, tpc,     \* timeout: the object found due
    write_chan,
    wpc, wslot, wip, \* Write_results: control, object, the target it names the file after
    files,          \* a target's file, NULL before it is written
    stopped, live

readVars == <<mode, rpc, read>>
slotVars == <<ipc, netip, ttl, init_finished, syned>>
handlerVars == <<hpc, hpkt>>
timeoutVars == <<tslot, tpc>>
writerVars == <<wpc, wslot, wip, files>>
endVars == <<stopped, live>>
vars == <<readVars, Ip_chan, slotVars, param, lock, disturbed, handlerVars,
          timeoutVars, write_chan, writerVars, endVars>>

Init ==
    /\ mode \in Modes
    /\ IF mode = "file" THEN rpc = "read" /\ read = 0 /\ Ip_chan = <<>>
                        ELSE rpc = "sleep" /\ read = 1 /\ Ip_chan = <<1>>
    /\ ipc = [s \in Slots |-> "select"]
    /\ netip = [s \in Slots |-> NULL]
    /\ ttl = [s \in Slots |-> 1]
    /\ init_finished = [s \in Slots |-> FALSE]
    /\ param = [s \in Slots |-> NULL]
    /\ lock = [s \in Slots |-> NULL]
    /\ syned = {} /\ disturbed = {}
    /\ hpc = [g \in Handlers |-> "free"]
    /\ hpkt = [g \in Handlers |-> NULL]
    /\ tpc = "select" /\ tslot = NULL
    /\ write_chan = <<>>
    /\ wpc = "select" /\ wslot = NULL /\ wip = NULL
    /\ files = [t \in Targets \cup {NULL} |-> NULL]
    /\ stopped = FALSE
    /\ live = IF mode = "file" THEN Waited ELSE Waited \ {"reader"}

Running == live # {}
Unlocked(s) == lock[s] = NULL
Slot(g) == hpkt[g].slot

-----------------------------------------------------------------------------
(***************************************************************************)
(* read_ips_file, or the goroutine that ends single mode after 10 seconds.  *)
(***************************************************************************)
Read ==
    /\ rpc = "read" /\ read < MaxTargets /\ Len(Ip_chan) < IpCap
    /\ read' = read + 1
    /\ Ip_chan' = Append(Ip_chan, read + 1)
    /\ UNCHANGED <<mode, rpc, slotVars, param, lock, disturbed, handlerVars,
                   timeoutVars, write_chan, writerVars, endVars>>

\* Waiting_to_end is set, then init_is_finished is polled.
Waiting_to_end == rpc # "read"

All_read ==
    /\ rpc = "read" /\ read = MaxTargets
    /\ rpc' = "poll"
    /\ UNCHANGED <<mode, read, Ip_chan, slotVars, param, lock, disturbed, handlerVars,
                   timeoutVars, write_chan, writerVars, endVars>>

init_is_finished ==
    /\ rpc = "poll" /\ \A s \in Slots : init_finished[s]
    /\ rpc' = "sleep"
    /\ UNCHANGED <<mode, read, Ip_chan, slotVars, param, lock, disturbed, handlerVars,
                   timeoutVars, write_chan, writerVars, endVars>>

Stop ==
    /\ Running /\ rpc = "sleep"
    /\ rpc' = "closed"
    /\ stopped' = TRUE /\ live' = live \ {"reader"}
    /\ UNCHANGED <<mode, read, Ip_chan, slotVars, param, lock, disturbed, handlerVars,
                   timeoutVars, write_chan, writerVars>>

-----------------------------------------------------------------------------
(***************************************************************************)
(* init_traceroute.                                                         *)
(***************************************************************************)
ZeroValue == [ip |-> NULL, syns |-> "old", dns |-> "old", sa |-> "old",
              fin |-> "unset", port |-> 0, written |-> FALSE,
              hops |-> {}, answered |-> FALSE]

\* Plausible mistakes are the operators Bug_...: no action uses one.
\* A list of the last run is not emptied.
Bug_zero(p, t) == [p EXCEPT !.ip = t, !.syns = "unset", !.dns = "unset", !.sa = "unset",
                            !.fin = "unset", !.port = 0, !.written = FALSE,
                            !.answered = FALSE]
\* zero(), then initial_ip.
zero(p, t) == [p EXCEPT !.ip = t, !.syns = "unset", !.dns = "unset", !.sa = "unset",
                        !.fin = "unset", !.port = 0, !.written = FALSE,
                        !.hops = {}, !.answered = FALSE]

Take(s) ==
    /\ s \in live /\ ipc[s] = "select" /\ Ip_chan # <<>>
    /\ Ip_chan' = Tail(Ip_chan)
    /\ netip' = [netip EXCEPT ![s] = Head(Ip_chan)]
    /\ init_finished' = [init_finished EXCEPT ![s] = FALSE]
    /\ param' = IF param[s] = NULL THEN [param EXCEPT ![s] = ZeroValue] ELSE param
    /\ ipc' = [ipc EXCEPT ![s] = "wait"]
    /\ UNCHANGED <<readVars, ttl, syned, lock, disturbed, handlerVars, timeoutVars,
                   write_chan, writerVars, endVars>>

\* The next run starts when the last one is finished and written.  (Forgotten: written.)
Bug_Reusable(p) == p.ip = NULL \/ p.fin = "old"
Reusable(p) == p.ip = NULL \/ (p.written /\ p.fin = "old")

\* What a run hands on to the next: handlers or timeout still at the object, that it
\* was disturbed itself, or that the object was finished before its first run.
Passed_on(s) == \/ \E g \in Handlers : hpc[g] # "free" /\ Slot(g) = s
                \/ tslot = s
                \/ param[s].ip \in disturbed
                \/ param[s].ip = NULL /\ param[s].fin # "unset"

Zero(s) ==
    /\ s \in live /\ ipc[s] = "wait" /\ Reusable(param[s]) /\ Unlocked(s)
    /\ param' = [param EXCEPT ![s] = zero(param[s], netip[s])]
    /\ disturbed' = IF Passed_on(s) THEN disturbed \cup {netip[s]} ELSE disturbed
    /\ ipc' = [ipc EXCEPT ![s] = "syns"]
    /\ UNCHANGED <<readVars, Ip_chan, netip, ttl, init_finished, syned, lock,
                   handlerVars, timeoutVars, write_chan, writerVars, endVars>>

\* One hop too many.
Bug_Syns_left(s) == ttl[s] <= MaxTtl + 1 /\ param[s].sa = "unset"
Syns_left(s) == ttl[s] <= MaxTtl /\ param[s].sa = "unset"

send_syn(s) ==
    /\ s \in live /\ ipc[s] = "syns" /\ Syns_left(s)
    /\ syned' = syned \cup {<<s, netip[s], ttl[s]>>}
    /\ ttl' = [ttl EXCEPT ![s] = @ + 1]
    /\ UNCHANGED <<readVars, Ip_chan, ipc, netip, init_finished, param, lock, disturbed,
                   handlerVars, timeoutVars, write_chan, writerVars, endVars>>

All_syns_sent(s) ==
    /\ s \in live /\ ipc[s] = "syns" /\ ~Syns_left(s) /\ Unlocked(s)
    /\ param' = [param EXCEPT ![s].syns = "fresh"]
    /\ ttl' = [ttl EXCEPT ![s] = 1]
    /\ ipc' = [ipc EXCEPT ![s] = "select"]
    /\ UNCHANGED <<readVars, Ip_chan, netip, init_finished, syned, lock, disturbed,
                   handlerVars, timeoutVars, write_chan, writerVars, endVars>>

\* The slot has nothing left to do: its last run is written, or it had none.
\* (Forgotten: that it must be written.)
Bug_Idle(s) == param[s] # NULL \/ Waiting_to_end
Idle(s) == IF param[s] # NULL THEN param[s].written ELSE Waiting_to_end

\* No target for a second: the reader has none left to send.
Tick(s) ==
    /\ s \in live /\ ipc[s] = "select" /\ Ip_chan = <<>>
    /\ (mode = "single" \/ read = MaxTargets)
    /\ Idle(s) /\ ~init_finished[s]
    /\ init_finished' = [init_finished EXCEPT ![s] = TRUE]
    /\ UNCHANGED <<readVars, Ip_chan, ipc, netip, ttl, syned, param, lock, disturbed,
                   handlerVars, timeoutVars, write_chan, writerVars, endVars>>

-----------------------------------------------------------------------------
(***************************************************************************)
(* Handle_pkt.  Whatever the servers and routers (external) send to a port  *)
(* a SYN has left from may arrive, repeatedly, and in a later run as well.  *)
(***************************************************************************)
Goto(g, label) == hpc' = [hpc EXCEPT ![g] = label]
Leave(g) == hpc' = [hpc EXCEPT ![g] = "free"] /\ hpkt' = [hpkt EXCEPT ![g] = NULL]
Of(g) == param[Slot(g)]

\* What a packet leads to, by fields read without the mutex.
Reaction(p, o) ==
    CASE p.kind = "ICMP" -> IF o.sa = "unset" \/ o.port = p.port THEN "hop" ELSE "free"
      [] p.kind = "SA"   -> IF o.sa = "unset" THEN "first_sa" ELSE "free"
      [] p.kind = "FA"   -> IF o.port = p.port THEN "finish" ELSE "free"
      [] OTHER           -> "hop"

\* Packet_capture starts a goroutine, which looks at the run.
Packet_capture(g, p) ==
    /\ "capture" \in live /\ hpc[g] = "free"
    /\ <<p.slot, p.run, p.port>> \in syned
    /\ Reaction(p, param[p.slot]) # "free"
    /\ Goto(g, Reaction(p, param[p.slot]))
    /\ hpkt' = [hpkt EXCEPT ![g] = p]
    /\ disturbed' = IF p.run = param[p.slot].ip THEN disturbed
                    ELSE disturbed \cup {param[p.slot].ip}
    /\ UNCHANGED <<readVars, Ip_chan, slotVars, param, lock, timeoutVars, write_chan,
                   writerVars, endVars>>

\* A hop is recorded.  The first answer to the DNS port counts.
Hop(g) ==
    /\ Running /\ hpc[g] = "hop" /\ Unlocked(Slot(g))
    /\ param' = [param EXCEPT ![Slot(g)].hops = @ \cup {hpkt[g].run}]
    /\ IF hpkt[g].kind \in Answers /\ hpkt[g].port = Of(g).port /\ ~Of(g).answered
       THEN Goto(g, "answer") /\ UNCHANGED hpkt
       ELSE Leave(g)
    /\ UNCHANGED <<readVars, Ip_chan, slotVars, lock, disturbed, timeoutVars,
                   write_chan, writerVars, endVars>>

\* The first SYN-ACK chooses the port.  The second of two that passed the check
\* together finds it chosen.  (Forgotten: to look.)
Bug_Port_free(o) == TRUE
Port_free(o) == o.port = 0

First_SYN_ACK(g) ==
    /\ Running /\ hpc[g] = "first_sa" /\ Unlocked(Slot(g))
    /\ param' = [param EXCEPT ![Slot(g)].hops = @ \cup {hpkt[g].run},
                              ![Slot(g)].sa = "fresh",
                              ![Slot(g)].port = IF Port_free(Of(g))
                                                THEN hpkt[g].port ELSE @]
    /\ IF Port_free(Of(g)) THEN Goto(g, "send_dns") /\ UNCHANGED hpkt ELSE Leave(g)
    /\ UNCHANGED <<readVars, Ip_chan, slotVars, lock, disturbed, timeoutVars,
                   write_chan, writerVars, endVars>>

\* The queries, up to the last or the first reply, and the time stamp behind
\* them.  What they bring about is up to the network.
All_DNS_sent(g) ==
    /\ Running /\ hpc[g] = "send_dns" /\ Unlocked(Slot(g))
    /\ param' = [param EXCEPT ![Slot(g)].dns = "fresh"]
    /\ Leave(g)
    /\ UNCHANGED <<readVars, Ip_chan, slotVars, lock, disturbed, timeoutVars,
                   write_chan, writerVars, endVars>>

\* The answers may hold addresses or not.
DNS_answer(g) ==
    /\ Running /\ hpc[g] = "answer" /\ Unlocked(Slot(g))
    /\ \E ips \in BOOLEAN :
          param' = [param EXCEPT ![Slot(g)].answered = ips]
    /\ IF hpkt[g].kind = "PA" THEN Leave(g)
                              ELSE Goto(g, "finish") /\ UNCHANGED hpkt
    /\ UNCHANGED <<readVars, Ip_chan, slotVars, lock, disturbed, timeoutVars,
                   write_chan, writerVars, endVars>>

\* A FIN-ACK or a FIN-PSH-ACK ends the run: lock, finished, write_chan <- params,
\* unlock.
Finished_twice(s) == disturbed' = IF param[s].fin = "unset" THEN disturbed
                                  ELSE disturbed \cup {param[s].ip}

Finish(g) ==
    /\ Running /\ hpc[g] = "finish" /\ Unlocked(Slot(g))
    /\ lock' = [lock EXCEPT ![Slot(g)] = g]
    /\ param' = [param EXCEPT ![Slot(g)].fin = "old"]
    /\ Finished_twice(Slot(g))
    /\ Goto(g, "send")
    /\ UNCHANGED <<readVars, Ip_chan, slotVars, hpkt, timeoutVars, write_chan,
                   writerVars, endVars>>

Send(g) ==
    /\ Running /\ hpc[g] = "send" /\ Len(write_chan) < WriteCap
    /\ write_chan' = Append(write_chan, Slot(g))
    /\ lock' = [lock EXCEPT ![Slot(g)] = NULL]
    /\ Leave(g)
    /\ UNCHANGED <<readVars, Ip_chan, slotVars, param, disturbed, timeoutVars,
                   writerVars, endVars>>

-----------------------------------------------------------------------------
(***************************************************************************)
(* timeout, one object at a time.  Answers and queries may take 3 or 6      *)
(* seconds; then the run ends.                                              *)
(***************************************************************************)
\* An answer without a FIN-ACK behind it is forgotten.
Bug_Due(p) == /\ p.fin = "unset" /\ p.syns # "unset"
              /\ IF p.dns = "unset" THEN p.sa = "unset" /\ p.syns = "old"
                                    ELSE ~p.answered /\ p.dns = "old"
Due(p) == /\ p.fin = "unset" /\ p.syns # "unset"
          /\ IF p.dns = "unset" THEN p.sa = "unset" /\ p.syns = "old"
                                ELSE p.dns = "old"

Timeout_check(s) ==
    /\ "timeout" \in live /\ tpc = "select" /\ param[s] # NULL /\ Due(param[s])
    /\ tpc' = "lock" /\ tslot' = s
    /\ UNCHANGED <<readVars, Ip_chan, slotVars, param, lock, disturbed, handlerVars,
                   write_chan, writerVars, endVars>>

Timeout_finish ==
    /\ tpc = "lock" /\ Unlocked(tslot)
    /\ lock' = [lock EXCEPT ![tslot] = "timeout"]
    /\ param' = [param EXCEPT ![tslot].fin = "old"]
    /\ Finished_twice(tslot)
    /\ tpc' = "send"
    /\ UNCHANGED <<readVars, Ip_chan, slotVars, handlerVars, tslot, write_chan,
                   writerVars, endVars>>

Timeout_send ==
    /\ tpc = "send" /\ Len(write_chan) < WriteCap
    /\ write_chan' = Append(write_chan, tslot)
    /\ lock' = [lock EXCEPT ![tslot] = NULL]
    /\ tpc' = "select" /\ tslot' = NULL
    /\ UNCHANGED <<readVars, Ip_chan, slotVars, param, disturbed, handlerVars,
                   writerVars, endVars>>

-----------------------------------------------------------------------------
(***************************************************************************)
(* Write_results.                                                           *)
(***************************************************************************)
\* The file is created again for every entry, named after the run the object is at,
\* and then filled; no mutex is held.
Write_create ==
    /\ "writer" \in live /\ wpc = "select" /\ write_chan # <<>>
    /\ wslot' = Head(write_chan) /\ write_chan' = Tail(write_chan)
    /\ wip' = param[Head(write_chan)].ip
    /\ wpc' = "rows"
    /\ UNCHANGED <<readVars, Ip_chan, slotVars, param, lock, disturbed, handlerVars,
                   timeoutVars, files, endVars>>

Write_rows ==
    /\ wpc = "rows"
    /\ files' = [files EXCEPT ![wip] = [hops |-> param[wslot].hops]]
    /\ wip' = NULL
    /\ wpc' = "mark"
    /\ UNCHANGED <<readVars, Ip_chan, slotVars, param, lock, disturbed, handlerVars,
                   timeoutVars, write_chan, wslot, endVars>>

Write_mark ==
    /\ wpc = "mark" /\ Unlocked(wslot)
    /\ param' = [param EXCEPT ![wslot].written = TRUE]
    /\ wpc' = "select" /\ wslot' = NULL
    /\ UNCHANGED <<readVars, Ip_chan, slotVars, lock, disturbed, handlerVars,
                   timeoutVars, write_chan, wip, files, endVars>>

-----------------------------------------------------------------------------
\* The clock (external).
Age(s, f) ==
    /\ Running /\ param[s] # NULL /\ param[s].fin = "unset" /\ param[s][f] = "fresh"
    /\ param' = [param EXCEPT ![s] = [@ EXCEPT ![f] = "old"]]
    /\ UNCHANGED <<readVars, Ip_chan, slotVars, lock, disturbed, handlerVars,
                   timeoutVars, write_chan, writerVars, endVars>>

\* A goroutine at its select sees the closed Stop_chan.
AtSelect(t) == CASE t \in Slots -> ipc[t] = "select"
                 [] t = "timeout" -> tpc = "select"
                 [] t = "writer" -> wpc = "select"
                 [] OTHER -> t # "reader"

Return(t) ==
    /\ stopped /\ t \in live /\ AtSelect(t)
    /\ live' = live \ {t}
    /\ UNCHANGED <<readVars, Ip_chan, slotVars, param, lock, disturbed, handlerVars,
                   timeoutVars, write_chan, writerVars, stopped>>

-----------------------------------------------------------------------------
read_ips_file == Read \/ All_read \/ init_is_finished \/ Stop
init_traceroute(s) == Take(s) \/ Zero(s) \/ send_syn(s) \/ All_syns_sent(s) \/ Tick(s)
Handle_pkt(g) ==
    \/ Hop(g) \/ First_SYN_ACK(g) \/ All_DNS_sent(g)
    \/ DNS_answer(g) \/ Finish(g) \/ Send(g)
Timeout == (\E s \in Slots : Timeout_check(s)) \/ Timeout_finish \/ Timeout_send
Write_results == Write_create \/ Write_rows \/ Write_mark

Arrival == \E g \in Handlers, p \in Packets : Packet_capture(g, p)

Step ==
    \/ read_ips_file
    \/ \E s \in Slots : init_traceroute(s)
    \/ \E g \in Handlers : Handle_pkt(g)
    \/ Timeout
    \/ Write_results
    \/ \E s \in Slots, f \in {"syns", "dns"} : Age(s, f)
    \/ \E t \in Waited : Return(t)

Next == Arrival \/ Step

Spec == Init /\ [][Next]_vars

-----------------------------------------------------------------------------
(***************************************************************************)
(* Properties.                                                              *)
(***************************************************************************)
TypeOK ==
    /\ mode \in {"file", "single"}
    /\ rpc \in {"read", "poll", "sleep", "closed"} /\ read \in 0 .. MaxTargets
    /\ Ip_chan \in Seq(Targets) /\ Len(Ip_chan) <= IpCap
    /\ ipc \in [Slots -> {"select", "wait", "syns"}]
    /\ netip \in [Slots -> Targets \cup {NULL}]
    /\ ttl \in [Slots -> 1 .. MaxTtl + 1]
    /\ init_finished \in [Slots -> BOOLEAN]
    /\ param \in [Slots -> Params \cup {NULL}]
    /\ lock \in [Slots -> Handlers \cup {"timeout", NULL}]
    /\ syned \in SUBSET (Slots \X Targets \X Ttls) /\ disturbed \in SUBSET (Targets \cup {NULL})
    /\ hpc \in [Handlers -> {"free", "hop", "first_sa", "send_dns", "answer",
                             "finish", "send"}]
    /\ hpkt \in [Handlers -> Packets \cup {NULL}]
    /\ tpc \in {"select", "lock", "send"} /\ tslot \in Slots \cup {NULL}
    /\ write_chan \in Seq(Slots) /\ Len(write_chan) <= WriteCap
    /\ wpc \in {"select", "rows", "mark"} /\ wslot \in Slots \cup {NULL}
    /\ wip \in Targets \cup {NULL}
    /\ files \in [Targets \cup {NULL} -> Files \cup {NULL}]
    /\ stopped \in BOOLEAN /\ live \in SUBSET Waited

InRun(s, t) == param[s] # NULL /\ param[s].ip = t

\* traceroute_tcp.go:286-293, "it needs to stay constant to match the state": the
\* port of the DNS traceroute does not change while a run lasts, although several
\* SYN-ACKs may have passed the test for the first one together.
DnsPortFixed ==
    [][\A s \in Slots, t \in Targets :
          InRun(s, t) /\ InRun(s, t)' /\ param[s].port # 0
          => param'[s].port = param[s].port]_vars

(***************************************************************************)
(* Without Port_reuse_timeout a port is used again as soon as its run is    *)
(* finished and written.  A run is disturbed when a packet of an earlier    *)
(* run comes to it, when it is finished twice, or when its object is handed *)
(* on to it with a handler or timeout still at it, finished before the      *)
(* first run, or from a disturbed run.  What the queue and the writer hold  *)
(* is not among these: the guard at 489 has to see to them.                 *)
(***************************************************************************)

\* traceroute_tcp.go:61-73, 489-497, 634-657.  Unless it is disturbed a run starts with
\* empty lists and its file is filled before the object goes on to the next run: both
\* hold hops of this run alone.
ResultsOfOneRun ==
    /\ \A s \in Slots : param[s] # NULL /\ param[s].ip \notin disturbed
                       => param[s].hops \subseteq {param[s].ip}
    /\ \A t \in Targets \ disturbed : files[t] # NULL => files[t].hops \subseteq {t}

\* traceroute_tcp.go:489.  Unless it is disturbed a run makes room for the next only
\* after its file is written, however short Port_reuse_timeout is.
NoRunDropped ==
    [][\A s \in Slots, t \in Targets \ disturbed :
          InRun(s, t) /\ ~InRun(s, t)' => files[t] # NULL]_vars

\* traceroute_tcp.go:510-521, 608-619.  When read_ips_file closes Stop_chan every
\* target of the file whose run was not disturbed has its file.
AllTracedAtEnd ==
    stopped /\ mode = "file" => \A t \in Targets \ disturbed : files[t] # NULL

(***************************************************************************)
(* Fairness.  Routers and servers may be silent, but they do not repeat the *)
(* packets of a run for ever.  The program's own steps and the clock's then *)
(* come to an end, too, and as long as one can be taken one is: fairness    *)
(* for their disjunction is fairness for every goroutine.                   *)
(***************************************************************************)
FairSpec == Spec /\ <>[][~Arrival]_vars /\ WF_vars(Step)

\* The one way to hang: who sends to the full write_chan holds the mutex the writer
\* waits for, or the writer has returned.
Stuck ==
    /\ Len(write_chan) = WriteCap
    /\ \E s \in Slots : /\ ~Unlocked(s)
                        /\ (wpc = "mark" /\ wslot = s) \/ "writer" \notin live

\* traceroute_tcp.go:510-570, 608-661: every run ends, whatever answers come or stay
\* away, and with the last of them the program, unless it hangs in the one way.
TracerouteEnds == <>(live = {} \/ Stuck)
=============================================================================
