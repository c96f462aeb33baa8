--------------------------- MODULE TracerouteProofs ---------------------------
(***************************************************************************)
(* Safety of the traceroute for every number of slots, targets, hop counts  *)
(* and handlers and every capacity of the channels: unless they are         *)
(* disturbed runs do not mix, none is dropped, and all are over at the end. *)
(***************************************************************************)
EXTENDS Traceroute, TLAPS

\* Who refers to a slot's object refers to one that exists.
SlotsOK == \A s \in Slots : ipc[s] # "select" => netip[s] \in Targets /\ param[s] \in Params
SynedOK == \A s \in Slots, t \in Targets, k \in Ttls :
              <<s, t, k>> \in syned => param[s] \in Params
HandlersOK == \A g \in Handlers :
                 hpc[g] # "free" => hpkt[g] \in Packets /\ Of(g) \in Params
TimeoutOK == tpc # "select" => tslot \in Slots /\ param[tslot] \in Params
WriterOK == wpc # "select" => wslot \in Slots /\ param[wslot] \in Params
QueueOK == \A k \in 1 .. Len(write_chan) : param[write_chan[k]] \in Params

TypeInv == TypeOK /\ SlotsOK /\ SynedOK /\ HandlersOK /\ TimeoutOK /\ WriterOK /\ QueueOK

\* The fields of a packet.
LEMMA PacketFields ==
    ASSUME NEW p \in Packets
    PROVE  /\ p.slot \in Slots /\ p.run \in Targets /\ p.port \in Ttls
           /\ p.kind \in {"ICMP", "SA", "FA"} \cup Answers
BY DEF Packets

\* Assignments to the fields of an object.
LEMMA ParamUpdates ==
    ASSUME NEW p \in Params
    PROVE  /\ \A v \in Stamps : /\ [p EXCEPT !.syns = v] \in Params
                                /\ [p EXCEPT !.dns = v] \in Params
           /\ [p EXCEPT !.fin = "old"] \in Params
           /\ [p EXCEPT !.written = TRUE] \in Params
           /\ \A t \in Targets :
                 /\ [p EXCEPT !.hops = @ \cup {t}] \in Params
                 /\ \A k \in 0 .. MaxTtl :
                       [p EXCEPT !.hops = @ \cup {t}, !.sa = "fresh", !.port = k] \in Params
           /\ \A b \in BOOLEAN : [p EXCEPT !.answered = b] \in Params
BY DEF Params, Stamps

\* An object for a new run.
LEMMA ZeroFields ==
    ASSUME NEW p \in Params, NEW t \in Targets
    PROVE  /\ zero(p, t) \in Params
           /\ zero(p, t).ip = t /\ zero(p, t).fin = "unset" /\ zero(p, t).port = 0
           /\ zero(p, t).written = FALSE /\ zero(p, t).hops = {}
<1> DEFINE a(q) == [q EXCEPT !.ip = t, !.syns = "unset"]
           b(q) == [q EXCEPT !.dns = "unset", !.sa = "unset"]
           c(q) == [q EXCEPT !.fin = "unset", !.port = 0]
           d(q) == [q EXCEPT !.written = FALSE, !.hops = {}]
           e(q) == [q EXCEPT !.answered = FALSE]
<1>1. \A q \in Params : a(q) \in Params
  BY DEF Params, Stamps
<1>2. \A q \in Params : b(q) \in Params
  BY DEF Params, Stamps
<1>3. \A q \in Params : c(q) \in Params
  <2>1. 0 \in 0 .. MaxTtl
    BY SizesAssumption
  <2> DEFINE K == 0 .. MaxTtl
  <2>2. \A k \in K, q \in Params : [q EXCEPT !.fin = "unset", !.port = k] \in Params
    BY DEF Params
  <2>3. QED
    BY <2>1, <2>2
<1>4. \A q \in Params : d(q) \in Params
  BY DEF Params
<1>5. \A q \in Params : e(q) \in Params
  BY DEF Params
<1>6. zero(p, t) = e(d(c(b(a(p)))))
  BY Zenon DEF zero
<1>7. zero(p, t) \in Params
  <2> HIDE DEF a, b, c, d, e
  <2>1. QED
    BY <1>1, <1>2, <1>3, <1>4, <1>5, <1>6
<1>8. QED
  BY <1>7 DEF zero, Params

\* Objects are overwritten, never removed.
LEMMA ObjectsStay ==
    ASSUME TypeInv, NEW s \in Slots, NEW q \in Params,
           param' = [param EXCEPT ![s] = q]
    PROVE  /\ param' \in [Slots -> Params \cup {NULL}]
           /\ \A r \in Slots : param[r] \in Params => param'[r] \in Params
BY DEF TypeInv, TypeOK

\* References that do not change still lead to objects.
LEMMA ReferencesKept ==
    ASSUME TypeInv,
           \A r \in Slots : param[r] \in Params => param'[r] \in Params
    PROVE  /\ UNCHANGED <<ipc, netip>> => SlotsOK'
           /\ UNCHANGED syned => SynedOK'
           /\ UNCHANGED handlerVars => HandlersOK'
           /\ UNCHANGED timeoutVars => TimeoutOK'
           /\ UNCHANGED <<wpc, wslot>> => WriterOK'
           /\ UNCHANGED write_chan => QueueOK'
<1>1. UNCHANGED <<ipc, netip>> => SlotsOK'
  BY DEF TypeInv, SlotsOK
<1>2. UNCHANGED syned => SynedOK'
  BY DEF TypeInv, SynedOK
<1>3. UNCHANGED handlerVars => HandlersOK'
  BY PacketFields DEF TypeInv, HandlersOK, handlerVars, Slot, Of
<1>4. UNCHANGED timeoutVars => TimeoutOK'
  BY DEF TypeInv, TimeoutOK, timeoutVars
<1>5. UNCHANGED <<wpc, wslot>> => WriterOK'
  BY DEF TypeInv, WriterOK
<1>6. UNCHANGED write_chan => QueueOK'
  BY DEF TypeInv, TypeOK, QueueOK
<1>7. QED
  BY <1>1, <1>2, <1>3, <1>4, <1>5, <1>6

Labels == {"free", "hop", "first_sa", "send_dns", "answer", "finish", "send"}

\* What the steps of a handler that write a field have in common.
LEMMA FieldSteps ==
    ASSUME NEW g \in Handlers,
           Hop(g) \/ First_SYN_ACK(g) \/ All_DNS_sent(g) \/ DNS_answer(g)
    PROVE  /\ hpc[g] # "free"
           /\ \/ hpc' = [hpc EXCEPT ![g] = "free"] /\ hpkt' = [hpkt EXCEPT ![g] = NULL]
              \/ \E l \in Labels : hpc' = [hpc EXCEPT ![g] = l] /\ hpkt' = hpkt
           /\ UNCHANGED <<readVars, Ip_chan, slotVars, lock, disturbed, timeoutVars, write_chan,
                          writerVars, endVars>>
<1>1. CASE Hop(g)
  BY <1>1 DEF Hop, Goto, Leave, Labels
<1>2. CASE First_SYN_ACK(g)
  BY <1>2 DEF First_SYN_ACK, Goto, Leave, Labels
<1>3. CASE All_DNS_sent(g)
  BY <1>3 DEF All_DNS_sent, Goto, Leave, Labels
<1>4. CASE DNS_answer(g)
  BY <1>4 DEF DNS_answer, Goto, Leave, Labels
<1>5. QED
  BY <1>1, <1>2, <1>3, <1>4

\* Such a step changes one object, to another of the type.
LEMMA FieldWritten ==
    ASSUME TypeInv, NEW g \in Handlers,
           Hop(g) \/ First_SYN_ACK(g) \/ All_DNS_sent(g) \/ DNS_answer(g)
    PROVE  Slot(g) \in Slots /\ \E q \in Params : param' = [param EXCEPT ![Slot(g)] = q]
<1>0. hpkt[g] \in Packets /\ Of(g) \in Params
  BY FieldSteps DEF TypeInv, HandlersOK
<1>1. /\ Slot(g) \in Slots
      /\ hpkt[g].run \in Targets /\ hpkt[g].port \in 0 .. MaxTtl
  BY <1>0, PacketFields, SizesAssumption DEF Slot, Ttls
<1>2. CASE Hop(g)
  <2>1. param' = [param EXCEPT ![Slot(g)] = [Of(g) EXCEPT !.hops = @ \cup {hpkt[g].run}]]
    BY <1>2 DEF Hop, Of
  <2>2. QED
    BY <1>0, <1>1, <2>1, ParamUpdates
<1>3. CASE First_SYN_ACK(g)
  <2> DEFINE k == IF Port_free(Of(g)) THEN hpkt[g].port ELSE Of(g).port
  <2>1. k \in 0 .. MaxTtl
    BY <1>0, <1>1 DEF Params
  <2>2. param' = [param EXCEPT ![Slot(g)] =
                    [Of(g) EXCEPT !.hops = @ \cup {hpkt[g].run}, !.sa = "fresh", !.port = k]]
    <3>1. param' = [param EXCEPT ![Slot(g)].hops = @ \cup {hpkt[g].run},
                                 ![Slot(g)].sa = "fresh",
                                 ![Slot(g)].port = IF Port_free(Of(g))
                                                   THEN hpkt[g].port ELSE @]
      BY <1>3 DEF First_SYN_ACK
    <3>2. DOMAIN param = Slots
      BY DEF TypeInv, TypeOK
    <3>3. QED
      BY <1>0, <1>1, <3>1, <3>2 DEF Of, Params
  <2> HIDE DEF k
  <2>3. QED
    BY <1>0, <1>1, <2>1, <2>2, ParamUpdates
<1>4. CASE All_DNS_sent(g)
  <2>1. param' = [param EXCEPT ![Slot(g)] = [Of(g) EXCEPT !.dns = "fresh"]]
    BY <1>4 DEF All_DNS_sent, Of
  <2>2. QED
    BY <1>0, <1>1, <2>1, ParamUpdates DEF Stamps
<1>5. CASE DNS_answer(g)
  <2>1. PICK b \in BOOLEAN : param' = [param EXCEPT ![Slot(g)].answered = b]
    BY <1>5 DEF DNS_answer
  <2>2. DOMAIN param = Slots
    BY DEF TypeInv, TypeOK
  <2>3. param' = [param EXCEPT ![Slot(g)] = [Of(g) EXCEPT !.answered = b]]
    BY <1>0, <1>1, <2>1, <2>2 DEF Of, Params
  <2>4. QED
    BY <1>0, <1>1, <2>3, ParamUpdates
<1>6. QED
  BY <1>1, <1>2, <1>3, <1>4, <1>5

\* It keeps every part of TypeInv.
LEMMA FieldStepTyped ==
    ASSUME TypeInv, NEW g \in Handlers,
           Hop(g) \/ First_SYN_ACK(g) \/ All_DNS_sent(g) \/ DNS_answer(g)
    PROVE  TypeInv' /\ \A r \in Slots : param[r] \in Params => param'[r] \in Params
<1>1. /\ param' \in [Slots -> Params \cup {NULL}]
      /\ \A r \in Slots : param[r] \in Params => param'[r] \in Params
  BY FieldWritten, ObjectsStay
<1>2. hpc \in [Handlers -> Labels] /\ hpkt \in [Handlers -> Packets \cup {NULL}]
  BY DEF TypeInv, TypeOK, Labels
<1>3. hpc' \in [Handlers -> Labels] /\ hpkt' \in [Handlers -> Packets \cup {NULL}]
  BY <1>2, FieldSteps DEF Labels
<1>4. UNCHANGED <<readVars, Ip_chan, slotVars, lock, disturbed, timeoutVars, write_chan,
                  writerVars, endVars>>
  BY FieldSteps
<1>5. TypeOK'
  BY <1>1, <1>3, <1>4
  DEF TypeInv, TypeOK, Labels, readVars, slotVars, timeoutVars, writerVars, endVars
<1>6. HandlersOK'
  <2> SUFFICES ASSUME NEW h \in Handlers, hpc'[h] # "free"
               PROVE  hpkt'[h] \in Packets /\ param'[hpkt'[h].slot] \in Params
    BY DEF HandlersOK, Of, Slot
  <2>1. hpc[h] # "free" /\ hpkt'[h] = hpkt[h]
    BY <1>2, FieldSteps
  <2>2. hpkt[h] \in Packets /\ param[hpkt[h].slot] \in Params
    BY <2>1 DEF TypeInv, HandlersOK, Of, Slot
  <2>3. QED
    BY <1>1, <2>1, <2>2, PacketFields
<1>7. SlotsOK' /\ SynedOK' /\ TimeoutOK' /\ WriterOK' /\ QueueOK'
  BY <1>1, <1>4, ReferencesKept DEF slotVars, timeoutVars, writerVars
<1>8. QED
  BY <1>1, <1>5, <1>6, <1>7 DEF TypeInv

\* The initial state is typed.
LEMMA InitTypeInv == Init => TypeInv
<1> SUFFICES ASSUME Init PROVE TypeInv
  OBVIOUS
<1> USE SizesAssumption DEF Init
<1>1. Ip_chan \in Seq(Targets) /\ Len(Ip_chan) <= IpCap /\ read \in 0 .. MaxTargets
  <2>1. 1 \in Targets
    BY DEF Targets
  <2>2. <<1>> \in Seq(Targets) /\ Len(<<1>>) = 1
    BY <2>1
  <2>3. CASE mode = "file"
    <3>1. Ip_chan = <<>> /\ read = 0
      BY <2>3
    <3>2. QED
      BY <3>1
  <2>4. CASE mode # "file"
    <3>1. Ip_chan = <<1>> /\ read = 1
      BY <2>4
    <3>2. QED
      BY <2>2, <3>1
  <2>5. QED
    BY <2>3, <2>4
<1>2. write_chan \in Seq(Slots) /\ Len(write_chan) <= WriteCap
  OBVIOUS
<1>3. live \in SUBSET Waited /\ rpc \in {"read", "poll", "sleep", "closed"}
  OBVIOUS
<1>4. /\ ttl \in [Slots -> 1 .. MaxTtl + 1] /\ tslot \in Slots \cup {NULL}
      /\ files \in [Targets \cup {NULL} -> Files \cup {NULL}]
      /\ mode \in {"file", "single"}
  BY ModesAssumption
<1>5. TypeOK
  BY <1>1, <1>2, <1>3, <1>4 DEF TypeOK
<1>6. QED
  BY <1>5 DEF TypeInv, SlotsOK, SynedOK, HandlersOK, TimeoutOK, WriterOK, QueueOK

\* TypeInv is inductive, and no object is removed: one step per action.
LEMMA NextTypeInv ==
    TypeInv /\ [Next]_vars =>
       TypeInv' /\ \A r \in Slots : param[r] \in Params => param'[r] \in Params
<1> DEFINE Typed == /\ TypeInv'
                    /\ \A r \in Slots : param[r] \in Params => param'[r] \in Params
<1> SUFFICES ASSUME TypeInv, [Next]_vars
             PROVE  Typed
  OBVIOUS
<1> USE SizesAssumption, NullAssumption
    DEF TypeInv, readVars, slotVars, handlerVars, timeoutVars, writerVars, endVars
<1> USE DEF TypeOK
<1>0. ASSUME UNCHANGED vars
      PROVE  Typed
  BY <1>0, ReferencesKept DEF vars
<1>1. ASSUME read_ips_file
      PROVE  Typed
  <2>1. TypeOK'
    <3>1. ASSUME Read PROVE Ip_chan' \in Seq(Targets) /\ Len(Ip_chan') <= IpCap /\ read' \in 0 .. MaxTargets
      BY <3>1 DEF Read, Targets
    <3>2. CASE Read
      BY <3>1, <3>2 DEF Read
    <3>3. CASE All_read \/ init_is_finished
      BY <3>3 DEF All_read, init_is_finished
    <3>4. CASE Stop
      BY <3>4 DEF Stop
    <3>5. QED
      BY <1>1, <3>2, <3>3, <3>4 DEF read_ips_file
  <2>2. QED
    BY <1>1, <2>1, ReferencesKept DEF read_ips_file, Read, All_read, init_is_finished, Stop
<1>2. ASSUME NEW s \in Slots, Take(s)
      PROVE  Typed
  <2>1. Head(Ip_chan) \in Targets /\ Ip_chan' \in Seq(Targets) /\ Len(Ip_chan') <= IpCap
    BY <1>2 DEF Take
  <2>2. ZeroValue \in Params
    BY DEF ZeroValue, Params, Stamps
  <2>3. /\ param' \in [Slots -> Params \cup {NULL}] /\ param'[s] \in Params
        /\ \A r \in Slots : param[r] \in Params => param'[r] \in Params
    BY <1>2, <2>2 DEF Take
  <2>4. TypeOK'
    BY <1>2, <2>1, <2>3 DEF Take
  <2>5. SlotsOK' /\ SynedOK'
    BY <1>2, <2>1, <2>3 DEF Take, SlotsOK, SynedOK
  <2>6. HandlersOK' /\ TimeoutOK' /\ WriterOK' /\ QueueOK'
    BY <1>2, <2>3, ReferencesKept DEF Take
  <2>7. QED
    BY <2>3, <2>4, <2>5, <2>6
<1>3. ASSUME NEW s \in Slots, Zero(s)
      PROVE  Typed
  <2>1. netip[s] \in Targets
    BY <1>3 DEF Zero, SlotsOK
  <2>2. zero(param[s], netip[s]) \in Params
    BY <1>3, <2>1, ZeroFields DEF Zero, SlotsOK
  <2>3. /\ param' \in [Slots -> Params \cup {NULL}]
        /\ \A r \in Slots : param[r] \in Params => param'[r] \in Params
    BY <1>3, <2>2, ObjectsStay DEF Zero
  <2>4. disturbed' \in SUBSET (Targets \cup {NULL})
    <3>1. disturbed' = disturbed \/ disturbed' = disturbed \cup {netip[s]}
      BY <1>3 DEF Zero
    <3>2. QED
      BY <2>1, <3>1
  <2>5. /\ ipc' = [ipc EXCEPT ![s] = "syns"]
        /\ UNCHANGED <<readVars, Ip_chan, netip, ttl, init_finished, syned, lock,
                       handlerVars, timeoutVars, write_chan, writerVars, endVars>>
    BY <1>3 DEF Zero
  <2>6. TypeOK'
    BY <2>3, <2>5, <2>4
  <2>7. SlotsOK' /\ SynedOK'
    BY <1>3, <2>3 DEF Zero, SlotsOK, SynedOK
  <2>8. HandlersOK' /\ TimeoutOK' /\ WriterOK' /\ QueueOK'
    BY <1>3, <2>3, ReferencesKept DEF Zero
  <2>9. QED
    BY <2>3, <2>6, <2>7, <2>8
<1>4. ASSUME NEW s \in Slots, send_syn(s)
      PROVE  Typed
  <2>1. ttl[s] \in Ttls /\ ttl[s] + 1 \in 1 .. MaxTtl + 1
    BY <1>4 DEF send_syn, Syns_left, Ttls
  <2>2. netip[s] \in Targets /\ param[s] \in Params
    BY <1>4 DEF send_syn, SlotsOK
  <2>3. TypeOK'
    BY <1>4, <2>1, <2>2 DEF send_syn
  <2>4. SlotsOK' /\ SynedOK'
    BY <1>4, <2>2 DEF send_syn, SlotsOK, SynedOK
  <2>5. HandlersOK' /\ TimeoutOK' /\ WriterOK' /\ QueueOK'
    BY <1>4, ReferencesKept DEF send_syn
  <2>6. QED
    BY <1>4, <2>3, <2>4, <2>5 DEF send_syn
<1>5. ASSUME NEW s \in Slots, All_syns_sent(s)
      PROVE  Typed
  <2>1. param[s] \in Params
    BY <1>5 DEF All_syns_sent, SlotsOK
  <2>2. [param[s] EXCEPT !.syns = "fresh"] \in Params
    BY <2>1, ParamUpdates DEF Stamps
  <2>3. /\ param' \in [Slots -> Params \cup {NULL}]
        /\ \A r \in Slots : param[r] \in Params => param'[r] \in Params
    BY <1>5, <2>2, ObjectsStay DEF All_syns_sent
  <2>4. TypeOK'
    BY <1>5, <2>3 DEF All_syns_sent
  <2>5. SlotsOK' /\ SynedOK'
    BY <1>5, <2>3 DEF All_syns_sent, SlotsOK, SynedOK
  <2>6. HandlersOK' /\ TimeoutOK' /\ WriterOK' /\ QueueOK'
    BY <1>5, <2>3, ReferencesKept DEF All_syns_sent
  <2>7. QED
    BY <2>3, <2>4, <2>5, <2>6
<1>6. ASSUME NEW s \in Slots, Tick(s)
      PROVE  Typed
  <2>1. TypeOK'
    BY <1>6 DEF Tick
  <2>2. QED
    BY <1>6, <2>1, ReferencesKept DEF Tick
<1>7. ASSUME NEW g \in Handlers, NEW p \in Packets, Packet_capture(g, p)
      PROVE  Typed
  <2>1. param[p.slot] \in Params
    BY <1>7, PacketFields DEF Packet_capture, SynedOK
  <2>2. Reaction(p, param[p.slot]) \in {"hop", "free", "first_sa", "finish"}
    BY DEF Reaction
  <2>3. disturbed' \in SUBSET (Targets \cup {NULL})
    BY <1>7, <2>1 DEF Packet_capture, Params
  <2>4. TypeOK'
    BY <1>7, <2>2, <2>3 DEF Packet_capture, Goto
  <2>5. HandlersOK'
    BY <1>7, <2>1 DEF Packet_capture, HandlersOK, Slot, Of, Goto
  <2>6. QED
    BY <1>7, <2>4, <2>5, ReferencesKept DEF Packet_capture
<1>8. ASSUME NEW g \in Handlers, Hop(g) \/ First_SYN_ACK(g) \/ All_DNS_sent(g) \/ DNS_answer(g)
      PROVE  Typed
  BY <1>8, FieldStepTyped
<1>9. ASSUME NEW g \in Handlers, Finish(g)
      PROVE  Typed
  <2>1. Of(g) \in Params /\ Slot(g) \in Slots
    BY <1>9, PacketFields DEF Finish, HandlersOK, Slot
  <2>2. param' = [param EXCEPT ![Slot(g)] = [Of(g) EXCEPT !.fin = "old"]]
    BY <1>9 DEF Finish, Of
  <2>3. /\ param' \in [Slots -> Params \cup {NULL}]
        /\ \A r \in Slots : param[r] \in Params => param'[r] \in Params
    BY <2>1, <2>2, ParamUpdates, ObjectsStay DEF Stamps
  <2>4. disturbed' \in SUBSET (Targets \cup {NULL})
    BY <1>9, <2>1 DEF Finish, Finished_twice, Of, Params
  <2>5. TypeOK'
    BY <1>9, <2>3, <2>4 DEF Finish, Goto
  <2>6. HandlersOK'
    BY <1>9, <2>3, PacketFields DEF Finish, Goto, HandlersOK, Slot, Of
  <2>7. QED
    BY <1>9, <2>3, <2>5, <2>6, ReferencesKept DEF Finish
<1>10. ASSUME NEW g \in Handlers, Send(g)
       PROVE  Typed
  <2>1. Of(g) \in Params /\ Slot(g) \in Slots
    BY <1>10, PacketFields DEF Send, HandlersOK, Slot
  <2>2. write_chan' \in Seq(Slots) /\ Len(write_chan') <= WriteCap
    BY <1>10, <2>1 DEF Send
  <2>3. TypeOK'
    BY <1>10, <2>2 DEF Send, Leave
  <2>4. HandlersOK'
    BY <1>10, PacketFields DEF Send, Leave, HandlersOK, Slot, Of
  <2>5. QueueOK'
    BY <1>10, <2>1 DEF Send, QueueOK, Of
  <2>6. QED
    BY <1>10, <2>3, <2>4, <2>5, ReferencesKept DEF Send
<1>11. ASSUME NEW s \in Slots, Timeout_check(s)
       PROVE  Typed
  <2>1. TypeOK' /\ TimeoutOK'
    BY <1>11 DEF Timeout_check, TimeoutOK
  <2>2. QED
    BY <1>11, <2>1, ReferencesKept DEF Timeout_check
<1>12. ASSUME Timeout_finish
       PROVE  Typed
  <2>1. tslot \in Slots /\ param[tslot] \in Params
    BY <1>12 DEF Timeout_finish, TimeoutOK
  <2>2. param' = [param EXCEPT ![tslot] = [param[tslot] EXCEPT !.fin = "old"]]
    BY <1>12 DEF Timeout_finish
  <2>3. /\ param' \in [Slots -> Params \cup {NULL}]
        /\ \A r \in Slots : param[r] \in Params => param'[r] \in Params
    BY <2>1, <2>2, ParamUpdates, ObjectsStay DEF Stamps
  <2>4. disturbed' \in SUBSET (Targets \cup {NULL})
    BY <1>12, <2>1 DEF Timeout_finish, Finished_twice, Params
  <2>5. TypeOK' /\ TimeoutOK'
    BY <1>12, <2>1, <2>3, <2>4 DEF Timeout_finish, TimeoutOK
  <2>6. QED
    BY <1>12, <2>3, <2>5, ReferencesKept DEF Timeout_finish
<1>13. ASSUME Timeout_send
       PROVE  Typed
  <2>1. tslot \in Slots /\ param[tslot] \in Params
    BY <1>13 DEF Timeout_send, TimeoutOK
  <2>2. write_chan' \in Seq(Slots) /\ Len(write_chan') <= WriteCap
    BY <1>13, <2>1 DEF Timeout_send
  <2>3. TypeOK' /\ TimeoutOK'
    BY <1>13, <2>1, <2>2 DEF Timeout_send, TimeoutOK
  <2>4. QueueOK'
    BY <1>13, <2>1 DEF Timeout_send, QueueOK
  <2>5. QED
    BY <1>13, <2>3, <2>4, ReferencesKept DEF Timeout_send
<1>14. ASSUME Write_create
       PROVE  Typed
  <2> DEFINE s == Head(write_chan)
  <2>1. s \in Slots /\ param[s] \in Params
    BY <1>14 DEF Write_create, QueueOK
  <2>2. param[s].ip \in Targets \cup {NULL}
    BY <2>1 DEF Params
  <2>3. write_chan' \in Seq(Slots) /\ Len(write_chan') <= WriteCap
    BY <1>14 DEF Write_create
  <2>4. TypeOK'
    BY <1>14, <2>1, <2>2, <2>3 DEF Write_create
  <2>5. WriterOK'
    BY <1>14, <2>1 DEF Write_create, WriterOK
  <2>6. QueueOK'
    BY <1>14 DEF Write_create, QueueOK
  <2>7. QED
    BY <1>14, <2>4, <2>5, <2>6, ReferencesKept DEF Write_create
<1>15. ASSUME Write_rows
       PROVE  Typed
  <2>1. wslot \in Slots /\ param[wslot] \in Params
    BY <1>15 DEF Write_rows, WriterOK
  <2>2. [hops |-> param[wslot].hops] \in Files
    BY <2>1 DEF Params, Files
  <2>3. TypeOK'
    BY <1>15, <2>2 DEF Write_rows
  <2>4. WriterOK'
    BY <1>15, <2>1 DEF Write_rows, WriterOK
  <2>5. QED
    BY <1>15, <2>3, <2>4, ReferencesKept DEF Write_rows
<1>16. ASSUME Write_mark
       PROVE  Typed
  <2>1. wslot \in Slots /\ param[wslot] \in Params
    BY <1>16 DEF Write_mark, WriterOK
  <2>2. param' = [param EXCEPT ![wslot] = [param[wslot] EXCEPT !.written = TRUE]]
    BY <1>16 DEF Write_mark
  <2>3. /\ param' \in [Slots -> Params \cup {NULL}]
        /\ \A r \in Slots : param[r] \in Params => param'[r] \in Params
    BY <2>1, <2>2, ParamUpdates, ObjectsStay
  <2>4. TypeOK' /\ WriterOK'
    BY <1>16, <2>1, <2>3 DEF Write_mark, WriterOK
  <2>5. QED
    BY <1>16, <2>3, <2>4, ReferencesKept DEF Write_mark
<1>17. ASSUME NEW s \in Slots, NEW f \in {"syns", "dns"}, Age(s, f)
       PROVE  Typed
  <2>1. param[s] \in Params
    BY <1>17 DEF Age
  <2>2. [param[s] EXCEPT ![f] = "old"] \in Params
    <3>1. CASE f = "syns"
      BY <2>1, <3>1 DEF Params, Stamps
    <3>2. CASE f = "dns"
      BY <2>1, <3>2 DEF Params, Stamps
    <3>3. QED
      BY <3>1, <3>2
  <2>3. /\ param' \in [Slots -> Params \cup {NULL}]
        /\ \A r \in Slots : param[r] \in Params => param'[r] \in Params
    BY <1>17, <2>2, ObjectsStay DEF Age
  <2>4. TypeOK'
    BY <1>17, <2>3 DEF Age
  <2>5. QED
    BY <1>17, <2>3, <2>4, ReferencesKept DEF Age
<1>18. ASSUME NEW t \in Waited, Return(t)
       PROVE  Typed
  <2>1. TypeOK'
    BY <1>18 DEF Return
  <2>2. QED
    BY <1>18, <2>1, ReferencesKept DEF Return
<1>19. QED
  BY <1>0, <1>1, <1>2, <1>3, <1>4, <1>5, <1>6, <1>7, <1>8, <1>9, <1>10, <1>11,
     <1>12, <1>13, <1>14, <1>15, <1>16, <1>17, <1>18
  DEF Next, Arrival, Step, init_traceroute, Handle_pkt, Timeout, Write_results

\* Types hold, the channels never exceed their capacity, and every hop count tried is
\* in range: all steps of the traceroute.
THEOREM TypeCorrect == Spec => []TypeOK
<1>1. TypeInv /\ [Next]_vars => TypeInv'
  BY NextTypeInv
<1>2. TypeInv => TypeOK
  BY DEF TypeInv
<1>3. QED
  BY InitTypeInv, <1>1, <1>2, PTL DEF Spec

-----------------------------------------------------------------------------
(***************************************************************************)
(* One run.                                                                 *)
(***************************************************************************)
\* What a step may do to an object unless it starts a run on it: the target and a
\* chosen port stay, and the end is set by who finishes the run or by the clock.
LEMMA Effects ==
    ASSUME TypeInv, [Next]_vars,
           NEW s \in Slots, param[s] \in Params, ~Zero(s)
    PROVE  /\ param'[s] \in Params
           /\ param'[s].ip = param[s].ip
           /\ param[s].port # 0 => param'[s].port = param[s].port
           /\ \/ param'[s].hops = param[s].hops
              \/ \E g \in Handlers : /\ hpc[g] # "free" /\ Slot(g) = s
                                    /\ param'[s].hops = param[s].hops \cup {hpkt[g].run}
           /\ \/ param'[s].fin = param[s].fin
              \/ /\ param'[s].fin = "old"
                 /\ \/ \E g \in Handlers : Finish(g) /\ Slot(g) = s
                    \/ Timeout_finish /\ tslot = s
           /\ param'[s].written = param[s].written \/ (Write_mark /\ wslot = s)
<1> USE NullAssumption DEF TypeInv, TypeOK
<1> DEFINE Written == param'[s].written = param[s].written
           Kept == /\ param'[s].ip = param[s].ip
                   /\ param[s].port # 0 => param'[s].port = param[s].port
           Hops == param'[s].hops = param[s].hops
           Fin == param'[s].fin = param[s].fin
<1>1. param'[s] \in Params
  BY NextTypeInv
<1>2. CASE UNCHANGED param
  BY <1>1, <1>2
<1>3. CASE \E r \in Slots : Take(r) \/ Zero(r)
  <2>1. UNCHANGED param[s]
    BY <1>3 DEF Take, Zero
  <2>2. QED
    BY <1>1, <2>1
<1>4. CASE \E r \in Slots : All_syns_sent(r)
  <2>1. Kept /\ Written /\ Hops /\ Fin
    BY <1>4 DEF All_syns_sent, Params
  <2>2. QED
    BY <1>1, <2>1
<1>5. CASE \E g \in Handlers : Hop(g) \/ All_DNS_sent(g) \/ DNS_answer(g)
  <2>1. PICK g \in Handlers : Hop(g) \/ All_DNS_sent(g) \/ DNS_answer(g)
    BY <1>5
  <2>2. CASE Hop(g) \/ All_DNS_sent(g)
    <3>1. ASSUME Hop(g)
          PROVE  /\ Kept /\ Written /\ Fin /\ hpc[g] # "free"
                 /\ Slot(g) # s => Hops
                 /\ Slot(g) = s => param'[s].hops = param[s].hops \cup {hpkt[g].run}
      BY <3>1 DEF Hop, Params
    <3>2. ASSUME All_DNS_sent(g) PROVE Kept /\ Written /\ Hops /\ Fin
      BY <3>2 DEF All_DNS_sent, Params
    <3>3. QED
      BY <1>1, <2>2, <3>1, <3>2
  <2>3. CASE DNS_answer(g)
    <3>1. PICK b \in BOOLEAN : param' = [param EXCEPT ![Slot(g)].answered = b]
      BY <2>3 DEF DNS_answer
    <3>2. Kept /\ Written /\ Hops /\ Fin
      BY <3>1 DEF Params
    <3>3. QED
      BY <1>1, <3>2
  <2>4. QED
    BY <2>1, <2>2, <2>3
<1>6. CASE \E g \in Handlers : First_SYN_ACK(g)
  <2>1. PICK g \in Handlers : First_SYN_ACK(g)
    BY <1>6
  <2>2. /\ Kept /\ Written /\ Fin /\ hpc[g] # "free"
        /\ Slot(g) # s => Hops
        /\ Slot(g) = s => param'[s].hops = param[s].hops \cup {hpkt[g].run}
    BY <2>1 DEF First_SYN_ACK, Port_free, Of, Params
  <2>3. QED
    BY <1>1, <2>2
<1>7. CASE \E g \in Handlers : Finish(g)
  <2>1. PICK g \in Handlers : Finish(g)
    BY <1>7
  <2>2. Kept /\ Written /\ Hops /\ (Fin \/ (Slot(g) = s /\ param'[s].fin = "old"))
    BY <2>1 DEF Finish, Params
  <2>3. QED
    BY <1>1, <2>1, <2>2
<1>8. CASE Timeout_finish
  <2>1. Kept /\ Written /\ Hops /\ (Fin \/ (tslot = s /\ param'[s].fin = "old"))
    BY <1>8 DEF Timeout_finish, Params
  <2>2. QED
    BY <1>1, <1>8, <2>1
<1>9. CASE Write_mark
  <2>1. Kept /\ Hops /\ Fin /\ (wslot # s => Written)
    BY <1>9 DEF Write_mark, Params
  <2>2. QED
    BY <1>1, <1>9, <2>1
<1>10. CASE \E r \in Slots, f \in {"syns", "dns"} : Age(r, f)
  <2>1. Kept /\ Written /\ Hops /\ Fin
    BY <1>10 DEF Age, Params
  <2>2. QED
    BY <1>1, <2>1
<1>12. QED
  <2>1. \A r \in Slots : send_syn(r) \/ Tick(r) \/ Timeout_check(r) => UNCHANGED param
    BY DEF send_syn, Tick, Timeout_check
  <2>2. \A g \in Handlers : Send(g) \/ (\E p \in Packets : Packet_capture(g, p)) => UNCHANGED param
    BY DEF Send, Packet_capture
  <2>3. read_ips_file \/ Timeout_send \/ Write_create \/ Write_rows \/ (\E t \in Waited : Return(t)) => UNCHANGED param
    BY DEF read_ips_file, Read, All_read, init_is_finished, Stop, Timeout_send, Write_create,
           Write_rows, Return
  <2>4. UNCHANGED vars => UNCHANGED param
    BY DEF vars
  <2>5. QED
    BY <1>2, <1>3, <1>4, <1>5, <1>6, <1>7, <1>8, <1>9, <1>10, <2>1, <2>2, <2>3, <2>4
    DEF Next, Arrival, Step, init_traceroute, Handle_pkt, Timeout, Write_results

\* An object is created by its slot alone.
LEMMA NoObject ==
    ASSUME TypeInv, [Next]_vars, NEW s \in Slots, param[s] \notin Params, ~Take(s)
    PROVE  param'[s] = param[s]
<1> USE NullAssumption, PacketFields DEF TypeInv, TypeOK
<1>1. CASE UNCHANGED param
  BY <1>1
<1>2. CASE \E r \in Slots : Take(r) \/ Zero(r) \/ All_syns_sent(r)
  BY <1>2 DEF Take, Zero, All_syns_sent, SlotsOK
<1>3. CASE \E g \in Handlers : Hop(g) \/ All_DNS_sent(g)
  BY <1>3 DEF Hop, All_DNS_sent, HandlersOK, Of, Slot
<1>4. CASE \E g \in Handlers : First_SYN_ACK(g) \/ Finish(g)
  BY <1>4 DEF First_SYN_ACK, Finish, HandlersOK, Of, Slot
<1>5. CASE \E g \in Handlers : DNS_answer(g)
  <2>1. PICK g \in Handlers : DNS_answer(g)
    BY <1>5
  <2>2. PICK b \in BOOLEAN : param' = [param EXCEPT ![Slot(g)].answered = b]
    BY <2>1 DEF DNS_answer
  <2>3. Slot(g) # s
    BY <2>1 DEF DNS_answer, HandlersOK, Of, Slot
  <2>4. QED
    BY <2>2, <2>3
<1>6. CASE Timeout_finish \/ Write_mark
  BY <1>6 DEF Timeout_finish, Write_mark, TimeoutOK, WriterOK
<1>7. CASE \E r \in Slots, f \in {"syns", "dns"} : Age(r, f)
  BY <1>7 DEF Age
<1>8. QED
  <2>1. \A r \in Slots : send_syn(r) \/ Tick(r) \/ Timeout_check(r) => UNCHANGED param
    BY DEF send_syn, Tick, Timeout_check
  <2>2. \A g \in Handlers : Send(g) \/ (\E p \in Packets : Packet_capture(g, p)) => UNCHANGED param
    BY DEF Send, Packet_capture
  <2>3. read_ips_file \/ Timeout_send \/ Write_create \/ Write_rows \/ (\E t \in Waited : Return(t)) => UNCHANGED param
    BY DEF read_ips_file, Read, All_read, init_is_finished, Stop, Timeout_send, Write_create,
           Write_rows, Return
  <2>4. UNCHANGED vars => UNCHANGED param
    BY DEF vars
  <2>5. QED
    BY <1>1, <1>2, <1>3, <1>4, <1>5, <1>6, <1>7, <2>1, <2>2, <2>3, <2>4
    DEF Next, Arrival, Step, init_traceroute, Handle_pkt, Timeout, Write_results

-----------------------------------------------------------------------------
(***************************************************************************)
(* Targets are traced once: Ip_chan holds them in the order of the file,    *)
(* and who has taken one is before all it holds.                            *)
(***************************************************************************)
Taken(t) == t <= read /\ \A i \in 1 .. Len(Ip_chan) : t < Ip_chan[i]

ChanOrder ==
    /\ \A i, j \in 1 .. Len(Ip_chan) : i < j => Ip_chan[i] < Ip_chan[j]
    /\ \A i \in 1 .. Len(Ip_chan) : Ip_chan[i] <= read
NetipTaken == \A s \in Slots : netip[s] # NULL => Taken(netip[s])
RunTaken == \A s \in Slots : param[s] \in Params /\ param[s].ip # NULL => Taken(param[s].ip)
NextDiffers == \A s \in Slots : ipc[s] = "wait" => param[s].ip # netip[s]

Order == ChanOrder /\ NetipTaken /\ RunTaken /\ NextDiffers

\* At the start nothing is taken.
LEMMA InitOrder == Init => Order
<1> SUFFICES ASSUME Init PROVE Order
  OBVIOUS
<1>1. ChanOrder
  <2>1. CASE Ip_chan = <<>>
    BY <2>1 DEF ChanOrder
  <2>2. CASE Ip_chan = <<1>> /\ read = 1
    BY <2>2 DEF ChanOrder
  <2>3. QED
    BY <2>1, <2>2 DEF Init
<1>2. QED
  BY <1>1, NullAssumption DEF Init, Order, NetipTaken, RunTaken, NextDiffers

\* What Append and Tail do to a channel of targets.
LEMMA ChanSteps ==
    ASSUME NEW c \in Seq(Targets)
    PROVE  /\ \A i \in 1 .. Len(c) : c[i] \in Targets
           /\ \A t \in Targets :
                 /\ Len(Append(c, t)) = Len(c) + 1
                 /\ \A i \in 1 .. Len(c) + 1 :
                       Append(c, t)[i] = IF i <= Len(c) THEN c[i] ELSE t
           /\ c # <<>> => /\ Len(Tail(c)) = Len(c) - 1 /\ Len(c) \in Nat \ {0}
                          /\ \A i \in 1 .. Len(c) - 1 : Tail(c)[i] = c[i + 1]
                          /\ Head(c) = c[1]
OBVIOUS

\* What is taken stays taken.
LEMMA TakenStays ==
    ASSUME TypeInv, ChanOrder, [Next]_vars, NEW t \in Targets, Taken(t)
    PROVE  Taken(t)'
<1> USE DEF TypeInv, TypeOK, Targets, Taken
<1>1. CASE Read
  <2>1. read' = read + 1 /\ Ip_chan' = Append(Ip_chan, read + 1) /\ read + 1 \in Targets
    BY <1>1, SizesAssumption DEF Read
  <2>2. /\ Len(Ip_chan') = Len(Ip_chan) + 1
        /\ \A i \in 1 .. Len(Ip_chan) + 1 :
              Ip_chan'[i] = IF i <= Len(Ip_chan) THEN Ip_chan[i] ELSE read + 1
    BY <2>1, ChanSteps
  <2>3. QED
    BY <2>1, <2>2
<1>2. CASE \E s \in Slots : Take(s)
  <2>1. read' = read /\ Ip_chan' = Tail(Ip_chan) /\ Ip_chan # <<>>
    BY <1>2 DEF Take, readVars
  <2>2. /\ Len(Ip_chan') = Len(Ip_chan) - 1 /\ Len(Ip_chan) \in Nat
        /\ \A i \in 1 .. Len(Ip_chan) - 1 : Ip_chan'[i] = Ip_chan[i + 1]
    BY <2>1, ChanSteps
  <2>3. QED
    BY <2>1, <2>2
<1>3. CASE UNCHANGED <<read, Ip_chan>>
  BY <1>3
<1>4. QED
  BY <1>1, <1>2, <1>3
  DEF Next, Arrival, Step, read_ips_file, All_read, init_is_finished, Stop,
      init_traceroute, Zero, send_syn, All_syns_sent, Tick, Packet_capture, Handle_pkt,
      Hop, First_SYN_ACK, All_DNS_sent, DNS_answer, Finish, Send, Timeout, Timeout_check,
      Timeout_finish, Timeout_send, Write_results, Write_create, Write_rows, Write_mark, Age,
      Return, vars, readVars, endVars

\* The order is kept: targets are put behind and taken from the front.
LEMMA NextOrder == TypeInv /\ Order /\ [Next]_vars => Order'
<1> SUFFICES ASSUME TypeInv, Order, [Next]_vars PROVE Order'
  OBVIOUS
<1> USE DEF Order
<1>1. CASE \E s \in Slots : Take(s)
  <2>1. PICK s \in Slots : Take(s)
    BY <1>1
  <2>2. PICK t \in Targets : t = Head(Ip_chan) /\ t = Ip_chan[1]
    BY <2>1, ChanSteps DEF Take, TypeInv, TypeOK
  <2>3. ChanOrder' /\ Taken(t)'
    <3>1. /\ read' = read /\ Ip_chan' = Tail(Ip_chan) /\ Ip_chan # <<>>
          /\ Ip_chan \in Seq(Targets) /\ read \in Nat
      BY <2>1 DEF Take, readVars, TypeInv, TypeOK
    <3>2. /\ Len(Ip_chan') = Len(Ip_chan) - 1 /\ Len(Ip_chan) \in Nat \ {0}
          /\ \A i \in 1 .. Len(Ip_chan) - 1 : Ip_chan'[i] = Ip_chan[i + 1]
      BY <3>1, ChanSteps
    <3>3. ChanOrder'
      BY <3>1, <3>2 DEF ChanOrder
    <3>4. t <= read /\ \A i \in 1 .. Len(Ip_chan) - 1 : t < Ip_chan[i + 1]
      BY <2>2, <3>2 DEF ChanOrder
    <3>5. QED
      BY <3>1, <3>2, <3>3, <3>4 DEF Taken
  <2>4. NetipTaken'
    BY <2>1, <2>2, <2>3, TakenStays DEF Take, NetipTaken, TypeInv, TypeOK
  <2>5. RunTaken'
    BY <2>1, TakenStays, NullAssumption DEF Take, RunTaken, TypeInv, TypeOK, ZeroValue, Params
  <2>6. NextDiffers'
    <3>1. param[s] \in Params /\ param[s].ip # NULL => param[s].ip < Head(Ip_chan)
      BY <2>1, <2>2 DEF Take, RunTaken, Taken, TypeInv, TypeOK
    <3>2. param'[s].ip # netip'[s]
      BY <2>1, <2>2, <3>1, NamesAssumption
      DEF Take, TypeInv, TypeOK, ZeroValue, Params, Targets
    <3>3. \A r \in Slots : r # s => UNCHANGED <<param[r], netip[r], ipc[r]>>
      BY <2>1 DEF Take, TypeInv, TypeOK
    <3>4. QED
      BY <3>2, <3>3 DEF NextDiffers
  <2>7. QED
    BY <2>3, <2>4, <2>5, <2>6
<1>2. CASE \E s \in Slots : Zero(s)
  <2>1. PICK s \in Slots : Zero(s)
    BY <1>2
  <2>2. netip[s] \in Targets
    BY <2>1 DEF Zero, TypeInv, SlotsOK
  <2>3. ChanOrder' /\ NetipTaken'
    BY <2>1 DEF Zero, ChanOrder, NetipTaken, Taken, readVars
  <2>4. RunTaken'
    BY <2>1, <2>2, NamesAssumption
    DEF Zero, RunTaken, NetipTaken, Taken, zero, TypeInv, TypeOK, SlotsOK, Params, readVars
  <2>5. NextDiffers'
    BY <2>1 DEF Zero, NextDiffers, TypeInv, TypeOK
  <2>6. QED
    BY <2>3, <2>4, <2>5
<1>3. CASE \A s \in Slots : ~Take(s) /\ ~Zero(s)
  <2>1. UNCHANGED netip /\ \A s \in Slots : ipc'[s] = "wait" => ipc[s] = "wait"
    BY <1>3
    DEF Next, Arrival, Step, read_ips_file, Read, All_read, init_is_finished, Stop,
        init_traceroute, send_syn, All_syns_sent, Tick, Packet_capture, Handle_pkt,
        Hop, First_SYN_ACK, All_DNS_sent, DNS_answer, Finish, Send, Timeout, Timeout_check,
        Timeout_finish, Timeout_send, Write_results, Write_create, Write_rows, Write_mark, Age,
        Return, vars, slotVars, TypeInv, TypeOK
  <2>2. ChanOrder'
    <3>1. CASE Read
      <4>1. /\ read' = read + 1 /\ Ip_chan' = Append(Ip_chan, read + 1)
            /\ read + 1 \in Targets /\ Ip_chan \in Seq(Targets)
        BY <3>1, SizesAssumption DEF Read, TypeInv, TypeOK, Targets
      <4>2. /\ Len(Ip_chan') = Len(Ip_chan) + 1 /\ Len(Ip_chan) \in Nat
            /\ \A i \in 1 .. Len(Ip_chan) + 1 :
                  Ip_chan'[i] = IF i <= Len(Ip_chan) THEN Ip_chan[i] ELSE read + 1
        BY <4>1, ChanSteps
      <4>3. \A i \in 1 .. Len(Ip_chan) : Ip_chan[i] \in Nat
        BY <4>1, ChanSteps DEF Targets
      <4>4. read \in Nat
        BY DEF TypeInv, TypeOK
      <4>5. \A i \in 1 .. Len(Ip_chan) : Ip_chan[i] < read + 1
        BY <4>3, <4>4 DEF ChanOrder
      <4>6. QED
        BY <4>1, <4>2, <4>3, <4>4, <4>5 DEF ChanOrder
    <3>2. CASE UNCHANGED <<read, Ip_chan>>
      BY <3>2 DEF ChanOrder
    <3>3. QED
      BY <1>3, <3>1, <3>2
      DEF Next, Arrival, Step, read_ips_file, All_read, init_is_finished, Stop,
          init_traceroute, send_syn, All_syns_sent, Tick, Packet_capture, Handle_pkt,
          Hop, First_SYN_ACK, All_DNS_sent, DNS_answer, Finish, Send, Timeout, Timeout_check,
          Timeout_finish, Timeout_send, Write_results, Write_create, Write_rows, Write_mark, Age,
          Return, vars, readVars
  <2>3. NetipTaken'
    BY <2>1, TakenStays DEF NetipTaken, TypeInv, TypeOK
  <2>4. \A s \in Slots : param[s] \notin Params => param'[s] \notin Params
    BY <1>3, NoObject
  <2>5. RunTaken'
    BY <1>3, <2>4, Effects, TakenStays DEF RunTaken, Params
  <2>6. NextDiffers'
    BY <1>3, <2>1, Effects DEF NextDiffers, TypeInv, SlotsOK
  <2>7. QED
    BY <2>2, <2>3, <2>5, <2>6
<1>4. QED
  BY <1>1, <1>2, <1>3

\* However many SYN-ACKs pass the test for the first one together, the port of the
\* DNS traceroute is chosen once in a run.
THEOREM PortStaysFixed == Spec => DnsPortFixed
<1> DEFINE Inv == TypeInv /\ Order
           Fixed == \A s \in Slots, t \in Targets :
                       InRun(s, t) /\ InRun(s, t)' /\ param[s].port # 0
                       => param'[s].port = param[s].port
<1>1. Init => Inv
  BY InitTypeInv, InitOrder
<1>2. Inv /\ [Next]_vars => Inv'
  BY NextTypeInv, NextOrder
<1>3. Inv /\ [Next]_vars => Fixed
  <2> SUFFICES ASSUME Inv, [Next]_vars,
                      NEW s \in Slots, NEW t \in Targets,
                      InRun(s, t), InRun(s, t)', param[s].port # 0
               PROVE  param'[s].port = param[s].port
    OBVIOUS
  <2>1. param[s] \in Params
    BY DEF InRun, TypeInv, TypeOK
  <2>2. ~Zero(s)
    <3>1. SUFFICES ASSUME Zero(s) PROVE FALSE
      OBVIOUS
    <3>2. param'[s].ip = netip[s] /\ ipc[s] = "wait"
      BY <2>1, <3>1 DEF Zero, zero, Params, TypeInv, TypeOK
    <3>3. QED
      BY <3>2 DEF InRun, Order, NextDiffers
  <2>3. QED
    BY <2>1, <2>2, Effects
<1>4. QED
  BY <1>1, <1>2, <1>3, PTL DEF Spec, DnsPortFixed

-----------------------------------------------------------------------------
(***************************************************************************)
(* Who holds a finished object: one that sends it, with its mutex, then the *)
(* queue, then the writer.  Unless its run is disturbed it is with one of   *)
(* them only, and with none before it is finished and after it is written.  *)
(***************************************************************************)
Queued(s) == \E k \in 1 .. Len(write_chan) : write_chan[k] = s
QueuedOnce(s) == \A i, j \in 1 .. Len(write_chan) :
                    write_chan[i] = s /\ write_chan[j] = s => i = j
Sending(s) == \/ \E g \in Handlers : hpc[g] = "send" /\ Slot(g) = s
              \/ tpc = "send" /\ tslot = s
Writing(s) == wpc # "select" /\ wslot = s
InHand(s) == Sending(s) \/ Queued(s) \/ Writing(s)
HasFile(t) == t # NULL /\ files[t] # NULL

LockHeld == /\ \A g \in Handlers : hpc[g] = "send" => lock[Slot(g)] = g
            /\ tpc = "send" => lock[tslot] = "timeout"

Undisturbed(s) == param[s] \in Params /\ param[s].ip \notin disturbed
Clean(s) == Undisturbed(s) /\ (param[s].ip = NULL => param[s].fin = "unset")

Unfinished(s) == param[s].fin = "unset" => ~InHand(s) /\ ~param[s].written
Written(s) == param[s].written => ~InHand(s) /\ HasFile(param[s].ip)
OneHand(s) == /\ Sending(s) => ~Queued(s) /\ ~Writing(s)
              /\ Queued(s) => ~Writing(s)
              /\ QueuedOnce(s)
OwnFile(s) == Writing(s) => IF wpc = "rows" THEN wip = param[s].ip
                                            ELSE HasFile(param[s].ip)
InOrder(s) == Unfinished(s) /\ Written(s) /\ OneHand(s) /\ OwnFile(s)
Handed == LockHeld /\ \A s \in Slots : Clean(s) => InOrder(s)

\* What Append and Tail do to a channel of slots.
LEMMA QueueSteps ==
    ASSUME NEW c \in Seq(Slots)
    PROVE  /\ \A t \in Slots :
                 /\ Len(Append(c, t)) = Len(c) + 1 /\ Len(c) \in Nat
                 /\ \A i \in 1 .. Len(c) + 1 :
                       Append(c, t)[i] = IF i <= Len(c) THEN c[i] ELSE t
           /\ c # <<>> => /\ Len(Tail(c)) = Len(c) - 1 /\ Len(c) \in Nat \ {0}
                          /\ \A i \in 1 .. Len(c) - 1 : Tail(c)[i] = c[i + 1]
                          /\ Head(c) = c[1]
OBVIOUS

\* What is put into the queue is in it, the others are as they were.
LEMMA PutIntoQueue ==
    ASSUME TypeInv, NEW t \in Slots, write_chan' = Append(write_chan, t), NEW s \in Slots
    PROVE  /\ s # t => (Queued(s)' <=> Queued(s)) /\ (QueuedOnce(s) => QueuedOnce(s)')
           /\ ~Queued(t) => QueuedOnce(t)'
<1>1. /\ Len(write_chan') = Len(write_chan) + 1 /\ Len(write_chan) \in Nat
      /\ \A i \in 1 .. Len(write_chan) + 1 :
            write_chan'[i] = IF i <= Len(write_chan) THEN write_chan[i] ELSE t
  BY QueueSteps DEF TypeInv, TypeOK
<1>2. PICK n \in Nat : n = Len(write_chan)
  BY <1>1
<1>3. /\ Len(write_chan') = n + 1
      /\ \A i \in 1 .. n : i \in 1 .. n + 1 /\ write_chan'[i] = write_chan[i]
      /\ n + 1 \in 1 .. n + 1 /\ write_chan'[n + 1] = t
      /\ \A i \in 1 .. n + 1 : i \in 1 .. n \/ i = n + 1
  BY <1>1, <1>2
<1>4. ASSUME s # t
      PROVE  (Queued(s)' <=> Queued(s)) /\ (QueuedOnce(s) => QueuedOnce(s)')
  <2>1. Queued(s)' <=> Queued(s)
    BY <1>2, <1>3, <1>4 DEF Queued
  <2>2. QueuedOnce(s) => QueuedOnce(s)'
    BY <1>2, <1>3, <1>4 DEF QueuedOnce
  <2>3. QED
    BY <2>1, <2>2
<1>5. ~Queued(t) => QueuedOnce(t)'
  BY <1>2, <1>3 DEF Queued, QueuedOnce
<1>6. QED
  BY <1>4, <1>5

\* What the writer takes from the queue was in it, and is no more if it was there once.
LEMMA TakeFromQueue ==
    ASSUME TypeInv, write_chan # <<>>, write_chan' = Tail(write_chan), NEW s \in Slots
    PROVE  /\ Queued(s)' => Queued(s)
           /\ QueuedOnce(s) => QueuedOnce(s)'
           /\ Head(write_chan) = s => Queued(s) /\ (QueuedOnce(s) => ~Queued(s)')
<1>1. /\ Len(write_chan') = Len(write_chan) - 1 /\ Len(write_chan) \in Nat \ {0}
      /\ \A i \in 1 .. Len(write_chan) - 1 : write_chan'[i] = write_chan[i + 1]
      /\ Head(write_chan) = write_chan[1]
  BY QueueSteps DEF TypeInv, TypeOK
<1>2. PICK n \in Nat : n + 1 = Len(write_chan)
  <2>1. Len(write_chan) - 1 \in Nat /\ (Len(write_chan) - 1) + 1 = Len(write_chan)
    BY <1>1
  <2>2. QED
    BY <2>1
<1>3. /\ Len(write_chan') = n
      /\ \A i \in 1 .. n : i + 1 \in 1 .. n + 1 /\ write_chan'[i] = write_chan[i + 1]
                           /\ i + 1 # 1
      /\ 1 \in 1 .. n + 1
  <2>1. Len(write_chan') = n /\ 1 \in 1 .. n + 1
    <3>1. 1 \in 1 .. n + 1 /\ (n + 1) - 1 = n
      OBVIOUS
    <3>2. Len(write_chan') = Len(write_chan) - 1
      BY <1>1
    <3>3. QED
      BY <1>2, <3>1, <3>2
  <2>2. ASSUME NEW i \in 1 .. n
        PROVE  i + 1 \in 1 .. n + 1 /\ write_chan'[i] = write_chan[i + 1] /\ i + 1 # 1
    <3>1. i \in 1 .. Len(write_chan) - 1 /\ i + 1 \in 1 .. n + 1 /\ i + 1 # 1
      BY <1>2
    <3>2. QED
      BY <1>1, <3>1
  <2>3. QED
    BY <2>1, <2>2
<1>4. Queued(s)' => Queued(s)
  BY <1>2, <1>3 DEF Queued
<1>5. QueuedOnce(s) => QueuedOnce(s)'
  <2> SUFFICES ASSUME QueuedOnce(s), NEW i \in 1 .. n, NEW j \in 1 .. n,
                      write_chan'[i] = s, write_chan'[j] = s
               PROVE  i = j
    BY <1>3 DEF QueuedOnce
  <2>1. i + 1 = j + 1
    BY <1>2, <1>3 DEF QueuedOnce
  <2>2. QED
    BY <2>1
<1>6. Head(write_chan) = s => Queued(s) /\ (QueuedOnce(s) => ~Queued(s)')
  BY <1>1, <1>2, <1>3 DEF Queued, QueuedOnce
<1>7. QED
  BY <1>4, <1>5, <1>6

\* Which steps move a slot, a handler, a file; a run once disturbed stays so.
LEMMA WhoMoves ==
    ASSUME [Next]_vars
    PROVE  /\ UNCHANGED <<ipc, netip>> \/ \E s \in Slots : Take(s) \/ Zero(s) \/ All_syns_sent(s)
           /\ UNCHANGED handlerVars \/ Arrival \/ \E g \in Handlers : Handle_pkt(g)
           /\ UNCHANGED files \/ Write_rows
           /\ UNCHANGED <<wpc, wslot, wip>> \/ Write_results
           /\ disturbed \subseteq disturbed'
<1> USE DEF slotVars, handlerVars, writerVars
<1>1. CASE read_ips_file
  BY <1>1 DEF read_ips_file, Read, All_read, init_is_finished, Stop
<1>2. CASE \E s \in Slots : init_traceroute(s)
  BY <1>2 DEF init_traceroute, Take, Zero, send_syn, All_syns_sent, Tick
<1>3. CASE Arrival
  BY <1>3 DEF Arrival, Packet_capture
<1>4. ASSUME NEW g \in Handlers, Handle_pkt(g)
      PROVE  UNCHANGED <<slotVars, writerVars>> /\ disturbed \subseteq disturbed'
  BY <1>4 DEF Handle_pkt, Hop, First_SYN_ACK, All_DNS_sent, DNS_answer, Finish,
              Finished_twice, Send
<1>5. CASE Timeout
  BY <1>5 DEF Timeout, Timeout_check, Timeout_finish, Finished_twice, Timeout_send
<1>6. CASE Write_results
  BY <1>6 DEF Write_results, Write_create, Write_rows, Write_mark
<1>7. CASE \E s \in Slots, f \in {"syns", "dns"} : Age(s, f)
  BY <1>7 DEF Age
<1>8. CASE \E t \in Waited : Return(t)
  BY <1>8 DEF Return
<1>9. CASE UNCHANGED vars
  BY <1>9 DEF vars
<1>10. CASE \E g \in Handlers : Handle_pkt(g)
  BY <1>4, <1>10
<1>11. QED
  BY <1>1, <1>2, <1>3, <1>5, <1>6, <1>7, <1>8, <1>9, <1>10 DEF Next, Step

\* The steps that hand an object on.
Hands_on == \/ \E g \in Handlers : Finish(g) \/ Send(g)
            \/ Timeout_finish \/ Timeout_send
            \/ Write_results

\* The others leave it where it is, and do not mark it.
LEMMA HandsKept ==
    ASSUME TypeInv, [Next]_vars, ~Hands_on
    PROVE  /\ UNCHANGED <<write_chan, wpc, wslot, wip, files>>
           /\ \A g \in Handlers : hpc'[g] = "send" <=> hpc[g] = "send"
           /\ \A g \in Handlers : hpc[g] = "send" => hpkt'[g] = hpkt[g]
           /\ tpc' = "send" <=> tpc = "send"
           /\ tpc = "send" => tslot' = tslot
           /\ UNCHANGED lock
<1> DEFINE Same == /\ UNCHANGED <<write_chan, wpc, wslot, wip, files, lock>>
                   /\ \A g \in Handlers : hpc'[g] = "send" <=> hpc[g] = "send"
                   /\ \A g \in Handlers : hpc[g] = "send" => hpkt'[g] = hpkt[g]
                   /\ tpc' = "send" <=> tpc = "send"
                   /\ tpc = "send" => tslot' = tslot
<1> USE DEF handlerVars, writerVars, timeoutVars
<1>1. CASE read_ips_file
  BY <1>1 DEF read_ips_file, Read, All_read, init_is_finished, Stop
<1>2. CASE \E s \in Slots : init_traceroute(s)
  BY <1>2 DEF init_traceroute, Take, Zero, send_syn, All_syns_sent, Tick
<1>3. ASSUME NEW h \in Handlers, NEW p \in Packets, Packet_capture(h, p) PROVE Same
  <2>1. Reaction(p, param[p.slot]) # "send"
    BY DEF Reaction
  <2>2. QED
    BY <1>3, <2>1 DEF Packet_capture, Goto, TypeInv, TypeOK
<1>4. ASSUME NEW h \in Handlers, Hop(h) \/ First_SYN_ACK(h) \/ All_DNS_sent(h) \/ DNS_answer(h)
      PROVE  Same
  BY <1>4 DEF Hop, First_SYN_ACK, All_DNS_sent, DNS_answer, Goto, Leave, TypeInv, TypeOK
<1>5. ASSUME NEW s \in Slots, Timeout_check(s) PROVE Same
  BY <1>5 DEF Timeout_check
<1>6. CASE \E s \in Slots, f \in {"syns", "dns"} : Age(s, f)
  BY <1>6 DEF Age
<1>7. CASE \E t \in Waited : Return(t)
  BY <1>7 DEF Return
<1>8. CASE UNCHANGED vars
  BY <1>8 DEF vars
<1>9. QED
  BY <1>1, <1>2, <1>3, <1>4, <1>5, <1>6, <1>7, <1>8
  DEF Next, Arrival, Step, Handle_pkt, Timeout, Hands_on

\* The mutex is with who sends.
LEMMA NextLockHeld == TypeInv /\ LockHeld /\ [Next]_vars => LockHeld'
<1> SUFFICES ASSUME TypeInv, LockHeld, [Next]_vars PROVE LockHeld'
  OBVIOUS
<1> USE NamesAssumption
<1>1. CASE ~Hands_on
  BY <1>1, HandsKept DEF LockHeld, Slot
<1>2. ASSUME NEW g \in Handlers, Finish(g)
      PROVE  LockHeld'
  <2>1. /\ lock[Slot(g)] = NULL /\ lock' = [lock EXCEPT ![Slot(g)] = g]
        /\ hpc' = [hpc EXCEPT ![g] = "send"] /\ UNCHANGED <<hpkt, tpc, tslot>>
    BY <1>2 DEF Finish, Unlocked, Goto, timeoutVars
  <2>2. Slot(g) \in Slots
    BY <1>2, PacketFields DEF Finish, TypeInv, HandlersOK, Slot
  <2>3. ASSUME NEW h \in Handlers, hpc'[h] = "send" PROVE lock'[Slot(h)'] = h
    <3>1. CASE h = g
      BY <2>1, <2>2, <3>1 DEF Slot, TypeInv, TypeOK
    <3>2. CASE h # g
      <4>1. lock[Slot(h)] = h
        BY <2>1, <2>3, <3>2 DEF LockHeld, TypeInv, TypeOK
      <4>2. QED
        BY <2>1, <4>1 DEF Slot, TypeInv, TypeOK
    <3>3. QED
      BY <3>1, <3>2
  <2>4. tpc' = "send" => lock'[tslot'] = "timeout"
    BY <2>1 DEF LockHeld, TypeInv, TypeOK, TimeoutOK
  <2>5. QED
    BY <2>3, <2>4 DEF LockHeld
<1>3. ASSUME NEW g \in Handlers, Send(g)
      PROVE  LockHeld'
  <2>1. /\ lock' = [lock EXCEPT ![Slot(g)] = NULL] /\ hpc[g] = "send"
        /\ hpc' = [hpc EXCEPT ![g] = "free"] /\ hpkt' = [hpkt EXCEPT ![g] = NULL]
        /\ UNCHANGED <<tpc, tslot>>
    BY <1>3 DEF Send, Leave, timeoutVars
  <2>2. lock[Slot(g)] = g
    BY <2>1 DEF LockHeld
  <2>3. ASSUME NEW h \in Handlers, hpc'[h] = "send" PROVE lock'[Slot(h)'] = h
    <3>1. h # g /\ hpc[h] = "send" /\ hpkt'[h] = hpkt[h]
      BY <2>1, <2>3 DEF TypeInv, TypeOK
    <3>2. lock[Slot(h)] = h
      BY <3>1 DEF LockHeld
    <3>3. QED
      BY <2>1, <2>2, <3>1, <3>2 DEF Slot, TypeInv, TypeOK
  <2>4. tpc' = "send" => lock'[tslot'] = "timeout"
    BY <2>1, <2>2 DEF LockHeld, TypeInv, TypeOK
  <2>5. QED
    BY <2>3, <2>4 DEF LockHeld
<1>4. ASSUME Timeout_finish
      PROVE  LockHeld'
  <2>1. /\ lock[tslot] = NULL /\ lock' = [lock EXCEPT ![tslot] = "timeout"]
        /\ tpc' = "send" /\ UNCHANGED <<hpc, hpkt, tslot>> /\ tslot \in Slots
    BY <1>4 DEF Timeout_finish, Unlocked, handlerVars, TypeInv, TimeoutOK
  <2>2. QED
    BY <2>1 DEF LockHeld, Slot, TypeInv, TypeOK
<1>5. ASSUME Timeout_send
      PROVE  LockHeld'
  <2>1. /\ lock[tslot] = "timeout" /\ lock' = [lock EXCEPT ![tslot] = NULL]
        /\ tpc' = "select" /\ UNCHANGED <<hpc, hpkt>>
    BY <1>5 DEF Timeout_send, handlerVars, LockHeld
  <2>2. QED
    BY <2>1 DEF LockHeld, Slot, TypeInv, TypeOK
<1>6. CASE Write_results
  BY <1>6 DEF Write_results, Write_create, Write_rows, Write_mark, LockHeld, Slot,
              handlerVars, timeoutVars
<1>7. QED
  BY <1>1, <1>2, <1>3, <1>4, <1>5, <1>6 DEF Hands_on

\* A run that is undisturbed after a step was so before it, unless the step started it.
LEMMA WasClean ==
    ASSUME TypeInv, [Next]_vars, NEW s \in Slots, param[s] \in Params, ~Zero(s)
    PROVE  /\ param'[s].ip = param[s].ip
           /\ Undisturbed(s)' => Undisturbed(s)
           /\ Clean(s)' => Clean(s)
<1>1. /\ param'[s].ip = param[s].ip
      /\ param'[s].fin = param[s].fin \/ param'[s].fin = "old"
  BY Effects
<1>2. Undisturbed(s)' => Undisturbed(s)
  BY <1>1, WhoMoves DEF Undisturbed
<1>3. QED
  BY <1>1, <1>2 DEF Clean

\* An object is there, a new one or one handed to the next run.
LEMMA ThreeWays ==
    ASSUME TypeInv, [Next]_vars, NEW s \in Slots, param'[s] \in Params
    PROVE  \/ Take(s) /\ param[s] = NULL /\ param'[s] = ZeroValue
           \/ Zero(s) /\ param[s] \in Params /\ param'[s] = zero(param[s], netip[s])
                      /\ netip[s] \in Targets
           \/ param[s] \in Params /\ ~Zero(s)
<1>1. CASE Take(s) /\ param[s] = NULL
  BY <1>1 DEF Take, TypeInv, TypeOK
<1>2. CASE Zero(s)
  BY <1>2 DEF Zero, TypeInv, TypeOK, SlotsOK
<1>3. CASE param[s] = NULL /\ ~Take(s)
  BY <1>3, NoObject, NullAssumption
<1>4. QED
  BY <1>1, <1>2, <1>3 DEF TypeInv, TypeOK

\* A run that starts undisturbed takes over an object nobody holds or handles.
LEMMA TakenOver ==
    ASSUME TypeInv, Handed, NEW s \in Slots, Zero(s), netip[s] \notin disturbed'
    PROVE  /\ Clean(s) /\ ~InHand(s)
           /\ \A g \in Handlers : hpc[g] # "free" => Slot(g) # s
           /\ param[s].ip # NULL => param[s].written
<1>1. /\ ~Passed_on(s) /\ Reusable(param[s]) /\ param[s] \in Params
      /\ disturbed' = disturbed
  BY DEF Zero, TypeInv, SlotsOK
<1>2. Clean(s)
  BY <1>1 DEF Passed_on, Clean, Undisturbed
<1>3. ~InHand(s)
  <2>1. CASE param[s].ip = NULL
    BY <1>2, <2>1 DEF Handed, Clean, InOrder, Unfinished
  <2>2. CASE param[s].ip # NULL
    BY <1>1, <1>2, <2>2 DEF Reusable, Handed, InOrder, Written
  <2>3. QED
    BY <2>1, <2>2
<1>4. QED
  BY <1>1, <1>2, <1>3 DEF Passed_on, Reusable

\* A file that exists stays.
LEMMA FilesStay ==
    ASSUME TypeInv, [Next]_vars, NEW t, HasFile(t), t \in Targets \cup {NULL}
    PROVE  HasFile(t)'
<1>1. CASE Write_rows
  <2>1. [hops |-> param[wslot].hops] # NULL
    BY <1>1, NullAssumption DEF Write_rows, TypeInv, WriterOK, Params, Files
  <2>2. QED
    BY <1>1, <2>1 DEF Write_rows, HasFile, TypeInv, TypeOK
<1>2. CASE UNCHANGED files
  BY <1>2 DEF HasFile
<1>3. QED
  BY <1>1, <1>2, WhoMoves

\* What the parts of InOrder depend on.
LEMMA OrderKept ==
    ASSUME NEW s \in Slots, InOrder(s),
           Sending(s)' <=> Sending(s), Queued(s)' => Queued(s),
           QueuedOnce(s) => QueuedOnce(s)', Writing(s)' <=> Writing(s),
           param'[s].ip = param[s].ip, param'[s].fin = param[s].fin,
           param'[s].written = param[s].written,
           HasFile(param[s].ip) => HasFile(param[s].ip)',
           Writing(s) => UNCHANGED <<wpc, wip>>
    PROVE  InOrder(s)'
<1>1. Unfinished(s)' /\ OneHand(s)'
  BY DEF InOrder, Unfinished, OneHand, InHand
<1>2. Written(s)'
  BY DEF InOrder, Written, InHand
<1>3. OwnFile(s)'
  BY DEF InOrder, OwnFile
<1>4. QED
  BY <1>1, <1>2, <1>3 DEF InOrder

\* A run that is not disturbed is in one hand at a time: one step per way to hand it on.
LEMMA NextInOrder ==
    ASSUME TypeInv, Handed, [Next]_vars,
           NEW s \in Slots, Clean(s)', param[s] \in Params, ~Zero(s)
    PROVE  InOrder(s)'
<1> USE NullAssumption, NamesAssumption
<1>0. /\ Clean(s) /\ InOrder(s) /\ LockHeld
      /\ param'[s].ip = param[s].ip /\ param[s].ip \in Targets \cup {NULL}
      /\ param[s].ip \notin disturbed'
      /\ HasFile(param[s].ip) => HasFile(param[s].ip)'
  BY WasClean, FilesStay DEF Handed, Params, Clean, Undisturbed
<1>1. CASE ~Hands_on
  <2>1. UNCHANGED <<write_chan, wpc, wslot, wip>> /\ (Sending(s)' <=> Sending(s))
    <3>1. /\ UNCHANGED <<write_chan, wpc, wslot, wip>>
          /\ \A g \in Handlers : hpc'[g] = "send" <=> hpc[g] = "send"
          /\ \A g \in Handlers : hpc[g] = "send" => hpkt'[g] = hpkt[g]
          /\ tpc' = "send" <=> tpc = "send"
          /\ tpc = "send" => tslot' = tslot
      BY <1>1, HandsKept
    <3>2. QED
      BY <3>1 DEF Sending, Slot
  <2>2. (Queued(s)' <=> Queued(s)) /\ (QueuedOnce(s)' <=> QueuedOnce(s)) /\ (Writing(s)' <=> Writing(s))
    BY <2>1 DEF Queued, QueuedOnce, Writing
  <2>3. param'[s].fin = param[s].fin /\ param'[s].written = param[s].written
    BY <1>1, Effects DEF Hands_on, Write_results
  <2>4. QED
    BY <1>0, <2>1, <2>2, <2>3, OrderKept
<1>2. ASSUME NEW g \in Handlers, Finish(g)
      PROVE  InOrder(s)'
  <2>1. /\ hpc[g] # "send" /\ hpc' = [hpc EXCEPT ![g] = "send"]
        /\ param' = [param EXCEPT ![Slot(g)].fin = "old"]
        /\ UNCHANGED <<hpkt, tpc, tslot, write_chan, wpc, wslot, wip, files>>
    BY <1>2 DEF Finish, Goto, timeoutVars, writerVars
  <2>2. /\ Queued(s)' <=> Queued(s)
        /\ QueuedOnce(s)' <=> QueuedOnce(s)
        /\ Writing(s)' <=> Writing(s)
    BY <2>1 DEF Queued, QueuedOnce, Writing
  <2>3. CASE Slot(g) # s
    <3>1. Sending(s)' <=> Sending(s)
      BY <2>1, <2>3 DEF Sending, Slot, TypeInv, TypeOK
    <3>2. UNCHANGED param[s]
      BY <2>1, <2>3
    <3>3. QED
      BY <1>0, <2>1, <2>2, <3>1, <3>2, OrderKept
  <2>4. CASE Slot(g) = s
    <3>1. param[s].fin = "unset"
      BY <1>0, <1>2, <2>4 DEF Finish, Finished_twice
    <3>2. ~InHand(s) /\ ~param[s].written
      BY <1>0, <3>1 DEF InOrder, Unfinished
    <3>3. param'[s].fin = "old" /\ param'[s].written = param[s].written
      BY <2>1, <2>4 DEF Params, TypeInv, TypeOK
    <3>4. ~Queued(s)' /\ ~Writing(s)' /\ QueuedOnce(s)'
      BY <1>0, <2>2, <3>2 DEF InHand, InOrder, OneHand
    <3>5. QED
      BY <3>2, <3>3, <3>4 DEF InOrder, Unfinished, Written, OneHand, OwnFile
  <2>5. QED
    BY <2>3, <2>4
<1>3. ASSUME Timeout_finish
      PROVE  InOrder(s)'
  <2>1. /\ tpc # "send" /\ tpc' = "send" /\ tslot \in Slots
        /\ param' = [param EXCEPT ![tslot].fin = "old"]
        /\ UNCHANGED <<hpc, hpkt, tslot, write_chan, wpc, wslot, wip, files>>
    BY <1>3 DEF Timeout_finish, handlerVars, writerVars, TypeInv, TimeoutOK
  <2>2. /\ Queued(s)' <=> Queued(s)
        /\ QueuedOnce(s)' <=> QueuedOnce(s)
        /\ Writing(s)' <=> Writing(s)
    BY <2>1 DEF Queued, QueuedOnce, Writing
  <2>3. CASE tslot # s
    <3>1. Sending(s)' <=> Sending(s)
      BY <2>1, <2>3 DEF Sending, Slot
    <3>2. UNCHANGED param[s]
      BY <2>1, <2>3
    <3>3. QED
      BY <1>0, <2>1, <2>2, <3>1, <3>2, OrderKept
  <2>4. CASE tslot = s
    <3>1. param[s].fin = "unset"
      BY <1>0, <1>3, <2>4 DEF Timeout_finish, Finished_twice
    <3>2. ~InHand(s) /\ ~param[s].written
      BY <1>0, <3>1 DEF InOrder, Unfinished
    <3>3. param'[s].fin = "old" /\ param'[s].written = param[s].written
      BY <2>1, <2>4 DEF Params, TypeInv, TypeOK
    <3>4. ~Queued(s)' /\ ~Writing(s)' /\ QueuedOnce(s)'
      BY <1>0, <2>2, <3>2 DEF InHand, InOrder, OneHand
    <3>5. QED
      BY <3>2, <3>3, <3>4 DEF InOrder, Unfinished, Written, OneHand, OwnFile
  <2>5. QED
    BY <2>3, <2>4
<1>4. ASSUME NEW r \in Slots, write_chan' = Append(write_chan, r),
             UNCHANGED <<param, wpc, wslot, wip, files>>,
             r # s => (Sending(s)' <=> Sending(s)),
             Sending(r) /\ ~Sending(r)'
      PROVE  InOrder(s)'
  <2>1. Writing(s)' <=> Writing(s)
    BY <1>4 DEF Writing
  <2>2. /\ s # r => (Queued(s)' <=> Queued(s)) /\ (QueuedOnce(s) => QueuedOnce(s)')
        /\ ~Queued(r) => QueuedOnce(r)'
    BY <1>4, PutIntoQueue
  <2>3. CASE r # s
    BY <1>0, <1>4, <2>1, <2>2, <2>3, OrderKept
  <2>4. CASE r = s
    <3>1. param[s].fin # "unset" /\ ~param[s].written /\ ~Queued(s) /\ ~Writing(s)
      BY <1>0, <1>4, <2>4 DEF InOrder, Unfinished, Written, OneHand, InHand
    <3>2. QED
      BY <1>4, <2>1, <2>2, <2>4, <3>1 DEF InOrder, Unfinished, Written, OneHand, OwnFile
  <2>5. QED
    BY <2>3, <2>4
<1>5. ASSUME NEW g \in Handlers, Send(g)
      PROVE  InOrder(s)'
  <2>1. /\ hpc[g] = "send" /\ hpc' = [hpc EXCEPT ![g] = "free"]
        /\ hpkt' = [hpkt EXCEPT ![g] = NULL]
        /\ write_chan' = Append(write_chan, Slot(g))
        /\ UNCHANGED <<param, tpc, tslot, wpc, wslot, wip, files>>
    BY <1>5 DEF Send, Leave, timeoutVars, writerVars
  <2>2. Slot(g) \in Slots /\ lock[Slot(g)] = g
    BY <1>0, <2>1, PacketFields DEF TypeInv, HandlersOK, Slot, LockHeld
  <2>3. ASSUME NEW r \in Slots, Slot(g) # r PROVE Sending(r)' <=> Sending(r)
    BY <2>1, <2>3 DEF Sending, Slot, TypeInv, TypeOK
  <2>4. Sending(Slot(g))
    BY <2>1 DEF Sending
  <2>5. ASSUME NEW r \in Slots, Slot(g) = r, Sending(r)' PROVE FALSE
    <3>1. CASE tpc' = "send" /\ tslot' = r
      BY <1>0, <2>1, <2>2, <2>5, <3>1 DEF LockHeld
    <3>2. CASE \E h \in Handlers : hpc'[h] = "send" /\ hpkt'[h].slot = r
      <4>1. PICK h \in Handlers : hpc'[h] = "send" /\ hpkt'[h].slot = r
        BY <3>2
      <4>2. h # g /\ hpc[h] = "send" /\ hpkt'[h] = hpkt[h]
        BY <2>1, <4>1 DEF TypeInv, TypeOK
      <4>3. lock[Slot(h)] = h /\ Slot(h) = r
        BY <1>0, <4>1, <4>2 DEF LockHeld, Slot
      <4>4. QED
        BY <2>2, <2>5, <4>2, <4>3
    <3>3. QED
      BY <2>5, <3>1, <3>2 DEF Sending, Slot
  <2>6. PICK r \in Slots : r = Slot(g)
    BY <2>2
  <2>7. /\ write_chan' = Append(write_chan, r) /\ Sending(r)
        /\ UNCHANGED <<param, wpc, wslot, wip, files>>
    BY <2>1, <2>4, <2>6
  <2>8. (r # s => (Sending(s)' <=> Sending(s))) /\ ~Sending(r)'
    BY <2>3, <2>5, <2>6
  <2>9. QED
    BY <1>4, <2>7, <2>8
<1>6. ASSUME Timeout_send
      PROVE  InOrder(s)'
  <2>1. /\ tpc = "send" /\ tpc' # "send" /\ tslot \in Slots
        /\ write_chan' = Append(write_chan, tslot)
        /\ UNCHANGED <<param, hpc, hpkt, wpc, wslot, wip, files>>
    BY <1>6 DEF Timeout_send, handlerVars, writerVars, TypeInv, TimeoutOK
  <2>2. PICK r \in Slots : r = tslot
    BY <2>1
  <2>3. lock[r] = "timeout"
    BY <1>0, <2>1, <2>2 DEF LockHeld
  <2>4. (r # s => (Sending(s)' <=> Sending(s))) /\ Sending(r)
    BY <2>1, <2>2 DEF Sending, Slot
  <2>5. ~Sending(r)'
    BY <1>0, <2>1, <2>3 DEF Sending, Slot, LockHeld
  <2>6. QED
    BY <1>4, <2>1, <2>2, <2>4, <2>5
<1>7. ASSUME Write_create
      PROVE  InOrder(s)'
  <2>1. /\ wpc = "select" /\ wpc' = "rows" /\ write_chan # <<>>
        /\ write_chan' = Tail(write_chan)
        /\ wslot' = Head(write_chan) /\ wip' = param[Head(write_chan)].ip
        /\ UNCHANGED <<param, hpc, hpkt, tpc, tslot, files>>
    BY <1>7 DEF Write_create, handlerVars, timeoutVars
  <2>2. Sending(s)' <=> Sending(s)
    BY <2>1 DEF Sending, Slot
  <2>3. /\ Queued(s)' => Queued(s)
        /\ QueuedOnce(s) => QueuedOnce(s)'
        /\ Head(write_chan) = s => Queued(s) /\ (QueuedOnce(s) => ~Queued(s)')
    BY <2>1, TakeFromQueue
  <2>4. ~Writing(s) /\ (Writing(s)' <=> Head(write_chan) = s)
    BY <2>1 DEF Writing
  <2>5. CASE Head(write_chan) # s
    <3>1. (Writing(s)' <=> Writing(s)) /\ UNCHANGED param
      BY <2>1, <2>4, <2>5
    <3>2. QED
      BY <1>0, <2>2, <2>3, <2>4, <3>1, OrderKept
  <2>6. CASE Head(write_chan) = s
    <3>1. /\ Queued(s) /\ ~Queued(s)' /\ ~Sending(s) /\ QueuedOnce(s)'
          /\ param[s].fin # "unset" /\ ~param[s].written
      BY <1>0, <2>3, <2>6 DEF InOrder, Unfinished, Written, OneHand, InHand
    <3>2. QED
      BY <2>1, <2>2, <2>6, <3>1 DEF InOrder, Unfinished, Written, OneHand, OwnFile
  <2>7. QED
    BY <2>5, <2>6
<1>8. ASSUME Write_rows
      PROVE  InOrder(s)'
  <2>1. /\ wpc = "rows" /\ wpc' = "mark" /\ wslot' = wslot /\ wslot \in Slots
        /\ files' = [files EXCEPT ![wip] = [hops |-> param[wslot].hops]]
        /\ [hops |-> param[wslot].hops] \in Files
        /\ UNCHANGED <<param, hpc, hpkt, tpc, tslot, write_chan>>
    BY <1>8 DEF Write_rows, handlerVars, timeoutVars, TypeInv, WriterOK, Params, Files
  <2>2. /\ Sending(s)' <=> Sending(s)
        /\ Queued(s)' <=> Queued(s)
        /\ QueuedOnce(s)' <=> QueuedOnce(s)
        /\ Writing(s)' <=> Writing(s)
        /\ Writing(s) <=> wslot = s
    BY <2>1 DEF Sending, Slot, Queued, QueuedOnce, Writing
  <2>3. CASE wslot # s
    BY <1>0, <2>1, <2>2, <2>3, OrderKept
  <2>4. CASE wslot = s
    <3>1. /\ param[s].fin # "unset" /\ ~param[s].written /\ wip = param[s].ip
          /\ ~Sending(s) /\ ~Queued(s) /\ QueuedOnce(s)
      BY <1>0, <2>1, <2>2, <2>4 DEF InOrder, Unfinished, Written, OneHand, InHand, OwnFile
    <3>2. param[s].ip # NULL
      BY <1>0, <3>1 DEF Clean
    <3>3. files'[param[s].ip] # NULL
      BY <1>0, <2>1, <3>1 DEF TypeInv, TypeOK
    <3>4. HasFile(param[s].ip)'
      BY <2>1, <3>2, <3>3 DEF HasFile
    <3>5. QED
      BY <2>1, <2>2, <3>1, <3>4 DEF InOrder, Unfinished, Written, OneHand, OwnFile, InHand
  <2>5. QED
    BY <2>3, <2>4
<1>9. ASSUME Write_mark
      PROVE  InOrder(s)'
  <2>1. /\ wpc = "mark" /\ wpc' = "select" /\ wslot \in Slots
        /\ param' = [param EXCEPT ![wslot].written = TRUE]
        /\ UNCHANGED <<hpc, hpkt, tpc, tslot, write_chan, files>>
    BY <1>9 DEF Write_mark, handlerVars, timeoutVars, TypeInv, WriterOK
  <2>2. /\ Sending(s)' <=> Sending(s)
        /\ Queued(s)' <=> Queued(s)
        /\ QueuedOnce(s)' <=> QueuedOnce(s)
        /\ ~Writing(s)'
        /\ Writing(s) <=> wslot = s
    BY <2>1 DEF Sending, Slot, Queued, QueuedOnce, Writing
  <2>3. CASE wslot # s
    <3>1. UNCHANGED param[s]
      BY <2>1, <2>3
    <3>2. QED
      BY <1>0, <2>2, <2>3, <3>1, OrderKept
  <2>4. CASE wslot = s
    <3>1. /\ HasFile(param[s].ip)' /\ param[s].fin # "unset"
          /\ ~Sending(s) /\ ~Queued(s) /\ QueuedOnce(s)
      BY <1>0, <2>1, <2>2, <2>4 DEF InOrder, Unfinished, OneHand, InHand, OwnFile
    <3>2. param'[s].fin = param[s].fin
      BY <2>1 DEF Params
    <3>3. QED
      BY <2>2, <3>1, <3>2
      DEF InOrder, Unfinished, Written, OneHand, OwnFile, InHand
  <2>5. QED
    BY <2>3, <2>4
<1>10. QED
  BY <1>1, <1>2, <1>3, <1>5, <1>6, <1>7, <1>8, <1>9 DEF Hands_on, Write_results

\* Handed is inductive.
LEMMA NextHanded == TypeInv /\ Handed /\ [Next]_vars => Handed'
<1> SUFFICES ASSUME TypeInv, Handed, [Next]_vars, NEW s \in Slots, Clean(s)'
             PROVE  InOrder(s)'
  BY NextLockHeld DEF Handed
<1> USE NullAssumption, NamesAssumption
<1>0. param'[s] \in Params /\ param'[s].ip \notin disturbed'
  BY DEF Clean, Undisturbed
<1>1. CASE Take(s) /\ param[s] = NULL /\ param'[s] = ZeroValue
  <2>1. ~Sending(s) /\ ~Queued(s) /\ ~Writing(s)
    BY <1>1 DEF Sending, Queued, Writing, TypeInv, HandlersOK, TimeoutOK, QueueOK, WriterOK, Of
  <2>2. ~Sending(s)' /\ ~Queued(s)' /\ ~Writing(s)'
    BY <1>1, <2>1 DEF Take, Sending, Queued, Writing, Slot, handlerVars, timeoutVars, writerVars
  <2>3. QueuedOnce(s)'
    BY <2>2 DEF Queued, QueuedOnce
  <2>4. QED
    BY <1>1, <2>2, <2>3
    DEF ZeroValue, InOrder, Unfinished, Written, OneHand, OwnFile, InHand
<1>2. CASE Zero(s) /\ param[s] \in Params /\ param'[s] = zero(param[s], netip[s])
                   /\ netip[s] \in Targets
  <2>0. netip[s] \notin disturbed'
    <3>1. PICK p \in Params, t \in Targets : p = param[s] /\ t = netip[s]
      BY <1>2
    <3>2. zero(p, t).ip = t
      BY ZeroFields
    <3>3. QED
      BY <1>0, <1>2, <3>1, <3>2
  <2>1. ~Sending(s) /\ ~Queued(s) /\ ~Writing(s)
    BY <1>2, <2>0, TakenOver DEF InHand
  <2>2. ~Sending(s)' /\ ~Queued(s)' /\ ~Writing(s)'
    BY <1>2, <2>1 DEF Zero, Sending, Queued, Writing, Slot, handlerVars, timeoutVars, writerVars
  <2>3. QueuedOnce(s)'
    BY <2>2 DEF Queued, QueuedOnce
  <2>4. ~param'[s].written
    BY <1>2, ZeroFields
  <2>5. QED
    BY <2>2, <2>3, <2>4 DEF InOrder, Unfinished, Written, OneHand, OwnFile, InHand
<1>3. QED
  BY <1>0, <1>1, <1>2, ThreeWays, NextInOrder

\* A slot makes room for its next run only when the file of this one exists, however
\* short Port_reuse_timeout is, unless the run was disturbed: the guard at line 489.
THEOREM RunsAreFiled == Spec => NoRunDropped
<1> DEFINE Inv == TypeInv /\ Handed
           Kept == \A s \in Slots, t \in Targets \ disturbed :
                      InRun(s, t) /\ ~InRun(s, t)' => files[t] # NULL
<1>1. Init => Inv
  <2> SUFFICES ASSUME Init PROVE Inv
    OBVIOUS
  <2>1. Handed
    BY NullAssumption DEF Init, Handed, LockHeld, Clean, Undisturbed
  <2>2. QED
    BY <2>1, InitTypeInv
<1>2. Inv /\ [Next]_vars => Inv'
  BY NextTypeInv, NextHanded
<1>3. Inv /\ [Next]_vars => Kept
  <2> SUFFICES ASSUME Inv, [Next]_vars, NEW s \in Slots, NEW t \in Targets \ disturbed,
                      InRun(s, t), ~InRun(s, t)'
               PROVE  files[t] # NULL
    OBVIOUS
  <2>1. param[s] \in Params /\ param[s].ip = t /\ t # NULL
    BY NamesAssumption DEF InRun, TypeInv, TypeOK
  <2>2. Zero(s)
    BY <2>1, Effects, NullAssumption DEF InRun
  <2>3. Clean(s) /\ param[s].written
    BY <2>1, <2>2 DEF Zero, Reusable, Clean, Undisturbed
  <2>4. QED
    BY <2>1, <2>3 DEF Handed, InOrder, Written, HasFile
<1>4. QED
  BY <1>1, <1>2, <1>3, PTL DEF Spec, NoRunDropped

-----------------------------------------------------------------------------
(***************************************************************************)
(* What is handled for an undisturbed run, its hops, what the writer writes *)
(* and its file are of this run.                                            *)
(***************************************************************************)
HandledOfRun == \A g \in Handlers : hpc[g] # "free" /\ Undisturbed(Slot(g))
                                    => hpkt[g].run = Of(g).ip
HopsOfRun == \A s \in Slots : Undisturbed(s) => param[s].hops \subseteq {param[s].ip}
WriterOfRun == wpc = "rows" /\ wip \in Targets \ disturbed => param[wslot].ip = wip
FilesOfRun == \A t \in Targets \ disturbed : files[t] # NULL => files[t].hops \subseteq {t}

OneRun == HandledOfRun /\ HopsOfRun /\ WriterOfRun /\ FilesOfRun

\* At the start there is neither a run nor a packet.
LEMMA InitOneRun == Init => OneRun /\ Handed
BY NullAssumption
DEF Init, OneRun, HandledOfRun, HopsOfRun, WriterOfRun, FilesOfRun, Undisturbed, Handed,
    LockHeld, Clean

\* A handler keeps its packet until it is done.
LEMMA Handlings ==
    ASSUME TypeInv, [Next]_vars, NEW g \in Handlers, hpc'[g] # "free"
    PROVE  \/ hpc[g] # "free" /\ hpkt'[g] = hpkt[g]
           \/ \E p \in Packets : Packet_capture(g, p)
<1>0. DOMAIN hpc = Handlers /\ DOMAIN hpkt = Handlers
  BY DEF TypeInv, TypeOK
<1>1. CASE UNCHANGED handlerVars
  BY <1>1 DEF handlerVars
<1>2. ASSUME NEW h \in Handlers, NEW p \in Packets, Packet_capture(h, p)
      PROVE  \/ hpc[g] # "free" /\ hpkt'[g] = hpkt[g]
             \/ Packet_capture(g, p)
  <2>1. CASE h = g
    BY <1>2, <2>1
  <2>2. CASE h # g
    <3>1. hpc' = [hpc EXCEPT ![h] = Reaction(p, param[p.slot])]
          /\ hpkt' = [hpkt EXCEPT ![h] = p]
      BY <1>2 DEF Packet_capture, Goto
    <3>2. QED
      BY <1>0, <2>2, <3>1
  <2>3. QED
    BY <2>1, <2>2
<1>3. ASSUME NEW h \in Handlers, Handle_pkt(h)
      PROVE  hpc[g] # "free" /\ hpkt'[g] = hpkt[g]
  <2>1. /\ hpc[h] # "free"
        /\ \/ Leave(h)
           \/ (\E l : Goto(h, l)) /\ UNCHANGED hpkt
    <3>1. CASE Finish(h) \/ Send(h)
      BY <3>1 DEF Finish, Send
    <3>2. CASE Hop(h) \/ First_SYN_ACK(h) \/ All_DNS_sent(h) \/ DNS_answer(h)
      BY <3>2, FieldSteps DEF Leave, Goto
    <3>3. QED
      BY <1>3, <3>1, <3>2 DEF Handle_pkt
  <2>2. CASE h = g
    BY <1>0, <2>1, <2>2 DEF Goto, Leave
  <2>3. CASE h # g
    BY <1>0, <2>1, <2>3 DEF Goto, Leave
  <2>4. QED
    BY <2>2, <2>3
<1>4. QED
  BY <1>1, <1>2, <1>3, WhoMoves DEF Arrival

\* OneRun is inductive: one step per conjunct.
LEMMA NextOneRun == TypeInv /\ Handed /\ OneRun /\ [Next]_vars => OneRun'
<1> SUFFICES ASSUME TypeInv, Handed, OneRun, [Next]_vars PROVE OneRun'
  OBVIOUS
<1> USE NamesAssumption, NullAssumption DEF OneRun
<1>0. ASSUME NEW s \in Slots, Undisturbed(s)'
      PROVE  \/ Take(s) /\ param[s] = NULL /\ param'[s] = ZeroValue
             \/ /\ Zero(s) /\ netip[s] \notin disturbed' /\ param[s] \in Params
                /\ param'[s].hops = {}
             \/ param[s] \in Params /\ ~Zero(s) /\ Undisturbed(s)
  <2>1. param'[s] \in Params /\ param'[s].ip \notin disturbed'
    BY <1>0 DEF Undisturbed
  <2>2. CASE Zero(s) /\ param[s] \in Params /\ param'[s] = zero(param[s], netip[s])
                     /\ netip[s] \in Targets
    <3>1. PICK p \in Params, t \in Targets : p = param[s] /\ t = netip[s]
      BY <2>2
    <3>2. zero(p, t).ip = t /\ zero(p, t).hops = {}
      BY ZeroFields
    <3>3. QED
      BY <2>1, <2>2, <3>1, <3>2
  <2>3. CASE param[s] \in Params /\ ~Zero(s)
    BY <1>0, <2>3, WasClean
  <2>4. QED
    BY <2>1, <2>2, <2>3, ThreeWays
<1>1. HandledOfRun'
  <2> SUFFICES ASSUME NEW g \in Handlers, hpc'[g] # "free", Undisturbed(Slot(g))'
               PROVE  hpkt'[g].run = Of(g)'.ip
    BY DEF HandledOfRun
  <2>1. CASE hpc[g] # "free" /\ hpkt'[g] = hpkt[g]
    <3>1. PICK s \in Slots : s = Slot(g) /\ param[s] \in Params
      BY <2>1, PacketFields DEF TypeInv, HandlersOK, Slot, Of
    <3>2. Undisturbed(s)'
      BY <2>1, <3>1 DEF Slot, Undisturbed
    <3>3. ~Zero(s)
      BY <1>0, <2>1, <3>1, <3>2, TakenOver
    <3>4. param'[s].ip = param[s].ip /\ Undisturbed(s)
      BY <3>1, <3>2, <3>3, WasClean
    <3>5. QED
      BY <2>1, <3>1, <3>4 DEF HandledOfRun, Of, Slot
  <2>2. CASE \E p \in Packets : Packet_capture(g, p)
    <3>1. PICK p \in Packets : Packet_capture(g, p)
      BY <2>2
    <3>2. hpkt'[g] = p /\ UNCHANGED param
      BY <3>1 DEF Packet_capture, TypeInv, TypeOK
    <3>3. param[p.slot].ip = p.run
      BY <3>1, <3>2 DEF Packet_capture, Undisturbed, Slot
    <3>4. QED
      BY <3>2, <3>3 DEF Of, Slot
  <2>3. QED
    BY <2>1, <2>2, Handlings
<1>2. HopsOfRun'
  <2> SUFFICES ASSUME NEW s \in Slots, Undisturbed(s)'
               PROVE  param'[s].hops \subseteq {param'[s].ip}
    BY DEF HopsOfRun
  <2>1. CASE param'[s] = ZeroValue
    BY <2>1 DEF ZeroValue
  <2>2. CASE param[s] \in Params /\ ~Zero(s) /\ Undisturbed(s)
    <3>1. param[s].hops \subseteq {param[s].ip} /\ param'[s].ip = param[s].ip
      BY <2>2, WasClean DEF HopsOfRun
    <3>2. ASSUME NEW g \in Handlers, hpc[g] # "free", Slot(g) = s
          PROVE  hpkt[g].run = param[s].ip
      BY <2>2, <3>2 DEF HandledOfRun, Of
    <3>3. QED
      BY <2>2, <3>1, <3>2, Effects
  <2>3. QED
    BY <1>0, <2>1, <2>2
<1>3. WriterOfRun'
  <2> SUFFICES ASSUME wpc' = "rows", wip' \in Targets \ disturbed'
               PROVE  param'[wslot'].ip = wip'
    BY DEF WriterOfRun
  <2>1. CASE Write_create
    BY <2>1 DEF Write_create
  <2>2. CASE Write_rows \/ Write_mark
    BY <2>2 DEF Write_rows, Write_mark
  <2>3. CASE UNCHANGED <<wpc, wslot, wip>>
    <3>1. PICK s \in Slots : s = wslot /\ param[s] \in Params
      BY <2>3 DEF TypeInv, WriterOK
    <3>2. param[s].ip = wip /\ wip \in Targets /\ wip \notin disturbed
      BY <2>3, <3>1, WhoMoves DEF WriterOfRun
    <3>3. Clean(s) /\ InHand(s)
      BY <2>3, <3>1, <3>2 DEF Clean, Undisturbed, InHand, Writing
    <3>4. ~param[s].written
      BY <3>3 DEF Handed, InOrder, Written
    <3>5. ~Zero(s)
      BY <3>2, <3>4 DEF Zero, Reusable
    <3>6. QED
      BY <2>3, <3>1, <3>2, <3>5, WasClean
  <2>4. QED
    BY <2>1, <2>2, <2>3, WhoMoves DEF Write_results
<1>4. FilesOfRun'
  <2> SUFFICES ASSUME NEW t \in Targets, t \notin disturbed', files'[t] # NULL
               PROVE  files'[t].hops \subseteq {t}
    BY DEF FilesOfRun
  <2>1. t \notin disturbed
    BY WhoMoves
  <2>2. CASE UNCHANGED files
    BY <2>1, <2>2 DEF FilesOfRun
  <2>3. CASE Write_rows
    <3>1. wpc = "rows" /\ files' = [files EXCEPT ![wip] = [hops |-> param[wslot].hops]]
      BY <2>3 DEF Write_rows
    <3>2. CASE wip = t
      <4>1. wslot \in Slots /\ param[wslot] \in Params /\ param[wslot].ip = t
        BY <2>1, <3>1, <3>2 DEF TypeInv, WriterOK, WriterOfRun
      <4>2. param[wslot].hops \subseteq {t}
        BY <2>1, <4>1 DEF HopsOfRun, Undisturbed
      <4>3. files'[t] = [hops |-> param[wslot].hops]
        BY <3>1, <3>2 DEF TypeInv, TypeOK
      <4>4. QED
        BY <4>2, <4>3
    <3>3. CASE wip # t
      <4>1. files'[t] = files[t]
        BY <3>1, <3>3
      <4>2. QED
        BY <2>1, <4>1 DEF FilesOfRun
    <3>4. QED
      BY <3>2, <3>3
  <2>4. QED
    BY <2>2, <2>3, WhoMoves
<1>5. QED
  BY <1>1, <1>2, <1>3, <1>4

\* What a run's object and its file hold came from packets of this run, although object,
\* port, handlers, queue and writer go on to the next at once, unless it was disturbed.
THEOREM ResultsUnmixed == Spec => []ResultsOfOneRun
<1> DEFINE Inv == TypeInv /\ Handed /\ OneRun
<1>1. Init => Inv
  BY InitTypeInv, InitOneRun
<1>2. Inv /\ [Next]_vars => Inv'
  BY NextTypeInv, NextHanded, NextOneRun
<1>3. Inv => ResultsOfOneRun
  BY DEF OneRun, HopsOfRun, FilesOfRun, Undisturbed, ResultsOfOneRun, TypeInv, TypeOK
<1>4. QED
  BY <1>1, <1>2, <1>3, PTL DEF Spec

-----------------------------------------------------------------------------
(***************************************************************************)
(* The program ends when every target has its file.  A target that was read *)
(* is in the channel, with the slot that took it, or in the object of its   *)
(* run until its file exists, unless the run is disturbed; a slot counts as *)
(* finished when its last run is written.                                   *)
(***************************************************************************)
Somewhere(t) == \/ \E k \in 1 .. Len(Ip_chan) : Ip_chan[k] = t
                \/ \E s \in Slots : ipc[s] = "wait" /\ netip[s] = t
                \/ \E s \in Slots : param[s] \in Params /\ param[s].ip = t
                \/ files[t] # NULL
ReadIsSomewhere == mode = "file" => \A t \in Targets \ disturbed : t <= read => Somewhere(t)

FinishedIsIdle == \A s \in Slots : mode = "file" /\ init_finished[s] =>
                     /\ ipc[s] = "select" /\ read = MaxTargets /\ Ip_chan = <<>>
                     /\ param[s] \in Params => param[s].written
EndsWhenFinished == /\ stopped => rpc = "closed"
                    /\ mode = "file" /\ Waiting_to_end => read = MaxTargets
                    /\ mode = "file" /\ rpc \in {"sleep", "closed"} =>
                          \A s \in Slots : init_finished[s]

Delivered == FinishedIsIdle /\ EndsWhenFinished /\ ReadIsSomewhere

\* Which steps move the channels and the reader.
LEMMA WhoElseMoves ==
    ASSUME [Next]_vars
    PROVE  /\ UNCHANGED mode
           /\ UNCHANGED <<Ip_chan, read>> \/ Read \/ \E s \in Slots : Take(s)
           /\ UNCHANGED init_finished \/ \E s \in Slots : Take(s) \/ Tick(s)
           /\ UNCHANGED <<rpc, stopped>> \/ All_read \/ init_is_finished \/ Stop
<1> USE DEF readVars, slotVars, endVars
<1>1. CASE read_ips_file
  BY <1>1 DEF read_ips_file, Read, All_read, init_is_finished, Stop
<1>2. CASE \E s \in Slots : init_traceroute(s)
  BY <1>2 DEF init_traceroute, Take, Zero, send_syn, All_syns_sent, Tick
<1>3. CASE Arrival
  BY <1>3 DEF Arrival, Packet_capture
<1>4. CASE \E g \in Handlers : Handle_pkt(g)
  BY <1>4 DEF Handle_pkt, Hop, First_SYN_ACK, All_DNS_sent, DNS_answer, Finish, Send
<1>5. CASE Timeout
  BY <1>5 DEF Timeout, Timeout_check, Timeout_finish, Timeout_send
<1>6. CASE Write_results
  BY <1>6 DEF Write_results, Write_create, Write_rows, Write_mark
<1>7. CASE \E s \in Slots, f \in {"syns", "dns"} : Age(s, f)
  BY <1>7 DEF Age
<1>8. CASE \E t \in Waited : Return(t)
  BY <1>8 DEF Return
<1>9. CASE UNCHANGED vars
  BY <1>9 DEF vars
<1>10. QED
  BY <1>1, <1>2, <1>3, <1>4, <1>5, <1>6, <1>7, <1>8, <1>9 DEF Next, Step

\* A target that was read is somewhere until its file exists.
LEMMA NextReadIsSomewhere ==
    ASSUME TypeInv, Handed, [Next]_vars, ReadIsSomewhere
    PROVE  ReadIsSomewhere'
<1> SUFFICES ASSUME mode = "file", NEW t \in Targets, t \notin disturbed, t <= read'
             PROVE  Somewhere(t)'
  BY WhoMoves, WhoElseMoves DEF ReadIsSomewhere
<1> USE NullAssumption, NamesAssumption
<1>0. files[t] # NULL => files'[t] # NULL
  BY FilesStay DEF HasFile
<1>1. CASE Read
  <2>1. \A i \in 1 .. Len(Ip_chan) : Ip_chan'[i] = Ip_chan[i]
    BY <1>1 DEF Read, TypeInv, TypeOK
  <2>2. Len(Ip_chan') = Len(Ip_chan) + 1 /\ Ip_chan'[Len(Ip_chan) + 1] = read + 1
    BY <1>1 DEF Read, TypeInv, TypeOK
  <2>3. Len(Ip_chan) \in Nat /\ read \in Nat /\ read' = read + 1
    BY <1>1 DEF Read, TypeInv, TypeOK
  <2>4. CASE t <= read
    <3>1. Somewhere(t) /\ UNCHANGED <<ipc, netip, param, files>>
      BY <1>1, <2>4 DEF ReadIsSomewhere, Read, slotVars, writerVars
    <3>2. ASSUME NEW k \in 1 .. Len(Ip_chan), Ip_chan[k] = t PROVE Somewhere(t)'
      <4>1. k \in 1 .. Len(Ip_chan') /\ Ip_chan'[k] = t
        BY <2>1, <2>2, <2>3, <3>2
      <4>2. QED
        BY <4>1 DEF Somewhere
    <3>3. QED
      BY <3>1, <3>2 DEF Somewhere
  <2>5. CASE ~(t <= read)
    <3>1. t = read + 1
      BY <2>3, <2>5 DEF Targets
    <3>2. Len(Ip_chan) + 1 \in 1 .. Len(Ip_chan')
      BY <2>2, <2>3
    <3>3. QED
      BY <2>2, <3>1, <3>2 DEF Somewhere
  <2>6. QED
    BY <2>4, <2>5
<1>2. CASE ~Read
  <2>1. Somewhere(t)
    BY <1>2, WhoElseMoves DEF ReadIsSomewhere, Read, Take, readVars
  <2>2. ASSUME NEW k \in 1 .. Len(Ip_chan), Ip_chan[k] = t PROVE Somewhere(t)'
    <3>1. ASSUME NEW s \in Slots, Take(s) PROVE Somewhere(t)'
      <4>1. CASE k = 1
        <5>1. ipc'[s] = "wait" /\ netip'[s] = t
          BY <2>2, <3>1, <4>1 DEF Take, TypeInv, TypeOK
        <5>2. QED
          BY <5>1 DEF Somewhere
      <4>2. CASE k # 1
        <5>1. /\ Len(Ip_chan') = Len(Ip_chan) - 1 /\ Len(Ip_chan) \in Nat
              /\ \A i \in 1 .. Len(Ip_chan) - 1 : Ip_chan'[i] = Ip_chan[i + 1]
          BY <3>1 DEF Take, TypeInv, TypeOK
        <5>2. k - 1 \in 1 .. Len(Ip_chan') /\ Ip_chan'[k - 1] = t
          BY <2>2, <4>2, <5>1
        <5>3. QED
          BY <5>2 DEF Somewhere
      <4>3. QED
        BY <4>1, <4>2
    <3>2. CASE UNCHANGED Ip_chan
      BY <2>2, <3>2 DEF Somewhere
    <3>3. QED
      BY <1>2, <3>1, <3>2, WhoElseMoves
  <2>3. ASSUME NEW s \in Slots, ipc[s] = "wait", netip[s] = t PROVE Somewhere(t)'
    <3>1. CASE Zero(s)
      <4>1. param'[s] = zero(param[s], t) /\ param[s] \in Params
        BY <2>3, <3>1 DEF Zero, TypeInv, TypeOK, SlotsOK
      <4>2. param'[s] \in Params /\ param'[s].ip = t
        <5>1. PICK p \in Params : p = param[s]
          BY <4>1
        <5>2. zero(p, t) \in Params /\ zero(p, t).ip = t
          BY ZeroFields
        <5>3. QED
          BY <4>1, <5>1, <5>2
      <4>3. QED
        BY <4>2 DEF Somewhere
    <3>2. CASE ~Zero(s)
      <4>1. ipc'[s] = "wait" /\ netip'[s] = t
        BY <2>3, <3>2, WhoMoves DEF Take, Zero, All_syns_sent, TypeInv, TypeOK
      <4>2. QED
        BY <4>1 DEF Somewhere
    <3>3. QED
      BY <3>1, <3>2
  <2>4. ASSUME NEW s \in Slots, param[s] \in Params, param[s].ip = t PROVE Somewhere(t)'
    <3>1. CASE Zero(s)
      <4>1. Clean(s) /\ param[s].written
        BY <2>4, <3>1 DEF Zero, Reusable, Clean, Undisturbed
      <4>2. files[t] # NULL
        BY <2>4, <4>1 DEF Handed, InOrder, Written, HasFile
      <4>3. QED
        BY <1>0, <4>2 DEF Somewhere
    <3>2. CASE ~Zero(s)
      BY <2>4, <3>2, Effects DEF Somewhere
    <3>3. QED
      BY <3>1, <3>2
  <2>5. QED
    BY <1>0, <2>1, <2>2, <2>3, <2>4 DEF Somewhere
<1>3. QED
  BY <1>1, <1>2

\* A slot that counts as finished has nothing left to do.
LEMMA NextFinishedIsIdle ==
    TypeInv /\ FinishedIsIdle /\ [Next]_vars => FinishedIsIdle'
<1> SUFFICES ASSUME TypeInv, FinishedIsIdle, [Next]_vars,
                    NEW s \in Slots, mode = "file", init_finished'[s]
             PROVE  /\ ipc'[s] = "select" /\ read' = MaxTargets /\ Ip_chan' = <<>>
                    /\ param'[s] \in Params => param'[s].written
  BY WhoElseMoves DEF FinishedIsIdle
<1> USE NullAssumption
<1>1. ~Take(s)
  BY DEF Take, TypeInv, TypeOK
<1>2. /\ ipc[s] = "select" /\ read = MaxTargets /\ Ip_chan = <<>>
      /\ param[s] \in Params => param[s].written
  <2>1. CASE init_finished[s]
    BY <2>1 DEF FinishedIsIdle
  <2>2. CASE Tick(s)
    BY <2>2 DEF Tick, Idle
  <2>3. ASSUME NEW r \in Slots, Take(r) \/ Tick(r), r # s PROVE init_finished[s]
    BY <2>3 DEF Take, Tick, TypeInv, TypeOK
  <2>4. QED
    BY <1>1, <2>1, <2>2, <2>3, WhoElseMoves
<1>3. read' = MaxTargets /\ Ip_chan' = <<>>
  BY <1>2, WhoElseMoves, SizesAssumption DEF Read, Take
<1>4. ipc'[s] = "select"
  BY <1>2, WhoMoves DEF Take, Zero, All_syns_sent, TypeInv, TypeOK
<1>5. param'[s] \in Params => param'[s].written
  <2>1. CASE param[s] \in Params
    <3>1. ~Zero(s)
      BY <1>2 DEF Zero
    <3>2. CASE Write_mark /\ wslot = s
      BY <2>1, <3>2 DEF Write_mark, Params, TypeInv, TypeOK
    <3>3. QED
      BY <1>2, <2>1, <3>1, <3>2, Effects
  <2>2. CASE param[s] \notin Params
    BY <1>1, <2>2, NoObject
  <2>3. QED
    BY <2>1, <2>2
<1>6. QED
  BY <1>3, <1>4, <1>5

\* Stop_chan is closed after the whole file is read and every slot has finished.
LEMMA NextEndsWhenFinished ==
    TypeInv /\ FinishedIsIdle /\ EndsWhenFinished /\ [Next]_vars => EndsWhenFinished'
<1> SUFFICES ASSUME TypeInv, FinishedIsIdle, EndsWhenFinished, [Next]_vars
             PROVE  EndsWhenFinished'
  OBVIOUS
<1>1. (stopped => rpc = "closed")'
  BY WhoElseMoves DEF EndsWhenFinished, All_read, init_is_finished, Stop, endVars
<1>2. ASSUME mode = "file", Waiting_to_end'
      PROVE  read' = MaxTargets
  <2>1. read = MaxTargets
    BY <1>2, WhoElseMoves DEF EndsWhenFinished, Waiting_to_end, All_read, init_is_finished, Stop
  <2>2. QED
    BY <2>1, WhoElseMoves, SizesAssumption DEF Read, Take, readVars
<1>3. ASSUME mode = "file", rpc' \in {"sleep", "closed"}, NEW s \in Slots
      PROVE  init_finished'[s]
  <2>1. init_finished[s]
    <3>1. rpc \in {"sleep", "closed"} \/ init_is_finished
      BY <1>3, WhoElseMoves DEF All_read, Stop
    <3>2. QED
      BY <1>3, <3>1 DEF EndsWhenFinished, init_is_finished
  <2>2. ~Take(s)
    BY <1>3, <2>1 DEF FinishedIsIdle, Take
  <2>3. init_finished \in [Slots -> BOOLEAN]
    BY DEF TypeInv, TypeOK
  <2>4. ASSUME NEW r \in Slots, Take(r) \/ Tick(r) PROVE init_finished'[s]
    BY <2>1, <2>2, <2>3, <2>4 DEF Take, Tick
  <2>5. QED
    BY <2>1, <2>4, WhoElseMoves
<1>4. QED
  BY <1>1, <1>2, <1>3, WhoElseMoves DEF EndsWhenFinished

\* Delivered holds initially.
LEMMA InitDelivered == Init => Delivered
<1> SUFFICES ASSUME Init PROVE Delivered
  OBVIOUS
<1> USE NullAssumption, SizesAssumption DEF Init
<1>1. FinishedIsIdle
  BY DEF FinishedIsIdle
<1>2. EndsWhenFinished
  BY ModesAssumption DEF EndsWhenFinished, Waiting_to_end
<1>3. ReadIsSomewhere
  BY DEF ReadIsSomewhere, Targets
<1>4. QED
  BY <1>1, <1>2, <1>3 DEF Delivered

\* When read_ips_file closes Stop_chan every target whose run was not disturbed has its
\* file.  With no goroutine (Number_routines 0) init_is_finished is true at once and
\* nothing is traced.
THEOREM TracedAtEnd ==
    ASSUME Slots # {}
    PROVE  Spec => []AllTracedAtEnd
<1> DEFINE Inv == TypeInv /\ Handed /\ Delivered
<1>1. Init => Inv
  BY InitTypeInv, InitOneRun, InitDelivered
<1>2. Inv /\ [Next]_vars => Inv'
  <2> SUFFICES ASSUME Inv, [Next]_vars PROVE Inv'
    OBVIOUS
  <2>1. TypeInv' /\ Handed'
    BY NextTypeInv, NextHanded
  <2>2. FinishedIsIdle' /\ EndsWhenFinished' /\ ReadIsSomewhere'
    BY NextFinishedIsIdle, NextEndsWhenFinished, NextReadIsSomewhere DEF Delivered
  <2>3. QED
    BY <2>1, <2>2 DEF Delivered
<1>3. Inv => AllTracedAtEnd
  <2> SUFFICES ASSUME Inv, stopped, mode = "file", NEW t \in Targets, t \notin disturbed
               PROVE  files[t] # NULL
    BY DEF AllTracedAtEnd
  <2>1. rpc = "closed" /\ read = MaxTargets
    BY DEF Delivered, EndsWhenFinished, Waiting_to_end
  <2>2. \A s \in Slots : /\ ipc[s] = "select" /\ Ip_chan = <<>>
                         /\ param[s] \in Params => param[s].written
    BY <2>1 DEF Delivered, EndsWhenFinished, FinishedIsIdle
  <2>3. t <= read
    BY <2>1, SizesAssumption DEF Targets
  <2>4. Somewhere(t)
    BY <2>3 DEF Delivered, ReadIsSomewhere
  <2>5. Ip_chan = <<>>
    BY <2>2
  <2>6. CASE \E s \in Slots : param[s] \in Params /\ param[s].ip = t
    <3>1. PICK s \in Slots : param[s] \in Params /\ param[s].ip = t
      BY <2>6
    <3>2. Clean(s) /\ param[s].written
      BY <2>2, <3>1, NamesAssumption DEF Clean, Undisturbed
    <3>3. QED
      BY <3>1, <3>2 DEF Handed, InOrder, Written, HasFile
  <2>7. QED
    BY <2>2, <2>4, <2>5, <2>6 DEF Somewhere
<1>4. QED
  BY <1>1, <1>2, <1>3, PTL DEF Spec
=============================================================================
