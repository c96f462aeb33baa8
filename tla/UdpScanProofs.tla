---------------------------- MODULE UdpScanProofs ----------------------------
(***************************************************************************)
(* The UDP scanner implements ProbeRecord, for every number of probes, keys, *)
(* packets and init_udp goroutines and every capacity of Write_chan; a       *)
(* response comes too early never, and to the wrong probe only a full cycle  *)
(* of keys later.                                                            *)
(***************************************************************************)
EXTENDS UdpScan, TLAPS

Taken(p) == p \in Probes /\ p <= ip_loop_id.id

\* What the goroutines hold: an init_udp goroutine past update_sync_init a probe
\* no other has; every probe taken has a key; responses are to probes taken; a
\* handler about to queue holds an item.
HoldingOK ==
    /\ \A r \in Routines : IF rpc[r] = "select" THEN taken[r] = NULL
                                                ELSE Taken(taken[r])
    /\ \A r, q \in Routines : taken[r] = taken[q] /\ taken[r] # NULL => r = q
    /\ \A p \in Probes : p <= ip_loop_id.id => asked[p] \in Keys
    /\ \A p \in sent : p <= ip_loop_id.id
    /\ \A g \in Handlers :
          /\ hpc[g] # "free" => Taken(hpkt[g])
          /\ hpc[g] = "enqueue" => hitem[g] \in Probes

TypeInv == TypeOK /\ HoldingOK

\* update_sync_init stays within the ports and the DNS ids.
LEMMA NextLoopType ==
    ASSUME NEW l \in [id : 0 .. MaxProbes, port : Ports, dnsid : DnsIds],
           l.id < MaxProbes
    PROVE  /\ NextLoop(l) \in [id : 0 .. MaxProbes, port : Ports, dnsid : DnsIds]
           /\ NextLoop(l).id = l.id + 1 /\ NextLoop(l).id \in Probes
           /\ <<NextLoop(l).port, NextLoop(l).dnsid>> \in Keys
<1>1. PortMin \in Nat /\ PortMax \in Nat /\ PortMin <= PortMax /\ MaxDnsId \in Nat
      /\ MaxProbes \in Nat
  BY PortAssumption, SizeAssumption
<1>2. /\ NextLoop(l).id = l.id + 1 /\ NextLoop(l).port \in Ports
      /\ NextLoop(l).dnsid \in DnsIds
  BY <1>1 DEF NextLoop, Ports, DnsIds
<1>3. NextLoop(l) = [id |-> NextLoop(l).id, port |-> NextLoop(l).port,
                     dnsid |-> NextLoop(l).dnsid]
  BY DEF NextLoop
<1>4. l.id + 1 \in Probes /\ l.id + 1 \in 0 .. MaxProbes
  BY <1>1 DEF Probes
<1> QED
  BY <1>2, <1>3, <1>4 DEF Keys

\* The initial state is typed.
LEMMA InitTypeInv == Init => TypeInv
<1> SUFFICES ASSUME Init PROVE TypeInv
  OBVIOUS
<1>1. ip_loop_id \in [id : 0 .. MaxProbes, port : Ports, dnsid : DnsIds]
  BY PortAssumption, SizeAssumption DEF Init, Ports, DnsIds
<1>2. Write_chan \in Seq(Probes) /\ Len(Write_chan) <= WriteCap /\ file \in Seq(Probes)
  BY SizeAssumption DEF Init
<1>2a. TypeOK
  BY <1>1, <1>2 DEF Init, TypeOK
<1>3. ip_loop_id.id = 0
  BY DEF Init
<1>4. HoldingOK
  BY <1>3 DEF Init, HoldingOK, Taken, Probes
<1> QED
  BY <1>2a, <1>4 DEF TypeInv

\* A handler that looks up a key finds an item or none.
LEMMA LookupTyped ==
    ASSUME TypeInv, NEW g \in Handlers, Lookup(g)
    PROVE  TypeInv'
<1>1. hpc[g] = "lookup" /\ hpkt[g] \in Probes /\ asked[hpkt[g]] \in Keys
  BY DEF Lookup, TypeInv, HoldingOK, Taken
<1>2. Items[asked[hpkt[g]]] \in Probes \cup {NULL}
  BY <1>1 DEF TypeInv, TypeOK
<1>3. DOMAIN hpc = Handlers /\ DOMAIN hitem = Handlers
  BY DEF TypeInv, TypeOK
<1>4. TypeOK'
  <2>1. UNCHANGED <<probeVars, expired, hpkt, Write_chan, file, endVars, sent>>
    BY DEF Lookup
  <2>2. CASE Items[asked[hpkt[g]]] = NULL
    <3>1. hpc' = [hpc EXCEPT ![g] = "missed"] /\ UNCHANGED <<Items, answer, hitem>>
      BY <2>2 DEF Lookup
    <3>2. QED
      BY <2>1, <3>1 DEF TypeInv, TypeOK, probeVars, endVars
  <2>3. CASE Items[asked[hpkt[g]]] # NULL
    <3> DEFINE k == asked[hpkt[g]]
    <3>1. /\ Items' = [Items EXCEPT ![k] = NULL]
          /\ answer' = [answer EXCEPT ![Items[k]] = hpkt[g]]
          /\ hitem' = [hitem EXCEPT ![g] = Items[k]]
          /\ hpc' = [hpc EXCEPT ![g] = "enqueue"]
      BY <2>3 DEF Lookup
    <3>2. k \in Keys /\ Items[k] \in Probes
      BY <1>1, <1>2, <2>3
    <3> HIDE DEF k
    <3>3. QED
      BY <1>1, <2>1, <3>1, <3>2 DEF TypeInv, TypeOK, probeVars, endVars
  <2>4. QED
    BY <2>2, <2>3
<1>5. HoldingOK'
  <2>1. UNCHANGED <<ip_loop_id, rpc, taken, asked, sent, hpkt>>
    BY DEF Lookup, probeVars
  <2>2. \/ hpc' = [hpc EXCEPT ![g] = "missed"] /\ UNCHANGED hitem
        \/ /\ hpc' = [hpc EXCEPT ![g] = "enqueue"]
           /\ hitem' = [hitem EXCEPT ![g] = Items[asked[hpkt[g]]]]
           /\ Items[asked[hpkt[g]]] # NULL
    BY DEF Lookup
  <2>3. \A h \in Handlers : /\ hpc[h] # "free" => Taken(hpkt[h])
                            /\ hpc[h] = "enqueue" => hitem[h] \in Probes
    BY DEF TypeInv, HoldingOK
  <2>4. ASSUME NEW h \in Handlers
        PROVE  /\ hpc'[h] # "free" => Taken(hpkt[h])
               /\ hpc'[h] = "enqueue" => hitem'[h] \in Probes
    <3>1. CASE h = g
      BY <1>1, <1>2, <1>3, <2>2, <2>3, <3>1
    <3>2. CASE h # g
      BY <1>3, <2>2, <2>3, <3>2
    <3>3. QED
      BY <3>1, <3>2
  <2>5. QED
    BY <2>1, <2>4 DEF TypeInv, HoldingOK, Taken
<1>6. QED
  BY <1>4, <1>5 DEF TypeInv

\* TypeInv is inductive: one step per action.
LEMMA NextTypeInv == TypeInv /\ [Next]_vars => TypeInv'
<1> SUFFICES ASSUME TypeInv, [Next]_vars
             PROVE  TypeInv'
  OBVIOUS
<1> USE NullAssumption DEF TypeInv, probeVars, mapVars, handlerVars, endVars
<1>0. ip_loop_id.id \in 0 .. MaxProbes /\ MaxProbes \in Nat
  BY SizeAssumption DEF TypeOK
<1>1. ASSUME NEW r \in Routines, update_sync_init(r)
      PROVE  TypeInv'
  <2> DEFINE l == NextLoop(ip_loop_id)
  <2>1. /\ l \in [id : 0 .. MaxProbes, port : Ports, dnsid : DnsIds]
        /\ l.id = ip_loop_id.id + 1 /\ l.id \in Probes
        /\ <<l.port, l.dnsid>> \in Keys
    BY <1>1, NextLoopType DEF update_sync_init, TypeOK
  <2>2. /\ ip_loop_id' = l
        /\ taken' = [taken EXCEPT ![r] = l.id]
        /\ asked' = [asked EXCEPT ![l.id] = <<l.port, l.dnsid>>]
        /\ rpc' = [rpc EXCEPT ![r] = "register"]
    BY <1>1 DEF update_sync_init
  <2> HIDE DEF l
  <2>3. TypeOK'
    BY <1>1, <2>1, <2>2 DEF update_sync_init, TypeOK
  <2>3a. ip_loop_id'.id = ip_loop_id.id + 1
    BY <2>1, <2>2
  <2>4. \A p : Taken(p) => Taken(p)' /\ p # l.id
    BY <1>0, <2>1, <2>3a DEF Taken, Probes
  <2>5. l.id \in Probes /\ l.id <= ip_loop_id'.id
    BY <1>0, <2>1, <2>3a DEF Probes
  <2>6. \A q \in Routines : q # r => taken[q] # l.id
    BY <2>1, <2>4 DEF HoldingOK
  <2>7. HoldingOK'
    <3>1. (\A q \in Routines : IF rpc[q] = "select" THEN taken[q] = NULL
                                                    ELSE Taken(taken[q]))'
      <4> SUFFICES ASSUME NEW q \in Routines
                   PROVE  IF rpc'[q] = "select" THEN taken'[q] = NULL
                          ELSE /\ taken'[q] \in Probes
                               /\ taken'[q] <= ip_loop_id'.id
        BY DEF Taken
      <4>1. CASE q = r
        BY <4>1, <2>2, <2>5 DEF TypeOK
      <4>2. CASE q # r
        BY <4>2, <2>2, <2>4 DEF HoldingOK, TypeOK, Taken
      <4> QED
        BY <4>1, <4>2
    <3>2. (\A s, q \in Routines : taken[s] = taken[q] /\ taken[s] # NULL => s = q)'
      BY <2>2, <2>6 DEF HoldingOK, TypeOK
    <3>3. (\A p \in Probes : p <= ip_loop_id.id => asked[p] \in Keys)'
      BY <1>0, <2>1, <2>2 DEF HoldingOK, TypeOK, Probes
    <3>4. (\A p \in sent : p <= ip_loop_id.id)'
      BY <1>0, <1>1, <2>1, <2>2 DEF update_sync_init, HoldingOK, TypeOK, Probes
    <3>5. (\A g \in Handlers : /\ hpc[g] # "free" => Taken(hpkt[g])
                               /\ hpc[g] = "enqueue" => hitem[g] \in Probes)'
      BY <1>1, <2>4 DEF update_sync_init, HoldingOK
    <3> QED
      BY <3>1, <3>2, <3>3, <3>4, <3>5 DEF HoldingOK
  <2> QED
    BY <2>3, <2>7
<1>2. ASSUME NEW r \in Routines, send_dns(r)
      PROVE  TypeInv'
  <2>1. taken[r] \in Probes /\ asked[taken[r]] \in Keys
    BY <1>2 DEF send_dns, HoldingOK, Taken
  <2>2. TypeOK'
    BY <1>2, <2>1 DEF send_dns, TypeOK
  <2>3. HoldingOK'
    BY <1>2 DEF send_dns, TypeOK, HoldingOK, Taken
  <2> QED
    BY <2>2, <2>3
<1>3. ASSUME NEW r \in Routines, Send_udp_pkt(r)
      PROVE  TypeInv'
  <2>1. Taken(taken[r])
    BY <1>3 DEF Send_udp_pkt, HoldingOK
  <2>2. TypeOK'
    BY <1>3, <2>1 DEF Send_udp_pkt, TypeOK, Taken
  <2>3. HoldingOK'
    BY <1>3, <2>1 DEF Send_udp_pkt, TypeOK, HoldingOK, Taken
  <2> QED
    BY <2>2, <2>3
<1>4. ASSUME NEW g \in Handlers, NEW q \in Probes, Packet_capture(g, q)
      PROVE  TypeInv'
  <2>1. Taken(q)
    BY <1>4 DEF Packet_capture, HoldingOK, Taken
  <2>2. TypeOK'
    BY <1>4 DEF Packet_capture, TypeOK
  <2>3. HoldingOK'
    BY <1>4, <2>1 DEF Packet_capture, TypeOK, HoldingOK, Taken
  <2> QED
    BY <2>2, <2>3
<1>5. ASSUME NEW g \in Handlers, Lookup(g)
      PROVE  TypeInv'
  BY <1>5, LookupTyped
<1>6. ASSUME NEW g \in Handlers, Enqueue(g)
      PROVE  TypeInv'
  <2>1. hitem[g] \in Probes
    BY <1>6 DEF Enqueue, HoldingOK
  <2>2. Write_chan' \in Seq(Probes) /\ Len(Write_chan') <= WriteCap
    BY <1>6, <2>1, SizeAssumption DEF Enqueue, TypeOK
  <2>3. TypeOK'
    BY <1>6, <2>2 DEF Enqueue, TypeOK
  <2>4. HoldingOK'
    BY <1>6 DEF Enqueue, TypeOK, HoldingOK, Taken
  <2> QED
    BY <2>3, <2>4
<1>7. CASE Write_item
  <2>1. /\ Head(Write_chan) \in Probes
        /\ Write_chan' \in Seq(Probes) /\ Len(Write_chan') <= WriteCap
    BY <1>7, SizeAssumption DEF Write_item, TypeOK
  <2>2. TypeOK'
    BY <1>7, <2>1 DEF Write_item, TypeOK
  <2>3. HoldingOK'
    BY <1>7 DEF Write_item, HoldingOK, Taken
  <2> QED
    BY <2>2, <2>3
<1>8. ASSUME NEW p \in Probes, Age(p)
      PROVE  TypeInv'
  BY <1>8 DEF Age, TypeOK, HoldingOK, Taken
<1>9. CASE Timeout
  <2>1. Items' \in [Keys -> Probes \cup {NULL}]
    BY <1>9 DEF Timeout, TypeOK
  <2> QED
    BY <1>9, <2>1 DEF Timeout, TypeOK, HoldingOK, Taken
<1>10. CASE Stop
  BY <1>10 DEF Stop, TypeOK, HoldingOK, Taken
<1>11. ASSUME NEW t \in Waited, Return(t)
       PROVE  TypeInv'
  BY <1>11 DEF Return, TypeOK, HoldingOK, Taken
<1>12. CASE UNCHANGED vars
  BY <1>12 DEF vars, TypeOK, HoldingOK, Taken
<1> QED
  BY <1>1, <1>2, <1>3, <1>4, <1>5, <1>6, <1>7, <1>8, <1>9, <1>10, <1>11, <1>12
  DEF Next, Terminated

\* udp_scanner.go: the scanner's state is always of its type, the loop counters
\* stay within the ports and DNS ids, and the channel within its capacity.
THEOREM TypeCorrect == Spec => []TypeOK
<1>1. Init => TypeInv
  BY InitTypeInv
<1>2. TypeInv /\ [Next]_vars => TypeInv'
  BY NextTypeInv
<1>3. TypeInv => TypeOK
  BY DEF TypeInv
<1> QED
  BY <1>1, <1>2, <1>3, PTL DEF Spec

-----------------------------------------------------------------------------
\* An entry is under the key of its probe, which has been registered and not been
\* answered; a probe not registered yet has no answer either.
MapInv ==
    /\ \A k \in Keys :
          Items[k] # NULL => /\ asked[Items[k]] = k /\ answer[Items[k]] = NULL
                             /\ ~Unregistered(Items[k])
    /\ \A p \in Probes : Unregistered(p) => answer[p] = NULL

\* What an action of init_udp does to the set of probes not yet registered.
LEMMA UnregisteredStep ==
    ASSUME TypeInv, NEW r \in Routines, NEW p \in Probes
    PROVE  /\ update_sync_init(r) => (Unregistered(p)' <=> Unregistered(p))
           /\ send_dns(r) => /\ Unregistered(taken[r])
                             /\ Unregistered(p)' <=> Unregistered(p) /\ p # taken[r]
           /\ Send_udp_pkt(r) => (Unregistered(p)' <=> Unregistered(p))
<1> USE NullAssumption
<1>0. ip_loop_id.id \in Nat /\ p \in Nat
  BY SizeAssumption DEF TypeInv, TypeOK, Probes
<1>1. ASSUME update_sync_init(r) PROVE Unregistered(p)' <=> Unregistered(p)
  <2>1. ip_loop_id'.id = ip_loop_id.id + 1
    BY <1>1, NextLoopType DEF update_sync_init, TypeInv, TypeOK
  <2>2. /\ taken' = [taken EXCEPT ![r] = ip_loop_id.id + 1]
        /\ rpc' = [rpc EXCEPT ![r] = "register"] /\ rpc[r] = "select"
    BY <1>1, NextLoopType DEF update_sync_init, TypeInv, TypeOK
  <2>3. p > ip_loop_id'.id <=> p > ip_loop_id.id /\ p # ip_loop_id.id + 1
    BY <1>0, <2>1
  <2>4. (\E q \in Routines : taken'[q] = p /\ rpc'[q] = "register")
          <=> \/ p = ip_loop_id.id + 1
              \/ \E q \in Routines : taken[q] = p /\ rpc[q] = "register"
    BY <2>2 DEF TypeInv, TypeOK
  <2> QED
    BY <1>0, <2>3, <2>4 DEF Unregistered
<1>2. ASSUME send_dns(r)
      PROVE  /\ Unregistered(taken[r])
             /\ Unregistered(p)' <=> Unregistered(p) /\ p # taken[r]
  <2>1. /\ rpc' = [rpc EXCEPT ![r] = "send"] /\ rpc[r] = "register"
        /\ UNCHANGED <<ip_loop_id, taken>>
    BY <1>2 DEF send_dns
  <2>2. /\ taken[r] \in Probes /\ taken[r] <= ip_loop_id.id
        /\ \A q \in Routines : taken[q] = taken[r] => q = r
    BY <2>1 DEF TypeInv, HoldingOK, Taken
  <2> QED
    BY <1>0, <2>1, <2>2 DEF Unregistered, TypeInv, TypeOK
<1>3. ASSUME Send_udp_pkt(r) PROVE Unregistered(p)' <=> Unregistered(p)
  <2>1. /\ rpc' = [rpc EXCEPT ![r] = "select"] /\ rpc[r] = "send"
        /\ taken' = [taken EXCEPT ![r] = NULL] /\ UNCHANGED ip_loop_id
    BY <1>3 DEF Send_udp_pkt
  <2> QED
    BY <2>1 DEF Unregistered, TypeInv, TypeOK
<1> QED
  BY <1>1, <1>2, <1>3

\* Nothing is registered or answered in the initial state.
LEMMA InitMapInv == Init => MapInv
BY DEF Init, MapInv

\* MapInv is kept: one step per action that changes the map, the keys or the answers.
LEMMA NextMapInv == TypeInv /\ MapInv /\ [Next]_vars => MapInv'
<1> SUFFICES ASSUME TypeInv, MapInv, [Next]_vars
             PROVE  MapInv'
  OBVIOUS
<1> USE NullAssumption DEF probeVars, mapVars, handlerVars, endVars
<1>0. /\ Items \in [Keys -> Probes \cup {NULL}]
      /\ answer \in [Probes -> Probes \cup {NULL}]
      /\ asked \in [Probes -> Keys \cup {NULL}]
  BY DEF TypeInv, TypeOK
<1>1. ASSUME NEW r \in Routines, update_sync_init(r)
      PROVE  MapInv'
  <2> DEFINE l == NextLoop(ip_loop_id)
  <2>0. /\ ip_loop_id \in [id : 0 .. MaxProbes, port : Ports, dnsid : DnsIds]
        /\ ip_loop_id.id < MaxProbes /\ ip_loop_id.id \in Nat
    BY <1>1, SizeAssumption DEF update_sync_init, TypeInv, TypeOK
  <2>1. l.id \in Probes /\ l.id = ip_loop_id.id + 1 /\ ip_loop_id.id \in Nat
    BY <2>0, NextLoopType
  <2>2. Unregistered(l.id)
    BY <2>1 DEF Unregistered
  <2>3. \A p \in Probes : p # l.id => asked'[p] = asked[p]
    BY <1>1, <1>0 DEF update_sync_init
  <2>4. \A p \in Probes : Unregistered(p)' <=> Unregistered(p)
    BY <1>1, UnregisteredStep
  <2>5. UNCHANGED <<Items, answer>>
    BY <1>1 DEF update_sync_init
  <2> QED
    BY <1>0, <2>2, <2>3, <2>4, <2>5 DEF MapInv
<1>2. ASSUME NEW r \in Routines, send_dns(r)
      PROVE  MapInv'
  <2>1. taken[r] \in Probes /\ asked[taken[r]] \in Keys
    BY <1>2 DEF send_dns, TypeInv, HoldingOK, Taken
  <2>2. \A p \in Probes : Unregistered(p)' <=> Unregistered(p) /\ p # taken[r]
    BY <1>2, UnregisteredStep
  <2>3. Unregistered(taken[r])
    BY <1>2, <2>1, UnregisteredStep
  <2>4. /\ Items' = [Items EXCEPT ![asked[taken[r]]] = taken[r]]
        /\ UNCHANGED <<asked, answer>>
    BY <1>2 DEF send_dns
  <2> QED
    BY <1>0, <2>1, <2>2, <2>3, <2>4 DEF MapInv
<1>3. ASSUME NEW r \in Routines, Send_udp_pkt(r)
      PROVE  MapInv'
  <2>1. \A p \in Probes : Unregistered(p)' <=> Unregistered(p)
    BY <1>3, UnregisteredStep
  <2> QED
    BY <1>0, <1>3, <2>1 DEF Send_udp_pkt, MapInv
<1>4. ASSUME NEW g \in Handlers, Lookup(g)
      PROVE  MapInv'
  <2>1. \A p : Unregistered(p)' <=> Unregistered(p)
    BY <1>4 DEF Lookup, Unregistered
  <2>2. asked[hpkt[g]] \in Keys
    BY <1>4 DEF Lookup, TypeInv, HoldingOK, Taken
  <2>3. CASE Items[asked[hpkt[g]]] = NULL
    BY <1>4, <2>1, <2>3 DEF Lookup, MapInv
  <2>4. CASE Items[asked[hpkt[g]]] # NULL
    <3> DEFINE p == Items[asked[hpkt[g]]]
    <3>1. p \in Probes /\ asked[p] = asked[hpkt[g]] /\ ~Unregistered(p)
      BY <1>0, <2>2, <2>4 DEF MapInv
    <3>2. /\ Items' = [Items EXCEPT ![asked[hpkt[g]]] = NULL]
          /\ answer' = [answer EXCEPT ![p] = hpkt[g]]
          /\ UNCHANGED asked
      BY <1>4, <2>4 DEF Lookup
    <3> HIDE DEF p
    <3>3. \A k \in Keys : Items'[k] # NULL =>
            Items'[k] = Items[k] /\ Items[k] # p /\ Items[k] \in Probes
      BY <1>0, <2>2, <3>1, <3>2 DEF MapInv
    <3>4. \A q \in Probes : q # p => answer'[q] = answer[q]
      BY <1>0, <3>2
    <3> QED
      BY <2>1, <3>1, <3>2, <3>3, <3>4 DEF MapInv
  <2> QED
    BY <2>3, <2>4
<1>5. CASE Timeout
  <2>1. \A p : Unregistered(p)' <=> Unregistered(p)
    BY <1>5 DEF Timeout, Unregistered
  <2> QED
    BY <1>5, <2>1 DEF Timeout, MapInv
<1>6. ASSUME UNCHANGED <<probeVars, Items, answer>>
      PROVE  MapInv'
  BY <1>6 DEF MapInv, Unregistered
<1>7. CASE \/ \E g \in Handlers, q \in Probes : Packet_capture(g, q)
           \/ \E g \in Handlers : Enqueue(g)
           \/ Write_item \/ Stop \/ UNCHANGED vars
           \/ \E p \in Probes : Age(p)
           \/ \E t \in Waited : Return(t)
  BY <1>6, <1>7 DEF Packet_capture, Enqueue, Write_item, Stop, Age, Return, vars
<1> QED
  BY <1>1, <1>2, <1>3, <1>4, <1>5, <1>7 DEF Next, Terminated

-----------------------------------------------------------------------------
\* The items on their way to the file are answered, and each is in one place.
PathInv ==
    /\ \A g \in Handlers :
          hpc[g] = "enqueue" => /\ answer[hitem[g]] # NULL
                                /\ ~Queued(hitem[g]) /\ ~Written(hitem[g])
    /\ \A g, h \in Handlers :
          hpc[g] = "enqueue" /\ hpc[h] = "enqueue" /\ hitem[g] = hitem[h] => g = h
    /\ \A p \in Probes : Queued(p) => answer[p] # NULL /\ ~Written(p)
    /\ \A p \in Probes : Written(p) => answer[p] # NULL
    /\ \A j, k \in 1 .. Len(Write_chan) : Write_chan[j] = Write_chan[k] => j = k
    /\ \A j, k \in 1 .. Len(file) : file[j] = file[k] => j = k

\* No item that was filled in is dropped on its way.
NothingLost == \A p \in Probes : answer[p] # NULL => Held(p) \/ Queued(p) \/ Written(p)

IInv == TypeInv /\ MapInv /\ PathInv /\ NothingLost

\* Append adds one occurrence at the end.
LEMMA AppendedElements ==
    ASSUME NEW S, NEW s \in Seq(S), NEW e \in S
    PROVE  /\ Append(s, e) \in Seq(S) /\ Len(Append(s, e)) = Len(s) + 1
           /\ \A k \in 1 .. Len(s) : Append(s, e)[k] = s[k]
           /\ Append(s, e)[Len(s) + 1] = e
           /\ 1 .. Len(s) + 1 = (1 .. Len(s)) \cup {Len(s) + 1}
           /\ Len(s) + 1 \notin 1 .. Len(s)
OBVIOUS

\* Tail drops the first one.
LEMMA TailElements ==
    ASSUME NEW S, NEW s \in Seq(S), s # <<>>
    PROVE  /\ Len(s) \in Nat \ {0} /\ Head(s) = s[1] /\ Head(s) \in S
           /\ Tail(s) \in Seq(S) /\ Len(Tail(s)) = Len(s) - 1
           /\ \A k \in 1 .. Len(s) - 1 : Tail(s)[k] = s[k + 1]
OBVIOUS

\* Nothing is on its way to the file in the initial state.
LEMMA InitPathInv == Init => PathInv
BY DEF Init, PathInv, Queued, Written

\* PathInv is kept: only Lookup, Enqueue and Write_item move an item.
LEMMA NextPathInv == IInv /\ [Next]_vars => PathInv'
<1> SUFFICES ASSUME IInv, [Next]_vars
             PROVE  PathInv'
  OBVIOUS
<1> USE NullAssumption DEF IInv, probeVars, mapVars, handlerVars, endVars
<1>0. /\ Items \in [Keys -> Probes \cup {NULL}]
      /\ answer \in [Probes -> Probes \cup {NULL}]
      /\ hpc \in [Handlers -> {"free", "lookup", "missed", "enqueue", "done", "dropped"}]
      /\ hitem \in [Handlers -> Probes \cup {NULL}]
      /\ Write_chan \in Seq(Probes) /\ file \in Seq(Probes)
      /\ \A g \in Handlers : hpc[g] = "enqueue" => hitem[g] \in Probes
  BY DEF TypeInv, TypeOK, HoldingOK
<1>1. ASSUME NEW g \in Handlers, Lookup(g)
      PROVE  PathInv'
  <2>1. asked[hpkt[g]] \in Keys /\ hpkt[g] \in Probes
    BY <1>1 DEF Lookup, TypeInv, HoldingOK, Taken
  <2>2. CASE Items[asked[hpkt[g]]] = NULL
    BY <1>0, <1>1, <2>2 DEF Lookup, PathInv, Queued, Written
  <2>3. CASE Items[asked[hpkt[g]]] # NULL
    <3> DEFINE p == Items[asked[hpkt[g]]]
    <3>1. p \in Probes /\ answer[p] = NULL
      BY <1>0, <2>1, <2>3 DEF MapInv
    <3>2. /\ answer' = [answer EXCEPT ![p] = hpkt[g]]
          /\ hitem' = [hitem EXCEPT ![g] = p]
          /\ hpc' = [hpc EXCEPT ![g] = "enqueue"]
          /\ UNCHANGED <<Write_chan, file>>
      BY <1>1, <2>3 DEF Lookup
    <3> HIDE DEF p
    <3>3. ~Queued(p) /\ ~Written(p)
      BY <3>1 DEF PathInv
    <3>4. \A h \in Handlers : hpc[h] = "enqueue" => hitem[h] # p
      BY <3>1 DEF PathInv
    <3>5. \A q \in Probes : answer'[q] # NULL <=> (answer[q] # NULL \/ q = p)
      BY <1>0, <2>1, <3>1, <3>2
    <3>6. \A h \in Handlers : hpc'[h] = "enqueue" =>
            \/ h = g /\ hitem'[h] = p
            \/ h # g /\ hpc[h] = "enqueue" /\ hitem'[h] = hitem[h]
      BY <1>0, <3>1, <3>2
    <3>7. \A q : (Queued(q)' <=> Queued(q)) /\ (Written(q)' <=> Written(q))
      BY <3>2 DEF Queued, Written
    <3>8. (\A h \in Handlers :
            hpc[h] = "enqueue" => /\ answer[hitem[h]] # NULL
                                  /\ ~Queued(hitem[h]) /\ ~Written(hitem[h]))'
      BY <1>0, <3>1, <3>3, <3>5, <3>6, <3>7 DEF PathInv
    <3>9. (\A h, i \in Handlers :
            hpc[h] = "enqueue" /\ hpc[i] = "enqueue" /\ hitem[h] = hitem[i] => h = i)'
      BY <3>4, <3>6 DEF PathInv
    <3> QED
      BY <3>2, <3>5, <3>7, <3>8, <3>9 DEF PathInv
  <2> QED
    BY <2>2, <2>3
<1>2. ASSUME NEW g \in Handlers, Enqueue(g)
      PROVE  PathInv'
  <2> DEFINE p == hitem[g]
  <2>1. /\ p \in Probes /\ answer[p] # NULL /\ ~Queued(p) /\ ~Written(p)
        /\ hpc[g] = "enqueue"
    BY <1>0, <1>2 DEF Enqueue, PathInv
  <2>2. /\ Write_chan' = Append(Write_chan, p)
        /\ hpc' = [hpc EXCEPT ![g] = "done"]
        /\ UNCHANGED <<answer, hitem, file>>
    BY <1>2 DEF Enqueue
  <2>3. \A q : Queued(q)' <=> Queued(q) \/ q = p
    BY <1>0, <2>1, <2>2, AppendedElements DEF Queued
  <2>4. \A h \in Handlers : hpc'[h] = "enqueue" => hpc[h] = "enqueue" /\ hitem[h] # p
    BY <1>0, <2>1, <2>2 DEF PathInv
  <2>5. \A j, k \in 1 .. Len(Write_chan') : Write_chan'[j] = Write_chan'[k] => j = k
    BY <1>0, <2>1, <2>2, AppendedElements DEF PathInv, Queued
  <2> QED
    BY <1>0, <2>1, <2>2, <2>3, <2>4, <2>5 DEF PathInv, Written
<1>3. CASE Write_item
  <2> DEFINE p == Head(Write_chan)
  <2>1. /\ p \in Probes /\ Len(Write_chan) \in Nat \ {0} /\ p = Write_chan[1]
        /\ Len(Write_chan') = Len(Write_chan) - 1
        /\ \A k \in 1 .. Len(Write_chan) - 1 : Write_chan'[k] = Write_chan[k + 1]
    BY <1>0, <1>3, TailElements DEF Write_item
  <2>2. /\ file' = Append(file, p)
        /\ UNCHANGED <<answer, hpc, hitem>>
    BY <1>3 DEF Write_item
  <2> HIDE DEF p
  <2>3. Queued(p) /\ answer[p] # NULL /\ ~Written(p)
    BY <2>1 DEF PathInv, Queued
  <2>4. \A q : Queued(q)' => Queued(q) /\ q # p
    BY <2>1 DEF PathInv, Queued
  <2>5. \A q : Written(q)' <=> Written(q) \/ q = p
    BY <1>0, <2>1, <2>2, AppendedElements DEF Written
  <2>6. \A j, k \in 1 .. Len(Write_chan') : Write_chan'[j] = Write_chan'[k] => j = k
    BY <2>1 DEF PathInv
  <2>7. \A j, k \in 1 .. Len(file') : file'[j] = file'[k] => j = k
    BY <1>0, <2>1, <2>2, <2>3, AppendedElements DEF PathInv, Written
  <2>8. \A h \in Handlers : hpc[h] = "enqueue" => hitem[h] # p
    BY <2>3 DEF PathInv
  <2> QED
    BY <1>0, <2>2, <2>3, <2>4, <2>5, <2>6, <2>7, <2>8 DEF PathInv
<1>4. ASSUME UNCHANGED <<answer, hpc, hitem, Write_chan, file>>
      PROVE  PathInv'
  BY <1>4 DEF PathInv, Queued, Written
<1>5. ASSUME NEW g \in Handlers, NEW q \in Probes, Packet_capture(g, q)
      PROVE  PathInv'
  BY <1>0, <1>5 DEF Packet_capture, PathInv, Queued, Written
<1>6. CASE \/ \E r \in Routines : update_sync_init(r) \/ send_dns(r) \/ Send_udp_pkt(r)
           \/ \E p \in Probes : Age(p)
           \/ Timeout \/ Stop \/ UNCHANGED vars
           \/ \E t \in Waited : Return(t)
  BY <1>4, <1>6 DEF update_sync_init, send_dns, Send_udp_pkt, Age, Timeout, Stop,
                    Return, vars
<1> QED
  BY <1>1, <1>2, <1>3, <1>5, <1>6 DEF Next, Terminated

\* NothingLost is kept: Enqueue and Write_item pass an item on.
LEMMA NextNothingLost == IInv /\ [Next]_vars => NothingLost'
<1> SUFFICES ASSUME IInv, [Next]_vars
             PROVE  NothingLost'
  OBVIOUS
<1> USE NullAssumption DEF IInv, probeVars, mapVars, handlerVars, endVars
<1>0. /\ Items \in [Keys -> Probes \cup {NULL}]
      /\ answer \in [Probes -> Probes \cup {NULL}]
      /\ hpc \in [Handlers -> {"free", "lookup", "missed", "enqueue", "done", "dropped"}]
      /\ hitem \in [Handlers -> Probes \cup {NULL}]
      /\ Write_chan \in Seq(Probes) /\ file \in Seq(Probes)
      /\ \A g \in Handlers : hpc[g] = "enqueue" => hitem[g] \in Probes
  BY DEF TypeInv, TypeOK, HoldingOK
<1>1. ASSUME NEW g \in Handlers, Lookup(g)
      PROVE  NothingLost'
  <2>1. asked[hpkt[g]] \in Keys
    BY <1>1 DEF Lookup, TypeInv, HoldingOK, Taken
  <2>2. \A q : (Queued(q)' <=> Queued(q)) /\ (Written(q)' <=> Written(q))
    BY <1>1 DEF Lookup, Queued, Written
  <2>3. \A q : Held(q) => Held(q)'
    <3>1. \A h \in Handlers : hpc[h] = "enqueue" => h # g
      BY <1>1 DEF Lookup
    <3> QED
      BY <1>0, <1>1, <3>1 DEF Lookup, Held
  <2>4. CASE Items[asked[hpkt[g]]] = NULL
    BY <1>1, <2>2, <2>3, <2>4 DEF Lookup, NothingLost
  <2>5. CASE Items[asked[hpkt[g]]] # NULL
    <3> DEFINE p == Items[asked[hpkt[g]]]
    <3>1. /\ answer' = [answer EXCEPT ![p] = hpkt[g]]
          /\ hitem' = [hitem EXCEPT ![g] = p]
          /\ hpc' = [hpc EXCEPT ![g] = "enqueue"]
      BY <1>1, <2>5 DEF Lookup
    <3> HIDE DEF p
    <3>2. hpc'[g] = "enqueue" /\ hitem'[g] = p
      BY <1>0, <3>1
    <3>3. \A q \in Probes : q # p => answer'[q] = answer[q]
      BY <1>0, <3>1
    <3>4. \A q \in Probes : q = p => Held(q)'
      BY <3>2 DEF Held
    <3> QED
      BY <2>2, <2>3, <3>3, <3>4 DEF NothingLost
  <2> QED
    BY <2>4, <2>5
<1>2. ASSUME NEW g \in Handlers, Enqueue(g)
      PROVE  NothingLost'
  <2> DEFINE p == hitem[g]
  <2>1. p \in Probes
    BY <1>0, <1>2 DEF Enqueue
  <2>2. /\ Write_chan' = Append(Write_chan, p)
        /\ hpc' = [hpc EXCEPT ![g] = "done"]
        /\ UNCHANGED <<answer, hitem, file>>
    BY <1>2 DEF Enqueue
  <2>3. \A q : Queued(q)' <=> Queued(q) \/ q = p
    BY <1>0, <2>1, <2>2, AppendedElements DEF Queued
  <2>4. \A q : Held(q) => Held(q)' \/ q = p
    BY <1>0, <2>2 DEF Held
  <2> QED
    BY <2>2, <2>3, <2>4 DEF NothingLost, Written
<1>3. CASE Write_item
  <2> DEFINE p == Head(Write_chan)
  <2>1. /\ p \in Probes /\ Len(Write_chan) \in Nat \ {0} /\ p = Write_chan[1]
        /\ Len(Write_chan') = Len(Write_chan) - 1
        /\ \A k \in 1 .. Len(Write_chan) - 1 : Write_chan'[k] = Write_chan[k + 1]
    BY <1>0, <1>3, TailElements DEF Write_item
  <2>2. file' = Append(file, p) /\ UNCHANGED <<answer, hpc, hitem>>
    BY <1>3 DEF Write_item
  <2> HIDE DEF p
  <2>3. \A q : Queued(q) => Queued(q)' \/ q = p
    <3> SUFFICES ASSUME NEW k \in 1 .. Len(Write_chan), Write_chan[k] # p
                 PROVE  \E j \in 1 .. Len(Write_chan') : Write_chan'[j] = Write_chan[k]
      BY DEF Queued
    <3>1. k - 1 \in 1 .. Len(Write_chan) - 1 /\ (k - 1) + 1 = k
      BY <2>1
    <3> QED
      BY <2>1, <3>1
  <2>4. \A q : Written(q)' <=> Written(q) \/ q = p
    BY <1>0, <2>1, <2>2, AppendedElements DEF Written
  <2> QED
    BY <2>2, <2>3, <2>4 DEF NothingLost, Held
<1>4. ASSUME UNCHANGED <<answer, hpc, hitem, Write_chan, file>>
      PROVE  NothingLost'
  BY <1>4 DEF NothingLost, Held, Queued, Written
<1>5. ASSUME NEW g \in Handlers, NEW q \in Probes, Packet_capture(g, q)
      PROVE  NothingLost'
  <2>1. \A p : Held(p) => Held(p)'
    BY <1>0, <1>5 DEF Packet_capture, Held
  <2> QED
    BY <1>5, <2>1 DEF Packet_capture, NothingLost, Queued, Written
<1>6. CASE \/ \E r \in Routines : update_sync_init(r) \/ send_dns(r) \/ Send_udp_pkt(r)
           \/ \E p \in Probes : Age(p)
           \/ Timeout \/ Stop \/ UNCHANGED vars
           \/ \E t \in Waited : Return(t)
  BY <1>4, <1>6 DEF update_sync_init, send_dns, Send_udp_pkt, Age, Timeout, Stop,
                    Return, vars
<1> QED
  BY <1>1, <1>2, <1>3, <1>5, <1>6 DEF Next, Terminated

\* The inductive invariant.
LEMMA Invariance == Spec => []IInv
<1>1. Init => IInv
  <2>1. Init => NothingLost
    BY DEF Init, NothingLost
  <2> QED
    BY <2>1, InitTypeInv, InitMapInv, InitPathInv DEF IInv
<1>2. IInv /\ [Next]_vars => IInv'
  BY NextTypeInv, NextMapInv, NextPathInv, NextNothingLost DEF IInv
<1> QED
  BY <1>1, <1>2, PTL DEF Spec

\* The item of a probe is in one place only on its way to the file, however often
\* the response is repeated.
THEOREM OneRecordEach == Spec => []RecordedOnce
<1>1. IInv => RecordedOnce
  <2> SUFFICES ASSUME IInv, NEW p \in Probes, NEW s \in Stages(p), NEW t \in Stages(p)
               PROVE  s = t
    BY DEF RecordedOnce
  <2> DEFINE Carriers == {g \in Handlers : hpc[g] = "enqueue" /\ hitem[g] = p}
             InChan == {k \in 1 .. Len(Write_chan) : Write_chan[k] = p}
             Rows == {k \in 1 .. Len(file) : file[k] = p}
  <2>1. Stages(p) = {<<"handler", g>> : g \in Carriers}
                      \cup {<<"chan", k>> : k \in InChan} \cup {<<"row", k>> : k \in Rows}
    BY DEF Stages
  <2>2. /\ \A g, h \in Carriers : g = h
        /\ \A j, k \in InChan : j = k
        /\ \A j, k \in Rows : j = k
    BY DEF IInv, PathInv
  <2>3. /\ Carriers # {} => InChan = {} /\ Rows = {}
        /\ InChan # {} => Rows = {}
    BY DEF IInv, PathInv, Queued, Written
  <2> HIDE DEF Carriers, InChan, Rows
  <2> QED
    BY <2>1, <2>2, <2>3
<1> QED
  BY <1>1, Invariance, PTL

-----------------------------------------------------------------------------
(***************************************************************************)
(* Late responses.  A probe is registered before its query leaves, so what  *)
(* finds no entry comes for a probe whose entry is gone.                     *)
(***************************************************************************)
LateInv ==
    /\ \A p \in sent : ~Unregistered(p)
    /\ \A g \in Handlers : hpc[g] # "free" => ~Unregistered(hpkt[g])
    /\ \A g \in Handlers : hpc[g] = "missed" => hpkt[g] \notin Registered

\* No action of a handler, of timeout or of the writer registers a probe, and
\* send_dns registers only one that was not yet.
LEMMA RegisteredStep ==
    ASSUME TypeInv, MapInv
    PROVE  /\ \A r \in Routines : send_dns(r) =>
                Registered' \subseteq Registered \cup {taken[r]}
           /\ \A g \in Handlers : Lookup(g) => Registered' \subseteq Registered
           /\ Timeout => Registered' \subseteq Registered
<1> USE NullAssumption
<1>0. Items \in [Keys -> Probes \cup {NULL}]
  BY DEF TypeInv, TypeOK
<1>1. ASSUME NEW r \in Routines, send_dns(r)
      PROVE  Registered' \subseteq Registered \cup {taken[r]}
  <2>1. Items' = [Items EXCEPT ![asked[taken[r]]] = taken[r]]
    BY <1>1 DEF send_dns
  <2>2. \A k \in Keys : Items'[k] = Items[k] \/ Items'[k] = taken[r]
    BY <1>0, <2>1
  <2> QED
    BY <2>2 DEF Registered
<1>2. ASSUME NEW g \in Handlers, Lookup(g)
      PROVE  Registered' \subseteq Registered
  <2>1. \/ UNCHANGED Items
        \/ Items' = [Items EXCEPT ![asked[hpkt[g]]] = NULL]
    BY <1>2 DEF Lookup
  <2>2. \A k \in Keys : Items'[k] = Items[k] \/ Items'[k] = NULL
    BY <1>0, <2>1
  <2> QED
    BY <2>2 DEF Registered, Probes
<1>3. Timeout => Registered' \subseteq Registered
  BY DEF Timeout, Registered
<1> QED
  BY <1>1, <1>2, <1>3

\* LateInv is kept: one step per action that sends, receives or changes the map.
LEMMA NextLateInv == TypeInv /\ MapInv /\ LateInv /\ [Next]_vars => LateInv'
<1> SUFFICES ASSUME TypeInv, MapInv, LateInv, [Next]_vars
             PROVE  LateInv'
  OBVIOUS
<1> USE NullAssumption DEF probeVars, mapVars, handlerVars, endVars
<1>0. /\ sent \subseteq Probes
      /\ hpc \in [Handlers -> {"free", "lookup", "missed", "enqueue", "done", "dropped"}]
      /\ hpkt \in [Handlers -> Probes \cup {NULL}]
      /\ \A g \in Handlers : hpc[g] # "free" => hpkt[g] \in Probes
  BY DEF TypeInv, TypeOK, HoldingOK, Taken
<1>1. ASSUME NEW r \in Routines, update_sync_init(r)
      PROVE  LateInv'
  <2>1. \A p \in Probes : Unregistered(p)' <=> Unregistered(p)
    BY <1>1, UnregisteredStep
  <2>2. UNCHANGED <<sent, hpc, hpkt>> /\ Registered' = Registered
    BY <1>1 DEF update_sync_init, Registered
  <2> QED
    BY <1>0, <2>1, <2>2 DEF LateInv
<1>2. ASSUME NEW r \in Routines, send_dns(r)
      PROVE  LateInv'
  <2>1. taken[r] \in Probes /\ UNCHANGED <<sent, hpc, hpkt>>
    BY <1>2 DEF send_dns, TypeInv, HoldingOK, Taken
  <2>2. Unregistered(taken[r])
    BY <1>2, <2>1, UnregisteredStep
  <2>3. \A p \in Probes : Unregistered(p)' => Unregistered(p)
    BY <1>2, UnregisteredStep
  <2>4. Registered' \subseteq Registered \cup {taken[r]}
    BY <1>2, RegisteredStep
  <2> QED
    BY <1>0, <2>1, <2>2, <2>3, <2>4 DEF LateInv
<1>3. ASSUME NEW r \in Routines, Send_udp_pkt(r)
      PROVE  LateInv'
  <2>1. \A p \in Probes : Unregistered(p)' <=> Unregistered(p)
    BY <1>3, UnregisteredStep
  <2>2. /\ sent' = sent \cup {taken[r]} /\ UNCHANGED <<hpc, hpkt>>
        /\ rpc[r] = "send" /\ Registered' = Registered
    BY <1>3 DEF Send_udp_pkt, Registered
  <2>3. taken[r] \in Probes /\ ~Unregistered(taken[r])
    BY <2>2, SizeAssumption
    DEF TypeInv, TypeOK, HoldingOK, Taken, Unregistered, Probes
  <2> QED
    BY <1>0, <2>1, <2>2, <2>3 DEF LateInv
<1>4. ASSUME NEW g \in Handlers, NEW q \in Probes, Packet_capture(g, q)
      PROVE  LateInv'
  <2>1. /\ q \in sent /\ hpkt' = [hpkt EXCEPT ![g] = q]
        /\ \E pc \in {"lookup", "dropped"} : hpc' = [hpc EXCEPT ![g] = pc]
        /\ UNCHANGED <<ip_loop_id, rpc, taken, Items, sent>>
    BY <1>4 DEF Packet_capture
  <2>2. \A p : Unregistered(p)' <=> Unregistered(p)
    BY <2>1 DEF Unregistered
  <2>3. Registered' = Registered
    BY <2>1 DEF Registered
  <2> QED
    BY <1>0, <2>1, <2>2, <2>3 DEF LateInv
<1>5. ASSUME NEW g \in Handlers, Lookup(g)
      PROVE  LateInv'
  <2>1. \A p : Unregistered(p)' <=> Unregistered(p)
    BY <1>5 DEF Lookup, Unregistered
  <2>2. /\ UNCHANGED <<sent, hpkt>> /\ hpc[g] = "lookup"
        /\ Registered' \subseteq Registered
    BY <1>5, RegisteredStep DEF Lookup
  <2>3. \/ hpc' = [hpc EXCEPT ![g] = "enqueue"]
        \/ hpc' = [hpc EXCEPT ![g] = "missed"] /\ Items[asked[hpkt[g]]] = NULL
    BY <1>5 DEF Lookup
  <2>4. Items[asked[hpkt[g]]] = NULL => hpkt[g] \notin Registered
    BY <1>0, <2>2 DEF Registered, MapInv
  <2> QED
    BY <1>0, <2>1, <2>2, <2>3, <2>4 DEF LateInv
<1>6. CASE Timeout
  <2>1. /\ UNCHANGED <<sent, hpc, hpkt>> /\ Registered' \subseteq Registered
        /\ \A p : Unregistered(p)' <=> Unregistered(p)
    BY <1>6, RegisteredStep DEF Timeout, Unregistered
  <2> QED
    BY <2>1 DEF LateInv
<1>7. ASSUME NEW g \in Handlers, Enqueue(g)
      PROVE  LateInv'
  <2>1. UNCHANGED <<ip_loop_id, rpc, taken, Items, sent, hpkt>>
        /\ hpc[g] = "enqueue" /\ hpc' = [hpc EXCEPT ![g] = "done"]
    BY <1>7 DEF Enqueue
  <2>2. Registered' = Registered /\ \A p : Unregistered(p)' <=> Unregistered(p)
    BY <2>1 DEF Registered, Unregistered
  <2> QED
    BY <1>0, <2>1, <2>2 DEF LateInv
<1>8. ASSUME UNCHANGED <<probeVars, Items, hpc, hpkt, sent>>
      PROVE  LateInv'
  BY <1>8 DEF LateInv, Registered, Unregistered
<1>9. CASE \/ Write_item \/ Stop \/ UNCHANGED vars
           \/ \E p \in Probes : Age(p)
           \/ \E t \in Waited : Return(t)
  BY <1>8, <1>9 DEF Write_item, Stop, Age, Return, vars
<1> QED
  BY <1>1, <1>2, <1>3, <1>4, <1>5, <1>6, <1>7, <1>9 DEF Next, Terminated

\* udp_scanner.go:151-164, 192-197.  A response that finds no entry comes too
\* late: its probe was registered and has been answered or given up since.
THEOREM MissedLate == Spec => []MissedOnlyLate
<1>1. Init => LateInv
  BY DEF Init, LateInv
<1>2. IInv /\ LateInv /\ [Next]_vars => LateInv'
  BY NextLateInv DEF IInv
<1>3. LateInv => MissedOnlyLate
  BY DEF LateInv, MissedOnlyLate, Status
<1> QED
  BY <1>1, <1>2, <1>3, Invariance, PTL DEF Spec

-----------------------------------------------------------------------------
(***************************************************************************)
(* Keys used again.  update_sync_init counts through the ports and DNS ids: *)
(* the number of a probe is its key's place in one round plus whole rounds.  *)
(***************************************************************************)
DnsWord == MaxDnsId + 1
Place(port, dnsid) == (port - PortMin) * DnsWord + dnsid
InRound(p, port, dnsid) == \E c \in Nat : p = c * NumKeys + Place(port, dnsid)

RoundInv ==
    /\ InRound(ip_loop_id.id, ip_loop_id.port, ip_loop_id.dnsid)
    /\ \A p \in Probes :
          p <= ip_loop_id.id => InRound(p, asked[p][1], asked[p][2])
    /\ \A p \in Probes :
          answer[p] # NULL => /\ asked[answer[p]] = asked[p]
                              /\ p <= ip_loop_id.id /\ Taken(answer[p])

\* A round has at least two keys.
LEMMA RoundSize ==
    /\ DnsWord \in Nat \ {0} /\ NumKeys \in Nat \ {0}
    /\ NumKeys = (PortMax - PortMin) * DnsWord + DnsWord
<1> DEFINE d == PortMax - PortMin
<1>1. d \in Nat /\ DnsWord \in Nat \ {0}
  BY PortAssumption, SizeAssumption DEF DnsWord
<1>2. NumKeys = (d + 1) * DnsWord
  BY PortAssumption, SizeAssumption DEF NumKeys, DnsWord
<1> HIDE DEF d
<1>3. (d + 1) * DnsWord = d * DnsWord + DnsWord /\ d * DnsWord \in Nat
  BY <1>1
<1>4. NumKeys = d * DnsWord + DnsWord /\ NumKeys \in Nat \ {0}
  BY <1>1, <1>2, <1>3
<1> QED
  BY <1>1, <1>4 DEF d

\* The next key is at the next place, or at the first one of the next round.
LEMMA NextPlace ==
    ASSUME NEW l \in [id : 0 .. MaxProbes, port : Ports, dnsid : DnsIds],
           InRound(l.id, l.port, l.dnsid)
    PROVE  InRound(NextLoop(l).id, NextLoop(l).port, NextLoop(l).dnsid)
<1> DEFINE n == NextLoop(l)
           d == l.port - PortMin
<1>1. /\ PortMin \in Nat /\ PortMax \in Nat /\ MaxDnsId \in Nat /\ l.id \in Nat
      /\ l.port \in Nat /\ l.port >= PortMin /\ l.port <= PortMax
      /\ l.dnsid \in Nat /\ l.dnsid <= MaxDnsId /\ d \in Nat
  BY PortAssumption, SizeAssumption DEF Ports, DnsIds
<1>2. PICK c \in Nat : l.id = c * NumKeys + Place(l.port, l.dnsid)
  BY DEF InRound
<1>3. c * NumKeys \in Nat /\ (c + 1) * NumKeys = c * NumKeys + NumKeys /\ c + 1 \in Nat
  BY RoundSize
<1>4. d * DnsWord \in Nat /\ (d + 1) * DnsWord = d * DnsWord + DnsWord
  BY <1>1, RoundSize
<1>5. Place(l.port, l.dnsid) = d * DnsWord + l.dnsid
  BY DEF Place
<1>6. CASE l.dnsid + 1 <= MaxDnsId
  <2>1. n.id = l.id + 1 /\ n.port = l.port /\ n.dnsid = l.dnsid + 1
    BY <1>1, <1>6 DEF NextLoop
  <2>2. Place(n.port, n.dnsid) = d * DnsWord + (l.dnsid + 1)
    BY <2>1 DEF Place
  <2>3. n.id = c * NumKeys + Place(n.port, n.dnsid)
    BY <1>1, <1>2, <1>3, <1>4, <1>5, <2>1, <2>2
  <2> QED
    BY <2>3 DEF InRound
<1>7. CASE l.dnsid + 1 > MaxDnsId /\ l.port + 1 <= PortMax
  <2>1. n.id = l.id + 1 /\ n.port = l.port + 1 /\ n.dnsid = 0
    BY <1>1, <1>7 DEF NextLoop
  <2>2. n.port - PortMin = d + 1 /\ l.dnsid + 1 = DnsWord
    BY <1>1, <1>7, <2>1 DEF DnsWord
  <2>3. Place(n.port, n.dnsid) = (d + 1) * DnsWord + 0
    BY <2>1, <2>2 DEF Place
  <2> HIDE DEF d, n
  <2>4. n.id = c * NumKeys + Place(n.port, n.dnsid)
    BY <1>1, <1>2, <1>3, <1>4, <1>5, <2>1, <2>2, <2>3
  <2> QED
    BY <2>4 DEF InRound, n
<1>8. CASE l.dnsid + 1 > MaxDnsId /\ l.port + 1 > PortMax
  <2>1. n.id = l.id + 1 /\ n.port = PortMin /\ n.dnsid = 0
    BY <1>1, <1>8 DEF NextLoop
  <2>2. d = PortMax - PortMin /\ l.dnsid + 1 = DnsWord
    BY <1>1, <1>8 DEF DnsWord
  <2>3. Place(n.port, n.dnsid) = 0
    BY <1>1, <2>1, RoundSize DEF Place
  <2>4. NumKeys = d * DnsWord + DnsWord
    BY <2>2, RoundSize
  <2> HIDE DEF d, n
  <2>5. n.id = (c + 1) * NumKeys + Place(n.port, n.dnsid)
    BY <1>1, <1>2, <1>3, <1>4, <1>5, <2>1, <2>2, <2>3, <2>4, RoundSize
  <2> QED
    BY <1>3, <2>5 DEF InRound, n
<1> QED
  BY <1>1, <1>6, <1>7, <1>8

\* RoundInv is kept: update_sync_init gives a probe its key, and Lookup fills a
\* response into the item found under the key of the probe it answers.
LEMMA NextRoundInv ==
    TypeInv /\ MapInv /\ RoundInv /\ [Next]_vars => RoundInv'
<1> SUFFICES ASSUME TypeInv, MapInv, RoundInv, [Next]_vars
             PROVE  RoundInv'
  OBVIOUS
<1> USE NullAssumption DEF probeVars, mapVars, handlerVars, endVars
<1>0. /\ Items \in [Keys -> Probes \cup {NULL}]
      /\ answer \in [Probes -> Probes \cup {NULL}]
      /\ asked \in [Probes -> Keys \cup {NULL}]
      /\ ip_loop_id \in [id : 0 .. MaxProbes, port : Ports, dnsid : DnsIds]
      /\ ip_loop_id.id \in Nat /\ Probes \subseteq Nat
  BY SizeAssumption DEF TypeInv, TypeOK, Probes
<1>1. ASSUME NEW r \in Routines, update_sync_init(r)
      PROVE  RoundInv'
  <2> DEFINE l == NextLoop(ip_loop_id)
  <2>1. l.id = ip_loop_id.id + 1 /\ l.id \in Probes
    BY <1>0, <1>1, NextLoopType DEF update_sync_init
  <2>2. InRound(l.id, l.port, l.dnsid)
    BY <1>0, NextPlace DEF RoundInv
  <2>3. /\ ip_loop_id' = l /\ UNCHANGED answer
        /\ asked' = [asked EXCEPT ![l.id] = <<l.port, l.dnsid>>]
    BY <1>1 DEF update_sync_init
  <2> HIDE DEF l
  <2>4. asked'[l.id] = <<l.port, l.dnsid>>
        /\ \A p \in Probes : p <= ip_loop_id.id => asked'[p] = asked[p]
    BY <1>0, <2>1, <2>3
  <2>5. \A p \in Probes : p <= l.id => p <= ip_loop_id.id \/ p = l.id
    BY <1>0, <2>1
  <2>6. \A p \in Probes : p <= ip_loop_id.id => p <= ip_loop_id'.id
    BY <1>0, <2>1, <2>3
  <2>7. \A p \in Probes : p <= ip_loop_id'.id => InRound(p, asked'[p][1], asked'[p][2])
    <3> SUFFICES ASSUME NEW p \in Probes, p <= ip_loop_id'.id
                 PROVE  InRound(p, asked'[p][1], asked'[p][2])
      OBVIOUS
    <3>1. CASE p = l.id
      BY <2>2, <2>4, <3>1
    <3>2. CASE p <= ip_loop_id.id
      <4>1. InRound(p, asked[p][1], asked[p][2])
        BY <3>2 DEF RoundInv
      <4> QED
        BY <2>4, <3>2, <4>1
    <3> QED
      BY <2>3, <2>5, <3>1, <3>2
  <2>8. InRound(ip_loop_id'.id, ip_loop_id'.port, ip_loop_id'.dnsid)
    BY <2>2, <2>3
  <2>9. \A p \in Probes : answer'[p] # NULL =>
          /\ asked'[answer'[p]] = asked'[p]
          /\ p <= ip_loop_id'.id /\ answer'[p] \in Probes /\ answer'[p] <= ip_loop_id'.id
    BY <2>3, <2>4, <2>6 DEF RoundInv, Taken
  <2> QED
    BY <2>7, <2>8, <2>9 DEF RoundInv, Taken, InRound
<1>2. ASSUME NEW g \in Handlers, Lookup(g)
      PROVE  RoundInv'
  <2> DEFINE k == asked[hpkt[g]]
             p == Items[k]
  <2>1. k \in Keys /\ Taken(hpkt[g])
    BY <1>2 DEF Lookup, TypeInv, HoldingOK, Taken
  <2>2. UNCHANGED <<ip_loop_id, asked>>
    BY <1>2 DEF Lookup
  <2>3. CASE p = NULL
    <3>1. UNCHANGED answer
      BY <1>2, <2>3 DEF Lookup
    <3> QED
      BY <2>2, <3>1 DEF RoundInv, Taken, InRound
  <2>4. CASE p # NULL
    <3>1. answer' = [answer EXCEPT ![p] = hpkt[g]]
      BY <1>2, <2>4 DEF Lookup
    <3>1a. p \in Probes /\ asked[p] = k /\ ~Unregistered(p)
      BY <1>0, <2>1, <2>4 DEF MapInv
    <3> HIDE DEF p
    <3>2. p \in Probes /\ asked[p] = k /\ p <= ip_loop_id.id
      BY <1>0, <3>1a DEF Unregistered
    <3>3. \A q \in Probes : q # p => answer'[q] = answer[q]
      BY <1>0, <3>1
    <3>4. \A q \in Probes : q = p => answer'[q] = hpkt[g]
      BY <1>0, <3>1
    <3>5. \A q \in Probes : answer'[q] # NULL =>
            asked[answer'[q]] = asked[q] /\ q <= ip_loop_id.id /\ Taken(answer'[q])
      BY <2>1, <3>2, <3>3, <3>4 DEF RoundInv
    <3> QED
      BY <2>2, <3>5 DEF RoundInv, Taken, InRound
  <2> QED
    BY <2>3, <2>4
<1>3. ASSUME UNCHANGED <<ip_loop_id, asked, answer>>
      PROVE  RoundInv'
  BY <1>3 DEF RoundInv, Taken, InRound
<1>4. CASE \/ \E r \in Routines : send_dns(r) \/ Send_udp_pkt(r)
           \/ \E g \in Handlers, q \in Probes : Packet_capture(g, q)
           \/ \E g \in Handlers : Enqueue(g)
           \/ Write_item \/ Timeout \/ Stop \/ UNCHANGED vars
           \/ \E p \in Probes : Age(p)
           \/ \E t \in Waited : Return(t)
  BY <1>3, <1>4 DEF send_dns, Send_udp_pkt, Packet_capture, Enqueue, Write_item,
                    Timeout, Stop, Age, Return, vars
<1> QED
  BY <1>1, <1>2, <1>4 DEF Next, Terminated

\* Two numbers with the same place are whole rounds apart.
LEMMA WholeRounds ==
    ASSUME NEW p \in Nat, NEW q \in Nat, q <= p, NEW port, NEW dnsid,
           Place(port, dnsid) \in Nat,
           InRound(p, port, dnsid), InRound(q, port, dnsid)
    PROVE  (p - q) % NumKeys = 0
<1>1. PICK c \in Nat : p = c * NumKeys + Place(port, dnsid)
  BY DEF InRound
<1>2. PICK b \in Nat : q = b * NumKeys + Place(port, dnsid)
  BY DEF InRound
<1> DEFINE n == NumKeys
<1>3. n \in Nat \ {0}
  BY RoundSize
<1> HIDE DEF n
<1>4. c * n \in Nat /\ b * n \in Nat /\ p - q = c * n - b * n
  BY <1>1, <1>2, <1>3 DEF n
<1>5. c >= b
  <2>1. ASSUME c < b PROVE FALSE
    <3>1. PICK e \in Nat : b = c + 1 + e
      BY <2>1, b - c - 1 \in Nat
    <3>2. b * n = c * n + n + e * n /\ e * n \in Nat
      BY <1>3, <3>1
    <3> QED
      BY <1>3, <1>4, <3>2
  <2> QED
    BY <2>1
<1>6. PICK e \in Nat : c = b + e
  BY <1>5, c - b \in Nat
<1>7. p - q = e * n
  BY <1>3, <1>4, <1>6
<1>8. (e * n) % n = 0
  BY <1>3
<1> QED
  BY <1>7, <1>8 DEF n

\* udp_scanner.go:43-59, 191-211.  A response is filled into the item of another
\* probe only if the two are whole rounds through all ports and DNS ids apart.
THEOREM MixedUpOnlyAfterCycle == Spec => []MixedUpAfterFullCycle
<1>1. Init => RoundInv
  <2> SUFFICES ASSUME Init PROVE RoundInv
    OBVIOUS
  <2>1. Place(PortMin, 0) = 0 /\ 0 = 0 * NumKeys + 0
    BY PortAssumption, RoundSize DEF Place
  <2>2. InRound(0, PortMin, 0)
    BY <2>1 DEF InRound
  <2> QED
    BY <2>2 DEF Init, RoundInv, Probes
<1>2. IInv /\ RoundInv /\ [Next]_vars => RoundInv'
  BY NextRoundInv DEF IInv
<1>3. IInv /\ RoundInv => MixedUpAfterFullCycle
  <2> SUFFICES ASSUME IInv, RoundInv, NEW p \in Probes, answer[p] # NULL
               PROVE  (IF answer[p] <= p THEN p - answer[p] ELSE answer[p] - p)
                        % NumKeys = 0
    BY DEF MixedUpAfterFullCycle
  <2> DEFINE q == answer[p]
             port == asked[p][1]
             dnsid == asked[p][2]
  <2>1. /\ p \in Nat /\ q \in Nat /\ p \in Probes /\ q \in Probes /\ asked[q] = asked[p]
        /\ p <= ip_loop_id.id /\ q <= ip_loop_id.id
    BY DEF RoundInv, Taken, Probes
  <2>2. InRound(p, port, dnsid) /\ InRound(q, port, dnsid)
    BY <2>1 DEF RoundInv
  <2>3. asked[p] \in Keys
    BY <2>1 DEF IInv, TypeInv, HoldingOK
  <2>4. port \in Ports /\ dnsid \in DnsIds
    BY <2>3 DEF Keys
  <2>5. port - PortMin \in Nat /\ dnsid \in Nat
    BY <2>4, PortAssumption, SizeAssumption DEF Ports, DnsIds
  <2>6. Place(port, dnsid) \in Nat
    BY <2>5, RoundSize DEF Place
  <2> HIDE DEF q, port, dnsid
  <2>7. CASE q <= p
    BY <2>1, <2>2, <2>6, <2>7, WholeRounds DEF q
  <2>8. CASE ~ (q <= p)
    <3>1. p <= q
      BY <2>1, <2>8
    <3> QED
      BY <2>1, <2>2, <2>6, <2>8, <3>1, WholeRounds DEF q
  <2> QED
    BY <2>7, <2>8
<1> QED
  BY <1>1, <1>2, <1>3, Invariance, PTL DEF Spec

-----------------------------------------------------------------------------
\* The refinement.  A registered probe is the one under its key.
LEMMA RegisteredKey ==
    ASSUME TypeInv, MapInv, NEW p \in Probes
    PROVE  p \in Registered =>
             /\ asked[p] \in Keys /\ Items[asked[p]] = p
             /\ answer[p] = NULL /\ ~Unregistered(p)
BY NullAssumption DEF Registered, MapInv

\* The status of a probe by its answer, wherever its item is.
Stage(p) == IF Unregistered(p) THEN "idle"
            ELSE IF p \in Registered THEN "open"
            ELSE IF Written(p) THEN "recorded"
            ELSE IF answer[p] # NULL THEN "answered" ELSE "lost"

\* Where an item is and whether it was filled in agree.
LEMMA StatusIsStage ==
    ASSUME IInv PROVE \A p \in Probes : Status(p) = Stage(p)
<1>1. \A p \in Probes : Held(p) \/ Queued(p) => answer[p] # NULL
  BY DEF IInv, PathInv, Held
<1>2. \A p \in Probes : answer[p] # NULL => Held(p) \/ Queued(p) \/ Written(p)
  BY DEF IInv, NothingLost
<1> QED
  BY <1>1, <1>2 DEF Status, Stage

\* No other action touches what Stage looks at.
LEMMA StatusStutter ==
    ASSUME \A p \in Probes : Unregistered(p)' <=> Unregistered(p),
           UNCHANGED <<Items, answer, file>>,
           \A p \in Probes : Status(p) = Stage(p) /\ Status(p)' = Stage(p)'
    PROVE  UNCHANGED <<[p \in Probes |-> Status(p)], file>>
<1>1. Registered' = Registered
  BY DEF Registered
<1>2. \A p \in Probes : Stage(p)' = Stage(p)
  BY <1>1 DEF Stage, Written
<1> QED
  BY <1>2

\* The initial states map to initial states.
LEMMA InitImplements == Init => Abs!Init
<1> SUFFICES ASSUME Init PROVE Abs!Init
  OBVIOUS
<1>1. \A p \in Probes : Unregistered(p)
  BY DEF Init, Unregistered, Probes
<1>2. [p \in Probes |-> Status(p)] = [p \in Probes |-> "idle"]
  BY <1>1 DEF Status
<1> QED
  BY <1>2 DEF Init, Abs!Init, Abs!Probes, Probes

\* Every step maps to a step or a stutter: one step per action.
LEMMA NextImplements ==
    IInv /\ IInv' /\ [Next]_vars
        => [Abs!Next]_<<[p \in Probes |-> Status(p)], file>>
<1> SUFFICES ASSUME IInv, IInv', [Next]_vars
             PROVE  Abs!Next \/ UNCHANGED <<[p \in Probes |-> Status(p)], file>>
  OBVIOUS
<1> DEFINE st == [p \in Probes |-> Status(p)]
<1>m. \A p \in Probes : Status(p) = Stage(p) /\ Status(p)' = Stage(p)'
  <2>1. \A p \in Probes : Status(p) = Stage(p)
    BY StatusIsStage
  <2>2. (\A p \in Probes : Status(p) = Stage(p))'
    BY StatusIsStage, PTL
  <2> QED
    BY <2>1, <2>2
<1> USE NullAssumption DEF IInv, probeVars, mapVars, handlerVars, endVars
<1>0. /\ Items \in [Keys -> Probes \cup {NULL}]
      /\ answer \in [Probes -> Probes \cup {NULL}]
      /\ Write_chan \in Seq(Probes) /\ file \in Seq(Probes)
      /\ Abs!Probes = Probes
  BY DEF TypeInv, TypeOK, Probes, Abs!Probes
<1>0a. st \in [Probes -> Abs!Stages] /\ st' \in [Probes -> Abs!Stages]
  BY <1>m DEF Stage, Abs!Stages
<1>1. ASSUME NEW r \in Routines, update_sync_init(r)
      PROVE  UNCHANGED <<st, file>>
  <2>1. \A p \in Probes : Unregistered(p)' <=> Unregistered(p)
    BY <1>1, UnregisteredStep
  <2> QED
    BY <1>1, <2>1, StatusStutter, <1>m DEF update_sync_init
<1>2. ASSUME NEW r \in Routines, send_dns(r)
      PROVE  Abs!Next
  <2> DEFINE p == taken[r]
             S == {q \in Probes : Items[asked[p]] = q}
  <2>1. p \in Probes /\ asked[p] \in Keys /\ Unregistered(p)
    BY <1>2, UnregisteredStep DEF send_dns, TypeInv, HoldingOK, Taken
  <2>2. \A q \in Probes : Unregistered(q)' <=> Unregistered(q) /\ q # p
    BY <1>2, UnregisteredStep
  <2>3. /\ Items' = [Items EXCEPT ![asked[p]] = p]
        /\ UNCHANGED <<answer, file, asked>>
    BY <1>2 DEF send_dns
  <2>4. Status(p) = "idle" /\ \A q \in S : Status(q) = "open" /\ q # p
    BY <1>m, <2>1, RegisteredKey DEF Stage, MapInv, Registered
  <2> HIDE DEF p
  <2>5. \A q \in Probes : q \in Registered' <=> q = p \/ (q \in Registered /\ q \notin S)
    <3>1. \A q \in Probes, k \in Keys :
            Items'[k] = q <=> (IF k = asked[p] THEN q = p ELSE Items[k] = q)
      BY <1>0, <2>1, <2>3
    <3>2. \A q \in Probes : q \in Registered => asked[q] \in Keys /\ Items[asked[q]] = q
      BY RegisteredKey
    <3>3. \A q \in Probes, k \in Keys : Items[k] = q => asked[q] = k
      BY DEF MapInv
    <3> QED
      BY <2>1, <3>1, <3>2, <3>3 DEF Registered
  <2>6. \A q \in Probes : Status(q)' = IF q = p THEN "open"
                                      ELSE IF q \in S THEN "lost" ELSE Status(q)
    <3> SUFFICES ASSUME NEW q \in Probes
                 PROVE  Status(q)' = IF q = p THEN "open"
                                     ELSE IF q \in S THEN "lost" ELSE Status(q)
      OBVIOUS
    <3>1. Written(q)' <=> Written(q)
      BY <2>3 DEF Written
    <3>2. CASE q = p
      BY <1>m, <2>2, <2>5, <3>2 DEF Stage
    <3>3. CASE q # p /\ q \in S
      <4>1. answer[q] = NULL /\ ~Unregistered(q)
        BY <2>1, <3>3 DEF MapInv
      <4>2. ~Written(q)
        BY <4>1 DEF PathInv
      <4> QED
        BY <1>m, <2>2, <2>3, <2>5, <3>1, <3>3, <4>1, <4>2 DEF Stage
    <3>4. CASE q # p /\ q \notin S
      BY <1>m, <2>2, <2>3, <2>5, <3>1, <3>4 DEF Stage
    <3> QED
      BY <3>2, <3>3, <3>4
  <2>7. st' = [q \in Probes |-> IF q = p THEN "open" ELSE IF q \in S THEN "lost" ELSE st[q]]
    BY <2>6
  <2>8. Abs!Open(p)
    BY <1>0, <2>1, <2>3, <2>4, <2>7 DEF Abs!Open, Abs!Waits
  <2> QED
    BY <1>0, <1>0a, <2>1, <2>8 DEF Abs!Next
<1>3. ASSUME NEW r \in Routines, Send_udp_pkt(r)
      PROVE  UNCHANGED <<st, file>>
  <2>1. \A p \in Probes : Unregistered(p)' <=> Unregistered(p)
    BY <1>3, UnregisteredStep
  <2> QED
    BY <1>3, <2>1, StatusStutter, <1>m DEF Send_udp_pkt
<1>4. ASSUME NEW g \in Handlers, Lookup(g)
      PROVE  Abs!Next \/ UNCHANGED <<st, file>>
  <2> DEFINE k == asked[hpkt[g]]
             p == Items[k]
  <2>1. k \in Keys /\ hpkt[g] \in Probes
    BY <1>4 DEF Lookup, TypeInv, HoldingOK, Taken
  <2>2. \A q : Unregistered(q)' <=> Unregistered(q)
    BY <1>4 DEF Lookup, Unregistered
  <2>3. CASE p = NULL
    <3>1. UNCHANGED <<Items, answer, file>>
      BY <1>4, <2>3 DEF Lookup
    <3> QED
      BY <2>2, <3>1, StatusStutter, <1>m
  <2>4. CASE p # NULL
    <3>1. /\ Items' = [Items EXCEPT ![k] = NULL]
          /\ answer' = [answer EXCEPT ![p] = hpkt[g]]
          /\ UNCHANGED file
      BY <1>4, <2>4 DEF Lookup
    <3>2. /\ p \in Probes /\ p \in Registered /\ asked[p] = k /\ answer[p] = NULL
          /\ ~Unregistered(p)
      BY <1>0, <2>1, <2>4 DEF MapInv, Registered
    <3>3. ~Written(p)
      BY <3>2 DEF PathInv
    <3>4. \A q \in Probes : q # p => (q \in Registered' <=> q \in Registered)
      BY <1>0, <2>1, <3>1 DEF Registered
    <3>5. p \notin Registered'
      <4>1. \A j \in Keys : Items[j] = p => j = k
        BY <2>4, <3>2 DEF MapInv
      <4> QED
        BY <1>0, <2>1, <2>4, <3>1, <4>1 DEF Registered
    <3> HIDE DEF k, p
    <3>6. \A q \in Probes : (Written(q)' <=> Written(q)) /\ (q # p => answer'[q] = answer[q])
      BY <1>0, <3>1 DEF Written
    <3>7. \A q \in Probes : q # p => Status(q)' = Status(q)
      BY <1>m, <2>2, <3>4, <3>6 DEF Stage
    <3>8. Status(p) = "open" /\ \A q \in Probes : q = p => Status(q)' = "answered"
      BY <1>m, <1>0, <2>1, <2>2, <3>1, <3>2, <3>3, <3>5, <3>6 DEF Stage
    <3>9. st' = [st EXCEPT ![p] = "answered"]
      BY <3>2, <3>7, <3>8
    <3>10. Abs!Answer(p)
      BY <3>1, <3>2, <3>8, <3>9 DEF Abs!Answer
    <3> QED
      BY <1>0, <1>0a, <3>2, <3>10 DEF Abs!Next
  <2> QED
    BY <2>3, <2>4
<1>5. CASE Write_item
  <2> DEFINE p == Head(Write_chan)
  <2>1. p \in Probes /\ Queued(p)
    BY <1>0, <1>5, TailElements DEF Write_item, Queued
  <2>2. file' = Append(file, p) /\ UNCHANGED <<Items, answer>>
    BY <1>5 DEF Write_item
  <2>3. \A q : Unregistered(q)' <=> Unregistered(q)
    BY <1>5 DEF Write_item, Unregistered
  <2> HIDE DEF p
  <2>4. \A q : Written(q)' <=> Written(q) \/ q = p
    BY <1>0, <2>1, <2>2, AppendedElements DEF Written
  <2>5. answer[p] # NULL /\ ~Written(p) /\ ~Unregistered(p)
    BY <2>1 DEF PathInv, MapInv
  <2>6. p \notin Registered /\ Registered' = Registered
    BY <2>1, <2>2, <2>5, RegisteredKey DEF Registered
  <2>7. Status(p) = "answered" /\ \A q \in Probes : q = p => Status(q)' = "recorded"
    <3>1. Status(p) = "answered"
      BY <1>m, <2>1, <2>5, <2>6 DEF Stage
    <3>2. ASSUME NEW q \in Probes, q = p PROVE Status(q)' = "recorded"
      <4>1. q \notin Registered' /\ ~Unregistered(q)' /\ Written(q)'
        BY <2>3, <2>4, <2>5, <2>6, <3>2
      <4> QED
        BY <1>m, <4>1 DEF Stage
    <3> QED
      BY <3>1, <3>2
  <2>8. \A q \in Probes : q # p => Status(q)' = Status(q)
    BY <1>m, <2>2, <2>3, <2>4, <2>6 DEF Stage
  <2>9. st' = [st EXCEPT ![p] = "recorded"]
    BY <2>1, <2>7, <2>8
  <2>10. Abs!Record(p)
    BY <2>1, <2>2, <2>7, <2>9 DEF Abs!Record
  <2> QED
    BY <1>0, <1>0a, <2>1, <2>10 DEF Abs!Next
<1>6. CASE Timeout
  <2> DEFINE S == Registered \cap expired
  <2>1. /\ Items' = [k \in Keys |-> IF Items[k] \in expired THEN NULL ELSE Items[k]]
        /\ UNCHANGED <<answer, file>>
    BY <1>6 DEF Timeout
  <2>2. \A q : Unregistered(q)' <=> Unregistered(q)
    BY <1>6 DEF Timeout, Unregistered
  <2>3. \A q \in Probes : q \in Registered' <=> q \in Registered /\ q \notin S
    BY <1>0, <2>1 DEF Registered
  <2>4. \A q \in S : /\ q \in Probes /\ q \in Registered /\ answer[q] = NULL
                    /\ ~Unregistered(q) /\ ~Written(q)
    BY RegisteredKey DEF PathInv, Registered
  <2> HIDE DEF S
  <2>5. \A q \in S : Status(q) = "open"
    BY <1>m, <2>4 DEF Stage
  <2>6. \A q \in Probes : Status(q)' = IF q \in S THEN "lost" ELSE Status(q)
    BY <1>m, <2>1, <2>2, <2>3, <2>4 DEF Stage, Written
  <2>7. st' = [q \in Probes |-> IF q \in S THEN "lost" ELSE st[q]]
    BY <2>6
  <2>8. Abs!GiveUp
    BY <1>0, <2>1, <2>5, <2>7 DEF Abs!GiveUp, Abs!Waits
  <2> QED
    <3>1. \/ \E p \in Abs!Probes : Abs!Open(p) \/ Abs!Answer(p) \/ Abs!Record(p)
          \/ Abs!GiveUp
      BY <2>8
    <3> QED
      BY <1>0, <1>0a, <3>1 DEF Abs!Next
<1>7. ASSUME UNCHANGED <<ip_loop_id, rpc, taken, Items, answer, file>>
      PROVE  UNCHANGED <<st, file>>
  <2>1. \A q : Unregistered(q)' <=> Unregistered(q)
    BY <1>7 DEF Unregistered
  <2> QED
    BY <1>7, <2>1, StatusStutter, <1>m
<1>8. CASE \/ \E g \in Handlers, q \in Probes : Packet_capture(g, q)
           \/ \E g \in Handlers : Enqueue(g)
           \/ \E p \in Probes : Age(p)
           \/ \E t \in Waited : Return(t)
           \/ Stop \/ UNCHANGED vars
  BY <1>7, <1>8 DEF Packet_capture, Enqueue, Age, Return, Stop, vars
<1> QED
  BY <1>1, <1>2, <1>3, <1>4, <1>5, <1>6, <1>8 DEF Next, Terminated

\* The UDP scanner implements ProbeRecord: a probe is answered at most once, while
\* its entry is in the map, and an answered probe is recorded once or is still on
\* its way.
THEOREM Implements == Spec => ImplementsProbeRecord
<1>1. Init => Abs!Init
  BY InitImplements
<1>2. IInv /\ IInv' /\ [Next]_vars => [Abs!Next]_<<[p \in Probes |-> Status(p)], file>>
  BY NextImplements
<1> QED
  BY <1>1, <1>2, Invariance, PTL DEF Spec, ImplementsProbeRecord, Abs!Spec
=============================================================================
