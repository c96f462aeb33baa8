---------------------------- MODULE TcpScanProofs ----------------------------
(***************************************************************************)
(* Safety of the TCP scanner for every number of connections, packets,      *)
(* init_tcp goroutines and every capacity of Write_chan: types, the order   *)
(* of lists and rows, fresh keys, and what is queued and written.           *)
(***************************************************************************)
EXTENDS TcpScan, FiniteSetTheorems, FunctionTheorems, TLAPS

\* What a handler holds, by its control state: the packet it was given, and the
\* node it reached while it has the pointer.
HandlersOK ==
    \A g \in Handlers :
        /\ hpc[g] # "free" => hpkt[g] \in Packets
        /\ hpc[g] \in {"walk", "link"} => hcur[g] \in Nodes

\* The writer in its loop holds a node.
WriterOK == wpc = "rows" => wcur \in Nodes

TypeInv == TypeOK /\ HandlersOK /\ WriterOK

\* The fields of a packet.
LEMMA PacketFields ==
    ASSUME NEW p \in Packets
    PROVE  /\ p.id \in Ids
           /\ p.kind \in {"SA", "FA"} \cup Answers
           /\ p.body \in {"none"} \cup Bodies
BY DEF Packets

\* The initial state is typed.
LEMMA InitTypeInv == Init => TypeInv
<1>1. Init => Write_chan \in Seq(Ids) /\ Len(Write_chan) <= WriteCap
                /\ file \in Seq(Nodes)
  BY CapAssumption DEF Init
<1>2. Init => nextId \in 0 .. MaxConns
  BY ConnsAssumption DEF Init
<1>3. Init => TypeOK
  BY <1>1, <1>2 DEF Init, TypeOK, HandlerStates
<1>4. QED
  BY <1>3 DEF Init, TypeInv, HandlersOK, WriterOK

\* TypeInv is inductive: one step per action.
LEMMA NextTypeInv == TypeInv /\ [Next]_vars => TypeInv'
<1> SUFFICES ASSUME TypeInv, [Next]_vars
             PROVE  TypeInv'
  OBVIOUS
<1> USE NodesAssumption DEF TypeInv, connVars, handlerVars, writerVars
<1>1. ASSUME NEW r \in Routines, get_next_id(r)
      PROVE  TypeInv'
  <2>1. nextId' \in 0 .. MaxConns /\ nextId \in Ids
    BY <1>1, ConnsAssumption DEF get_next_id, TypeOK, Ids
  <2>2. TypeOK'
    BY <1>1, <2>1 DEF get_next_id, TypeOK
  <2>3. QED
    BY <1>1, <2>2 DEF get_next_id, HandlersOK, WriterOK
<1>2. ASSUME NEW r \in Routines, send_syn(r)
      PROVE  TypeInv'
  <2>1. rid[r] \in Ids
    BY <1>2 DEF send_syn, TypeOK
  <2>2. TypeOK'
    BY <1>2, <2>1 DEF send_syn, TypeOK, Nodes
  <2>3. QED
    BY <1>2, <2>2 DEF send_syn, HandlersOK, WriterOK
<1>3. ASSUME NEW g \in Handlers, NEW p \in Packets, Packet_capture(g, p)
      PROVE  TypeInv'
  <2>1. TypeOK'
    BY <1>3 DEF Packet_capture, TypeOK, Drop, Goto, HandlerStates
  <2>2. HandlersOK'
    BY <1>3 DEF Packet_capture, TypeOK, HandlersOK, Drop, Goto, HandlerStates
  <2>3. QED
    BY <1>3, <2>1, <2>2 DEF Packet_capture, WriterOK
<1>4. ASSUME NEW g \in Handlers, Lookup(g)
      PROVE  TypeInv'
  <2>1. hpkt[g] \in Packets /\ hpkt[g].id \in Nodes
    BY <1>4, PacketFields DEF Lookup, HandlersOK, Nodes
  <2>2. TypeOK'
    BY <1>4, <2>1 DEF Lookup, TypeOK, Drop, Goto, HandlerStates
  <2>3. HandlersOK'
    BY <1>4, <2>1 DEF Lookup, TypeOK, HandlersOK, Drop, Goto, HandlerStates
  <2>4. QED
    BY <1>4, <2>2, <2>3 DEF Lookup, WriterOK
<1>5. ASSUME NEW g \in Handlers, Walk(g)
      PROVE  TypeInv'
  <2>1. next[hcur[g]] \in Nodes
    BY <1>5 DEF Walk, TypeOK, HandlersOK, Nodes
  <2>2. TypeOK'
    BY <1>5, <2>1 DEF Walk, TypeOK
  <2>3. HandlersOK'
    BY <1>5, <2>1 DEF Walk, TypeOK, HandlersOK
  <2>4. QED
    BY <1>5, <2>2, <2>3 DEF Walk, WriterOK
<1>6. ASSUME NEW g \in Handlers,
             Check_SYN_ACK(g) \/ Check_Answer(g) \/ Check_FIN_ACK(g)
      PROVE  TypeInv'
  <2>1. hpkt[g] \in Packets /\ hpkt[g].id \in Ids
    BY <1>6, PacketFields
    DEF Check_SYN_ACK, Check_Answer, Check_FIN_ACK, AtLast, HandlersOK
  <2>2. TypeOK'
    BY <1>6, <2>1 DEF Check_SYN_ACK, Check_Answer, Check_FIN_ACK, AtLast,
                      TypeOK, Drop, Goto, HandlerStates
  <2>3. HandlersOK'
    BY <1>6, <2>1 DEF Check_SYN_ACK, Check_Answer, Check_FIN_ACK, AtLast,
                      TypeOK, HandlersOK, Drop, Goto
  <2>4. QED
    BY <1>6, <2>2, <2>3 DEF Check_SYN_ACK, Check_Answer, Check_FIN_ACK, WriterOK
<1>7. ASSUME NEW g \in Handlers, Link_SYN_ACK(g) \/ Link_Answer(g)
      PROVE  TypeInv'
  <2>1. hpkt[g] \in Packets /\ hpkt[g].id \in Ids
    BY <1>7, PacketFields DEF Link_SYN_ACK, Link_Answer, HandlersOK
  <2>2. TypeOK'
    BY <1>7, <2>1 DEF Link_SYN_ACK, Link_Answer, TypeOK, Goto, HandlerStates
  <2>3. HandlersOK'
    BY <1>7, <2>1 DEF Link_SYN_ACK, Link_Answer, TypeOK, HandlersOK, Goto
  <2>4. QED
    BY <1>7, <2>2, <2>3 DEF Link_SYN_ACK, Link_Answer, WriterOK
<1>8. ASSUME NEW g \in Handlers, Enqueue(g)
      PROVE  TypeInv'
  <2>1. hpkt[g].id \in Ids
    BY <1>8, PacketFields DEF Enqueue, HandlersOK
  <2>2. Write_chan' \in Seq(Ids) /\ Len(Write_chan') <= WriteCap
    BY <1>8, <2>1, CapAssumption DEF Enqueue, TypeOK
  <2>3. TypeOK'
    BY <1>8, <2>2 DEF Enqueue, TypeOK, Goto, HandlerStates
  <2>4. HandlersOK'
    BY <1>8 DEF Enqueue, TypeOK, HandlersOK, Goto
  <2>5. QED
    BY <1>8, <2>3, <2>4 DEF Enqueue, WriterOK
<1>9. CASE Write_take
  <2>1. /\ Head(Write_chan) \in Ids
        /\ Write_chan' \in Seq(Ids) /\ Len(Write_chan') <= WriteCap
    BY <1>9, CapAssumption DEF Write_take, TypeOK
  <2>2. TypeOK'
    BY <1>9, <2>1 DEF Write_take, TypeOK, Nodes
  <2>3. QED
    BY <1>9, <2>1, <2>2 DEF Write_take, HandlersOK, WriterOK, Nodes
<1>10. CASE Write_row
  <2>1. wcur \in Nodes /\ next[wcur] \in Handlers \cup {NULL}
    BY <1>10 DEF Write_row, WriterOK, TypeOK
  <2>2. file' \in Seq(Nodes)
    BY <1>10, <2>1 DEF Write_row, TypeOK
  <2>3. TypeOK'
    BY <1>10, <2>1, <2>2 DEF Write_row, TypeOK, Nodes
  <2>4. QED
    BY <1>10, <2>1, <2>3 DEF Write_row, HandlersOK, WriterOK, Nodes
<1>11. CASE Write_delete
  BY <1>11 DEF Write_delete, TypeOK, HandlersOK, WriterOK
<1>12. ASSUME NEW i \in Ids, Age(i)
       PROVE  TypeInv'
  BY <1>12 DEF Age, TypeOK, HandlersOK, WriterOK
<1>13. CASE Timeout
  BY <1>13 DEF Timeout, TypeOK, HandlersOK, WriterOK
<1>14. CASE Stop
  BY <1>14 DEF Stop, TypeOK, HandlersOK, WriterOK
<1>15. ASSUME NEW t \in Waited, Return(t)
       PROVE  TypeInv'
  BY <1>15 DEF Return, TypeOK, HandlersOK, WriterOK
<1>16. ASSUME NEW p \in Packets, Server(p)
       PROVE  TypeInv'
  BY <1>16 DEF Server, TypeOK, HandlersOK, WriterOK
<1>17. CASE UNCHANGED vars
  BY <1>17 DEF vars, TypeOK, HandlersOK, WriterOK
<1>18. QED
  BY <1>1, <1>2, <1>3, <1>4, <1>5, <1>6, <1>7, <1>8, <1>9, <1>10, <1>11,
     <1>12, <1>13, <1>14, <1>15, <1>16, <1>17
  DEF Next, Handle_pkt, Write_results, Terminated

\* tcp_scanner.go, base_scanner.go: the scanner's state keeps its type; Write_chan
\* never exceeds its capacity and no handler and no writer follows a nil pointer.
THEOREM TypeCorrect == Spec => []TypeOK
<1>1. Spec => []TypeInv
  BY InitTypeInv, NextTypeInv, PTL DEF Spec
<1>2. TypeInv => TypeOK
  BY DEF TypeInv
<1>3. QED
  BY <1>1, <1>2, PTL

-----------------------------------------------------------------------------
(***************************************************************************)
(* The lists.  A handler acts on the node it reached long after it read the *)
(* pointer, so the invariant ties that node, wherever it is by now, to the  *)
(* handler's packet.                                                        *)
(***************************************************************************)

\* A node reached by a handler is a node of its packet's connection; about to
\* link, the handler has a packet whose flags may follow that node's.
HoldsNode(g) ==
    /\ hpc[g] \in {"walk", "link"} => /\ hcur[g] \in Ids \cup Linked
                                      /\ Conn(hcur[g]) = hpkt[g].id
    /\ hpc[g] = "link" =>
          \/ hpkt[g].kind = "SA" /\ Flags(hcur[g]) = "S"
          \/ hpkt[g].kind \in Answers /\ Flags(hcur[g]) = "SA"

ListsInv ==
    /\ ListsOrdered
    /\ \A n \in Handlers : next[n] # NULL => n \in Linked
    /\ \A g \in Handlers : HoldsNode(g)

\* A handler keeps its packet, and a linked node stays linked.
LEMMA HandlerStep ==
    ASSUME TypeInv, [Next]_vars, NEW g \in Handlers, hpc[g] # "free"
    PROVE  /\ hpkt'[g] = hpkt[g]
           /\ hpc[g] = "done" => hpc'[g] = "done"
           /\ hpc[g] = "enqueue" => hpc'[g] \in {"enqueue", "done"}
<1> USE DEF TypeInv, TypeOK, handlerVars, Drop, Goto
<1>1. ASSUME NEW f \in Handlers, NEW p \in Packets, Packet_capture(f, p)
      PROVE  /\ hpkt'[g] = hpkt[g]
             /\ hpc'[g] = hpc[g]
  BY <1>1 DEF Packet_capture
<1>2. ASSUME NEW f \in Handlers, Handle_pkt(f)
      PROVE  /\ hpkt'[g] = hpkt[g]
             /\ hpc[g] = "done" => hpc'[g] = "done"
             /\ hpc[g] = "enqueue" => hpc'[g] \in {"enqueue", "done"}
  BY <1>2 DEF Handle_pkt, Lookup, Walk, AtLast, Check_SYN_ACK, Check_Answer,
              Check_FIN_ACK, Link_SYN_ACK, Link_Answer, Enqueue
<1>3. ASSUME UNCHANGED handlerVars
      PROVE  hpkt'[g] = hpkt[g] /\ hpc'[g] = hpc[g]
  BY <1>3
<1>4. \/ \E f \in Handlers, p \in Packets : Packet_capture(f, p)
      \/ \E f \in Handlers : Handle_pkt(f)
      \/ UNCHANGED handlerVars
  BY DEF Next, vars, get_next_id, send_syn, Write_results, Write_take, Write_row,
         Write_delete, Age, Timeout, Stop, Return, Server, Terminated
<1>5. QED
  BY <1>1, <1>2, <1>3, <1>4

\* A linked packet stays linked, with the same packet.
LEMMA LinkedStable ==
    ASSUME TypeInv, [Next]_vars, NEW g \in Linked
    PROVE  g \in Linked' /\ hpkt'[g] = hpkt[g]
BY HandlerStep DEF Linked

\* What may follow a node may follow it after any step.
LEMMA MayFollowStable ==
    ASSUME TypeInv, [Next]_vars, NEW n \in Ids \cup Linked, NEW m,
           MayFollow(n, m)
    PROVE  MayFollow(n, m)'
<1>1. m \in Linked /\ m \in Linked' /\ hpkt'[m] = hpkt[m]
  BY LinkedStable DEF MayFollow
<1>2. m \notin Ids
  BY <1>1, NodesAssumption DEF Linked
<1>3. n \in Ids \/ hpkt'[n] = hpkt[n]
  BY LinkedStable
<1>4. QED
  BY <1>1, <1>2, <1>3 DEF MayFollow, Conn, Flags

\* What a handler holds stays with it while it does not move.
LEMMA HoldsNodeStable ==
    ASSUME TypeInv, [Next]_vars, NEW g \in Handlers, HoldsNode(g),
           hpc'[g] = hpc[g], hcur'[g] = hcur[g]
    PROVE  HoldsNode(g)'
<1>1. CASE hpc[g] \notin {"walk", "link"}
  BY <1>1 DEF HoldsNode
<1>2. CASE hpc[g] \in {"walk", "link"}
  <2>1. hpkt'[g] = hpkt[g]
    BY <1>2, HandlerStep
  <2>2. hcur[g] \in Ids \/ (hcur[g] \in Linked' /\ hpkt'[hcur[g]] = hpkt[hcur[g]])
    BY <1>2, LinkedStable DEF HoldsNode
  <2>3. QED
    BY <1>2, <2>1, <2>2 DEF HoldsNode, Conn, Flags
<1>3. QED
  BY <1>1, <1>2

\* No list is linked in the initial state.
LEMMA InitListsInv == Init => ListsInv
BY DEF Init, ListsInv, ListsOrdered, HoldsNode, Nodes

\* The part of ListsInv about pointers survives every step that links nothing.
LEMMA ListsKept ==
    ASSUME TypeInv, ListsInv, [Next]_vars,
           \A n \in Nodes : next'[n] \in {next[n], NULL}
    PROVE  /\ ListsOrdered'
           /\ \A n \in Handlers : next'[n] # NULL => n \in Linked'
<1>1. \A n \in Handlers : next'[n] # NULL => n \in Linked'
  BY LinkedStable DEF ListsInv, Nodes
<1>2. ASSUME NEW n \in Nodes, next'[n] # NULL
      PROVE  MayFollow(n, next[n])'
  <2>1. next'[n] = next[n] /\ next[n] # NULL
    BY <1>2
  <2>2. n \in Ids \cup Linked /\ MayFollow(n, next[n])
    BY <2>1 DEF ListsInv, ListsOrdered, Nodes
  <2>3. \A m : m = next[n] => MayFollow(n, m)'
    BY <2>2, MayFollowStable
  <2>4. QED
    BY <2>1, <2>3
<1>3. QED
  BY <1>1, <1>2 DEF ListsOrdered

\* ListsInv is inductive relative to TypeInv.
LEMMA NextListsInv == TypeInv /\ ListsInv /\ [Next]_vars => ListsInv'
<1> SUFFICES ASSUME TypeInv, ListsInv, [Next]_vars
             PROVE  ListsInv'
  OBVIOUS
<1>1. ASSUME UNCHANGED <<next, hpc, hcur>>
      PROVE  ListsInv'
  BY <1>1, ListsKept, HoldsNodeStable DEF ListsInv
<1>2. ASSUME NEW r \in Routines, send_syn(r)
      PROVE  ListsInv'
  <2>1. \A n \in Nodes : next'[n] \in {next[n], NULL}
    BY <1>2 DEF send_syn, TypeInv, TypeOK
  <2>2. \A g \in Handlers : HoldsNode(g)'
    BY <1>2, HoldsNodeStable DEF send_syn, handlerVars, ListsInv
  <2>3. QED
    BY <2>1, <2>2, ListsKept DEF ListsInv
<1>3. ASSUME NEW g \in Handlers, NEW p \in Packets, Packet_capture(g, p)
      PROVE  ListsInv'
  <2>1. \A f \in Handlers \ {g} : HoldsNode(f)'
    BY <1>3, HoldsNodeStable
    DEF Packet_capture, Drop, Goto, TypeInv, TypeOK, ListsInv
  <2>2. HoldsNode(g)'
    BY <1>3 DEF Packet_capture, Drop, Goto, TypeInv, TypeOK, HoldsNode
  <2>3. UNCHANGED next
    BY <1>3 DEF Packet_capture
  <2>4. QED
    BY <2>1, <2>2, <2>3, ListsKept DEF ListsInv
<1>4. ASSUME NEW g \in Handlers, Lookup(g)
      PROVE  ListsInv'
  <2>1. \A f \in Handlers \ {g} : HoldsNode(f)'
    BY <1>4, HoldsNodeStable
    DEF Lookup, Drop, Goto, TypeInv, TypeOK, ListsInv
  <2>2. hpkt[g].id \in Ids
    BY <1>4, PacketFields DEF Lookup, TypeInv, HandlersOK
  <2>3. HoldsNode(g)'
    BY <1>4, <2>2
    DEF Lookup, Drop, Goto, TypeInv, TypeOK, HoldsNode, Conn
  <2>4. UNCHANGED next
    BY <1>4 DEF Lookup
  <2>5. QED
    BY <2>1, <2>3, <2>4, ListsKept DEF ListsInv
<1>5. ASSUME NEW g \in Handlers, Walk(g)
      PROVE  ListsInv'
  <2>1. \A f \in Handlers \ {g} : HoldsNode(f)'
    BY <1>5, HoldsNodeStable DEF Walk, TypeInv, TypeOK, ListsInv
  <2>2. hcur[g] \in Nodes /\ Conn(hcur[g]) = hpkt[g].id
    BY <1>5 DEF Walk, TypeInv, HandlersOK, ListsInv, HoldsNode
  <2>3. MayFollow(hcur[g], next[hcur[g]])
    BY <1>5, <2>2 DEF Walk, ListsInv, ListsOrdered
  <2>4. next[hcur[g]] \in Linked /\ Conn(next[hcur[g]]) = hpkt[g].id
    BY <2>2, <2>3 DEF MayFollow
  <2>5. HoldsNode(g)'
    BY <1>5, <2>4
    DEF Walk, TypeInv, TypeOK, HoldsNode, Linked, Conn
  <2>6. UNCHANGED next
    BY <1>5 DEF Walk
  <2>7. QED
    BY <2>1, <2>5, <2>6, ListsKept DEF ListsInv
<1>6. ASSUME NEW g \in Handlers,
             Check_SYN_ACK(g) \/ Check_Answer(g) \/ Check_FIN_ACK(g)
      PROVE  ListsInv'
  <2>1. \A f \in Handlers \ {g} : HoldsNode(f)'
    BY <1>6, HoldsNodeStable
    DEF Check_SYN_ACK, Check_Answer, Check_FIN_ACK, Drop, Goto, TypeInv, TypeOK,
        ListsInv
  <2>2. /\ UNCHANGED <<hpkt, hcur>>
        /\ hpc'[g] \in {"link", "enqueue", "dropped"}
        /\ hpc'[g] = "link" =>
             \/ hpkt[g].kind = "SA" /\ SynAckExpected(g)
             \/ hpkt[g].kind \in Answers /\ AnswerExpected(g)
    BY <1>6 DEF Check_SYN_ACK, Check_Answer, Check_FIN_ACK, Drop, Goto, TypeInv,
                TypeOK
  <2>3. hcur[g] \in Ids \cup Linked /\ Conn(hcur[g]) = hpkt[g].id
    BY <1>6 DEF Check_SYN_ACK, Check_Answer, Check_FIN_ACK, AtLast, ListsInv,
                HoldsNode
  <2>4. hcur[g] \in Ids \cup Linked'
    BY <2>3, LinkedStable
  <2>5. HoldsNode(g)'
    BY <2>2, <2>3, <2>4
    DEF HoldsNode, SynAckExpected, AnswerExpected, Flags, Conn
  <2>6. UNCHANGED next
    BY <1>6 DEF Check_SYN_ACK, Check_Answer, Check_FIN_ACK
  <2>7. QED
    BY <2>1, <2>5, <2>6, ListsKept DEF ListsInv
<1>7. ASSUME NEW g \in Handlers, Link_SYN_ACK(g) \/ Link_Answer(g)
      PROVE  ListsInv'
  <2>1. /\ hpc[g] = "link" /\ hpc'[g] \in {"enqueue", "done"}
        /\ UNCHANGED <<hpkt, hcur>>
        /\ hpkt[g].kind \in {"SA"} \cup Answers
        /\ hcur[g] \in Nodes
        /\ next' = [next EXCEPT ![hcur[g]] = g]
    BY <1>7 DEF Link_SYN_ACK, Link_Answer, Goto, TypeInv, TypeOK, HandlersOK
  <2>2. \A f \in Handlers \ {g} : HoldsNode(f)'
    BY <1>7, HoldsNodeStable
    DEF Link_SYN_ACK, Link_Answer, Goto, TypeInv, TypeOK, ListsInv
  <2>3. HoldsNode(g)'
    BY <2>1 DEF HoldsNode
  <2>4. g \in Linked'
    BY <2>1 DEF Linked
  <2>5. /\ hcur[g] \in Ids \cup Linked /\ Conn(hcur[g]) = hpkt[g].id
        /\ \/ hpkt[g].kind = "SA" /\ Flags(hcur[g]) = "S"
           \/ hpkt[g].kind \in Answers /\ Flags(hcur[g]) = "SA"
    BY <2>1 DEF ListsInv, HoldsNode
  <2>6. MayFollow(hcur[g], g)'
    BY <2>1, <2>4, <2>5, NodesAssumption DEF MayFollow, Conn, Flags
  <2>7. ASSUME NEW n \in Nodes, n # hcur[g], next'[n] # NULL
        PROVE  MayFollow(n, next[n])' /\ n \in Ids \cup Linked'
    <3>1. next'[n] = next[n] /\ next[n] # NULL
      BY <2>1, <2>7 DEF TypeInv, TypeOK
    <3>2. n \in Ids \cup Linked /\ MayFollow(n, next[n])
      BY <3>1 DEF ListsInv, ListsOrdered, Nodes
    <3>3. \A m : m = next[n] => MayFollow(n, m)'
      BY <3>2, MayFollowStable
    <3>4. QED
      BY <3>1, <3>2, <3>3, LinkedStable
  <2>8. next'[hcur[g]] = g /\ hcur'[g] = hcur[g]
    BY <2>1 DEF TypeInv, TypeOK
  <2>9. ListsOrdered'
    <3>1. ASSUME NEW n \in Nodes, next'[n] # NULL
          PROVE  MayFollow(n, next[n])'
      <4>1. CASE n = hcur[g]
        <5>1. \A m : m = hcur[g] => MayFollow(m, g)'
          BY <2>6, <2>8 DEF MayFollow, Conn, Flags
        <5>2. QED
          BY <4>1, <5>1, <2>8 DEF MayFollow, Conn, Flags
      <4>2. CASE n # hcur[g]
        BY <3>1, <4>2, <2>7
      <4>3. QED
        BY <4>1, <4>2
    <3>2. QED
      BY <3>1 DEF ListsOrdered
  <2>10. \A n \in Handlers : next'[n] # NULL => n \in Linked'
    BY <2>5, <2>7, LinkedStable, NodesAssumption DEF Nodes
  <2>11. QED
    BY <2>2, <2>3, <2>9, <2>10 DEF ListsInv
<1>8. ASSUME NEW g \in Handlers, Enqueue(g)
      PROVE  ListsInv'
  <2>1. \A f \in Handlers \ {g} : HoldsNode(f)'
    BY <1>8, HoldsNodeStable DEF Enqueue, Goto, TypeInv, TypeOK, ListsInv
  <2>2. HoldsNode(g)' /\ UNCHANGED next
    BY <1>8 DEF Enqueue, Goto, TypeInv, TypeOK, HoldsNode
  <2>3. QED
    BY <2>1, <2>2, ListsKept DEF ListsInv
<1>9. CASE UNCHANGED vars
  BY <1>9, <1>1 DEF vars, handlerVars
<1>10. QED
  BY <1>1, <1>2, <1>3, <1>4, <1>5, <1>6, <1>7, <1>8, <1>9
  DEF Next, Handle_pkt, Write_results, get_next_id, Write_take, Write_row,
      Write_delete, Age, Timeout, Stop, Return, Server, Terminated, handlerVars

\* tcp_scanner.go:207-227, 292-329: however the unlocked handlers interleave, the
\* list of a connection holds its own segments only, in the order SYN, SYN-ACK,
\* DNS answer, at most one of each.
THEOREM ListsStayOrdered == Spec => []ListsOrdered
<1>1. Init => TypeInv /\ ListsInv
  BY InitTypeInv, InitListsInv
<1>2. TypeInv /\ ListsInv /\ [Next]_vars => (TypeInv /\ ListsInv)'
  BY NextTypeInv, NextListsInv
<1>3. ListsInv => ListsOrdered
  BY DEF ListsInv
<1>4. QED
  BY <1>1, <1>2, <1>3, PTL DEF Spec

-----------------------------------------------------------------------------
(***************************************************************************)
(* The result file.  The writer reads the pointer to the next node after    *)
(* each row, while handlers may be relinking the list: what it holds is a   *)
(* root, or may follow the row it wrote last.                               *)
(***************************************************************************)
RowsInv ==
    /\ RecordsOrdered
    /\ wpc = "rows" =>
          wcur \in Ids \/ (Len(file) > 0 /\ MayFollow(file[Len(file)], wcur))

\* Every row was made from a root or a linked node.
LEMMA RowsLinked ==
    ASSUME TypeInv, RecordsOrdered, NEW k \in 1 .. Len(file)
    PROVE  file[k] \in Ids \cup Linked
BY DEF RecordsOrdered, MayFollow

\* Steps that write no row keep RecordsOrdered.
LEMMA RowsKept ==
    ASSUME TypeInv, RecordsOrdered, [Next]_vars, file' = file
    PROVE  RecordsOrdered'
<1>1. ASSUME NEW k \in 1 .. Len(file), file[k] \notin Ids
      PROVE  k > 1 /\ MayFollow(file[k - 1], file[k])'
  <2>1. k > 1 /\ MayFollow(file[k - 1], file[k])
    BY <1>1 DEF RecordsOrdered
  <2>2. k - 1 \in 1 .. Len(file)
    BY <2>1, <1>1 DEF TypeInv, TypeOK
  <2>3. \A n, m : n = file[k - 1] /\ m = file[k] => MayFollow(n, m)'
    BY <2>1, <2>2, RowsLinked, MayFollowStable
  <2>4. QED
    BY <2>1, <2>3
<1>2. QED
  BY <1>1 DEF RecordsOrdered

\* RowsInv is inductive relative to the invariants above.
LEMMA NextRowsInv ==
    TypeInv /\ ListsInv /\ RowsInv /\ [Next]_vars => RowsInv'
<1> SUFFICES ASSUME TypeInv, ListsInv, RowsInv, [Next]_vars
             PROVE  RowsInv'
  OBVIOUS
<1>1. ASSUME UNCHANGED <<wpc, wcur, file>>
      PROVE  RowsInv'
  <2>1. RecordsOrdered'
    BY <1>1, RowsKept DEF RowsInv
  <2>2. ASSUME wpc = "rows", wcur \notin Ids
        PROVE  Len(file) > 0 /\ MayFollow(file[Len(file)], wcur)'
    <3>1. Len(file) > 0 /\ MayFollow(file[Len(file)], wcur)
      BY <2>2 DEF RowsInv
    <3>2. file[Len(file)] \in Ids \cup Linked
      BY <3>1, RowsLinked DEF RowsInv, TypeInv, TypeOK
    <3>3. \A n, m : n = file[Len(file)] /\ m = wcur => MayFollow(n, m)'
      BY <3>1, <3>2, MayFollowStable
    <3>4. QED
      BY <1>1, <3>1, <3>3
  <2>3. QED
    BY <1>1, <2>1, <2>2 DEF RowsInv
<1>2. CASE Write_take
  <2>1. RecordsOrdered'
    BY <1>2, RowsKept DEF Write_take, RowsInv
  <2>2. wcur' \in Ids
    BY <1>2 DEF Write_take, TypeInv, TypeOK
  <2>3. QED
    BY <2>1, <2>2 DEF RowsInv
<1>3. CASE Write_row
  <2>1. /\ wpc = "rows" /\ wcur \in Nodes
        /\ file' = Append(file, wcur)
        /\ wcur' = next[wcur]
        /\ UNCHANGED <<next, hpc, hpkt>>
        /\ wpc' = "rows" => next[wcur] # NULL
    BY <1>3 DEF Write_row, TypeInv, WriterOK, handlerVars
  <2>2. /\ Len(file') = Len(file) + 1
        /\ \A k \in 1 .. Len(file) : file'[k] = file[k]
        /\ file'[Len(file) + 1] = wcur
        /\ Len(file) \in Nat
    BY <2>1 DEF TypeInv, TypeOK
  <2>3. \A n, m : MayFollow(n, m) => MayFollow(n, m)'
    BY <2>1 DEF MayFollow, Linked, Conn, Flags
  <2>4. ASSUME NEW k \in 1 .. Len(file'), file'[k] \notin Ids
        PROVE  k > 1 /\ MayFollow(file[k - 1], file[k])'
    <3>1. CASE k = Len(file) + 1
      <4>1. Len(file) > 0 /\ MayFollow(file[Len(file)], wcur)
        BY <2>1, <2>2, <2>4, <3>1 DEF RowsInv
      <4>2. QED
        BY <2>2, <2>3, <3>1, <4>1
    <3>2. CASE k \in 1 .. Len(file)
      <4>1. k > 1 /\ MayFollow(file[k - 1], file[k])
        BY <2>2, <2>4, <3>2 DEF RowsInv, RecordsOrdered
      <4>2. QED
        BY <2>2, <2>3, <3>2, <4>1
    <3>3. QED
      BY <2>2, <3>1, <3>2
  <2>5. RecordsOrdered'
    BY <2>4 DEF RecordsOrdered
  <2>6. ASSUME wpc' = "rows", NEW n, NEW m, n = wcur, m = next[wcur]
        PROVE  MayFollow(n, m)'
    BY <2>1, <2>3, <2>6 DEF ListsInv, ListsOrdered
  <2>7. wpc' = "rows" => Len(file') > 0 /\ MayFollow(file[Len(file)], wcur)'
    BY <2>1, <2>2, <2>6
  <2>8. QED
    BY <2>5, <2>7 DEF RowsInv
<1>4. CASE Write_delete
  <2>1. RecordsOrdered'
    BY <1>4, RowsKept DEF Write_delete, RowsInv
  <2>2. QED
    BY <1>4, <2>1 DEF Write_delete, RowsInv
<1>5. QED
  BY <1>1, <1>2, <1>3, <1>4
  DEF Next, vars, Handle_pkt, Write_results, get_next_id, send_syn,
      Packet_capture, Lookup, Walk, Check_SYN_ACK, Check_Answer, Check_FIN_ACK,
      Link_SYN_ACK, Link_Answer, Enqueue, Age, Timeout, Stop, Return, Server,
      Terminated, writerVars

\* tcp_scanner.go:166-169: the result file is a sequence of records, each the SYN
\* row of a connection and then at most its SYN-ACK row and its answer row, also
\* when a handler relinks the list the writer is walking.
THEOREM FileWellFormed == Spec => []RecordsOrdered
<1>1. Init => TypeInv /\ ListsInv /\ RowsInv
  BY InitTypeInv, InitListsInv DEF Init, RowsInv, RecordsOrdered
<1>2. TypeInv /\ ListsInv /\ RowsInv /\ [Next]_vars
        => (TypeInv /\ ListsInv /\ RowsInv)'
  BY NextTypeInv, NextListsInv, NextRowsInv
<1>3. RowsInv => RecordsOrdered
  BY DEF RowsInv
<1>4. QED
  BY <1>1, <1>2, <1>3, PTL DEF Spec

-----------------------------------------------------------------------------
(***************************************************************************)
(* The keys.  An id nobody has sent a SYN for yet is untouched: not in the  *)
(* map, without a list, and unknown to every handler.                       *)
(***************************************************************************)
Unsent(i) == i >= nextId \/ \E r \in Routines : rid[r] = i

KeysInv ==
    /\ \A i \in Ids : Unsent(i) =>
          /\ i \notin Items /\ next[i] = NULL
          /\ \A g \in Handlers : hpc[g] \in {"walk", "link"} => hcur[g] # i
    /\ \A r \in Routines : rid[r] # NULL => rid[r] < nextId
    /\ \A r, q \in Routines : r # q /\ rid[r] # NULL => rid[r] # rid[q]

\* KeysInv is inductive relative to TypeInv.
LEMMA NextKeysInv == TypeInv /\ KeysInv /\ [Next]_vars => KeysInv'
<1> SUFFICES ASSUME TypeInv, KeysInv, [Next]_vars
             PROVE  KeysInv'
  OBVIOUS
<1> USE NodesAssumption DEF TypeInv, TypeOK
<1>1. ASSUME UNCHANGED <<nextId, rid>>, Items' \subseteq Items,
             \A i \in Ids : next[i] = NULL /\ Unsent(i) => next'[i] = NULL,
             \A g \in Handlers, i \in Ids :
                hpc'[g] \in {"walk", "link"} /\ hcur'[g] = i /\ Unsent(i)
                => i \in Items \/ (hpc[g] \in {"walk", "link"} /\ hcur[g] = i)
      PROVE  KeysInv'
  <2>1. \A i : Unsent(i)' <=> Unsent(i)
    BY <1>1 DEF Unsent
  <2>2. ASSUME NEW i \in Ids, Unsent(i)
        PROVE  /\ i \notin Items' /\ next'[i] = NULL
               /\ \A g \in Handlers : hpc'[g] \in {"walk", "link"} => hcur'[g] # i
    BY <1>1, <2>2 DEF KeysInv
  <2>3. /\ \A r \in Routines : rid'[r] # NULL => rid'[r] < nextId'
        /\ \A r, q \in Routines : r # q /\ rid'[r] # NULL => rid'[r] # rid'[q]
    BY <1>1 DEF KeysInv
  <2>4. QED
    BY <2>1, <2>2, <2>3 DEF KeysInv
<1>2. ASSUME NEW r \in Routines, get_next_id(r)
      PROVE  KeysInv'
  <2>1. /\ nextId \in Ids /\ nextId' = nextId + 1 /\ rid[r] = NULL
        /\ rid' = [rid EXCEPT ![r] = nextId]
        /\ UNCHANGED <<Items, next, hpc, hcur>>
    BY <1>2, ConnsAssumption DEF get_next_id, Ids, handlerVars
  <2>2. \A i \in Ids : Unsent(i)' => Unsent(i)
    BY <2>1 DEF Unsent, Ids
  <2>3. \A q \in Routines : rid'[q] # NULL => rid'[q] < nextId'
    BY <2>1, ConnsAssumption DEF KeysInv, Ids
  <2>4. \A q \in Routines : rid[q] # nextId
    BY <2>1 DEF KeysInv, Nodes, Ids
  <2>5. \A q, s \in Routines : q # s /\ rid'[q] # NULL => rid'[q] # rid'[s]
    BY <2>1, <2>4 DEF KeysInv
  <2>6. QED
    BY <2>1, <2>2, <2>3, <2>5 DEF KeysInv
<1>3. ASSUME NEW r \in Routines, send_syn(r)
      PROVE  KeysInv'
  <2>1. /\ rid[r] \in Ids /\ rid[r] # NULL
        /\ rid' = [rid EXCEPT ![r] = NULL]
        /\ Items' = Items \cup {rid[r]}
        /\ next' = [next EXCEPT ![rid[r]] = NULL]
        /\ UNCHANGED <<nextId, hpc, hcur>>
    BY <1>3 DEF send_syn, handlerVars
  <2>2. \A i \in Ids : Unsent(i)' => Unsent(i) /\ i # rid[r]
    BY <2>1 DEF Unsent, KeysInv, Ids, Nodes
  <2>3. \A i \in Ids : Unsent(i)' =>
          /\ i \notin Items' /\ next'[i] = NULL
          /\ \A g \in Handlers : hpc'[g] \in {"walk", "link"} => hcur'[g] # i
    BY <2>1, <2>2 DEF KeysInv, Nodes
  <2>4. QED
    BY <2>1, <2>3 DEF KeysInv
<1>4. ASSUME NEW g \in Handlers, Lookup(g)
      PROVE  KeysInv'
  <2>1. hpkt[g].id \in Ids
    BY <1>4, PacketFields DEF Lookup, HandlersOK
  <2>2. QED
    BY <1>1, <1>4, <2>1 DEF Lookup, Drop, Goto, connVars
<1>5. ASSUME NEW g \in Handlers, Walk(g)
      PROVE  KeysInv'
  <2>1. next[hcur[g]] \in Handlers
    BY <1>5 DEF Walk, HandlersOK
  <2>2. QED
    BY <1>1, <1>5, <2>1 DEF Walk, connVars
<1>6. ASSUME NEW g \in Handlers,
             \/ \E p \in Packets : Packet_capture(g, p)
             \/ Check_SYN_ACK(g) \/ Check_Answer(g) \/ Check_FIN_ACK(g)
             \/ Enqueue(g)
      PROVE  KeysInv'
  BY <1>1, <1>6
  DEF Packet_capture, Check_SYN_ACK, Check_Answer, Check_FIN_ACK, AtLast, Enqueue,
      Drop, Goto, connVars
<1>7. ASSUME NEW g \in Handlers, Link_SYN_ACK(g) \/ Link_Answer(g)
      PROVE  KeysInv'
  <2>1. /\ hpc[g] = "link" /\ hpc' \in [Handlers -> HandlerStates]
        /\ hpc' = [hpc EXCEPT ![g] = hpc'[g]] /\ hpc'[g] \in {"enqueue", "done"}
        /\ next' = [next EXCEPT ![hcur[g]] = g]
        /\ UNCHANGED <<nextId, rid, Items, hcur>>
    BY <1>7 DEF Link_SYN_ACK, Link_Answer, Goto, connVars, HandlerStates
  <2>2. \A i \in Ids : Unsent(i) => hcur[g] # i
    BY <2>1 DEF KeysInv
  <2>3. \A i \in Ids : next[i] = NULL /\ Unsent(i) => next'[i] = NULL
    BY <2>1, <2>2 DEF Nodes
  <2>4. QED
    BY <1>1, <2>1, <2>3
<1>8. ASSUME \/ Write_results \/ Timeout \/ Stop \/ UNCHANGED vars
             \/ \E i \in Ids : Age(i)
             \/ \E t \in Waited : Return(t)
             \/ \E p \in Packets : Server(p)
      PROVE  KeysInv'
  BY <1>1, <1>8
  DEF Write_results, Write_take, Write_row, Write_delete, Timeout, Stop, Age,
      Return, Server, vars, connVars, handlerVars
<1>9. QED
  BY <1>2, <1>3, <1>4, <1>5, <1>6, <1>7, <1>8 DEF Next, Handle_pkt, Terminated

\* tcp_scanner.go:345-365, 402-408: with any number of init_tcp goroutines no SYN
\* is sent under a key that is in the map or has ever been used.
THEOREM KeysStayFresh == Spec => []FreshKey
<1>1. Init => TypeInv /\ KeysInv
  BY InitTypeInv, NodesAssumption DEF Init, KeysInv, Nodes
<1>2. TypeInv /\ KeysInv /\ [Next]_vars => (TypeInv /\ KeysInv)'
  BY NextTypeInv, NextKeysInv
<1>3. TypeInv /\ KeysInv => FreshKey
  BY DEF TypeInv, TypeOK, KeysInv, Unsent, FreshKey
<1>4. QED
  BY <1>1, <1>2, <1>3, PTL DEF Spec
-----------------------------------------------------------------------------
(***************************************************************************)
(* The records.  What the channel, the writer and the file hold is counted  *)
(* against the handlers that queued it.                                     *)
(***************************************************************************)
Busy == {g \in Handlers : hpc[g] # "free"}
Completing == {"FA", "FPA"}

\* Finitely many packets have arrived; only a FIN-ACK or a FIN-PSH-ACK queues its
\* connection, and a FIN-ACK only behind a PSH-ACK.
QueueingInv ==
    /\ IsFiniteSet(Busy)
    /\ \A g \in Handlers :
          /\ hpc[g] = "enqueue" => hpkt[g].kind \in Completing
          /\ hpc[g] \in {"enqueue", "done"} /\ hpkt[g].kind = "FA"
                => LinkedFor(hpkt[g].id, {"PA"}) # {}

\* A node linked for a connection stays linked for it.
LEMMA LinkedForGrows ==
    ASSUME TypeInv, [Next]_vars, NEW i, NEW K
    PROVE  LinkedFor(i, K) \subseteq LinkedFor(i, K)'
BY LinkedStable DEF LinkedFor

\* QueueingInv is inductive relative to the invariants of the lists.
LEMMA NextQueueingInv ==
    TypeInv /\ ListsInv /\ QueueingInv /\ [Next]_vars => QueueingInv'
<1> SUFFICES ASSUME TypeInv, ListsInv, QueueingInv, [Next]_vars
             PROVE  QueueingInv'
  OBVIOUS
<1>0. /\ hpc \in [Handlers -> HandlerStates]
      /\ hpkt \in [Handlers -> Packets \cup {NULL}]
  BY DEF TypeInv, TypeOK
<1>k. \A i, g : g \in LinkedFor(i, {"PA"}) => g \in LinkedFor(i, {"PA"})'
  BY LinkedForGrows
<1>1. ASSUME NEW g \in Handlers, NEW p \in Packets, Packet_capture(g, p)
      PROVE  QueueingInv'
  <2>1. /\ \E pc \in {"dropped", "lookup"} : hpc' = [hpc EXCEPT ![g] = pc]
        /\ hpkt' = [hpkt EXCEPT ![g] = p]
    BY <1>1 DEF Packet_capture, Drop, Goto
  <2>2. Busy' = Busy \cup {g}
    BY <1>0, <2>1 DEF Busy
  <2>3. IsFiniteSet(Busy')
    BY <2>2, FS_AddElement DEF QueueingInv
  <2> QED
    BY <1>0, <1>k, <2>1, <2>3 DEF QueueingInv
<1>2. ASSUME UNCHANGED hpkt, Busy' = Busy, NEW g \in Handlers,
             \A f \in Handlers : f # g => hpc'[f] = hpc[f],
             /\ hpc'[g] = "enqueue" => hpkt[g].kind \in Completing
             /\ hpc'[g] \in {"enqueue", "done"} /\ hpkt[g].kind = "FA"
                   => LinkedFor(hpkt[g].id, {"PA"}) # {}
      PROVE  QueueingInv'
  <2>1. \A f \in Handlers :
          /\ hpc'[f] = "enqueue" => hpkt[f].kind \in Completing
          /\ hpc'[f] \in {"enqueue", "done"} /\ hpkt[f].kind = "FA"
                => LinkedFor(hpkt[f].id, {"PA"}) # {}
    BY <1>2 DEF QueueingInv
  <2> QED
    BY <1>2, <1>k, <2>1 DEF QueueingInv
<1>3. ASSUME NEW g \in Handlers, NEW pc \in HandlerStates \ {"free"},
             hpc[g] # "free", hpc' = [hpc EXCEPT ![g] = pc], UNCHANGED hpkt,
             /\ pc = "enqueue" => hpkt[g].kind \in Completing
             /\ pc \in {"enqueue", "done"} /\ hpkt[g].kind = "FA"
                   => LinkedFor(hpkt[g].id, {"PA"}) # {}
      PROVE  QueueingInv'
  <2>1. Busy' = Busy
    BY <1>0, <1>3 DEF Busy
  <2>2. hpc'[g] = pc /\ \A f \in Handlers : f # g => hpc'[f] = hpc[f]
    BY <1>0, <1>3
  <2> QED
    BY <1>2, <1>3, <2>1, <2>2
<1>4. ASSUME NEW g \in Handlers,
             Lookup(g) \/ Check_SYN_ACK(g) \/ Check_Answer(g)
      PROVE  QueueingInv'
  <2>1. /\ hpc[g] # "free" /\ UNCHANGED hpkt
        /\ \E pc \in {"walk", "link", "dropped"} : hpc' = [hpc EXCEPT ![g] = pc]
    BY <1>4 DEF Lookup, Check_SYN_ACK, Check_Answer, AtLast, Drop, Goto
  <2> QED
    BY <1>3, <2>1 DEF HandlerStates
<1>5. ASSUME NEW g \in Handlers, Check_FIN_ACK(g)
      PROVE  QueueingInv'
  <2>1. /\ hpc[g] = "walk" /\ UNCHANGED hpkt /\ hpkt[g].kind = "FA"
        /\ \/ hpc' = [hpc EXCEPT ![g] = "dropped"]
           \/ hpc' = [hpc EXCEPT ![g] = "enqueue"] /\ Flags(hcur[g]) = "PA"
    BY <1>5 DEF Check_FIN_ACK, AtLast, FinExpected, Drop, Goto
  <2>2. Flags(hcur[g]) = "PA" => hcur[g] \in LinkedFor(hpkt[g].id, {"PA"})
    BY <2>1 DEF ListsInv, HoldsNode, Flags, Conn, LinkedFor
  <2> QED
    BY <1>3, <2>1, <2>2 DEF HandlerStates, Completing
<1>6. ASSUME NEW g \in Handlers, Link_SYN_ACK(g) \/ Link_Answer(g)
      PROVE  QueueingInv'
  <2>1. /\ hpc[g] = "link" /\ UNCHANGED hpkt /\ hpkt[g].kind # "FA"
        /\ \/ hpc' = [hpc EXCEPT ![g] = "done"]
           \/ hpc' = [hpc EXCEPT ![g] = "enqueue"] /\ hpkt[g].kind = "FPA"
    BY <1>6 DEF Link_SYN_ACK, Link_Answer, Goto, Answers
  <2> QED
    BY <1>3, <2>1 DEF HandlerStates, Completing
<1>7. ASSUME NEW g \in Handlers, Enqueue(g)
      PROVE  QueueingInv'
  <2>1. hpc[g] = "enqueue" /\ UNCHANGED hpkt /\ hpc' = [hpc EXCEPT ![g] = "done"]
    BY <1>7 DEF Enqueue, Goto
  <2>2. hpkt[g].kind = "FA" => LinkedFor(hpkt[g].id, {"PA"}) # {}
    BY <2>1 DEF QueueingInv
  <2> QED
    BY <1>3, <2>1, <2>2 DEF HandlerStates
<1>8. ASSUME UNCHANGED <<hpc, hpkt>>
      PROVE  QueueingInv'
  BY <1>8, <1>k DEF QueueingInv, Busy
<1>9. CASE \/ \E g \in Handlers : Walk(g)
           \/ \E r \in Routines : get_next_id(r) \/ send_syn(r)
           \/ Write_results \/ Timeout \/ Stop \/ UNCHANGED vars
           \/ \E i \in Ids : Age(i)
           \/ \E t \in Waited : Return(t)
           \/ \E p \in Packets : Server(p)
  BY <1>8, <1>9
  DEF Walk, get_next_id, send_syn, Write_results, Write_take, Write_row,
      Write_delete, Timeout, Stop, Age, Return, Server, vars, handlerVars
<1> QED
  BY <1>1, <1>4, <1>5, <1>6, <1>7, <1>9 DEF Next, Handle_pkt, Terminated

\* A set of handlers that got a packet is finite.
LEMMA FewHandlers ==
    ASSUME QueueingInv, NEW S, S \subseteq Busy
    PROVE  IsFiniteSet(S) /\ Cardinality(S) \in Nat
BY FS_Subset, FS_CardinalityType DEF QueueingInv

\* A finite set with at most one element, said with and without counting.
LEMMA AtMostOne ==
    ASSUME NEW S, IsFiniteSet(S)
    PROVE  Cardinality(S) <= 1 <=> \A x, y \in S : x = y
<1>1. Cardinality(S) \in Nat
  BY FS_CardinalityType
<1>2. CASE S = {}
  BY <1>2, FS_EmptySet
<1>3. CASE S # {}
  <2>1. Cardinality(S) # 0
    BY <1>3, FS_EmptySet
  <2>2. Cardinality(S) <= 1 <=> Cardinality(S) = 1
    BY <1>1, <2>1
  <2>3. Cardinality(S) = 1 <=> \E x : S = {x}
    BY FS_Singleton
  <2>4. (\A x, y \in S : x = y) <=> \E x : S = {x}
    BY <1>3
  <2> QED
    BY <2>2, <2>3, <2>4
<1> QED
  BY <1>2, <1>3

\* The invariants of the types, the lists and the handlers, as one.
CoreInv == TypeInv /\ ListsInv /\ QueueingInv
LEMMA CoreInvariance == Spec => []CoreInv
<1>1. Init => CoreInv
  <2>1. Init => QueueingInv
    BY FS_EmptySet DEF Init, QueueingInv, Busy
  <2> QED
    BY <2>1, InitTypeInv, InitListsInv DEF CoreInv
<1>2. CoreInv /\ [Next]_vars => CoreInv'
  BY NextTypeInv, NextListsInv, NextQueueingInv DEF CoreInv
<1> QED
  BY <1>1, <1>2, PTL DEF Spec

\* tcp_scanner.go:245-249, 332-336.  A connection that answered with one
\* FIN-PSH-ACK alone is queued once: none of its FIN-ACKs queues it again.
THEOREM QueuedOncePerFinPshAck == Spec => []FinPshAckRecordedOnce
<1>1. CoreInv => FinPshAckRecordedOnce
  <2> SUFFICES ASSUME CoreInv, NEW i \in Ids, LinkedFor(i, {"PA"}) = {},
                      Cardinality(LinkedFor(i, {"FPA"})) <= 1
               PROVE  Cardinality({g \in Handlers : /\ hpc[g] \in {"enqueue", "done"}
                                                    /\ hpkt[g].id = i
                                                    /\ hpkt[g].kind \in {"FA", "FPA"}}) <= 1
    BY DEF FinPshAckRecordedOnce
  <2> DEFINE Q == {g \in Handlers : /\ hpc[g] \in {"enqueue", "done"}
                                    /\ hpkt[g].id = i
                                    /\ hpkt[g].kind \in {"FA", "FPA"}}
  <2>1. \A g \in Q : hpkt[g].kind # "FA"
    BY DEF CoreInv, QueueingInv
  <2>2. Q \subseteq LinkedFor(i, {"FPA"})
    BY <2>1 DEF LinkedFor, Linked, Answers
  <2>3. LinkedFor(i, {"FPA"}) \subseteq Busy /\ Q \subseteq Busy
    BY DEF LinkedFor, Linked, Busy
  <2>4. IsFiniteSet(LinkedFor(i, {"FPA"})) /\ IsFiniteSet(Q)
    BY <2>3, FewHandlers DEF CoreInv
  <2>5. \A x, y \in LinkedFor(i, {"FPA"}) : x = y
    BY <2>4, AtMostOne
  <2>6. \A x, y \in Q : x = y
    BY <2>2, <2>5
  <2> HIDE DEF Q
  <2>7. Cardinality(Q) <= 1
    BY <2>4, <2>6, AtMostOne
  <2> QED
    BY <2>7 DEF Q
<1> QED
  BY <1>1, CoreInvariance, PTL
-----------------------------------------------------------------------------
(***************************************************************************)
(* Nothing is lost or repeated between Handle_pkt and the file.             *)
(***************************************************************************)

\* Append counts one more of the element appended.
LEMMA CountAppend ==
    ASSUME NEW S, NEW s \in Seq(S), NEW e \in S, NEW i
    PROVE  /\ Count(i, s) \in Nat
           /\ Count(i, Append(s, e)) = Count(i, s) + (IF e = i THEN 1 ELSE 0)
<1> DEFINE P(t) == {k \in 1 .. Len(t) : t[k] = i}
           n == Len(s) + 1
<1>1. /\ Len(s) \in Nat /\ Len(Append(s, e)) = n /\ Append(s, e)[n] = e
      /\ \A k \in 1 .. Len(s) : Append(s, e)[k] = s[k]
      /\ 1 .. n = (1 .. Len(s)) \cup {n} /\ n \notin 1 .. Len(s)
  OBVIOUS
<1>2. P(Append(s, e)) = IF e = i THEN P(s) \cup {n} ELSE P(s)
  BY <1>1
<1>3. IsFiniteSet(1 .. Len(s)) /\ P(s) \subseteq 1 .. Len(s)
  BY <1>1, FS_Interval
<1>4. IsFiniteSet(P(s)) /\ n \notin P(s)
  BY <1>1, <1>3, FS_Subset
<1>5. Cardinality(P(s)) \in Nat /\ Cardinality(P(s) \cup {n}) = Cardinality(P(s)) + 1
  BY <1>4, FS_AddElement, FS_CardinalityType
<1>6. Count(i, s) = Cardinality(P(s)) /\ Count(i, Append(s, e)) = Cardinality(P(Append(s, e)))
  BY DEF Count
<1> HIDE DEF P, n
<1> QED
  BY <1>2, <1>5, <1>6

\* Tail counts one less of the element taken off.
LEMMA CountTail ==
    ASSUME NEW S, NEW s \in Seq(S), s # <<>>, NEW i
    PROVE  Count(i, s) = Count(i, Tail(s)) + (IF Head(s) = i THEN 1 ELSE 0)
<1> DEFINE P == {k \in 1 .. Len(s) : s[k] = i}
           T == {k \in 1 .. Len(Tail(s)) : Tail(s)[k] = i}
           R == {k \in 2 .. Len(s) : s[k] = i}
           shift == [k \in T |-> k + 1]
<1>1. /\ Len(s) \in Nat /\ Len(s) > 0 /\ Len(Tail(s)) = Len(s) - 1 /\ Head(s) = s[1]
      /\ \A k \in 1 .. Len(s) - 1 : Tail(s)[k] = s[k + 1]
  OBVIOUS
<1>2. P = IF Head(s) = i THEN R \cup {1} ELSE R
  BY <1>1
<1>3. /\ IsFiniteSet(R) /\ 1 \notin R /\ IsFiniteSet(T)
  <2>1. IsFiniteSet(2 .. Len(s)) /\ IsFiniteSet(1 .. Len(Tail(s)))
    BY <1>1, FS_Interval
  <2> QED
    BY <1>1, <2>1, FS_Subset
<1>4. Cardinality(R) = Cardinality(T)
  <2>1. shift \in [T -> R]
    BY <1>1
  <2>2. \A a, b \in T : shift[a] = shift[b] => a = b
    BY <1>1
  <2>3. \A r \in R : \E k \in T : shift[k] = r
    <3> SUFFICES ASSUME NEW r \in R PROVE \E k \in T : shift[k] = r
      OBVIOUS
    <3>1. r - 1 \in T
      BY <1>1
    <3>2. shift[r - 1] = r
      BY <3>1, <1>1
    <3> QED
      BY <3>1, <3>2
  <2> HIDE DEF shift, T, R
  <2>4a. shift \in Bijection(T, R)
    BY <2>1, <2>2, <2>3, Fun_IsBij
  <2>4. ExistsBijection(T, R)
    BY <2>4a, Fun_ExistsBij
  <2> QED
    BY <1>3, <2>4, FS_Bijection
<1>5. Cardinality(R) \in Nat /\ Cardinality(R \cup {1}) = Cardinality(R) + 1
  BY <1>3, FS_AddElement, FS_CardinalityType
<1>6. Count(i, s) = Cardinality(P) /\ Count(i, Tail(s)) = Cardinality(T)
  BY DEF Count
<1> HIDE DEF P, T, R, shift
<1> QED
  BY <1>2, <1>4, <1>5, <1>6

Queued(i) == {g \in Handlers : /\ hpc[g] = "done"
                               /\ hpkt[g].id = i
                               /\ hpkt[g].kind \in Completing}
InHand(i) == IF wpc = "rows" /\ wcur = i THEN 1 ELSE 0
Carried(i) == Count(i, file) + Count(i, Write_chan) + InHand(i)

\* A step of a handler that is not Enqueue completes no connection.
LEMMA QueuedKept ==
    ASSUME TypeInv, ListsInv, QueueingInv, [Next]_vars,
           \A g \in Handlers : ~Enqueue(g), NEW i \in Ids
    PROVE  Queued(i)' = Queued(i)
<1>0. /\ hpc \in [Handlers -> HandlerStates]
      /\ hpkt \in [Handlers -> Packets \cup {NULL}]
  BY DEF TypeInv, TypeOK
<1>1. ASSUME NEW g \in Handlers, NEW pc \in HandlerStates,
             hpc[g] # "done", hpc' = [hpc EXCEPT ![g] = pc],
             \/ UNCHANGED hpkt
             \/ pc # "done" /\ \A f \in Handlers : f # g => hpkt'[f] = hpkt[f],
             pc = "done" => hpkt[g].kind \notin Completing
      PROVE  Queued(i)' = Queued(i)
  <2>1. hpc'[g] = pc /\ \A f \in Handlers : f # g => hpc'[f] = hpc[f]
    BY <1>0, <1>1
  <2>2. \A f \in Handlers : f # g => (f \in Queued(i)' <=> f \in Queued(i))
    BY <1>1, <2>1 DEF Queued
  <2>3. g \notin Queued(i) /\ g \notin Queued(i)'
    BY <1>1, <2>1 DEF Queued
  <2>4. \A f : f \in Queued(i)' <=> f \in Queued(i)
    BY <2>2, <2>3 DEF Queued
  <2> QED
    BY <2>4
<1>2. ASSUME NEW g \in Handlers, NEW p \in Packets, Packet_capture(g, p)
      PROVE  Queued(i)' = Queued(i)
  <2>1. /\ \E pc \in {"dropped", "lookup"} : hpc' = [hpc EXCEPT ![g] = pc]
        /\ hpkt' = [hpkt EXCEPT ![g] = p] /\ hpc[g] = "free"
    BY <1>2 DEF Packet_capture, Drop, Goto
  <2> QED
    BY <1>0, <1>1, <2>1 DEF HandlerStates
<1>3. ASSUME NEW g \in Handlers,
             \/ Lookup(g) \/ Check_SYN_ACK(g) \/ Check_Answer(g) \/ Check_FIN_ACK(g)
      PROVE  Queued(i)' = Queued(i)
  <2>1. /\ hpc[g] \in {"lookup", "walk"} /\ UNCHANGED hpkt
        /\ \E pc \in {"dropped", "walk", "link", "enqueue"} : hpc' = [hpc EXCEPT ![g] = pc]
    BY <1>3 DEF Lookup, Check_SYN_ACK, Check_Answer, Check_FIN_ACK, AtLast, Drop, Goto
  <2> QED
    BY <1>1, <2>1 DEF HandlerStates
<1>4. ASSUME NEW g \in Handlers, Link_SYN_ACK(g) \/ Link_Answer(g)
      PROVE  Queued(i)' = Queued(i)
  <2>1. /\ hpc[g] = "link" /\ UNCHANGED hpkt
        /\ \/ hpc' = [hpc EXCEPT ![g] = "enqueue"]
           \/ hpc' = [hpc EXCEPT ![g] = "done"] /\ hpkt[g].kind \in {"SA", "PA"}
    BY <1>4 DEF Link_SYN_ACK, Link_Answer, Goto, Answers
  <2> QED
    BY <1>1, <2>1 DEF HandlerStates, Completing
<1>5. ASSUME UNCHANGED <<hpc, hpkt>> PROVE Queued(i)' = Queued(i)
  BY <1>5 DEF Queued
<1>6. CASE \/ \E g \in Handlers : Walk(g)
           \/ \E r \in Routines : get_next_id(r) \/ send_syn(r)
           \/ Write_results \/ Timeout \/ Stop \/ UNCHANGED vars
           \/ \E j \in Ids : Age(j)
           \/ \E t \in Waited : Return(t)
           \/ \E p \in Packets : Server(p)
  BY <1>5, <1>6
  DEF Walk, get_next_id, send_syn, Write_results, Write_take, Write_row,
      Write_delete, Timeout, Stop, Age, Return, Server, vars, handlerVars
<1> QED
  BY <1>2, <1>3, <1>4, <1>6 DEF Next, Handle_pkt, Terminated

\* RecordsConserved is inductive relative to CoreInv.
LEMMA NextRecordsConserved ==
    CoreInv /\ RecordsConserved /\ [Next]_vars => RecordsConserved'
<1> SUFFICES ASSUME CoreInv, [Next]_vars, NEW i \in Ids,
                    Carried(i) = Cardinality(Queued(i))
             PROVE  Carried(i)' = Cardinality(Queued(i)')
  BY DEF RecordsConserved, Carried, InHand, Queued, Completing
<1> USE NodesAssumption DEF CoreInv
<1>0. /\ file \in Seq(Nodes) /\ Write_chan \in Seq(Ids) /\ Ids \subseteq Nodes
      /\ next \in [Nodes -> Handlers \cup {NULL}]
      /\ hpc \in [Handlers -> HandlerStates]
  BY DEF TypeInv, TypeOK, Nodes
<1>1. ASSUME NEW g \in Handlers, Enqueue(g)
      PROVE  Carried(i)' = Cardinality(Queued(i)')
  <2>1. /\ hpc[g] = "enqueue" /\ hpc' = [hpc EXCEPT ![g] = "done"]
        /\ Write_chan' = Append(Write_chan, hpkt[g].id)
        /\ UNCHANGED <<hpkt, file, wpc, wcur>>
    BY <1>1 DEF Enqueue, Goto, writerVars
  <2>2. hpkt[g].id \in Ids /\ hpkt[g].kind \in Completing
    BY <2>1, PacketFields DEF TypeInv, HandlersOK, QueueingInv
  <2>3. Queued(i)' = IF hpkt[g].id = i THEN Queued(i) \cup {g} ELSE Queued(i)
    <3>1. \A f \in Handlers :
            f \in Queued(i)' <=> f \in Queued(i) \/ (f = g /\ hpkt[g].id = i)
      BY <1>0, <2>1, <2>2 DEF Queued
    <3>2. Queued(i) \subseteq Handlers /\ Queued(i)' \subseteq Handlers
      BY DEF Queued
    <3> QED
      BY <3>1, <3>2
  <2>4. g \notin Queued(i) /\ IsFiniteSet(Queued(i)) /\ Cardinality(Queued(i)) \in Nat
    BY <2>1, FewHandlers DEF Queued, Busy
  <2>5. Cardinality(Queued(i) \cup {g}) = Cardinality(Queued(i)) + 1
    BY <2>4, FS_AddElement
  <2>6. /\ Count(i, Write_chan) \in Nat
        /\ Count(i, Write_chan') = Count(i, Write_chan)
                                     + (IF hpkt[g].id = i THEN 1 ELSE 0)
    BY <1>0, <2>1, <2>2, CountAppend
  <2>7. Count(i, file) \in Nat /\ InHand(i) \in {0, 1} /\ InHand(i)' = InHand(i)
    <3>1. i \in Nodes
      BY DEF Nodes
    <3> QED
      BY <1>0, <2>1, <3>1, CountAppend DEF InHand
  <2>8. Carried(i)' = Count(i, file) + Count(i, Write_chan') + InHand(i)
    BY <2>1, <2>7 DEF Carried, InHand, Count
  <2> QED
    BY <2>3, <2>4, <2>5, <2>6, <2>7, <2>8 DEF Carried
<1>2. CASE Write_take
  <2>1. /\ wpc = "select" /\ Write_chan # <<>> /\ wcur' = Head(Write_chan)
        /\ Write_chan' = Tail(Write_chan) /\ wpc' = "rows"
        /\ UNCHANGED <<hpc, hpkt, file>>
    BY <1>2 DEF Write_take, handlerVars
  <2>2. Queued(i)' = Queued(i)
    BY <2>1 DEF Queued
  <2>3. Count(i, Write_chan) = Count(i, Tail(Write_chan))
                                 + (IF Head(Write_chan) = i THEN 1 ELSE 0)
    BY <1>0, <2>1, CountTail
  <2>4. InHand(i) = 0 /\ InHand(i)' = IF Head(Write_chan) = i THEN 1 ELSE 0
    BY <2>1 DEF InHand
  <2>5. Count(i, Tail(Write_chan)) \in Nat /\ Count(i, file) \in Nat
    <3>1. Tail(Write_chan) \in Seq(Ids) /\ i \in Nodes
      BY <1>0, <2>1 DEF Nodes
    <3> QED
      BY <1>0, <3>1, CountAppend
  <2>6. Carried(i)' = Count(i, file) + Count(i, Tail(Write_chan)) + InHand(i)'
    BY <2>1 DEF Carried, Count
  <2> QED
    BY <2>2, <2>3, <2>4, <2>5, <2>6 DEF Carried
<1>3. CASE Write_row
  <2>1. /\ wpc = "rows" /\ wcur \in Nodes /\ file' = Append(file, wcur)
        /\ wcur' = next[wcur] /\ UNCHANGED <<hpc, hpkt, Write_chan>>
    BY <1>3 DEF Write_row, TypeInv, WriterOK, handlerVars
  <2>2. Queued(i)' = Queued(i)
    BY <2>1 DEF Queued
  <2>3. /\ Count(i, file) \in Nat
        /\ Count(i, file') = Count(i, file) + (IF wcur = i THEN 1 ELSE 0)
    BY <1>0, <2>1, CountAppend
  <2>4. InHand(i) = (IF wcur = i THEN 1 ELSE 0) /\ InHand(i)' = 0
    <3>1. next[wcur] # i
      BY <1>0, <2>1 DEF Nodes
    <3> QED
      BY <2>1, <3>1 DEF InHand
  <2>5. Count(i, Write_chan) \in Nat
    BY <1>0, CountAppend
  <2>6. Carried(i)' = Count(i, file') + Count(i, Write_chan) + InHand(i)'
    BY <2>1 DEF Carried, Count
  <2> QED
    BY <2>2, <2>3, <2>4, <2>5, <2>6 DEF Carried
<1>4. ASSUME UNCHANGED <<file, Write_chan>>, InHand(i)' = InHand(i),
             Queued(i)' = Queued(i)
      PROVE  Carried(i)' = Cardinality(Queued(i)')
  <2>1. Carried(i)' = Carried(i)
    BY <1>4 DEF Carried, Count
  <2> QED
    BY <1>4, <2>1
<1>5. CASE /\ \A g \in Handlers : ~Enqueue(g)
           /\ ~Write_take /\ ~Write_row
  <2>1. Queued(i)' = Queued(i)
    BY <1>5, QueuedKept
  <2>2. UNCHANGED <<file, Write_chan, wpc, wcur>> \/ Write_delete
    BY <1>5
    DEF Next, vars, Handle_pkt, Write_results, get_next_id, send_syn,
        Packet_capture, Lookup, Walk, Check_SYN_ACK, Check_Answer, Check_FIN_ACK,
        Link_SYN_ACK, Link_Answer, Age, Timeout, Stop, Return, Server, Terminated,
        writerVars
  <2>3. UNCHANGED <<file, Write_chan>> /\ InHand(i)' = InHand(i)
    BY <2>2 DEF Write_delete, InHand
  <2> QED
    BY <1>4, <2>1, <2>3
<1> QED
  BY <1>1, <1>2, <1>3, <1>5

\* base_scanner.go:80-87, tcp_scanner.go:159-174.  The channel and the writer
\* neither lose nor repeat a record, whatever the capacity and however many
\* handlers wait for it.
THEOREM NoRecordLost == Spec => []RecordsConserved
<1>1. Init => RecordsConserved
  <2> SUFFICES ASSUME Init, NEW i \in Ids PROVE Carried(i) = Cardinality(Queued(i))
    BY DEF RecordsConserved, Carried, InHand, Queued, Completing
  <2>1. Queued(i) = {}
    BY DEF Init, Queued
  <2>2. Count(i, <<>>) = 0
    <3>1. {k \in 1 .. Len(<<>>) : <<>>[k] = i} = {}
      OBVIOUS
    <3> QED
      BY <3>1, FS_EmptySet DEF Count
  <2> QED
    BY <2>1, <2>2, FS_EmptySet DEF Init, Carried, InHand
<1> QED
  BY <1>1, NextRecordsConserved, CoreInvariance, PTL DEF Spec
-----------------------------------------------------------------------------
(***************************************************************************)
(* Complete records.  While only one SYN-ACK of a connection was linked, it *)
(* is the one behind the root, and an answer linked at any time is linked   *)
(* behind it.                                                               *)
(***************************************************************************)
OneSynAck(i) == \A f, g \in LinkedFor(i, {"SA"}) : f = g

\* What the list of a linked node's connection holds.
Reaches(f) ==
    LET i == hpkt[f].id
    IN  IF hpkt[f].kind = "SA" THEN next[i] = f
                               ELSE next[i] # NULL /\ next[next[i]] # NULL

CompleteInv ==
    /\ \A i \in Ids : Unsent(i) => LinkedFor(i, {"SA"} \cup Answers) = {}
    /\ \A f \in Linked : OneSynAck(hpkt[f].id) => Reaches(f)
    /\ \A k \in 1 .. Len(Write_chan) : LinkedFor(Write_chan[k], Answers) # {}

\* A linked node is linked for its packet's connection, behind whose root there
\* can only be a SYN-ACK.
LEMMA LinkedPacket ==
    ASSUME TypeInv, NEW f \in Linked
    PROVE  /\ f \in Handlers /\ hpkt[f].id \in Ids /\ f \notin Ids
           /\ hpkt[f].kind \in {"SA"} \cup Answers
           /\ f \in LinkedFor(hpkt[f].id, {"SA"} \cup Answers)
           /\ next[hpkt[f].id] \in Handlers \cup {NULL}
<1>1. f \in Handlers /\ hpkt[f].kind \in {"SA"} \cup Answers /\ hpc[f] # "free"
  BY DEF Linked
<1>2. hpkt[f].id \in Ids
  BY <1>1, PacketFields DEF TypeInv, HandlersOK
<1> QED
  BY <1>1, <1>2, NodesAssumption DEF LinkedFor, TypeInv, TypeOK, Nodes

LEMMA BehindRoot ==
    ASSUME TypeInv, ListsInv, NEW i \in Ids, next[i] # NULL
    PROVE  next[i] \in LinkedFor(i, {"SA"})
<1>1. MayFollow(i, next[i])
  BY DEF ListsInv, ListsOrdered, Nodes
<1>2. next[i] \in Linked /\ next[i] \notin Ids
  BY <1>1, LinkedPacket DEF MayFollow
<1> QED
  BY <1>1, <1>2 DEF MayFollow, Conn, Flags, LinkedFor, Answers

\* Only linking adds to the linked nodes, and it adds the handler's own.
LEMMA LinkedStep ==
    ASSUME TypeInv, ListsInv, QueueingInv, [Next]_vars
    PROVE  /\ \A g \in Handlers : Link_SYN_ACK(g) \/ Link_Answer(g)
                => Linked' = Linked \cup {g} /\ g \notin Linked
           /\ (\A g \in Handlers : ~Link_SYN_ACK(g) /\ ~Link_Answer(g))
                => Linked' = Linked
<1>0. /\ hpc \in [Handlers -> HandlerStates]
      /\ hpkt \in [Handlers -> Packets \cup {NULL}]
  BY DEF TypeInv, TypeOK
<1>s. Linked \subseteq Linked'
  BY LinkedStable
<1>1. ASSUME NEW g \in Handlers, Link_SYN_ACK(g) \/ Link_Answer(g)
      PROVE  Linked' = Linked \cup {g} /\ g \notin Linked
  <2>1. /\ hpc[g] = "link" /\ UNCHANGED hpkt /\ hpkt[g].kind \in {"SA"} \cup Answers
        /\ \E pc \in {"enqueue", "done"} : hpc' = [hpc EXCEPT ![g] = pc]
    BY <1>1 DEF Link_SYN_ACK, Link_Answer, Goto
  <2>2. \A f \in Handlers : f \in Linked' <=> f \in Linked \/ f = g
    BY <1>0, <2>1 DEF Linked
  <2>3. Linked \subseteq Handlers /\ Linked' \subseteq Handlers /\ g \notin Linked
    BY <2>1 DEF Linked
  <2> QED
    BY <2>2, <2>3
<1>2. ASSUME NEW g \in Handlers, NEW pc \in HandlerStates,
             hpc' = [hpc EXCEPT ![g] = pc],
             \A f \in Handlers : f # g => hpkt'[f] = hpkt[f],
             g \in Linked' => g \in Linked
      PROVE  Linked' = Linked
  <2>1. \A f \in Handlers : f # g => hpc'[f] = hpc[f]
    BY <1>0, <1>2
  <2>2. \A f \in Handlers : f \in Linked' => f \in Linked
    BY <1>2, <2>1 DEF Linked
  <2>3. Linked' \subseteq Handlers
    BY DEF Linked
  <2> QED
    BY <1>s, <2>2, <2>3
<1>3. ASSUME NEW g \in Handlers, NEW p \in Packets, Packet_capture(g, p)
      PROVE  Linked' = Linked
  <2>1. /\ \E pc \in {"dropped", "lookup"} : hpc' = [hpc EXCEPT ![g] = pc]
        /\ hpkt' = [hpkt EXCEPT ![g] = p]
    BY <1>3 DEF Packet_capture, Drop, Goto
  <2>2. g \notin Linked'
    BY <1>0, <2>1 DEF Linked
  <2> QED
    BY <1>0, <1>2, <2>1, <2>2 DEF HandlerStates
<1>4. ASSUME NEW g \in Handlers,
             Lookup(g) \/ Check_SYN_ACK(g) \/ Check_Answer(g) \/ Check_FIN_ACK(g)
      PROVE  Linked' = Linked
  <2>1. /\ UNCHANGED hpkt
        /\ \/ \E pc \in {"walk", "link", "dropped"} : hpc' = [hpc EXCEPT ![g] = pc]
           \/ hpc' = [hpc EXCEPT ![g] = "enqueue"] /\ hpkt[g].kind = "FA"
    BY <1>4 DEF Lookup, Check_SYN_ACK, Check_Answer, Check_FIN_ACK, AtLast, Drop, Goto
  <2>2. g \notin Linked'
    BY <1>0, <2>1 DEF Linked, Answers
  <2> QED
    BY <1>2, <2>1, <2>2 DEF HandlerStates
<1>5. ASSUME NEW g \in Handlers, Enqueue(g)
      PROVE  Linked' = Linked
  <2>1. hpc[g] = "enqueue" /\ UNCHANGED hpkt /\ hpc' = [hpc EXCEPT ![g] = "done"]
    BY <1>5 DEF Enqueue, Goto
  <2>2. g \in Linked' => g \in Linked
    BY <2>1 DEF Linked
  <2> QED
    BY <1>2, <2>1, <2>2 DEF HandlerStates
<1>6. ASSUME UNCHANGED <<hpc, hpkt>> PROVE Linked' = Linked
  BY <1>6 DEF Linked
<1>7. ASSUME \/ \E g \in Handlers : Walk(g)
             \/ \E r \in Routines : get_next_id(r) \/ send_syn(r)
             \/ Write_results \/ Timeout \/ Stop \/ UNCHANGED vars
             \/ \E j \in Ids : Age(j)
             \/ \E t \in Waited : Return(t)
             \/ \E p \in Packets : Server(p)
      PROVE  Linked' = Linked
  <2>1. UNCHANGED <<hpc, hpkt>>
    BY <1>7
    DEF Walk, get_next_id, send_syn, Write_results, Write_take, Write_row,
        Write_delete, Timeout, Stop, Age, Return, Server, vars, handlerVars
  <2> QED
    BY <1>6, <2>1
<1>8. (\A g \in Handlers : ~Link_SYN_ACK(g) /\ ~Link_Answer(g)) => Linked' = Linked
  BY <1>3, <1>4, <1>5, <1>7 DEF Next, Handle_pkt, Terminated
<1> QED
  BY <1>1, <1>8

\* A step that links nothing leaves the sets of linked nodes as they are.
LEMMA LinkedForKept ==
    ASSUME TypeInv, [Next]_vars, Linked' = Linked
    PROVE  /\ \A i, K : LinkedFor(i, K)' = LinkedFor(i, K)
           /\ \A f \in Linked : hpkt'[f] = hpkt[f]
BY LinkedStable DEF LinkedFor

\* A SYN-ACK is linked behind its root.
LEMMA LinkSynAckComplete ==
    ASSUME TypeInv, ListsInv, QueueingInv, KeysInv, CompleteInv, [Next]_vars,
           NEW g \in Handlers, Link_SYN_ACK(g)
    PROVE  CompleteInv'
<1>0. PICK i : i = hpkt[g].id
  OBVIOUS
<1>1. /\ hpc[g] = "link" /\ hpkt[g].kind = "SA" /\ next' = [next EXCEPT ![hcur[g]] = g]
      /\ UNCHANGED <<hpkt, nextId, rid, Write_chan>>
  BY DEF Link_SYN_ACK, connVars
<1>2. Linked' = Linked \cup {g} /\ g \notin Linked
  BY LinkedStep
<1>i. i \in Ids
  BY <1>0, <1>1, PacketFields DEF TypeInv, HandlersOK
<1>3. g \in Linked' /\ \A f \in Linked' : /\ f \in Handlers /\ hpkt[f].id \in Ids
                                          /\ hpkt[f].kind \in {"SA"} \cup Answers
  BY <1>0, <1>1, <1>2, <1>i, LinkedPacket DEF Linked
<1>4. hcur[g] = i
  BY <1>0, <1>1, LinkedPacket DEF ListsInv, HoldsNode, Flags, Conn, Answers
<1>5. \A n \in Nodes : n # i => next'[n] = next[n]
  BY <1>1, <1>4 DEF TypeInv, TypeOK
<1>6. next'[i] = g
  BY <1>1, <1>4, <1>i DEF TypeInv, TypeOK, Nodes
<1>7. ~Unsent(i)
  BY <1>1, <1>4, <1>i DEF KeysInv
<1>8. \A j, K : LinkedFor(j, K)' = IF j = i /\ "SA" \in K THEN LinkedFor(j, K) \cup {g}
                                                         ELSE LinkedFor(j, K)
  BY <1>0, <1>1, <1>2 DEF LinkedFor
<1>9. \A f \in Linked' : OneSynAck(hpkt[f].id)' => Reaches(f)'
  <2> SUFFICES ASSUME NEW f \in Linked', NEW j, j = hpkt[f].id, OneSynAck(j)'
               PROVE  IF hpkt[f].kind = "SA"
                      THEN next'[j] = f
                      ELSE next'[j] # NULL /\ next'[next'[j]] # NULL
    BY <1>1 DEF OneSynAck, Reaches
  <2>0. j \in Ids
    BY <1>3
  <2>1. OneSynAck(j)
    <3>1. LinkedFor(j, {"SA"}) \subseteq LinkedFor(j, {"SA"})'
      BY LinkedForGrows
    <3> QED
      BY <3>1 DEF OneSynAck
  <2>2. CASE j = i /\ hpkt[f].kind = "SA"
    <3>1. f \in LinkedFor(i, {"SA"})' /\ g \in LinkedFor(i, {"SA"})'
      BY <1>0, <1>1, <1>3, <2>2 DEF LinkedFor
    <3> QED
      BY <1>6, <2>2, <3>1 DEF OneSynAck
  <2>3. CASE j = i /\ hpkt[f].kind # "SA"
    <3>0. f \in Linked
      BY <1>1, <1>2, <2>3
    <3>1. next[i] # NULL
      BY <2>1, <2>3, <3>0 DEF CompleteInv, Reaches
    <3>2. next[i] \in LinkedFor(i, {"SA"})
      BY <1>i, <3>1, BehindRoot
    <3>3. next[i] \in LinkedFor(i, {"SA"})' /\ g \in LinkedFor(i, {"SA"})'
      BY <1>8, <3>2
    <3>4. next[i] = g
      BY <2>3, <3>3 DEF OneSynAck
    <3> QED
      BY <1>2, <3>2, <3>4 DEF LinkedFor
  <2>4. CASE j # i
    <3>0. f \in Linked
      BY <1>0, <1>2, <2>4
    <3>1. f \in Linked /\ Reaches(f)
      BY <2>1, <3>0 DEF CompleteInv
    <3>2. /\ j \in Nodes /\ next[j] \in Handlers \cup {NULL}
          /\ i \in Ids
      BY <1>i, <2>0, <3>1, LinkedPacket DEF Nodes
    <3>3. next'[j] = next[j]
      BY <1>5, <2>4, <3>2
    <3>4. next[j] # NULL => next'[next[j]] = next[next[j]]
      BY <1>5, <3>2, NodesAssumption DEF Nodes
    <3> QED
      BY <3>1, <3>3, <3>4 DEF Reaches
  <2> QED
    BY <2>2, <2>3, <2>4
<1>10. \A j \in Ids : Unsent(j)' => LinkedFor(j, {"SA"} \cup Answers)' = {}
  BY <1>1, <1>7, <1>8 DEF CompleteInv, Unsent
<1>11. \A k \in 1 .. Len(Write_chan') : LinkedFor(Write_chan[k], Answers)' # {}
  BY <1>1, <1>8 DEF CompleteInv
<1> QED
  BY <1>9, <1>10, <1>11 DEF CompleteInv

\* An answer is linked behind a SYN-ACK: the one behind the root if it is the only one.
LEMMA LinkAnswerComplete ==
    ASSUME TypeInv, ListsInv, QueueingInv, KeysInv, CompleteInv, [Next]_vars,
           NEW g \in Handlers, Link_Answer(g)
    PROVE  CompleteInv'
<1>0. PICK i, n : i = hpkt[g].id /\ n = hcur[g]
  OBVIOUS
<1>1. /\ hpc[g] = "link" /\ hpkt[g].kind \in Answers /\ next' = [next EXCEPT ![n] = g]
      /\ UNCHANGED <<hpkt, nextId, rid, Write_chan>>
  BY <1>0 DEF Link_Answer, connVars
<1>2. Linked' = Linked \cup {g} /\ g \notin Linked
  BY LinkedStep
<1>3. n \in LinkedFor(i, {"SA"}) /\ n \in Linked /\ hpkt[n].kind = "SA" /\ hpkt[n].id = i
  BY <1>0, <1>1 DEF ListsInv, HoldsNode, Flags, Conn, LinkedFor, Answers
<1>4. n \in Handlers /\ n \notin Ids /\ i \in Ids
  BY <1>3, LinkedPacket
<1>5. /\ next'[n] = g /\ g # NULL
      /\ \A m \in Nodes : m # n => next'[m] = next[m]
      /\ \A j \in Ids : next'[j] = next[j]
  BY <1>1, <1>4, NodesAssumption DEF TypeInv, TypeOK, Nodes
<1>6. \A m \in Nodes : next[m] # NULL => next'[m] # NULL
  BY <1>5
<1>7. \A j : LinkedFor(j, {"SA"})' = LinkedFor(j, {"SA"})
  BY <1>1, <1>2 DEF LinkedFor, Answers
<1>8. ~Unsent(i)
  BY <1>3, <1>4 DEF CompleteInv, LinkedFor
<1>9. \A f \in Linked' : OneSynAck(hpkt[f].id)' => Reaches(f)'
  <2> SUFFICES ASSUME NEW f \in Linked', NEW j, j = hpkt[f].id, OneSynAck(j)
               PROVE  IF hpkt[f].kind = "SA"
                      THEN next'[j] = f
                      ELSE next'[j] # NULL /\ next'[next'[j]] # NULL
    BY <1>1, <1>7 DEF OneSynAck, Reaches
  <2>1. CASE f \in Linked
    <3>1. Reaches(f) /\ j \in Ids /\ next[j] \in Handlers \cup {NULL}
      BY <2>1, LinkedPacket DEF CompleteInv
    <3> QED
      BY <1>5, <1>6, <3>1 DEF Reaches, Nodes
  <2>2. CASE f = g
    <3>1. Reaches(n)
      BY <1>0, <1>3, <2>2 DEF CompleteInv
    <3>2. next[i] = n
      BY <1>3, <3>1 DEF Reaches
    <3>3. next'[i] = n /\ n # NULL
      BY <1>4, <1>5, <3>2, NodesAssumption DEF Nodes
    <3> QED
      BY <1>0, <1>1, <1>5, <2>2, <3>2, <3>3 DEF Answers
  <2> QED
    BY <1>2, <2>1, <2>2
<1>10. \A j, K : j # i => LinkedFor(j, K)' = LinkedFor(j, K)
  BY <1>0, <1>1, <1>2 DEF LinkedFor
<1>11. \A j \in Ids : Unsent(j)' => LinkedFor(j, {"SA"} \cup Answers)' = {}
  BY <1>1, <1>8, <1>10 DEF CompleteInv, Unsent
<1>12. \A k \in 1 .. Len(Write_chan') : LinkedFor(Write_chan[k], Answers)' # {}
  BY <1>1, LinkedForGrows DEF CompleteInv
<1> QED
  BY <1>9, <1>11, <1>12 DEF CompleteInv

\* CompleteInv is inductive relative to the invariants above.
LEMMA NextCompleteInv ==
    TypeInv /\ ListsInv /\ QueueingInv /\ KeysInv /\ CompleteInv /\ [Next]_vars
        => CompleteInv'
<1> SUFFICES ASSUME TypeInv, ListsInv, QueueingInv, KeysInv, CompleteInv, [Next]_vars
             PROVE  CompleteInv'
  OBVIOUS
<1>1. ASSUME NEW g \in Handlers, Link_SYN_ACK(g) PROVE CompleteInv'
  BY <1>1, LinkSynAckComplete
<1>2. ASSUME NEW g \in Handlers, Link_Answer(g) PROVE CompleteInv'
  BY <1>2, LinkAnswerComplete
<1>3. ASSUME Linked' = Linked,
             \A i \in Ids : Unsent(i)' => Unsent(i),
             \A f \in Linked : /\ next'[hpkt[f].id] = next[hpkt[f].id]
                               /\ next[hpkt[f].id] # NULL =>
                                    next'[next[hpkt[f].id]] = next[next[hpkt[f].id]],
             \A k \in 1 .. Len(Write_chan') : LinkedFor(Write_chan'[k], Answers) # {}
      PROVE  CompleteInv'
  <2>1. /\ \A i, K : LinkedFor(i, K)' = LinkedFor(i, K)
        /\ \A f \in Linked : hpkt'[f] = hpkt[f]
    BY <1>3, LinkedForKept
  <2>2. \A f \in Linked : OneSynAck(hpkt[f].id)' => OneSynAck(hpkt[f].id)
    BY <2>1 DEF OneSynAck
  <2>3. \A f \in Linked : Reaches(f) => Reaches(f)'
    BY <1>3, <2>1 DEF Reaches
  <2>4. \A f \in Linked' : OneSynAck(hpkt[f].id)' => Reaches(f)'
    BY <1>3, <2>1, <2>2, <2>3 DEF CompleteInv, OneSynAck
  <2>5. \A i \in Ids : Unsent(i)' => LinkedFor(i, {"SA"} \cup Answers)' = {}
    BY <1>3, <2>1 DEF CompleteInv
  <2>6. \A k \in 1 .. Len(Write_chan') : LinkedFor(Write_chan[k], Answers)' # {}
    BY <1>3, <2>1
  <2> QED
    BY <2>4, <2>5, <2>6 DEF CompleteInv
<1>a. ~(\E g \in Handlers : Link_SYN_ACK(g) \/ Link_Answer(g)) => Linked' = Linked
  BY LinkedStep
<1>4. ASSUME NEW r \in Routines, get_next_id(r), Linked' = Linked
      PROVE  CompleteInv'
  <2>1. /\ nextId \in Nat /\ nextId' = nextId + 1 /\ rid[r] = NULL
        /\ rid' = [rid EXCEPT ![r] = nextId] /\ UNCHANGED <<next, Write_chan>>
    BY <1>4, ConnsAssumption DEF get_next_id, TypeInv, TypeOK
  <2>2. \A i \in Ids : Unsent(i)' => Unsent(i)
    BY <2>1 DEF Unsent, Ids, TypeInv, TypeOK
  <2> QED
    BY <1>3, <1>4, <2>1, <2>2 DEF CompleteInv
<1>5. ASSUME NEW r \in Routines, send_syn(r), Linked' = Linked
      PROVE  CompleteInv'
  <2>1. /\ rid[r] \in Ids /\ Unsent(rid[r])
        /\ rid' = [rid EXCEPT ![r] = NULL] /\ next' = [next EXCEPT ![rid[r]] = NULL]
        /\ UNCHANGED <<nextId, Write_chan>>
    BY <1>5 DEF send_syn, Unsent, TypeInv, TypeOK
  <2>2. \A i \in Ids : Unsent(i)' => Unsent(i)
    BY <2>1, NodesAssumption DEF Unsent, TypeInv, TypeOK, Nodes
  <2>3. \A f \in Linked : /\ hpkt[f].id # rid[r] /\ hpkt[f].id \in Nodes
                          /\ next[hpkt[f].id] \in Handlers \cup {NULL}
    BY <2>1, LinkedPacket DEF CompleteInv, Nodes
  <2>4. \A m \in Nodes : m # rid[r] => next'[m] = next[m]
    BY <2>1 DEF TypeInv, TypeOK
  <2>5. \A f \in Linked : /\ next'[hpkt[f].id] = next[hpkt[f].id]
                          /\ next[hpkt[f].id] # NULL =>
                               next'[next[hpkt[f].id]] = next[next[hpkt[f].id]]
    BY <2>1, <2>3, <2>4, NodesAssumption DEF Nodes
  <2> QED
    BY <1>3, <1>5, <2>1, <2>2, <2>5 DEF CompleteInv
<1>6. ASSUME NEW g \in Handlers, Enqueue(g), Linked' = Linked
      PROVE  CompleteInv'
  <2>1. /\ hpc[g] = "enqueue" /\ Write_chan' = Append(Write_chan, hpkt[g].id)
        /\ UNCHANGED <<nextId, rid, next>>
    BY <1>6 DEF Enqueue, connVars
  <2>2. hpkt[g].id \in Ids /\ Write_chan \in Seq(Ids)
    BY <2>1, PacketFields DEF TypeInv, TypeOK, HandlersOK
  <2>3. LinkedFor(hpkt[g].id, Answers) # {}
    <3>1. hpkt[g].kind \in Completing
      BY <2>1 DEF QueueingInv
    <3>2. CASE hpkt[g].kind = "FA"
      BY <2>1, <3>2 DEF QueueingInv, LinkedFor, Answers
    <3>3. CASE hpkt[g].kind = "FPA"
      BY <2>1, <3>3 DEF LinkedFor, Linked, Answers
    <3> QED
      BY <3>1, <3>2, <3>3 DEF Completing
  <2>4. \A k \in 1 .. Len(Write_chan') :
          \/ k \in 1 .. Len(Write_chan) /\ Write_chan'[k] = Write_chan[k]
          \/ Write_chan'[k] = hpkt[g].id
    BY <2>1, <2>2
  <2>5. \A k \in 1 .. Len(Write_chan') : LinkedFor(Write_chan'[k], Answers) # {}
    BY <2>3, <2>4 DEF CompleteInv
  <2>6. \A i \in Ids : Unsent(i)' => Unsent(i)
    BY <2>1 DEF Unsent
  <2> QED
    BY <1>3, <1>6, <2>1, <2>5, <2>6
<1>7. ASSUME Write_take, Linked' = Linked
      PROVE  CompleteInv'
  <2>1. /\ Write_chan \in Seq(Ids) /\ Write_chan # <<>> /\ Write_chan' = Tail(Write_chan)
        /\ UNCHANGED <<nextId, rid, next>>
    BY <1>7 DEF Write_take, connVars, TypeInv, TypeOK
  <2>2. \A k \in 1 .. Len(Write_chan') :
          k + 1 \in 1 .. Len(Write_chan) /\ Write_chan'[k] = Write_chan[k + 1]
    BY <2>1
  <2>3. \A k \in 1 .. Len(Write_chan') : LinkedFor(Write_chan'[k], Answers) # {}
    BY <2>2 DEF CompleteInv
  <2>4. \A i \in Ids : Unsent(i)' => Unsent(i)
    BY <2>1 DEF Unsent
  <2> QED
    BY <1>3, <1>7, <2>1, <2>3, <2>4
<1>8. ASSUME UNCHANGED <<nextId, rid, next, Write_chan>>, Linked' = Linked
      PROVE  CompleteInv'
  <2>1. \A i \in Ids : Unsent(i)' => Unsent(i)
    BY <1>8 DEF Unsent
  <2> QED
    BY <1>3, <1>8, <2>1 DEF CompleteInv
<1>9. \/ \E g \in Handlers : Link_SYN_ACK(g) \/ Link_Answer(g) \/ Enqueue(g)
      \/ \E r \in Routines : get_next_id(r) \/ send_syn(r)
      \/ Write_take
      \/ UNCHANGED <<nextId, rid, next, Write_chan>>
  BY DEF Next, vars, Handle_pkt, Write_results, Packet_capture, Lookup, Walk,
         Check_SYN_ACK, Check_Answer, Check_FIN_ACK, Write_row, Write_delete, Age,
         Timeout, Stop, Return, Server, Terminated, connVars
<1> QED
  BY <1>1, <1>2, <1>a, <1>4, <1>5, <1>6, <1>7, <1>8, <1>9

\* tcp_scanner.go:208-211.  Where only one SYN-ACK got past the unlocked check, the
\* list of a queued connection reaches its DNS answer.
THEOREM QueuedRecordsComplete == Spec => []QueuedComplete
<1>1. Init => KeysInv /\ CompleteInv
  BY NodesAssumption DEF Init, KeysInv, Nodes, CompleteInv, Linked, LinkedFor
<1>2. CoreInv /\ KeysInv /\ CompleteInv /\ [Next]_vars => KeysInv' /\ CompleteInv'
  BY NextKeysInv, NextCompleteInv DEF CoreInv
<1>3. CoreInv /\ CompleteInv => QueuedComplete
  <2> SUFFICES ASSUME CoreInv, CompleteInv, NEW i \in Ids,
                      NEW k \in 1 .. Len(Write_chan), Write_chan[k] = i,
                      Cardinality(LinkedFor(i, {"SA"})) <= 1
               PROVE  next[i] # NULL /\ next[next[i]] # NULL
    BY DEF QueuedComplete
  <2>1. LinkedFor(i, {"SA"}) \subseteq Busy
    BY DEF LinkedFor, Linked, Busy
  <2>2. OneSynAck(i)
    BY <2>1, FewHandlers, AtMostOne DEF CoreInv, OneSynAck
  <2>3. PICK f \in LinkedFor(i, Answers) : TRUE
    BY DEF CompleteInv
  <2>4. f \in Linked /\ hpkt[f].id = i /\ hpkt[f].kind \in Answers
    BY <2>3 DEF LinkedFor
  <2>5. Reaches(f)
    BY <2>2, <2>4 DEF CompleteInv
  <2> QED
    BY <2>4, <2>5 DEF Reaches, Answers
<1> QED
  BY <1>1, <1>2, <1>3, CoreInvariance, PTL DEF Spec
=============================================================================
